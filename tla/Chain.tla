-------------------------------- MODULE Chain --------------------------------
(***************************************************************************)
(* The outside world of the execution path: one trading wallet on          *)
(* Robinhood Chain, seen through the RPC client the server uses (viem:     *)
(* getTransactionCount, sendRawTransaction, getTransactionReceipt,         *)
(* getBlockNumber).  Nothing here is code of the repository: the module    *)
(* states what that code may rely on, and no more.                         *)
(*                                                                         *)
(* A request that carries signed bytes is on the wire until it arrives,    *)
(* which it need never do; the caller's HTTP timeout does not recall it.   *)
(* A transaction the RPC accepted sits in the pool, may be evicted, and is *)
(* mined in nonce order; twelve confirmations make it final.  Only the     *)
(* coordinator spends the wallet's nonces.                                 *)
(***************************************************************************)
EXTENDS Integers

CONSTANTS Order,      \* the orders (live_orders.id) of one run
          Sig,        \* versions of the signed bytes a signer may return
          MaxNonce,   \* bound: nonces 0 .. MaxNonce of the wallet
          Outcome,    \* what a receipt may say
          NoTx        \* SQL NULL in a hash column

Purpose == {"allowance", "swap"}
Key     == [order : Order, purpose : Purpose]   \* `${intentId}:${purpose}`
Nonce   == 0 .. MaxNonce
Count   == 0 .. MaxNonce + 1                    \* what getTransactionCount may answer

\* Two signings of one row share its key and nonce and differ only in "sig".
Tx == [key : Key, nonce : Nonce, sig : Sig]

ASSUME NonceAssumption == MaxNonce \in Nat
ASSUME NoTxAssumption == NoTx \notin Tx

\* "odd" is a successful receipt without the pinned transfer pair.
ASSUME OutcomeAssumption == Outcome \subseteq {"ok", "reverted", "odd"}

VARIABLES wire,      \* signed bytes on their way to an RPC endpoint
          sent,      \* every transaction an endpoint ever accepted
          pool,      \* accepted and not yet mined or evicted
          receipt,   \* the receipt's outcome, "none" before it is mined
          final,     \* mined with at least twelve confirmations
          acct       \* the account's next nonce

chainVars == <<wire, sent, pool, receipt, final, acct>>

Mined(t) == t # NoTx /\ receipt[t] # "none"

ChainTypeOK ==
  /\ wire \subseteq Tx
  /\ sent \subseteq Tx
  /\ pool \subseteq Tx
  /\ receipt \in [Tx -> Outcome \cup {"none"}]
  /\ final \subseteq Tx
  /\ acct \in Nat

ChainInit ==
  /\ wire = {}
  /\ sent = {}
  /\ pool = {}
  /\ receipt = [t \in Tx |-> "none"]
  /\ final = {}
  /\ acct = 0

\* getTransactionCount(blockTag 'pending') answers n: the first nonce neither
\* mined nor held by a pooled transaction.
PendingNonce(n) ==
  /\ n >= acct
  /\ \A u \in pool : u.nonce # n
  /\ \A m \in acct .. n - 1 : \E u \in pool : u.nonce = m

\* An endpoint takes the bytes unless the nonce is spent or another pooled
\* transaction holds it ("nonce too low", "replacement underpriced").
Arrive(t) ==
  /\ t \in wire
  /\ t.nonce >= acct
  /\ \A u \in pool : u.nonce = t.nonce => u = t
  /\ wire' = wire \ {t}
  /\ pool' = pool \cup {t}
  /\ sent' = sent \cup {t}
  /\ UNCHANGED <<receipt, final, acct>>

Evict(t) ==
  /\ t \in pool
  /\ pool' = pool \ {t}
  /\ UNCHANGED <<wire, sent, receipt, final, acct>>

Mine(t) ==
  /\ t \in pool
  /\ t.nonce = acct
  /\ \E r \in Outcome : receipt' = [receipt EXCEPT ![t] = r]
  /\ acct' = acct + 1
  /\ pool' = pool \ {t}
  /\ UNCHANGED <<wire, sent, final>>

\* The twelfth confirmation; blocks become final in order.
Finalize(t) ==
  /\ receipt[t] # "none"
  /\ t \notin final
  /\ \A u \in Tx : receipt[u] # "none" /\ u.nonce < t.nonce => u \in final
  /\ final' = final \cup {t}
  /\ UNCHANGED <<wire, sent, pool, receipt, acct>>

ChainStep ==
  \/ \E t \in wire : Arrive(t)
  \/ \E t \in pool : Evict(t) \/ Mine(t)
=============================================================================
