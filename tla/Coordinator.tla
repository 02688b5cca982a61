----------------------------- MODULE Coordinator -----------------------------
(***************************************************************************)
(* TransactionCoordinator (live/transactionCoordinator.ts): the per-wallet *)
(* queue, the lease, the execution_transactions rows, and recover().       *)
(*                                                                         *)
(* JavaScript runs one task at a time and switches tasks only at an await, *)
(* so an action is the code between two awaits.  A task is a caller of     *)
(* submit() (Call) or the process's own recover() loop (Proc); both run    *)
(* signPrepared and broadcastExisting, and recover() takes neither the     *)
(* queue nor the lease.  A request ends with Return or Throw; a module     *)
(* that composes this one says what its caller does with a throw.          *)
(*                                                                         *)
(* Time is abstract: a key's quote is "expired" (expires_at passed), its   *)
(* row is "aged" (older than 15 minutes), the lease lapses.                *)
(***************************************************************************)
EXTENDS Chain, Sequences

CONSTANTS Call,       \* callers of submit(), one outstanding request each
          Proc,       \* server processes on one database
          Nobody,     \* no lease, or a lapsed one
          Departed,   \* the ownerId of a process that is gone
          NoKey,      \* no key
          MaxCrash,   \* bound: process crashes
          MaxGate     \* bound: recover() runs of a process that is up

ASSUME TaskAssumption == Call \cap Proc = {}
ASSUME OwnerAssumption == Nobody \notin Proc /\ Departed \notin Proc /\ Nobody # Departed
ASSUME NoKeyAssumption == NoKey \notin Key
ASSUME BoundAssumption == MaxCrash \in Nat /\ MaxGate \in Nat

VARIABLES row,       \* execution_transactions by idempotency_key
          order,     \* live_orders: state and tx_ref (= venue_order_id)
          lease,     \* execution_leases.owner_id
          expired,   \* keys whose quote deadline has passed
          aged,      \* keys whose row is older than 15 minutes
          queue,     \* walletQueues, per process
          task,      \* where each caller and each recover() stands
          scan,      \* recover()'s snapshot of unresolved rows, per process
          phase,     \* "down", "boot" or "up", per process
          crashes, gates

dbVars    == <<row, order, lease>>
clockVars == <<expired, aged>>
taskVars  == <<queue, task, scan, phase, crashes, gates>>
coordVars == <<chainVars, dbVars, clockVars, taskVars>>

Task       == Call \cup Proc
Unresolved == {"prepared", "signed", "broadcast", "unknown"}
RowState   == Unresolved \cup {"none", "confirmed", "reverted"}
Row        == [state : RowState, nonce : Nonce, tx : Tx \cup {NoTx}, payload : BOOLEAN]
NoRow      == [state |-> "none", nonce |-> 0, tx |-> NoTx, payload |-> FALSE]
OrderState == {"none", "submitting", "pending", "filled", "failed", "reconciling"}
At(pc, k, t) == [pc |-> pc, key |-> k, tx |-> t, seen |-> 0]

\* Mutant of Asked: the nonce after the next one.
AskedNext(k, n) == [pc |-> "nonce", key |-> k, tx |-> NoTx, seen |-> n + 1]

Asked(k, n)  == [pc |-> "nonce", key |-> k, tx |-> NoTx, seen |-> n]

Idle       == At("idle", NoKey, NoTx)
TaskPc     == {"idle", "queued", "nonce", "sign", "send", "scan", "orders", "books", "clear"}
NoScan     == [todo |-> {}, snap |-> [k \in Key |-> NoRow], bad |-> FALSE]
Lapsed(k)  == k \in expired
Exists(k)  == row[k].state # "none"
Busy(k)    == \E w \in Task : task[w].key = k

CoordTypeOK ==
  /\ ChainTypeOK
  /\ row \in [Key -> Row]
  /\ order \in [Order -> [state : OrderState, ref : Tx \cup {NoTx}]]
  /\ lease \in Proc \cup {Nobody, Departed}
  /\ expired \subseteq Key
  /\ aged \subseteq Key
  /\ queue \in [Proc -> Seq(Call)]
  /\ task \in [Task -> [pc : TaskPc, key : Key \cup {NoKey}, tx : Tx \cup {NoTx}, seen : Count]]
  /\ scan \in [Proc -> [todo : SUBSET Key, snap : [Key -> Row], bad : BOOLEAN]]
  /\ phase \in [Proc -> {"down", "boot", "up"}]
  /\ crashes \in 0 .. MaxCrash
  /\ gates \in 0 .. MaxGate

CoordInit ==
  /\ ChainInit
  /\ row = [k \in Key |-> NoRow]
  /\ lease = Nobody
  /\ expired = {}
  /\ aged = {}
  /\ queue = [p \in Proc |-> <<>>]
  /\ task = [w \in Task |-> Idle]
  /\ scan = [p \in Proc |-> NoScan]
  /\ phase = [p \in Proc |-> "down"]
  /\ crashes = 0
  /\ gates = 0

-----------------------------------------------------------------------------
(* How a request ends: release() hands the turn on, whatever happened.  In  *)
(* recover() the loop moves to the next row, and a throw counts the row as  *)
(* unresolved.                                                              *)

\* Mutant of Finish: the turn is handed on only after a success.
FinishKeepingTurn(w, k, threw) ==
  IF w \in Call
    THEN /\ task' = [task EXCEPT ![w] = Idle]
         /\ queue' = [p \in Proc |-> IF queue[p] # <<>> /\ Head(queue[p]) = w /\ ~threw
                                       THEN Tail(queue[p]) ELSE queue[p]]
         /\ UNCHANGED scan
    ELSE /\ task' = [task EXCEPT ![w] = At("scan", NoKey, NoTx)]
         /\ scan' = [scan EXCEPT ![w] = [todo |-> @.todo \ {k}, snap |-> @.snap,
                                         bad |-> @.bad \/ threw]]
         /\ UNCHANGED queue

Finish(w, k, threw) ==
  IF w \in Call
    THEN /\ task' = [task EXCEPT ![w] = Idle]
         /\ queue' = [p \in Proc |-> IF queue[p] # <<>> /\ Head(queue[p]) = w
                                       THEN Tail(queue[p]) ELSE queue[p]]
         /\ UNCHANGED scan
    ELSE /\ task' = [task EXCEPT ![w] = At("scan", NoKey, NoTx)]
         /\ scan' = [scan EXCEPT ![w] = [todo |-> @.todo \ {k}, snap |-> @.snap,
                                         bad |-> @.bad \/ threw]]
         /\ UNCHANGED queue

Return(w, k) == Finish(w, k, FALSE)
Throw(w, k)  == Finish(w, k, TRUE)

\* UPDATE execution_transactions SET state = s, whatever the state was.
SetState(k, s) == row' = [row EXCEPT ![k].state = s]

\* The quote deadline passed before signing or before sending: the row is
\* parked as unknown, whatever its state is by now.
GiveUp(w, k) ==
  /\ Lapsed(k)
  /\ SetState(k, "unknown")
  /\ Throw(w, k)
  /\ UNCHANGED wire

\* signPrepared up to its await.
BeginSign(w, k) ==
  /\ ~Lapsed(k)
  /\ task' = [task EXCEPT ![w] = At("sign", k, NoTx)]
  /\ UNCHANGED <<wire, queue, scan>>

\* broadcastExisting up to its await; r is the row as the caller read it.  A
\* row whose payload was cleared sends nothing and can only fail.
BeginSend(w, k, r) ==
  /\ ~Lapsed(k)
  /\ task' = [task EXCEPT ![w] = At("send", k, IF r.payload THEN r.tx ELSE NoTx)]
  /\ wire' = IF r.payload THEN wire \cup {r.tx} ELSE wire
  /\ UNCHANGED <<queue, scan>>
-----------------------------------------------------------------------------
(* submit() and submitLocked().                                             *)

Submit(p, c, k) ==
  /\ phase[p] = "up"
  /\ task[c].pc = "idle"
  /\ queue' = [queue EXCEPT ![p] = Append(@, c)]
  /\ task' = [task EXCEPT ![c] = At("queued", k, NoTx)]
  /\ UNCHANGED <<wire, row, lease, scan>>

Turn(p, c) ==
  /\ queue[p] # <<>>
  /\ Head(queue[p]) = c
  /\ task[c].pc = "queued"

\* acquireLease: ours, absent or lapsed.
AcquireLease(p) == lease \in {p, Nobody} /\ lease' = p

LeaseRefused(p, c) ==
  /\ Turn(p, c)
  /\ lease \notin {p, Nobody}
  /\ Throw(c, task[c].key)
  /\ UNCHANGED <<wire, row, lease>>

\* The key's row is past signing: nothing to do, or nothing this may do.
AlreadyBroadcast(p, c) ==
  LET k == task[c].key IN
  /\ Turn(p, c)
  /\ AcquireLease(p)
  /\ row[k].state = "broadcast" /\ row[k].tx # NoTx
  /\ Return(c, k)
  /\ UNCHANGED <<wire, row>>

AlreadySettled(p, c) ==
  LET k == task[c].key IN
  /\ Turn(p, c)
  /\ AcquireLease(p)
  /\ row[k].state \in {"unknown", "confirmed", "reverted"}
  /\ Throw(c, k)
  /\ UNCHANGED <<wire, row>>

Resend(p, c) ==
  LET k == task[c].key IN
  /\ Turn(p, c)
  /\ AcquireLease(p)
  /\ row[k].state = "signed" /\ row[k].payload
  /\ \/ BeginSend(c, k, row[k]) /\ UNCHANGED row
     \/ GiveUp(c, k)

SignAgain(p, c) ==
  LET k == task[c].key IN
  /\ Turn(p, c)
  /\ AcquireLease(p)
  /\ row[k].state = "prepared"
  /\ \/ BeginSign(c, k) /\ UNCHANGED row
     \/ GiveUp(c, k)

\* Mutant of WalletBusy: a broadcast transaction counts as done.
WalletUnsent == \E other \in Key : row[other].state \in Unresolved \ {"broadcast"}

WalletBusy == \E other \in Key : row[other].state \in Unresolved

WalletBlocked(p, c) ==
  LET k == task[c].key IN
  /\ Turn(p, c)
  /\ AcquireLease(p)
  /\ ~Exists(k)
  /\ WalletBusy
  /\ Throw(c, k)
  /\ UNCHANGED <<wire, row>>

AskNonce(p, c) ==
  LET k == task[c].key IN
  /\ Turn(p, c)
  /\ AcquireLease(p)
  /\ ~Exists(k)
  /\ ~WalletBusy
  /\ \E n \in Count : /\ PendingNonce(n)
                     /\ task' = [task EXCEPT ![c] = Asked(k, n)]
  /\ UNCHANGED <<wire, row, queue, scan>>

\* The reply carries the count at the request or at the reply.  A key or a
\* nonce the table already has is refused by its UNIQUE constraint.
Taken(k, n) == Exists(k) \/ \E other \in Key : Exists(other) /\ row[other].nonce = n

NonceReply(c) ==
  LET k == task[c].key
      Inserted(n, s) == [state |-> s, nonce |-> n, tx |-> NoTx, payload |-> FALSE]
  IN
  /\ task[c].pc = "nonce"
  /\ \E n \in Nonce :
       /\ n = task[c].seen \/ PendingNonce(n)
       /\ ~Taken(k, n)
       /\ \/ /\ BeginSign(c, k)
             /\ row' = [row EXCEPT ![k] = Inserted(n, "prepared")]
          \/ /\ Lapsed(k)
             /\ row' = [row EXCEPT ![k] = Inserted(n, "unknown")]
             /\ Throw(c, k)
             /\ UNCHANGED wire
  /\ UNCHANGED lease

NonceError(c) ==
  /\ task[c].pc = "nonce"
  /\ Throw(c, task[c].key)
  /\ UNCHANGED <<wire, row, lease>>
-----------------------------------------------------------------------------
(* signPrepared after its await.  Only a row still "prepared" takes the     *)
(* signature; broadcastExisting then sends what the row holds.              *)

\* Mutant of Stored: the UPDATE without its "WHERE ... state = 'prepared'".
StoredUnguarded(k, s, state) ==
  [state |-> state, nonce |-> row[k].nonce, payload |-> TRUE,
   tx |-> [key |-> k, nonce |-> row[k].nonce, sig |-> s]]

Stored(k, s, state) ==
  IF row[k].state = "prepared"
    THEN [state |-> state, nonce |-> row[k].nonce, payload |-> TRUE,
          tx |-> [key |-> k, nonce |-> row[k].nonce, sig |-> s]]
    ELSE row[k]

\* Mutant of SignReply: the bytes are sent before they are stored.
SignReplyUnstored(w) ==
  /\ task[w].pc = "sign"
  /\ \E s \in Sig : BeginSend(w, task[w].key, Stored(task[w].key, s, "signed"))
  /\ UNCHANGED <<row, lease>>

SignReply(w) ==
  LET k == task[w].key IN
  /\ task[w].pc = "sign"
  /\ \E s \in Sig :
       \/ /\ row' = [row EXCEPT ![k] = Stored(k, s, "signed")]
          /\ BeginSend(w, k, Stored(k, s, "signed"))
       \/ /\ Lapsed(k)
          /\ row' = [row EXCEPT ![k] = Stored(k, s, "unknown")]
          /\ Throw(w, k)
          /\ UNCHANGED wire
  /\ UNCHANGED lease

SignError(w) ==
  /\ task[w].pc = "sign"
  /\ Throw(w, task[w].key)
  /\ UNCHANGED <<wire, row, lease>>

\* broadcastExisting after its await.  An endpoint can answer with the hash or
\* "already known" only for bytes some endpoint took.
SendReply(w) ==
  LET k == task[w].key IN
  /\ task[w].pc = "send"
  /\ task[w].tx \in sent
  /\ SetState(k, "broadcast")
  /\ order' = IF k.purpose = "swap"
                THEN [order EXCEPT ![k.order] = [state |-> "pending", ref |-> task[w].tx]]
                ELSE order
  /\ Return(w, k)
  /\ UNCHANGED <<wire, lease>>

SendError(w) ==
  /\ task[w].pc = "send"
  /\ Throw(w, task[w].key)
  /\ UNCHANGED <<wire, row, lease>>
-----------------------------------------------------------------------------
(* recover(): one SELECT of the unresolved rows, then row by row.  The rows *)
(* are taken in any order, ORDER BY id being one of them.                   *)

BeginScan(p) ==
  /\ task[p].pc = "idle"
  /\ task' = [task EXCEPT ![p] = At("scan", NoKey, NoTx)]
  /\ scan' = [scan EXCEPT ![p] = [todo |-> {k \in Key : row[k].state \in Unresolved},
                                  snap |-> row, bad |-> FALSE]]
  /\ UNCHANGED <<wire, row, order, lease, queue>>

Scanning(p, k) == task[p].pc = "scan" /\ k \in scan[p].todo

ScanPrepared(p, k) ==
  /\ Scanning(p, k)
  /\ scan[p].snap[k].state = "prepared"
  /\ \/ BeginSign(p, k) /\ UNCHANGED row
     \/ GiveUp(p, k)
  /\ UNCHANGED <<order, lease>>

HasBytes(r) == r.state # "prepared" /\ r.tx # NoTx /\ r.payload

ScanNoPayload(p, k) ==
  /\ Scanning(p, k)
  /\ scan[p].snap[k].state # "prepared" /\ ~HasBytes(scan[p].snap[k])
  /\ SetState(k, "unknown")
  /\ Throw(p, k)
  /\ UNCHANGED <<wire, order, lease>>

\* Mutant of ReceiptState: any receipt counts as a success.
ReceiptSeen(t) == "confirmed"

ReceiptState(t) == IF receipt[t] = "reverted" THEN "reverted" ELSE "confirmed"

ScanReceipt(p, k) ==
  LET t == scan[p].snap[k].tx IN
  /\ Scanning(p, k)
  /\ HasBytes(scan[p].snap[k])
  /\ Mined(t)
  /\ SetState(k, ReceiptState(t))
  /\ order' = IF k.purpose = "swap"
                THEN [order EXCEPT ![k.order] = [state |-> "pending", ref |-> t]]
                ELSE order
  /\ Return(p, k)
  /\ UNCHANGED <<wire, lease>>

\* No receipt, or none could be read.
ScanResend(p, k) ==
  /\ Scanning(p, k)
  /\ HasBytes(scan[p].snap[k]) /\ scan[p].snap[k].state = "signed"
  /\ \/ BeginSend(p, k, scan[p].snap[k]) /\ UNCHANGED row
     \/ GiveUp(p, k)
  /\ UNCHANGED <<order, lease>>

ScanSilent(p, k) ==
  /\ Scanning(p, k)
  /\ HasBytes(scan[p].snap[k]) /\ scan[p].snap[k].state \in {"broadcast", "unknown"}
  /\ IF k \in aged THEN SetState(k, "unknown") ELSE UNCHANGED row
  /\ Finish(p, k, k \in aged)
  /\ UNCHANGED <<wire, order, lease>>
-----------------------------------------------------------------------------
(* Clocks and processes.                                                    *)

\* A lapse matters once some other process could take the lease.
LeaseLapses ==
  /\ lease # Nobody
  /\ \E p \in Proc : p # lease
  /\ lease' = Nobody
  /\ UNCHANGED <<row, order>>

Expire(k) ==
  /\ k \notin expired
  /\ k.purpose = "swap"
  /\ Exists(k) \/ Busy(k)
  /\ expired' = expired \cup {k}
  /\ UNCHANGED aged

\* No request stays open for 15 minutes: every RPC call has a timeout.
Age(k) ==
  /\ k \notin aged
  /\ row[k].state \in {"signed", "broadcast", "unknown"}
  /\ k.purpose = "swap" => Lapsed(k)
  /\ ~Busy(k)
  /\ aged' = aged \cup {k}
  /\ UNCHANGED expired

Running(p) == {queue[p][i] : i \in 1 .. Len(queue[p])} \cup {p}

Start(p) ==
  /\ phase[p] = "down"
  /\ phase' = [phase EXCEPT ![p] = "boot"]
  /\ BeginScan(p)
  /\ UNCHANGED <<crashes, gates>>

\* A restarted process has a new ownerId; what was on the wire stays there.
Crash(p) ==
  /\ phase[p] # "down"
  /\ crashes < MaxCrash
  /\ crashes' = crashes + 1
  /\ phase' = [phase EXCEPT ![p] = "down"]
  /\ task' = [w \in Task |-> IF w \in Running(p) THEN Idle ELSE task[w]]
  /\ queue' = [queue EXCEPT ![p] = <<>>]
  /\ scan' = [scan EXCEPT ![p] = NoScan]
  /\ lease' = IF lease = p THEN Departed ELSE lease
  /\ UNCHANGED <<wire, row, order, gates>>

\* safetyGate and armShadow run recover() while the process trades.
Gate(p) ==
  /\ phase[p] = "up"
  /\ gates < MaxGate
  /\ gates' = gates + 1
  /\ BeginScan(p)
  /\ UNCHANGED <<phase, crashes>>
-----------------------------------------------------------------------------
\* What an RPC endpoint may have seen is what the row durably holds, so there
\* is one transaction per key whatever is re-signed, resent or restarted: the
\* class comment's "durable before the RPC sees them".
DurableBeforeSent == \A t \in wire \cup sent : row[t.key].tx = t

\* With one server process the wallet has one unresolved transaction at most,
\* across submit(), recover() and restarts.
OneUnresolved ==
  \A j, k \in Key : row[j].state \in Unresolved /\ row[k].state \in Unresolved => j = k
=============================================================================
