---------------------------------- MODULE Swap ----------------------------------
(***************************************************************************)
(* One directed swap on its way to the chain: placeSwapIntent and          *)
(* verifyQuote (live/adapters/zeroXRobinhood.ts), the reference price it   *)
(* is weighed against (robinhood/referencePoller.ts, referencePrice.ts),   *)
(* and what the cycle does when it fails (live/fullMarketAutonomy.ts).     *)
(*                                                                         *)
(* Every step awaits the chain, 0x or the signer, and the world goes on:   *)
(* time passes, prices are polled, a transaction nobody waits for any more *)
(* is mined, and the bots' orders (placeOrder) approve and sell the same   *)
(* dollars of the same wallet to the same contract.  The swap sells        *)
(* settlement dollars; time is in quote lives, amounts are whole, and a    *)
(* transaction costs one of gas.  What may become of the coordinator's own *)
(* rows is Coordinator's.                                                  *)
(***************************************************************************)
EXTENDS Integers, SequencesExt, FiniteSetsExt

CONSTANTS Amounts,    \* what an order may sell
          EthPrice,   \* what one unit of the bought token may be worth
          Outputs,    \* the output a firm quote may name
          Scale,      \* the basis points of a whole
          MaxSlip,    \* maxSlippageBps
          RawCap,     \* what the signer's policy lets an order sell
          StaleAge,   \* DEFAULT_STALE_MS
          FetchTime,  \* the timeout of the request for a firm quote
          Life,       \* expiresAt - quotedAt
          MaxSwap,    \* bound: orders
          MaxBotTx,   \* bound: transactions of the bots
          MaxClock    \* bound: time

ASSUME SwapAssumption ==
  /\ Amounts \cup EthPrice \cup Outputs \subseteq Nat \ {0} /\ EthPrice # {}
  /\ Scale \in Nat /\ MaxSlip \in 0 .. Scale - 1
  /\ {RawCap, StaleAge, FetchTime, Life, MaxSwap, MaxBotTx, MaxClock} \subseteq Nat

VARIABLES clock,
          ref,      \* the newest rh_reference_prices row
          grant,    \* the wallet's allowance on the chain
          txs,      \* execution_transactions, and what became of them
          gasRows,  \* the council's transactions with a gas row in the ledger
          job,      \* placeSwapIntent at work
          placed,   \* live_orders: what became of them
          haltedFor,\* the orders that halted the network
          swapHalt, \* live_config.halted
          sent      \* the newest swap that was broadcast, as it was then

swapVars == <<clock, ref, grant, txs, gasRows, job, placed, haltedFor,
              swapHalt, sent>>

SwapOrder == 1 .. MaxSwap

\* The order of a bots' transaction; they are not told apart.
BotOrder == 0

Quote == [asked : BOOLEAN, value : BOOLEAN, buy : Outputs, min : Outputs,
          callMin : Outputs]
NoQuote == [asked |-> FALSE, value |-> FALSE, buy |-> 0, min |-> 0, callMin |-> 0]
NoSwap == [amount |-> 0, at |-> 0, price |-> 0, priceAt |-> 0, quote |-> NoQuote,
           grant |-> 0, others |-> 0]

\* "tx" is the approval it waits for; "others", what the bots' approval named
\* that was mined after the job last knew the allowance.
NoJob == [at |-> "idle", order |-> 0, amount |-> 0, gas |-> 0, price |-> 0,
          priceAt |-> 0, by |-> 0, quote |-> NoQuote, tx |-> 0, others |-> 0]

SwapTypeOK ==
  /\ clock \in 0 .. MaxClock
  /\ ref \in [price : EthPrice, at : 0 .. MaxClock]
  /\ grant \in Nat
  /\ \A i \in DOMAIN txs :
       txs[i] \in [order : SwapOrder \cup {BotOrder}, purpose : {"allowance", "swap"},
                   amount : Amounts \cup {0}, state : {"broadcast", "confirmed", "unknown"},
                   mined : {"no", "yes", "reverted"}]
  /\ gasRows \subseteq DOMAIN txs
  /\ job.at \in {"idle", "allowance", "reset", "exact", "mining", "checks", "quote",
                 "settler", "submit"}
  /\ job.order \in {0} \cup SwapOrder
  /\ job.by \in 0 .. MaxClock + FetchTime + Life
  /\ job.quote \in {NoQuote} \cup Quote
  /\ placed \in [SwapOrder -> {"none", "placing", "sent", "risk_rejected", "lost"}]
  /\ haltedFor \subseteq SwapOrder
  /\ swapHalt \in BOOLEAN

SwapInit ==
  /\ clock = 0
  /\ ref = [price |-> CHOOSE p \in EthPrice : TRUE, at |-> 0]
  /\ grant = 0
  /\ txs = <<>>
  /\ gasRows = {}
  /\ job = NoJob
  /\ placed = [o \in SwapOrder |-> "none"]
  /\ haltedFor = {}
  /\ swapHalt = FALSE
  /\ sent = NoSwap

\* A row is "confirmed" here once it holds the wallet no more.
Unresolved == \E i \in DOMAIN txs : txs[i].state # "confirmed"

FromBots(i) == txs[i].order = BotOrder
-----------------------------------------------------------------------------
(* Time, prices and the chain.                                              *)

\* A request to 0x gives up after its timeout.
TimeGoes ==
  /\ clock < MaxClock
  /\ job.at = "quote" => clock < job.by
  /\ clock' = clock + 1
  /\ UNCHANGED <<ref, grant, txs, gasRows, job, placed, haltedFor, swapHalt, sent>>

\* pollUniverseReferences: the row is dated when it is written, whenever the
\* feed heard of the price.
Polled(mark) ==
  /\ ref' = [price |-> mark, at |-> clock]
  /\ UNCHANGED <<clock, grant, txs, gasRows, job, placed, haltedFor, swapHalt, sent>>

\* What the wallet sent is mined, whoever still waits for it.
Spent(i) ==
  /\ txs[i].purpose = "swap"
  /\ txs[i].amount <= grant
  /\ grant' = grant - txs[i].amount
  /\ UNCHANGED job

Granted(i) ==
  /\ txs[i].purpose = "allowance"
  /\ grant' = txs[i].amount
  /\ job' = [job EXCEPT !.others = IF FromBots(i) /\ job # NoJob THEN txs[i].amount ELSE 0]

TxMined(i) ==
  /\ txs[i].state = "broadcast" /\ txs[i].mined = "no"
  /\ \/ /\ txs' = [txs EXCEPT ![i].mined = "yes"]
        /\ Spent(i) \/ Granted(i)
     \/ /\ txs' = [txs EXCEPT ![i].mined = "reverted"]
        /\ UNCHANGED <<grant, job>>
  /\ UNCHANGED <<clock, ref, gasRows, placed, haltedFor, swapHalt, sent>>

\* TransactionCoordinator.recover, the reconciler's settlement of a swap, and
\* a bots' order that sees the receipt of its approval.
TxRecovered(i) ==
  /\ txs[i].state = "broadcast" /\ txs[i].mined # "no"
  /\ txs' = [txs EXCEPT ![i].state = "confirmed"]
  /\ UNCHANGED <<clock, ref, grant, gasRows, job, placed, haltedFor, swapHalt, sent>>

\* The coordinator takes a transaction only when none is unresolved.
Submitted(order, purpose, amount) ==
  /\ ~Unresolved
  /\ txs' = Append(txs, [order |-> order, purpose |-> purpose, amount |-> amount,
                         state |-> "broadcast", mined |-> "no"])

\* placeOrder, between any two steps of a swap: it raises an allowance that is
\* too small, by a reading of any age, and leaves a larger one; then it sells.
BotSends(purpose, amount) ==
  /\ Cardinality({i \in DOMAIN txs : FromBots(i)}) < MaxBotTx
  /\ Submitted(BotOrder, purpose, amount)
  /\ UNCHANGED <<clock, ref, grant, gasRows, job, placed, haltedFor, swapHalt, sent>>

\* haltNetwork, by a bot's order in doubt or a hand.
OthersHalt ==
  /\ swapHalt' = TRUE
  /\ UNCHANGED <<clock, ref, grant, txs, gasRows, job, placed, haltedFor, sent>>
-----------------------------------------------------------------------------
(* The end of an attempt.                                                   *)

\* Mutant of HasChild: only one that is confirmed counts.
HasChildConfirmed(o) == \E i \in DOMAIN txs : txs[i].order = o /\ txs[i].state = "confirmed"

HasChild(o) == \E i \in DOMAIN txs : txs[i].order = o

\* The cycle stores the refusal, and halts if a transaction was made.
Refuse ==
  /\ placed' = [placed EXCEPT ![job.order] = "risk_rejected"]
  /\ job' = NoJob
  /\ IF HasChild(job.order)
     THEN swapHalt' = TRUE /\ haltedFor' = haltedFor \cup {job.order}
     ELSE UNCHANGED <<swapHalt, haltedFor>>

\* A preflight, an answer of 0x or the signer, or a check fails.
Rejected ==
  /\ job.at \notin {"idle", "mining"}
  /\ Refuse
  /\ UNCHANGED <<clock, ref, grant, txs, gasRows, sent>>
-----------------------------------------------------------------------------
(* placeSwapIntent.                                                         *)

\* The newest row, aged against the clock.
Age == clock - ref.at

\* referencePriceGate; what else runtimeAssetGate reads may reject any time.
Usable == Age <= StaleAge

\* signerAmountPolicyGate.
WithinCap(amount) == amount <= RawCap

\* The order is stored; the runtime checks and the gates of both assets pass.
PlaceStarts(o, amount) ==
  /\ job = NoJob /\ ~swapHalt
  /\ placed[o] = "none" /\ \A p \in 1 .. o - 1 : placed[p] # "none"
  /\ Usable
  /\ WithinCap(amount)
  /\ placed' = [placed EXCEPT ![o] = "placing"]
  /\ job' = [NoJob EXCEPT !.at = "allowance", !.order = o, !.amount = amount]
  /\ UNCHANGED <<clock, ref, grant, txs, gasRows, haltedFor, swapHalt, sent>>

\* Mutant of Suffices: an allowance that is larger will do.
SufficesLarger(allowance, amount) == allowance >= amount

\* "Exact allowance. A stale larger allowance is reduced."
Suffices(allowance, amount) == allowance = amount

AllowanceRead ==
  /\ job.at = "allowance"
  /\ job' = [job EXCEPT !.others = 0, !.at =
       IF Suffices(grant, job.amount) THEN "checks"
       ELSE IF grant > 0 THEN "reset" ELSE "exact"]
  /\ UNCHANGED <<clock, ref, grant, txs, gasRows, placed, haltedFor, swapHalt, sent>>

Approve ==
  /\ job.at \in {"reset", "exact"}
  /\ Submitted(job.order, "allowance", IF job.at = "reset" THEN 0 ELSE job.amount)
  /\ job' = [job EXCEPT !.at = "mining", !.tx = Len(txs')]
  /\ UNCHANGED <<clock, ref, grant, gasRows, placed, haltedFor, swapHalt, sent>>

\* The receipt is a success: the gas is booked, and the next step follows.
ReceiptSeen ==
  LET i == job.tx IN
  /\ job.at = "mining"
  /\ txs[i].mined = "yes"
  /\ txs' = [txs EXCEPT ![i].state = "confirmed"]
  /\ gasRows' = gasRows \cup {i}
  /\ job' = [job EXCEPT !.gas = @ + 1, !.at = IF txs[i].amount = 0 THEN "exact" ELSE "checks"]
  /\ UNCHANGED <<clock, ref, grant, placed, haltedFor, swapHalt, sent>>

\* The approval reverted, or no receipt came in time, if it was mined or not;
\* the row stays as it is.
NoReceipt ==
  /\ job.at = "mining"
  /\ Refuse
  /\ UNCHANGED <<clock, ref, grant, txs, gasRows, sent>>

\* Mutant of Checked: what the first gates saw is good enough.
CheckedBefore ==
  job' = [job EXCEPT !.at = "quote", !.price = ref.price, !.priceAt = ref.at,
                     !.by = clock + FetchTime]

\* The gates again, after the approvals; the firm quote is asked for at once.
Checked ==
  /\ Usable
  /\ job' = [job EXCEPT !.at = "quote", !.price = ref.price, !.priceAt = ref.at,
                        !.by = clock + FetchTime]

FinalGates ==
  /\ job.at = "checks"
  /\ Checked
  /\ UNCHANGED <<clock, ref, grant, txs, gasRows, placed, haltedFor, swapHalt, sent>>
-----------------------------------------------------------------------------
(* The firm quote.                                                          *)

\* impliedBps, in whole basis points.
WithinSlip(q) == ((q.buy - q.min) * Scale) \div q.buy <= MaxSlip

\* Mutant of VerifyQuote: the calldata's own minimum is not looked at.
VerifyQuoteByTerms(q) == q.asked /\ ~q.value /\ WithinSlip(q)

\* verifyQuote: the trade that was asked for, to an approved contract, with no
\* native value, and a minimum its calldata enforces.
VerifyQuote(q) == q.asked /\ ~q.value /\ WithinSlip(q) /\ q.callMin = q.min

QuoteArrives(q) ==
  /\ job.at = "quote"
  /\ VerifyQuote(q)
  /\ job' = [job EXCEPT !.at = "settler", !.quote = q, !.by = clock + Life]
  /\ UNCHANGED <<clock, ref, grant, txs, gasRows, placed, haltedFor, swapHalt, sent>>

\* Sold at the reference prices of the final gates, and after every gas.
NetEdge == job.quote.min * job.price - job.amount - job.gas - 1

\* verifySettler: the target is the registry's current or previous one.
SettlerRead ==
  /\ job.at = "settler"
  /\ NetEdge > 0
  /\ job' = [job EXCEPT !.at = "submit"]
  /\ UNCHANGED <<clock, ref, grant, txs, gasRows, placed, haltedFor, swapHalt, sent>>

\* The coordinator signs and sends while the quote lives.
SwapSent ==
  /\ job.at = "submit"
  /\ clock < job.by
  /\ Submitted(job.order, "swap", job.amount)
  /\ sent' = [amount |-> job.amount, at |-> clock, price |-> job.price,
              priceAt |-> job.priceAt, quote |-> job.quote, grant |-> grant,
              others |-> job.others]
  /\ placed' = [placed EXCEPT ![job.order] = "sent"]
  /\ job' = NoJob
  /\ UNCHANGED <<clock, ref, grant, gasRows, haltedFor, swapHalt>>

\* It died before: the row is unknown and keeps the wallet.
QuoteExpired ==
  /\ job.at = "submit"
  /\ clock >= job.by
  /\ ~Unresolved
  /\ txs' = Append(txs, [order |-> job.order, purpose |-> "swap", amount |-> job.amount,
                         state |-> "unknown", mined |-> "no"])
  /\ placed' = [placed EXCEPT ![job.order] = "risk_rejected"]
  /\ job' = NoJob
  /\ swapHalt' = TRUE /\ haltedFor' = haltedFor \cup {job.order}
  /\ UNCHANGED <<clock, ref, grant, gasRows, sent>>
-----------------------------------------------------------------------------
\* The operator enables autonomy again: the readiness wants every transaction
\* resolved.
Enabled ==
  /\ swapHalt /\ ~Unresolved
  /\ swapHalt' = FALSE
  /\ UNCHANGED <<clock, ref, grant, txs, gasRows, job, placed, haltedFor, sent>>

\* A boot keeps what was armed only if the readiness passes.
SwapDies ==
  /\ job # NoJob
  /\ job' = NoJob
  /\ placed' = [placed EXCEPT ![job.order] = "lost"]
  /\ swapHalt' \in IF Unresolved THEN {TRUE} ELSE {swapHalt, TRUE}
  /\ UNCHANGED <<clock, ref, grant, txs, gasRows, haltedFor, sent>>

SwapNext ==
  \/ TimeGoes
  \/ \E mark \in EthPrice : Polled(mark)
  \/ \E i \in DOMAIN txs : TxMined(i) \/ TxRecovered(i)
  \/ \E purpose \in {"allowance", "swap"}, amount \in Amounts : BotSends(purpose, amount)
  \/ OthersHalt
  \/ \E o \in SwapOrder, amount \in Amounts : PlaceStarts(o, amount)
  \/ AllowanceRead \/ Approve \/ ReceiptSeen \/ NoReceipt \/ FinalGates
  \/ \E q \in Quote : QuoteArrives(q)
  \/ SettlerRead \/ SwapSent \/ QuoteExpired \/ Rejected
  \/ Enabled \/ SwapDies

SwapSpec == SwapInit /\ [][SwapNext]_swapVars
-----------------------------------------------------------------------------
(* Properties.                                                              *)

\* However long the approvals took, a swap is broadcast against a price no
\* older than the gate, the request for the quote and the quote's life allow.
EdgeFresh == sent # NoSwap => sent.at - sent.priceAt < StaleAge + FetchTime + Life

\* "Exact allowance ... unlimited approval is never tolerated": when a swap is
\* broadcast, the wallet grants no more than it sells, whatever earlier orders
\* of either kind left behind and however late their transactions were mined;
\* only a bots' approval mined after the swap last knew the allowance makes it
\* more, and then no more than that approval named.
NoLargerGrant == sent.grant <= sent.amount \/ sent.grant <= sent.others

\* The minimum the calldata enforces is less than one basis point beyond the
\* approved slippage below the quoted output, and pays for what is sold.
GuaranteeHolds ==
  sent # NoSwap =>
    /\ sent.quote.callMin * Scale > sent.quote.buy * (Scale - MaxSlip - 1)
    /\ sent.quote.callMin * sent.price > sent.amount

\* A swap's approval whose gas the ledger misses belongs to an order that halted the
\* network, unless it is still being placed or the process died over it.
GasKnown ==
  \A i \in DOMAIN txs :
    ~FromBots(i) /\ txs[i].purpose = "allowance" /\ txs[i].mined = "yes" /\ i \notin gasRows =>
      \/ txs[i].order \in haltedFor
      \/ placed[txs[i].order] \in {"placing", "lost"}

\* What is signed for the council is what it may be signed for.
SwapSound == EdgeFresh /\ NoLargerGrant /\ GuaranteeHolds /\ GasKnown
=================================================================================
