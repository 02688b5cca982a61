---------------------------- MODULE OrderExecution ----------------------------
(***************************************************************************)
(* A real-money order from an approved intent to the ledger, across        *)
(* crashes: mirrorTrade (live/liveNetwork.ts), placeOrder and              *)
(* getOrderStatus (live/adapters/zeroXRobinhood.ts) over the transaction   *)
(* coordinator, settleConfirmedOrder (live/settlement.ts), the order poll, *)
(* the boot sequence and the arming gate (live/supervisor.ts,              *)
(* live/reconciler.ts), and the network halt.                              *)
(*                                                                         *)
(* submit() hands its result to placeOrder and mirrorTrade by promise      *)
(* continuations alone, so the order update a throw causes belongs to the  *)
(* step that throws.  An intent is placed once, so no key is submitted     *)
(* twice here; CoordinatorSpec covers a resubmitted key.                   *)
(***************************************************************************)
EXTENDS Coordinator

CONSTANT Unapproved   \* orders whose ERC-20 allowance is too small

ASSUME CallerAssumption == Call = Order
ASSUME UnapprovedAssumption == Unapproved \subseteq Order

VARIABLES job,      \* where placeOrder stands, per order
          home,     \* the process that runs it
          ledger,   \* live_ledger rows per order
          halted,   \* live_config.halted
          poll,     \* pollPendingOrders' snapshot, per process
          redo      \* recoverPendingOrders' snapshot and the gate's findings

orderVars == <<job, home, ledger, halted, poll, redo>>
vars      == <<coordVars, orderVars>>

Item     == [order : Order, ref : Tx \cup {NoTx}]
JobPc    == {"new", "checks", "allowance", "approving", "quoting", "swap", "over"}
NoPoll   == [on |-> FALSE, todo |-> {}]
NoRedo   == [todo |-> {}, bad |-> FALSE, venue |-> {}]
SwapKey(o)      == [order |-> o, purpose |-> "swap"]
AllowanceKey(o) == [order |-> o, purpose |-> "allowance"]
InFlight == {"submitting", "pending", "reconciling"}

TypeOK ==
  /\ CoordTypeOK
  /\ job \in [Order -> JobPc]
  /\ home \in [Order -> Proc \cup {Nobody}]
  /\ ledger \in [Order -> Nat]
  /\ halted \in BOOLEAN
  /\ poll \in [Proc -> [on : BOOLEAN, todo : SUBSET Item]]
  /\ redo \in [Proc -> [todo : SUBSET Item, bad : BOOLEAN, venue : SUBSET Order]]

Init ==
  /\ CoordInit
  /\ order = [o \in Order |-> [state |-> "none", ref |-> NoTx]]
  /\ job = [o \in Order |-> "new"]
  /\ home = [o \in Order |-> Nobody]
  /\ ledger = [o \in Order |-> 0]
  /\ halted = FALSE
  /\ poll = [p \in Proc |-> NoPoll]
  /\ redo = [p \in Proc |-> NoRedo]

\* What no step of a task touches: the chain past the wire, the clocks and the
\* processes.
World == <<sent, pool, receipt, final, acct, clockVars, phase, crashes, gates>>
Tasks == <<wire, row, lease, queue, task, scan>>
-----------------------------------------------------------------------------
(* mirrorTrade's two ends.                                                  *)

\* mirrorTrade asks only for the newest transaction of the order, and takes a
\* confirmed one for a clean refusal.
LastKey(o) == IF Exists(SwapKey(o)) THEN SwapKey(o) ELSE AllowanceKey(o)

\* Mutant of FailOrder: a failed order never halts the network.
FailQuietly(o) ==
  /\ order' = [order EXCEPT ![o].state = "failed"]
  /\ job' = [job EXCEPT ![o] = "over"]
  /\ UNCHANGED <<home, ledger, halted, poll, redo>>

FailOrder(o) ==
  /\ order' = [order EXCEPT ![o].state = "failed"]
  /\ halted' = (halted \/ row'[LastKey(o)'].state \notin {"none", "confirmed"})
  /\ job' = [job EXCEPT ![o] = "over"]
  /\ UNCHANGED <<home, ledger, poll, redo>>

\* INSERT OR IGNORE by intent_id, evaluateIntent (which refuses while halted)
\* and placeOrder up to its first await.
Propose(p, o) ==
  /\ phase[p] = "up"
  /\ ~halted
  /\ order[o].state = "none"
  /\ order' = [order EXCEPT ![o].state = "submitting"]
  /\ job' = [job EXCEPT ![o] = "checks"]
  /\ home' = [home EXCEPT ![o] = p]
  /\ UNCHANGED <<Tasks, World, ledger, halted, poll, redo>>
-----------------------------------------------------------------------------
(* placeOrder.                                                              *)

\* runtimeSafety, the allowance read, the quote, verifyQuote, verifySettler
\* and the edge checks: any of them may refuse.
Refused(o) ==
  /\ job[o] \in {"checks", "quoting"}
  /\ UNCHANGED <<Tasks, World>>
  /\ FailOrder(o)

NeedsAllowance(o) ==
  /\ job[o] = "checks"
  /\ o \in Unapproved
  /\ Submit(home[o], o, AllowanceKey(o))
  /\ job' = [job EXCEPT ![o] = "allowance"]
  /\ UNCHANGED <<World, order, home, ledger, halted, poll, redo>>

HasAllowance(o) ==
  /\ job[o] = "checks"
  /\ o \notin Unapproved
  /\ job' = [job EXCEPT ![o] = "quoting"]
  /\ UNCHANGED <<Tasks, World, order, home, ledger, halted, poll, redo>>

\* waitForTransactionReceipt on the approval; 90 seconds without one throws.
ApprovalMined(o) ==
  LET k == AllowanceKey(o) IN
  /\ job[o] = "approving"
  /\ Mined(row[k].tx)
  /\ receipt[row[k].tx] # "reverted"
  /\ row' = [row EXCEPT ![k].state = "confirmed", ![k].payload = FALSE]
  /\ job' = [job EXCEPT ![o] = "quoting"]
  /\ UNCHANGED <<World, wire, order, lease, queue, task, scan, home, ledger, halted, poll, redo>>

ApprovalReverted(o) ==
  LET k == AllowanceKey(o) IN
  /\ job[o] = "approving"
  /\ Mined(row[k].tx)
  /\ receipt[row[k].tx] = "reverted"
  /\ SetState(k, "reverted")
  /\ FailOrder(o)
  /\ UNCHANGED <<World, wire, lease, queue, task, scan>>

ApprovalTimeout(o) ==
  /\ job[o] = "approving"
  /\ UNCHANGED <<Tasks, World>>
  /\ FailOrder(o)

Quoted(o) ==
  /\ job[o] = "quoting"
  /\ Submit(home[o], o, SwapKey(o))
  /\ job' = [job EXCEPT ![o] = "swap"]
  /\ UNCHANGED <<World, order, home, ledger, halted, poll, redo>>

\* submit() resolves: the allowance path waits for the receipt; the swap path
\* returns pending, and mirrorTrade repeats the coordinator's order update.
Submitted(o) ==
  /\ job' = [job EXCEPT ![o] = IF @ = "allowance" THEN "approving" ELSE "over"]
  /\ UNCHANGED <<home, ledger, halted, poll, redo>>

\* A request in progress goes on; its caller hears nothing yet.
Continues == UNCHANGED <<order, orderVars>>

\* task'[c] is idle again when the request ended.
Hears(c) == IF task'[c].pc = "idle" THEN FailOrder(c) ELSE Continues

TurnStep(p, o) ==
  /\ \/ LeaseRefused(p, o)
     \/ WalletBlocked(p, o)
     \/ AskNonce(p, o)
  /\ Hears(o)
  /\ UNCHANGED World

NonceStep(o) == (NonceReply(o) \/ NonceError(o)) /\ Hears(o) /\ UNCHANGED World
SignStep(o)  == (SignReply(o) \/ SignError(o)) /\ Hears(o) /\ UNCHANGED World
SendStep(o)  ==
  /\ \/ SendReply(o) /\ Submitted(o)
     \/ SendError(o) /\ Hears(o)
  /\ UNCHANGED World
-----------------------------------------------------------------------------
(* getOrderStatus.  A receipt may always turn out to be unreadable; then a  *)
(* young signed or broadcast row reads as pending and any other as unknown. *)

Answer == {"unreadable", "reverted", "shallow", "final", "odd"}

\* Mutant of MayAnswer: a fill is read before its twelve confirmations.
MayAnswerEarly(a, t) ==
  \/ a = "unreadable"
  \/ a = "reverted" /\ receipt[t] = "reverted"
  \/ a = "final" /\ receipt[t] = "ok"

MayAnswer(a, t) ==
  \/ a = "unreadable"
  \/ a = "reverted" /\ receipt[t] = "reverted"
  \/ a = "shallow" /\ receipt[t] \in {"ok", "odd"}
  \/ a = "final" /\ receipt[t] = "ok" /\ t \in final
  \/ a = "odd" /\ receipt[t] = "odd" /\ t \in final

\* Mutant of StatusOf: the 15 minutes never run out.
StatusOfYoung(a, t) ==
  CASE a = "reverted" -> "failed"
    [] a = "final" -> "filled"
    [] a = "odd" -> "unknown"
    [] OTHER -> "pending"

StatusOf(a, t) ==
  CASE a = "reverted" -> "failed"
    [] a = "shallow" -> "pending"
    [] a = "final" -> "filled"
    [] a = "odd" -> "unknown"
    [] OTHER -> IF row[t.key].state \in {"signed", "broadcast"} /\ t.key \notin aged
                  THEN "pending" ELSE "unknown"

RowAfter(a, r) ==
  CASE a = "reverted" -> [r EXCEPT !.state = "reverted", !.payload = FALSE]
    [] a = "final" -> [r EXCEPT !.state = "confirmed", !.payload = FALSE]
    [] a = "odd" -> [r EXCEPT !.state = "unknown"]
    [] OTHER -> r

\* UPDATE ... WHERE signed_tx_hash = t.
Resolve(a, t) == row' = [k \in Key |-> IF row[k].tx = t THEN RowAfter(a, row[k]) ELSE row[k]]

\* Mutant of Settle: posted without a look at the ledger.
SettleAgain(o) ==
  /\ ledger' = [ledger EXCEPT ![o] = @ + 1]
  /\ order' = [order EXCEPT ![o].state = "filled"]

\* Mutant of Settle: the order is left for another transaction to update.
SettleLedgerOnly(o) ==
  /\ ledger' = IF ledger[o] > 0 THEN ledger ELSE [ledger EXCEPT ![o] = @ + 1]
  /\ UNCHANGED order

\* settleConfirmedOrder posts once; an order already posted is left as it is.
Settle(o) ==
  IF ledger[o] > 0
    THEN UNCHANGED <<order, ledger>>
    ELSE /\ ledger' = [ledger EXCEPT ![o] = @ + 1]
         /\ order' = [order EXCEPT ![o].state = "filled"]

\* The order's new state when the answer is not a fill; whatever it was.
Record(o, state) == order' = [order EXCEPT ![o].state = state] /\ UNCHANGED ledger

\* What the poll and the recovery both do with an order's answer.
Follow(i, a) ==
  /\ MayAnswer(a, i.ref)
  /\ Resolve(a, i.ref)
  /\ CASE StatusOf(a, i.ref) = "filled" -> Settle(i.order)
       [] StatusOf(a, i.ref) = "unknown" -> Record(i.order, "reconciling")
       [] OTHER -> Record(i.order, StatusOf(a, i.ref))
-----------------------------------------------------------------------------
(* pollPendingOrders, every 30 seconds.                                     *)

PollStart(p) ==
  /\ phase[p] = "up"
  /\ ~poll[p].on
  /\ LET due == {i \in Item : order[i.order].state = "pending"
                              /\ order[i.order].ref = i.ref /\ i.ref # NoTx} IN
     /\ due # {}
     /\ poll' = [poll EXCEPT ![p] = [on |-> TRUE, todo |-> due]]
  /\ UNCHANGED <<Tasks, World, order, job, home, ledger, halted, redo>>

\* Mutant of PollOne: an unknown outcome does not halt.
PollOneQuietly(p, i, a) ==
  /\ poll[p].on /\ i \in poll[p].todo
  /\ Follow(i, a)
  /\ halted' = (halted \/ StatusOf(a, i.ref) = "failed")
  /\ poll' = [poll EXCEPT ![p] = IF @.todo = {i} THEN NoPoll ELSE [on |-> TRUE, todo |-> @.todo \ {i}]]
  /\ UNCHANGED <<World, wire, lease, queue, task, scan, job, home, redo>>

PollOne(p, i, a) ==
  /\ poll[p].on /\ i \in poll[p].todo
  /\ Follow(i, a)
  /\ halted' = (halted \/ StatusOf(a, i.ref) \in {"unknown", "failed"})
  /\ poll' = [poll EXCEPT ![p] = IF @.todo = {i} THEN NoPoll ELSE [on |-> TRUE, todo |-> @.todo \ {i}]]
  /\ UNCHANGED <<World, wire, lease, queue, task, scan, job, home, redo>>
-----------------------------------------------------------------------------
(* Recovery, at boot and behind the arming gate: recover(), then            *)
(* recoverPendingOrders, then reconcileAll, then the preflight.             *)

RecoverySend(p) ==
  /\ \/ (SignReply(p) \/ SignError(p) \/ SendError(p)) /\ UNCHANGED order
     \/ SendReply(p)
  /\ UNCHANGED <<World, orderVars>>

RecoveryScan(p) ==
  /\ \E k \in Key :
       \/ ScanPrepared(p, k)
       \/ ScanNoPayload(p, k)
       \/ ScanReceipt(p, k)
       \/ ScanResend(p, k)
       \/ ScanSilent(p, k)
  /\ UNCHANGED <<World, orderVars>>

\* recoverPendingOrders' SELECT, right after recover() returns.
OrdersStart(p) ==
  /\ task[p].pc = "scan" /\ scan[p].todo = {}
  /\ task' = [task EXCEPT ![p].pc = "orders"]
  /\ redo' = [redo EXCEPT ![p] =
       [todo |-> {i \in Item : order[i.order].state \in InFlight /\ order[i.order].ref = i.ref},
        bad |-> FALSE, venue |-> {}]]
  /\ UNCHANGED <<World, wire, row, lease, queue, scan, order, job, home, ledger, halted, poll>>

OrderOrphaned(p, i) ==
  /\ task[p].pc = "orders" /\ i \in redo[p].todo
  /\ i.ref = NoTx
  /\ Record(i.order, "reconciling")
  /\ redo' = [redo EXCEPT ![p].todo = @ \ {i}, ![p].bad = TRUE]
  /\ UNCHANGED <<Tasks, World, job, home, halted, poll>>

OrderAsked(p, i, a) ==
  /\ task[p].pc = "orders" /\ i \in redo[p].todo
  /\ i.ref # NoTx
  /\ Follow(i, a)
  /\ halted' = (halted \/ StatusOf(a, i.ref) = "failed")
  /\ redo' = [redo EXCEPT ![p].todo = @ \ {i},
                          ![p].bad = @ \/ StatusOf(a, i.ref) \in {"unknown", "failed"}]
  /\ UNCHANGED <<World, wire, lease, queue, task, scan, job, home, poll>>

\* The orders whose swap moved the wallet's balances.
Moved == {o \in Order : \E t \in Tx : t.key = SwapKey(o) /\ receipt[t] \in {"ok", "odd"}}

\* Unresolved orders halt.  The gate throws on anything unresolved; the boot
\* goes on to reconcile and remembers.
OrdersEnd(p) ==
  LET bad == scan[p].bad \/ redo[p].bad IN
  /\ task[p].pc = "orders" /\ redo[p].todo = {}
  /\ halted' = (halted \/ redo[p].bad)
  /\ IF bad /\ phase[p] = "up"
       THEN /\ task' = [task EXCEPT ![p] = Idle]
            /\ scan' = [scan EXCEPT ![p] = NoScan]
            /\ redo' = [redo EXCEPT ![p] = NoRedo]
       ELSE /\ task' = [task EXCEPT ![p].pc = "books"]
            /\ redo' = [redo EXCEPT ![p] = [todo |-> {}, bad |-> bad, venue |-> Moved]]
            /\ UNCHANGED scan
  /\ UNCHANGED <<World, wire, row, lease, queue, order, job, home, ledger, poll>>

\* reconcileAll compares the venue's balances, read before its await, with the
\* ledger after it; drift halts.  Then the preflight reads the open work.
Drift(p) == redo[p].venue # {o \in Order : ledger[o] > 0}
OpenWork ==
  \/ \E o \in Order : order[o].state \in InFlight
  \/ \E k \in Key : row[k].state \in Unresolved

RecoveryOver(p) ==
  /\ task' = [task EXCEPT ![p] = Idle]
  /\ scan' = [scan EXCEPT ![p] = NoScan]
  /\ redo' = [redo EXCEPT ![p] = NoRedo]

BootEnds(p) ==
  /\ task[p].pc = "books" /\ phase[p] = "boot"
  /\ halted' = (halted \/ redo[p].bad \/ Drift(p) \/ OpenWork)
  /\ phase' = [phase EXCEPT ![p] = "up"]
  /\ RecoveryOver(p)
  /\ UNCHANGED <<wire, sent, pool, receipt, final, acct, clockVars, crashes, gates>>
  /\ UNCHANGED <<row, lease, queue, order, job, home, ledger, poll>>

GateFails(p) ==
  /\ task[p].pc = "books" /\ phase[p] = "up"
  /\ Drift(p) \/ OpenWork
  /\ halted' = (halted \/ Drift(p))
  /\ RecoveryOver(p)
  /\ UNCHANGED <<World, wire, row, lease, queue, order, job, home, ledger, poll>>

GatePasses(p) ==
  /\ task[p].pc = "books" /\ phase[p] = "up"
  /\ ~Drift(p) /\ ~OpenWork
  /\ task' = [task EXCEPT ![p].pc = "clear"]
  /\ UNCHANGED <<World, wire, row, lease, queue, scan, order, orderVars>>

\* The preflight's later checks await the signer and the RPC; then arm() lifts
\* the halt, while the other gated calls leave it as it is.
GateReturns(p) ==
  /\ task[p].pc = "clear"
  /\ \/ halted' = FALSE
     \/ UNCHANGED halted
  /\ RecoveryOver(p)
  /\ UNCHANGED <<World, wire, row, lease, queue, order, job, home, ledger, poll>>
-----------------------------------------------------------------------------
(* Halts from elsewhere, clocks, processes, the chain.                      *)

\* The sentinel, the reconcile timer, the admin route.
Halt ==
  /\ ~halted
  /\ halted' = TRUE
  /\ UNCHANGED <<coordVars, job, home, ledger, poll, redo>>

ClockStep ==
  /\ \/ LeaseLapses /\ UNCHANGED clockVars
     \/ \E k \in Key : (Expire(k) \/ Age(k)) /\ UNCHANGED dbVars
  /\ UNCHANGED <<chainVars, taskVars, orderVars>>

StartOrGate(p) ==
  /\ Start(p) \/ Gate(p)
  /\ UNCHANGED <<sent, pool, receipt, final, acct, clockVars, orderVars>>

\* The jobs and the poll of a process die with it.
CrashStep(p) ==
  /\ Crash(p)
  /\ job' = [o \in Order |-> IF home[o] = p THEN "over" ELSE job[o]]
  /\ poll' = [poll EXCEPT ![p] = NoPoll]
  /\ redo' = [redo EXCEPT ![p] = NoRedo]
  /\ UNCHANGED <<sent, pool, receipt, final, acct, clockVars, home, ledger, halted>>

WorldStep ==
  /\ ChainStep \/ \E t \in Tx : Finalize(t)
  /\ UNCHANGED <<dbVars, clockVars, taskVars, orderVars>>
-----------------------------------------------------------------------------
PlaceStep(o) ==
  \/ Refused(o)
  \/ NeedsAllowance(o)
  \/ HasAllowance(o)
  \/ ApprovalMined(o)
  \/ ApprovalReverted(o)
  \/ ApprovalTimeout(o)
  \/ Quoted(o)
  \/ \E p \in Proc : TurnStep(p, o)
  \/ NonceStep(o)
  \/ SignStep(o)
  \/ SendStep(o)

PollStep(p) == PollStart(p) \/ \E i \in Item, a \in Answer : PollOne(p, i, a)

RecoveryStep(p) ==
  \/ RecoverySend(p)
  \/ RecoveryScan(p)
  \/ OrdersStart(p)
  \/ \E i \in Item : OrderOrphaned(p, i) \/ \E a \in Answer : OrderAsked(p, i, a)
  \/ OrdersEnd(p)
  \/ BootEnds(p)
  \/ GateFails(p)
  \/ GatePasses(p)
  \/ GateReturns(p)

Next ==
  \/ \E p \in Proc, o \in Order : Propose(p, o)
  \/ \E o \in Order : PlaceStep(o)
  \/ \E p \in Proc : PollStep(p) \/ RecoveryStep(p) \/ StartOrGate(p) \/ CrashStep(p)
  \/ Halt
  \/ ClockStep
  \/ WorldStep

Spec == Init /\ [][Next]_vars
-----------------------------------------------------------------------------
\* The ledger is posted once per order, and only for a swap that succeeded with
\* twelve confirmations, whichever of poll, boot and gate settled it.
LedgerFollowsChain ==
  \A o \in Order :
    /\ ledger[o] \in {0, 1}
    /\ ledger[o] = 1 => \E t \in final : t.key = SwapKey(o) /\ receipt[t] = "ok"

\* An order reads filled exactly when the ledger has it.
FilledIffPosted == \A o \in Order : order[o].state = "filled" <=> ledger[o] = 1

\* A swap that moved the wallet's funds and is not in the ledger is still being
\* followed, or the network is halted.
NoSilentFill ==
  \A o \in Order :
    (\E t \in Tx : t.key = SwapKey(o) /\ receipt[t] = "ok") /\ ledger[o] = 0
      => halted \/ order[o].state \in InFlight

\* An order whose outcome is ambiguous keeps the network halted once recovery
\* is over.
AmbiguityHalts ==
  \A o \in Order, p \in Proc :
    order[o].state = "reconciling" /\ phase[p] = "up" /\ task[p].pc = "idle" => halted
-----------------------------------------------------------------------------
\* The promise of Fills, kept by this specification.
Executed == {[order |-> t.key.order, tx |-> t] :
              t \in {u \in Tx : u.key.purpose = "swap" /\ receipt[u] = "ok"}}

Promise == INSTANCE Fills WITH
  Fill <- [order : Order, tx : Tx], executed <- Executed, posted <- ledger

FillsOnce == Promise!Spec
-----------------------------------------------------------------------------
\* The 30-second timer runs, the RPC answers, time passes, and a receipt's
\* confirmations are seen in the end however often a stale block is read first.
Fairness ==
  /\ \A p \in Proc : WF_vars(PollStep(p))
  /\ \A p \in Proc : SF_vars(\E i \in Item, a \in {"final", "reverted", "odd"} : PollOne(p, i, a))
  /\ WF_vars(\E t \in Tx : Finalize(t) /\ UNCHANGED <<dbVars, clockVars, taskVars, orderVars>>)
  /\ WF_vars(\E k \in Key : Expire(k) /\ UNCHANGED <<chainVars, dbVars, taskVars, orderVars>>)
  /\ WF_vars(\E k \in Key : Age(k) /\ UNCHANGED <<chainVars, dbVars, taskVars, orderVars>>)
  /\ \A o \in Order : WF_vars(PlaceStep(o))
  /\ \A p \in Proc : WF_vars(RecoveryStep(p)) /\ WF_vars(StartOrGate(p))

FairSpec == Spec /\ Fairness

\* Every placement ends: submit()'s turn is handed on even when a request before
\* it in the wallet's queue failed.
PlacementEnds == \A o \in Order : job[o] \notin {"new", "over"} ~> job[o] = "over"

\* A pending order does not stay pending: it fills, fails, or is handed to the
\* operator as reconciling.
PendingResolves == \A o \in Order : order[o].state = "pending" ~> order[o].state # "pending"
=============================================================================
