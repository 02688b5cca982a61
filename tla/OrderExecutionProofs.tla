------------------------ MODULE OrderExecutionProofs ------------------------
(***************************************************************************)
(* Theorems about orders (OrderExecution), for any number of orders.       *)
(*                                                                         *)
(* For any number of processes, crashes and gates: types, durable bytes,   *)
(* the ledger, and the refinement of Fills.  That a settled order is an    *)
(* executed one rests on whose transaction a snapshot names (Names); that  *)
(* an order executes once rests on the coordinator (its row's bytes are    *)
(* the only ones sent) and on the chain (what was mined is not mined       *)
(* again).                                                                 *)
(*                                                                         *)
(* For one process that runs recover() at boot alone, and any number of    *)
(* crashes: one unresolved transaction, an order that agrees with the      *)
(* ledger, a halt while a fill is missed or ambiguous.  With a gate they   *)
(* fail, as runs OrderLostFill and OrderRefilled show.  The invariant is   *)
(* Steady: the turns of the queue keep one placement asking for a nonce,   *)
(* and a swap that recovery found mined stays open until it is settled.    *)
(***************************************************************************)
EXTENDS OrderExecution, CoordinatorProofs

Names(i) == i.ref # NoTx => i.ref.key = SwapKey(i.order)

OrderPart ==
  /\ order \in [Order -> OrderRow]
  /\ \A o \in Order : order[o].ref # NoTx => order[o].ref.key = SwapKey(o)

\* A job that may still submit has a process.
Early == {"checks", "allowance", "approving", "quoting"}

JobPart ==
  /\ job \in [Order -> JobPc]
  /\ home \in [Order -> Proc \cup {Nobody}]
  /\ \A o \in Order : job[o] \in Early => home[o] \in Proc

LedgerPart ==
  /\ ledger \in [Order -> Nat]
  /\ LedgerFollowsChain

PollRow == [on : BOOLEAN, todo : SUBSET Item]
RedoRow == [todo : SUBSET Item, bad : BOOLEAN, venue : SUBSET Order]

PollPart ==
  /\ poll \in [Proc -> PollRow]
  /\ \A p \in Proc : \A i \in poll[p].todo : Names(i)

RedoPart ==
  /\ redo \in [Proc -> RedoRow]
  /\ \A p \in Proc : \A i \in redo[p].todo : Names(i)

OrderInv ==
  /\ Core
  /\ ChainInv
  /\ ProcTypes
  /\ OrderPart
  /\ JobPart
  /\ LedgerPart
  /\ halted \in BOOLEAN
  /\ PollPart
  /\ RedoPart

LEMMA OrderInvType == ASSUME OrderInv PROVE TypeOK
<1>1. CoordInv
  BY DEF OrderInv, CoordInv, OrderPart
<1> QED BY <1>1, CoordInvType
        DEF TypeOK, OrderInv, JobPart, LedgerPart, PollPart, RedoPart, PollRow, RedoRow

LEMMA OrderInitInv == ASSUME Init PROVE OrderInv
<1>1. Core /\ ChainInv /\ ProcTypes
  BY CoordInitInv DEF Init
<1>2. OrderPart
  <2>1. [state |-> "none", ref |-> NoTx] \in OrderRow
    BY DEF OrderRow, OrderState
  <2> QED BY <2>1 DEF Init, OrderPart
<1>3. JobPart /\ halted \in BOOLEAN
  BY DEF Init, JobPart, JobPc, Early
<1>4. LedgerPart
  BY DEF Init, LedgerPart, LedgerFollowsChain
<1>5. PollPart
  <2>1. NoPoll \in PollRow /\ NoPoll.todo = {}
    BY DEF NoPoll, PollRow
  <2> QED BY <2>1 DEF Init, PollPart
<1>6. RedoPart
  <2>1. NoRedo \in RedoRow /\ NoRedo.todo = {}
    BY DEF NoRedo, RedoRow
  <2> QED BY <2>1 DEF Init, RedoPart
<1> QED BY <1>1, <1>2, <1>3, <1>4, <1>5, <1>6 DEF OrderInv
-----------------------------------------------------------------------------
(* What the steps are made of.                                              *)

LEMMA KeysOfOrder ==
  ASSUME NEW o \in Order
  PROVE  /\ SwapKey(o) \in Key /\ AllowanceKey(o) \in Key
         /\ SwapKey(o).order = o /\ SwapKey(o).purpose = "swap"
BY DEF SwapKey, AllowanceKey, Key, Purpose

LEMMA SwapKeyOf == ASSUME NEW k \in Key, k.purpose = "swap" PROVE k = SwapKey(k.order)
BY DEF SwapKey, Key

LEMMA WorldSame ==
  ASSUME OrderInv, Core', UNCHANGED World
  PROVE  ChainInv' /\ ProcTypes' /\ (UNCHANGED ledger => LedgerPart')
BY DEF OrderInv, ChainInv, ChainTypeOK, ProcTypes, World, clockVars, Core, LedgerPart,
       LedgerFollowsChain

\* An order changes its state and keeps its reference.
LEMMA OrderKeepsRef ==
  ASSUME OrderPart, NEW o \in Order, NEW s \in OrderState, order' = [order EXCEPT ![o].state = s]
  PROVE  OrderPart'
<1>1. order \in [Order -> OrderRow]
  BY DEF OrderPart
<1>2. order' \in [Order -> OrderRow]
  BY <1>1 DEF OrderRow
<1>3. \A q \in Order : order'[q].ref = order[q].ref
  BY <1>1 DEF OrderRow
<1> QED BY <1>2, <1>3 DEF OrderPart

LEMMA JobMoves ==
  ASSUME JobPart, NEW o \in Order, NEW j \in JobPc, j \in Early => job[o] \in Early,
         job' = [job EXCEPT ![o] = j], UNCHANGED home
  PROVE  JobPart'
BY DEF JobPart

LEMMA FailStep ==
  ASSUME OrderInv, NEW o \in Order, FailOrder(o)
  PROVE  /\ OrderPart' /\ JobPart' /\ halted' \in BOOLEAN /\ PollPart' /\ RedoPart'
         /\ UNCHANGED ledger
<1>1. OrderPart'
  BY OrderKeepsRef DEF OrderInv, FailOrder, OrderState
<1>2. JobPart'
  BY JobMoves DEF OrderInv, FailOrder, JobPc, Early
<1>3. halted' \in BOOLEAN
  BY DEF FailOrder
<1>4. UNCHANGED <<ledger, poll, redo>>
  BY DEF FailOrder
<1> QED BY <1>1, <1>2, <1>3, <1>4 DEF OrderInv, PollPart, RedoPart

\* recover() and a broadcast name the swap of the order.
LEMMA RefStep ==
  ASSUME Core, OrderPart, NEW k \in Key, NEW t \in Tx, t.key = k,
         order' = IF k.purpose = "swap"
                    THEN [order EXCEPT ![k.order] = [state |-> "pending", ref |-> t]]
                    ELSE order
  PROVE  OrderPart'
<1>1. order' \in [Order -> OrderRow]
  BY OrderRefStep DEF OrderPart
<1>2. order \in [Order -> OrderRow]
  BY DEF OrderPart
<1>3. CASE k.purpose = "swap"
  <2> DEFINE x == [state |-> "pending", ref |-> t]
  <2>1. k.order \in Order /\ k = SwapKey(k.order)
    BY <1>3, SwapKeyOf DEF Key
  <2>2. x.ref = t
    OBVIOUS
  <2>3. order' = [order EXCEPT ![k.order] = x]
    BY <1>3
  <2> HIDE DEF x
  <2>4. order'[k.order] = x /\ \A o \in Order : o # k.order => order'[o] = order[o]
    BY <1>2, <2>1, <2>3
  <2> QED BY <1>1, <2>1, <2>2, <2>4 DEF OrderPart
<1>4. CASE k.purpose # "swap"
  BY <1>4 DEF OrderPart
<1> QED BY <1>3, <1>4

\* getOrderStatus changes states and clears payloads, never a transaction.
LEMMA ResolveStep ==
  ASSUME Core, NEW a \in Answer, NEW t, Resolve(a, t)
  PROVE  RowStep
<1>1. row \in [Key -> Row] /\ RowShape
  BY DEF Core
<1>2. ASSUME NEW r \in Row
      PROVE  /\ RowAfter(a, r) \in Row
             /\ RowAfter(a, r).tx = r.tx
             /\ RowAfter(a, r).payload => r.payload
             /\ RowAfter(a, r).state \in {"none", "prepared"} => RowAfter(a, r).state = r.state
  <2>1. CASE a = "reverted"
    BY <2>1 DEF RowAfter, Row, RowState
  <2>2. CASE a = "final"
    BY <2>2 DEF RowAfter, Row, RowState
  <2>3. CASE a = "odd"
    BY <2>3 DEF RowAfter, Row, RowState, Unresolved
  <2>4. CASE a \notin {"reverted", "final", "odd"}
    BY <2>4 DEF RowAfter
  <2> QED BY <2>1, <2>2, <2>3, <2>4
<1>3. row' = [k \in Key |-> IF row[k].tx = t THEN RowAfter(a, row[k]) ELSE row[k]]
  BY DEF Resolve
<1>4. \A k \in Key : /\ row'[k] \in Row
                     /\ row'[k].tx = row[k].tx
                     /\ row'[k].payload => row[k].payload
                     /\ row'[k].state \in {"none", "prepared"} => row'[k].state = row[k].state
  BY <1>1, <1>2, <1>3
<1>5. row' \in [Key -> Row]
  BY <1>3, <1>4
<1> QED BY <1>1, <1>4, <1>5 DEF RowStep, RowShape

\* A fill is settled for the order whose swap it is, and once.
LEMMA SettleStep ==
  ASSUME OrderInv, NEW o \in Order, NEW t \in final, t.key = SwapKey(o), receipt[t] = "ok",
         Settle(o), UNCHANGED <<final, receipt>>
  PROVE  OrderPart' /\ LedgerPart'
<1>1. CASE ledger[o] > 0
  BY <1>1 DEF Settle, OrderInv, OrderPart, LedgerPart, LedgerFollowsChain
<1>2. CASE ~(ledger[o] > 0)
  <2>1. /\ ledger' = [ledger EXCEPT ![o] = ledger[o] + 1]
        /\ order' = [order EXCEPT ![o].state = "filled"]
    BY <1>2 DEF Settle
  <2>2. OrderPart'
    BY <2>1, OrderKeepsRef DEF OrderInv, OrderState
  <2>3. ledger \in [Order -> Nat] /\ ledger[o] = 0 /\ LedgerFollowsChain
    BY <1>2 DEF OrderInv, LedgerPart
  <2>4. ledger' \in [Order -> Nat] /\ ledger'[o] = 1 /\ \A q \in Order : q # o => ledger'[q] = ledger[q]
    BY <2>1, <2>3
  <2> QED BY <2>2, <2>3, <2>4 DEF LedgerPart, LedgerFollowsChain
<1> QED BY <1>1, <1>2

LEMMA FollowStep ==
  ASSUME OrderInv, NEW i \in Item, Names(i), NEW a \in Answer, Follow(i, a),
         UNCHANGED <<final, receipt>>
  PROVE  RowStep /\ OrderPart' /\ LedgerPart'
<1>1. RowStep
  BY ResolveStep DEF OrderInv, Follow
<1>2. i.order \in Order
  BY DEF Item
<1>3. StatusOf(a, i.ref) \in {"failed", "pending", "filled", "unknown"}
  BY DEF StatusOf, Answer
<1>4. CASE StatusOf(a, i.ref) = "filled"
  <2>1. a = "final"
    BY <1>4 DEF StatusOf, Answer
  <2>2. i.ref \in final /\ receipt[i.ref] = "ok"
    BY <2>1 DEF Follow, MayAnswer
  <2>3. i.ref.key = SwapKey(i.order)
    <3>1. i.ref \in Tx
      BY <2>2 DEF OrderInv, ChainInv, ChainTypeOK
    <3> QED BY <3>1, NoTxAssumption DEF Names
  <2>4. Settle(i.order)
    BY <1>4 DEF Follow
  <2> QED BY <1>1, <1>2, <2>2, <2>3, <2>4, SettleStep
<1>5. CASE StatusOf(a, i.ref) # "filled"
  <2>1. PICK s \in OrderState : Record(i.order, s)
    <3>1. CASE StatusOf(a, i.ref) = "unknown"
      BY <1>5, <3>1 DEF Follow, OrderState
    <3>2. CASE StatusOf(a, i.ref) # "unknown"
      <4>1. StatusOf(a, i.ref) \in OrderState
        BY <1>3, <1>5, <3>2 DEF OrderState
      <4>2. Record(i.order, StatusOf(a, i.ref))
        BY <1>5, <3>2 DEF Follow
      <4> QED BY <4>1, <4>2
    <3> QED BY <3>1, <3>2
  <2>2. order' = [order EXCEPT ![i.order].state = s] /\ UNCHANGED ledger
    BY <2>1 DEF Record
  <2>3. OrderPart'
    BY <1>2, <2>2, OrderKeepsRef DEF OrderInv
  <2> QED BY <1>1, <2>2, <2>3 DEF OrderInv, LedgerPart, LedgerFollowsChain
<1> QED BY <1>4, <1>5

\* Recovery goes on to its next stage.
LEMMA StageStep ==
  ASSUME Core, NEW p \in Proc, NEW pc \in {"orders", "books", "clear"},
         task' = [task EXCEPT ![p].pc = pc], UNCHANGED <<sent, wire, row, lease, queue, scan>>
  PROVE  Core' /\ RowStep
<1>1. task \in [Task -> Place] /\ p \in Task /\ PcShape /\ SendShape
  BY DEF Core, TaskInv, TaskTypes, Task
<1>2. task' \in [Task -> Place]
  <2>1. pc \in TaskPc
    BY DEF TaskPc
  <2> QED BY <1>1, <2>1 DEF Place
<1>3. /\ task'[p].pc = pc
      /\ \A w \in Task : w # p => task'[w] = task[w]
  BY <1>1 DEF Place
<1>4. PcShape' /\ SendShape'
  BY <1>1, <1>3 DEF PcShape, SendShape
<1>5. RowStep /\ WireStep
  BY SameRow, SameWire
<1>6. SnapShape'
  BY <1>5, SnapsKept
<1>7. TaskInv'
  BY <1>2, <1>4, <1>6 DEF Core, TaskInv, TaskTypes
<1> QED BY <1>5, <1>7, CoreStep DEF Core
-----------------------------------------------------------------------------
(* mirrorTrade and placeOrder.                                              *)

\* The coordinator's part of a step, and what an order's caller makes of it.
LEMMA PlaceDone ==
  ASSUME OrderInv, NEW o \in Order, Core', RowStep, UNCHANGED World, FailOrder(o)
  PROVE  OrderInv' /\ RowStep
BY FailStep, WorldSame DEF OrderInv

LEMMA HeardStep ==
  ASSUME OrderInv, NEW o \in Order, Core', RowStep, UNCHANGED World, Hears(o)
  PROVE  OrderInv' /\ RowStep
<1>1. CASE FailOrder(o)
  BY <1>1, PlaceDone
<1>2. CASE Continues
  BY <1>2, WorldSame
     DEF Continues, orderVars, OrderInv, OrderPart, JobPart, PollPart, RedoPart
<1> QED BY <1>1, <1>2 DEF Hears

LEMMA SameCore ==
  ASSUME Core, UNCHANGED Tasks, UNCHANGED World PROVE Core' /\ RowStep
BY ElsewhereStep DEF Tasks, World

LEMMA ProposeInv ==
  ASSUME OrderInv, NEW p \in Proc, NEW o \in Order, Propose(p, o)
  PROVE  OrderInv' /\ RowStep
<1>1. Core' /\ RowStep
  BY SameCore DEF Propose, OrderInv
<1>2. OrderPart'
  BY OrderKeepsRef DEF Propose, OrderInv, OrderState
<1>3. JobPart'
  BY DEF Propose, OrderInv, JobPart, JobPc, Early
<1> QED BY <1>1, <1>2, <1>3, WorldSame DEF Propose, OrderInv, PollPart, RedoPart

LEMMA SubmitInv ==
  ASSUME OrderInv, NEW o \in Order, NeedsAllowance(o) \/ Quoted(o)
  PROVE  OrderInv' /\ RowStep
<1>1. home[o] \in Proc /\ o \in Call
  BY CallerAssumption DEF OrderInv, JobPart, Early, NeedsAllowance, Quoted
<1>2. Core' /\ RowStep
  BY <1>1, SubmitStep, KeysOfOrder DEF NeedsAllowance, Quoted, World, OrderInv
<1>3. JobPart'
  BY JobMoves DEF OrderInv, NeedsAllowance, Quoted, JobPc, Early
<1> QED BY <1>2, <1>3, WorldSame
        DEF NeedsAllowance, Quoted, OrderInv, OrderPart, PollPart, RedoPart

LEMMA ApprovalInv ==
  ASSUME OrderInv, NEW o \in Order, ApprovalMined(o) \/ ApprovalReverted(o)
  PROVE  OrderInv' /\ RowStep
<1> DEFINE k == AllowanceKey(o)
<1>1. k \in Key
  BY KeysOfOrder
<1>2. CASE ApprovalMined(o)
  <2>1. row \in [Key -> Row] /\ RowShape
    BY DEF OrderInv, Core
  <2>2. row' = [row EXCEPT ![k].state = "confirmed", ![k].payload = FALSE]
    BY <1>2 DEF ApprovalMined
  <2>3. row' \in [Key -> Row]
    <3>1. "confirmed" \in RowState
      BY DEF RowState
    <3> QED BY <2>1, <2>2, <3>1 DEF Row
  <2>4. \A j \in Key : row'[j].tx = row[j].tx
    BY <2>1, <2>2 DEF Row
  <2>5. \A j \in Key : j # k => row'[j] = row[j]
    BY <2>1, <2>2
  <2>6. row'[k].state = "confirmed" /\ row'[k].payload = FALSE
    BY <1>1, <2>1, <2>2 DEF Row
  <2>7. RowStep
    BY <2>1, <2>3, <2>4, <2>5, <2>6 DEF RowStep, RowShape
  <2>8. UNCHANGED <<wire, sent, lease, queue, task, scan>>
    BY <1>2 DEF ApprovalMined, World
  <2>9. Core'
    BY <2>7, <2>8, SameWire, SameTasks, CoreStep DEF OrderInv, Core
  <2>10. JobPart'
    BY <1>2, JobMoves DEF OrderInv, ApprovalMined, JobPc, Early
  <2> QED BY <1>2, <2>7, <2>9, <2>10, WorldSame
          DEF ApprovalMined, OrderInv, OrderPart, PollPart, RedoPart
<1>3. CASE ApprovalReverted(o)
  <2>1. RowStep
    BY <1>1, <1>3, StateOnly DEF ApprovalReverted, RowState, OrderInv
  <2>2. UNCHANGED <<wire, sent, lease, queue, task, scan>>
    BY <1>3 DEF ApprovalReverted, World
  <2>3. Core'
    BY <2>1, <2>2, SameWire, SameTasks, CoreStep DEF OrderInv, Core
  <2> QED BY <1>3, <2>1, <2>3, PlaceDone DEF ApprovalReverted
<1> QED BY <1>2, <1>3

LEMMA PlaceInv ==
  ASSUME OrderInv, NEW o \in Order, PlaceStep(o)
  PROVE  OrderInv' /\ RowStep
<1>0. o \in Call /\ o \in Task /\ Core
  BY CallerAssumption DEF OrderInv, Task
<1>1. CASE Refused(o) \/ ApprovalTimeout(o)
  BY <1>0, <1>1, SameCore, PlaceDone DEF Refused, ApprovalTimeout
<1>2. CASE NeedsAllowance(o) \/ Quoted(o)
  BY <1>2, SubmitInv
<1>3. CASE HasAllowance(o)
  <2>1. Core' /\ RowStep
    BY <1>0, <1>3, SameCore DEF HasAllowance
  <2>2. JobPart'
    BY <1>3, JobMoves DEF OrderInv, HasAllowance, JobPc, Early
  <2> QED BY <1>3, <2>1, <2>2, WorldSame
          DEF HasAllowance, OrderInv, OrderPart, PollPart, RedoPart
<1>4. CASE ApprovalMined(o) \/ ApprovalReverted(o)
  BY <1>4, ApprovalInv
<1>5. ASSUME NEW p \in Proc, TurnStep(p, o) PROVE OrderInv' /\ RowStep
  <2>1. Core' /\ RowStep
    BY <1>0, <1>5, RefusedStep, AskNonceStep DEF TurnStep, World
  <2> QED BY <1>5, <2>1, HeardStep DEF TurnStep
<1>6. CASE NonceStep(o)
  <2>1. Core' /\ RowStep
    BY <1>0, <1>6, NonceReplyStep, NonceErrorStep DEF NonceStep, World
  <2> QED BY <1>6, <2>1, HeardStep DEF NonceStep
<1>7. CASE SignStep(o)
  <2>1. Core' /\ RowStep
    BY <1>0, <1>7, SignReplyStep, SignErrorStep DEF SignStep, World
  <2> QED BY <1>7, <2>1, HeardStep DEF SignStep
<1>8. CASE SendError(o) /\ Hears(o) /\ UNCHANGED World
  <2>1. Core' /\ RowStep
    BY <1>0, <1>8, SignErrorStep DEF World
  <2> QED BY <1>8, <2>1, HeardStep
<1>9. CASE SendReply(o) /\ Submitted(o) /\ UNCHANGED World
  <2>1. Core' /\ RowStep
    BY <1>0, <1>9, SendReplyStep DEF World
  <2>2. task[o].key \in Key /\ task[o].tx \in Tx /\ task[o].tx.key = task[o].key
    BY <1>0, <1>9, NoTxAssumption DEF SendReply, Core, TaskInv, PcShape, SendShape
  <2>3. OrderPart'
    BY <1>0, <1>9, <2>2, RefStep DEF SendReply, OrderInv
  <2>4. JobPart'
    BY <1>9, JobMoves DEF OrderInv, Submitted, JobPc, Early
  <2> QED BY <1>9, <2>1, <2>3, <2>4, WorldSame DEF Submitted, OrderInv, PollPart, RedoPart
<1> QED BY <1>1, <1>2, <1>3, <1>4, <1>5, <1>6, <1>7, <1>8, <1>9 DEF PlaceStep, SendStep
-----------------------------------------------------------------------------
(* The poll and the recovery.                                               *)

LEMMA ResolvedCore ==
  ASSUME Core, RowStep, UNCHANGED World, UNCHANGED <<wire, lease, queue, task, scan>>
  PROVE  Core'
BY SameWire, SameTasks, CoreStep DEF Core, World

LEMMA PollInv ==
  ASSUME OrderInv, NEW p \in Proc, PollStep(p)
  PROVE  OrderInv' /\ RowStep
<1>1. CASE PollStart(p)
  <2>1. Core' /\ RowStep
    BY <1>1, SameCore DEF PollStart, OrderInv
  <2> DEFINE due == {i \in Item : order[i.order].state = "pending"
                                  /\ order[i.order].ref = i.ref /\ i.ref # NoTx}
             x == [on |-> TRUE, todo |-> due]
  <2>2. poll' = [poll EXCEPT ![p] = x]
    BY <1>1 DEF PollStart
  <2>3. x \in PollRow /\ x.todo = due
    BY DEF PollRow
  <2>4. \A i \in due : Names(i)
    BY DEF OrderInv, OrderPart, Names, Item
  <2> HIDE DEF x, due
  <2>5. PollPart'
    BY <2>2, <2>3, <2>4 DEF OrderInv, PollPart, Names, SwapKey
  <2> QED BY <1>1, <2>1, <2>5, WorldSame
          DEF PollStart, OrderInv, OrderPart, JobPart, RedoPart
<1>2. ASSUME NEW i \in Item, NEW a \in Answer, PollOne(p, i, a)
      PROVE  OrderInv' /\ RowStep
  <2>1. i \in poll[p].todo /\ Names(i)
    BY <1>2 DEF PollOne, OrderInv, PollPart
  <2>2. UNCHANGED <<final, receipt>>
    BY <1>2 DEF PollOne, World
  <2>3. RowStep /\ OrderPart' /\ LedgerPart'
    BY <1>2, <2>1, <2>2, FollowStep DEF PollOne
  <2>4. Core'
    BY <1>2, <2>3, ResolvedCore DEF PollOne, OrderInv
  <2>5. halted' \in BOOLEAN
    BY <1>2 DEF PollOne
  <2>6. PollPart'
    <3> DEFINE x == IF poll[p].todo = {i} THEN NoPoll ELSE [on |-> TRUE, todo |-> poll[p].todo \ {i}]
    <3>1. poll \in [Proc -> PollRow]
      BY DEF OrderInv, PollPart
    <3>2. x \in PollRow /\ x.todo \subseteq poll[p].todo
      BY <3>1 DEF PollRow, NoPoll
    <3>3. poll' = [poll EXCEPT ![p] = x]
      BY <1>2 DEF PollOne
    <3> HIDE DEF x
    <3> QED BY <3>1, <3>2, <3>3 DEF OrderInv, PollPart, Names, SwapKey
  <2> QED BY <1>2, <2>3, <2>4, <2>5, <2>6, WorldSame
          DEF PollOne, OrderInv, JobPart, RedoPart
<1> QED BY <1>1, <1>2 DEF PollStep

\* The snapshot shrinks, or its findings change.
LEMMA RedoMoves ==
  ASSUME RedoPart, NEW p \in Proc, NEW x \in RedoRow, x.todo \subseteq redo[p].todo,
         redo' = [redo EXCEPT ![p] = x]
  PROVE  RedoPart'
<1>1. redo \in [Proc -> RedoRow]
  BY DEF RedoPart
<1> QED BY <1>1 DEF RedoPart, Names, SwapKey

LEMMA RedoCleared ==
  ASSUME RedoPart, NEW p \in Proc, redo' = [redo EXCEPT ![p] = NoRedo] PROVE RedoPart'
<1>1. NoRedo \in RedoRow /\ NoRedo.todo = {}
  BY DEF NoRedo, RedoRow
<1> QED BY <1>1, RedoMoves

LEMMA RecoverInv ==
  ASSUME OrderInv, NEW p \in Proc, RecoverySend(p) \/ RecoveryScan(p)
  PROVE  OrderInv' /\ RowStep
<1>0. Core /\ p \in Task
  BY DEF OrderInv, Task
<1>1. Core' /\ RowStep
  BY <1>0, SignReplyStep, SignErrorStep, SendReplyStep, ScanKeyStep
     DEF RecoverySend, RecoveryScan, World
<1>2. OrderPart'
  <2>1. CASE UNCHANGED order
    BY <2>1 DEF OrderInv, OrderPart
  <2>2. CASE SendReply(p)
    <3>1. task[p].key \in Key /\ task[p].tx \in Tx /\ task[p].tx.key = task[p].key
      BY <1>0, <2>2, NoTxAssumption DEF SendReply, Core, TaskInv, PcShape, SendShape
    <3> QED BY <1>0, <2>2, <3>1, RefStep DEF SendReply, OrderInv
  <2>3. ASSUME NEW k \in Key, ScanReceipt(p, k) PROVE OrderPart'
    <3> DEFINE t == scan[p].snap[k].tx
    <3>1. t # NoTx
      BY <2>3 DEF ScanReceipt, Mined
    <3>2. t \in Tx
      BY <1>0, <3>1 DEF Core, TaskInv, TaskTypes, Scan, Row
    <3>3. t.key = k
      BY <1>0, <3>1 DEF Core, TaskInv, SnapShape, RowShape
    <3> QED BY <1>0, <2>3, <3>2, <3>3, RefStep DEF ScanReceipt, OrderInv
  <2> QED BY <2>1, <2>2, <2>3
          DEF RecoverySend, RecoveryScan, ScanPrepared, ScanNoPayload, ScanResend, ScanSilent
<1>3. UNCHANGED World /\ UNCHANGED orderVars
  BY DEF RecoverySend, RecoveryScan
<1> QED BY <1>1, <1>2, <1>3, WorldSame DEF orderVars, OrderInv, JobPart, PollPart, RedoPart

LEMMA OrdersInv ==
  ASSUME OrderInv, NEW p \in Proc, NEW i \in Item,
         OrderOrphaned(p, i) \/ \E a \in Answer : OrderAsked(p, i, a)
  PROVE  OrderInv' /\ RowStep
<1>1. redo \in [Proc -> RedoRow] /\ RedoPart
  BY DEF OrderInv, RedoPart
<1>2. CASE OrderOrphaned(p, i)
  <2>1. Core' /\ RowStep
    BY <1>2, SameCore DEF OrderOrphaned, OrderInv
  <2>2. OrderPart' /\ UNCHANGED ledger
    BY <1>2, OrderKeepsRef DEF OrderOrphaned, Record, OrderInv, OrderState, Item
  <2>3. RedoPart'
    <3> DEFINE x == [redo[p] EXCEPT !.todo = @ \ {i}, !.bad = TRUE]
    <3>1. x \in RedoRow /\ x.todo \subseteq redo[p].todo
      BY <1>1 DEF RedoRow
    <3>2. redo' = [redo EXCEPT ![p] = x]
      BY <1>2 DEF OrderOrphaned
    <3> HIDE DEF x
    <3> QED BY <1>1, <3>1, <3>2, RedoMoves
  <2> QED BY <1>2, <2>1, <2>2, <2>3, WorldSame DEF OrderOrphaned, OrderInv, JobPart, PollPart
<1>3. ASSUME NEW a \in Answer, OrderAsked(p, i, a) PROVE OrderInv' /\ RowStep
  <2>1. Names(i)
    BY <1>1, <1>3 DEF OrderAsked, RedoPart
  <2>2. UNCHANGED <<final, receipt>>
    BY <1>3 DEF OrderAsked, World
  <2>3. RowStep /\ OrderPart' /\ LedgerPart'
    BY <1>3, <2>1, <2>2, FollowStep DEF OrderAsked
  <2>4. Core'
    BY <1>3, <2>3, ResolvedCore DEF OrderAsked, OrderInv
  <2>5. halted' \in BOOLEAN
    BY <1>3 DEF OrderAsked
  <2>6. RedoPart'
    <3> DEFINE b == redo[p].bad \/ StatusOf(a, i.ref) \in {"unknown", "failed"}
               x == [redo[p] EXCEPT !.todo = @ \ {i}, !.bad = b]
    <3>1. b \in BOOLEAN
      OBVIOUS
    <3>2. redo' = [redo EXCEPT ![p].todo = @ \ {i},
                              ![p].bad = @ \/ StatusOf(a, i.ref) \in {"unknown", "failed"}]
      BY <1>3 DEF OrderAsked
    <3>3. redo' = [redo EXCEPT ![p] = x]
      BY <1>1, <3>2 DEF RedoRow
    <3> HIDE DEF b
    <3>4. x \in RedoRow /\ x.todo \subseteq redo[p].todo
      BY <1>1, <3>1 DEF RedoRow
    <3> HIDE DEF x
    <3> QED BY <1>1, <3>3, <3>4, RedoMoves
  <2> QED BY <1>3, <2>3, <2>4, <2>5, <2>6, WorldSame
          DEF OrderAsked, OrderInv, JobPart, PollPart
<1> QED BY <1>2, <1>3

\* The stages of recovery after its snapshot of transactions is done.
LEMMA StagesInv ==
  ASSUME OrderInv, NEW p \in Proc,
         \/ OrdersStart(p) \/ OrdersEnd(p) \/ BootEnds(p) \/ GateFails(p)
         \/ GatePasses(p) \/ GateReturns(p)
  PROVE  OrderInv' /\ RowStep
<1>0. Core /\ RedoPart /\ redo \in [Proc -> RedoRow] /\ halted \in BOOLEAN
  BY DEF OrderInv, RedoPart
<1>1. CASE OrdersStart(p)
  <2> DEFINE asked == {i \in Item : order[i.order].state \in InFlight /\ order[i.order].ref = i.ref}
             x == [todo |-> asked, bad |-> FALSE, venue |-> {}]
  <2>1. Core' /\ RowStep
    BY <1>0, <1>1, StageStep DEF OrdersStart, World
  <2>2. x \in RedoRow /\ x.todo = asked
    BY DEF RedoRow
  <2>3. \A i \in asked : Names(i)
    BY DEF OrderInv, OrderPart, Names, Item
  <2>4. redo' = [redo EXCEPT ![p] = x]
    BY <1>1 DEF OrdersStart
  <2> HIDE DEF x, asked
  <2>5. RedoPart'
    BY <1>0, <2>2, <2>3, <2>4 DEF RedoPart, Names, SwapKey
  <2> QED BY <1>1, <2>1, <2>5, WorldSame DEF OrdersStart, OrderInv, OrderPart, JobPart, PollPart
<1>2. CASE OrdersEnd(p)
  <2> DEFINE bad == scan[p].bad \/ redo[p].bad
  <2>1. halted' \in BOOLEAN /\ UNCHANGED World /\ UNCHANGED <<order, job, home, ledger, poll>>
    BY <1>2 DEF OrdersEnd
  <2>2. CASE bad /\ phase[p] = "up"
    <3>1. Core' /\ RowStep
      BY <1>0, <1>2, <2>2, ScanOver DEF OrdersEnd, World
    <3>2. RedoPart'
      BY <1>0, <1>2, <2>2, RedoCleared DEF OrdersEnd
    <3> QED BY <2>1, <3>1, <3>2, WorldSame DEF OrderInv, OrderPart, JobPart, PollPart
  <2>3. CASE ~(bad /\ phase[p] = "up")
    <3>1. Core' /\ RowStep
      BY <1>0, <1>2, <2>3, StageStep DEF OrdersEnd, World
    <3>2. RedoPart'
      <4> DEFINE x == [todo |-> {}, bad |-> bad, venue |-> Moved]
      <4>1. Moved \subseteq Order /\ bad \in BOOLEAN
        BY DEF Moved
      <4>2. redo' = [redo EXCEPT ![p] = x]
        BY <1>2, <2>3 DEF OrdersEnd
      <4> HIDE DEF bad
      <4>3. x \in RedoRow /\ x.todo \subseteq redo[p].todo
        BY <1>0, <4>1 DEF RedoRow
      <4> HIDE DEF x
      <4> QED BY <1>0, <4>2, <4>3, RedoMoves
    <3> QED BY <2>1, <3>1, <3>2, WorldSame DEF OrderInv, OrderPart, JobPart, PollPart
  <2> QED BY <2>2, <2>3
<1>3. CASE BootEnds(p)
  <2>1. Core' /\ RowStep
    BY <1>0, <1>3, ScanOver DEF BootEnds, RecoveryOver
  <2>2. RedoPart'
    BY <1>0, <1>3, RedoCleared DEF BootEnds, RecoveryOver
  <2>3. halted' \in BOOLEAN
    BY <1>3 DEF BootEnds
  <2>4. ProcTypes'
    BY <1>3 DEF BootEnds, OrderInv, ProcTypes, clockVars
  <2>5. ChainInv' /\ LedgerPart'
    BY <1>3 DEF BootEnds, OrderInv, ChainInv, ChainTypeOK, LedgerPart, LedgerFollowsChain
  <2> QED BY <1>3, <2>1, <2>2, <2>3, <2>4, <2>5 DEF BootEnds, OrderInv, OrderPart, JobPart, PollPart
<1>4. CASE GateFails(p) \/ GateReturns(p)
  <2>1. Core' /\ RowStep
    BY <1>0, <1>4, ScanOver DEF GateFails, GateReturns, RecoveryOver, World
  <2>2. RedoPart'
    BY <1>0, <1>4, RedoCleared DEF GateFails, GateReturns, RecoveryOver
  <2>3. halted' \in BOOLEAN
    BY <1>0, <1>4 DEF GateFails, GateReturns
  <2> QED BY <1>4, <2>1, <2>2, <2>3, WorldSame
          DEF GateFails, GateReturns, OrderInv, OrderPart, JobPart, PollPart
<1>5. CASE GatePasses(p)
  <2>1. Core' /\ RowStep
    BY <1>0, <1>5, StageStep DEF GatePasses, World
  <2> QED BY <1>5, <2>1, WorldSame
          DEF GatePasses, orderVars, OrderInv, OrderPart, JobPart, PollPart, RedoPart
<1> QED BY <1>1, <1>2, <1>3, <1>4, <1>5

LEMMA RecoveryInv ==
  ASSUME OrderInv, NEW p \in Proc, RecoveryStep(p)
  PROVE  OrderInv' /\ RowStep
BY RecoverInv, OrdersInv, StagesInv DEF RecoveryStep
-----------------------------------------------------------------------------
(* Processes, clocks, the halt, the chain.                                  *)

LEMMA ProcessInv ==
  ASSUME OrderInv, NEW p \in Proc, StartOrGate(p) \/ CrashStep(p)
  PROVE  OrderInv' /\ RowStep
<1>0. Core /\ ProcTypes
  BY DEF OrderInv
<1>1. Core' /\ RowStep
  BY <1>0, StartGateStep, CrashKeeps DEF StartOrGate, CrashStep
<1>2. ProcTypes'
  BY <1>0, ProcessTypes DEF StartOrGate, CrashStep, clockVars
<1>3. ChainInv' /\ LedgerPart'
  BY <1>1 DEF StartOrGate, CrashStep, orderVars, OrderInv, ChainInv, ChainTypeOK, Core, LedgerPart,
       LedgerFollowsChain
<1>4. UNCHANGED order
  BY DEF StartOrGate, CrashStep, Start, Gate, Crash, BeginScan
<1>5. CASE StartOrGate(p)
  BY <1>1, <1>2, <1>3, <1>4, <1>5
     DEF StartOrGate, orderVars, OrderInv, OrderPart, JobPart, PollPart, RedoPart
<1>6. CASE CrashStep(p)
  <2>1. JobPart'
    BY <1>6 DEF CrashStep, OrderInv, JobPart, JobPc, Early
  <2>2. PollPart'
    <3>1. NoPoll \in PollRow /\ NoPoll.todo = {}
      BY DEF NoPoll, PollRow
    <3>2. poll' = [poll EXCEPT ![p] = NoPoll]
      BY <1>6 DEF CrashStep
    <3> QED BY <3>1, <3>2 DEF OrderInv, PollPart, Names, SwapKey
  <2>3. RedoPart'
    BY <1>6, RedoCleared DEF CrashStep, OrderInv
  <2> QED BY <1>1, <1>2, <1>3, <1>4, <1>6, <2>1, <2>2, <2>3 DEF CrashStep, OrderInv, OrderPart
<1> QED BY <1>5, <1>6

LEMMA ClockInv ==
  ASSUME OrderInv, ClockStep PROVE OrderInv' /\ RowStep
<1>0. Core /\ ProcTypes
  BY DEF OrderInv
<1>1. Core' /\ RowStep /\ ProcTypes'
  <2>1. CASE LeaseLapses /\ UNCHANGED clockVars
    BY <1>0, <2>1, LapseStep DEF ClockStep, chainVars, clockVars, taskVars, ProcTypes
  <2>2. ASSUME NEW k \in Key, Expire(k) \/ Age(k), UNCHANGED dbVars
        PROVE  Core' /\ RowStep /\ ProcTypes'
    <3>1. Core' /\ RowStep
      BY <1>0, <2>2, ElsewhereStep DEF ClockStep, chainVars, dbVars, taskVars
    <3> QED BY <1>0, <2>2, <3>1, ClockTypes DEF ClockStep, taskVars
  <2> QED BY <2>1, <2>2 DEF ClockStep
<1>2. UNCHANGED order
  BY DEF ClockStep, LeaseLapses, dbVars
<1> QED BY <1>1, <1>2
        DEF ClockStep, chainVars, orderVars, OrderInv, ChainInv, ChainTypeOK, OrderPart, JobPart,
            LedgerPart, LedgerFollowsChain, PollPart, RedoPart

LEMMA WorldInv ==
  ASSUME OrderInv, WorldStep PROVE OrderInv' /\ RowStep
<1>0. /\ Core /\ ChainInv
      /\ UNCHANGED <<row, order, lease, queue, task, scan>>
  BY DEF OrderInv, WorldStep, dbVars, taskVars
<1>1. Core' /\ RowStep /\ ChainInv' /\ LedgerPart'
  <2>1. CASE ChainStep
    <3>1. Core' /\ RowStep
      BY <1>0, <2>1, ChainKeeps
    <3>2. ChainInv'
      BY <1>0, <2>1, <3>1, ChainInvStep DEF Core
    <3>3. \A t \in final : receipt[t] = "ok" => receipt'[t] = "ok" /\ t \in final'
      <4>1. \A t \in pool : t.nonce = acct => t \in Tx /\ receipt[t] = "none"
        BY <1>0 DEF ChainInv, ChainTypeOK
      <4> QED BY <1>0, <2>1, <4>1 DEF ChainStep, Arrive, Evict, Mine, ChainInv, ChainTypeOK
    <3>4. LedgerPart'
      BY <3>3 DEF WorldStep, orderVars, OrderInv, LedgerPart, LedgerFollowsChain, SwapKey
    <3> QED BY <3>1, <3>2, <3>4
  <2>2. ASSUME NEW t \in Tx, Finalize(t)
        PROVE  Core' /\ RowStep /\ ChainInv' /\ LedgerPart'
    <3>1. Core' /\ RowStep
      BY <1>0, <2>2, ElsewhereStep DEF Finalize
    <3> QED BY <1>0, <2>2, <3>1
            DEF Finalize, ChainInv, ChainTypeOK, WorldStep, orderVars, OrderInv, LedgerPart,
                LedgerFollowsChain, SwapKey
  <2> QED BY <2>1, <2>2 DEF WorldStep
<1> QED BY <1>0, <1>1
        DEF WorldStep, clockVars, taskVars, orderVars, OrderInv, ProcTypes, OrderPart, JobPart,
            PollPart, RedoPart

LEMMA HaltInv ==
  ASSUME OrderInv, Halt \/ UNCHANGED vars PROVE OrderInv' /\ RowStep
<1>1. /\ UNCHANGED <<wire, sent, pool, receipt, final, acct, row, order, lease, expired, aged,
                     queue, task, scan, phase, crashes, gates, job, home, ledger, poll, redo>>
      /\ halted' \in BOOLEAN
  BY DEF Halt, vars, coordVars, chainVars, dbVars, clockVars, taskVars, orderVars, OrderInv
<1>2. Core' /\ RowStep
  BY <1>1, ElsewhereStep DEF OrderInv
<1> QED BY <1>1, <1>2
        DEF OrderInv, ChainInv, ChainTypeOK, ProcTypes, OrderPart, JobPart, LedgerPart,
            LedgerFollowsChain, PollPart, RedoPart

LEMMA NextInv ==
  ASSUME OrderInv, [Next]_vars PROVE OrderInv' /\ RowStep
BY ProposeInv, PlaceInv, PollInv, RecoveryInv, ProcessInv, ClockInv, WorldInv, HaltInv DEF Next

LEMMA InvariantHolds == Spec => []OrderInv
<1>1. Init => OrderInv
  BY OrderInitInv
<1>2. OrderInv /\ [Next]_vars => OrderInv'
  BY NextInv
<1> QED BY <1>1, <1>2, PTL DEF Spec
-----------------------------------------------------------------------------
\* Every variable keeps its type.
THEOREM TypeCorrect == Spec => []TypeOK
<1>1. OrderInv => TypeOK
  BY OrderInvType
<1> QED BY InvariantHolds, <1>1, PTL

\* Whatever placeOrder, recovery at boot and the gates do, an endpoint sees
\* only bytes the database already holds.
THEOREM DurableFirst == Spec => []DurableBeforeSent
<1>1. OrderInv => DurableBeforeSent
  BY DEF OrderInv, Core
<1> QED BY InvariantHolds, <1>1, PTL

\* The ledger has at most one row per order, and has it only for a swap that
\* succeeded with twelve confirmations.
THEOREM LedgerSound == Spec => []LedgerFollowsChain
<1>1. OrderInv => LedgerFollowsChain
  BY DEF OrderInv, LedgerPart
<1> QED BY InvariantHolds, <1>1, PTL
-----------------------------------------------------------------------------
(* The refinement of Fills.                                                 *)

\* What Fills sees of a step: nothing, a fill, or a posting of one.
Posts(o) ==
  /\ ledger[o] = 0 /\ ledger' = [ledger EXCEPT ![o] = 1]
  /\ \E t \in final : t.key = SwapKey(o) /\ receipt[t] = "ok"

LEMMA FollowPosts ==
  ASSUME OrderInv, NEW i \in Item, Names(i), NEW a \in Answer, Follow(i, a)
  PROVE  UNCHANGED ledger \/ \E o \in Order : Posts(o)
<1>1. i.order \in Order /\ ledger \in [Order -> Nat]
  BY DEF Item, OrderInv, LedgerPart
<1>2. CASE StatusOf(a, i.ref) = "filled"
  <2>1. a = "final"
    BY <1>2 DEF StatusOf, Answer
  <2>2. i.ref \in final /\ receipt[i.ref] = "ok"
    BY <2>1 DEF Follow, MayAnswer
  <2>3. i.ref.key = SwapKey(i.order)
    BY <2>2, NoTxAssumption DEF Names, OrderInv, ChainInv, ChainTypeOK
  <2>4. Settle(i.order)
    BY <1>2 DEF Follow
  <2>5. CASE ledger[i.order] > 0
    BY <2>4, <2>5 DEF Settle
  <2>6. CASE ~(ledger[i.order] > 0)
    <3>1. ledger[i.order] = 0 /\ ledger' = [ledger EXCEPT ![i.order] = 1]
      BY <1>1, <2>4, <2>6 DEF Settle
    <3> QED BY <1>1, <2>2, <2>3, <3>1 DEF Posts
  <2> QED BY <2>5, <2>6
<1>3. CASE StatusOf(a, i.ref) = "unknown"
  BY <1>3 DEF Follow, Record
<1>4. CASE StatusOf(a, i.ref) \notin {"filled", "unknown"}
  BY <1>4 DEF Follow, Record
<1> QED BY <1>2, <1>3, <1>4

\* A fill is the first of its order: its row holds the only bytes ever sent,
\* and those were not mined before.
LEMMA MineExecutes ==
  ASSUME OrderInv, NEW t \in pool, Mine(t), UNCHANGED ledger
  PROVE  [Promise!Next]_<<Executed, ledger>>
<1>1. PICK r \in Outcome : receipt' = [receipt EXCEPT ![t] = r]
  BY DEF Mine
<1>2. t \in Tx /\ t \in sent /\ receipt[t] = "none" /\ receipt \in [Tx -> Outcome \cup {"none"}]
  BY NonceAssumption DEF Mine, OrderInv, ChainInv, ChainTypeOK, Tx, Nonce
<1>3. receipt'[t] = r /\ \A u \in Tx : u # t => receipt'[u] = receipt[u]
  BY <1>1, <1>2
<1>4. CASE r = "ok" /\ t.key.purpose = "swap"
  <2> DEFINE f == [order |-> t.key.order, tx |-> t]
  <2>1. Executed' = Executed \cup {f}
    BY <1>2, <1>3, <1>4 DEF Executed
  <2>2. f \in [order : Order, tx : Tx]
    BY <1>2 DEF Tx, Key
  <2>3. ASSUME NEW g \in Executed PROVE g.order # f.order
    <3>1. PICK u \in Tx : u.key.purpose = "swap" /\ receipt[u] = "ok"
                          /\ g = [order |-> u.key.order, tx |-> u]
      BY DEF Executed
    <3>2. u \in sent /\ row[u.key].tx = u /\ row[t.key].tx = t
      BY <1>2, <3>1 DEF OrderInv, ChainInv, Core, DurableBeforeSent
    <3>3. u # t
      BY <1>2, <3>1
    <3>4. u.key # t.key
      BY <3>2, <3>3
    <3>5. u.key = SwapKey(u.key.order) /\ t.key = SwapKey(t.key.order)
      BY <1>2, <1>4, <3>1, SwapKeyOf DEF Tx
    <3> QED BY <3>1, <3>4, <3>5
  <2>4. Promise!Execute(f)
    BY <2>1, <2>2, <2>3 DEF Promise!Execute
  <2> QED BY <2>2, <2>4 DEF Promise!Next
<1>5. CASE ~(r = "ok" /\ t.key.purpose = "swap")
  <2>1. Executed' = Executed
    BY <1>2, <1>3, <1>5 DEF Executed
  <2> QED BY <2>1
<1> QED BY <1>4, <1>5

\* The chain's steps and the posting of a fill are all that Fills sees.
LEMMA NextFills ==
  ASSUME OrderInv, [Next]_vars PROVE [Promise!Next]_<<Executed, ledger>>
<1>1. ASSUME UNCHANGED receipt, NEW o \in Order, Posts(o)
      PROVE  [Promise!Next]_<<Executed, ledger>>
  <2>1. Executed' = Executed
    BY <1>1 DEF Executed
  <2>2. PICK t \in final : t.key = SwapKey(o) /\ receipt[t] = "ok"
    BY <1>1 DEF Posts
  <2>3. t \in Tx /\ t.key.purpose = "swap" /\ t.key.order = o
    BY <2>2, KeysOfOrder DEF OrderInv, ChainInv, ChainTypeOK
  <2>4. [order |-> o, tx |-> t] \in Executed
    BY <2>2, <2>3 DEF Executed
  <2>5. \E f \in Executed : f.order = o
    BY <2>4
  <2>6. Promise!Post(o)
    BY <1>1, <2>1, <2>5 DEF Posts, Promise!Post
  <2> QED BY <2>6 DEF Promise!Next
<1>2. ASSUME UNCHANGED <<receipt, ledger>> PROVE [Promise!Next]_<<Executed, ledger>>
  BY <1>2 DEF Executed
<1>3. ASSUME NEW p \in Proc, NEW o \in Order, Propose(p, o) PROVE UNCHANGED <<receipt, ledger>>
  BY <1>3 DEF Propose, World
<1>4. ASSUME NEW o \in Order, PlaceStep(o) PROVE UNCHANGED <<receipt, ledger>>
  BY <1>4 DEF PlaceStep, Refused, NeedsAllowance, HasAllowance, ApprovalMined, ApprovalReverted,
       ApprovalTimeout, Quoted, TurnStep, NonceStep, SignStep, SendStep, Hears, FailOrder, Continues,
       Submitted, orderVars, World
<1>5. ASSUME NEW p \in Proc, PollStep(p) PROVE [Promise!Next]_<<Executed, ledger>>
  <2>1. CASE PollStart(p)
    BY <1>2, <2>1 DEF PollStart, World
  <2>2. ASSUME NEW i \in Item, NEW a \in Answer, PollOne(p, i, a)
        PROVE  [Promise!Next]_<<Executed, ledger>>
    <3>1. Names(i) /\ Follow(i, a) /\ UNCHANGED receipt
      BY <2>2 DEF PollOne, World, OrderInv, PollPart
    <3> QED BY <1>1, <1>2, <3>1, FollowPosts
  <2> QED BY <1>5, <2>1, <2>2 DEF PollStep
<1>6. ASSUME NEW p \in Proc, RecoveryStep(p) PROVE [Promise!Next]_<<Executed, ledger>>
  <2>1. ASSUME NEW i \in Item, NEW a \in Answer, OrderAsked(p, i, a)
        PROVE  [Promise!Next]_<<Executed, ledger>>
    <3>1. Names(i) /\ Follow(i, a) /\ UNCHANGED receipt
      BY <2>1 DEF OrderAsked, World, OrderInv, RedoPart
    <3> QED BY <1>1, <1>2, <3>1, FollowPosts
  <2>2. ASSUME NEW i \in Item, OrderOrphaned(p, i) PROVE UNCHANGED <<receipt, ledger>>
    BY <2>2 DEF OrderOrphaned, Record, World
  <2>3. CASE RecoverySend(p) \/ RecoveryScan(p) \/ OrdersStart(p) \/ OrdersEnd(p)
    BY <1>2, <2>3 DEF RecoverySend, RecoveryScan, OrdersStart, OrdersEnd, World, orderVars
  <2>4. CASE BootEnds(p) \/ GateFails(p) \/ GatePasses(p) \/ GateReturns(p)
    BY <1>2, <2>4 DEF BootEnds, GateFails, GatePasses, GateReturns, World, orderVars
  <2> QED BY <1>2, <1>6, <2>1, <2>2, <2>3, <2>4 DEF RecoveryStep
<1>7. ASSUME NEW p \in Proc, StartOrGate(p) \/ CrashStep(p) PROVE UNCHANGED <<receipt, ledger>>
  BY <1>7 DEF StartOrGate, CrashStep, orderVars
<1>8. CASE Halt \/ ClockStep \/ UNCHANGED vars
  BY <1>2, <1>8 DEF Halt, ClockStep, vars, coordVars, chainVars, orderVars
<1>9. CASE WorldStep
  <2>1. UNCHANGED ledger
    BY <1>9 DEF WorldStep, orderVars
  <2>2. ASSUME NEW t \in Tx, Arrive(t) \/ Evict(t) \/ Finalize(t)
        PROVE  [Promise!Next]_<<Executed, ledger>>
    BY <1>2, <2>1, <2>2 DEF Arrive, Evict, Finalize
  <2>3. wire \subseteq Tx /\ pool \subseteq Tx
    BY DEF OrderInv, ChainInv, ChainTypeOK
  <2> QED BY <1>9, <2>1, <2>2, <2>3, MineExecutes DEF WorldStep, ChainStep
<1> QED BY <1>2, <1>3, <1>4, <1>5, <1>6, <1>7, <1>8, <1>9 DEF Next

\* An order's swap takes effect at most once, and its fill is posted at most
\* once and after the effect, whatever crashes and whoever settles it.
THEOREM FillsAtMostOnce == Spec => FillsOnce
<1>1. Init => Promise!Init
  <2> SUFFICES ASSUME Init PROVE Promise!Init
    OBVIOUS
  <2>1. \A t \in Tx : receipt[t] = "none"
    BY DEF Init, CoordInit, ChainInit
  <2>2. Executed = {}
    BY <2>1 DEF Executed
  <2> QED BY <2>2 DEF Init, Promise!Init
<1>2. OrderInv /\ [Next]_vars => [Promise!Next]_<<Executed, ledger>>
  BY NextFills
<1> QED BY InvariantHolds, <1>1, <1>2, PTL DEF Spec, FillsOnce, Promise!Spec
-----------------------------------------------------------------------------
(* One server process, whose recover() runs at boot alone.                  *)

Alone == MaxGate = 0 /\ \A p, q \in Proc : p = q

Working(o) == job[o] \notin {"new", "over"}
Asking == {"nonce", "sign", "send"}

\* Recovery runs at boot alone, and a process serves once it is up.
Stages ==
  \A p \in Proc :
    /\ phase[p] = "boot" => task[p].pc \in {"scan", "sign", "send", "orders", "books"}
    /\ phase[p] # "boot" => task[p].pc = "idle"
    /\ task[p].pc \notin {"scan", "sign", "send"} => scan[p].todo = {}
    /\ phase[p] # "up" => queue[p] = <<>> /\ poll[p].todo = {}

\* What a job says of its order and of its request.
JobOf(o) ==
  /\ job[o] = "new" <=> order[o].state = "none"
  /\ job[o] = "new" => home[o] \notin Proc
  /\ Working(o) => /\ order[o].state = "submitting" /\ home[o] \in Proc
                   /\ \A p \in Proc : phase[p] = "up"
  /\ task[o].pc \in {"idle", "queued"} \cup Asking
  /\ task[o].pc # "idle" <=> job[o] \in {"allowance", "swap"}
  /\ job[o] = "allowance" => task[o].key = AllowanceKey(o)
  /\ job[o] = "swap" => task[o].key = SwapKey(o)
JobTask == \A o \in Order : JobOf(o)

\* A request waits in the queue, and is served at its head.
Turns ==
  \A o \in Order, p \in Proc :
    /\ task[o].pc # "idle" => \E i \in 1 .. Len(queue[p]) : queue[p][i] = o
    /\ task[o].pc \in Asking => queue[p] # <<>> /\ Head(queue[p]) = o

\* Which rows an order has by now; the halt that a failed swap leaves.
RowsOf(o) ==
  /\ job[o] \in {"new", "checks"} => row[AllowanceKey(o)].state = "none"
  /\ job[o] \in {"new", "checks", "allowance", "approving", "quoting"}
       => row[SwapKey(o)].state = "none"
  /\ task[o].pc \in {"queued", "nonce"} => row[task[o].key].state = "none"
  /\ task[o].pc \in {"sign", "send"} => row[task[o].key].state \in Unresolved
  /\ order[o].state = "failed" => halted \/ row[SwapKey(o)].state = "none"
Fresh == \A o \in Order : RowsOf(o)

\* A swap that recover() found mined and that is not settled yet counts as
\* open: its row may become unknown again.
Undone(k) ==
  k.purpose = "swap" /\ row[k].state = "confirmed" /\ order[k.order].state # "filled"
Open(k) == row[k].state \in Unresolved \/ Undone(k)

OneOpen == \A j, k \in Key : Open(j) /\ Open(k) => j = k

Stopped ==
  \A k \in Key : Undone(k) =>
    /\ order[k.order].state \in {"pending", "reconciling"}
    /\ \A o \in Order : ~Working(o)
    /\ \A p \in Proc : phase[p] = "up" => halted

\* While a nonce is asked for, no row is unresolved.
Clear ==
  \A o \in Order : task[o].pc = "nonce" => \A k \in Key : row[k].state \notin Unresolved

\* recover() has only unresolved rows before it.
Scans ==
  \A p \in Proc :
    /\ \A k \in scan[p].todo : row[k].state \in Unresolved
    /\ task[p].pc \in {"sign", "send"} => task[p].key \in scan[p].todo

\* What poll and recovery have yet to ask about is as they found it.
Snapshots ==
  \A p \in Proc :
    /\ \A i \in poll[p].todo :
         order[i.order].state = "pending" /\ order[i.order].ref = i.ref /\ i.ref # NoTx
    /\ task[p].pc = "orders" =>
         \A i \in redo[p].todo : order[i.order].state \in InFlight /\ order[i.order].ref = i.ref

Filed ==
  \A o \in Order :
    /\ order[o].state = "filled" <=> ledger[o] = 1
    /\ ledger[o] = 1 => row[SwapKey(o)].state = "confirmed"

\* A row says confirmed or reverted only after the chain did.
ToldOf(k) ==
  /\ row[k].state = "confirmed" => Mined(row[k].tx) /\ receipt[row[k].tx] # "reverted"
  /\ row[k].state = "reverted" => Mined(row[k].tx) /\ receipt[row[k].tx] = "reverted"
Told == \A k \in Key : ToldOf(k)

\* An order refers to the bytes of its swap's row.
Refs == \A o \in Order : order[o].ref # NoTx => row[SwapKey(o)].tx = order[o].ref

Halting ==
  \A o \in Order, p \in Proc : order[o].state = "reconciling" /\ phase[p] = "up" => halted

Steady ==
  /\ OrderInv /\ Stages /\ JobTask /\ Turns /\ Fresh /\ OneOpen /\ Stopped /\ Clear
  /\ Scans /\ Snapshots /\ Filed /\ Told /\ Refs /\ Halting

-----------------------------------------------------------------------------
(* A step of a placement.                                                   *)

\* What it leaves alone.
Beside(o) ==
  /\ UNCHANGED <<receipt, phase, poll, redo, scan, ledger>>
  /\ \A p \in Proc : task'[p] = task[p]
  /\ \A q \in Order : q # o => /\ task'[q] = task[q] /\ job'[q] = job[q]
                              /\ order'[q] = order[q] /\ home'[q] = home[q]
  /\ halted => halted'
  /\ \A k \in Key : k.order # o => row'[k] = row[k]

\* What it makes of its order.
Own(o) ==
  /\ order'[o].state \in {"submitting", "pending", "failed"}
  /\ job'[o] # "new" /\ home'[o] \in Proc
  /\ job'[o] # "over" => order'[o].state = "submitting"
  /\ task'[o].pc \in {"idle", "queued"} \cup Asking
  /\ task'[o].pc # "idle" <=> job'[o] \in {"allowance", "swap"}
  /\ job'[o] = "allowance" => task'[o].key = AllowanceKey(o)
  /\ job'[o] = "swap" => task'[o].key = SwapKey(o)

OwnRows(o) ==
  /\ job'[o] = "checks" => row'[AllowanceKey(o)].state = "none"
  /\ job'[o] \in {"checks", "allowance", "approving", "quoting"} => row'[SwapKey(o)].state = "none"
  /\ task'[o].pc \in {"queued", "nonce"} => row'[task'[o].key].state = "none"
  /\ task'[o].pc \in {"sign", "send"} => row'[task'[o].key].state \in Unresolved
  /\ order'[o].state = "failed" => halted' \/ row'[SwapKey(o)].state = "none"
  /\ row'[SwapKey(o)].state # "confirmed"
  /\ order'[o].ref # NoTx => row'[SwapKey(o)].tx = order'[o].ref

OwnOpen(o) ==
  /\ task'[o].pc = "nonce" => \A k \in Key : row'[k].state \notin Unresolved
  /\ \A k \in Key : row'[k].state \in Unresolved =>
       row[k].state \in Unresolved \/ (task[o].pc = "nonce" /\ k = task[o].key)
  /\ \A k \in Key :
       /\ row'[k].state = "confirmed" =>
            row[k] = row'[k] \/ (Mined(row'[k].tx) /\ receipt[row'[k].tx] # "reverted")
       /\ row'[k].state = "reverted" =>
            row[k] = row'[k] \/ (Mined(row'[k].tx) /\ receipt[row'[k].tx] = "reverted")

LEMMA PlaceKeeps ==
  ASSUME Alone, Steady, OrderInv', NEW o \in Order, NEW p \in Proc, phase[p] = "up",
         order[o].state \in {"none", "submitting"}, \A k \in Key : ~Undone(k),
         Beside(o), Own(o), OwnRows(o), OwnOpen(o), Turns'
  PROVE  Steady'
<1>1. \A r \in Proc : phase'[r] = "up" /\ task'[r].pc = "idle" /\ scan'[r].todo = {}
  BY DEF Alone, Steady, Stages, Beside
<1>2. Stages' /\ Scans'
  BY <1>1 DEF Stages, Scans
<1>3. JobTask'
  <2> SUFFICES ASSUME NEW q \in Order PROVE JobOf(q)'
    BY DEF JobTask
  <2>1. CASE q = o
    BY <1>1, <2>1 DEF Steady, JobTask, JobOf, Own, Beside, Working, Asking
  <2>2. CASE q # o
    BY <1>1, <2>2 DEF Steady, JobTask, JobOf, Beside, Working, Asking
  <2> QED BY <2>1, <2>2
<1>4. \A k \in Key : ~Undone(k)
  OBVIOUS
<1>5. ledger[o] # 1
  BY DEF Steady, Filed
<1>6. \A q \in Order : /\ SwapKey(q) \in Key /\ AllowanceKey(q) \in Key
                       /\ SwapKey(q).order = q /\ AllowanceKey(q).order = q
  BY DEF SwapKey, AllowanceKey, Key, Purpose
<1>7. Fresh'
  <2> SUFFICES ASSUME NEW q \in Order PROVE RowsOf(q)'
    BY DEF Fresh
  <2>1. CASE q = o
    BY <2>1 DEF OwnRows, Own, RowsOf
  <2>2. CASE q # o
    <3>1. row'[SwapKey(q)] = row[SwapKey(q)] /\ row'[AllowanceKey(q)] = row[AllowanceKey(q)]
      BY <1>6, <2>2 DEF Beside
    <3>2. RowsOf(q) /\ JobOf(q)
      BY DEF Steady, Fresh, JobTask
    <3>3. task[q].pc # "idle" => row'[task[q].key] = row[task[q].key]
      BY <3>1, <3>2 DEF JobOf
    <3>4. task'[q] = task[q] /\ job'[q] = job[q] /\ order'[q] = order[q] /\ (halted => halted')
      BY <2>2 DEF Beside
    <3> QED BY <3>1, <3>2, <3>3, <3>4 DEF RowsOf
  <2> QED BY <2>1, <2>2
<1>8. \A k \in Key : ~Undone(k)'
  <2> SUFFICES ASSUME NEW k \in Key, k.purpose = "swap", row'[k].state = "confirmed",
                      order'[k.order].state # "filled" PROVE FALSE
    BY DEF Undone
  <2>1. CASE k.order = o
    BY <2>1, SwapKeyOf DEF OwnRows
  <2>2. CASE k.order # o
    <3>1. k.order \in Order
      BY DEF Key
    <3>2. row[k].state = "confirmed" /\ order[k.order].state # "filled"
      BY <2>2, <3>1 DEF Beside
    <3> QED BY <1>4, <3>2 DEF Undone
  <2> QED BY <2>1, <2>2
<1>9. OneOpen'
  <2> SUFFICES ASSUME NEW j \in Key, NEW k \in Key, row'[j].state \in Unresolved,
                      row'[k].state \in Unresolved
               PROVE j = k
    BY <1>8 DEF OneOpen, Open
  <2>1. CASE task[o].pc = "nonce"
    BY <2>1 DEF OwnOpen, Steady, Clear
  <2>2. CASE task[o].pc # "nonce"
    BY <2>2 DEF OwnOpen, Steady, OneOpen, Open
  <2> QED BY <2>1, <2>2
<1>10. Stopped'
  BY <1>8 DEF Stopped
<1>11. Clear'
  <2> SUFFICES ASSUME NEW q \in Order, task'[q].pc = "nonce", q # o, NEW k \in Key,
                      row'[k].state \in Unresolved
               PROVE FALSE
    BY DEF Clear, OwnOpen
  <2>1. task[q].pc = "nonce"
    BY DEF Beside
  <2>2. \A j \in Key : row[j].state \notin Unresolved
    BY <2>1 DEF Steady, Clear
  <2>3. task[o].pc = "nonce"
    BY <2>2 DEF OwnOpen
  <2> QED BY <2>1, <2>3 DEF Steady, Turns, Asking
<1>12. Snapshots'
  <2>1. \A r \in Proc : \A i \in poll[r].todo : i.order # o
    BY DEF Steady, Snapshots
  <2>2. \A r \in Proc : \A i \in poll[r].todo : i.order \in Order
    BY DEF Steady, OrderInv, PollPart, PollRow, Item
  <2> QED BY <1>1, <2>1, <2>2 DEF Steady, Snapshots, Beside
<1>13. Filed'
  <2> SUFFICES ASSUME NEW q \in Order
               PROVE  /\ order'[q].state = "filled" <=> ledger'[q] = 1
                      /\ ledger'[q] = 1 => row'[SwapKey(q)].state = "confirmed"
    BY DEF Filed
  <2>1. CASE q = o
    BY <1>5, <2>1 DEF Own, Beside
  <2>2. CASE q # o
    BY <1>6, <2>2 DEF Beside, Steady, Filed
  <2> QED BY <2>1, <2>2
<1>14. Told'
  BY DEF Steady, Told, ToldOf, OwnOpen, Mined, Beside
<1>15. Refs'
  BY <1>6 DEF Steady, Refs, Beside, OwnRows
<1>16. Halting'
  BY DEF Steady, Halting, Beside, Own
<1> QED BY <1>2, <1>3, <1>7, <1>9, <1>10, <1>11, <1>12, <1>13, <1>14, <1>15, <1>16 DEF Steady

\* The task moves, and no other.
LEMMA TaskMoves ==
  ASSUME OrderInv, NEW o \in Order, NEW x, task' = [task EXCEPT ![o] = x]
  PROVE  /\ task'[o] = x
         /\ \A q \in Order : q # o => task'[q] = task[q]
         /\ \A p \in Proc : task'[p] = task[p]
<1>1. task \in [Task -> Place] /\ o \in Task /\ o \notin Proc
  BY CallerAssumption, TaskAssumption DEF OrderInv, Core, TaskInv, TaskTypes, Task
<1> QED BY <1>1, CallerAssumption, TaskAssumption DEF Task

LEMMA QueueTypes ==
  ASSUME OrderInv PROVE queue \in [Proc -> Seq(Order)]
BY CallerAssumption DEF OrderInv, Core, TaskInv, TaskTypes

LEMMA TurnsAppended ==
  ASSUME Alone, OrderInv, Turns, NEW p \in Proc, NEW o \in Order, NEW k, task[o].pc = "idle",
         Submit(p, o, k)
  PROVE  Turns'
<1>1. /\ task'[o] = At("queued", k, NoTx)
      /\ \A q \in Order : q # o => task'[q] = task[q]
  BY TaskMoves DEF Submit
<1>2. queue[p] \in Seq(Order) /\ queue'[p] = Append(queue[p], o)
  BY QueueTypes DEF Submit
<1>3. \A r \in Proc : r = p
  BY DEF Alone
<1> SUFFICES ASSUME NEW q \in Order
             PROVE  /\ task'[q].pc # "idle" => \E i \in 1 .. Len(queue'[p]) : queue'[p][i] = q
                    /\ task'[q].pc \in Asking => queue'[p] # <<>> /\ Head(queue'[p]) = q
  BY <1>3 DEF Turns
<1>4. CASE q = o
  <2>1. Len(queue'[p]) \in 1 .. Len(queue'[p]) /\ queue'[p][Len(queue'[p])] = o
    BY <1>2
  <2> QED BY <1>1, <1>4, <2>1 DEF At, Asking
<1>5. CASE q # o
  <2>1. task'[q] = task[q]
    BY <1>1, <1>5
  <2>2. ASSUME task[q].pc # "idle" PROVE \E i \in 1 .. Len(queue'[p]) : queue'[p][i] = q
    <3>1. PICK i \in 1 .. Len(queue[p]) : queue[p][i] = q
      BY <2>2 DEF Turns
    <3>2. i \in 1 .. Len(queue'[p]) /\ queue'[p][i] = q
      BY <1>2, <3>1
    <3> QED BY <3>2
  <2>3. ASSUME task[q].pc \in Asking PROVE queue'[p] # <<>> /\ Head(queue'[p]) = q
    <3>1. queue[p] # <<>> /\ Head(queue[p]) = q
      BY <2>3 DEF Turns
    <3> QED BY <1>2, <3>1
  <2> QED BY <2>1, <2>2, <2>3
<1> QED BY <1>4, <1>5

\* The head of the queue is done, and the next one is served.
LEMMA TurnsFinished ==
  ASSUME Alone, OrderInv, Turns, NEW o \in Order, NEW k, NEW b,
         \A p \in Proc : queue[p] # <<>> /\ Head(queue[p]) = o, Finish(o, k, b)
  PROVE  Turns'
<1>1. /\ task' = [task EXCEPT ![o] = Idle]
      /\ \A p \in Proc : queue'[p] = Tail(queue[p])
  BY CallerAssumption DEF Finish
<1>2. task'[o] = Idle /\ \A q \in Order : q # o => task'[q] = task[q]
  BY <1>1, TaskMoves
<1> SUFFICES ASSUME NEW q \in Order, NEW p \in Proc
             PROVE  /\ task'[q].pc # "idle" => \E i \in 1 .. Len(queue'[p]) : queue'[p][i] = q
                    /\ task'[q].pc \in Asking => queue'[p] # <<>> /\ Head(queue'[p]) = q
  BY DEF Turns
<1>3. CASE q = o
  BY <1>2, <1>3 DEF Idle, At, Asking
<1>4. CASE q # o
  <2>1. task'[q] = task[q] /\ queue[p] \in Seq(Order) /\ queue[p] # <<>> /\ queue[p][1] = o
    BY <1>2, <1>4, QueueTypes
  <2>2. ASSUME task[q].pc # "idle" PROVE \E i \in 1 .. Len(queue'[p]) : queue'[p][i] = q
    <3>1. PICK i \in 1 .. Len(queue[p]) : queue[p][i] = q
      BY <2>2 DEF Turns
    <3>2. i - 1 \in 1 .. Len(Tail(queue[p])) /\ Tail(queue[p])[i - 1] = q
      BY <1>4, <2>1, <3>1
    <3> QED BY <1>1, <3>2
  <2>3. task[q].pc \notin Asking
    BY <1>4 DEF Turns
  <2> QED BY <2>1, <2>2, <2>3
<1> QED BY <1>3, <1>4

\* The head of the queue goes on.
LEMMA TurnsKept ==
  ASSUME OrderInv, Turns, NEW o \in Order, UNCHANGED queue,
         \A q \in Order : q # o => task'[q] = task[q],
         \A p \in Proc : queue[p] # <<>> /\ Head(queue[p]) = o
  PROVE  Turns'
<1>1. \A p \in Proc : queue[p][1] = o /\ 1 \in 1 .. Len(queue[p])
  BY QueueTypes
<1> QED BY <1>1 DEF Turns

\* What a step of a request leaves alone.
Calls(o) ==
  /\ UNCHANGED <<receipt, phase, scan>>
  /\ \A p \in Proc : task'[p] = task[p]
  /\ \A q \in Order : q # o => task'[q] = task[q]
  /\ \A k \in Key : k.order # o => row'[k] = row[k]

LEMMA FailEnds ==
  ASSUME OrderInv, NEW o \in Order, FailOrder(o)
  PROVE  /\ order'[o].state = "failed" /\ order'[o].ref = order[o].ref
         /\ job'[o] = "over" /\ UNCHANGED <<home, ledger, poll, redo>>
         /\ \A q \in Order : q # o => job'[q] = job[q] /\ order'[q] = order[q]
         /\ halted => halted'
         /\ row'[SwapKey(o)].state \notin {"none", "confirmed"} => halted'
<1>1. order \in [Order -> OrderRow] /\ job \in [Order -> JobPc]
  BY DEF OrderInv, OrderPart, JobPart
<1>2. row'[SwapKey(o)].state # "none" => LastKey(o)' = SwapKey(o)
  BY DEF LastKey, Exists
<1>3. halted' = (halted \/ row'[LastKey(o)'].state \notin {"none", "confirmed"})
  BY DEF FailOrder
<1>4. row'[SwapKey(o)].state \notin {"none", "confirmed"} => halted'
  BY <1>2, <1>3
<1> QED BY <1>1, <1>4 DEF FailOrder, OrderRow

LEMMA UpHome ==
  ASSUME Alone, Steady, NEW o \in Order, Working(o)
  PROVE  /\ home[o] \in Proc /\ \A p \in Proc : p = home[o] /\ phase[p] = "up"
         /\ order[o].state = "submitting" /\ \A k \in Key : ~Undone(k)
BY DEF Alone, Steady, JobTask, JobOf, Stopped

\* The order fails, and with it the placement.
LEMMA PlaceFails ==
  ASSUME Alone, Steady, OrderInv', RowStep, NEW o \in Order, Working(o), FailOrder(o), Calls(o),
         Turns', task'[o].pc = "idle", row'[SwapKey(o)].state # "confirmed", OwnOpen(o)
  PROVE  Steady'
<1>1. Beside(o)
  BY FailEnds DEF Steady, Calls, Beside
<1>2. Own(o)
  BY FailEnds, UpHome DEF Steady, Own
<1>3. OwnRows(o)
  <2>1. order'[o].ref # NoTx => row'[SwapKey(o)].tx = order'[o].ref
    BY FailEnds, KeysOfOrder DEF Steady, Refs, RowStep
  <2> QED BY <2>1, FailEnds DEF Steady, OwnRows
<1> QED BY <1>1, <1>2, <1>3, PlaceKeeps, UpHome

\* The request goes on.
LEMMA PlaceGoesOn ==
  ASSUME Alone, Steady, OrderInv', RowStep, NEW o \in Order, task[o].pc # "idle", Continues,
         Calls(o), Turns',
         task'[o].pc \in Asking, task'[o].key = task[o].key,
         \A k \in Key : k # task[o].key => row'[k] = row[k],
         task'[o].pc = "nonce" => row'[task[o].key].state = "none",
         task'[o].pc # "nonce" => row'[task[o].key].state \in Unresolved, OwnOpen(o)
  PROVE  Steady'
<1>1. UNCHANGED <<order, job, home, ledger, halted, poll, redo>>
  BY DEF Continues, orderVars
<1>2. JobOf(o) /\ RowsOf(o) /\ Working(o)
  BY DEF Steady, JobTask, JobOf, Fresh, Working
<1>3. Beside(o)
  BY <1>1 DEF Calls, Beside
<1>4. Own(o)
  BY <1>1, <1>2, UpHome DEF Own, JobOf, Asking, Working
<1>5. SwapKey(o) # AllowanceKey(o) /\ SwapKey(o) \in Key
  BY KeysOfOrder DEF SwapKey, AllowanceKey
<1>6. row'[SwapKey(o)].state # "confirmed"
  <2>1. CASE task[o].key = SwapKey(o)
    BY <2>1 DEF Unresolved
  <2>2. CASE task[o].key # SwapKey(o)
    BY <1>2, <1>5, <2>2 DEF JobOf, RowsOf
  <2> QED BY <2>1, <2>2
<1>7. OwnRows(o)
  <2>1. order'[o].ref # NoTx => row'[SwapKey(o)].tx = order'[o].ref
    BY <1>1, KeysOfOrder DEF Steady, Refs, RowStep
  <2>2. job[o] = "allowance" => row'[SwapKey(o)].state = "none"
    BY <1>2, <1>5 DEF JobOf, RowsOf
  <2>3. job'[o] \in {"allowance", "swap"} /\ order'[o].state = "submitting"
    BY <1>1, <1>2 DEF JobOf
  <2> QED BY <1>1, <1>6, <2>1, <2>2, <2>3 DEF OwnRows, Asking
<1> QED BY <1>2, <1>3, <1>4, <1>7, PlaceKeeps, UpHome

\* Rows that stay leave what is open as it was.
LEMMA OpenSame ==
  ASSUME NEW o, UNCHANGED row, task'[o].pc = "nonce" => \A k \in Key : row[k].state \notin Unresolved
  PROVE  OwnOpen(o)
BY DEF OwnOpen

\* The row of the request stays unresolved, or becomes so.
LEMMA OpenOne ==
  ASSUME NEW o, task'[o].pc # "nonce", \A k \in Key : k # task[o].key => row'[k] = row[k],
         row'[task[o].key].state \in Unresolved,
         row[task[o].key].state \in Unresolved \/ task[o].pc = "nonce"
  PROVE  OwnOpen(o)
BY DEF OwnOpen, Unresolved

LEMMA CallsSame ==
  ASSUME NEW o, UNCHANGED <<row, task, scan>>, UNCHANGED World PROVE Calls(o)
BY DEF Calls, World

LEMMA ChecksStep ==
  ASSUME Alone, Steady, OrderInv', RowStep, NEW o \in Order,
         Refused(o) \/ ApprovalTimeout(o) \/ HasAllowance(o)
  PROVE  Steady'
<1>1. job[o] \in {"checks", "quoting", "approving"} /\ UNCHANGED Tasks /\ UNCHANGED World
  BY DEF Refused, ApprovalTimeout, HasAllowance
<1>2. JobOf(o) /\ RowsOf(o) /\ Working(o) /\ Turns
  BY <1>1 DEF Steady, JobTask, Fresh, Working
<1>3. UNCHANGED <<row, task, queue, scan>>
  BY <1>1 DEF Tasks
<1>4. task[o].pc = "idle" /\ row[SwapKey(o)].state = "none"
  BY <1>1, <1>2 DEF JobOf, RowsOf
<1>5. Turns'
  BY <1>2, <1>3 DEF Turns
<1>6. Calls(o)
  BY <1>1, <1>3, CallsSame
<1>7. OwnOpen(o)
  BY <1>3, <1>4, OpenSame
<1>8. CASE FailOrder(o)
  BY <1>2, <1>3, <1>4, <1>5, <1>6, <1>7, <1>8, PlaceFails
<1>9. CASE HasAllowance(o)
  <2>1. /\ job' = [job EXCEPT ![o] = "quoting"]
        /\ UNCHANGED <<order, home, ledger, halted, poll, redo>>
    BY <1>9 DEF HasAllowance
  <2>2. job'[o] = "quoting" /\ \A q \in Order : q # o => job'[q] = job[q]
    BY <2>1 DEF Steady, OrderInv, JobPart
  <2>3. Beside(o)
    BY <1>6, <2>1, <2>2 DEF Calls, Beside
  <2>4. Own(o)
    BY <1>2, <1>3, <1>4, <2>1, <2>2 DEF Own, JobOf, Working
  <2>5. OwnRows(o)
    BY <1>2, <1>3, <1>4, <2>1, <2>2, KeysOfOrder DEF OwnRows, JobOf, Working, Steady, Refs
  <2> QED BY <1>2, <1>5, <1>7, <2>3, <2>4, <2>5, PlaceKeeps, UpHome
<1> QED BY <1>8, <1>9 DEF Refused, ApprovalTimeout

LEMMA ApprovalKeeps ==
  ASSUME Alone, Steady, OrderInv', RowStep, NEW o \in Order, ApprovalMined(o) \/ ApprovalReverted(o)
  PROVE  Steady'
<1> DEFINE k == AllowanceKey(o)
<1>1. /\ job[o] = "approving" /\ Mined(row[k].tx) /\ UNCHANGED World
      /\ UNCHANGED <<queue, task, scan>>
  BY DEF ApprovalMined, ApprovalReverted
<1>2. JobOf(o) /\ RowsOf(o) /\ Working(o) /\ Turns
  BY <1>1 DEF Steady, JobTask, Fresh, Working
<1>3. task[o].pc = "idle" /\ row[SwapKey(o)].state = "none"
  BY <1>1, <1>2 DEF JobOf, RowsOf
<1>4. Turns'
  BY <1>1, <1>2 DEF Turns
<1>5. k \in Key /\ k.order = o /\ SwapKey(o) # k /\ SwapKey(o) \in Key /\ row \in [Key -> Row]
  BY KeysOfOrder DEF SwapKey, AllowanceKey, Steady, OrderInv, Core
<1>6. /\ \A j \in Key : j # k => row'[j] = row[j]
      /\ row'[k].tx = row[k].tx
      /\ \/ ApprovalMined(o) /\ row'[k].state = "confirmed" /\ receipt[row[k].tx] # "reverted"
         \/ ApprovalReverted(o) /\ row'[k].state = "reverted" /\ receipt[row[k].tx] = "reverted"
  BY <1>5 DEF ApprovalMined, ApprovalReverted, SetState, Row
<1>7. Calls(o)
  BY <1>1, <1>5, <1>6 DEF Calls, World
<1>8. row'[SwapKey(o)] = row[SwapKey(o)]
  BY <1>5, <1>6
<1>9. OwnOpen(o)
  BY <1>1, <1>3, <1>6 DEF OwnOpen, Unresolved
<1>10. CASE ApprovalReverted(o)
  BY <1>1, <1>2, <1>3, <1>4, <1>7, <1>8, <1>9, <1>10, PlaceFails DEF ApprovalReverted
<1>11. CASE ApprovalMined(o)
  <2>1. /\ job' = [job EXCEPT ![o] = "quoting"]
        /\ UNCHANGED <<order, home, ledger, halted, poll, redo>>
    BY <1>11 DEF ApprovalMined
  <2>2. job'[o] = "quoting" /\ \A q \in Order : q # o => job'[q] = job[q]
    BY <2>1 DEF Steady, OrderInv, JobPart
  <2>3. Beside(o)
    BY <1>7, <2>1, <2>2 DEF Calls, Beside
  <2>4. Own(o)
    BY <1>1, <1>2, <1>3, <2>1, <2>2 DEF Own, JobOf
  <2>5. OwnRows(o)
    BY <1>1, <1>2, <1>3, <1>8, <2>1, <2>2, KeysOfOrder DEF OwnRows, JobOf, Working, Steady, Refs
  <2> QED BY <1>2, <1>4, <1>9, <2>3, <2>4, <2>5, PlaceKeeps, UpHome
<1> QED BY <1>10, <1>11

LEMMA SubmitKeeps ==
  ASSUME Alone, Steady, OrderInv', RowStep, NEW o \in Order, NeedsAllowance(o) \/ Quoted(o)
  PROVE  Steady'
<1> DEFINE k == IF job[o] = "checks" THEN AllowanceKey(o) ELSE SwapKey(o)
           j == IF job[o] = "checks" THEN "allowance" ELSE "swap"
<1>1. /\ job[o] \in {"checks", "quoting"} /\ UNCHANGED World
      /\ Submit(home[o], o, k)
      /\ job' = [job EXCEPT ![o] = j]
      /\ UNCHANGED <<order, home, ledger, halted, poll, redo>>
  BY DEF NeedsAllowance, Quoted
<1> HIDE DEF k, j
<1>2. JobOf(o) /\ RowsOf(o) /\ Working(o) /\ Turns /\ OrderInv
  BY <1>1 DEF Steady, JobTask, Fresh, Working
<1>3. task[o].pc = "idle" /\ row[SwapKey(o)].state = "none" /\ row[k].state = "none"
  BY <1>1, <1>2 DEF JobOf, RowsOf, k
<1>4. home[o] \in Proc
  BY <1>2 DEF JobOf
<1>5. Turns'
  BY <1>1, <1>2, <1>3, <1>4, TurnsAppended
<1>6. task' = [task EXCEPT ![o] = At("queued", k, NoTx)] /\ UNCHANGED <<row, scan>>
  BY <1>1 DEF Submit
<1>7. /\ task'[o].pc = "queued" /\ task'[o].key = k
      /\ \A q \in Order : q # o => task'[q] = task[q]
      /\ \A p \in Proc : task'[p] = task[p]
  <2>1. /\ task'[o] = At("queued", k, NoTx)
        /\ \A q \in Order : q # o => task'[q] = task[q]
        /\ \A p \in Proc : task'[p] = task[p]
    BY <1>2, <1>6, TaskMoves
  <2> QED BY <2>1 DEF At
<1>8. job'[o] = j /\ \A q \in Order : q # o => job'[q] = job[q]
  BY <1>1, <1>2 DEF OrderInv, JobPart
<1>9. Beside(o)
  BY <1>1, <1>6, <1>7, <1>8 DEF Beside, World
<1>10. j = "allowance" => k = AllowanceKey(o)
  BY DEF j, k
<1>11. j = "swap" => k = SwapKey(o)
  BY DEF j, k
<1>12. j \in {"allowance", "swap"}
  BY DEF j
<1>13. Own(o)
  BY <1>1, <1>2, <1>7, <1>8, <1>10, <1>11, <1>12 DEF Own, JobOf
<1>14. OwnRows(o)
  BY <1>1, <1>2, <1>3, <1>6, <1>7, <1>8, <1>12, KeysOfOrder DEF OwnRows, JobOf, Working, Steady, Refs
<1>15. OwnOpen(o)
  BY <1>6, <1>7, OpenSame
<1> QED BY <1>2, <1>5, <1>9, <1>13, <1>14, <1>15, PlaceKeeps, UpHome

\* A request that ends with a throw and changed its row at most.
LEMMA ThrowKeeps ==
  ASSUME Alone, Steady, OrderInv', RowStep, NEW o \in Order, task[o].pc # "idle",
         \A p \in Proc : queue[p] # <<>> /\ Head(queue[p]) = o,
         NEW b, Finish(o, task[o].key, b), Hears(o), UNCHANGED World,
         \A k \in Key : k # task[o].key => row'[k] = row[k],
         UNCHANGED row \/ /\ row'[task[o].key].state \in Unresolved
                          /\ row[task[o].key].state \in Unresolved \/ task[o].pc = "nonce"
  PROVE  Steady'
<1>1. JobOf(o) /\ RowsOf(o) /\ Turns /\ OrderInv
  BY DEF Steady, JobTask, Fresh
<1>2. Working(o)
  BY <1>1 DEF JobOf, Working
<1>3. Turns'
  BY <1>1, TurnsFinished
<1>4. task' = [task EXCEPT ![o] = Idle] /\ UNCHANGED scan
  BY CallerAssumption DEF Finish
<1>5. /\ task'[o].pc = "idle"
      /\ \A q \in Order : q # o => task'[q] = task[q]
      /\ \A p \in Proc : task'[p] = task[p]
  <2>1. /\ task'[o] = Idle
        /\ \A q \in Order : q # o => task'[q] = task[q]
        /\ \A p \in Proc : task'[p] = task[p]
    BY <1>1, <1>4, TaskMoves
  <2> QED BY <2>1 DEF Idle, At
<1>6. FailOrder(o)
  BY <1>5 DEF Hears
<1>7. /\ SwapKey(o) # AllowanceKey(o) /\ SwapKey(o) \in Key
      /\ SwapKey(o).order = o /\ AllowanceKey(o).order = o
  BY KeysOfOrder DEF SwapKey, AllowanceKey
<1>8. task[o].key.order = o
  BY <1>1, <1>7 DEF JobOf
<1>9. Calls(o)
  BY <1>4, <1>5, <1>8 DEF Calls, World
<1>10. row[SwapKey(o)].state # "confirmed"
  BY <1>1, <1>2 DEF JobOf, RowsOf, Working, Asking, Unresolved
<1>11. row'[SwapKey(o)].state # "confirmed"
  BY <1>7, <1>10 DEF Unresolved
<1>12. OwnOpen(o)
  BY <1>5, OpenSame, OpenOne
<1> QED BY <1>2, <1>3, <1>5, <1>6, <1>9, <1>11, <1>12, PlaceFails

\* A request that has its turn.
LEMMA AtHead ==
  ASSUME Alone, Steady, NEW o \in Order,
         task[o].pc \in Asking \/ \E p \in Proc : Turn(p, o)
  PROVE  /\ \A p \in Proc : queue[p] # <<>> /\ Head(queue[p]) = o
         /\ task[o].pc \in {"queued"} \cup Asking
         /\ task[o].key \in Key /\ task[o].key.order = o
<1>1. JobOf(o) /\ Turns
  BY DEF Steady, JobTask
<1>2. task[o].pc # "idle"
  BY DEF Turn, Asking
<1>3. task[o].key \in {SwapKey(o), AllowanceKey(o)}
  BY <1>1, <1>2 DEF JobOf
<1>4. task[o].key \in Key /\ task[o].key.order = o
  <2>1. /\ SwapKey(o) \in Key /\ AllowanceKey(o) \in Key
        /\ SwapKey(o).order = o /\ AllowanceKey(o).order = o
    BY KeysOfOrder DEF AllowanceKey
  <2> QED BY <1>3, <2>1
<1> QED BY <1>1, <1>2, <1>4 DEF Alone, Turn, Turns, JobOf

LEMMA TurnKeeps ==
  ASSUME Alone, Steady, OrderInv', RowStep, NEW p \in Proc, NEW o \in Order, TurnStep(p, o)
  PROVE  Steady'
<1>1. Turn(p, o) /\ Hears(o) /\ UNCHANGED World
  BY DEF TurnStep, LeaseRefused, WalletBlocked, AskNonce
<1>2. /\ \A r \in Proc : queue[r] # <<>> /\ Head(queue[r]) = o
      /\ task[o].key \in Key /\ task[o].key.order = o
  BY <1>1, AtHead
<1>3. task[o].pc = "queued" /\ OrderInv /\ Turns
  BY <1>1 DEF Turn, Steady
<1>4. CASE LeaseRefused(p, o) \/ WalletBlocked(p, o)
  <2>1. Finish(o, task[o].key, TRUE) /\ UNCHANGED row
    BY <1>4 DEF LeaseRefused, WalletBlocked, Throw
  <2>2. \A k \in Key : k # task[o].key => row'[k] = row[k]
    BY <2>1
  <2>3. task[o].pc # "idle"
    BY <1>3
  <2> QED BY <1>1, <1>2, <2>1, <2>2, <2>3, ThrowKeeps
<1>5. CASE AskNonce(p, o)
  <2>1. PICK n \in Count : task' = [task EXCEPT ![o] = Asked(task[o].key, n)]
    BY <1>5 DEF AskNonce
  <2>2. /\ task'[o] = Asked(task[o].key, n)
        /\ \A q \in Order : q # o => task'[q] = task[q]
        /\ \A r \in Proc : task'[r] = task[r]
    BY <1>3, <2>1, TaskMoves
  <2>3. task'[o].pc = "nonce" /\ task'[o].key = task[o].key
    BY <2>2 DEF Asked
  <2>4. /\ UNCHANGED <<row, queue, scan>>
        /\ row[task[o].key].state = "none" /\ \A k \in Key : row[k].state \notin Unresolved
    BY <1>5 DEF AskNonce, Exists, WalletBusy
  <2>5. Turns'
    BY <1>2, <1>3, <2>2, <2>4, TurnsKept
  <2>6. OwnOpen(o)
    BY <2>4, OpenSame
  <2>7. Calls(o)
    BY <1>1, <2>2, <2>4 DEF Calls, World
  <2>8. Continues
    BY <1>1, <2>3 DEF Hears
  <2> QED BY <1>3, <2>3, <2>4, <2>5, <2>6, <2>7, <2>8, PlaceGoesOn DEF Asking
<1> QED BY <1>4, <1>5 DEF TurnStep

\* A request that goes on to sign or to send.
LEMMA AsksOn ==
  ASSUME Alone, Steady, OrderInv', RowStep, NEW o \in Order, task[o].pc \in Asking,
         task'[o].pc \in {"sign", "send"}, task'[o].key = task[o].key,
         \A q \in Order : q # o => task'[q] = task[q], \A r \in Proc : task'[r] = task[r],
         UNCHANGED <<queue, scan>>, Hears(o), UNCHANGED World,
         \A k \in Key : k # task[o].key => row'[k] = row[k],
         row'[task[o].key].state \in Unresolved,
         row[task[o].key].state \in Unresolved \/ task[o].pc = "nonce"
  PROVE  Steady'
<1>1. /\ \A r \in Proc : queue[r] # <<>> /\ Head(queue[r]) = o
      /\ task[o].key \in Key /\ task[o].key.order = o
  BY AtHead
<1>2. OrderInv /\ Turns /\ task[o].pc # "idle"
  BY DEF Steady, Asking
<1>3. Turns'
  BY <1>1, <1>2, TurnsKept
<1>4. OwnOpen(o)
  BY OpenOne
<1>5. Calls(o)
  BY <1>1 DEF Calls, World
<1>6. Continues
  BY DEF Hears
<1> QED BY <1>2, <1>3, <1>4, <1>5, <1>6, PlaceGoesOn DEF Asking

LEMMA NonceKeeps ==
  ASSUME Alone, Steady, OrderInv', RowStep, NEW o \in Order, NonceStep(o) PROVE Steady'
<1> DEFINE k == task[o].key
           Inserted(n, s) == [state |-> s, nonce |-> n, tx |-> NoTx, payload |-> FALSE]
<1>1. task[o].pc = "nonce" /\ Hears(o) /\ UNCHANGED World
  BY DEF NonceStep, NonceReply, NonceError
<1>2. task[o].pc \in Asking /\ task[o].pc # "idle"
  BY <1>1 DEF Asking
<1>3. /\ \A r \in Proc : queue[r] # <<>> /\ Head(queue[r]) = o
      /\ k \in Key
  BY <1>2, AtHead
<1>4. row \in [Key -> Row] /\ OrderInv
  BY DEF Steady, OrderInv, Core
<1>5. CASE NonceError(o)
  <2>1. Finish(o, k, TRUE) /\ UNCHANGED row
    BY <1>5 DEF NonceError, Throw
  <2> QED BY <1>1, <1>2, <1>3, <2>1, ThrowKeeps
<1>6. CASE NonceReply(o)
  <2>1. PICK n \in Nonce :
          \/ BeginSign(o, k) /\ row' = [row EXCEPT ![k] = Inserted(n, "prepared")]
          \/ Throw(o, k) /\ row' = [row EXCEPT ![k] = Inserted(n, "unknown")]
    BY <1>6 DEF NonceReply
  <2>2. PICK s \in {"prepared", "unknown"} : row' = [row EXCEPT ![k] = Inserted(n, s)]
    BY <2>1
  <2>3. row'[k].state \in Unresolved /\ \A j \in Key : j # k => row'[j] = row[j]
    BY <1>3, <1>4, <2>2 DEF Unresolved
  <2>4. CASE BeginSign(o, k)
    <3>1. /\ task'[o] = At("sign", k, NoTx)
          /\ \A q \in Order : q # o => task'[q] = task[q]
          /\ \A p \in Proc : task'[p] = task[p]
      BY <1>4, <2>4, TaskMoves DEF BeginSign
    <3>2. task'[o].pc \in {"sign", "send"} /\ task'[o].key = k
      BY <3>1 DEF At
    <3>3. UNCHANGED <<queue, scan>>
      BY <2>4 DEF BeginSign
    <3> QED BY <1>1, <1>2, <2>3, <3>1, <3>2, <3>3, AsksOn
  <2>5. CASE Throw(o, k)
    <3>1. Finish(o, k, TRUE)
      BY <2>5 DEF Throw
    <3> QED BY <1>1, <1>2, <1>3, <2>3, <3>1, ThrowKeeps
  <2> QED BY <2>1, <2>4, <2>5
<1> QED BY <1>5, <1>6 DEF NonceStep

LEMMA SignKeeps ==
  ASSUME Alone, Steady, OrderInv', RowStep, NEW o \in Order, SignStep(o) PROVE Steady'
<1> DEFINE k == task[o].key
<1>1. task[o].pc = "sign" /\ Hears(o) /\ UNCHANGED World
  BY DEF SignStep, SignReply, SignError
<1>2. task[o].pc \in Asking /\ task[o].pc # "idle"
  BY <1>1 DEF Asking
<1>3. /\ \A r \in Proc : queue[r] # <<>> /\ Head(queue[r]) = o
      /\ k \in Key
  BY <1>2, AtHead
<1>4. row \in [Key -> Row] /\ row[k].state \in Unresolved /\ OrderInv
  BY <1>1 DEF Steady, OrderInv, Core, Fresh, RowsOf
<1>5. CASE SignError(o)
  <2>1. Finish(o, k, TRUE) /\ UNCHANGED row
    BY <1>5 DEF SignError, Throw
  <2> QED BY <1>1, <1>2, <1>3, <2>1, ThrowKeeps
<1>6. CASE SignReply(o)
  <2>1. PICK s \in Sig :
          \/ /\ BeginSend(o, k, Stored(k, s, "signed"))
             /\ row' = [row EXCEPT ![k] = Stored(k, s, "signed")]
          \/ Throw(o, k) /\ row' = [row EXCEPT ![k] = Stored(k, s, "unknown")]
    BY <1>6 DEF SignReply
  <2>2. PICK u \in {"signed", "unknown"} : row' = [row EXCEPT ![k] = Stored(k, s, u)]
    BY <2>1
  <2>3. row'[k].state \in Unresolved /\ \A j \in Key : j # k => row'[j] = row[j]
    BY <1>3, <1>4, <2>2 DEF Stored, Unresolved
  <2>4. CASE BeginSend(o, k, Stored(k, s, "signed"))
    <3> DEFINE r == Stored(k, s, "signed")
    <3>1. /\ task'[o] = At("send", k, IF r.payload THEN r.tx ELSE NoTx)
          /\ \A q \in Order : q # o => task'[q] = task[q]
          /\ \A p \in Proc : task'[p] = task[p]
      BY <1>4, <2>4, TaskMoves DEF BeginSend
    <3>2. task'[o].pc \in {"sign", "send"} /\ task'[o].key = k
      BY <3>1 DEF At
    <3>3. UNCHANGED <<queue, scan>>
      BY <2>4 DEF BeginSend
    <3> QED BY <1>1, <1>2, <1>4, <2>3, <3>1, <3>2, <3>3, AsksOn
  <2>5. CASE Throw(o, k)
    <3>1. Finish(o, k, TRUE)
      BY <2>5 DEF Throw
    <3> QED BY <1>1, <1>2, <1>3, <1>4, <2>3, <3>1, ThrowKeeps
  <2> QED BY <2>1, <2>4, <2>5
<1> QED BY <1>5, <1>6 DEF SignStep

\* What the row of a request holds is what the request sends.
LEMMA SentIsRow ==
  ASSUME OrderInv, NEW w \in Task, task[w].pc = "send", task[w].tx \in sent
  PROVE  task[w].tx \in Tx /\ task[w].tx # NoTx /\ row[task[w].key].tx = task[w].tx
<1>1. task[w].tx \in Tx /\ task[w].tx # NoTx
  BY NoTxAssumption DEF OrderInv, Core
<1>2. task[w].tx.key = task[w].key
  BY <1>1 DEF OrderInv, Core, TaskInv, SendShape
<1> QED BY <1>1, <1>2 DEF OrderInv, Core, DurableBeforeSent

LEMMA SendKeeps ==
  ASSUME Alone, Steady, OrderInv', RowStep, NEW o \in Order, SendStep(o) PROVE Steady'
<1> DEFINE k == task[o].key
           t == task[o].tx
<1>1. task[o].pc = "send" /\ UNCHANGED World
  BY DEF SendStep, SendReply, SendError
<1>2. task[o].pc \in Asking /\ task[o].pc # "idle"
  BY <1>1 DEF Asking
<1>3. /\ \A r \in Proc : queue[r] # <<>> /\ Head(queue[r]) = o
      /\ k \in Key /\ k.order = o
  BY <1>2, AtHead
<1>4. OrderInv /\ Turns /\ row \in [Key -> Row] /\ row[k].state \in Unresolved
  BY <1>1 DEF Steady, OrderInv, Core, Fresh, RowsOf
<1>5. CASE SendError(o) /\ Hears(o)
  <2>1. Finish(o, k, TRUE) /\ UNCHANGED row
    BY <1>5 DEF SendError, Throw
  <2> QED BY <1>1, <1>2, <1>3, <1>5, <2>1, ThrowKeeps
<1>6. CASE SendReply(o) /\ Submitted(o)
  <2>1. /\ t \in sent
        /\ row' = [row EXCEPT ![k].state = "broadcast"]
        /\ order' = IF k.purpose = "swap"
                      THEN [order EXCEPT ![k.order] = [state |-> "pending", ref |-> t]]
                      ELSE order
        /\ Finish(o, k, FALSE)
        /\ job' = [job EXCEPT ![o] = IF @ = "allowance" THEN "approving" ELSE "over"]
        /\ UNCHANGED <<home, ledger, halted, poll, redo>>
    BY <1>6 DEF SendReply, Submitted, Return, SetState
  <2>2. JobOf(o) /\ RowsOf(o) /\ Working(o) /\ o \in Task
    BY <1>2, CallerAssumption DEF Steady, JobTask, JobOf, Fresh, Working, Task
  <2>3. t \in Tx /\ t # NoTx /\ row[k].tx = t
    BY <1>1, <1>4, <2>1, <2>2, SentIsRow
  <2>4. row'[k].state = "broadcast" /\ row'[k].tx = t /\ \A j \in Key : j # k => row'[j] = row[j]
    BY <1>3, <1>4, <2>1, <2>3 DEF Row
  <2>5. task' = [task EXCEPT ![o] = Idle] /\ UNCHANGED scan
    BY <2>1, CallerAssumption DEF Finish
  <2>6. /\ task'[o].pc = "idle"
        /\ \A q \in Order : q # o => task'[q] = task[q]
        /\ \A r \in Proc : task'[r] = task[r]
    <3>1. /\ task'[o] = Idle
          /\ \A q \in Order : q # o => task'[q] = task[q]
          /\ \A r \in Proc : task'[r] = task[r]
      BY <1>4, <2>5, TaskMoves
    <3> QED BY <3>1 DEF Idle, At
  <2>7. Turns'
    BY <1>3, <1>4, <2>1, TurnsFinished
  <2>8. job \in [Order -> JobPc] /\ order \in [Order -> OrderRow]
    BY <1>4 DEF OrderInv, JobPart, OrderPart
  <2>9. \A q \in Order : q # o => job'[q] = job[q] /\ order'[q] = order[q]
    BY <1>3, <2>1, <2>8
  <2>10. Beside(o)
    BY <1>1, <1>3, <2>1, <2>4, <2>5, <2>6, <2>9 DEF Beside, World
  <2>11. OwnOpen(o)
    BY <1>4, <2>4, <2>6 DEF OwnOpen, Unresolved
  <2>12. SwapKey(o) # AllowanceKey(o) /\ SwapKey(o) \in Key
         /\ SwapKey(o).purpose = "swap" /\ AllowanceKey(o).purpose # "swap"
    BY KeysOfOrder DEF SwapKey, AllowanceKey
  <2>13. CASE job[o] = "allowance"
    <3>1. k = AllowanceKey(o) /\ order' = order /\ job'[o] = "approving"
      BY <2>1, <2>2, <2>8, <2>12, <2>13 DEF JobOf
    <3>2. Own(o)
      BY <2>1, <2>2, <2>6, <3>1, UpHome DEF Own
    <3>3. row'[SwapKey(o)] = row[SwapKey(o)] /\ row[SwapKey(o)].state = "none"
      BY <2>2, <2>4, <2>12, <2>13, <3>1 DEF RowsOf
    <3>4. OwnRows(o)
      BY <2>2, <2>6, <3>1, <3>3, UpHome DEF OwnRows, Steady, Refs
    <3> QED BY <2>2, <2>7, <2>10, <2>11, <3>2, <3>4, PlaceKeeps, UpHome
  <2>14. CASE job[o] # "allowance"
    <3>1. k = SwapKey(o) /\ job'[o] = "over"
      BY <1>2, <2>1, <2>2, <2>8, <2>14 DEF JobOf
    <3>2. order'[o].state = "pending" /\ order'[o].ref = t
      BY <1>3, <2>1, <2>8, <2>12, <3>1
    <3>3. Own(o)
      BY <2>1, <2>2, <2>6, <3>1, <3>2, UpHome DEF Own
    <3>4. OwnRows(o)
      BY <2>4, <2>6, <3>1, <3>2 DEF OwnRows
    <3> QED BY <2>2, <2>7, <2>10, <2>11, <3>3, <3>4, PlaceKeeps, UpHome
  <2> QED BY <2>13, <2>14
<1> QED BY <1>5, <1>6 DEF SendStep

LEMMA PlaceStepKeeps ==
  ASSUME Alone, Steady, OrderInv', RowStep, NEW o \in Order, PlaceStep(o) PROVE Steady'
BY ChecksStep, ApprovalKeeps, SubmitKeeps, TurnKeeps, NonceKeeps, SignKeeps, SendKeeps DEF PlaceStep

LEMMA ProposeKeeps ==
  ASSUME Alone, Steady, OrderInv', RowStep, NEW p \in Proc, NEW o \in Order, Propose(p, o)
  PROVE  Steady'
<1>1. /\ phase[p] = "up" /\ ~halted /\ order[o].state = "none"
      /\ order' = [order EXCEPT ![o].state = "submitting"]
      /\ job' = [job EXCEPT ![o] = "checks"]
      /\ home' = [home EXCEPT ![o] = p]
      /\ UNCHANGED <<row, queue, task, scan, ledger, halted, poll, redo>> /\ UNCHANGED World
  BY DEF Propose, Tasks
<1>2. \A k \in Key : ~Undone(k)
  BY <1>1 DEF Steady, Stopped
<1>3. JobOf(o) /\ RowsOf(o) /\ Turns
  BY DEF Steady, JobTask, Fresh
<1>4. job[o] = "new" /\ task[o].pc = "idle"
  BY <1>1, <1>3 DEF JobOf
<1>5. /\ job \in [Order -> JobPc] /\ order \in [Order -> OrderRow]
      /\ home \in [Order -> Proc \cup {Nobody}]
  BY DEF Steady, OrderInv, JobPart, OrderPart
<1>6. /\ order'[o].state = "submitting" /\ order'[o].ref = order[o].ref
      /\ job'[o] = "checks" /\ home'[o] = p
      /\ \A q \in Order : q # o => /\ job'[q] = job[q] /\ order'[q] = order[q]
                                   /\ home'[q] = home[q]
  BY <1>1, <1>5 DEF OrderRow
<1>7. Beside(o)
  BY <1>1, <1>6 DEF Beside, World
<1>8. Own(o)
  BY <1>1, <1>4, <1>6 DEF Own
<1>9. OwnRows(o)
  BY <1>1, <1>3, <1>4, <1>6 DEF OwnRows, RowsOf, Steady, Refs
<1>10. OwnOpen(o)
  BY <1>1, <1>4, OpenSame
<1>11. Turns'
  BY <1>1, <1>3 DEF Turns
<1> QED BY <1>1, <1>2, <1>7, <1>8, <1>9, <1>10, <1>11, PlaceKeeps

-----------------------------------------------------------------------------
(* An order's answer, to the poll or to recovery.                           *)

\* What it makes of the order and of its swap's row: reverted, filled, odd, or
\* the row as it was.
Answered(o) ==
  \/ /\ row'[SwapKey(o)].state = "reverted" /\ Mined(row[SwapKey(o)].tx)
     /\ receipt[row[SwapKey(o)].tx] = "reverted"
     /\ order'[o].state = "failed" /\ halted' /\ ledger'[o] = ledger[o]
  \/ /\ row'[SwapKey(o)].state = "confirmed" /\ Mined(row[SwapKey(o)].tx)
     /\ receipt[row[SwapKey(o)].tx] # "reverted"
     /\ order'[o].state = "filled" /\ ledger'[o] = 1
  \/ /\ row'[SwapKey(o)].state = "unknown" /\ row[SwapKey(o)].state \notin {"none", "reverted"}
     /\ order'[o].state = "reconciling" /\ ledger'[o] = ledger[o]
  \/ /\ row'[SwapKey(o)] = row[SwapKey(o)]
     /\ order'[o].state \in {"pending", "reconciling"} /\ ledger'[o] = ledger[o]

Followed(o) ==
  /\ Answered(o)
  /\ UNCHANGED <<receipt, phase, queue, task, scan, job, home>>
  /\ \A k \in Key : k # SwapKey(o) => row'[k] = row[k]
  /\ order'[o].ref = order[o].ref
  /\ \A q \in Order : q # o => order'[q] = order[q] /\ ledger'[q] = ledger[q]
  /\ halted => halted'
  /\ order'[o].state = "reconciling" => halted' \/ \A p \in Proc : phase[p] # "up"

LEMMA FollowedKeeps ==
  ASSUME Alone, Steady, OrderInv', RowStep, NEW o \in Order, Followed(o),
         order[o].state \in InFlight, ~Working(o), \A p \in Proc : scan[p].todo = {},
         \A p \in Proc : poll'[p].todo \subseteq poll[p].todo, Snapshots'
  PROVE  Steady'
<1> DEFINE s == SwapKey(o)
<1>1. s \in Key /\ s.order = o /\ s.purpose = "swap"
  BY KeysOfOrder
<1>2. UNCHANGED <<receipt, phase, queue, task, scan, job, home>>
  BY DEF Followed
<1>3. \A q \in Order : /\ SwapKey(q) \in Key /\ AllowanceKey(q) \in Key
                       /\ q # o => SwapKey(q) # s
                       /\ AllowanceKey(q) # s
  BY KeysOfOrder DEF SwapKey, AllowanceKey
<1>4. JobOf(o) /\ RowsOf(o) /\ job[o] = "over"
  <2>1. JobOf(o) /\ RowsOf(o)
    BY DEF Steady, JobTask, Fresh
  <2> QED BY <2>1 DEF JobOf, Working, InFlight
<1>5. ledger[o] # 1 /\ order[o].state # "filled"
  BY DEF Steady, Filed, InFlight
<1>6. Stages'
  BY <1>2 DEF Steady, Stages
<1>7. JobTask'
  <2> SUFFICES ASSUME NEW q \in Order PROVE JobOf(q)'
    BY DEF JobTask
  <2>1. JobOf(q)
    BY DEF Steady, JobTask
  <2>2. CASE q = o
    <3>1. order'[o].state # "none"
      BY DEF Followed, Answered
    <3> QED BY <1>2, <1>4, <2>1, <2>2, <3>1 DEF JobOf, Working, Asking
  <2>3. CASE q # o
    <3>1. order'[q] = order[q]
      BY <2>3 DEF Followed
    <3> QED BY <1>2, <2>1, <3>1 DEF JobOf, Working, Asking
  <2> QED BY <2>2, <2>3
<1>8. Turns'
  BY <1>2 DEF Steady, Turns
<1>9. \A q \in Order : q # o => row'[SwapKey(q)] = row[SwapKey(q)]
  BY <1>3 DEF Followed
<1>10. \A q \in Order : row'[AllowanceKey(q)] = row[AllowanceKey(q)]
  BY <1>3 DEF Followed
<1>11. Fresh'
  <2> SUFFICES ASSUME NEW q \in Order PROVE RowsOf(q)'
    BY DEF Fresh
  <2>1. RowsOf(q) /\ JobOf(q)
    BY DEF Steady, Fresh, JobTask
  <2>2. CASE q = o
    <3>1. task[o].pc = "idle"
      BY <1>4 DEF JobOf
    <3>2. order'[o].state = "failed" => halted'
      BY DEF Followed, Answered
    <3> QED BY <1>2, <1>4, <2>2, <3>1, <3>2 DEF RowsOf
  <2>3. CASE q # o
    <3>1. order'[q] = order[q] /\ (halted => halted')
      BY <2>3 DEF Followed
    <3>2. row'[SwapKey(q)] = row[SwapKey(q)] /\ row'[AllowanceKey(q)] = row[AllowanceKey(q)]
      BY <1>9, <1>10, <2>3
    <3>3. task[q].pc # "idle" => row'[task[q].key] = row[task[q].key]
      BY <2>1, <3>2 DEF JobOf
    <3> QED BY <1>2, <2>1, <3>1, <3>2, <3>3 DEF RowsOf
  <2> QED BY <2>2, <2>3
<1>12. ToldOf(s)
  BY <1>1 DEF Steady, Told
<1>13. Open(s)' => Open(s)
  BY <1>1, <1>5 DEF Open, Undone, Followed, Answered, RowsOf, Unresolved, Steady, OrderInv, Core,
     Row, RowState
<1>14. \A k \in Key :
         k # s => row'[k] = row[k] /\ (k.purpose = "swap" => order'[k.order] = order[k.order])
  <2> SUFFICES ASSUME NEW k \in Key, k # s
               PROVE  row'[k] = row[k] /\ (k.purpose = "swap" => order'[k.order] = order[k.order])
    OBVIOUS
  <2>1. k.order \in Order
    BY DEF Key
  <2>2. k.purpose = "swap" => k.order # o
    BY SwapKeyOf
  <2> QED BY <2>1, <2>2 DEF Followed
<1>15. \A k \in Key : k # s => (Undone(k)' => Undone(k)) /\ (Open(k)' => Open(k))
  <2> SUFFICES ASSUME NEW k \in Key, k # s PROVE (Undone(k)' => Undone(k)) /\ (Open(k)' => Open(k))
    OBVIOUS
  <2>1. row'[k] = row[k] /\ (k.purpose = "swap" => order'[k.order] = order[k.order])
    BY <1>14
  <2> QED BY <2>1 DEF Undone, Open
<1>16. OneOpen'
  BY <1>13, <1>15 DEF Steady, OneOpen
<1>17. Undone(s)' => Undone(s) /\ order'[o].state \in {"pending", "reconciling"}
  BY <1>1, <1>5 DEF Undone, Followed, Answered
<1>18. Stopped'
  <2> SUFFICES ASSUME NEW k \in Key, Undone(k)'
               PROVE  /\ order'[k.order].state \in {"pending", "reconciling"}
                      /\ \A q \in Order : ~Working(q)
                      /\ \A p \in Proc : phase[p] = "up" => halted'
    BY <1>2 DEF Stopped, Working
  <2>1. Undone(k)
    BY <1>15, <1>17
  <2>2. /\ order[k.order].state \in {"pending", "reconciling"}
        /\ \A q \in Order : ~Working(q)
        /\ \A p \in Proc : phase[p] = "up" => halted
    BY <2>1 DEF Steady, Stopped
  <2>3. order'[k.order].state \in {"pending", "reconciling"}
    <3>1. CASE k = s
      BY <1>1, <1>17, <3>1
    <3>2. CASE k # s
      <4>1. k.purpose = "swap"
        BY <2>1 DEF Undone
      <4> QED BY <1>14, <2>2, <3>2, <4>1
    <3> QED BY <3>1, <3>2
  <2> QED BY <2>2, <2>3 DEF Followed
<1>19. Clear'
  <2> SUFFICES ASSUME NEW q \in Order, task[q].pc = "nonce", NEW k \in Key, row'[k].state \in Unresolved
               PROVE FALSE
    BY <1>2 DEF Clear
  <2>1. Open(k)
    BY <1>13, <1>15 DEF Open
  <2>2. row[k].state \notin Unresolved
    BY DEF Steady, Clear
  <2>3. Undone(k)
    BY <2>1, <2>2 DEF Open
  <2>4. JobOf(q) /\ ~Working(q)
    BY <2>3 DEF Steady, JobTask, Stopped
  <2> QED BY <2>4 DEF JobOf, Working
<1>20. Scans'
  BY <1>2 DEF Steady, Scans
<1>21. Filed'
  <2> SUFFICES ASSUME NEW q \in Order
               PROVE  /\ order'[q].state = "filled" <=> ledger'[q] = 1
                      /\ ledger'[q] = 1 => row'[SwapKey(q)].state = "confirmed"
    BY DEF Filed
  <2>1. CASE q = o
    BY <1>5, <2>1 DEF Followed, Answered
  <2>2. CASE q # o
    BY <1>9, <2>2 DEF Followed, Steady, Filed
  <2> QED BY <2>1, <2>2
<1>22. row'[s].tx = row[s].tx \/ row[s].tx = NoTx
  BY <1>1 DEF RowStep
<1>23. Told'
  <2> SUFFICES ASSUME NEW k \in Key PROVE ToldOf(k)'
    BY DEF Told
  <2>1. CASE k = s
    <3>1. row[s].tx = NoTx => row'[s].state \notin {"confirmed", "reverted"}
      BY <1>12 DEF Followed, Answered, ToldOf, Mined
    <3> QED BY <1>2, <1>12, <1>22, <2>1, <3>1 DEF ToldOf, Mined, Followed, Answered
  <2>2. CASE k # s
    <3>1. row'[k] = row[k] /\ ToldOf(k)
      BY <1>14, <2>2 DEF Steady, Told
    <3> QED BY <1>2, <3>1 DEF ToldOf, Mined
  <2> QED BY <2>1, <2>2
<1>24. Refs'
  <2> SUFFICES ASSUME NEW q \in Order, order'[q].ref # NoTx PROVE row'[SwapKey(q)].tx = order'[q].ref
    BY DEF Refs
  <2>1. order'[q].ref = order[q].ref
    BY DEF Followed
  <2> QED BY <1>3, <2>1 DEF Steady, Refs, RowStep
<1>25. Halting'
  BY DEF Steady, Halting, Followed
<1> QED BY <1>6, <1>7, <1>8, <1>11, <1>16, <1>18, <1>19, <1>20, <1>21, <1>23, <1>24, <1>25 DEF Steady

\* Follow reads the order's row, and what it does to it.
LEMMA FollowTold ==
  ASSUME Steady, RowStep, NEW i \in Item, NEW a \in Answer, Follow(i, a), i.ref # NoTx,
         order[i.order].ref = i.ref, order[i.order].state \in InFlight
  PROVE  /\ (StatusOf(a, i.ref) = "failed" => halted') => Answered(i.order)
         /\ \A k \in Key : k # SwapKey(i.order) => row'[k] = row[k]
         /\ order'[i.order].ref = order[i.order].ref
         /\ \A q \in Order : q # i.order => order'[q] = order[q] /\ ledger'[q] = ledger[q]
         /\ order'[i.order].state = "reconciling" => StatusOf(a, i.ref) = "unknown"
<1> DEFINE o == i.order
           t == i.ref
           s == SwapKey(i.order)
<1>1. /\ o \in Order /\ s \in Key
      /\ row \in [Key -> Row] /\ RowShape /\ order \in [Order -> OrderRow] /\ ledger \in [Order -> Nat]
      /\ t \in Tx /\ t.key = s /\ row[s].tx = t
  BY KeysOfOrder, NoTxAssumption DEF Steady, OrderInv, Core, OrderPart, LedgerPart, Refs, Item
<1>2. \A k \in Key : k # s => row'[k] = row[k]
  BY <1>1 DEF Follow, Resolve, RowShape
<1>3. row'[s] = RowAfter(a, row[s])
  BY <1>1 DEF Follow, Resolve
<1>4. ledger[o] = 0
  BY <1>1 DEF Steady, OrderInv, LedgerPart, LedgerFollowsChain, Filed, InFlight
<1>5. ToldOf(s) /\ row[s].state # "none"
  BY <1>1, NoTxAssumption DEF Steady, Told, RowShape
<1>6. \/ Settle(o) /\ StatusOf(a, t) = "filled"
      \/ Record(o, "reconciling") /\ StatusOf(a, t) = "unknown"
      \/ Record(o, StatusOf(a, t)) /\ StatusOf(a, t) \notin {"filled", "unknown"}
  BY DEF Follow
<1>7. /\ StatusOf(a, t) = "filled" => ledger'[o] = 1 /\ order'[o].state = "filled"
      /\ StatusOf(a, t) # "filled" => ledger'[o] = ledger[o]
      /\ StatusOf(a, t) = "unknown" => order'[o].state = "reconciling"
      /\ StatusOf(a, t) \notin {"filled", "unknown"} => order'[o].state = StatusOf(a, t)
      /\ order'[o].ref = order[o].ref
      /\ \A q \in Order : q # o => order'[q] = order[q] /\ ledger'[q] = ledger[q]
  BY <1>1, <1>4, <1>6 DEF Settle, Record, OrderRow
<1>8. MayAnswer(a, t)
  BY DEF Follow
<1>9. (StatusOf(a, t) = "failed" => halted') => Answered(o)
  <2>1. CASE a = "reverted"
    <3>1. StatusOf(a, t) = "failed" /\ row'[s].state = "reverted" /\ receipt[t] = "reverted"
      BY <1>1, <1>3, <1>8, <2>1 DEF StatusOf, RowAfter, MayAnswer, Row
    <3> QED BY <1>1, <1>7, <3>1, NoTxAssumption DEF Answered, Mined
  <2>2. CASE a = "final"
    <3>1. StatusOf(a, t) = "filled" /\ row'[s].state = "confirmed" /\ receipt[t] = "ok"
      BY <1>1, <1>3, <1>8, <2>2 DEF StatusOf, RowAfter, MayAnswer, Row
    <3> QED BY <1>1, <1>7, <3>1, NoTxAssumption DEF Answered, Mined
  <2>3. CASE a = "odd"
    <3>1. StatusOf(a, t) = "unknown" /\ row'[s].state = "unknown" /\ receipt[t] = "odd"
      BY <1>1, <1>3, <1>8, <2>3 DEF StatusOf, RowAfter, MayAnswer, Row
    <3>2. row[s].state # "reverted"
      BY <1>1, <1>5, <3>1 DEF ToldOf
    <3> QED BY <1>5, <1>7, <3>1, <3>2 DEF Answered
  <2>4. CASE a \in {"unreadable", "shallow"}
    <3>1. StatusOf(a, t) \in {"pending", "unknown"} /\ row'[s] = row[s]
      BY <1>3, <2>4 DEF StatusOf, RowAfter
    <3> QED BY <1>7, <3>1 DEF Answered
  <2> QED BY <2>1, <2>2, <2>3, <2>4 DEF Answer
<1>10. order'[o].state = "reconciling" => StatusOf(a, t) = "unknown"
  <2>1. StatusOf(a, t) # "reconciling"
    BY DEF StatusOf, Answer
  <2> QED BY <1>7, <2>1
<1> QED BY <1>2, <1>7, <1>9, <1>10

\* A step that leaves the rows, the orders, the jobs and the ledger alone.
LEMMA Kept ==
  ASSUME Steady, UNCHANGED <<row, order, job, home, ledger>>,
         \A t \in Tx : Mined(t) => receipt'[t] = receipt[t],
         \A o \in Order : task'[o] = task[o],
         halted => halted', \A p \in Proc : phase[p] = "up" => phase'[p] = "up"
  PROVE  JobTask' /\ Fresh' /\ OneOpen' /\ Clear' /\ Filed' /\ Told' /\ Refs'
<1>1. JobTask'
  BY DEF Steady, JobTask, JobOf, Working, Asking
<1>2. Fresh'
  <2> SUFFICES ASSUME NEW o \in Order PROVE RowsOf(o)'
    BY DEF Fresh
  <2>1. RowsOf(o) /\ task'[o] = task[o]
    BY DEF Steady, Fresh
  <2> QED BY <2>1 DEF RowsOf
<1>3. OneOpen' /\ Clear' /\ Filed' /\ Refs'
  BY DEF Steady, OneOpen, Open, Undone, Clear, Filed, Refs
<1>4. Told'
  <2> SUFFICES ASSUME NEW k \in Key PROVE ToldOf(k)'
    BY DEF Told
  <2>1. ToldOf(k) /\ row[k].tx \in Tx \cup {NoTx}
    BY DEF Steady, Told, OrderInv, Core, Row
  <2>2. Mined(row[k].tx) => row[k].tx \in Tx /\ receipt'[row[k].tx] = receipt[row[k].tx]
    BY <2>1 DEF Mined
  <2> QED BY <2>1, <2>2 DEF ToldOf, Mined
<1> QED BY <1>1, <1>2, <1>3, <1>4

\* A step that leaves the tasks alone as well.
LEMMA Untouched ==
  ASSUME Steady, OrderInv', UNCHANGED <<row, order, job, home, ledger, phase, queue, task, scan>>,
         \A t \in Tx : Mined(t) => receipt'[t] = receipt[t], halted => halted', Stages', Snapshots'
  PROVE  Steady'
<1>1. JobTask' /\ Fresh' /\ OneOpen' /\ Clear' /\ Filed' /\ Told' /\ Refs'
  BY Kept
<1>2. Turns' /\ Scans'
  BY DEF Steady, Turns, Scans
<1>3. Stopped' /\ Halting'
  BY DEF Steady, Stopped, Halting, Undone, Working
<1> QED BY <1>1, <1>2, <1>3 DEF Steady

\* Two items of one snapshot differ in their order.
LEMMA ItemsApart ==
  ASSUME NEW i \in Item, NEW j \in Item, i # j, order[i.order].ref = i.ref, order[j.order].ref = j.ref
  PROVE  j.order # i.order
BY DEF Item

LEMMA PollKeeps ==
  ASSUME Alone, Steady, OrderInv', RowStep, NEW p \in Proc, PollStep(p) PROVE Steady'
<1>1. poll \in [Proc -> PollRow]
  BY DEF Steady, OrderInv, PollPart
<1>2. CASE PollStart(p)
  <2> DEFINE due == {i \in Item : order[i.order].state = "pending"
                                  /\ order[i.order].ref = i.ref /\ i.ref # NoTx}
  <2>1. /\ phase[p] = "up" /\ poll' = [poll EXCEPT ![p] = [on |-> TRUE, todo |-> due]]
        /\ UNCHANGED <<row, order, job, home, ledger, phase, queue, task, scan, receipt, halted, redo>>
    BY <1>2 DEF PollStart, Tasks, World
  <2>2. poll'[p].todo = due /\ \A q \in Proc : q # p => poll'[q] = poll[q]
    BY <1>1, <2>1
  <2>3. Stages'
    BY <2>1, <2>2 DEF Steady, Stages
  <2>4. Snapshots'
    BY <2>1, <2>2 DEF Steady, Snapshots
  <2> QED BY <2>1, <2>3, <2>4, Untouched
<1>3. ASSUME NEW i \in Item, NEW a \in Answer, PollOne(p, i, a) PROVE Steady'
  <2>1. /\ i \in poll[p].todo /\ Follow(i, a)
        /\ halted' = (halted \/ StatusOf(a, i.ref) \in {"unknown", "failed"})
        /\ poll' = [poll EXCEPT ![p] =
                       IF @.todo = {i} THEN NoPoll ELSE [on |-> TRUE, todo |-> @.todo \ {i}]]
        /\ UNCHANGED <<receipt, phase, queue, task, scan, job, home>>
    BY <1>3 DEF PollOne, World
  <2>2. phase[p] = "up" /\ task[p].pc = "idle"
    BY <2>1 DEF Steady, Stages
  <2>3. order[i.order].state = "pending" /\ order[i.order].ref = i.ref /\ i.ref # NoTx
    BY <2>1 DEF Steady, Snapshots
  <2>4. poll'[p].todo = poll[p].todo \ {i} /\ \A q \in Proc : q = p
    BY <1>1, <2>1 DEF NoPoll, Alone
  <2>5. i.order \in Order
    BY DEF Item
  <2>6. /\ (StatusOf(a, i.ref) = "failed" => halted') => Answered(i.order)
        /\ \A k \in Key : k # SwapKey(i.order) => row'[k] = row[k]
        /\ order'[i.order].ref = order[i.order].ref
        /\ \A q \in Order : q # i.order => order'[q] = order[q] /\ ledger'[q] = ledger[q]
        /\ order'[i.order].state = "reconciling" => StatusOf(a, i.ref) = "unknown"
    BY <2>1, <2>3, FollowTold DEF InFlight
  <2>7. Followed(i.order)
    BY <2>1, <2>6 DEF Followed
  <2>8. Snapshots'
    <3> SUFFICES ASSUME NEW j \in poll[p].todo, j # i
                 PROVE order'[j.order].state = "pending" /\ order'[j.order].ref = j.ref /\ j.ref # NoTx
      BY <2>1, <2>2, <2>4 DEF Snapshots
    <3>1. j \in Item
      BY <1>1 DEF PollRow
    <3>2. order[j.order].state = "pending" /\ order[j.order].ref = j.ref /\ j.ref # NoTx
      BY DEF Steady, Snapshots
    <3>3. j.order # i.order /\ j.order \in Order
      BY <2>3, <3>1, <3>2, ItemsApart DEF Item
    <3> QED BY <2>6, <3>2, <3>3
  <2>9. \A q \in Proc : scan[q].todo = {} /\ poll'[q].todo \subseteq poll[q].todo
    BY <2>2, <2>4 DEF Steady, Stages
  <2>10. order[i.order].state \in InFlight /\ ~Working(i.order)
    BY <2>3, <2>5 DEF InFlight, Steady, JobTask, JobOf
  <2> QED BY <2>5, <2>7, <2>8, <2>9, <2>10, FollowedKeeps
<1> QED BY <1>2, <1>3 DEF PollStep

\* What recovery knows of an order it has yet to ask about.
LEMMA RedoItem ==
  ASSUME Alone, Steady, NEW p \in Proc, task[p].pc = "orders", NEW i \in redo[p].todo
  PROVE  /\ phase[p] = "boot" /\ i \in Item /\ i.order \in Order
         /\ order[i.order].state \in InFlight /\ order[i.order].ref = i.ref
         /\ ~Working(i.order)
         /\ \A q \in Proc : scan[q].todo = {} /\ poll[q].todo = {}
<1>1. phase[p] = "boot" /\ scan[p].todo = {} /\ poll[p].todo = {}
  BY DEF Steady, Stages
<1>2. i \in Item /\ i.order \in Order
  BY DEF Steady, OrderInv, RedoPart, RedoRow, Item
<1> QED BY <1>1, <1>2 DEF Alone, Steady, Snapshots, JobTask, JobOf

LEMMA RedoSnapshots ==
  ASSUME Alone, Steady, NEW p \in Proc, task[p].pc = "orders", NEW i \in redo[p].todo,
         \A q \in Order : q # i.order => order'[q] = order[q],
         redo'[p].todo = redo[p].todo \ {i}, UNCHANGED poll
  PROVE  Snapshots'
<1>1. \A q \in Proc : q = p /\ poll'[q].todo = {}
  BY RedoItem DEF Alone
<1> SUFFICES ASSUME NEW j \in redo[p].todo, j # i
             PROVE order'[j.order].state \in InFlight /\ order'[j.order].ref = j.ref
  BY <1>1 DEF Snapshots
<1>2. i \in Item /\ order[i.order].ref = i.ref
  BY RedoItem
<1>3. j \in Item /\ j.order \in Order /\ order[j.order].state \in InFlight /\ order[j.order].ref = j.ref
  BY RedoItem
<1>4. j.order # i.order
  BY <1>2, <1>3, ItemsApart
<1> QED BY <1>3, <1>4

LEMMA OrphanKeeps ==
  ASSUME Alone, Steady, OrderInv', RowStep, NEW p \in Proc, NEW i \in Item, OrderOrphaned(p, i)
  PROVE  Steady'
<1>1. /\ task[p].pc = "orders" /\ i \in redo[p].todo
      /\ order' = [order EXCEPT ![i.order].state = "reconciling"]
      /\ redo' = [redo EXCEPT ![p].todo = @ \ {i}, ![p].bad = TRUE]
      /\ UNCHANGED <<row, receipt, phase, queue, task, scan, job, home, ledger, halted, poll>>
  BY DEF OrderOrphaned, Record, Tasks, World
<1>2. /\ phase[p] = "boot" /\ i.order \in Order
      /\ order[i.order].state \in InFlight /\ ~Working(i.order)
      /\ \A q \in Proc : scan[q].todo = {} /\ poll[q].todo = {}
  BY <1>1, RedoItem
<1>3. redo \in [Proc -> RedoRow] /\ order \in [Order -> OrderRow]
  BY DEF Steady, OrderInv, RedoPart, OrderPart
<1>4. redo'[p].todo = redo[p].todo \ {i}
  BY <1>1, <1>3 DEF RedoRow
<1>5. /\ order'[i.order].state = "reconciling" /\ order'[i.order].ref = order[i.order].ref
      /\ \A q \in Order : q # i.order => order'[q] = order[q]
  BY <1>1, <1>2, <1>3 DEF OrderRow
<1>6. Snapshots'
  BY <1>1, <1>4, <1>5, RedoSnapshots
<1>7. \A q \in Proc : phase[q] # "up"
  BY <1>2 DEF Alone
<1>8. Followed(i.order)
  BY <1>1, <1>5, <1>7 DEF Followed, Answered
<1> QED BY <1>1, <1>2, <1>6, <1>8, FollowedKeeps

LEMMA AskedKeeps ==
  ASSUME Alone, Steady, OrderInv', RowStep, NEW p \in Proc, NEW i \in Item, NEW a \in Answer,
         OrderAsked(p, i, a)
  PROVE  Steady'
<1>1. /\ task[p].pc = "orders" /\ i \in redo[p].todo /\ i.ref # NoTx /\ Follow(i, a)
      /\ halted' = (halted \/ StatusOf(a, i.ref) = "failed")
      /\ redo' = [redo EXCEPT ![p].todo = @ \ {i},
                              ![p].bad = @ \/ StatusOf(a, i.ref) \in {"unknown", "failed"}]
      /\ UNCHANGED <<receipt, phase, queue, task, scan, job, home, poll>>
  BY DEF OrderAsked, World
<1>2. /\ phase[p] = "boot" /\ i.order \in Order
      /\ order[i.order].state \in InFlight /\ ~Working(i.order) /\ order[i.order].ref = i.ref
      /\ \A q \in Proc : scan[q].todo = {} /\ poll[q].todo = {}
  BY <1>1, RedoItem
<1>3. redo \in [Proc -> RedoRow]
  BY DEF Steady, OrderInv, RedoPart
<1>4. redo'[p].todo = redo[p].todo \ {i}
  BY <1>1, <1>3 DEF RedoRow
<1>5. /\ (StatusOf(a, i.ref) = "failed" => halted') => Answered(i.order)
      /\ \A k \in Key : k # SwapKey(i.order) => row'[k] = row[k]
      /\ order'[i.order].ref = order[i.order].ref
      /\ \A q \in Order : q # i.order => order'[q] = order[q] /\ ledger'[q] = ledger[q]
  BY <1>1, <1>2, FollowTold
<1>6. Snapshots'
  BY <1>1, <1>4, <1>5, RedoSnapshots
<1>7. \A q \in Proc : phase[q] # "up"
  BY <1>2 DEF Alone
<1>8. Followed(i.order)
  BY <1>1, <1>5, <1>7 DEF Followed
<1> QED BY <1>1, <1>2, <1>6, <1>8, FollowedKeeps

-----------------------------------------------------------------------------
(* recover() at boot, one row of its snapshot at a time.                    *)

\* What it leaves alone.
ScanBeside(p, k) ==
  /\ UNCHANGED <<receipt, phase, queue, job, home, ledger, halted, poll, redo>>
  /\ \A q \in Order : task'[q] = task[q]
  /\ \A j \in Key : j # k => row'[j] = row[j]
  /\ scan'[p].todo \subseteq scan[p].todo
  /\ task'[p].pc \in {"scan", "sign", "send"}
  /\ task'[p].pc \in {"sign", "send"} => task'[p].key \in scan'[p].todo

\* The row stays unresolved, or has its receipt and is done.
ScanRow(p, k) ==
  \/ row'[k].state \in Unresolved
  \/ /\ k \notin scan'[p].todo
     /\ k.purpose = "swap" => order'[k.order].state = "pending"
     /\ \/ row'[k].state = "confirmed" /\ Mined(row[k].tx) /\ receipt[row[k].tx] # "reverted"
        \/ row'[k].state = "reverted" /\ Mined(row[k].tx) /\ receipt[row[k].tx] = "reverted"

\* A swap's order may be found pending.
ScanOrder(k) ==
  \/ order' = order
  \/ /\ k.purpose = "swap"
     /\ order'[k.order].state = "pending" /\ order'[k.order].ref = row[k].tx /\ row[k].tx # NoTx
     /\ \A q \in Order : q # k.order => order'[q] = order[q]

LEMMA ScannedKeeps ==
  ASSUME Alone, Steady, OrderInv', RowStep, NEW p \in Proc, NEW k \in scan[p].todo,
         task[p].pc \in {"scan", "sign", "send"},
         ScanBeside(p, k), ScanRow(p, k), ScanOrder(k)
  PROVE  Steady'
<1>1. /\ phase[p] = "boot" /\ \A q \in Proc : q = p
      /\ queue[p] = <<>> /\ poll[p].todo = {}
  BY DEF Steady, Stages, Alone
<1>2. k \in Key /\ row[k].state \in Unresolved /\ k.order \in Order
  BY DEF Steady, Scans, OrderInv, Core, TaskInv, TaskTypes, Scan, Key
<1>3. UNCHANGED <<receipt, phase, queue, job, home, ledger, halted, poll, redo>>
  BY DEF ScanBeside
<1>4. \A o \in Order : ~Working(o) /\ task[o].pc = "idle" /\ task'[o] = task[o]
  <2>1. \A o \in Order : JobOf(o)
    BY DEF Steady, JobTask
  <2> QED BY <1>1, <2>1 DEF JobOf, Working, ScanBeside
<1>5. \A q \in Order : q # k.order \/ k.purpose # "swap" => order'[q] = order[q]
  BY DEF ScanOrder
<1>6. k.purpose = "swap" => /\ k = SwapKey(k.order) /\ job[k.order] # "new"
                            /\ order[k.order].state \notin {"none", "filled"}
  <2> SUFFICES ASSUME k.purpose = "swap"
               PROVE  /\ k = SwapKey(k.order) /\ job[k.order] # "new"
                      /\ order[k.order].state \notin {"none", "filled"}
    OBVIOUS
  <2>1. k = SwapKey(k.order)
    BY <1>2, SwapKeyOf
  <2>2. RowsOf(k.order) /\ JobOf(k.order)
    BY <1>2 DEF Steady, Fresh, JobTask
  <2>3. row[SwapKey(k.order)].state \notin {"none", "confirmed"}
    BY <1>2, <2>1 DEF Unresolved
  <2>4. order[k.order].state # "filled"
    BY <1>2, <2>3 DEF Steady, Filed
  <2> QED BY <2>1, <2>2, <2>3, <2>4 DEF RowsOf, JobOf
<1>7. \A q \in Order : SwapKey(q) \in Key /\ AllowanceKey(q) \in Key
  BY KeysOfOrder
<1>8. Stages'
  BY <1>1, <1>3 DEF Stages, ScanBeside
<1>9. JobTask'
  <2> SUFFICES ASSUME NEW o \in Order PROVE JobOf(o)'
    BY DEF JobTask
  <2>1. JobOf(o)
    BY DEF Steady, JobTask
  <2>2. order'[o].state = "none" <=> order[o].state = "none"
    BY <1>6 DEF ScanOrder
  <2> QED BY <1>3, <1>4, <2>1, <2>2 DEF JobOf, Working, Asking
<1>10. Turns'
  BY <1>4 DEF Turns, Asking
<1>11. Fresh'
  <2> SUFFICES ASSUME NEW o \in Order PROVE RowsOf(o)'
    BY DEF Fresh
  <2>1. RowsOf(o) /\ SwapKey(o) \in Key /\ AllowanceKey(o) \in Key
    BY <1>7 DEF Steady, Fresh
  <2>2. \A j \in Key : row[j].state = "none" => row'[j].state = "none"
    BY <1>2 DEF ScanBeside, Unresolved
  <2>3. order'[o].state = "failed" => order[o].state = "failed"
    BY DEF ScanOrder
  <2> QED BY <1>3, <1>4, <2>1, <2>2, <2>3 DEF RowsOf
<1>12. \A j \in Key : j # k => (Undone(j)' => Undone(j)) /\ (Open(j)' => Open(j))
  <2> SUFFICES ASSUME NEW j \in Key, j # k PROVE (Undone(j)' => Undone(j)) /\ (Open(j)' => Open(j))
    OBVIOUS
  <2>1. row'[j] = row[j] /\ j.order \in Order
    BY DEF ScanBeside, Key
  <2>2. j.purpose = "swap" => order'[j.order] = order[j.order]
    <3>1. ASSUME j.purpose = "swap", k.purpose = "swap" PROVE j.order # k.order
      BY <1>2, <3>1, SwapKeyOf
    <3> QED BY <1>5, <2>1, <3>1
  <2> QED BY <2>1, <2>2 DEF Undone, Open
<1>13. Open(k) /\ \A j \in Key : Open(j) => j = k
  BY <1>2 DEF Steady, OneOpen, Open
<1>14. OneOpen'
  BY <1>12, <1>13 DEF OneOpen
<1>15. Stopped'
  <2> SUFFICES ASSUME NEW j \in Key, Undone(j)'
               PROVE order'[j.order].state \in {"pending", "reconciling"}
    BY <1>1, <1>3, <1>4 DEF Stopped, Working
  <2>1. j = k
    BY <1>12, <1>13 DEF Open
  <2> QED BY <2>1 DEF Undone, ScanRow, Unresolved
<1>16. Clear'
  BY <1>4 DEF Clear
<1>17. Scans'
  <2>1. \A j \in scan'[p].todo : j \in Key /\ row[j].state \in Unresolved
    BY DEF ScanBeside, Steady, Scans, OrderInv, Core, TaskInv, TaskTypes, Scan
  <2>2. \A j \in scan'[p].todo : row'[j].state \in Unresolved
    BY <2>1 DEF ScanBeside, ScanRow
  <2> QED BY <1>1, <2>2 DEF Scans, ScanBeside
<1>18. Snapshots'
  BY <1>1, <1>3 DEF Snapshots, ScanBeside
<1>19. Filed'
  <2> SUFFICES ASSUME NEW o \in Order
               PROVE  /\ order'[o].state = "filled" <=> ledger'[o] = 1
                      /\ ledger'[o] = 1 => row'[SwapKey(o)].state = "confirmed"
    BY DEF Filed
  <2>1. order'[o].state = "filled" <=> order[o].state = "filled"
    BY <1>6 DEF ScanOrder
  <2>2. row[SwapKey(o)].state = "confirmed" => row'[SwapKey(o)].state = "confirmed"
    BY <1>2, <1>7 DEF ScanBeside, Unresolved
  <2> QED BY <1>3, <2>1, <2>2 DEF Steady, Filed
<1>20. Told'
  <2> SUFFICES ASSUME NEW j \in Key PROVE ToldOf(j)'
    BY DEF Told
  <2>1. CASE j = k
    <3>1. row[k].tx # NoTx => row'[k].tx = row[k].tx
      BY <1>2 DEF RowStep
    <3> QED BY <1>3, <2>1, <3>1 DEF ScanRow, ToldOf, Mined, Unresolved
  <2>2. CASE j # k
    <3>1. row'[j] = row[j] /\ ToldOf(j)
      BY <2>2 DEF ScanBeside, Steady, Told
    <3> QED BY <1>3, <3>1 DEF ToldOf, Mined
  <2> QED BY <2>1, <2>2
<1>21. Refs'
  <2> SUFFICES ASSUME NEW o \in Order, order'[o].ref # NoTx PROVE row'[SwapKey(o)].tx = order'[o].ref
    BY DEF Refs
  <2>1. order'[o] = order[o] \/ (o = k.order /\ SwapKey(o) = k /\ order'[o].ref = row[k].tx)
    BY <1>6 DEF ScanOrder
  <2> QED BY <1>7, <2>1 DEF Steady, Refs, RowStep
<1>22. Halting'
  BY <1>1, <1>3 DEF Halting
<1> QED BY <1>8, <1>9, <1>10, <1>11, <1>14, <1>15, <1>16, <1>17, <1>18, <1>19, <1>20, <1>21,
           <1>22 DEF Steady

\* A row of the loop is done with.
LEMMA ScanFinishes ==
  ASSUME Steady, NEW p \in Proc, NEW k, NEW b, Finish(p, k, b)
  PROVE  /\ \A q \in Order : task'[q] = task[q]
         /\ task'[p].pc = "scan" /\ scan'[p].todo = scan[p].todo \ {k} /\ UNCHANGED queue
<1>1. /\ p \notin Call /\ p \in Task /\ Order \subseteq Task
      /\ task \in [Task -> Place] /\ scan \in [Proc -> Scan]
  BY CallerAssumption, TaskAssumption DEF Steady, OrderInv, Core, TaskInv, TaskTypes, Task
<1>2. /\ task' = [task EXCEPT ![p] = At("scan", NoKey, NoTx)]
      /\ scan'[p].todo = scan[p].todo \ {k} /\ UNCHANGED queue
  BY <1>1 DEF Finish
<1>3. task'[p] = At("scan", NoKey, NoTx) /\ \A q \in Order : task'[q] = task[q]
  BY <1>1, <1>2, CallerAssumption
<1> QED BY <1>2, <1>3 DEF At

\* A row of the loop is signed or sent.
LEMMA ScanAsks ==
  ASSUME Steady, NEW p \in Proc, NEW k, NEW r, BeginSign(p, k) \/ BeginSend(p, k, r)
  PROVE  /\ \A q \in Order : task'[q] = task[q]
         /\ task'[p].pc \in {"sign", "send"} /\ task'[p].key = k /\ UNCHANGED <<scan, queue>>
<1>1. p \notin Order /\ task \in [Task -> Place] /\ p \in Task /\ Order \subseteq Task
  BY CallerAssumption, TaskAssumption DEF Steady, OrderInv, Core, TaskInv, TaskTypes, Task
<1>2. CASE BeginSign(p, k)
  <2>1. task'[p] = At("sign", k, NoTx) /\ \A q \in Order : task'[q] = task[q]
    BY <1>1, <1>2 DEF BeginSign
  <2> QED BY <1>2, <2>1 DEF At, BeginSign
<1>3. CASE BeginSend(p, k, r)
  <2>1. /\ task'[p] = At("send", k, IF r.payload THEN r.tx ELSE NoTx)
        /\ \A q \in Order : task'[q] = task[q]
    BY <1>1, <1>3 DEF BeginSend
  <2> QED BY <1>3, <2>1 DEF At, BeginSend
<1> QED BY <1>2, <1>3

LEMMA ScanKeeps ==
  ASSUME Alone, Steady, OrderInv', RowStep, NEW p \in Proc, RecoveryScan(p)
  PROVE  Steady'
<1>1. PICK k \in Key : \/ ScanPrepared(p, k) \/ ScanNoPayload(p, k) \/ ScanReceipt(p, k)
                       \/ ScanResend(p, k) \/ ScanSilent(p, k)
  BY DEF RecoveryScan
<1> DEFINE t == scan[p].snap[k].tx
<1>2. task[p].pc = "scan" /\ k \in scan[p].todo
  BY <1>1 DEF ScanPrepared, ScanNoPayload, ScanReceipt, ScanResend, ScanSilent, Scanning
<1>3. UNCHANGED <<receipt, phase, job, home, ledger, halted, poll, redo>>
  BY DEF RecoveryScan, World, orderVars
<1>4. row \in [Key -> Row] /\ row[k].state \in Unresolved
  BY <1>2 DEF Steady, OrderInv, Core, Scans
<1>5. \/ \E r : BeginSign(p, k) \/ BeginSend(p, k, r)
      \/ \E b : Finish(p, k, b)
  BY <1>1 DEF ScanPrepared, ScanNoPayload, ScanReceipt, ScanResend, ScanSilent, GiveUp, Throw, Return
<1>6. /\ \A q \in Order : task'[q] = task[q]
      /\ scan'[p].todo \subseteq scan[p].todo /\ task'[p].pc \in {"scan", "sign", "send"}
      /\ task'[p].pc \in {"sign", "send"} => task'[p].key \in scan'[p].todo
      /\ UNCHANGED queue
  <2>1. ASSUME NEW r, BeginSign(p, k) \/ BeginSend(p, k, r)
        PROVE  /\ \A q \in Order : task'[q] = task[q] /\ UNCHANGED <<scan, queue>>
               /\ task'[p].pc \in {"sign", "send"} /\ task'[p].key = k
    BY <2>1, ScanAsks
  <2>2. ASSUME NEW b, Finish(p, k, b)
        PROVE  /\ \A q \in Order : task'[q] = task[q]
               /\ task'[p].pc = "scan" /\ scan'[p].todo = scan[p].todo \ {k} /\ UNCHANGED queue
    BY <2>2, ScanFinishes
  <2>3. (\E r : BeginSign(p, k) \/ BeginSend(p, k, r)) => UNCHANGED <<scan, queue>>
    BY DEF BeginSign, BeginSend
  <2> QED BY <1>2, <1>5, <2>1, <2>2, <2>3
<1>7. CASE ScanReceipt(p, k)
  <2>1. /\ Mined(t) /\ row' = [row EXCEPT ![k].state = ReceiptState(t)]
        /\ order' = IF k.purpose = "swap"
                      THEN [order EXCEPT ![k.order] = [state |-> "pending", ref |-> t]]
                      ELSE order
        /\ Finish(p, k, FALSE)
    BY <1>7 DEF ScanReceipt, SetState, Return
  <2>2. t # NoTx /\ t = row[k].tx
    BY <2>1 DEF Mined, Steady, OrderInv, Core, TaskInv, SnapShape
  <2>3. row'[k].state = ReceiptState(t) /\ \A j \in Key : j # k => row'[j] = row[j]
    BY <1>4, <2>1 DEF Row
  <2>4. k.order \in Order /\ order \in [Order -> OrderRow]
    BY DEF Key, Steady, OrderInv, OrderPart
  <2>5. ScanOrder(k)
    BY <2>1, <2>2, <2>4 DEF ScanOrder
  <2>6. k.purpose = "swap" => order'[k.order].state = "pending"
    BY <2>1, <2>4
  <2>7. k \notin scan'[p].todo
    <3>1. scan'[p].todo = scan[p].todo \ {k}
      BY <2>1, ScanFinishes
    <3> QED BY <3>1
  <2>8. ScanRow(p, k)
    BY <2>1, <2>2, <2>3, <2>6, <2>7 DEF ScanRow, ReceiptState
  <2>9. ScanBeside(p, k)
    BY <1>3, <1>6, <2>3 DEF ScanBeside
  <2> QED BY <1>2, <2>5, <2>8, <2>9, ScannedKeeps
<1>8. CASE ~ScanReceipt(p, k)
  <2>1. row' = row \/ row' = [row EXCEPT ![k].state = "unknown"]
    BY <1>1, <1>8 DEF ScanPrepared, ScanNoPayload, ScanResend, ScanSilent, GiveUp, SetState
  <2>2. order' = order
    BY <1>1, <1>8 DEF ScanPrepared, ScanNoPayload, ScanResend, ScanSilent
  <2>3. row'[k].state \in Unresolved /\ \A j \in Key : j # k => row'[j] = row[j]
    BY <1>4, <2>1 DEF Row, Unresolved
  <2>4. ScanBeside(p, k)
    BY <1>3, <1>6, <2>3 DEF ScanBeside
  <2>5. ScanRow(p, k)
    BY <2>3 DEF ScanRow
  <2>6. ScanOrder(k)
    BY <2>2 DEF ScanOrder
  <2> QED BY <1>2, <2>4, <2>5, <2>6, ScannedKeeps
<1> QED BY <1>7, <1>8

\* The request of the row that recovery is at.
LEMMA RecoverySendKeeps ==
  ASSUME Alone, Steady, OrderInv', RowStep, NEW p \in Proc, RecoverySend(p)
  PROVE  Steady'
<1> DEFINE k == task[p].key
           t == task[p].tx
<1>1. /\ task[p].pc \in {"sign", "send"}
      /\ UNCHANGED <<receipt, phase, job, home, ledger, halted, poll, redo>>
  BY DEF RecoverySend, SignReply, SignError, SendReply, SendError, World, orderVars
<1>2. k \in scan[p].todo
  BY <1>1 DEF Steady, Scans
<1>3. row \in [Key -> Row] /\ row[k].state \in Unresolved /\ k \in Key /\ p \in Task
  BY <1>2 DEF Steady, OrderInv, Core, Scans, TaskInv, TaskTypes, Scan, Task
<1>4. ASSUME NEW b, Finish(p, k, b), row'[k].state \in Unresolved,
             \A j \in Key : j # k => row'[j] = row[j], ScanOrder(k)
      PROVE  Steady'
  <2>1. /\ \A q \in Order : task'[q] = task[q]
        /\ task'[p].pc = "scan" /\ scan'[p].todo = scan[p].todo \ {k} /\ UNCHANGED queue
    BY <1>4, ScanFinishes
  <2>2. ScanBeside(p, k)
    BY <1>1, <1>4, <2>1 DEF ScanBeside
  <2>3. ScanRow(p, k)
    BY <1>4 DEF ScanRow
  <2> QED BY <1>1, <1>2, <1>4, <2>2, <2>3, ScannedKeeps
<1>5. CASE SignReply(p)
  <2>1. PICK s \in Sig :
          \/ /\ BeginSend(p, k, Stored(k, s, "signed"))
             /\ row' = [row EXCEPT ![k] = Stored(k, s, "signed")]
          \/ Throw(p, k) /\ row' = [row EXCEPT ![k] = Stored(k, s, "unknown")]
    BY <1>5 DEF SignReply
  <2>2. PICK u \in {"signed", "unknown"} : row' = [row EXCEPT ![k] = Stored(k, s, u)]
    BY <2>1
  <2>3. row'[k].state \in Unresolved /\ \A j \in Key : j # k => row'[j] = row[j]
    BY <1>3, <2>2 DEF Stored, Unresolved
  <2>4. ScanOrder(k)
    BY <1>5 DEF RecoverySend, SignReply, SignError, SendReply, SendError, ScanOrder
  <2>5. CASE BeginSend(p, k, Stored(k, s, "signed"))
    <3>1. /\ \A q \in Order : task'[q] = task[q]
          /\ task'[p].pc \in {"sign", "send"} /\ task'[p].key = k /\ UNCHANGED <<scan, queue>>
      BY <2>5, ScanAsks
    <3>2. ScanBeside(p, k)
      BY <1>1, <1>2, <2>3, <3>1 DEF ScanBeside
    <3>3. ScanRow(p, k)
      BY <2>3 DEF ScanRow
    <3> QED BY <1>1, <1>2, <2>4, <3>2, <3>3, ScannedKeeps
  <2>6. CASE Throw(p, k)
    BY <1>4, <2>3, <2>4, <2>6 DEF Throw
  <2> QED BY <2>1, <2>5, <2>6
<1>6. CASE (SignError(p) \/ SendError(p)) /\ UNCHANGED order
  BY <1>3, <1>4, <1>6 DEF SignError, SendError, Throw, ScanOrder
<1>7. CASE SendReply(p)
  <2>1. /\ task[p].pc = "send" /\ t \in sent
        /\ row' = [row EXCEPT ![k].state = "broadcast"]
        /\ order' = IF k.purpose = "swap"
                      THEN [order EXCEPT ![k.order] = [state |-> "pending", ref |-> t]]
                      ELSE order
        /\ Finish(p, k, FALSE)
    BY <1>7 DEF SendReply, SetState, Return
  <2>2. t # NoTx /\ row[k].tx = t
    BY <1>3, <2>1, SentIsRow DEF Steady
  <2>3. row'[k].state \in Unresolved /\ \A j \in Key : j # k => row'[j] = row[j]
    BY <1>3, <2>1 DEF Row, Unresolved
  <2>4. k.order \in Order /\ order \in [Order -> OrderRow]
    BY <1>3 DEF Key, Steady, OrderInv, OrderPart
  <2>5. ScanOrder(k)
    BY <2>1, <2>2, <2>4 DEF ScanOrder
  <2> QED BY <1>4, <2>1, <2>3, <2>5
<1> QED BY <1>5, <1>6, <1>7 DEF RecoverySend

-----------------------------------------------------------------------------
(* The stages of the boot, the processes, the clocks and the chain.         *)

\* A step of a process that boots.
LEMMA StageKeeps ==
  ASSUME Alone, Steady, OrderInv', NEW p \in Proc, phase[p] # "up",
         UNCHANGED <<row, order, job, home, ledger, queue, receipt>>,
         \A o \in Order : task'[o] = task[o], halted => halted',
         \/ phase'[p] = "boot"
         \/ phase'[p] = "up" /\ (OpenWork => halted'),
         Stages', Scans', Snapshots'
  PROVE  Steady'
<1>1. \A q \in Proc : q = p
  BY DEF Alone
<1>2. JobTask' /\ Fresh' /\ OneOpen' /\ Clear' /\ Filed' /\ Told' /\ Refs'
  BY <1>1, Kept
<1>3. Turns'
  BY DEF Steady, Turns
<1>4. \A o \in Order : ~Working(o)
  BY DEF Steady, JobTask, JobOf
<1>5. Stopped'
  <2> SUFFICES ASSUME NEW k \in Key, Undone(k), phase'[p] = "up" PROVE halted'
    BY <1>1, <1>4 DEF Steady, Stopped, Undone, Working
  <2>1. order[k.order].state \in InFlight /\ k.order \in Order
    BY DEF Steady, Stopped, InFlight, Key
  <2> QED BY <2>1 DEF OpenWork
<1>6. Halting'
  <2> SUFFICES ASSUME NEW o \in Order, order[o].state = "reconciling", phase'[p] = "up" PROVE halted'
    BY <1>1 DEF Halting
  <2> QED BY DEF OpenWork, InFlight
<1> QED BY <1>2, <1>3, <1>5, <1>6 DEF Steady

\* Recovery's task moves to another stage.
LEMMA StageMoves ==
  ASSUME OrderInv, NEW p \in Proc, NEW x, task' = [task EXCEPT ![p] = x]
  PROVE  task'[p] = x /\ \A o \in Order : task'[o] = task[o]
<1>1. p \notin Order /\ task \in [Task -> Place] /\ p \in Task /\ Order \subseteq Task
  BY CallerAssumption, TaskAssumption DEF OrderInv, Core, TaskInv, TaskTypes, Task
<1> QED BY <1>1

LEMMA StageGoesOn ==
  ASSUME OrderInv, NEW p \in Proc, NEW s, task' = [task EXCEPT ![p].pc = s]
  PROVE  task'[p].pc = s /\ \A o \in Order : task'[o] = task[o]
<1>1. p \notin Order /\ task \in [Task -> Place] /\ p \in Task /\ Order \subseteq Task
  BY CallerAssumption, TaskAssumption DEF OrderInv, Core, TaskInv, TaskTypes, Task
<1> QED BY <1>1 DEF Place

LEMMA OrdersKeeps ==
  ASSUME Alone, Steady, OrderInv', NEW p \in Proc, OrdersStart(p) \/ OrdersEnd(p)
  PROVE  Steady'
<1>1. /\ task[p].pc \in {"scan", "orders"} /\ scan[p].todo = {}
      /\ UNCHANGED <<row, order, job, home, ledger, queue, receipt, phase, poll>>
  BY DEF OrdersStart, OrdersEnd, World, Steady, Stages
<1>2. phase[p] = "boot" /\ poll[p].todo = {} /\ queue[p] = <<>> /\ \A q \in Proc : q = p
  BY <1>1 DEF Steady, Stages, Alone
<1>3. redo \in [Proc -> RedoRow] /\ OrderInv
  BY DEF Steady, OrderInv, RedoPart
<1>4. CASE OrdersStart(p)
  <2>1. task'[p].pc = "orders" /\ \A o \in Order : task'[o] = task[o]
    BY <1>3, <1>4, StageGoesOn DEF OrdersStart
  <2>2. redo'[p].todo = {i \in Item : order[i.order].state \in InFlight /\ order[i.order].ref = i.ref}
    BY <1>3, <1>4 DEF OrdersStart
  <2>3. UNCHANGED <<scan, halted>>
    BY <1>4 DEF OrdersStart
  <2>4. Stages'
    BY <1>1, <1>2, <2>1, <2>3 DEF Stages
  <2>5. Scans'
    BY <1>1, <1>2, <2>1, <2>3 DEF Scans
  <2>6. Snapshots'
    BY <1>1, <1>2, <2>2 DEF Snapshots
  <2> QED BY <1>1, <1>2, <2>1, <2>3, <2>4, <2>5, <2>6, StageKeeps
<1>5. CASE OrdersEnd(p)
  <2>1. task' = [task EXCEPT ![p].pc = "books"] /\ UNCHANGED scan /\ (halted => halted')
    BY <1>2, <1>5 DEF OrdersEnd
  <2>2. task'[p].pc = "books" /\ \A o \in Order : task'[o] = task[o]
    BY <1>3, <2>1, StageGoesOn
  <2>3. Stages'
    BY <1>1, <1>2, <2>1, <2>2 DEF Stages
  <2>4. Scans'
    BY <1>1, <1>2, <2>1, <2>2 DEF Scans
  <2>5. Snapshots'
    BY <1>1, <1>2, <2>2 DEF Snapshots
  <2> QED BY <1>1, <1>2, <2>1, <2>2, <2>3, <2>4, <2>5, StageKeeps
<1> QED BY <1>4, <1>5

LEMMA BootKeeps ==
  ASSUME Alone, Steady, OrderInv', NEW p \in Proc, BootEnds(p)
  PROVE  Steady'
<1>1. /\ phase[p] = "boot"
      /\ (halted => halted') /\ (OpenWork => halted')
      /\ phase' = [phase EXCEPT ![p] = "up"]
      /\ task' = [task EXCEPT ![p] = Idle]
      /\ scan' = [scan EXCEPT ![p] = NoScan]
      /\ UNCHANGED <<row, order, job, home, ledger, queue, receipt, poll>>
  BY DEF BootEnds, RecoveryOver
<1>2. poll[p].todo = {} /\ queue[p] = <<>> /\ \A q \in Proc : q = p
  BY <1>1 DEF Steady, Stages, Alone
<1>3. OrderInv /\ phase \in [Proc -> {"down", "boot", "up"}] /\ scan \in [Proc -> Scan]
  BY DEF Steady, OrderInv, ProcTypes, Core, TaskInv, TaskTypes
<1>4. task'[p] = Idle /\ \A o \in Order : task'[o] = task[o]
  BY <1>1, <1>3, StageMoves
<1>5. task'[p].pc = "idle" /\ scan'[p].todo = {} /\ phase'[p] = "up"
  BY <1>1, <1>3, <1>4 DEF Idle, At, NoScan
<1>6. Stages'
  BY <1>2, <1>5 DEF Stages
<1>7. Scans'
  BY <1>2, <1>5 DEF Scans
<1>8. Snapshots'
  BY <1>1, <1>2, <1>5 DEF Snapshots
<1> QED BY <1>1, <1>4, <1>5, <1>6, <1>7, <1>8, StageKeeps

LEMMA RecoveryKeeps ==
  ASSUME Alone, Steady, OrderInv', RowStep, NEW p \in Proc, RecoveryStep(p)
  PROVE  Steady'
<1>1. ~GateFails(p) /\ ~GatePasses(p) /\ ~GateReturns(p)
  BY DEF GateFails, GatePasses, GateReturns, Steady, Stages
<1> QED BY <1>1, RecoverySendKeeps, ScanKeeps, OrdersKeeps, OrphanKeeps, AskedKeeps, BootKeeps
        DEF RecoveryStep

\* No gate runs recover() while the process trades.
LEMMA StartKeeps ==
  ASSUME Alone, Steady, OrderInv', NEW p \in Proc, StartOrGate(p)
  PROVE  Steady'
<1>1. gates \in 0 .. 0
  BY DEF Alone, Steady, OrderInv, ProcTypes
<1>2. ~Gate(p)
  BY <1>1 DEF Gate, Alone
<1>3. /\ phase[p] = "down" /\ phase' = [phase EXCEPT ![p] = "boot"]
      /\ task' = [task EXCEPT ![p] = At("scan", NoKey, NoTx)]
      /\ scan' = [scan EXCEPT ![p] = [todo |-> {k \in Key : row[k].state \in Unresolved},
                                      snap |-> row, bad |-> FALSE]]
      /\ UNCHANGED <<row, order, job, home, ledger, halted, queue, receipt, poll>>
  BY <1>2 DEF StartOrGate, Start, BeginScan, orderVars
<1>4. poll[p].todo = {} /\ queue[p] = <<>> /\ \A q \in Proc : q = p
  BY <1>3 DEF Steady, Stages, Alone
<1>5. OrderInv /\ phase \in [Proc -> {"down", "boot", "up"}] /\ scan \in [Proc -> Scan]
  BY DEF Steady, OrderInv, ProcTypes, Core, TaskInv, TaskTypes
<1>6. task'[p] = At("scan", NoKey, NoTx) /\ \A o \in Order : task'[o] = task[o]
  BY <1>3, <1>5, StageMoves
<1>7. task'[p].pc = "scan"
  BY <1>6 DEF At
<1>8. phase'[p] = "boot" /\ \A k \in scan'[p].todo : row[k].state \in Unresolved
  BY <1>3, <1>5
<1>9. Stages'
  BY <1>3, <1>4, <1>7, <1>8 DEF Stages
<1>10. Scans'
  BY <1>3, <1>4, <1>7, <1>8 DEF Scans
<1>11. Snapshots'
  BY <1>3, <1>4, <1>7 DEF Snapshots
<1> QED BY <1>3, <1>6, <1>8, <1>9, <1>10, <1>11, StageKeeps

\* A crash ends every placement.
LEMMA CrashEnds ==
  ASSUME Alone, Steady, OrderInv', NEW p \in Proc, CrashStep(p)
  PROVE  Steady'
<1>1. /\ phase' = [phase EXCEPT ![p] = "down"]
      /\ task' = [w \in Task |-> IF w \in Running(p) THEN Idle ELSE task[w]]
      /\ queue' = [queue EXCEPT ![p] = <<>>]
      /\ scan' = [scan EXCEPT ![p] = NoScan]
      /\ job' = [o \in Order |-> IF home[o] = p THEN "over" ELSE job[o]]
      /\ poll' = [poll EXCEPT ![p] = NoPoll]
      /\ UNCHANGED <<row, order, receipt, home, ledger, halted>>
  BY DEF CrashStep, Crash
<1>2. /\ phase \in [Proc -> {"down", "boot", "up"}] /\ scan \in [Proc -> Scan]
      /\ queue \in [Proc -> Seq(Order)] /\ poll \in [Proc -> PollRow]
      /\ Order \subseteq Task /\ p \in Task
  BY CallerAssumption DEF Steady, OrderInv, ProcTypes, Core, TaskInv, TaskTypes, PollPart, Task
<1>3. \A q \in Proc : q = p
  BY DEF Alone
<1>4. /\ phase'[p] = "down" /\ queue'[p] = <<>>
      /\ scan'[p].todo = {} /\ poll'[p].todo = {}
  BY <1>1, <1>2 DEF NoScan, NoPoll
<1>5. task'[p].pc = "idle"
  BY <1>1, <1>2 DEF Running, Idle, At
<1>6. \A o \in Order : task'[o].pc = "idle"
  <2> SUFFICES ASSUME NEW o \in Order PROVE task'[o].pc = "idle"
    OBVIOUS
  <2>1. CASE task[o].pc = "idle"
    BY <1>1, <1>2, <2>1 DEF Idle, At
  <2>2. CASE task[o].pc # "idle"
    <3>1. \E i \in 1 .. Len(queue[p]) : queue[p][i] = o
      BY <2>2 DEF Steady, Turns
    <3>2. o \in Running(p)
      BY <3>1 DEF Running
    <3> QED BY <1>1, <1>2, <3>2 DEF Idle, At
  <2> QED BY <2>1, <2>2
<1>7. \A o \in Order : /\ job'[o] = job[o] \/ (job'[o] = "over" /\ home[o] \in Proc)
                       /\ job'[o] \in {"new", "over"}
  <2> SUFFICES ASSUME NEW o \in Order
               PROVE  /\ job'[o] = job[o] \/ (job'[o] = "over" /\ home[o] \in Proc)
                      /\ job'[o] \in {"new", "over"}
    OBVIOUS
  <2>1. JobOf(o)
    BY DEF Steady, JobTask
  <2> QED BY <1>1, <1>3, <2>1 DEF JobOf, Working
<1>8. Stages'
  BY <1>3, <1>4, <1>5 DEF Stages
<1>9. JobTask'
  <2> SUFFICES ASSUME NEW o \in Order PROVE JobOf(o)'
    BY DEF JobTask
  <2>1. JobOf(o)
    BY DEF Steady, JobTask
  <2> QED BY <1>1, <1>6, <1>7, <2>1 DEF JobOf, Working
<1>10. Turns'
  BY <1>6 DEF Turns, Asking
<1>11. Fresh'
  <2> SUFFICES ASSUME NEW o \in Order PROVE RowsOf(o)'
    BY DEF Fresh
  <2>1. RowsOf(o) /\ JobOf(o)
    BY DEF Steady, Fresh, JobTask
  <2> QED BY <1>1, <1>6, <1>7, <2>1 DEF RowsOf, JobOf
<1>12. OneOpen' /\ Filed' /\ Refs' /\ Clear'
  BY <1>1, <1>6 DEF Steady, OneOpen, Open, Undone, Filed, Refs, Clear
<1>13. Stopped' /\ Halting'
  BY <1>1, <1>3, <1>4, <1>7 DEF Steady, Stopped, Undone, Halting, Working
<1>14. Scans' /\ Snapshots'
  BY <1>3, <1>4, <1>5 DEF Scans, Snapshots
<1>15. Told'
  BY <1>1 DEF Steady, Told, ToldOf, Mined
<1> QED BY <1>8, <1>9, <1>10, <1>11, <1>12, <1>13, <1>14, <1>15 DEF Steady

\* The chain adds receipts and takes none back.
LEMMA ReceiptsStay ==
  ASSUME OrderInv, WorldStep
  PROVE  \A t \in Tx : Mined(t) => receipt'[t] = receipt[t]
<1>1. ASSUME NEW u \in pool, Mine(u) PROVE \A t \in Tx : Mined(t) => receipt'[t] = receipt[t]
  <2>1. PICK r \in Outcome : receipt' = [receipt EXCEPT ![u] = r]
    BY <1>1 DEF Mine
  <2>2. receipt[u] = "none" /\ u \in Tx /\ receipt \in [Tx -> Outcome \cup {"none"}]
    BY <1>1, NonceAssumption DEF Mine, OrderInv, ChainInv, ChainTypeOK, Tx, Nonce
  <2> QED BY <2>1, <2>2 DEF Mined
<1> QED BY <1>1 DEF WorldStep, ChainStep, Arrive, Evict, Finalize

LEMMA ElsewhereKeeps ==
  ASSUME Steady, OrderInv', Halt \/ ClockStep \/ WorldStep \/ UNCHANGED vars PROVE Steady'
<1>1. UNCHANGED <<row, order, job, home, ledger, phase, queue, task, scan, poll, redo>>
  BY DEF Halt, ClockStep, WorldStep, LeaseLapses, vars, coordVars, chainVars, dbVars, clockVars,
         taskVars, orderVars
<1>2. halted => halted'
  BY DEF Halt, ClockStep, WorldStep, vars, orderVars
<1>3. \A t \in Tx : Mined(t) => receipt'[t] = receipt[t]
  <2>1. CASE WorldStep
    BY <2>1, ReceiptsStay DEF Steady
  <2>2. CASE ~WorldStep
    BY <2>2 DEF Halt, ClockStep, vars, coordVars, chainVars
  <2> QED BY <2>1, <2>2
<1>4. Stages' /\ Snapshots'
  BY <1>1 DEF Steady, Stages, Snapshots
<1> QED BY <1>1, <1>2, <1>3, <1>4, Untouched

LEMMA SteadyInit == ASSUME Init PROVE Steady
<1>1. OrderInv
  BY OrderInitInv
<1>2. \A k \in Key : row[k] = NoRow
  BY DEF Init, CoordInit
<1>3. \A o \in Order : /\ order[o].state = "none" /\ order[o].ref = NoTx /\ job[o] = "new"
                       /\ home[o] = Nobody /\ ledger[o] = 0
  BY DEF Init
<1>4. \A p \in Proc : /\ queue[p] = <<>> /\ scan[p] = NoScan /\ phase[p] = "down"
                      /\ poll[p] = NoPoll
  BY DEF Init, CoordInit
<1>5. \A w \in Task : task[w].pc = "idle"
  BY DEF Init, CoordInit, Idle, At
<1>6. Order \subseteq Task /\ Proc \subseteq Task
  BY CallerAssumption DEF Task
<1>7. Stages
  BY <1>4, <1>5, <1>6 DEF Stages, NoScan, NoPoll
<1>8. JobTask
  <2>1. \A o \in Order : order[o].state = "none" /\ home[o] \notin Proc
    BY <1>3, OwnerAssumption
  <2>2. \A o \in Order : job[o] = "new" /\ task[o].pc = "idle"
    BY <1>3, <1>5, <1>6
  <2> QED BY <2>1, <2>2 DEF JobTask, JobOf, Working
<1>9. Turns
  BY <1>5, <1>6 DEF Turns, Asking
<1>10. Fresh
  <2>1. \A k \in Key : row[k].state = "none"
    BY <1>2 DEF NoRow
  <2> QED BY <1>3, <1>5, <1>6, <2>1, KeysOfOrder DEF Fresh, RowsOf
<1>11. \A k \in Key : ~Open(k) /\ ~Undone(k)
  BY <1>2 DEF Open, Undone, NoRow, Unresolved
<1>12. OneOpen /\ Stopped
  BY <1>11 DEF OneOpen, Stopped
<1>13. Clear /\ Scans /\ Snapshots
  BY <1>4, <1>5, <1>6 DEF Clear, Scans, Snapshots, NoScan, NoPoll
<1>14. Filed /\ Refs /\ Halting
  BY <1>3 DEF Filed, Refs, Halting
<1>15. Told
  BY <1>2 DEF Told, ToldOf, NoRow
<1> QED BY <1>1, <1>7, <1>8, <1>9, <1>10, <1>12, <1>13, <1>14, <1>15 DEF Steady

LEMMA SteadyNext == ASSUME Alone, Steady, [Next]_vars PROVE Steady'
<1>1. OrderInv' /\ RowStep
  BY NextInv DEF Steady
<1> QED BY <1>1, ProposeKeeps, PlaceStepKeeps, PollKeeps, RecoveryKeeps, StartKeeps, CrashEnds,
           ElsewhereKeeps
        DEF Next

LEMMA SteadyHolds == ASSUME Alone PROVE Spec => []Steady
<1>1. Init => Steady
  BY SteadyInit
<1>2. Steady /\ [Next]_vars => Steady'
  BY SteadyNext
<1> QED BY <1>1, <1>2, PTL DEF Spec

\* One server process has one unresolved transaction at most.
THEOREM OneUnresolvedTheorem == ASSUME Alone PROVE Spec => []OneUnresolved
<1>1. Steady => OneUnresolved
  BY DEF Steady, OneOpen, Open, OneUnresolved
<1> QED BY <1>1, SteadyHolds, PTL

\* An order of one server process reads filled exactly when the ledger has it.
THEOREM FilledTheorem == ASSUME Alone PROVE Spec => []FilledIffPosted
<1>1. Steady => FilledIffPosted
  BY DEF Steady, Filed, FilledIffPosted
<1> QED BY <1>1, SteadyHolds, PTL

\* A swap that moved the wallet's funds is in the ledger or still followed, or
\* the network is halted.
THEOREM NoSilentFillTheorem == ASSUME Alone PROVE Spec => []NoSilentFill
<1>1. Steady => NoSilentFill
  <2> SUFFICES ASSUME Steady, NEW o \in Order, NEW t \in Tx, t.key = SwapKey(o), receipt[t] = "ok",
                      ledger[o] = 0, ~halted
               PROVE  order[o].state \in InFlight
    BY DEF NoSilentFill
  <2>1. SwapKey(o) \in Key
    BY KeysOfOrder
  <2>2. t \in sent
    BY DEF Steady, OrderInv, ChainInv
  <2>3. row[SwapKey(o)].tx = t /\ t # NoTx
    BY <2>2, NoTxAssumption DEF Steady, OrderInv, Core, DurableBeforeSent
  <2>4. row[SwapKey(o)].state # "none"
    BY <2>1, <2>3 DEF Steady, OrderInv, Core, RowShape
  <2>5. JobOf(o) /\ RowsOf(o)
    BY DEF Steady, JobTask, Fresh
  <2>6. order[o].state \notin {"none", "failed", "filled"}
    BY <2>4, <2>5 DEF JobOf, RowsOf, Steady, Filed
  <2>7. order[o].state \in OrderState
    BY DEF Steady, OrderInv, OrderPart, OrderRow
  <2> QED BY <2>6, <2>7 DEF OrderState, InFlight
<1> QED BY <1>1, SteadyHolds, PTL

\* An order whose outcome is ambiguous keeps the network halted once the boot
\* is over.
THEOREM AmbiguityTheorem == ASSUME Alone PROVE Spec => []AmbiguityHalts
<1>1. Steady => AmbiguityHalts
  BY DEF Steady, Halting, AmbiguityHalts
<1> QED BY <1>1, SteadyHolds, PTL
=============================================================================
