-------------------------- MODULE CoordinatorProofs --------------------------
(***************************************************************************)
(* What every action of Coordinator preserves, for any numbers of orders,  *)
(* callers, processes and nonces.  Both specifications built from these    *)
(* actions cite the lemmas below.                                          *)
(*                                                                         *)
(* DurableBeforeSent is not inductive: that a resent transaction is the    *)
(* row's needs to be known of the snapshot recover() works from            *)
(* (SnapShape), that a row without bytes has none on the wire needs the    *)
(* shape of the rows (RowShape), and the place of a task must name a row   *)
(* (PcShape).                                                              *)
(***************************************************************************)
EXTENDS Coordinator, TLAPS

Place == [pc : TaskPc, key : Key \cup {NoKey}, tx : Tx \cup {NoTx}, seen : Count]
Scan  == [todo : SUBSET Key, snap : [Key -> Row], bad : BOOLEAN]

TaskTypes ==
  /\ task \in [Task -> Place]
  /\ queue \in [Proc -> Seq(Call)]
  /\ scan \in [Proc -> Scan]

\* A task that has begun a request knows its key.
PcShape ==
  \A w \in Task : task[w].pc \in {"queued", "nonce", "sign", "send"} => task[w].key \in Key

\* A task that sends bytes sends those of its key.
SendShape ==
  \A w \in Task : task[w].pc = "send" /\ task[w].tx # NoTx => task[w].tx.key = task[w].key

\* A row has a transaction only of its own key, and only once it was signed.
RowShape ==
  \A k \in Key :
    /\ row[k].tx # NoTx => row[k].tx.key = k
    /\ row[k].state \in {"none", "prepared"} => row[k].tx = NoTx
    /\ row[k].payload => row[k].tx # NoTx

\* The bytes recover() read are still the row's.
SnapShape ==
  \A p \in Proc, k \in Key :
    /\ scan[p].snap[k].tx # NoTx => scan[p].snap[k].tx = row[k].tx
    /\ scan[p].snap[k].payload => scan[p].snap[k].tx # NoTx

TaskInv == TaskTypes /\ PcShape /\ SendShape /\ SnapShape

Core ==
  /\ wire \subseteq Tx
  /\ sent \subseteq Tx
  /\ row \in [Key -> Row]
  /\ lease \in Proc \cup {Nobody, Departed}
  /\ TaskInv
  /\ RowShape
  /\ DurableBeforeSent

-----------------------------------------------------------------------------
(* The three ways a step may disturb Core, one obligation each.             *)

\* Rows keep their shape and their bytes.
RowStep ==
  /\ row' \in [Key -> Row]
  /\ RowShape'
  /\ \A k \in Key : row[k].tx # NoTx => row'[k].tx = row[k].tx

\* What is newly on the wire is what its row holds.
WireStep == \A t \in wire' : t \in wire \/ (t \in Tx /\ row'[t.key].tx = t)

LEMMA CoreStep ==
  ASSUME Core, RowStep, WireStep, TaskInv',
         lease' \in Proc \cup {Nobody, Departed}, sent' \subseteq sent \cup wire
  PROVE  Core'
<1>1. wire' \subseteq Tx /\ sent' \subseteq Tx
  BY DEF Core, WireStep
<1>2. ASSUME NEW t \in wire' \cup sent' PROVE row'[t.key].tx = t
  <2>1. CASE t \in wire \cup sent
    <3>1. t \in Tx /\ row[t.key].tx = t
      BY <2>1 DEF Core, DurableBeforeSent
    <3>2. t.key \in Key /\ t # NoTx
      BY <3>1, NoTxAssumption DEF Tx
    <3> QED BY <3>1, <3>2 DEF RowStep
  <2>2. CASE t \notin wire \cup sent
    BY <1>2, <2>2 DEF WireStep
  <2> QED BY <2>1, <2>2
<1> QED BY <1>1, <1>2 DEF Core, RowStep, DurableBeforeSent

LEMMA SameRow == ASSUME Core, UNCHANGED row PROVE RowStep
BY DEF Core, RowStep, RowShape

LEMMA SameWire == ASSUME UNCHANGED wire PROVE WireStep
BY DEF WireStep

\* UPDATE ... SET state of a row, to a state past signing.
LEMMA StateOnly ==
  ASSUME Core, NEW k \in Key, NEW s \in RowState, s \notin {"none", "prepared"},
         SetState(k, s)
  PROVE  RowStep
<1>1. row \in [Key -> Row] /\ row' = [row EXCEPT ![k].state = s]
  BY DEF Core, SetState
<1>2. row' \in [Key -> Row]
  BY <1>1 DEF Row
<1>3. \A j \in Key : row'[j].tx = row[j].tx /\ row'[j].payload = row[j].payload
  BY <1>1 DEF Row
<1>4. \A j \in Key : j # k => row'[j].state = row[j].state
  BY <1>1 DEF Row
<1>5. row'[k].state = s
  BY <1>1 DEF Row
<1> QED BY <1>2, <1>3, <1>4, <1>5 DEF Core, RowStep, RowShape

\* A signature stored in a row that is still prepared.
LEMMA StoredRow ==
  ASSUME Core, NEW k \in Key, NEW s \in Sig, NEW state \in {"signed", "unknown"},
         row' = [row EXCEPT ![k] = Stored(k, s, state)]
  PROVE  RowStep /\ (Stored(k, s, state).payload => /\ Stored(k, s, state).tx \in Tx
                                                    /\ Stored(k, s, state).tx.key = k
                                                    /\ row'[k].tx = Stored(k, s, state).tx)
<1>1. row[k] \in Row /\ row \in [Key -> Row] /\ RowShape
  BY DEF Core
<1>2. row'[k] = Stored(k, s, state) /\ \A j \in Key : j # k => row'[j] = row[j]
  BY <1>1
<1>3. CASE row[k].state = "prepared"
  <2> DEFINE t == [key |-> k, nonce |-> row[k].nonce, sig |-> s]
  <2>1. t \in Tx
    BY <1>1 DEF Tx, Row
  <2>2. t # NoTx /\ t.key = k
    BY <2>1, NoTxAssumption
  <2> HIDE DEF t
  <2>3. Stored(k, s, state) = [state |-> state, nonce |-> row[k].nonce, payload |-> TRUE, tx |-> t]
    BY <1>3 DEF Stored, t
  <2>4. Stored(k, s, state) \in Row
    BY <1>1, <2>1, <2>3 DEF Row, RowState, Unresolved
  <2>5. row' \in [Key -> Row]
    BY <1>1, <2>4
  <2>6. RowShape'
    BY <1>1, <1>2, <2>2, <2>3 DEF RowShape
  <2>7. row[k].tx = NoTx
    BY <1>1, <1>3 DEF RowShape
  <2> QED BY <1>2, <2>1, <2>2, <2>3, <2>5, <2>6, <2>7 DEF RowStep
<1>4. CASE row[k].state # "prepared"
  <2>1. Stored(k, s, state) = row[k] /\ row' = row
    BY <1>1, <1>4 DEF Stored
  <2> QED BY <1>1, <2>1, SameRow, NoTxAssumption DEF RowShape, Row
<1> QED BY <1>3, <1>4

\* INSERT of a row that is not there.
LEMMA InsertedRow ==
  ASSUME Core, NEW k \in Key, NEW n \in Nonce, NEW s \in {"prepared", "unknown"}, ~Exists(k),
         row' = [row EXCEPT ![k] = [state |-> s, nonce |-> n, tx |-> NoTx, payload |-> FALSE]]
  PROVE  RowStep
<1> DEFINE r == [state |-> s, nonce |-> n, tx |-> NoTx, payload |-> FALSE]
<1>1. row \in [Key -> Row] /\ RowShape /\ row[k].tx = NoTx
  BY DEF Core, RowShape, Exists
<1>2. r \in Row
  BY DEF Row, RowState, Unresolved
<1>3. r.tx = NoTx /\ r.payload = FALSE
  OBVIOUS
<1>4. row'[k] = r /\ \A j \in Key : j # k => row'[j] = row[j]
  BY <1>1
<1> HIDE DEF r
<1>5. row' \in [Key -> Row]
  BY <1>1, <1>2 DEF r
<1>6. RowShape'
  BY <1>1, <1>3, <1>4 DEF RowShape
<1> QED BY <1>1, <1>4, <1>5, <1>6 DEF RowStep
-----------------------------------------------------------------------------
(* The steps of a task.                                                     *)

LEMMA AtPlace ==
  ASSUME NEW pc \in TaskPc, NEW k \in Key \cup {NoKey}, NEW t \in Tx \cup {NoTx}
  PROVE  /\ At(pc, k, t) \in Place
         /\ At(pc, k, t).pc = pc /\ At(pc, k, t).key = k /\ At(pc, k, t).tx = t
BY NonceAssumption DEF At, Place, Count

\* Snapshots follow the rows as long as the rows keep their bytes.
LEMMA SnapsKept ==
  ASSUME Core, RowStep, \A p \in Proc : scan'[p].snap = scan[p].snap
  PROVE  SnapShape'
BY NoTxAssumption DEF Core, TaskInv, SnapShape, RowStep

LEMMA SameTasks ==
  ASSUME Core, RowStep, UNCHANGED <<task, queue, scan>>
  PROVE  TaskInv'
<1>1. SnapShape'
  BY SnapsKept
<1> QED BY <1>1 DEF Core, TaskInv, TaskTypes, PcShape, SendShape

\* One task moves to a proper place.
LEMMA OneMoves ==
  ASSUME TaskInv, NEW w \in Task, NEW x \in Place,
         x.pc \in {"queued", "nonce", "sign", "send"} => x.key \in Key,
         x.pc = "send" /\ x.tx # NoTx => x.tx.key = x.key,
         task' = [task EXCEPT ![w] = x]
  PROVE  task' \in [Task -> Place] /\ PcShape' /\ SendShape'
<1>1. task \in [Task -> Place]
  BY DEF TaskInv, TaskTypes
<1>2. task' \in [Task -> Place]
  BY <1>1
<1>3. task'[w] = x /\ \A v \in Task : v # w => task'[v] = task[v]
  BY <1>1
<1> QED BY <1>2, <1>3 DEF TaskInv, PcShape, SendShape

LEMMA FinishStep ==
  ASSUME Core, RowStep, NEW w \in Task, NEW k, NEW b \in BOOLEAN, Finish(w, k, b)
  PROVE  TaskInv'
<1>0. TaskInv
  BY DEF Core
<1>1. CASE w \in Call
  <2>1. task' = [task EXCEPT ![w] = Idle] /\ UNCHANGED scan
    BY <1>1 DEF Finish
  <2>2. Idle \in Place /\ Idle.pc = "idle"
    BY AtPlace DEF Idle, TaskPc
  <2>3. task' \in [Task -> Place] /\ PcShape' /\ SendShape'
    BY <1>0, <2>1, <2>2, OneMoves
  <2>4. ASSUME NEW s \in Seq(Call), s # <<>> PROVE Tail(s) \in Seq(Call)
    BY <2>4
  <2>5. ASSUME NEW p \in Proc
        PROVE  (IF queue[p] # <<>> /\ Head(queue[p]) = w THEN Tail(queue[p]) ELSE queue[p]) \in Seq(Call)
    BY <1>0, <2>4 DEF TaskInv, TaskTypes
  <2>6. queue' = [p \in Proc |-> IF queue[p] # <<>> /\ Head(queue[p]) = w
                                   THEN Tail(queue[p]) ELSE queue[p]]
    BY <1>1 DEF Finish
  <2>7. queue' \in [Proc -> Seq(Call)]
    BY <2>5, <2>6
  <2>8. SnapShape'
    BY <2>1, SnapsKept
  <2> QED BY <1>0, <2>1, <2>3, <2>7, <2>8 DEF TaskInv, TaskTypes
<1>2. CASE w \notin Call
  <2>0. w \in Proc
    BY <1>2 DEF Task
  <2> DEFINE s == [todo |-> scan[w].todo \ {k}, snap |-> scan[w].snap, bad |-> scan[w].bad \/ b]
  <2>1. /\ task' = [task EXCEPT ![w] = At("scan", NoKey, NoTx)]
        /\ scan' = [scan EXCEPT ![w] = s]
        /\ UNCHANGED queue
    BY <1>2 DEF Finish
  <2>2. At("scan", NoKey, NoTx) \in Place /\ At("scan", NoKey, NoTx).pc = "scan"
    BY AtPlace DEF TaskPc
  <2>3. task' \in [Task -> Place] /\ PcShape' /\ SendShape'
    BY <1>0, <2>1, <2>2, OneMoves
  <2>4. (scan[w].bad \/ b) \in BOOLEAN
    OBVIOUS
  <2>5. scan \in [Proc -> Scan]
    BY <1>0 DEF TaskInv, TaskTypes
  <2>6. s \in Scan /\ s.snap = scan[w].snap
    BY <2>0, <2>4, <2>5 DEF Scan
  <2> HIDE DEF s
  <2>7. scan' \in [Proc -> Scan] /\ \A p \in Proc : scan'[p].snap = scan[p].snap
    BY <2>0, <2>1, <2>5, <2>6
  <2>8. SnapShape'
    BY <2>7, SnapsKept
  <2> QED BY <1>0, <2>1, <2>3, <2>7, <2>8 DEF TaskInv, TaskTypes
<1> QED BY <1>1, <1>2

LEMMA BeginSignStep ==
  ASSUME Core, RowStep, NEW w \in Task, NEW k \in Key, BeginSign(w, k)
  PROVE  TaskInv' /\ WireStep
<1> DEFINE x == At("sign", k, NoTx)
<1>1. x \in Place /\ x.pc = "sign" /\ x.key = k /\ x.tx = NoTx
  BY AtPlace DEF TaskPc
<1>2. task' = [task EXCEPT ![w] = x] /\ UNCHANGED <<wire, queue, scan>>
  BY DEF BeginSign
<1> HIDE DEF x
<1>3. task' \in [Task -> Place] /\ PcShape' /\ SendShape'
  BY <1>1, <1>2, OneMoves DEF Core
<1>4. SnapShape'
  BY <1>2, SnapsKept
<1> QED BY <1>2, <1>3, <1>4, SameWire DEF Core, TaskInv, TaskTypes

LEMMA BeginSendStep ==
  ASSUME Core, RowStep, NEW w \in Task, NEW k \in Key, NEW r, BeginSend(w, k, r),
         r.payload => r.tx \in Tx /\ r.tx.key = k /\ row'[k].tx = r.tx
  PROVE  TaskInv' /\ WireStep
<1> DEFINE t == IF r.payload THEN r.tx ELSE NoTx
           x == At("send", k, t)
<1>1. t \in Tx \cup {NoTx} /\ (t # NoTx => t.key = k)
  OBVIOUS
<1>2. task' = [task EXCEPT ![w] = x] /\ UNCHANGED <<queue, scan>>
  BY DEF BeginSend
<1>3. WireStep
  BY DEF BeginSend, WireStep
<1> HIDE DEF t
<1>4. x \in Place /\ x.pc = "send" /\ x.key = k /\ x.tx = t
  BY <1>1, AtPlace DEF TaskPc
<1> HIDE DEF x
<1>5. task' \in [Task -> Place] /\ PcShape' /\ SendShape'
  BY <1>1, <1>2, <1>4, OneMoves DEF Core
<1>6. SnapShape'
  BY <1>2, SnapsKept
<1> QED BY <1>2, <1>3, <1>5, <1>6 DEF Core, TaskInv, TaskTypes

\* A row that has bytes may be sent as it is.
LEMMA SendsRow ==
  ASSUME Core, RowStep, NEW k \in Key
  PROVE  row[k].payload => /\ row[k].tx \in Tx /\ row[k].tx.key = k
                           /\ row'[k].tx = row[k].tx
BY DEF Core, RowShape, RowStep, Row

LEMMA SendsSnap ==
  ASSUME Core, RowStep, NEW p \in Proc, NEW k \in Key
  PROVE  LET r == scan[p].snap[k] IN
         r.payload => r.tx \in Tx /\ r.tx.key = k /\ row'[k].tx = r.tx
BY DEF Core, TaskInv, TaskTypes, SnapShape, RowShape, RowStep, Scan, Row

LEMMA GiveUpStep ==
  ASSUME Core, NEW w \in Task, NEW k \in Key, GiveUp(w, k)
  PROVE  RowStep /\ TaskInv' /\ WireStep
<1>1. RowStep
  BY StateOnly DEF GiveUp, RowState, Unresolved
<1> QED BY <1>1, FinishStep, SameWire DEF GiveUp, Throw

LEMMA ThrowStep ==
  ASSUME Core, NEW w \in Task, NEW k, Throw(w, k), UNCHANGED <<wire, row>>
  PROVE  RowStep /\ TaskInv' /\ WireStep
BY SameRow, SameWire, FinishStep DEF Throw

LEMMA ReturnStep ==
  ASSUME Core, NEW w \in Task, NEW k, Return(w, k), UNCHANGED <<wire, row>>
  PROVE  RowStep /\ TaskInv' /\ WireStep
BY SameRow, SameWire, FinishStep DEF Return
-----------------------------------------------------------------------------
(* submit() and what follows it.                                            *)

LEMMA TurnKey ==
  ASSUME Core, NEW p \in Proc, NEW c \in Call, Turn(p, c)
  PROVE  task[c].key \in Key
BY DEF Core, TaskInv, PcShape, Turn, Task

LEMMA AcquiredLease ==
  ASSUME NEW p \in Proc, AcquireLease(p) PROVE lease' \in Proc \cup {Nobody, Departed}
BY DEF AcquireLease

LEMMA SubmitStep ==
  ASSUME Core, NEW p \in Proc, NEW c \in Call, NEW k \in Key, Submit(p, c, k), UNCHANGED sent
  PROVE  Core' /\ RowStep
<1> DEFINE x == At("queued", k, NoTx)
<1>1. x \in Place /\ x.pc = "queued" /\ x.key = k
  BY AtPlace DEF TaskPc
<1>2. task' = [task EXCEPT ![c] = x] /\ c \in Task
  BY DEF Submit, Task
<1> HIDE DEF x
<1>3. task' \in [Task -> Place] /\ PcShape' /\ SendShape'
  BY <1>1, <1>2, OneMoves DEF Core
<1>4. queue \in [Proc -> Seq(Call)] /\ queue' = [queue EXCEPT ![p] = Append(@, c)]
  BY DEF Core, TaskInv, TaskTypes, Submit
<1>5. queue' \in [Proc -> Seq(Call)]
  BY <1>4
<1>6. RowStep /\ WireStep /\ UNCHANGED <<lease, scan>>
  BY SameRow, SameWire DEF Submit
<1>7. SnapShape'
  BY <1>6, SnapsKept
<1>8. TaskInv'
  BY <1>3, <1>5, <1>6, <1>7 DEF Core, TaskInv, TaskTypes
<1> QED BY <1>6, <1>8, CoreStep DEF Core

LEMMA RefusedStep ==
  ASSUME Core, NEW p \in Proc, NEW c \in Call, UNCHANGED sent,
         LeaseRefused(p, c) \/ AlreadyBroadcast(p, c) \/ AlreadySettled(p, c) \/ WalletBlocked(p, c)
  PROVE  Core' /\ RowStep
<1>1. c \in Task
  BY DEF Task
<1>2. CASE LeaseRefused(p, c)
  <2>1. RowStep /\ TaskInv' /\ WireStep
    BY <1>1, <1>2, ThrowStep DEF LeaseRefused
  <2> QED BY <1>2, <2>1, CoreStep DEF LeaseRefused, Core
<1>3. CASE AlreadyBroadcast(p, c)
  <2>1. RowStep /\ TaskInv' /\ WireStep
    BY <1>1, <1>3, ReturnStep DEF AlreadyBroadcast
  <2> QED BY <1>3, <2>1, CoreStep, AcquiredLease DEF AlreadyBroadcast
<1>4. CASE AlreadySettled(p, c)
  <2>1. RowStep /\ TaskInv' /\ WireStep
    BY <1>1, <1>4, ThrowStep DEF AlreadySettled
  <2> QED BY <1>4, <2>1, CoreStep, AcquiredLease DEF AlreadySettled
<1>5. CASE WalletBlocked(p, c)
  <2>1. RowStep /\ TaskInv' /\ WireStep
    BY <1>1, <1>5, ThrowStep DEF WalletBlocked
  <2> QED BY <1>5, <2>1, CoreStep, AcquiredLease DEF WalletBlocked
<1> QED BY <1>2, <1>3, <1>4, <1>5

LEMMA ResendStep ==
  ASSUME Core, NEW p \in Proc, NEW c \in Call, Resend(p, c), UNCHANGED sent
  PROVE  Core' /\ RowStep
<1> DEFINE k == task[c].key
<1>1. k \in Key /\ c \in Task
  BY TurnKey DEF Resend, Task
<1>2. AcquireLease(p)
  BY DEF Resend
<1>3. CASE BeginSend(c, k, row[k]) /\ UNCHANGED row
  <2>1. RowStep
    BY <1>3, SameRow
  <2>2. row[k].payload => row[k].tx \in Tx /\ row[k].tx.key = k /\ row'[k].tx = row[k].tx
    BY <1>1, <2>1, SendsRow
  <2>3. TaskInv' /\ WireStep
    BY <1>1, <1>3, <2>1, <2>2, BeginSendStep
  <2> QED BY <1>2, <2>1, <2>3, CoreStep, AcquiredLease
<1>4. CASE GiveUp(c, k)
  BY <1>1, <1>2, <1>4, GiveUpStep, CoreStep, AcquiredLease
<1> QED BY <1>3, <1>4 DEF Resend

LEMMA SignAgainStep ==
  ASSUME Core, NEW p \in Proc, NEW c \in Call, SignAgain(p, c), UNCHANGED sent
  PROVE  Core' /\ RowStep
<1> DEFINE k == task[c].key
<1>1. k \in Key /\ c \in Task
  BY TurnKey DEF SignAgain, Task
<1>2. AcquireLease(p)
  BY DEF SignAgain
<1>3. CASE BeginSign(c, k) /\ UNCHANGED row
  <2>1. RowStep
    BY <1>3, SameRow
  <2>2. TaskInv' /\ WireStep
    BY <1>1, <1>3, <2>1, BeginSignStep
  <2> QED BY <1>2, <2>1, <2>2, CoreStep, AcquiredLease
<1>4. CASE GiveUp(c, k)
  BY <1>1, <1>2, <1>4, GiveUpStep, CoreStep, AcquiredLease
<1> QED BY <1>3, <1>4 DEF SignAgain

LEMMA AskNonceStep ==
  ASSUME Core, NEW p \in Proc, NEW c \in Call, AskNonce(p, c), UNCHANGED sent
  PROVE  Core' /\ RowStep
<1>1. task[c].key \in Key /\ c \in Task
  BY TurnKey DEF AskNonce, Task
<1>2. PICK n \in Count : task' = [task EXCEPT ![c] = Asked(task[c].key, n)]
  BY DEF AskNonce
<1> DEFINE x == Asked(task[c].key, n)
<1>3. x \in Place /\ x.pc = "nonce" /\ x.key = task[c].key
  BY <1>1 DEF Asked, Place, TaskPc
<1> HIDE DEF x
<1>4. task' \in [Task -> Place] /\ PcShape' /\ SendShape'
  BY <1>1, <1>2, <1>3, OneMoves DEF Core, x
<1>5. RowStep /\ WireStep /\ UNCHANGED <<queue, scan>>
  BY SameRow, SameWire DEF AskNonce
<1>6. SnapShape'
  BY <1>5, SnapsKept
<1>7. TaskInv'
  BY <1>4, <1>5, <1>6 DEF Core, TaskInv, TaskTypes
<1> QED BY <1>5, <1>7, CoreStep, AcquiredLease DEF AskNonce

LEMMA NonceReplyStep ==
  ASSUME Core, NEW c \in Call, NonceReply(c), UNCHANGED sent
  PROVE  Core' /\ RowStep
<1> DEFINE k == task[c].key
           Inserted(n, s) == [state |-> s, nonce |-> n, tx |-> NoTx, payload |-> FALSE]
<1>1. k \in Key /\ c \in Task
  BY DEF NonceReply, Core, TaskInv, PcShape, Task
<1>2. PICK n \in Nonce :
        /\ ~Exists(k)
        /\ \/ /\ BeginSign(c, k)
              /\ row' = [row EXCEPT ![k] = Inserted(n, "prepared")]
           \/ /\ row' = [row EXCEPT ![k] = Inserted(n, "unknown")]
              /\ Throw(c, k)
              /\ UNCHANGED wire
  BY DEF NonceReply, Taken
<1>3. RowStep
  BY <1>1, <1>2, InsertedRow
<1>4. TaskInv' /\ WireStep
  BY <1>1, <1>2, <1>3, BeginSignStep, FinishStep, SameWire DEF Throw
<1> QED BY <1>3, <1>4, CoreStep DEF NonceReply, Core

LEMMA NonceErrorStep ==
  ASSUME Core, NEW c \in Call, NonceError(c), UNCHANGED sent
  PROVE  Core' /\ RowStep
<1>1. RowStep /\ TaskInv' /\ WireStep
  BY ThrowStep DEF NonceError, Task
<1> QED BY <1>1, CoreStep DEF NonceError, Core

LEMMA SignReplyStep ==
  ASSUME Core, NEW w \in Task, SignReply(w), UNCHANGED sent
  PROVE  Core' /\ RowStep
<1> DEFINE k == task[w].key
<1>1. k \in Key
  BY DEF SignReply, Core, TaskInv, PcShape
<1>2. PICK s \in Sig :
        \/ /\ row' = [row EXCEPT ![k] = Stored(k, s, "signed")]
           /\ BeginSend(w, k, Stored(k, s, "signed"))
        \/ /\ row' = [row EXCEPT ![k] = Stored(k, s, "unknown")]
           /\ Throw(w, k)
           /\ UNCHANGED wire
  BY DEF SignReply
<1>3. RowStep /\ TaskInv' /\ WireStep
  <2>1. CASE /\ row' = [row EXCEPT ![k] = Stored(k, s, "signed")]
             /\ BeginSend(w, k, Stored(k, s, "signed"))
    <3> DEFINE r == Stored(k, s, "signed")
    <3>1. RowStep /\ (r.payload => r.tx \in Tx /\ r.tx.key = k /\ row'[k].tx = r.tx)
      BY <1>1, <2>1, StoredRow
    <3> QED BY <1>1, <2>1, <3>1, BeginSendStep
  <2>2. CASE /\ row' = [row EXCEPT ![k] = Stored(k, s, "unknown")]
             /\ Throw(w, k)
             /\ UNCHANGED wire
    <3>1. RowStep
      BY <1>1, <2>2, StoredRow
    <3> QED BY <2>2, <3>1, FinishStep, SameWire DEF Throw
  <2> QED BY <1>2, <2>1, <2>2
<1> QED BY <1>3, CoreStep DEF SignReply, Core

LEMMA SignErrorStep ==
  ASSUME Core, NEW w \in Task, SignError(w) \/ SendError(w), UNCHANGED sent
  PROVE  Core' /\ RowStep
<1>1. RowStep /\ TaskInv' /\ WireStep
  BY ThrowStep DEF SignError, SendError
<1> QED BY <1>1, CoreStep DEF SignError, SendError, Core

LEMMA SendReplyStep ==
  ASSUME Core, NEW w \in Task, SendReply(w), UNCHANGED sent
  PROVE  Core' /\ RowStep
<1>1. task[w].key \in Key
  BY DEF SendReply, Core, TaskInv, PcShape
<1>2. RowStep
  BY <1>1, StateOnly DEF SendReply, RowState, Unresolved
<1>3. TaskInv' /\ WireStep
  BY <1>2, FinishStep, SameWire DEF SendReply, Return
<1> QED BY <1>2, <1>3, CoreStep DEF SendReply, Core
-----------------------------------------------------------------------------
(* recover() and the process.                                               *)

LEMMA BeginScanStep ==
  ASSUME Core, NEW p \in Proc, BeginScan(p), UNCHANGED sent
  PROVE  Core' /\ RowStep
<1> DEFINE x == At("scan", NoKey, NoTx)
           s == [todo |-> {k \in Key : row[k].state \in Unresolved}, snap |-> row, bad |-> FALSE]
<1>1. x \in Place /\ x.pc = "scan"
  BY AtPlace DEF TaskPc
<1>2. task' = [task EXCEPT ![p] = x] /\ scan' = [scan EXCEPT ![p] = s] /\ p \in Task
  BY DEF BeginScan, Task
<1>3. s \in Scan /\ s.snap = row
  BY DEF Core, Scan
<1> HIDE DEF x, s
<1>4. task' \in [Task -> Place] /\ PcShape' /\ SendShape'
  BY <1>1, <1>2, OneMoves DEF Core
<1>5. RowStep /\ WireStep /\ UNCHANGED <<row, queue, lease>>
  BY SameRow, SameWire DEF BeginScan
<1>6. scan \in [Proc -> Scan]
  BY DEF Core, TaskInv, TaskTypes
<1>7. scan' \in [Proc -> Scan] /\ scan'[p].snap = row /\ \A q \in Proc : q # p => scan'[q] = scan[q]
  BY <1>2, <1>3, <1>6
<1>8. SnapShape'
  BY <1>5, <1>7 DEF Core, TaskInv, SnapShape, RowShape
<1>9. TaskInv'
  BY <1>4, <1>5, <1>7, <1>8 DEF Core, TaskInv, TaskTypes
<1> QED BY <1>5, <1>9, CoreStep DEF Core

LEMMA ScanKeyStep ==
  ASSUME Core, NEW p \in Proc, NEW k \in Key, UNCHANGED sent,
         \/ ScanPrepared(p, k) \/ ScanNoPayload(p, k) \/ ScanReceipt(p, k)
         \/ ScanResend(p, k) \/ ScanSilent(p, k)
  PROVE  Core' /\ RowStep
<1>1. p \in Task
  BY DEF Task
<1>2. CASE ScanPrepared(p, k)
  <2>1. CASE BeginSign(p, k) /\ UNCHANGED row
    <3>1. RowStep
      BY <2>1, SameRow
    <3>2. TaskInv' /\ WireStep
      BY <1>1, <2>1, <3>1, BeginSignStep
    <3> QED BY <1>2, <3>1, <3>2, CoreStep DEF ScanPrepared, Core
  <2>2. CASE GiveUp(p, k)
    BY <1>1, <1>2, <2>2, GiveUpStep, CoreStep DEF ScanPrepared, Core
  <2> QED BY <1>2, <2>1, <2>2 DEF ScanPrepared
<1>3. CASE ScanNoPayload(p, k)
  <2>1. RowStep
    BY <1>3, StateOnly DEF ScanNoPayload, RowState, Unresolved
  <2>2. TaskInv' /\ WireStep
    BY <1>1, <1>3, <2>1, FinishStep, SameWire DEF ScanNoPayload, Throw
  <2> QED BY <1>3, <2>1, <2>2, CoreStep DEF ScanNoPayload, Core
<1>4. CASE ScanReceipt(p, k)
  <2>1. RowStep
    BY <1>4, StateOnly DEF ScanReceipt, ReceiptState, RowState, Unresolved
  <2>2. TaskInv' /\ WireStep
    BY <1>1, <1>4, <2>1, FinishStep, SameWire DEF ScanReceipt, Return
  <2> QED BY <1>4, <2>1, <2>2, CoreStep DEF ScanReceipt, Core
<1>5. CASE ScanResend(p, k)
  <2> DEFINE r == scan[p].snap[k]
  <2>1. CASE BeginSend(p, k, r) /\ UNCHANGED row
    <3>1. RowStep
      BY <2>1, SameRow
    <3>2. r.payload => r.tx \in Tx /\ r.tx.key = k /\ row'[k].tx = r.tx
      BY <3>1, SendsSnap
    <3>3. TaskInv' /\ WireStep
      BY <1>1, <2>1, <3>1, <3>2, BeginSendStep
    <3> QED BY <1>5, <3>1, <3>3, CoreStep DEF ScanResend, Core
  <2>2. CASE GiveUp(p, k)
    BY <1>1, <1>5, <2>2, GiveUpStep, CoreStep DEF ScanResend, Core
  <2> QED BY <1>5, <2>1, <2>2 DEF ScanResend
<1>6. CASE ScanSilent(p, k)
  <2>1. RowStep
    BY <1>6, StateOnly, SameRow DEF ScanSilent, RowState, Unresolved
  <2>2. (k \in aged) \in BOOLEAN
    OBVIOUS
  <2>3. TaskInv'
    BY <1>1, <1>6, <2>1, <2>2, FinishStep DEF ScanSilent
  <2> QED BY <1>6, <2>1, <2>3, SameWire, CoreStep DEF ScanSilent, Core
<1> QED BY <1>2, <1>3, <1>4, <1>5, <1>6

\* What recover() leaves behind when it is over, or when its process dies.
LEMMA ScanCleared ==
  ASSUME Core, RowStep, NEW p \in Proc, scan' = [scan EXCEPT ![p] = NoScan]
  PROVE  scan' \in [Proc -> Scan] /\ SnapShape'
<1>1. scan \in [Proc -> Scan]
  BY DEF Core, TaskInv, TaskTypes
<1>2. NoRow \in Row
  BY NonceAssumption DEF NoRow, Row, Nonce, RowState
<1>3. NoScan \in Scan /\ \A k \in Key : NoScan.snap[k] = NoRow
  BY <1>2 DEF NoScan, Scan
<1>4. NoRow.tx = NoTx /\ NoRow.payload = FALSE
  BY DEF NoRow
<1>5. scan' \in [Proc -> Scan] /\ scan'[p] = NoScan /\ \A q \in Proc : q # p => scan'[q] = scan[q]
  BY <1>1, <1>3
<1> QED BY <1>3, <1>4, <1>5, NoTxAssumption DEF Core, TaskInv, SnapShape, RowStep

LEMMA ScanOver ==
  ASSUME Core, NEW p \in Proc, UNCHANGED <<sent, wire, row, lease, queue>>,
         task' = [task EXCEPT ![p] = Idle], scan' = [scan EXCEPT ![p] = NoScan]
  PROVE  Core' /\ RowStep
<1>1. Idle \in Place /\ Idle.pc = "idle" /\ p \in Task
  BY AtPlace DEF Idle, TaskPc, Task
<1>2. task' \in [Task -> Place] /\ PcShape' /\ SendShape'
  BY <1>1, OneMoves DEF Core
<1>3. RowStep /\ WireStep
  BY SameRow, SameWire
<1>4. TaskInv'
  BY <1>2, <1>3, ScanCleared DEF Core, TaskInv, TaskTypes
<1> QED BY <1>3, <1>4, CoreStep DEF Core

LEMMA StartGateStep ==
  ASSUME Core, NEW p \in Proc, Start(p) \/ Gate(p), UNCHANGED sent
  PROVE  Core' /\ RowStep
BY BeginScanStep DEF Start, Gate

LEMMA CrashKeeps ==
  ASSUME Core, NEW p \in Proc, Crash(p), UNCHANGED sent
  PROVE  Core' /\ RowStep
<1>1. Idle \in Place /\ Idle.pc = "idle"
  BY AtPlace DEF Idle, TaskPc
<1>2. task \in [Task -> Place] /\ queue \in [Proc -> Seq(Call)] /\ PcShape /\ SendShape
  BY DEF Core, TaskInv, TaskTypes
<1>3. task' = [w \in Task |-> IF w \in Running(p) THEN Idle ELSE task[w]]
  BY DEF Crash
<1>4. task' \in [Task -> Place] /\ PcShape' /\ SendShape'
  BY <1>1, <1>2, <1>3 DEF PcShape, SendShape
<1>5. RowStep /\ WireStep
  BY SameRow, SameWire DEF Crash
<1>6. queue' \in [Proc -> Seq(Call)]
  <2>1. <<>> \in Seq(Call)
    OBVIOUS
  <2> QED BY <1>2, <2>1 DEF Crash
<1>7. scan' \in [Proc -> Scan] /\ SnapShape'
  BY <1>5, ScanCleared DEF Crash
<1>8. TaskInv'
  BY <1>4, <1>6, <1>7 DEF TaskInv, TaskTypes
<1>9. lease' \in Proc \cup {Nobody, Departed}
  BY DEF Crash, Core
<1> QED BY <1>5, <1>8, <1>9, CoreStep

LEMMA LapseStep ==
  ASSUME Core, LeaseLapses, UNCHANGED <<sent, wire, queue, task, scan>>
  PROVE  Core' /\ RowStep
<1>1. RowStep /\ WireStep /\ TaskInv'
  BY SameRow, SameWire, SameTasks DEF LeaseLapses
<1> QED BY <1>1, CoreStep DEF LeaseLapses

\* A step that touches none of the coordinator's state: the chain's, mostly.
LEMMA ElsewhereStep ==
  ASSUME Core, UNCHANGED <<row, lease, queue, task, scan>>,
         wire' \subseteq wire, sent' \subseteq sent \cup wire
  PROVE  Core' /\ RowStep
<1>1. RowStep /\ WireStep /\ TaskInv'
  BY SameRow, SameTasks DEF WireStep
<1> QED BY <1>1, CoreStep DEF Core

LEMMA ChainKeeps ==
  ASSUME Core, ChainStep, UNCHANGED <<row, lease, queue, task, scan>>
  PROVE  Core' /\ RowStep
<1>1. wire' \subseteq wire /\ sent' \subseteq sent \cup wire
  BY DEF ChainStep, Arrive, Evict, Mine
<1> QED BY <1>1, ElsewhereStep
-----------------------------------------------------------------------------
(* What the other variables keep.                                           *)

\* The chain: the pool was sent, and a mined transaction was sent and its nonce
\* is spent, so that it cannot be mined again.
ChainInv ==
  /\ ChainTypeOK
  /\ pool \subseteq sent
  /\ \A t \in Tx : receipt[t] # "none" => t \in sent /\ t.nonce < acct

LEMMA ChainInvStep ==
  ASSUME ChainInv, wire' \subseteq Tx, ChainStep
  PROVE  ChainInv'
<1> USE DEF ChainInv, ChainTypeOK
<1>1. \A t \in Tx : t.nonce \in Nat
  BY NonceAssumption DEF Tx, Nonce
<1>2. ASSUME NEW t \in wire, Arrive(t) PROVE ChainInv'
  BY <1>2 DEF Arrive
<1>3. ASSUME NEW t \in pool, Evict(t) PROVE ChainInv'
  BY <1>3 DEF Evict
<1>4. ASSUME NEW t \in pool, Mine(t) PROVE ChainInv'
  <2>1. PICK r \in Outcome : receipt' = [receipt EXCEPT ![t] = r]
    BY <1>4 DEF Mine
  <2> QED BY <1>1, <1>4, <2>1 DEF Mine
<1> QED BY <1>2, <1>3, <1>4 DEF ChainStep

OrderRow == [state : OrderState, ref : Tx \cup {NoTx}]

\* recover() and a broadcast point the order at its swap.
LEMMA OrderRefStep ==
  ASSUME Core, order \in [Order -> OrderRow], NEW k \in Key, NEW t \in Tx,
         order' = IF k.purpose = "swap"
                    THEN [order EXCEPT ![k.order] = [state |-> "pending", ref |-> t]]
                    ELSE order
  PROVE  order' \in [Order -> OrderRow]
<1>1. [state |-> "pending", ref |-> t] \in OrderRow
  BY DEF OrderRow, OrderState
<1> QED BY <1>1

\* Clocks and processes.
ProcTypes ==
  /\ expired \subseteq Key
  /\ aged \subseteq Key
  /\ phase \in [Proc -> {"down", "boot", "up"}]
  /\ crashes \in 0 .. MaxCrash
  /\ gates \in 0 .. MaxGate

LEMMA ClockTypes ==
  ASSUME ProcTypes, NEW k \in Key, Expire(k) \/ Age(k), UNCHANGED <<phase, crashes, gates>>
  PROVE  ProcTypes'
BY DEF ProcTypes, Expire, Age

LEMMA ProcessTypes ==
  ASSUME ProcTypes, NEW p \in Proc, Start(p) \/ Crash(p) \/ Gate(p), UNCHANGED <<expired, aged>>
  PROVE  ProcTypes'
<1>1. CASE Start(p)
  <2>1. phase' = [phase EXCEPT ![p] = "boot"] /\ UNCHANGED <<crashes, gates>>
    BY <1>1 DEF Start
  <2> QED BY <2>1 DEF ProcTypes
<1>2. CASE Crash(p)
  <2>1. /\ phase' = [phase EXCEPT ![p] = "down"]
        /\ crashes < MaxCrash /\ crashes' = crashes + 1
        /\ UNCHANGED gates
    BY <1>2 DEF Crash
  <2> QED BY <2>1, BoundAssumption DEF ProcTypes
<1>3. CASE Gate(p)
  <2>1. gates < MaxGate /\ gates' = gates + 1 /\ UNCHANGED <<phase, crashes>>
    BY <1>3 DEF Gate
  <2> QED BY <2>1, BoundAssumption DEF ProcTypes
<1> QED BY <1>1, <1>2, <1>3

CoordInv ==
  /\ Core
  /\ ChainInv
  /\ order \in [Order -> OrderRow]
  /\ ProcTypes

LEMMA CoordInvType == ASSUME CoordInv PROVE CoordTypeOK
BY DEF CoordInv, CoordTypeOK, Core, ChainInv, ProcTypes, TaskInv, TaskTypes, Place, Scan, OrderRow

LEMMA CoordInitInv ==
  ASSUME CoordInit PROVE Core /\ ChainInv /\ ProcTypes
<1>1. Idle \in Place /\ Idle.pc = "idle"
  BY AtPlace DEF Idle, TaskPc
<1>2. NoRow \in Row /\ NoRow.tx = NoTx /\ NoRow.payload = FALSE
  BY NonceAssumption DEF NoRow, Row, Nonce, RowState
<1>3. NoScan \in Scan /\ \A k \in Key : NoScan.snap[k] = NoRow
  BY <1>2 DEF NoScan, Scan
<1>4. <<>> \in Seq(Call)
  OBVIOUS
<1>5. TaskInv
  BY <1>1, <1>2, <1>3, <1>4
     DEF CoordInit, TaskInv, TaskTypes, PcShape, SendShape, SnapShape
<1>6. RowShape /\ row \in [Key -> Row]
  BY <1>2 DEF CoordInit, RowShape
<1>7. wire = {} /\ sent = {} /\ lease = Nobody
  BY DEF CoordInit, ChainInit
<1>8. Core
  BY <1>5, <1>6, <1>7 DEF Core, DurableBeforeSent
<1>9. ChainInv
  BY DEF CoordInit, ChainInit, ChainInv, ChainTypeOK
<1>10. ProcTypes
  BY BoundAssumption DEF CoordInit, ProcTypes
<1> QED BY <1>8, <1>9, <1>10
=============================================================================
