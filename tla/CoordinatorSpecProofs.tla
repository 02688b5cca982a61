------------------------ MODULE CoordinatorSpecProofs ------------------------
(***************************************************************************)
(* Theorems about the coordinator with its callers (CoordinatorSpec), for  *)
(* any number of orders, callers, processes, crashes and gates.            *)
(***************************************************************************)
EXTENDS CoordinatorSpec, CoordinatorProofs

LEMMA InitInv == Init => CoordInv
BY CoordInitInv, NoTxAssumption DEF Init, CoordInv, OrderRow, OrderState

\* Every step keeps the invariant and, with it, the bytes of every row.
LEMMA NextInv ==
  ASSUME CoordInv, Next PROVE CoordInv' /\ RowStep
<1> USE DEF CoordInv
<1>1. ASSUME NEW p \in Proc, NEW c \in Call, UNCHANGED <<order, Others>>,
             \/ \E k \in Key : Submit(p, c, k)
             \/ LeaseRefused(p, c) \/ AlreadyBroadcast(p, c) \/ AlreadySettled(p, c)
             \/ Resend(p, c) \/ SignAgain(p, c) \/ WalletBlocked(p, c) \/ AskNonce(p, c)
      PROVE  CoordInv' /\ RowStep
  <2>1. Core' /\ RowStep
    BY <1>1, SubmitStep, RefusedStep, ResendStep, SignAgainStep, AskNonceStep DEF Others
  <2> QED BY <1>1, <2>1 DEF Others, clockVars, ProcTypes, ChainInv, ChainTypeOK, Core
<1>2. ASSUME NEW w \in Task, UNCHANGED Others, UNCHANGED order,
             (w \in Call /\ (NonceReply(w) \/ NonceError(w))) \/ SignReply(w) \/ SignError(w) \/ SendError(w)
      PROVE  CoordInv' /\ RowStep
  <2>1. Core' /\ RowStep
    BY <1>2, NonceReplyStep, NonceErrorStep, SignReplyStep, SignErrorStep DEF Others
  <2> QED BY <1>2, <2>1 DEF Others, clockVars, ProcTypes, ChainInv, ChainTypeOK, Core
<1>3. ASSUME NEW w \in Task, SendReply(w), UNCHANGED Others
      PROVE  CoordInv' /\ RowStep
  <2>1. Core' /\ RowStep
    BY <1>3, SendReplyStep DEF Others
  <2>2. order' \in [Order -> OrderRow]
    <3>1. task[w].key \in Key /\ task[w].tx \in Tx
      BY <1>3 DEF SendReply, Core, TaskInv, PcShape
    <3> QED BY <1>3, <3>1, OrderRefStep DEF SendReply
  <2> QED BY <1>3, <2>1, <2>2 DEF Others, clockVars, ProcTypes, ChainInv, ChainTypeOK, Core
<1>4. ASSUME NEW p \in Proc, NEW k \in Key, UNCHANGED Others,
             \/ ScanPrepared(p, k) \/ ScanNoPayload(p, k) \/ ScanReceipt(p, k)
             \/ ScanResend(p, k) \/ ScanSilent(p, k)
      PROVE  CoordInv' /\ RowStep
  <2>1. Core' /\ RowStep
    BY <1>4, ScanKeyStep DEF Others
  <2>2. order' \in [Order -> OrderRow]
    <3>1. CASE ScanReceipt(p, k)
      <4>1. scan[p].snap[k].tx \in Tx
        BY <3>1 DEF ScanReceipt, HasBytes, Core, TaskInv, TaskTypes, Scan, Row
      <4> QED BY <3>1, <4>1, OrderRefStep DEF ScanReceipt
    <3>2. CASE UNCHANGED order
      BY <3>2
    <3> QED BY <1>4, <3>1, <3>2 DEF ScanPrepared, ScanNoPayload, ScanResend, ScanSilent
  <2> QED BY <1>4, <2>1, <2>2 DEF Others, clockVars, ProcTypes, ChainInv, ChainTypeOK, Core
<1>5. ASSUME NEW p \in Proc, ScanEnd(p) PROVE CoordInv' /\ RowStep
  <2>1. Core' /\ RowStep
    BY <1>5, ScanOver DEF ScanEnd, chainVars, dbVars
  <2> QED BY <1>5, <2>1 DEF ScanEnd, chainVars, dbVars, clockVars, ProcTypes, ChainInv, ChainTypeOK
<1>6. ASSUME NEW p \in Proc, ProcessStep(p) PROVE CoordInv' /\ RowStep
  <2>1. Core' /\ RowStep
    BY <1>6, StartGateStep, CrashKeeps DEF ProcessStep
  <2>2. ProcTypes'
    BY <1>6, ProcessTypes DEF ProcessStep, clockVars
  <2> QED BY <1>6, <2>1, <2>2 DEF ProcessStep, ChainInv, ChainTypeOK, Core
<1>7. ASSUME ClockStep PROVE CoordInv' /\ RowStep
  <2>1. CASE LeaseLapses /\ UNCHANGED <<chainVars, clockVars, taskVars>>
    <3>1. Core' /\ RowStep
      BY <2>1, LapseStep DEF chainVars, taskVars
    <3> QED BY <2>1, <3>1
        DEF LeaseLapses, chainVars, clockVars, taskVars, ProcTypes, ChainInv, ChainTypeOK
  <2>2. ASSUME NEW k \in Key, Expire(k) \/ Age(k), UNCHANGED <<chainVars, dbVars, taskVars>>
        PROVE  CoordInv' /\ RowStep
    <3>1. Core' /\ RowStep
      BY <2>2, ElsewhereStep DEF chainVars, dbVars, taskVars
    <3>2. ProcTypes'
      BY <2>2, ClockTypes DEF taskVars
    <3> QED BY <2>2, <3>1, <3>2 DEF chainVars, dbVars, ChainInv, ChainTypeOK
  <2> QED BY <1>7, <2>1, <2>2 DEF ClockStep
<1>8. ASSUME ChainStep, UNCHANGED <<dbVars, clockVars, taskVars>> PROVE CoordInv' /\ RowStep
  <2>1. Core' /\ RowStep
    BY <1>8, ChainKeeps DEF dbVars, taskVars
  <2>2. ChainInv'
    BY <1>8, <2>1, ChainInvStep DEF Core
  <2> QED BY <1>8, <2>1, <2>2 DEF dbVars, clockVars, taskVars, ProcTypes
<1>9. Call \subseteq Task
  BY DEF Task
<1>10. CallerStep => CoordInv' /\ RowStep
  BY <1>1 DEF CallerStep
<1>11. ASSUME NEW c \in Call, NonceStep(c) PROVE CoordInv' /\ RowStep
  BY <1>2, <1>9, <1>11 DEF NonceStep
<1>12. ASSUME NEW w \in Task, SignStep(w) \/ SendStep(w) PROVE CoordInv' /\ RowStep
  BY <1>2, <1>3, <1>12 DEF SignStep, SendStep
<1>13. ASSUME NEW p \in Proc, ScanStep(p) PROVE CoordInv' /\ RowStep
  BY <1>4, <1>13 DEF ScanStep
<1> QED BY <1>5, <1>6, <1>7, <1>8, <1>10, <1>11, <1>12, <1>13 DEF Next

LEMMA StutterInv ==
  ASSUME CoordInv, UNCHANGED coordVars PROVE CoordInv' /\ RowStep
<1>1. UNCHANGED <<wire, sent, pool, receipt, final, acct, row, order, lease, expired, aged,
                  queue, task, scan, phase, crashes, gates>>
  BY DEF coordVars, chainVars, dbVars, clockVars, taskVars
<1>2. Core' /\ RowStep
  BY <1>1, ElsewhereStep DEF CoordInv
<1> QED BY <1>1, <1>2 DEF CoordInv, ProcTypes, ChainInv, ChainTypeOK

LEMMA InvariantHolds == Spec => []CoordInv
<1>1. CoordInv /\ [Next]_coordVars => CoordInv'
  BY NextInv, StutterInv
<1> QED BY InitInv, <1>1, PTL DEF Spec

-----------------------------------------------------------------------------
(* What the rows say of the chain.                                          *)

\* A row comes to be confirmed or reverted only as the receipt of its
\* transaction says.
SettledRows ==
  \A k \in Key : row'[k].state \in {"confirmed", "reverted"} =>
    \/ row'[k].state = row[k].state
    \/ Mined(row[k].tx) /\ row'[k].state = ReceiptState(row[k].tx)

LEMMA PutState ==
  ASSUME Core, NEW k \in Key, NEW s, SetState(k, s), s \notin {"confirmed", "reverted"}
  PROVE  SettledRows
BY DEF Core, Row, SetState, SettledRows

LEMMA PutRow ==
  ASSUME Core, NEW k \in Key, NEW r, row' = [row EXCEPT ![k] = r],
         r.state \notin {"confirmed", "reverted"} \/ r = row[k]
  PROVE  SettledRows
BY DEF Core, SettledRows

LEMMA CallerSettles ==
  ASSUME Core, NEW p \in Proc, NEW c \in Call,
         \/ \E k \in Key : Submit(p, c, k)
         \/ LeaseRefused(p, c) \/ AlreadyBroadcast(p, c) \/ AlreadySettled(p, c)
         \/ Resend(p, c) \/ SignAgain(p, c) \/ WalletBlocked(p, c) \/ AskNonce(p, c)
  PROVE  SettledRows
<1>1. CASE UNCHANGED row
  BY <1>1 DEF SettledRows
<1>2. CASE Turn(p, c) /\ GiveUp(c, task[c].key)
  BY <1>2, TurnKey, PutState DEF GiveUp
<1> QED BY <1>1, <1>2
        DEF Submit, LeaseRefused, AlreadyBroadcast, AlreadySettled, Resend, SignAgain,
            WalletBlocked, AskNonce

LEMMA TaskSettles ==
  ASSUME Core, NEW w \in Task,
         NonceReply(w) \/ NonceError(w) \/ SignReply(w) \/ SignError(w) \/ SendReply(w) \/ SendError(w)
  PROVE  SettledRows
<1>1. CASE UNCHANGED row
  BY <1>1 DEF SettledRows
<1>2. PICK k : k = task[w].key
  OBVIOUS
<1>3. CASE NonceReply(w)
  <2>1. k \in Key
    BY <1>2, <1>3 DEF NonceReply, Core, TaskInv, PcShape
  <2>2. PICK n \in Nonce, s \in {"prepared", "unknown"} :
          row' = [row EXCEPT ![k] = [state |-> s, nonce |-> n, tx |-> NoTx, payload |-> FALSE]]
    BY <1>2, <1>3 DEF NonceReply
  <2> QED BY <2>1, <2>2, PutRow
<1>4. CASE SignReply(w)
  <2>1. k \in Key
    BY <1>2, <1>4 DEF SignReply, Core, TaskInv, PcShape
  <2>2. PICK s \in Sig, state \in {"signed", "unknown"} :
          row' = [row EXCEPT ![k] = Stored(k, s, state)]
    BY <1>2, <1>4 DEF SignReply
  <2>3. Stored(k, s, state).state \notin {"confirmed", "reverted"} \/ Stored(k, s, state) = row[k]
    BY DEF Stored
  <2> QED BY <2>1, <2>2, <2>3, PutRow
<1>5. CASE SendReply(w)
  <2>1. k \in Key
    BY <1>2, <1>5 DEF SendReply, Core, TaskInv, PcShape
  <2> QED BY <1>2, <1>5, <2>1, PutState DEF SendReply
<1> QED BY <1>1, <1>3, <1>4, <1>5 DEF NonceError, SignError, SendError

LEMMA ScanSettles ==
  ASSUME Core, NEW p \in Proc, NEW k \in Key,
         \/ ScanPrepared(p, k) \/ ScanNoPayload(p, k) \/ ScanReceipt(p, k)
         \/ ScanResend(p, k) \/ ScanSilent(p, k)
  PROVE  SettledRows
<1>1. CASE UNCHANGED row
  BY <1>1 DEF SettledRows
<1>2. CASE SetState(k, "unknown")
  BY <1>2, PutState
<1>3. CASE ScanReceipt(p, k)
  <2>1. PICK t : t = scan[p].snap[k].tx
    OBVIOUS
  <2>2. Mined(t) /\ SetState(k, ReceiptState(t)) /\ t # NoTx
    BY <1>3, <2>1 DEF ScanReceipt, Mined
  <2>3. row[k].tx = t
    BY <2>1, <2>2 DEF Core, TaskInv, SnapShape
  <2>4. row'[k].state = ReceiptState(t) /\ \A j \in Key : j # k => row'[j] = row[j]
    BY <2>2 DEF SetState, Core, Row
  <2> QED BY <2>2, <2>3, <2>4 DEF SettledRows
<1> QED BY <1>1, <1>2, <1>3 DEF ScanPrepared, ScanNoPayload, ScanResend, ScanSilent, GiveUp

\* A receipt, once there, stays.
ReceiptsStay == \A t \in Tx : receipt[t] # "none" => receipt'[t] = receipt[t]

LEMMA NextSettles ==
  ASSUME CoordInv, Next PROVE SettledRows /\ ReceiptsStay
<1>0. Core /\ ChainInv /\ Call \subseteq Task
  BY DEF CoordInv, Task
<1>1. CASE CallerStep
  BY <1>0, <1>1, CallerSettles DEF CallerStep, Others, ReceiptsStay
<1>2. ASSUME NEW c \in Call, NonceStep(c) PROVE SettledRows /\ ReceiptsStay
  BY <1>0, <1>2, TaskSettles DEF NonceStep, Others, ReceiptsStay
<1>3. ASSUME NEW w \in Task, SignStep(w) \/ SendStep(w) PROVE SettledRows /\ ReceiptsStay
  BY <1>0, <1>3, TaskSettles DEF SignStep, SendStep, Others, ReceiptsStay
<1>4. ASSUME NEW p \in Proc, ScanStep(p) PROVE SettledRows /\ ReceiptsStay
  BY <1>0, <1>4, ScanSettles DEF ScanStep, Others, ReceiptsStay
<1>5. ASSUME NEW p \in Proc, ScanEnd(p) \/ ProcessStep(p) PROVE UNCHANGED <<row, receipt>>
  BY <1>5 DEF ScanEnd, ProcessStep, Start, Crash, Gate, BeginScan, chainVars, dbVars
<1>6. ClockStep => UNCHANGED <<row, receipt>>
  BY DEF ClockStep, LeaseLapses, chainVars, dbVars
<1>7. CASE ChainStep /\ UNCHANGED <<dbVars, clockVars, taskVars>>
  <2>1. \A t \in pool : t.nonce = acct => t \in Tx /\ receipt[t] = "none"
    BY <1>0 DEF ChainInv, ChainTypeOK
  <2>2. ReceiptsStay
    BY <1>0, <1>7, <2>1 DEF ChainStep, Arrive, Evict, Mine, ChainInv, ChainTypeOK, ReceiptsStay
  <2> QED BY <1>7, <2>2 DEF dbVars, SettledRows
<1>8. UNCHANGED <<row, receipt>> => SettledRows /\ ReceiptsStay
  BY DEF SettledRows, ReceiptsStay
<1> QED BY <1>1, <1>2, <1>3, <1>4, <1>5, <1>6, <1>7, <1>8 DEF Next

LEMMA NextTerminal ==
  ASSUME CoordInv, TerminalFromReceipt, [Next]_coordVars PROVE TerminalFromReceipt'
<1>1. SettledRows /\ ReceiptsStay /\ RowStep /\ row \in [Key -> Row]
  <2>1. CASE UNCHANGED coordVars
    BY <2>1, StutterInv
       DEF coordVars, chainVars, dbVars, SettledRows, ReceiptsStay, CoordInv, Core
  <2> QED BY <2>1, NextSettles, NextInv DEF CoordInv, Core
<1> SUFFICES ASSUME NEW k \in Key, row'[k].state \in {"confirmed", "reverted"}
             PROVE  /\ row'[k].tx # NoTx /\ receipt'[row'[k].tx] # "none"
                    /\ row'[k].state = "reverted" <=> receipt'[row'[k].tx] = "reverted"
  BY DEF TerminalFromReceipt, Mined
<1>2. /\ Mined(row[k].tx)
      /\ row'[k].state = "reverted" <=> receipt[row[k].tx] = "reverted"
  BY <1>1 DEF SettledRows, ReceiptState, TerminalFromReceipt
<1>3. row[k].tx \in Tx /\ row[k].tx # NoTx /\ receipt[row[k].tx] # "none"
  BY <1>1, <1>2 DEF Mined, Row
<1>4. row'[k].tx = row[k].tx /\ receipt'[row[k].tx] = receipt[row[k].tx]
  BY <1>1, <1>3 DEF RowStep, ReceiptsStay
<1> QED BY <1>2, <1>3, <1>4 DEF Mined

\* Every variable of the coordinator keeps its type.
THEOREM TypeCorrect == Spec => []TypeOK
<1>1. CoordInv => TypeOK
  BY CoordInvType DEF TypeOK
<1> QED BY InvariantHolds, <1>1, PTL

\* Nothing is on the wire or at an endpoint that its row does not durably hold,
\* whatever the callers submit, however recover() and submit() interleave, with
\* any number of server processes, lapsed leases and crashes.
THEOREM DurableFirst == Spec => []DurableBeforeSent
<1>1. CoordInv => DurableBeforeSent
  BY DEF CoordInv, Core
<1> QED BY InvariantHolds, <1>1, PTL

\* The signed bytes of a row are never replaced by others.
THEOREM BytesStay == Spec => BytesNeverReplaced
<1> DEFINE Kept == \A k \in Key : row[k].tx # NoTx => row'[k].tx = row[k].tx
<1>1. CoordInv /\ [Next]_coordVars => [Kept]_coordVars
  BY NextInv DEF RowStep
<1>2. Spec => [][Kept]_coordVars
  BY InvariantHolds, <1>1, PTL DEF Spec
<1> QED BY <1>2 DEF BytesNeverReplaced

\* A row says confirmed or reverted only after the chain did, for any number of
\* processes that scan, sign and resend the same rows.
THEOREM TerminalTheorem == Spec => []TerminalFromReceipt
<1>1. Init => TerminalFromReceipt
  BY DEF Init, CoordInit, NoRow, TerminalFromReceipt
<1>2. CoordInv /\ TerminalFromReceipt /\ [Next]_coordVars => TerminalFromReceipt'
  BY NextTerminal
<1> QED BY InvariantHolds, <1>1, <1>2, PTL DEF Spec
=============================================================================
