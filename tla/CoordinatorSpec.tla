--------------------------- MODULE CoordinatorSpec ---------------------------
(***************************************************************************)
(* The coordinator on its own: callers that submit any key at any time,    *)
(* the same key again included (the idempotent resubmission its first      *)
(* lines are for), beside recover() at boot and at run time, crashes, and  *)
(* the chain.                                                              *)
(***************************************************************************)
EXTENDS Coordinator

Others == <<sent, pool, receipt, final, acct, clockVars, phase, crashes, gates>>

\* The order rows exist before a transaction row may name them.
Init == CoordInit /\ order = [o \in Order |-> [state |-> "submitting", ref |-> NoTx]]

CallerStep ==
  /\ \E p \in Proc, c \in Call :
       \/ \E k \in Key : Submit(p, c, k)
       \/ LeaseRefused(p, c)
       \/ AlreadyBroadcast(p, c)
       \/ AlreadySettled(p, c)
       \/ Resend(p, c)
       \/ SignAgain(p, c)
       \/ WalletBlocked(p, c)
       \/ AskNonce(p, c)
  /\ UNCHANGED <<order, Others>>

NonceStep(c) == (NonceReply(c) \/ NonceError(c)) /\ UNCHANGED <<order, Others>>
SignStep(w)  == (SignReply(w) \/ SignError(w)) /\ UNCHANGED <<order, Others>>
SendStep(w)  ==
  \/ SendReply(w) /\ UNCHANGED Others
  \/ SendError(w) /\ UNCHANGED <<order, Others>>

ScanStep(p) ==
  /\ \E k \in Key :
       \/ ScanPrepared(p, k)
       \/ ScanNoPayload(p, k)
       \/ ScanReceipt(p, k)
       \/ ScanResend(p, k)
       \/ ScanSilent(p, k)
  /\ UNCHANGED Others

\* recover() returns; a boot scan is followed by the start of trading.
ScanEnd(p) ==
  /\ task[p].pc = "scan"
  /\ scan[p].todo = {}
  /\ task' = [task EXCEPT ![p] = Idle]
  /\ scan' = [scan EXCEPT ![p] = NoScan]
  /\ phase' = [phase EXCEPT ![p] = "up"]
  /\ UNCHANGED <<chainVars, dbVars, clockVars, queue, crashes, gates>>

ClockStep ==
  \/ LeaseLapses /\ UNCHANGED <<chainVars, clockVars, taskVars>>
  \/ \E k \in Key : (Expire(k) \/ Age(k)) /\ UNCHANGED <<chainVars, dbVars, taskVars>>

ProcessStep(p) ==
  /\ Start(p) \/ Crash(p) \/ Gate(p)
  /\ UNCHANGED <<sent, pool, receipt, final, acct, clockVars, order>>

Next ==
  \/ CallerStep
  \/ \E c \in Call : NonceStep(c)
  \/ \E w \in Task : SignStep(w) \/ SendStep(w)
  \/ \E p \in Proc : ScanStep(p) \/ ScanEnd(p) \/ ProcessStep(p)
  \/ ClockStep
  \/ ChainStep /\ UNCHANGED <<dbVars, clockVars, taskVars>>

Spec == Init /\ [][Next]_coordVars
-----------------------------------------------------------------------------
TypeOK == CoordTypeOK

\* Signed bytes, once stored, are never replaced: recovery can only rebroadcast
\* the same transaction.
BytesNeverReplaced ==
  [][\A k \in Key : row[k].tx # NoTx => row'[k].tx = row[k].tx]_coordVars

\* A row says confirmed or reverted only after the chain did.
TerminalFromReceipt ==
  \A k \in Key :
    /\ row[k].state = "confirmed" => Mined(row[k].tx) /\ receipt[row[k].tx] # "reverted"
    /\ row[k].state = "reverted" => Mined(row[k].tx) /\ receipt[row[k].tx] = "reverted"
=============================================================================
