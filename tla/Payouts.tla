-------------------------------- MODULE Payouts --------------------------------
(***************************************************************************)
(* The treasury manager (manager/managerAgent.ts, payoutMath.ts,           *)
(* payoutQueue.ts): a run closes an epoch over the house bots' realised    *)
(* profit, shares it among the holders, has it narrated, and pays it out   *)
(* at once when it is small and clean, after an admin's approval when not. *)
(*                                                                         *)
(* An action is the code between two awaits.  Runs may overlap: the cron   *)
(* and the admin's request call the same function.  Time counts days, one  *)
(* trade a day.  Whether a code rule or the narrator flags an epoch is     *)
(* free.  Nothing here alters a stored item, so the comparison that        *)
(* approveEpoch makes always holds.                                        *)
(***************************************************************************)
EXTENDS Integers, SequencesExt

CONSTANTS Holder,
          Balances,    \* the snapshots of balances there may be
          Threshold,   \* HOLDER_THRESHOLD
          AutoCap,     \* autoApproveCapUsd
          Pnl,         \* what a trade may realise
          PayRun,      \* requests and cron calls that may overlap
          MaxEpoch,    \* bound: epochs
          MaxDay       \* bound: days

ASSUME PayoutAssumption ==
  /\ Balances \subseteq [Holder -> Nat] /\ IsFiniteSet(Holder)
  /\ Pnl \subseteq Int
  /\ {Threshold, AutoCap, MaxEpoch, MaxDay} \subseteq Nat

VARIABLES pnl,         \* what the trade of each day realised
          epoch,       \* payout_epochs
          item,        \* payout_items, by epoch and holder
          sends,       \* calls of the signer, by epoch and holder (ghost)
          payRun       \* where each request stands

payoutVars == <<pnl, epoch, item, sends, payRun>>

Epochs == 1 .. MaxEpoch
EpochRow == [status : {"none", "computed", "needs_review", "distributing", "done"},
             from : Nat, to : Nat, profit : Nat]
ItemRow == [status : {"none", "queued", "signed", "failed", "sent"}, amount : Nat]
IdleRun == [pc |-> "idle", of |-> [from |-> 0, to |-> 0, profit |-> 0], epoch |-> 0,
            left |-> <<>>, try |-> 0]
RunRow == [pc : {"idle", "holders", "narrate", "send", "backoff"},
           of : [from : Nat, to : Nat, profit : Nat], epoch : 0 .. MaxEpoch,
           left : Seq(Holder), try : 0 .. 3]

PayoutTypeOK ==
  /\ pnl \in Seq(Pnl) /\ Len(pnl) <= MaxDay
  /\ epoch \in [Epochs -> EpochRow]
  /\ item \in [Epochs -> [Holder -> ItemRow]]
  /\ sends \in [Epochs -> [Holder -> Nat]]
  /\ payRun \in [PayRun -> RunRow]

PayoutInit ==
  /\ pnl = <<>>
  /\ epoch = [e \in Epochs |-> [status |-> "none", from |-> 0, to |-> 0, profit |-> 0]]
  /\ item = [e \in Epochs |-> [h \in Holder |-> [status |-> "none", amount |-> 0]]]
  /\ sends = [e \in Epochs |-> [h \in Holder |-> 0]]
  /\ payRun = [r \in PayRun |-> IdleRun]
-----------------------------------------------------------------------------
(* The arithmetic.                                                          *)

\* computeEpochProfitMicro: nobody shares a loss.
ProfitOf(from, to) ==
  LET sum == SumFunctionOnSet(pnl, from + 1 .. to)
  IN  IF sum > 0 THEN sum ELSE 0

Eligible(balance) == {h \in Holder : balance[h] >= Threshold}
Supply(balance) == SumFunctionOnSet(balance, Eligible(balance))

\* Mutant of Share: rounded up.
ShareUp(profit, balance, h) ==
  (profit * balance[h] + Supply(balance) - 1) \div Supply(balance)

\* computePayouts: rounded down, the dust stays with the platform.
Share(profit, balance, h) == (profit * balance[h]) \div Supply(balance)

Items(profit, balance) ==
  [h \in Holder |->
     IF profit > 0 /\ h \in Eligible(balance) /\ Supply(balance) > 0
     THEN [status |-> "queued", amount |-> Share(profit, balance, h)]
     ELSE [status |-> "none", amount |-> 0]]
-----------------------------------------------------------------------------
(* Closing an epoch.                                                        *)

Trade ==
  /\ Len(pnl) < MaxDay
  /\ \E n \in Pnl : pnl' = Append(pnl, n)
  /\ UNCHANGED <<epoch, item, sends, payRun>>

Written == {e \in Epochs : epoch[e].status # "none"}

\* From the end of the last period, or a day back.
PeriodFrom ==
  IF Written # {} THEN Max({epoch[e].to : e \in Written})
  ELSE IF pnl = <<>> THEN 0 ELSE Len(pnl) - 1

\* runEpoch, up to the wait for the holders' balances.
CloseEpoch(r) ==
  /\ payRun[r].pc = "idle"
  /\ payRun' = [payRun EXCEPT ![r] =
       [IdleRun EXCEPT !.pc = "holders",
          !.of = [from |-> PeriodFrom, to |-> Len(pnl),
                  profit |-> ProfitOf(PeriodFrom, Len(pnl))]]]
  /\ UNCHANGED <<pnl, epoch, item, sends>>

\* The epoch and its items are written together; the narrator is asked.
ComputeEpoch(r) ==
  /\ payRun[r].pc = "holders"
  /\ Cardinality(Written) < MaxEpoch
  /\ LET e == Cardinality(Written) + 1
         of == payRun[r].of
     IN  /\ epoch' = [epoch EXCEPT ![e] = [status |-> "computed", from |-> of.from,
                        to |-> of.to, profit |-> of.profit]]
         /\ \E balance \in Balances :
              item' = [item EXCEPT ![e] = Items(of.profit, balance)]
         /\ payRun' = [payRun EXCEPT ![r].pc = "narrate", ![r].epoch = e]
  /\ UNCHANGED <<pnl, sends>>
-----------------------------------------------------------------------------
(* Paying it out.                                                           *)

\* Over items as they then are, the next holder of left is signed for and the
\* signer is called; with none left the epoch gets its last status.
PayOn(r, e, items, left) ==
  IF left # <<>>
  THEN /\ epoch' = [epoch EXCEPT ![e].status = "distributing"]
       /\ item' = [item EXCEPT ![e] = [items EXCEPT ![Head(left)].status = "signed"]]
       /\ sends' = [sends EXCEPT ![e][Head(left)] = @ + 1]
       /\ payRun' = [payRun EXCEPT ![r] =
            [IdleRun EXCEPT !.pc = "send", !.epoch = e, !.left = left, !.try = 1]]
  ELSE /\ epoch' = [epoch EXCEPT ![e].status =
            IF \A h \in Holder : items[h].status \in {"none", "sent"}
            THEN "done" ELSE "distributing"]
       /\ item' = [item EXCEPT ![e] = items]
       /\ payRun' = [payRun EXCEPT ![r] = IdleRun]
       /\ UNCHANGED sends

\* distributeEpoch takes what has no signature yet.
Distribute(r, e) ==
  PayOn(r, e, item[e],
        SetToSeq({h \in Holder : item[e][h].status \in {"queued", "failed"}}))

\* The narration is in, or has failed (which flags the epoch).
Narrated(r) ==
  /\ payRun[r].pc = "narrate"
  /\ LET e == payRun[r].epoch IN
     \/ epoch[e].profit <= AutoCap /\ Distribute(r, e)
     \/ /\ epoch' = [epoch EXCEPT ![e].status = "needs_review"]
        /\ payRun' = [payRun EXCEPT ![r] = IdleRun]
        /\ UNCHANGED <<item, sends>>
  /\ UNCHANGED pnl

\* Mutant of Approvable: an epoch that was not paid in full, too.
ApproveAgain(e) == epoch[e].status \in {"needs_review", "distributing"}

Approvable(e) == epoch[e].status = "needs_review"

\* approveEpoch.
ApproveEpoch(r, e) ==
  /\ payRun[r].pc = "idle"
  /\ Approvable(e)
  /\ Distribute(r, e)
  /\ UNCHANGED pnl

PaidItem(r, status) ==
  [item[payRun[r].epoch] EXCEPT ![Head(payRun[r].left)].status = status]

Sent(r) ==
  /\ payRun[r].pc = "send"
  /\ PayOn(r, payRun[r].epoch, PaidItem(r, "sent"), Tail(payRun[r].left))
  /\ UNCHANGED pnl

\* sendItem: twice more after a pause, then the next holder.
SendThrows(r) ==
  /\ payRun[r].pc = "send"
  /\ IF payRun[r].try < 3
     THEN /\ item' = [item EXCEPT ![payRun[r].epoch] = PaidItem(r, "failed")]
          /\ payRun' = [payRun EXCEPT ![r].pc = "backoff"]
          /\ UNCHANGED <<epoch, sends>>
     ELSE PayOn(r, payRun[r].epoch, PaidItem(r, "failed"), Tail(payRun[r].left))
  /\ UNCHANGED pnl

SendAgain(r) ==
  /\ payRun[r].pc = "backoff"
  /\ item' = [item EXCEPT ![payRun[r].epoch] = PaidItem(r, "signed")]
  /\ sends' = [sends EXCEPT ![payRun[r].epoch][Head(payRun[r].left)] = @ + 1]
  /\ payRun' = [payRun EXCEPT ![r].pc = "send", ![r].try = @ + 1]
  /\ UNCHANGED <<pnl, epoch>>

\* The process dies; nothing takes up an epoch that was cut off.
PayerDies ==
  /\ \E r \in PayRun : payRun[r].pc # "idle"
  /\ payRun' = [r \in PayRun |-> IdleRun]
  /\ UNCHANGED <<pnl, epoch, item, sends>>

PayoutNext ==
  \/ Trade \/ PayerDies
  \/ \E r \in PayRun :
       \/ CloseEpoch(r) \/ ComputeEpoch(r) \/ Narrated(r)
       \/ Sent(r) \/ SendThrows(r) \/ SendAgain(r)
       \/ \E e \in Epochs : ApproveEpoch(r, e)

PayoutSpec == PayoutInit /\ [][PayoutNext]_payoutVars
-----------------------------------------------------------------------------
(* Properties.                                                              *)

\* Nobody is paid twice: once a signature is stored the signer is not called
\* for that item again, and an item is tried three times in all.
PaidOnce ==
  [][\A e \in Epochs, h \in Holder :
       /\ item[e][h].status = "sent" => sends'[e][h] = sends[e][h]
       /\ sends'[e][h] <= 3]_payoutVars

\* An epoch never hands out more than its profit.
WithinProfit ==
  \A e \in Epochs :
    SumFunctionOnSet([h \in Holder |-> item[e][h].amount], Holder) <= epoch[e].profit
=============================================================================
