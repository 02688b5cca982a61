------------------------------ MODULE Reminders ------------------------------
(***************************************************************************)
(* Mails about a membership (billing/reminders.ts, the two queues of       *)
(* subscriptions.ts and stripeProvider.ts): one row per kind and period,   *)
(* an hourly pass that sends what is due, and Resend, which drops a second *)
(* mail with the same idempotency key.                                     *)
(*                                                                         *)
(* A pass takes its rows one by one; the request is its only await.  Rows  *)
(* have nothing to do with each other: this is one, of either kind.  That  *)
(* the account has no address is left out.                                 *)
(***************************************************************************)
EXTENDS Naturals

CONSTANTS MaxTry,        \* attempts up to which a failed mail is taken up again
          MaxPass,       \* bound: passes that wait for an answer at once
          MaxMailerDeath \* bound: crashes

ASSUME ReminderAssumption == {MaxTry, MaxPass, MaxMailerDeath} \subseteq Nat

VARIABLES renewing,      \* the subscription is active and will be extended
          failing,       \* its last invoice was not paid
          about,         \* of the notification
          notice,        \* its billing_notifications row
          mails,         \* requests to Resend without an answer
          delivered,     \* Resend has seen its idempotency key
          mailerDeaths

reminderVars == <<renewing, failing, about, notice, mails, delivered, mailerDeaths>>

Mail == {"payment_failed", "renewal_5d"}
Notice == [state : {"none", "pending", "sending", "sent", "failed", "blocked"},
           tries : Nat, old : BOOLEAN]

ReminderTypeOK ==
  /\ renewing \in BOOLEAN /\ failing \in BOOLEAN
  /\ about \in Mail
  /\ notice \in Notice
  /\ mails \in 0 .. MaxPass
  /\ delivered \in BOOLEAN
  /\ mailerDeaths \in 0 .. MaxMailerDeath

ReminderInit ==
  /\ renewing = TRUE /\ failing = FALSE
  /\ about \in Mail
  /\ notice = [state |-> "none", tries |-> 0, old |-> FALSE]
  /\ mails = 0
  /\ delivered = FALSE
  /\ mailerDeaths = 0
-----------------------------------------------------------------------------
(* Queueing.                                                                *)

Queue == notice' = [state |-> "pending", tries |-> 0, old |-> FALSE]

\* The owner cancels, or takes the cancellation back.
Cancels ==
  /\ renewing' = ~renewing
  /\ UNCHANGED <<failing, about, notice, mails, delivered, mailerDeaths>>

\* queueRenewalReminders, within five days of the period's end; one that was
\* called off comes back, with the attempts it has had.
Remind ==
  /\ renewing /\ about = "renewal_5d"
  /\ \/ notice.state = "none" /\ Queue
     \/ /\ notice.state = "blocked"
        /\ notice' = [notice EXCEPT !.state = "pending", !.old = FALSE]
  /\ UNCHANGED <<renewing, failing, about, mails, delivered, mailerDeaths>>

\* queuePaymentFailure: once per period.
PaymentFails ==
  /\ failing' = TRUE
  /\ IF about = "payment_failed" /\ notice.state = "none" THEN Queue
     ELSE UNCHANGED notice
  /\ UNCHANGED <<renewing, about, mails, delivered, mailerDeaths>>

\* clearRecoveredPaymentFailure.
PaymentRecovers ==
  /\ failing /\ failing' = FALSE
  /\ IF about = "payment_failed" /\ notice.state \in {"pending", "failed"}
     THEN notice' = [notice EXCEPT !.state = "blocked"] ELSE UNCHANGED notice
  /\ UNCHANGED <<renewing, about, mails, delivered, mailerDeaths>>
-----------------------------------------------------------------------------
(* The pass.                                                                *)

\* Mutant of Due: a send cut off by a crash is not taken up again.
DueAgain(r) == \/ r.state = "pending"
               \/ r.state = "failed" /\ r.tries < MaxTry /\ r.old

\* processBillingReminders: pending, a stale send, or a failure retried.
Due(r) == \/ r.state = "pending"
          \/ r.state = "sending" /\ r.old
          \/ r.state = "failed" /\ r.tries < MaxTry /\ r.old

\* A renewal that no longer holds is called off.
CallOff ==
  /\ about = "renewal_5d" /\ ~renewing /\ Due(notice)
  /\ notice' = [notice EXCEPT !.state = "blocked"]
  /\ UNCHANGED <<renewing, failing, about, mails, delivered, mailerDeaths>>

\* The claim, up to the request.
SendMail ==
  /\ Due(notice) /\ (about = "renewal_5d" => renewing)
  /\ mails < MaxPass /\ mails' = mails + 1
  /\ notice' = [state |-> "sending", tries |-> notice.tries + 1, old |-> FALSE]
  /\ UNCHANGED <<renewing, failing, about, delivered, mailerDeaths>>

MailAnswered(state) ==
  /\ mails > 0 /\ mails' = mails - 1
  /\ notice' = [notice EXCEPT !.state = state, !.old = FALSE]
  /\ UNCHANGED <<renewing, failing, about, mailerDeaths>>

\* The answer is written whatever the row says by then.
Accepted == MailAnswered("sent") /\ delivered' = TRUE

\* The request failed, or its answer was lost.
NotAccepted == MailAnswered("failed") /\ delivered' \in {delivered, TRUE}

\* A quarter of an hour for a send, an hour for a failure.
NoticeAges ==
  /\ notice.state \in {"sending", "failed"} /\ ~notice.old
  /\ notice' = [notice EXCEPT !.old = TRUE]
  /\ UNCHANGED <<renewing, failing, about, mails, delivered, mailerDeaths>>

MailerDies ==
  /\ mailerDeaths < MaxMailerDeath /\ mailerDeaths' = mailerDeaths + 1
  /\ mails' = 0
  /\ delivered' \in {delivered, delivered \/ mails > 0}
  /\ UNCHANGED <<renewing, failing, about, notice>>

ReminderNext ==
  \/ Cancels \/ Remind \/ PaymentFails \/ PaymentRecovers \/ CallOff \/ SendMail
  \/ Accepted \/ NotAccepted \/ NoticeAges \/ MailerDies

\* The pass is an hourly cron, requests end, and time goes by.
ReminderFairness ==
  /\ WF_reminderVars(SendMail \/ CallOff)
  /\ WF_reminderVars(Accepted \/ NotAccepted)
  /\ WF_reminderVars(NoticeAges)

ReminderSpec == ReminderInit /\ [][ReminderNext]_reminderVars /\ ReminderFairness
-----------------------------------------------------------------------------
(* Properties.                                                              *)

\* No mail is stuck: what was queued is sent, called off, or has failed as
\* often as it is tried.
MailEnds ==
  notice.state \in {"pending", "sending"} ~>
    \/ notice.state \in {"sent", "blocked"}
    \/ notice.state = "failed" /\ notice.tries >= MaxTry
=============================================================================
