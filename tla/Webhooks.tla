------------------------------- MODULE Webhooks -------------------------------
(***************************************************************************)
(* Membership paid through Stripe (billing/stripeProvider.ts, the event    *)
(* journal of billing/subscriptions.ts, the webhook of                     *)
(* api/routes/billing.ts).  The mails about it are Reminders.              *)
(*                                                                         *)
(* Stripe numbers its events in the order it made them, delivers them in   *)
(* any order and again until one is acknowledged.  One subscription, one   *)
(* invoice, one period.  Identities, prices and amounts are left out: an   *)
(* event that does not match the product contract is acknowledged or       *)
(* failed without a write.                                                 *)
(***************************************************************************)
EXTENDS Naturals

CONSTANTS Handler,        \* webhook requests that wait for Stripe's answer
          MaxEvent,       \* bound: events Stripe makes
          MaxCut          \* bound: crashes

ASSUME WebhookAssumption == {MaxEvent, MaxCut} \subseteq Nat

VARIABLES stripe,         \* what Stripe made of its objects (external)
          journal,        \* billing_events
          overdue,        \* events whose claim is older than the lease
          member,         \* the subscriptions row
          payment,        \* the billing_payments row of the invoice
          lookup,         \* refunds whose invoice is being asked for
          cuts

webhookVars ==
  <<stripe, journal, overdue, member, payment, lookup, cuts>>

Event == 1 .. MaxEvent
Subscribed == {"active", "past_due", "canceled"}
Invoice == {"paid", "failed", "void"}

WebhookTypeOK ==
  /\ stripe \in [Event -> Subscribed \cup Invoice \cup {"refund", "none"}]
  /\ journal \in [Event -> {"none", "processing", "processed", "failed"}]
  /\ overdue \in SUBSET Event
  /\ member \in [status : Subscribed \cup {"none"}, at : 0 .. MaxEvent]
  /\ payment \in [status : Invoice \cup {"none", "refunded"}, at : 0 .. MaxEvent]
  /\ lookup \in [Handler -> 0 .. MaxEvent]
  /\ cuts \in 0 .. MaxCut

WebhookInit ==
  /\ stripe = [n \in Event |-> "none"]
  /\ journal = [n \in Event |-> "none"]
  /\ overdue = {}
  /\ member = [status |-> "none", at |-> 0]
  /\ payment = [status |-> "none", at |-> 0]
  /\ lookup = [h \in Handler |-> 0]
  /\ cuts = 0
-----------------------------------------------------------------------------
(* Stripe.                                                                  *)

Made == {n \in Event : stripe[n] # "none"}
MadeKinds == {stripe[n] : n \in Made}

\* A subscription comes first; a refund follows its payment.
StripeMakes(n, what) ==
  /\ stripe[n] = "none" /\ \A m \in Event : m < n => stripe[m] # "none"
  /\ n = 1 => what \in Subscribed
  /\ what = "refund" => "paid" \in MadeKinds /\ "refund" \notin MadeKinds
  /\ what \in Invoice => MadeKinds \cap {"paid", "void", what} = {}
  /\ stripe' = [stripe EXCEPT ![n] = what]
  /\ UNCHANGED <<journal, overdue, member, payment, lookup, cuts>>
-----------------------------------------------------------------------------
(* The event journal.                                                       *)

\* Mutant of Claimable: a claim whose handler died is never taken over.
ClaimableOnce(n) == stripe[n] # "none" /\ journal[n] \in {"none", "failed"}

\* beginBillingEvent; a claim in progress is refused until its lease is over.
Claimable(n) ==
  /\ stripe[n] # "none"
  /\ \/ journal[n] \in {"none", "failed"}
     \/ journal[n] = "processing" /\ n \in overdue

Journal(n, state) ==
  /\ journal' = [journal EXCEPT ![n] = state]
  /\ overdue' = overdue \ {n}

LeaseEnds(n) ==
  /\ journal[n] = "processing" /\ n \notin overdue
  /\ overdue' = overdue \cup {n}
  /\ UNCHANGED <<stripe, journal, member, payment, lookup, cuts>>
-----------------------------------------------------------------------------
(* Applying an event.                                                       *)

\* Mutant of Newer: the last one delivered wins.
NewerDelivered(n, row) == TRUE

\* The WHERE of both upserts, and recordChargeRefund's early return.
Newer(n, row) == n >= row.at

RowWritten(n, row, status) ==
  IF Newer(n, row) THEN [status |-> status, at |-> n] ELSE row

\* syncSubscription.
Sync(n) ==
  /\ stripe[n] \in Subscribed
  /\ member' = RowWritten(n, member, stripe[n])
  /\ UNCHANGED payment

\* recordInvoice; the notice of a failed payment is Reminders'.
RecordPayment(n) ==
  /\ stripe[n] \in Invoice /\ member.status # "none"
  /\ payment' = RowWritten(n, payment, stripe[n])
  /\ UNCHANGED member

\* The transaction of a webhook, with what the process lived to write of it.
Apply(n) ==
  /\ Claimable(n) /\ stripe[n] # "refund"
  /\ Sync(n) \/ RecordPayment(n)
  /\ \/ Journal(n, "processed") /\ UNCHANGED cuts
     \/ Journal(n, "processing") /\ cuts < MaxCut /\ cuts' = cuts + 1
  /\ UNCHANGED <<stripe, lookup>>

\* Or it died before: the claim alone is stored.
BeginOnly(n) ==
  /\ Claimable(n) /\ Journal(n, "processing")
  /\ cuts < MaxCut /\ cuts' = cuts + 1
  /\ UNCHANGED <<stripe, member, payment, lookup>>

\* An invoice before its subscription: "arrived before ... was recorded".
ApplyFails(n) ==
  /\ Claimable(n) /\ stripe[n] \in Invoice /\ member.status = "none"
  /\ Journal(n, "failed")
  /\ UNCHANGED <<stripe, member, payment, lookup, cuts>>

\* charge.refunded asks Stripe for the invoice first.
RefundAsks(h, n) ==
  /\ Claimable(n) /\ stripe[n] = "refund" /\ lookup[h] = 0
  /\ lookup' = [lookup EXCEPT ![h] = n]
  /\ Journal(n, "processing")
  /\ UNCHANGED <<stripe, member, payment, cuts>>

\* recordChargeRefund.
RefundApplies(h) ==
  LET n == lookup[h] IN
  /\ n # 0 /\ payment.status # "none"
  /\ payment' = RowWritten(n, payment, "refunded")
  /\ lookup' = [lookup EXCEPT ![h] = 0]
  /\ Journal(n, "processed")
  /\ UNCHANGED <<stripe, member, cuts>>

\* No answer from Stripe, or no invoice recorded yet.
RefundFails(h) ==
  /\ lookup[h] # 0
  /\ lookup' = [lookup EXCEPT ![h] = 0]
  /\ Journal(lookup[h], "failed")
  /\ UNCHANGED <<stripe, member, payment, cuts>>

\* Requests are forgotten with the process.
Cut ==
  /\ cuts < MaxCut /\ cuts' = cuts + 1
  /\ lookup' = [h \in Handler |-> 0]
  /\ UNCHANGED <<stripe, journal, overdue, member, payment>>

WebhookNext ==
  \/ Cut
  \/ \E n \in Event : \/ \E what \in Subscribed \cup Invoice \cup {"refund"} :
                           StripeMakes(n, what)
                      \/ LeaseEnds(n) \/ Apply(n) \/ BeginOnly(n)
                      \/ ApplyFails(n)
                      \/ \E h \in Handler : RefundAsks(h, n)
  \/ \E h \in Handler : RefundApplies(h) \/ RefundFails(h)

\* Stripe delivers again until it is acknowledged, and in the end answers.
WebhookFairness ==
  /\ \A n \in Event : /\ WF_webhookVars(LeaseEnds(n))
                      /\ WF_webhookVars(Apply(n))
                      /\ WF_webhookVars(\E h \in Handler : RefundAsks(h, n))
  /\ \A h \in Handler : SF_webhookVars(RefundApplies(h))

WebhookSpec == WebhookInit /\ [][WebhookNext]_webhookVars /\ WebhookFairness
-----------------------------------------------------------------------------
(* Properties.                                                              *)

\* However events are reordered, repeated and cut off, a row says what the
\* newest of the events applied to it said.
NewestWins ==
  \A n \in Event : journal[n] = "processed" =>
    /\ stripe[n] \in Subscribed => member.at >= n /\ member.status = stripe[member.at]
    /\ stripe[n] \notin Subscribed => payment.at >= n /\
         payment.status = IF stripe[payment.at] = "refund" THEN "refunded"
                          ELSE stripe[payment.at]

\* A refund is booked in the end, also one that came before its invoice, or
\* whose handler died.
RefundIsBooked ==
  \A n \in Event : stripe[n] = "refund" ~> payment.status = "refunded"
=============================================================================
