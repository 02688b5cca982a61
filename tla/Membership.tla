------------------------------ MODULE Membership ------------------------------
(***************************************************************************)
(* Membership paid on chain (billing/usdgMembership.ts, the subscription   *)
(* rows of billing/subscriptions.ts): a member opens an intent, sends the  *)
(* exact transfer, and claims it by transaction hash; an hourly audit      *)
(* takes back what a deep reorganisation orphaned.                         *)
(*                                                                         *)
(* One member.  An action is the code between two awaits.  Addresses,      *)
(* amounts and receipts' logs are one fact: whether a transaction holds    *)
(* exactly one membership transfer of this member's (Pays).  Time counts   *)
(* membership periods; that an intent's half hour is over is lapsed.       *)
(***************************************************************************)
EXTENDS Naturals, FiniteSets

CONSTANTS Intent, Tx, Unbound,
          Pays,      \* the transactions that hold the exact transfer
          Claim,     \* confirm requests that may overlap
          MaxClock   \* bound: periods

ASSUME PaysAssumption ==
  /\ Pays \subseteq Tx /\ Unbound \notin Tx /\ IsFiniteSet(Tx)
  /\ MaxClock \in Nat

VARIABLES intent,    \* usdg_payment_intents
          lapsed,    \* the intents whose expires_at has passed
          receipt,   \* usdg_payment_receipts and billing_payments, by tx
          bought,    \* subscriptions of provider robinhood_usdg, by tx
          onChain,   \* what the chain says of each transaction (external)
          claim,     \* where each confirm request stands
          audit,     \* receipts the running audit has yet to look at
          clock

membershipVars ==
  <<intent, lapsed, receipt, bought, onChain, claim, audit, clock>>

IntentRow == [status : {"none", "pending", "confirming", "confirmed", "failed",
                        "expired"}, tx : Tx \cup {Unbound}]
Period == [status : {"none", "active", "unpaid"},
           from : 0 .. MaxClock + Cardinality(Tx)]
\* late: the intents that had lapsed when the block was made.
ChainTx == [state : {"absent", "mined", "reverted", "orphaned"},
            deep : BOOLEAN, late : SUBSET Intent]
NoClaim == [pc |-> "idle", intent |-> Unbound, tx |-> Unbound]
ClaimRow == [pc : {"receipt", "block"}, intent : Intent, tx : Tx]

MembershipTypeOK ==
  /\ intent \in [Intent -> IntentRow]
  /\ lapsed \in SUBSET Intent
  /\ receipt \in [Tx -> {"none", "canonical", "void"}]
  /\ bought \in [Tx -> Period]
  /\ onChain \in [Tx -> ChainTx]
  /\ claim \in [Claim -> ClaimRow \cup {NoClaim}]
  /\ audit \in SUBSET Tx
  /\ clock \in 0 .. MaxClock

MembershipInit ==
  /\ intent = [i \in Intent |-> [status |-> "none", tx |-> Unbound]]
  /\ lapsed = {}
  /\ receipt = [t \in Tx |-> "none"]
  /\ bought = [t \in Tx |-> [status |-> "none", from |-> 0]]
  /\ onChain = [t \in Tx |-> [state |-> "absent", deep |-> FALSE, late |-> {}]]
  /\ claim = [c \in Claim |-> NoClaim]
  /\ audit = {}
  /\ clock = 0
-----------------------------------------------------------------------------
(* What the tables say.                                                     *)

Open(i) == intent[i].status \in {"pending", "confirming"}

Ends(t) == bought[t].from + 1

\* latestSubscription: an active one first, then the one that ends last.
Latest(t) ==
  /\ bought[t].status # "none"
  /\ \A u \in Tx : bought[u].status # "none" =>
       \/ bought[t].status = "active" /\ bought[u].status = "unpaid"
       \/ bought[t].status = bought[u].status /\ Ends(t) >= Ends(u)

\* subscriptionAccess, once billing is enforced.
HasAccess ==
  \E t \in Tx : Latest(t) /\ bought[t].status = "active" /\ Ends(t) > clock

\* Mutant of PeriodStart: the new period starts today.
StartNow == clock

\* confirmUsdgPayment: a period begins when the one before it ends.
PeriodStart ==
  LET prior == {Ends(t) : t \in {u \in Tx : Latest(u)}}
  IN  CHOOSE n \in {clock} \cup prior : \A m \in {clock} \cup prior : n >= m

\* A transaction belongs to one intent, and an intent to one transaction.
Unclaimed(i, t) ==
  /\ intent[i].tx \in {Unbound, t}
  /\ \A j \in Intent \ {i} : intent[j].tx # t

\* usdg_payment_receipts: unique in its intent and in its transaction.
Fresh(i, t) ==
  receipt[t] = "none" /\ (intent[i].tx # Unbound => receipt[intent[i].tx] = "none")
-----------------------------------------------------------------------------
(* Opening an intent.                                                       *)

\* createUsdgPaymentIntent expires what lapsed and reuses what is still open.
OpenIntent ==
  LET swept == [i \in Intent |->
        IF Open(i) /\ i \in lapsed THEN [intent[i] EXCEPT !.status = "expired"]
        ELSE intent[i]]
  IN
  /\ \/ /\ \E i \in Intent : swept[i].status \in {"pending", "confirming"}
        /\ intent' = swept
     \/ /\ \A i \in Intent : swept[i].status \notin {"pending", "confirming"}
        /\ \E i \in Intent :
             /\ intent[i].status = "none"
             /\ intent' = [swept EXCEPT ![i].status = "pending"]
  /\ UNCHANGED <<lapsed, receipt, bought, onChain, claim, audit, clock>>

Lapse(i) ==
  /\ intent[i].status # "none" /\ i \notin lapsed
  /\ lapsed' = lapsed \cup {i}
  /\ UNCHANGED <<intent, receipt, bought, onChain, claim, audit, clock>>
-----------------------------------------------------------------------------
(* Claiming a transfer.                                                     *)

SetClaim(c, pc, i, t) ==
  claim' = [claim EXCEPT ![c] = [pc |-> pc, intent |-> i, tx |-> t]]

EndClaim(c) == claim' = [claim EXCEPT ![c] = NoClaim]

\* Up to the first request to the chain: the hash is bound to the intent.
Submit(c, i, t) ==
  /\ claim[c].pc = "idle" /\ Open(i) /\ Unclaimed(i, t)
  /\ intent' = [intent EXCEPT ![i] = [status |-> "confirming", tx |-> t]]
  /\ SetClaim(c, "receipt", i, t)
  /\ UNCHANGED <<lapsed, receipt, bought, onChain, audit, clock>>

\* The receipt is there and shows the transfer.
ReceiptRead(c) ==
  LET t == claim[c].tx IN
  /\ claim[c].pc = "receipt"
  /\ onChain[t].state = "mined" /\ t \in Pays
  /\ SetClaim(c, "block", claim[c].intent, t)
  /\ UNCHANGED <<intent, lapsed, receipt, bought, onChain, audit, clock>>

Reverted(c) ==
  /\ claim[c].pc = "receipt" /\ onChain[claim[c].tx].state = "reverted"
  /\ intent' = [intent EXCEPT ![claim[c].intent].status = "failed"]
  /\ EndClaim(c)
  /\ UNCHANGED <<lapsed, receipt, bought, onChain, audit, clock>>

\* No receipt yet, no answer, no such transfer, a block that is no longer
\* canonical, too few confirmations; or the process died.
ClaimEnds(c) ==
  /\ claim[c].pc # "idle"
  /\ EndClaim(c)
  /\ UNCHANGED <<intent, lapsed, receipt, bought, onChain, audit, clock>>

TooLate(c) ==
  LET i == claim[c].intent IN
  /\ claim[c].pc = "block" /\ i \in onChain[claim[c].tx].late
  /\ intent' = [intent EXCEPT ![i].status = "expired"]
  /\ EndClaim(c)
  /\ UNCHANGED <<lapsed, receipt, bought, onChain, audit, clock>>

\* Twelve confirmations: subscription, receipt, payment and intent in one
\* transaction, which the unique keys of the receipt undo.
Confirm(c) ==
  LET i == claim[c].intent
      t == claim[c].tx
  IN
  /\ claim[c].pc = "block"
  /\ onChain[t].deep /\ i \notin onChain[t].late
  /\ Fresh(i, t)
  /\ bought' = [bought EXCEPT ![t] = [status |-> "active", from |-> PeriodStart]]
  /\ receipt' = [receipt EXCEPT ![t] = "canonical"]
  /\ intent' = [intent EXCEPT ![i].status = "confirmed"]
  /\ EndClaim(c)
  /\ UNCHANGED <<lapsed, onChain, audit, clock>>
-----------------------------------------------------------------------------
(* The hourly audit.                                                        *)

AuditStart ==
  /\ audit = {} /\ audit' = {t \in Tx : receipt[t] = "canonical"}
  /\ audit' # {}
  /\ UNCHANGED <<intent, lapsed, receipt, bought, onChain, claim, clock>>

AuditClean(t) ==
  /\ t \in audit
  /\ audit' = audit \ {t}
  /\ UNCHANGED <<intent, lapsed, receipt, bought, onChain, claim, clock>>

\* Every period of the member's is taken back, not this one alone.
AuditOrphan(t) ==
  /\ t \in audit /\ onChain[t].state = "orphaned"
  /\ receipt' = [receipt EXCEPT ![t] = "void"]
  /\ intent' = [i \in Intent |-> IF intent[i].tx = t
                 THEN [intent[i] EXCEPT !.status = "failed"] ELSE intent[i]]
  /\ bought' = [u \in Tx |-> IF bought[u].status = "active"
                 THEN [bought[u] EXCEPT !.status = "unpaid"] ELSE bought[u]]
  /\ audit' = audit \ {t}
  /\ UNCHANGED <<lapsed, onChain, claim, clock>>

AuditFails ==
  /\ audit # {} /\ audit' = {}
  /\ UNCHANGED <<intent, lapsed, receipt, bought, onChain, claim, clock>>
-----------------------------------------------------------------------------
(* The chain, and time.                                                     *)

ChainMoves(t, row) ==
  /\ onChain' = [onChain EXCEPT ![t] = row]
  /\ UNCHANGED <<intent, lapsed, receipt, bought, claim, audit, clock>>

MineTx(t) ==
  /\ onChain[t].state = "absent"
  /\ \E state \in {"mined", "reverted"} :
       ChainMoves(t, [state |-> state, deep |-> FALSE, late |-> lapsed])

Deepen(t) ==
  /\ onChain[t].state = "mined" /\ ~onChain[t].deep
  /\ ChainMoves(t, [onChain[t] EXCEPT !.deep = TRUE])

Orphan(t) ==
  /\ onChain[t].state = "mined"
  /\ ChainMoves(t, [onChain[t] EXCEPT !.state = "orphaned"])

MonthPasses ==
  /\ clock < MaxClock /\ clock' = clock + 1
  /\ UNCHANGED <<intent, lapsed, receipt, bought, onChain, claim, audit>>

MembershipNext ==
  \/ OpenIntent \/ AuditStart \/ AuditFails \/ MonthPasses
  \/ \E i \in Intent : Lapse(i)
  \/ \E t \in Tx : \/ AuditClean(t) \/ AuditOrphan(t)
                   \/ MineTx(t) \/ Deepen(t) \/ Orphan(t)
  \/ \E c \in Claim : \/ ReceiptRead(c) \/ Reverted(c) \/ ClaimEnds(c)
                      \/ TooLate(c) \/ Confirm(c)
                      \/ \E i \in Intent, t \in Tx : Submit(c, i, t)

MembershipSpec == MembershipInit /\ [][MembershipNext]_membershipVars
-----------------------------------------------------------------------------
(* Properties.                                                              *)

\* Each payment buys a period of its own, what is taken back stays taken back
\* and what is left of the rest still opens the Lab, however claims of one
\* transfer and the audit overlap.
OnePeriodEach ==
  /\ \A t \in Tx : bought[t].status = "active" => receipt[t] = "canonical"
  /\ \A t, u \in Tx : t # u /\ "none" \notin {bought[t].status, bought[u].status}
       => bought[t].from # bought[u].from
  /\ \A t \in Tx : bought[t].status = "active" /\ Ends(t) > clock => HasAccess
=============================================================================
