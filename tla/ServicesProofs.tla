--------------------------- MODULE ServicesProofs ---------------------------
(***************************************************************************)
(* What holds of the parts that Services composes, for any accounts,       *)
(* holders, payments, callers, jobs, windows and bounds: for each part an  *)
(* inductive invariant that implies its property, and one lemma per action *)
(* that the action keeps it. At the end, the server that runs all of them. *)
(***************************************************************************)
EXTENDS Services, Sums, SequenceTheorems
-----------------------------------------------------------------------------
(* Membership: a payment buys one period.                                  *)

Held == {t \in Tx : bought[t].status # "none"}

\* A receipt and its period are written together, and audits look at receipts.
PeriodsRecorded ==
  /\ \A t \in audit : receipt[t] # "none"
  /\ \A t \in Tx : /\ bought[t].status = "none" <=> receipt[t] = "none"
                   /\ bought[t].status = "active" => receipt[t] = "canonical"

\* No two periods begin together, what is active begins when everything that
\* was taken back is over, and no period is further ahead than there are payments.
Laid ==
  /\ \A t, u \in Held : t # u => bought[t].from # bought[u].from
  /\ \A t, u \in Held : bought[t].status = "active" /\ bought[u].status = "unpaid"
       => Ends(u) <= bought[t].from
  /\ \A t \in Held : Ends(t) <= clock + Cardinality(Held)

MembershipInv == MembershipTypeOK /\ PeriodsRecorded /\ Laid

LEMMA HeldCount ==
  /\ IsFiniteSet(Held) /\ Cardinality(Held) \in Nat
  /\ Cardinality(Held) <= Cardinality(Tx) /\ Cardinality(Tx) \in Nat
<1>1. Held \subseteq Tx
  BY DEF Held
<1> QED
  BY <1>1, PaysAssumption, FS_Subset, FS_CardinalityType

LEMMA BoughtType ==
  MembershipTypeOK =>
    /\ bought \in [Tx -> Period] /\ clock \in 0 .. MaxClock /\ clock \in Nat
    /\ MaxClock \in Nat
    /\ \A t \in Tx : /\ bought[t] \in Period /\ bought[t].from \in Nat /\ Ends(t) \in Nat
                     /\ bought[t].from <= MaxClock + Cardinality(Tx)
                     /\ bought[t].status \in {"none", "active", "unpaid"}
<1> SUFFICES ASSUME MembershipTypeOK
    PROVE  /\ bought \in [Tx -> Period] /\ clock \in 0 .. MaxClock /\ clock \in Nat
           /\ MaxClock \in Nat
           /\ \A t \in Tx : /\ bought[t] \in Period /\ bought[t].from \in Nat
                            /\ Ends(t) \in Nat
                            /\ bought[t].from <= MaxClock + Cardinality(Tx)
                            /\ bought[t].status \in {"none", "active", "unpaid"}
  OBVIOUS
<1>1. bought \in [Tx -> Period] /\ clock \in 0 .. MaxClock /\ MaxClock \in Nat
  BY PaysAssumption DEF MembershipTypeOK
<1>2. clock \in Nat
  BY <1>1
<1>3. ASSUME NEW t \in Tx
      PROVE  /\ bought[t] \in Period /\ bought[t].from \in Nat /\ Ends(t) \in Nat
             /\ bought[t].from <= MaxClock + Cardinality(Tx)
             /\ bought[t].status \in {"none", "active", "unpaid"}
  <2>1. bought[t] \in Period
    BY <1>1
  <2>2. /\ bought[t].from \in 0 .. MaxClock + Cardinality(Tx)
        /\ bought[t].status \in {"none", "active", "unpaid"}
    BY <2>1 DEF Period
  <2> QED
    BY <1>1, <2>1, <2>2, HeldCount DEF Ends
<1> QED
  BY <1>1, <1>2, <1>3

\* Among some of the periods one ends last.
LEMMA LastOf ==
  ASSUME MembershipTypeOK, NEW S, S \subseteq Tx, S # {}
  PROVE  \E t \in S : \A u \in S : Ends(t) >= Ends(u)
<1> DEFINE far == MaxClock + Cardinality(Tx) + 1
           D == {far - Ends(t) : t \in S}
<1>1. far \in Nat /\ \A t \in S : Ends(t) \in Nat /\ Ends(t) <= far
  BY BoughtType, HeldCount DEF Ends
<1>2. D \subseteq Nat /\ D # {}
  <2> HIDE DEF far
  <2> QED
    BY <1>1
<1>3. PICK d \in D : \A e \in D : d <= e
  <2> HIDE DEF D
  <2> QED
    BY <1>2, SmallestNat
<1>4. PICK t \in S : d = far - Ends(t)
  OBVIOUS
<1>5. ASSUME NEW u \in S PROVE Ends(t) >= Ends(u)
  <2>1. far - Ends(t) <= far - Ends(u)
    BY <1>3, <1>4
  <2> HIDE DEF far
  <2> QED
    BY <1>1, <2>1
<1> QED
  BY <1>5

\* Where a payment is held, latestSubscription finds one, and it ends last of all.
LEMMA LatestIsLast ==
  ASSUME MembershipInv, Held # {}
  PROVE  /\ \E t \in Tx : Latest(t)
         /\ \A t \in Tx : Latest(t) => t \in Held /\ \A u \in Held : Ends(t) >= Ends(u)
<1>0. MembershipTypeOK /\ Laid
  BY DEF MembershipInv
<1>1. \A t \in Held : t \in Tx /\ bought[t].status \in {"active", "unpaid"}
  BY <1>0, BoughtType DEF Held
<1>2. \E t \in Tx : Latest(t)
  <2> DEFINE A == {t \in Tx : bought[t].status = "active"}
  <2>1. CASE A # {}
    <3>1. PICK t \in A : \A u \in A : Ends(t) >= Ends(u)
      <4>1. A \subseteq Tx
        OBVIOUS
      <4> HIDE DEF A
      <4> QED
        BY <1>0, <2>1, <4>1, LastOf
    <3> QED
      BY <1>0, <1>1, <3>1 DEF Latest, Held
  <2>2. CASE A = {}
    <3>1. PICK t \in Held : \A u \in Held : Ends(t) >= Ends(u)
      <4>1. Held \subseteq Tx
        BY DEF Held
      <4> QED
        BY <1>0, <4>1, LastOf
    <3>2. \A u \in Held : bought[u].status = "unpaid"
      BY <1>1, <2>2
    <3> QED
      BY <1>1, <3>1, <3>2 DEF Latest, Held
  <2> QED
    BY <2>1, <2>2
<1>3. ASSUME NEW t \in Tx, Latest(t), NEW u \in Held PROVE Ends(t) >= Ends(u)
  <2>1. t \in Held /\ u \in Tx /\ bought[u].status # "none"
    BY <1>1, <1>3 DEF Latest, Held
  <2>2. CASE bought[t].status = bought[u].status
    BY <1>3, <2>1, <2>2 DEF Latest
  <2>3. CASE bought[t].status = "active" /\ bought[u].status = "unpaid"
    <3>1. Ends(u) <= bought[t].from /\ Ends(t) = bought[t].from + 1
      BY <1>0, <2>1, <2>3 DEF Laid, Ends
    <3> QED
      BY <1>0, <2>1, <3>1, BoughtType
  <2> QED
    BY <1>3, <2>1, <2>2, <2>3 DEF Latest
<1>4. \A t \in Tx : Latest(t) => t \in Held
  BY DEF Latest, Held
<1> QED
  BY <1>2, <1>3, <1>4

\* A new period begins now or when the last one ends.
LEMMA PeriodStartBounds ==
  ASSUME MembershipInv
  PROVE  /\ PeriodStart \in Nat /\ PeriodStart >= clock
         /\ PeriodStart <= clock + Cardinality(Held)
         /\ \A u \in Held : PeriodStart >= Ends(u)
<1> DEFINE prior == {Ends(t) : t \in {u \in Tx : Latest(u)}}
<1>0. MembershipTypeOK /\ clock \in Nat
  BY BoughtType DEF MembershipInv
<1>1. CASE Held = {}
  <2>1. prior = {}
    BY <1>1 DEF Latest, Held
  <2>2. PeriodStart = clock
    BY <1>0, <2>1 DEF PeriodStart
  <2> QED
    BY <1>0, <1>1, <2>2, HeldCount
<1>2. CASE Held # {}
  <2>1. PICK t \in Tx : Latest(t)
    BY <1>2, LatestIsLast
  <2>2. t \in Held /\ \A u \in Held : Ends(t) >= Ends(u)
    BY <1>2, <2>1, LatestIsLast
  <2>3. \A u \in Tx : Ends(u) \in Nat
    BY <1>0, BoughtType
  <2>4. \A u \in Tx : Latest(u) => Ends(u) = Ends(t)
    <3> SUFFICES ASSUME NEW u \in Tx, Latest(u) PROVE Ends(u) = Ends(t)
      OBVIOUS
    <3>1. u \in Held /\ Ends(u) >= Ends(t) /\ Ends(t) >= Ends(u)
      BY <1>2, <2>2, LatestIsLast
    <3> QED
      BY <2>3, <3>1
  <2>5. prior = {Ends(t)}
    BY <2>1, <2>4
  <2>6. PeriodStart = CHOOSE n \in {clock, Ends(t)} : \A m \in {clock, Ends(t)} : n >= m
    BY <2>5 DEF PeriodStart
  <2>7. \E n \in {clock, Ends(t)} : \A m \in {clock, Ends(t)} : n >= m
    BY <1>0, <2>3
  <2>8. PeriodStart \in {clock, Ends(t)} /\ PeriodStart >= clock /\ PeriodStart >= Ends(t)
    BY <2>6, <2>7
  <2>9. Ends(t) <= clock + Cardinality(Held) /\ Ends(t) \in Nat
    BY <2>2, <2>3 DEF MembershipInv, Laid
  <2>10. PeriodStart \in Nat /\ PeriodStart <= clock + Cardinality(Held)
    BY <1>0, <2>8, <2>9, HeldCount
  <2>11. \A u \in Held : u \in Tx
    BY DEF Held
  <2> QED
    BY <2>2, <2>3, <2>8, <2>10, <2>11
<1> QED
  BY <1>1, <1>2

LEMMA MembershipInitInv == MembershipInit => MembershipInv
<1> SUFFICES ASSUME MembershipInit PROVE MembershipInv
  OBVIOUS
<1> USE DEF MembershipInit
<1>1. 0 \in 0 .. MaxClock + Cardinality(Tx) /\ 0 \in 0 .. MaxClock
  BY HeldCount, PaysAssumption
<1>2. MembershipTypeOK
  BY <1>1 DEF MembershipTypeOK, IntentRow, Period, ChainTx, NoClaim
<1>3. Held = {}
  BY DEF Held
<1> QED
  BY <1>2, <1>3 DEF MembershipInv, PeriodsRecorded, Laid

\* Most steps change neither a receipt nor a period.
LEMMA BooksRest ==
  ASSUME MembershipInv, UNCHANGED <<receipt, bought, clock>>, MembershipTypeOK',
         \A t \in audit' : receipt[t] # "none"
  PROVE  MembershipInv'
<1>1. Held' = Held
  BY DEF Held
<1>2. PeriodsRecorded'
  BY DEF MembershipInv, PeriodsRecorded
<1> QED
  BY <1>1, <1>2 DEF MembershipInv, PeriodsRecorded, Laid, Ends

LEMMA AuditReceipts ==
  ASSUME MembershipInv, UNCHANGED <<audit, receipt>>
  PROVE  \A t \in audit' : receipt[t] # "none"
  BY DEF MembershipInv, PeriodsRecorded

LEMMA MembershipTypes ==
  MembershipInv => /\ intent \in [Intent -> IntentRow] /\ lapsed \in SUBSET Intent
                   /\ receipt \in [Tx -> {"none", "canonical", "void"}]
                   /\ bought \in [Tx -> Period] /\ onChain \in [Tx -> ChainTx]
                   /\ claim \in [Claim -> ClaimRow \cup {NoClaim}]
                   /\ audit \in SUBSET Tx /\ clock \in 0 .. MaxClock
  BY DEF MembershipInv, MembershipTypeOK

LEMMA ClaimAtWork ==
  ASSUME MembershipInv, NEW c \in Claim, claim[c].pc # "idle"
  PROVE  claim[c] \in ClaimRow /\ claim[c].intent \in Intent /\ claim[c].tx \in Tx
<1>1. claim[c] \in ClaimRow \cup {NoClaim}
  BY MembershipTypes
<1>2. claim[c] # NoClaim
  BY DEF NoClaim
<1> QED
  BY <1>1, <1>2 DEF ClaimRow

LEMMA OpenIntentKeeps == MembershipInv /\ OpenIntent => MembershipInv'
<1> SUFFICES ASSUME MembershipInv, OpenIntent PROVE MembershipInv'
  OBVIOUS
<1> DEFINE swept == [i \in Intent |->
        IF Open(i) /\ i \in lapsed THEN [intent[i] EXCEPT !.status = "expired"]
        ELSE intent[i]]
<1>1. /\ \/ intent' = swept
         \/ \E i \in Intent : intent' = [swept EXCEPT ![i].status = "pending"]
      /\ UNCHANGED <<lapsed, receipt, bought, onChain, claim, audit, clock>>
  BY DEF OpenIntent
<1>2. \A i \in Intent : swept[i] \in IntentRow
  BY MembershipTypes DEF IntentRow
<1>3. swept \in [Intent -> IntentRow]
  BY <1>2
<1> HIDE DEF swept
<1>4. intent' \in [Intent -> IntentRow]
  BY <1>1, <1>3 DEF IntentRow
<1>5. MembershipTypeOK'
  BY <1>1, <1>4 DEF MembershipInv, MembershipTypeOK
<1> QED
  BY <1>1, <1>5, BooksRest, AuditReceipts

LEMMA SubmitKeeps ==
  ASSUME MembershipInv, NEW c \in Claim, NEW i \in Intent, NEW t \in Tx, Submit(c, i, t)
  PROVE  MembershipInv'
<1> USE DEF Submit, SetClaim
<1>1. [status |-> "confirming", tx |-> t] \in IntentRow
  BY DEF IntentRow
<1>2. intent' \in [Intent -> IntentRow]
  BY <1>1, MembershipTypes
<1>3. [pc |-> "receipt", intent |-> i, tx |-> t] \in ClaimRow
  BY DEF ClaimRow
<1>4. claim' \in [Claim -> ClaimRow \cup {NoClaim}]
  BY <1>3, MembershipTypes
<1>5. MembershipTypeOK'
  BY <1>2, <1>4 DEF MembershipInv, MembershipTypeOK
<1> QED
  BY <1>5, BooksRest, AuditReceipts

LEMMA ClaimMovesKeeps ==
  ASSUME MembershipInv, NEW c \in Claim, ReceiptRead(c) \/ ClaimEnds(c)
  PROVE  MembershipInv'
<1>1. claim[c] \in ClaimRow /\ claim[c].intent \in Intent /\ claim[c].tx \in Tx
  BY ClaimAtWork DEF ReceiptRead, ClaimEnds
<1>2. PICK row \in ClaimRow \cup {NoClaim} : claim' = [claim EXCEPT ![c] = row]
  BY <1>1 DEF ReceiptRead, ClaimEnds, SetClaim, EndClaim, ClaimRow
<1>3. UNCHANGED <<intent, lapsed, receipt, bought, onChain, audit, clock>>
  BY DEF ReceiptRead, ClaimEnds
<1>4. MembershipTypeOK'
  BY <1>2, <1>3 DEF MembershipInv, MembershipTypeOK
<1> QED
  BY <1>3, <1>4, BooksRest, AuditReceipts

LEMMA ClaimFailsKeeps ==
  ASSUME MembershipInv, NEW c \in Claim, Reverted(c) \/ TooLate(c)
  PROVE  MembershipInv'
<1>1. claim[c] \in ClaimRow /\ claim[c].intent \in Intent
  BY ClaimAtWork DEF Reverted, TooLate
<1>2. PICK s \in {"failed", "expired"} :
        intent' = [intent EXCEPT ![claim[c].intent].status = s]
  BY DEF Reverted, TooLate
<1>3. intent' \in [Intent -> IntentRow]
  BY <1>1, <1>2, MembershipTypes DEF IntentRow
<1>4. /\ claim' = [claim EXCEPT ![c] = NoClaim]
      /\ UNCHANGED <<lapsed, receipt, bought, onChain, audit, clock>>
  BY DEF Reverted, TooLate, EndClaim
<1>5. claim' \in [Claim -> ClaimRow \cup {NoClaim}]
  BY <1>4, MembershipTypes
<1>6. MembershipTypeOK'
  BY <1>3, <1>4, <1>5 DEF MembershipInv, MembershipTypeOK
<1> QED
  BY <1>4, <1>6, BooksRest, AuditReceipts

\* A confirmed transfer had no receipt, so no period; the new one begins when
\* every other is over.
LEMMA ConfirmKeeps ==
  ASSUME MembershipInv, NEW c \in Claim, Confirm(c) PROVE MembershipInv'
<1>0. claim[c].intent \in Intent /\ claim[c].tx \in Tx
  BY ClaimAtWork DEF Confirm
<1>1. PICK i \in Intent, t \in Tx, from \in {PeriodStart} :
      /\ receipt[t] = "none" /\ from = PeriodStart
      /\ bought' = [bought EXCEPT ![t] = [status |-> "active", from |-> from]]
      /\ receipt' = [receipt EXCEPT ![t] = "canonical"]
      /\ intent' = [intent EXCEPT ![i].status = "confirmed"]
      /\ claim' = [claim EXCEPT ![c] = NoClaim]
      /\ UNCHANGED <<lapsed, onChain, audit, clock>>
  BY <1>0 DEF Confirm, Fresh, EndClaim
<1> DEFINE row == [status |-> "active", from |-> from]
<1>2. i \in Intent /\ t \in Tx
  OBVIOUS
<1>3. t \notin Held
  BY <1>1, <1>2 DEF MembershipInv, PeriodsRecorded, Held
<1>4. /\ from \in Nat /\ from >= clock /\ from <= clock + Cardinality(Held)
      /\ \A u \in Held : from >= Ends(u)
  BY <1>1, PeriodStartBounds
<1>5. Held \cup {t} \subseteq Tx /\ Cardinality(Held \cup {t}) = Cardinality(Held) + 1
  BY <1>2, <1>3, HeldCount, FS_AddElement DEF Held
<1>6. Cardinality(Held) + 1 <= Cardinality(Tx)
  BY <1>5, PaysAssumption, FS_Subset
<1>7. row \in Period
  <2>1. clock <= MaxClock /\ clock \in Nat /\ MaxClock \in Nat
    BY BoughtType DEF MembershipInv
  <2>2. from \in 0 .. MaxClock + Cardinality(Tx)
    BY <1>4, <1>6, <2>1, HeldCount
  <2> QED
    BY <2>2 DEF Period
<1>8. /\ bought' \in [Tx -> Period] /\ bought'[t] = row
      /\ \A u \in Tx : u # t => bought'[u] = bought[u]
  BY <1>1, <1>2, <1>7, MembershipTypes
<1>9. /\ receipt' \in [Tx -> {"none", "canonical", "void"}] /\ receipt'[t] = "canonical"
      /\ \A u \in Tx : u # t => receipt'[u] = receipt[u]
  BY <1>1, <1>2, MembershipTypes
<1>10. intent' \in [Intent -> IntentRow] /\ claim' \in [Claim -> ClaimRow \cup {NoClaim}]
  BY <1>1, <1>2, MembershipTypes DEF IntentRow
<1>11. MembershipTypeOK'
  BY <1>1, <1>8, <1>9, <1>10 DEF MembershipInv, MembershipTypeOK
<1>12. PeriodsRecorded'
  BY <1>1, <1>8, <1>9, MembershipTypes DEF MembershipInv, PeriodsRecorded
<1>13. Held' = Held \cup {t}
  BY <1>2, <1>8 DEF Held
<1>14. Ends(t)' = from + 1 /\ \A u \in Held : Ends(u)' = Ends(u) /\ u # t /\ u \in Tx
  BY <1>2, <1>3, <1>8 DEF Ends, Held
<1>15. \A u \in Held : bought'[u] = bought[u] /\ bought[u].from \in Nat
                       /\ Ends(u) = bought[u].from + 1
  BY <1>8, <1>14, BoughtType DEF MembershipInv, Ends
<1>16. Laid'
  <2>1. ASSUME NEW u \in Held PROVE bought[u].from < from
    BY <1>4, <1>15
  <2>2. \A u, v \in Held \cup {t} : u # v => bought'[u].from # bought'[v].from
    <3>1. \A u, v \in Held : u # v => bought'[u].from # bought'[v].from
      BY <1>15 DEF MembershipInv, Laid
    <3>2. bought'[t].from = from /\ \A u \in Held : bought'[u].from # from
      BY <1>4, <1>8, <1>15, <2>1
    <3> QED
      BY <3>1, <3>2
  <2>3. ASSUME NEW u \in Held', NEW v \in Held', bought'[u].status = "active",
               bought'[v].status = "unpaid"
        PROVE  Ends(v)' <= bought'[u].from
    <3>1. v \in Held /\ bought[v].status = "unpaid"
      BY <1>8, <1>13, <1>15, <2>3
    <3>2. CASE u = t
      BY <1>4, <1>8, <1>14, <3>1, <3>2
    <3>3. CASE u \in Held
      BY <1>14, <1>15, <2>3, <3>1, <3>3 DEF MembershipInv, Laid
    <3> QED
      BY <1>13, <3>2, <3>3
  <2>4. ASSUME NEW u \in Held' PROVE Ends(u)' <= clock' + Cardinality(Held')
    <3>1. Cardinality(Held') = Cardinality(Held) + 1 /\ clock' = clock /\ clock \in Nat
      BY <1>1, <1>5, <1>13, BoughtType DEF MembershipInv
    <3>2. CASE u = t
      BY <1>4, <1>14, <3>1, <3>2, HeldCount
    <3>3. CASE u \in Held
      <4>1. Ends(u) <= clock + Cardinality(Held) /\ Ends(u)' = Ends(u) /\ Ends(u) \in Nat
        BY <1>14, <1>15, <3>3 DEF MembershipInv, Laid
      <4> QED
        BY <3>1, <4>1, HeldCount
    <3> QED
      BY <1>13, <3>2, <3>3
  <2> QED
    BY <1>13, <2>2, <2>3, <2>4 DEF Laid
<1> QED
  BY <1>11, <1>12, <1>16 DEF MembershipInv

LEMMA AuditTurnsKeeps ==
  ASSUME MembershipInv,
         AuditStart \/ AuditFails \/ \E t \in Tx : AuditClean(t)
  PROVE  MembershipInv'
<1>1. /\ audit' \in SUBSET Tx /\ \A t \in audit' : receipt[t] # "none"
      /\ UNCHANGED <<intent, lapsed, receipt, bought, onChain, claim, clock>>
  BY MembershipTypes DEF AuditStart, AuditFails, AuditClean, MembershipInv, PeriodsRecorded
<1>2. MembershipTypeOK'
  BY <1>1 DEF MembershipInv, MembershipTypeOK
<1> QED
  BY <1>1, <1>2, BooksRest

\* What is taken back keeps its place; nothing stays active.
LEMMA AuditOrphanKeeps ==
  ASSUME MembershipInv, NEW t \in Tx, t \in audit, AuditOrphan(t) PROVE MembershipInv'
<1>1. /\ receipt' = [receipt EXCEPT ![t] = "void"]
      /\ intent' = [i \in Intent |-> IF intent[i].tx = t
                 THEN [intent[i] EXCEPT !.status = "failed"] ELSE intent[i]]
      /\ bought' = [u \in Tx |-> IF bought[u].status = "active"
                 THEN [bought[u] EXCEPT !.status = "unpaid"] ELSE bought[u]]
      /\ audit' = audit \ {t} /\ UNCHANGED <<lapsed, onChain, claim, clock>>
  BY DEF AuditOrphan
<1>2. ASSUME NEW u \in Tx
      PROVE  /\ bought'[u] \in Period /\ bought'[u].from = bought[u].from
             /\ bought'[u].status = IF bought[u].status = "active" THEN "unpaid"
                                    ELSE bought[u].status
  <2>1. bought[u] \in Period
    BY MembershipTypes
  <2>2. [bought[u] EXCEPT !.status = "unpaid"] \in Period
    BY <2>1 DEF Period
  <2> QED
    BY <1>1, <2>1, <2>2 DEF Period
<1>3. bought' \in [Tx -> Period]
  BY <1>1, <1>2
<1>4. \A i \in Intent : intent'[i] \in IntentRow
  BY <1>1, MembershipTypes DEF IntentRow
<1>5. /\ intent' \in [Intent -> IntentRow] /\ audit' \in SUBSET Tx
      /\ receipt' \in [Tx -> {"none", "canonical", "void"}]
  BY <1>1, <1>4, MembershipTypes
<1>6. MembershipTypeOK'
  BY <1>1, <1>3, <1>5 DEF MembershipInv, MembershipTypeOK
<1>7. Held' = Held
  BY <1>2 DEF Held
<1>8. \A u \in Tx : Ends(u)' = Ends(u) /\ bought'[u].status # "active"
  BY <1>2 DEF Ends
<1>9. Laid'
  <2>1. \A u \in Held : u \in Tx
    BY DEF Held
  <2> QED
    BY <1>1, <1>2, <1>7, <1>8, <2>1 DEF MembershipInv, Laid
<1>10. PeriodsRecorded'
  <2>1. receipt[t] # "none" /\ bought[t].status # "none"
    BY DEF MembershipInv, PeriodsRecorded
  <2>2. \A u \in Tx : receipt'[u] = IF u = t THEN "void" ELSE receipt[u]
    BY <1>1, MembershipTypes
  <2>3. \A u \in audit' : receipt'[u] # "none"
    BY <1>1, <2>2, MembershipTypes DEF MembershipInv, PeriodsRecorded
  <2>4. ASSUME NEW u \in Tx
        PROVE  /\ bought'[u].status = "none" <=> receipt'[u] = "none"
               /\ bought'[u].status = "active" => receipt'[u] = "canonical"
    BY <1>2, <1>8, <2>1, <2>2 DEF MembershipInv, PeriodsRecorded
  <2> QED
    BY <2>3, <2>4 DEF PeriodsRecorded
<1> QED
  BY <1>6, <1>9, <1>10 DEF MembershipInv

LEMMA ChainKeeps ==
  ASSUME MembershipInv, NEW t \in Tx, MineTx(t) \/ Deepen(t) \/ Orphan(t)
  PROVE  MembershipInv'
<1>1. PICK row \in ChainTx : ChainMoves(t, row)
  <2>1. onChain[t] \in ChainTx /\ lapsed \in SUBSET Intent
    BY MembershipTypes
  <2>2. /\ [onChain[t] EXCEPT !.deep = TRUE] \in ChainTx
        /\ [onChain[t] EXCEPT !.state = "orphaned"] \in ChainTx
        /\ \A state \in {"mined", "reverted"} :
             [state |-> state, deep |-> FALSE, late |-> lapsed] \in ChainTx
    BY <2>1 DEF ChainTx
  <2> QED
    BY <2>2 DEF MineTx, Deepen, Orphan
<1>2. /\ onChain' = [onChain EXCEPT ![t] = row]
      /\ UNCHANGED <<intent, lapsed, receipt, bought, claim, audit, clock>>
  BY <1>1 DEF ChainMoves
<1>3. MembershipTypeOK'
  BY <1>2 DEF MembershipInv, MembershipTypeOK
<1> QED
  BY <1>2, <1>3, BooksRest, AuditReceipts

LEMMA LapseKeeps == ASSUME MembershipInv, NEW i \in Intent, Lapse(i) PROVE MembershipInv'
<1>1. MembershipTypeOK'
  BY DEF Lapse, MembershipInv, MembershipTypeOK
<1> QED
  BY <1>1, BooksRest, AuditReceipts DEF Lapse

LEMMA MonthPassesKeeps == MembershipInv /\ MonthPasses => MembershipInv'
<1> SUFFICES ASSUME MembershipInv, MonthPasses PROVE MembershipInv'
  OBVIOUS
<1> USE DEF MonthPasses
<1>1. clock \in Nat /\ MaxClock \in Nat
  BY BoughtType DEF MembershipInv
<1>2. MembershipTypeOK'
  BY <1>1 DEF MembershipInv, MembershipTypeOK
<1>3. PeriodsRecorded'
  BY DEF MembershipInv, PeriodsRecorded
<1>4. Held' = Held /\ \A u \in Held : Ends(u)' = Ends(u) /\ Ends(u) \in Nat
  BY BoughtType DEF Held, Ends, MembershipInv
<1>5. Laid'
  <2>1. ASSUME NEW u \in Held PROVE Ends(u)' <= clock' + Cardinality(Held')
    <3>1. Ends(u) <= clock + Cardinality(Held) /\ clock' = clock + 1
      BY DEF MembershipInv, Laid
    <3> QED
      BY <1>1, <1>4, <3>1, HeldCount
  <2> QED
    BY <1>4, <2>1 DEF MembershipInv, Laid
<1> QED
  BY <1>2, <1>3, <1>5 DEF MembershipInv

LEMMA MembershipNextKeeps ==
  ASSUME MembershipInv, [MembershipNext]_membershipVars PROVE MembershipInv'
<1>1. CASE OpenIntent \/ MonthPasses
  BY <1>1, OpenIntentKeeps, MonthPassesKeeps
<1>2. CASE AuditStart \/ AuditFails \/ \E t \in Tx : AuditClean(t)
  BY <1>2, AuditTurnsKeeps
<1>3. CASE \E i \in Intent : Lapse(i)
  BY <1>3, LapseKeeps
<1>4. CASE \E t \in Tx : AuditOrphan(t)
  BY <1>4, AuditOrphanKeeps DEF AuditOrphan
<1>5. CASE \E t \in Tx : MineTx(t) \/ Deepen(t) \/ Orphan(t)
  BY <1>5, ChainKeeps
<1>6. CASE \E c \in Claim : ReceiptRead(c) \/ ClaimEnds(c)
  BY <1>6, ClaimMovesKeeps
<1>7. CASE \E c \in Claim : Reverted(c) \/ TooLate(c)
  BY <1>7, ClaimFailsKeeps
<1>8. CASE \E c \in Claim : Confirm(c)
  BY <1>8, ConfirmKeeps
<1>9. CASE \E c \in Claim, i \in Intent, t \in Tx : Submit(c, i, t)
  BY <1>9, SubmitKeeps
<1>10. CASE UNCHANGED membershipVars
  <2>1. MembershipTypeOK'
    BY <1>10 DEF membershipVars, MembershipInv, MembershipTypeOK
  <2> QED
    BY <1>10, <2>1, BooksRest, AuditReceipts DEF membershipVars
<1> QED
  BY <1>1, <1>2, <1>3, <1>4, <1>5, <1>6, <1>7, <1>8, <1>9, <1>10 DEF MembershipNext

LEMMA MembershipInvSound == MembershipInv => OnePeriodEach
<1> SUFFICES ASSUME MembershipInv PROVE OnePeriodEach
  OBVIOUS
<1>1. \A t \in Tx : bought[t].status = "active" => receipt[t] = "canonical"
  BY DEF MembershipInv, PeriodsRecorded
<1>2. \A t, u \in Tx : t # u /\ "none" \notin {bought[t].status, bought[u].status}
       => bought[t].from # bought[u].from
  BY DEF MembershipInv, Laid, Held
<1>3. ASSUME NEW t \in Tx, bought[t].status = "active", Ends(t) > clock PROVE HasAccess
  <2>1. t \in Held
    BY <1>3 DEF Held
  <2>2. PICK u \in Tx : Latest(u)
    BY <2>1, LatestIsLast
  <2>3. Ends(u) >= Ends(t)
    BY <2>1, <2>2, LatestIsLast
  <2>4. bought[u].status = "active"
    BY <1>3, <2>2 DEF Latest
  <2>5. Ends(u) \in Nat /\ Ends(t) \in Nat /\ clock \in Nat
    BY BoughtType DEF MembershipInv
  <2>6. Ends(u) > clock
    BY <1>3, <2>3, <2>5
  <2> QED
    BY <2>2, <2>4, <2>6 DEF HasAccess
<1> QED
  BY <1>1, <1>2, <1>3 DEF OnePeriodEach

\* Whatever claims overlap, chains reorganise and audits take back: each payment
\* buys a period of its own, and what is left of the rest opens the Lab.
THEOREM MembershipTheorem == MembershipSpec => []OnePeriodEach
<1>1. MembershipInit => MembershipInv
  BY MembershipInitInv
<1>2. MembershipInv /\ [MembershipNext]_membershipVars => MembershipInv'
  BY MembershipNextKeeps
<1>3. MembershipInv => OnePeriodEach
  BY MembershipInvSound
<1> QED
  BY <1>1, <1>2, <1>3, PTL DEF MembershipSpec
-----------------------------------------------------------------------------
(* Payouts: an epoch hands out no more than its profit, once.              *)

AtWork(row) == row.pc \in {"narrate", "send", "backoff"}
Paying(row) == row.pc \in {"send", "backoff"}

Amounts(row) == [h \in Holder |-> row[h].amount]

\* Epochs are numbered in order, and their periods are over.
Numbered ==
  /\ \A e \in Written : 1 .. e \subseteq Written /\ epoch[e].to <= Len(pnl)
  /\ \A r \in PayRun : payRun[r].of.to <= Len(pnl)

\* Nobody is signed for before the epoch is handed out.
Untouched ==
  \A e \in Epochs : epoch[e].status \in {"none", "computed", "needs_review"} =>
    \A h \in Holder : sends[e][h] = 0 /\ item[e][h].status \in {"none", "queued"}

\* An epoch has one request at work on it, and its status tells what it does.
OnePayer ==
  /\ \A r \in PayRun : AtWork(payRun[r]) =>
       /\ payRun[r].epoch \in Epochs
       /\ epoch[payRun[r].epoch].status =
            IF Paying(payRun[r]) THEN "distributing" ELSE "computed"
  /\ \A r, q \in PayRun : r # q /\ AtWork(payRun[r]) /\ AtWork(payRun[q]) =>
       payRun[r].epoch # payRun[q].epoch

\* A holder waits once, untouched; the first one was called as often as it
\* was tried.
Waits(row, calls, items) ==
  /\ row.left # <<>> /\ IsInjective(row.left)
  /\ row.try \in 1 .. 3 /\ (row.pc = "backoff" => row.try < 3)
  /\ calls[row.left[1]] = row.try
  /\ \A i \in 2 .. Len(row.left) : calls[row.left[i]] = 0
  /\ \A i \in 1 .. Len(row.left) : items[row.left[i]].status # "sent"

Waiting ==
  \A r \in PayRun : Paying(payRun[r]) =>
    Waits(payRun[r], sends[payRun[r].epoch], item[payRun[r].epoch])

SentThrice == \A e \in Epochs, h \in Holder : sends[e][h] <= 3

PayoutInv ==
  /\ PayoutTypeOK /\ WithinProfit /\ Numbered /\ Untouched /\ OnePayer /\ Waiting
  /\ SentThrice

LEMMA PayoutConstants ==
  /\ Threshold \in Nat /\ AutoCap \in Nat /\ MaxEpoch \in Nat /\ MaxDay \in Nat
  /\ IsFiniteSet(Holder) /\ Pnl \subseteq Int /\ Balances \subseteq [Holder -> Nat]
  BY PayoutAssumption

LEMMA PayoutTypes ==
  PayoutInv => /\ pnl \in Seq(Pnl) /\ Len(pnl) <= MaxDay /\ Len(pnl) \in Nat
               /\ epoch \in [Epochs -> EpochRow]
               /\ item \in [Epochs -> [Holder -> ItemRow]]
               /\ sends \in [Epochs -> [Holder -> Nat]]
               /\ payRun \in [PayRun -> RunRow]
  BY DEF PayoutInv, PayoutTypeOK

LEMMA IdleRunType == IdleRun \in RunRow /\ ~AtWork(IdleRun) /\ IdleRun.of.to = 0
<1>1. 0 \in 0 .. MaxEpoch /\ 0 \in 0 .. 3
  BY PayoutConstants
<1> QED
  BY <1>1 DEF IdleRun, RunRow, AtWork

\* Everything but one epoch and the request at work on it rests.
LEMMA OneEpochMoves ==
  ASSUME PayoutInv, NEW r \in PayRun, NEW e \in Epochs, PayoutTypeOK', pnl' = pnl,
         \A d \in Epochs : d # e => /\ epoch'[d] = epoch[d] /\ item'[d] = item[d]
                                   /\ sends'[d] = sends[d],
         \A q \in PayRun : q # r =>
           payRun'[q] = payRun[q] /\ (AtWork(payRun[q]) => payRun[q].epoch # e),
         AtWork(payRun'[r]) =>
           /\ payRun'[r].epoch = e
           /\ epoch'[e].status = IF Paying(payRun'[r]) THEN "distributing" ELSE "computed",
         Paying(payRun'[r]) => Waits(payRun'[r], sends'[e], item'[e]),
         payRun'[r].of.to <= Len(pnl), epoch'[e].to <= Len(pnl),
         epoch'[e].status # "none", (1 .. e) \ {e} \subseteq Written,
         epoch'[e].status \in {"computed", "needs_review"} =>
           \A h \in Holder : sends'[e][h] = 0 /\ item'[e][h].status \in {"none", "queued"},
         \A h \in Holder : sends'[e][h] <= 3,
         SumFunctionOnSet(Amounts(item'[e]), Holder) <= epoch'[e].profit
  PROVE  PayoutInv'
<1>1. \A d \in Epochs : d # e => epoch'[d] = epoch[d]
  OBVIOUS
<1>2. \A d \in Epochs : d # e => item'[d] = item[d]
  OBVIOUS
<1>3. \A d \in Epochs : d # e => sends'[d] = sends[d]
  OBVIOUS
<1>4. \A q \in PayRun : q # r => payRun'[q] = payRun[q]
  OBVIOUS
<1>5. PayoutTypeOK'
  OBVIOUS
<1>6. WithinProfit'
  <2>1. \A d \in Epochs : SumFunctionOnSet(Amounts(item[d]), Holder) <= epoch[d].profit
    BY DEF PayoutInv, WithinProfit, Amounts
  <2>2. \A d \in Epochs :
          SumFunctionOnSet([h \in Holder |-> item'[d][h].amount], Holder) <= epoch'[d].profit
    BY <1>1, <1>2, <2>1 DEF Amounts
  <2> QED
    BY <2>2 DEF WithinProfit
<1>7. Written' = Written \cup {e}
  BY <1>1 DEF Written
<1>8. Numbered'
  <2>1. 1 .. e \subseteq Written \cup {e}
    BY DEF Epochs
  <2>2. \A d \in Written : d \in Epochs /\ 1 .. d \subseteq Written /\ epoch[d].to <= Len(pnl)
    BY DEF PayoutInv, Numbered, Written
  <2>3. \A d \in Written' : 1 .. d \subseteq Written' /\ epoch'[d].to <= Len(pnl')
    BY <1>1, <1>7, <2>1, <2>2
  <2>4. \A q \in PayRun : payRun'[q].of.to <= Len(pnl')
    BY <1>4 DEF PayoutInv, Numbered
  <2> QED
    BY <2>3, <2>4 DEF Numbered
<1>9. Untouched'
  BY <1>1, <1>2, <1>3 DEF PayoutInv, Untouched
<1>10. OnePayer'
  <2>1. \A q \in PayRun \ {r} : AtWork(payRun[q]) =>
          /\ payRun[q].epoch \in Epochs \ {e}
          /\ epoch[payRun[q].epoch].status =
               IF Paying(payRun[q]) THEN "distributing" ELSE "computed"
    BY DEF PayoutInv, OnePayer
  <2>2. \A q \in PayRun : AtWork(payRun'[q]) =>
          /\ payRun'[q].epoch \in Epochs
          /\ epoch'[payRun'[q].epoch].status =
               IF Paying(payRun'[q]) THEN "distributing" ELSE "computed"
    <3> SUFFICES ASSUME NEW q \in PayRun, AtWork(payRun'[q])
                 PROVE  /\ payRun'[q].epoch \in Epochs
                        /\ epoch'[payRun'[q].epoch].status =
                             IF Paying(payRun'[q]) THEN "distributing" ELSE "computed"
      OBVIOUS
    <3>1. CASE q = r
      BY <1>1, <1>4, <3>1
    <3>2. CASE q # r
      BY <1>1, <1>4, <2>1, <3>2
    <3> QED
      BY <3>1, <3>2
  <2>3. \A p, q \in PayRun : p # q /\ AtWork(payRun'[p]) /\ AtWork(payRun'[q]) =>
          payRun'[p].epoch # payRun'[q].epoch
    BY <1>4, <2>1 DEF PayoutInv, OnePayer
  <2> QED
    BY <2>2, <2>3 DEF OnePayer
<1>11. Waiting'
  <2> SUFFICES ASSUME NEW q \in PayRun, Paying(payRun'[q])
               PROVE  Waits(payRun'[q], sends'[payRun'[q].epoch], item'[payRun'[q].epoch])
    BY DEF Waiting
  <2>1. CASE q = r
    <3>1. payRun'[r].epoch = e /\ Waits(payRun'[r], sends'[e], item'[e])
      BY <2>1 DEF AtWork, Paying
    <3> QED
      BY <2>1, <3>1
  <2>2. CASE q # r
    <3>1. payRun'[q] = payRun[q] /\ AtWork(payRun[q]) /\ payRun[q].epoch \in Epochs \ {e}
      BY <1>4, <2>2 DEF AtWork, Paying, PayoutInv, OnePayer
    <3>2. Waits(payRun[q], sends[payRun[q].epoch], item[payRun[q].epoch])
      BY <3>1 DEF PayoutInv, Waiting
    <3> QED
      BY <1>2, <1>3, <3>1, <3>2
  <2> QED
    BY <2>1, <2>2
<1>12. SentThrice'
  BY <1>3 DEF PayoutInv, SentThrice
<1> QED
  BY <1>5, <1>6, <1>8, <1>9, <1>10, <1>11, <1>12 DEF PayoutInv

LEMMA PayoutInitInv == PayoutInit => PayoutInv
<1> SUFFICES ASSUME PayoutInit PROVE PayoutInv
  OBVIOUS
<1> USE DEF PayoutInit
<1>1. IdleRun \in RunRow /\ ~AtWork(IdleRun) /\ IdleRun.of.to = 0 /\ ~Paying(IdleRun)
  BY IdleRunType DEF AtWork, Paying
<1>2. PayoutTypeOK
  BY <1>1, PayoutConstants DEF PayoutTypeOK, EpochRow, ItemRow
<1>3. WithinProfit
  <2> SUFFICES ASSUME NEW e \in Epochs
               PROVE  SumFunctionOnSet([h \in Holder |-> item[e][h].amount], Holder)
                        <= epoch[e].profit
    BY DEF WithinProfit
  <2> DEFINE none == [h \in Holder |-> item[e][h].amount]
  <2>1. \A h \in Holder : none[h] = 0
    OBVIOUS
  <2>2. epoch[e].profit = 0
    OBVIOUS
  <2> HIDE DEF none
  <2>3. SumFunctionOnSet(none, Holder) = 0
    BY <2>1, PayoutConstants, SumZero
  <2>4. SumFunctionOnSet(none, Holder) <= epoch[e].profit
    BY <2>2, <2>3
  <2> QED
    BY <2>4 DEF none
<1>4. Written = {}
  BY DEF Written
<1>5. Numbered
  BY <1>1, <1>4 DEF Numbered
<1> QED
  BY <1>1, <1>2, <1>3, <1>5 DEF PayoutInv, Untouched, OnePayer, Waiting, SentThrice

LEMMA TradeKeeps == PayoutInv /\ Trade => PayoutInv'
<1> SUFFICES ASSUME PayoutInv, Trade PROVE PayoutInv'
  OBVIOUS
<1>1. /\ pnl' \in Seq(Pnl) /\ Len(pnl') = Len(pnl) + 1 /\ Len(pnl') <= MaxDay
      /\ UNCHANGED <<epoch, item, sends, payRun>>
  BY PayoutTypes, PayoutConstants DEF Trade
<1>2. PayoutTypeOK'
  BY <1>1 DEF PayoutInv, PayoutTypeOK
<1>3. Numbered'
  <2>1. \A r \in PayRun : payRun[r].of.to \in Nat
    BY PayoutTypes DEF RunRow
  <2>2. \A e \in Epochs : epoch[e].to \in Nat
    BY PayoutTypes DEF EpochRow
  <2>3. \A r \in PayRun : payRun[r].of.to <= Len(pnl) + 1
    BY <2>1, PayoutTypes DEF PayoutInv, Numbered
  <2>4. \A e \in Written : e \in Epochs /\ epoch[e].to <= Len(pnl) + 1
    BY <2>2, PayoutTypes DEF PayoutInv, Numbered, Written
  <2> QED
    BY <1>1, <2>3, <2>4 DEF PayoutInv, Numbered, Written
<1> QED
  BY <1>1, <1>2, <1>3
  DEF PayoutInv, WithinProfit, Untouched, OnePayer, Waiting, SentThrice

LEMMA PayerDiesKeeps == PayoutInv /\ PayerDies => PayoutInv'
<1> SUFFICES ASSUME PayoutInv, PayerDies PROVE PayoutInv'
  OBVIOUS
<1>1. /\ \A r \in PayRun : payRun'[r] = IdleRun
      /\ payRun' \in [PayRun -> RunRow] /\ UNCHANGED <<pnl, epoch, item, sends>>
  BY IdleRunType DEF PayerDies
<1>2. PayoutTypeOK'
  BY <1>1 DEF PayoutInv, PayoutTypeOK
<1>3. Numbered'
  BY <1>1, IdleRunType, PayoutTypes DEF PayoutInv, Numbered, Written
<1>4. ~Paying(IdleRun)
  BY IdleRunType DEF AtWork, Paying
<1> QED
  BY <1>1, <1>2, <1>3, <1>4, IdleRunType
  DEF PayoutInv, WithinProfit, Untouched, OnePayer, Waiting, SentThrice
-------------------------------------------------------------------------------
LEMMA PeriodFromType ==
  ASSUME PayoutInv PROVE PeriodFrom \in Nat
<1>1. CASE Written # {}
  <2> DEFINE S == {epoch[e].to : e \in Written}
  <2>1. \A e \in Written : epoch[e].to \in 0 .. Len(pnl)
    BY PayoutTypes DEF PayoutInv, Numbered, Written, EpochRow
  <2>2. S \subseteq 0 .. Len(pnl) /\ S # {}
    BY <1>1, <2>1
  <2>3. PeriodFrom = Max(S)
    BY <1>1 DEF PeriodFrom
  <2> HIDE DEF S
  <2>4. Max(S) \in S
    BY <2>2, PayoutTypes, LargestUpTo
  <2>5. PeriodFrom \in 0 .. Len(pnl)
    BY <2>2, <2>3, <2>4
  <2> QED
    BY <2>5, PayoutTypes
<1>2. CASE Written = {}
  <2>1. pnl # <<>> => Len(pnl) - 1 \in Nat
    BY PayoutTypes
  <2> QED
    BY <1>2, <2>1 DEF PeriodFrom
<1> QED
  BY <1>1, <1>2

LEMMA ProfitType ==
  ASSUME PayoutInv, NEW from \in Nat PROVE ProfitOf(from, Len(pnl)) \in Nat
<1> DEFINE passed == from + 1 .. Len(pnl)
<1>1. IsFiniteSet(passed)
  BY PayoutTypes, FS_Interval
<1>2. \A d \in passed : pnl[d] \in Int
  <2>1. \A d \in 1 .. Len(pnl) : pnl[d] \in Pnl
    BY PayoutTypes
  <2>2. passed \subseteq 1 .. Len(pnl)
    BY PayoutTypes
  <2> QED
    BY <2>1, <2>2, PayoutConstants
<1>3. SumFunctionOnSet(pnl, passed) \in Int
  BY <1>1, <1>2, SumNumbers
<1> QED
  BY <1>3 DEF ProfitOf

LEMMA CloseEpochKeeps ==
  ASSUME PayoutInv, NEW r \in PayRun, CloseEpoch(r) PROVE PayoutInv'
<1> DEFINE of == [from |-> PeriodFrom, to |-> Len(pnl),
                  profit |-> ProfitOf(PeriodFrom, Len(pnl))]
           row == [IdleRun EXCEPT !.pc = "holders", !.of = of]
<1>1. payRun' = [payRun EXCEPT ![r] = row] /\ UNCHANGED <<pnl, epoch, item, sends>>
  BY DEF CloseEpoch
<1>2. of \in [from : Nat, to : Nat, profit : Nat] /\ of.to = Len(pnl)
  BY PeriodFromType, ProfitType, PayoutTypes
<1> HIDE DEF of
<1>3. row \in RunRow /\ row.pc = "holders" /\ row.of = of
  BY <1>2, IdleRunType DEF RunRow
<1> HIDE DEF row
<1>4. /\ payRun' \in [PayRun -> RunRow] /\ payRun'[r] = row
      /\ \A q \in PayRun : q # r => payRun'[q] = payRun[q]
  BY <1>1, <1>3, PayoutTypes
<1>5. ~AtWork(row) /\ ~Paying(row)
  BY <1>3 DEF AtWork, Paying
<1>6. PayoutTypeOK'
  BY <1>1, <1>4 DEF PayoutInv, PayoutTypeOK
<1>7. Numbered'
  BY <1>1, <1>2, <1>3, <1>4, PayoutTypes DEF PayoutInv, Numbered, Written
<1>8. OnePayer'
  BY <1>1, <1>4, <1>5 DEF PayoutInv, OnePayer
<1>9. Waiting'
  BY <1>1, <1>4, <1>5 DEF PayoutInv, Waiting
<1> QED
  BY <1>1, <1>6, <1>7, <1>8, <1>9
  DEF PayoutInv, WithinProfit, Untouched, SentThrice

\* What computePayouts hands out is no more than the profit.
LEMMA ItemsWithin ==
  ASSUME NEW profit \in Nat, NEW balance \in [Holder -> Nat]
  PROVE  /\ Items(profit, balance) \in [Holder -> ItemRow]
         /\ \A h \in Holder : Items(profit, balance)[h].status \in {"none", "queued"}
         /\ SumFunctionOnSet(Amounts(Items(profit, balance)), Holder) <= profit
<1> DEFINE items == Items(profit, balance)
           E == Eligible(balance)
           out == Amounts(items)
<1>1. E \subseteq Holder /\ IsFiniteSet(E) /\ \A h \in E : balance[h] \in Nat
  BY PayoutConstants, FS_Subset DEF Eligible
<1>2. Supply(balance) = SumFunctionOnSet(balance, E)
  BY DEF Supply
<1>3. Supply(balance) \in Nat
  BY <1>1, <1>2, SumFewer
<1>4. CASE profit > 0 /\ Supply(balance) > 0
  <2>1. \A h \in Holder :
          items[h] = IF h \in E THEN [status |-> "queued",
                                      amount |-> Share(profit, balance, h)]
                     ELSE [status |-> "none", amount |-> 0]
    BY <1>4 DEF Items
  <2>2. \A h \in E : Share(profit, balance, h) \in Nat
    <3> SUFFICES ASSUME NEW h \in E PROVE Share(profit, balance, h) \in Nat
      OBVIOUS
    <3>1. profit * balance[h] \in Nat /\ Supply(balance) \in Nat \ {0}
      BY <1>1, <1>3, <1>4
    <3> QED
      BY <3>1, QuotientFits DEF Share
  <2>3. items \in [Holder -> ItemRow]
    BY <2>1, <2>2 DEF Items, ItemRow
  <2>8. \A h \in Holder : out[h] = IF h \in E THEN Share(profit, balance, h) ELSE 0
    <3> SUFFICES ASSUME NEW h \in Holder
                 PROVE  out[h] = IF h \in E THEN Share(profit, balance, h) ELSE 0
      OBVIOUS
    <3>1. out[h] = items[h].amount
      BY DEF Amounts
    <3>2. CASE h \in E
      <4>1. items[h] = [status |-> "queued", amount |-> Share(profit, balance, h)]
        BY <2>1, <3>2
      <4> QED
        BY <3>1, <3>2, <4>1
    <3>3. CASE h \notin E
      <4>1. items[h] = [status |-> "none", amount |-> 0]
        BY <2>1, <3>3
      <4> QED
        BY <3>1, <3>3, <4>1
    <3> QED
      BY <3>2, <3>3
  <2>4. \A h \in Holder : out[h] \in Int /\ (h \notin E => out[h] = 0)
    <3> HIDE DEF out, E
    <3> QED
      BY <2>2, <2>8
  <2>5. SumFunctionOnSet(out, Holder) = SumFunctionOnSet(out, E)
    <3> HIDE DEF out, E
    <3> QED
      BY <1>1, <2>4, PayoutConstants, SumSupport
  <2>6. \A h \in E : out[h] = (profit * balance[h]) \div SumFunctionOnSet(balance, E)
    <3> HIDE DEF out, E
    <3> QED
      BY <1>1, <1>2, <2>8 DEF Share
  <2>7. SumFunctionOnSet(out, E) <= profit
    <3> HIDE DEF out, E
    <3> QED
      BY <1>1, <1>2, <1>4, <2>6, SharesWithin
  <2> QED
    BY <2>1, <2>3, <2>5, <2>7
<1>5. CASE ~(profit > 0 /\ Supply(balance) > 0)
  <2>1. items = [h \in Holder |-> [status |-> "none", amount |-> 0]]
    BY <1>5 DEF Items
  <2>2. \A h \in Holder : out[h] = 0
    BY <2>1 DEF Amounts
  <2>3. SumFunctionOnSet(out, Holder) = 0
    <3> HIDE DEF out
    <3> QED
      BY <2>2, PayoutConstants, SumZero
  <2> QED
    BY <2>1, <2>3 DEF ItemRow
<1> QED
  BY <1>4, <1>5

\* The epochs written are the first so many.
LEMMA WrittenFirst ==
  ASSUME PayoutInv
  PROVE  Cardinality(Written) \in 0 .. MaxEpoch /\ Written = 1 .. Cardinality(Written)
<1>1. Written \subseteq Epochs /\ \A e \in Written : 1 .. e \subseteq Written
  BY DEF PayoutInv, Numbered, Written
<1>2. CASE Written = {}
  <2>1. Cardinality(Written) = 0 /\ 1 .. 0 = {}
    BY <1>2, FS_EmptySet
  <2> QED
    BY <1>2, <2>1, PayoutConstants
<1>3. CASE Written # {}
  <2>1. Written \subseteq 0 .. MaxEpoch
    BY <1>1, PayoutConstants DEF Epochs
  <2>2. PICK m \in Written : \A e \in Written : m >= e
    BY <1>3, <2>1, PayoutConstants, LargestUpTo
  <2>3. m \in 1 .. MaxEpoch /\ 1 .. m \subseteq Written
    BY <1>1 DEF Epochs
  <2>4. Written = 1 .. m
    <3>1. \A e \in Written : e \in 1 .. MaxEpoch
      BY <1>1 DEF Epochs
    <3>2. \A e \in Written : e \in 1 .. m
      BY <2>2, <2>3, <3>1
    <3> QED
      BY <2>3, <3>2
  <2>5. Cardinality(1 .. m) = m
    BY <2>3, FS_Interval, PayoutConstants
  <2>6. Cardinality(Written) = m
    BY <2>4, <2>5
  <2> QED
    BY <2>3, <2>4, <2>6, PayoutConstants
<1> QED
  BY <1>2, <1>3

LEMMA ComputeEpochKeeps ==
  ASSUME PayoutInv, NEW r \in PayRun, ComputeEpoch(r) PROVE PayoutInv'
<1>0. /\ payRun[r] \in RunRow /\ payRun[r].of \in [from : Nat, to : Nat, profit : Nat]
      /\ payRun[r].of.to <= Len(pnl)
  BY PayoutTypes DEF RunRow, PayoutInv, Numbered
<1>16. PICK e, of : e = Cardinality(Written) + 1 /\ of = payRun[r].of
  OBVIOUS
<1>1. PICK balance \in Balances :
        /\ payRun[r].pc = "holders" /\ Cardinality(Written) < MaxEpoch
        /\ epoch' = [epoch EXCEPT ![e] = [status |-> "computed", from |-> of.from,
                        to |-> of.to, profit |-> of.profit]]
        /\ item' = [item EXCEPT ![e] = Items(of.profit, balance)]
        /\ payRun' = [payRun EXCEPT ![r].pc = "narrate", ![r].epoch = e]
        /\ UNCHANGED <<pnl, sends>>
  BY <1>16 DEF ComputeEpoch
<1>2. /\ of \in [from : Nat, to : Nat, profit : Nat] /\ of.to <= Len(pnl)
  BY <1>0, <1>16
<1>3. e \in Epochs /\ e \notin Written /\ (1 .. e) \ {e} \subseteq Written
  BY <1>16, <1>1, WrittenFirst, PayoutConstants DEF Epochs
<1>4. epoch[e].status = "none" /\ e \in 0 .. MaxEpoch
  BY <1>3, PayoutConstants DEF Written, Epochs
<1> DEFINE erow == [status |-> "computed", from |-> of.from, to |-> of.to,
                    profit |-> of.profit]
           row == [payRun[r] EXCEPT !.pc = "narrate", !.epoch = e]
           items == Items(of.profit, balance)
<1>5. erow \in EpochRow /\ erow.status = "computed" /\ erow.to <= Len(pnl)
  BY <1>2 DEF EpochRow
<1>6. /\ row \in RunRow /\ row.pc = "narrate" /\ row.epoch = e /\ row.of.to <= Len(pnl)
  BY <1>0, <1>4 DEF RunRow
<1>7. balance \in [Holder -> Nat] /\ of.profit \in Nat
  BY <1>2, PayoutConstants
<1>8. /\ items \in [Holder -> ItemRow]
      /\ \A h \in Holder : items[h].status \in {"none", "queued"}
      /\ SumFunctionOnSet(Amounts(items), Holder) <= of.profit
  BY <1>7, ItemsWithin
<1>9. sends[e] \in [Holder -> Nat] /\ sends' = [sends EXCEPT ![e] = sends[e]]
  BY <1>1, <1>3, PayoutTypes
<1>10. \A h \in Holder : sends[e][h] = 0
  BY <1>3, <1>4 DEF PayoutInv, Untouched
<1>11. \A q \in PayRun \ {r} : AtWork(payRun[q]) => payRun[q].epoch # e
  BY <1>4 DEF PayoutInv, OnePayer
<1>12. payRun' = [payRun EXCEPT ![r] = row] /\ epoch' = [epoch EXCEPT ![e] = erow]
       /\ item' = [item EXCEPT ![e] = items] /\ erow.profit = of.profit /\ pnl' = pnl
  BY <1>1
<1> HIDE DEF row, erow, items
<1>13. AtWork(row) /\ ~Paying(row)
  BY <1>6 DEF AtWork, Paying
<1>14. \A h \in Holder : sends[e][h] <= 3
  BY <1>10
<1>15. /\ epoch' \in [Epochs -> EpochRow] /\ epoch'[e] = erow
       /\ \A d \in Epochs : d # e => epoch'[d] = epoch[d]
  BY <1>3, <1>5, <1>12, PayoutTypes
<1>17. /\ item' \in [Epochs -> [Holder -> ItemRow]] /\ item'[e] = items
       /\ \A d \in Epochs : d # e => item'[d] = item[d]
  BY <1>3, <1>8, <1>12, PayoutTypes
<1>18. /\ payRun' \in [PayRun -> RunRow] /\ payRun'[r] = row
       /\ \A q \in PayRun : q # r => payRun'[q] = payRun[q]
  BY <1>6, <1>12, PayoutTypes
<1>19. PayoutTypeOK' /\ sends' = sends
  BY <1>1, <1>15, <1>17, <1>18 DEF PayoutInv, PayoutTypeOK
<1> QED
  BY <1>3, <1>5, <1>6, <1>8, <1>10, <1>11, <1>12, <1>13, <1>14, <1>15, <1>17, <1>18, <1>19,
     OneEpochMoves
-------------------------------------------------------------------------------
(* Paying an epoch out.                                                     *)

\* Who was paid is not called again by this step.
NotAgain ==
  \A e \in Epochs, h \in Holder : item[e][h].status = "sent" => sends'[e][h] = sends[e][h]

LEMMA InARow ==
  ASSUME NEW S, S \subseteq Holder
  PROVE  SetToSeq(S) \in Seq(S) /\ IsInjective(SetToSeq(S))
<1> DEFINE n == Cardinality(S)
<1>1. IsFiniteSet(S) /\ n \in Nat
  BY PayoutConstants, FS_Subset, FS_CardinalityType
<1>2. IsFiniteSet(1 .. n) /\ Cardinality(1 .. n) = n
  BY <1>1, FS_Interval
<1>3. ExistsBijection(1 .. n, S)
  BY <1>1, <1>2, FS_SameCardinalityBij
<1>4. \E f \in [1 .. n -> S] : IsInjective(f)
  BY <1>3 DEF ExistsBijection, Bijection, Injection
<1>5. SetToSeq(S) \in [1 .. n -> S] /\ IsInjective(SetToSeq(S))
  BY <1>4 DEF SetToSeq
<1> QED
  BY <1>1, <1>5

LEMMA TailInARow ==
  ASSUME NEW S, NEW left \in Seq(S), left # <<>>, IsInjective(left)
  PROVE  /\ Tail(left) \in Seq(S) /\ IsInjective(Tail(left)) /\ Head(left) = left[1]
         /\ left[1] \in S
         /\ \A i \in 1 .. Len(Tail(left)) : i + 1 \in 2 .. Len(left)
              /\ Tail(left)[i] = left[i + 1] /\ left[i + 1] # left[1]
<1>1. /\ Tail(left) \in Seq(S) /\ Len(Tail(left)) = Len(left) - 1 /\ Len(left) \in Nat \ {0}
      /\ \A i \in 1 .. Len(Tail(left)) : Tail(left)[i] = left[i + 1]
      /\ DOMAIN left = 1 .. Len(left) /\ DOMAIN Tail(left) = 1 .. Len(Tail(left))
  OBVIOUS
<1>2. \A i \in 1 .. Len(Tail(left)) : i + 1 \in 2 .. Len(left) /\ i + 1 \in DOMAIN left
                                      /\ i \in Int /\ i + 1 # 1
  BY <1>1
<1>3. 1 \in DOMAIN left /\ Head(left) = left[1] /\ left[1] \in S
  BY <1>1
<1>4. IsInjective(Tail(left))
  <2> SUFFICES ASSUME NEW i \in 1 .. Len(Tail(left)), NEW j \in 1 .. Len(Tail(left)),
                      Tail(left)[i] = Tail(left)[j]
               PROVE  i = j
    BY <1>1 DEF IsInjective
  <2>1. left[i + 1] = left[j + 1] /\ i + 1 \in DOMAIN left /\ j + 1 \in DOMAIN left
    BY <1>1, <1>2
  <2>2. i + 1 = j + 1
    BY <2>1 DEF IsInjective
  <2> QED
    BY <2>2, <1>2
<1>5. \A i \in 1 .. Len(Tail(left)) : left[i + 1] # left[1]
  BY <1>2, <1>3 DEF IsInjective
<1> QED
  BY <1>1, <1>2, <1>3, <1>4, <1>5

\* The next holder is signed for, or the epoch gets its last status.
LEMMA PayOnKeeps ==
  ASSUME PayoutInv, NEW r \in PayRun, NEW e \in Epochs, NEW items \in [Holder -> ItemRow],
         NEW left \in Seq(Holder), IsInjective(left), PayOn(r, e, items, left), pnl' = pnl,
         e \in Written, Amounts(items) = Amounts(item[e]),
         \A q \in PayRun : q # r => (AtWork(payRun[q]) => payRun[q].epoch # e),
         \A h \in Holder : item[e][h].status = "sent" => items[h].status = "sent",
         \A i \in 1 .. Len(left) : sends[e][left[i]] = 0 /\ items[left[i]].status # "sent"
  PROVE  PayoutInv' /\ NotAgain
<1>1. /\ epoch[e] \in EpochRow /\ epoch[e].status # "none" /\ epoch[e].to <= Len(pnl)
      /\ (1 .. e) \ {e} \subseteq Written /\ sends[e] \in [Holder -> Nat]
      /\ SumFunctionOnSet(Amounts(items), Holder) <= epoch[e].profit
      /\ \A h \in Holder : sends[e][h] <= 3 /\ sends[e][h] \in Nat
  <2>1. epoch[e] \in EpochRow /\ sends[e] \in [Holder -> Nat]
    BY PayoutTypes
  <2>2. SumFunctionOnSet(Amounts(item[e]), Holder) <= epoch[e].profit
    BY DEF PayoutInv, WithinProfit, Amounts
  <2> QED
    BY <2>1, <2>2 DEF PayoutInv, Numbered, SentThrice, Written
<1>2. CASE left # <<>>
  <2> DEFINE h == left[1]
             paid == [items EXCEPT ![h].status = "signed"]
             row == [IdleRun EXCEPT !.pc = "send", !.epoch = e, !.left = left, !.try = 1]
             calls == [sends[e] EXCEPT ![h] = @ + 1]
             erow == [epoch[e] EXCEPT !.status = "distributing"]
  <2>1. /\ h \in Holder /\ Head(left) = h /\ sends[e][h] = 0 /\ items[h].status # "sent"
        /\ 1 \in 1 .. Len(left) /\ Len(left) \in Nat /\ DOMAIN left = 1 .. Len(left)
    BY <1>2
  <2>2. /\ epoch' = [epoch EXCEPT ![e] = erow] /\ item' = [item EXCEPT ![e] = paid]
        /\ sends' = [sends EXCEPT ![e] = calls] /\ payRun' = [payRun EXCEPT ![r] = row]
    BY <1>2, <2>1 DEF PayOn
  <2>3. /\ erow \in EpochRow /\ erow.status = "distributing" /\ erow.to = epoch[e].to
        /\ erow.profit = epoch[e].profit
    BY <1>1 DEF EpochRow
  <2>4. /\ paid \in [Holder -> ItemRow] /\ paid[h].status = "signed"
        /\ \A k \in Holder : k # h => paid[k] = items[k]
        /\ \A k \in Holder : paid[k].amount = items[k].amount
    BY <2>1 DEF ItemRow
  <2>5. /\ calls \in [Holder -> Nat] /\ calls[h] = 1
        /\ \A k \in Holder : k # h => calls[k] = sends[e][k]
    BY <1>1, <2>1
  <2>6. /\ row \in RunRow /\ row.pc = "send" /\ row.epoch = e /\ row.left = left
        /\ row.try = 1 /\ row.of.to = 0
    <3>1. e \in 0 .. MaxEpoch /\ 1 \in 0 .. 3
      BY PayoutConstants DEF Epochs
    <3> QED
      BY <3>1, IdleRunType DEF RunRow
  <2> HIDE DEF paid, row, calls, erow
  <2>7. Amounts(paid) = Amounts(items)
    BY <2>4 DEF Amounts
  <2>8. Waits(row, calls, paid)
    <3>1. ASSUME NEW i \in 2 .. Len(left)
          PROVE  left[i] \in Holder /\ left[i] # h /\ i \in 1 .. Len(left)
      <4>1. i \in 1 .. Len(left) /\ i # 1
        BY <2>1
      <4>2. left[i] # left[1]
        BY <2>1, <4>1 DEF IsInjective
      <4> QED
        BY <4>1, <4>2
    <3>2. \A i \in 2 .. Len(left) : calls[left[i]] = 0
      BY <2>5, <3>1
    <3>3. ASSUME NEW i \in 1 .. Len(left) PROVE paid[left[i]].status # "sent"
      <4>1. CASE left[i] = h
        BY <2>4, <4>1
      <4>2. CASE left[i] # h
        BY <2>4, <4>2
      <4> QED
        BY <4>1, <4>2
    <3> QED
      BY <1>2, <2>5, <2>6, <3>2, <3>3 DEF Waits
  <2>9. /\ epoch' \in [Epochs -> EpochRow] /\ epoch'[e] = erow
        /\ \A d \in Epochs : d # e => epoch'[d] = epoch[d]
    BY <2>2, <2>3, PayoutTypes
  <2>10. /\ item' \in [Epochs -> [Holder -> ItemRow]] /\ item'[e] = paid
         /\ \A d \in Epochs : d # e => item'[d] = item[d]
    BY <2>2, <2>4, PayoutTypes
  <2>11. /\ sends' \in [Epochs -> [Holder -> Nat]] /\ sends'[e] = calls
         /\ \A d \in Epochs : d # e => sends'[d] = sends[d]
    BY <2>2, <2>5, PayoutTypes
  <2>12. /\ payRun' \in [PayRun -> RunRow] /\ payRun'[r] = row
         /\ \A q \in PayRun : q # r => payRun'[q] = payRun[q]
    BY <2>2, <2>6, PayoutTypes
  <2>13. PayoutTypeOK'
    BY <2>9, <2>10, <2>11, <2>12 DEF PayoutInv, PayoutTypeOK
  <2>14. ASSUME NEW k \in Holder PROVE calls[k] <= 3
    <3>1. CASE k = h
      BY <2>5, <3>1
    <3>2. CASE k # h
      BY <1>1, <2>5, <3>2
    <3> QED
      BY <3>1, <3>2
  <2>15. row.of.to <= Len(pnl) /\ AtWork(row) /\ Paying(row)
    BY <2>6, PayoutTypes DEF AtWork, Paying
  <2>18. /\ AtWork(payRun'[r]) /\ Paying(payRun'[r]) /\ payRun'[r].epoch = e
         /\ Waits(payRun'[r], sends'[e], item'[e]) /\ payRun'[r].of.to <= Len(pnl)
    BY <2>6, <2>8, <2>10, <2>11, <2>12, <2>15
  <2>19. /\ epoch'[e].status = "distributing" /\ epoch'[e].to <= Len(pnl)
         /\ SumFunctionOnSet(Amounts(item'[e]), Holder) <= epoch'[e].profit
    BY <1>1, <2>3, <2>7, <2>9, <2>10
  <2>20. \A k \in Holder : sends'[e][k] <= 3
    BY <2>11, <2>14
  <2>21. \A d \in Epochs : d # e => /\ epoch'[d] = epoch[d] /\ item'[d] = item[d]
                                   /\ sends'[d] = sends[d]
    BY <2>9, <2>10, <2>11
  <2>22. \A q \in PayRun : q # r =>
           payRun'[q] = payRun[q] /\ (AtWork(payRun[q]) => payRun[q].epoch # e)
    BY <2>12
  <2>23. AtWork(payRun'[r]) =>
           /\ payRun'[r].epoch = e
           /\ epoch'[e].status = IF Paying(payRun'[r]) THEN "distributing" ELSE "computed"
    BY <2>18, <2>19
  <2>24. Paying(payRun'[r]) => Waits(payRun'[r], sends'[e], item'[e])
    BY <2>18
  <2>25. /\ epoch'[e].status # "none"
         /\ epoch'[e].status \in {"computed", "needs_review"} =>
              \A k \in Holder : sends'[e][k] = 0 /\ item'[e][k].status \in {"none", "queued"}
    BY <2>19
  <2>26. (1 .. e) \ {e} \subseteq Written
    BY <1>1
  <2>16. PayoutInv'
    BY <2>13, <2>18, <2>19, <2>20, <2>21, <2>22, <2>23, <2>24, <2>25, <2>26, OneEpochMoves
  <2>17. NotAgain
    BY <2>1, <2>5, <2>11 DEF NotAgain
  <2> QED
    BY <2>16, <2>17
<1>3. CASE left = <<>>
  <2>1. PICK s \in {"done", "distributing"} :
          epoch' = [epoch EXCEPT ![e] = [epoch[e] EXCEPT !.status = s]]
    BY <1>3 DEF PayOn
  <2>2. /\ item' = [item EXCEPT ![e] = items] /\ payRun' = [payRun EXCEPT ![r] = IdleRun]
        /\ sends' = sends
    BY <1>3 DEF PayOn
  <2> DEFINE erow == [epoch[e] EXCEPT !.status = s]
  <2>3. /\ erow \in EpochRow /\ erow.status = s /\ erow.to = epoch[e].to
        /\ erow.profit = epoch[e].profit
    BY <1>1 DEF EpochRow
  <2>4. /\ epoch' \in [Epochs -> EpochRow] /\ epoch'[e] = erow
        /\ \A d \in Epochs : d # e => epoch'[d] = epoch[d]
    BY <2>1, <2>3, PayoutTypes
  <2> HIDE DEF erow
  <2>5. /\ item' \in [Epochs -> [Holder -> ItemRow]] /\ item'[e] = items
        /\ \A d \in Epochs : d # e => item'[d] = item[d]
    BY <2>2, PayoutTypes
  <2>6. /\ payRun' \in [PayRun -> RunRow] /\ payRun'[r] = IdleRun
        /\ \A q \in PayRun : q # r => payRun'[q] = payRun[q]
    BY <2>2, IdleRunType, PayoutTypes
  <2>7. PayoutTypeOK'
    BY <2>2, <2>4, <2>5, <2>6 DEF PayoutInv, PayoutTypeOK
  <2>8. ~AtWork(IdleRun) /\ ~Paying(IdleRun) /\ IdleRun.of.to <= Len(pnl)
    BY IdleRunType, PayoutTypes DEF AtWork, Paying
  <2>11. epoch'[e].status \notin {"none", "computed", "needs_review"}
    BY <2>3, <2>4
  <2>12. \A h \in Holder : sends'[e][h] <= 3
    BY <1>1, <2>2
  <2>13. \A q \in PayRun : q # r =>
           payRun'[q] = payRun[q] /\ (AtWork(payRun[q]) => payRun[q].epoch # e)
    BY <2>6
  <2>14. /\ epoch'[e].to <= Len(pnl)
         /\ SumFunctionOnSet(Amounts(item'[e]), Holder) <= epoch'[e].profit
    BY <1>1, <2>3, <2>4, <2>5
  <2>9. PayoutInv'
    BY <1>1, <2>2, <2>4, <2>5, <2>6, <2>7, <2>8, <2>11, <2>12, <2>13, <2>14, OneEpochMoves
  <2>10. NotAgain
    BY <2>2 DEF NotAgain
  <2> QED
    BY <2>9, <2>10
<1> QED
  BY <1>2, <1>3

LEMMA DistributeKeeps ==
  ASSUME PayoutInv, NEW r \in PayRun, NEW e \in Written, Distribute(r, e), pnl' = pnl,
         epoch[e].status \in {"computed", "needs_review"},
         \A q \in PayRun : q # r => (AtWork(payRun[q]) => payRun[q].epoch # e)
  PROVE  PayoutInv' /\ NotAgain
<1> DEFINE S == {h \in Holder : item[e][h].status \in {"queued", "failed"}}
<1>1. PICK left : left = SetToSeq(S)
  OBVIOUS
<1>2. S \subseteq Holder /\ left \in Seq(S) /\ IsInjective(left)
  BY <1>1, InARow
<1>3. \A i \in 1 .. Len(left) : left[i] \in S
  BY <1>2
<1>4. left \in Seq(Holder)
  BY <1>2
<1>5. e \in Epochs /\ item[e] \in [Holder -> ItemRow]
  BY PayoutTypes DEF Written
<1>6. \A i \in 1 .. Len(left) : sends[e][left[i]] = 0 /\ item[e][left[i]].status # "sent"
  BY <1>3, <1>5 DEF PayoutInv, Untouched
<1>7. PICK items : items = item[e]
  OBVIOUS
<1>8. PayOn(r, e, items, left)
  BY <1>1, <1>7 DEF Distribute
<1>9. /\ items \in [Holder -> ItemRow] /\ Amounts(items) = Amounts(item[e])
      /\ \A h \in Holder : item[e][h].status = "sent" => items[h].status = "sent"
      /\ \A i \in 1 .. Len(left) : sends[e][left[i]] = 0 /\ items[left[i]].status # "sent"
  BY <1>5, <1>6, <1>7
<1> HIDE DEF S
<1> QED
  BY <1>2, <1>4, <1>5, <1>8, <1>9, PayOnKeeps

\* No other request is at work on the epoch that this one pays.
LEMMA Alone ==
  ASSUME PayoutInv, NEW r \in PayRun, AtWork(payRun[r])
  PROVE  /\ payRun[r].epoch \in Epochs /\ payRun[r].epoch \in Written
         /\ \A q \in PayRun : q # r => (AtWork(payRun[q]) => payRun[q].epoch # payRun[r].epoch)
  BY DEF PayoutInv, OnePayer, Written

LEMMA NarratedKeeps ==
  ASSUME PayoutInv, NEW r \in PayRun, Narrated(r) PROVE PayoutInv' /\ NotAgain
<1>1. payRun[r].pc = "narrate" /\ pnl' = pnl /\ AtWork(payRun[r]) /\ ~Paying(payRun[r])
  BY DEF Narrated, AtWork, Paying
<1>2. PICK e : e = payRun[r].epoch
  OBVIOUS
<1>3. /\ e \in Epochs /\ e \in Written /\ epoch[e].status = "computed"
      /\ \A q \in PayRun : q # r => (AtWork(payRun[q]) => payRun[q].epoch # e)
  BY <1>1, <1>2, Alone DEF PayoutInv, OnePayer
<1>4. CASE Distribute(r, e)
  BY <1>1, <1>3, <1>4, DistributeKeeps
<1>5. CASE /\ epoch' = [epoch EXCEPT ![e].status = "needs_review"]
           /\ payRun' = [payRun EXCEPT ![r] = IdleRun]
           /\ UNCHANGED <<item, sends>>
  <2> DEFINE erow == [epoch[e] EXCEPT !.status = "needs_review"]
  <2>1. epoch[e] \in EpochRow /\ epoch[e].to <= Len(pnl) /\ (1 .. e) \ {e} \subseteq Written
    BY <1>3, PayoutTypes DEF PayoutInv, Numbered
  <2>2. /\ erow \in EpochRow /\ erow.status = "needs_review" /\ erow.to = epoch[e].to
        /\ erow.profit = epoch[e].profit
    BY <2>1 DEF EpochRow
  <2>3. /\ epoch' \in [Epochs -> EpochRow] /\ epoch'[e] = erow
        /\ \A d \in Epochs : d # e => epoch'[d] = epoch[d]
    BY <1>3, <1>5, <2>2, PayoutTypes
  <2> HIDE DEF erow
  <2>4. /\ payRun' \in [PayRun -> RunRow] /\ payRun'[r] = IdleRun
        /\ \A q \in PayRun : q # r => payRun'[q] = payRun[q]
    BY <1>5, IdleRunType, PayoutTypes
  <2>5. PayoutTypeOK'
    BY <1>1, <1>5, <2>3, <2>4 DEF PayoutInv, PayoutTypeOK
  <2>6. \A h \in Holder : sends'[e][h] = 0 /\ item'[e][h].status \in {"none", "queued"}
    BY <1>3, <1>5 DEF PayoutInv, Untouched
  <2>7. \A h \in Holder : sends'[e][h] <= 3
    BY <2>6
  <2>8. SumFunctionOnSet(Amounts(item'[e]), Holder) <= epoch'[e].profit
    BY <1>3, <1>5, <2>2, <2>3 DEF PayoutInv, WithinProfit, Amounts
  <2>9. ~AtWork(IdleRun) /\ ~Paying(IdleRun) /\ IdleRun.of.to <= Len(pnl)
    BY IdleRunType, PayoutTypes DEF AtWork, Paying
  <2>10. \A q \in PayRun : q # r =>
           payRun'[q] = payRun[q] /\ (AtWork(payRun[q]) => payRun[q].epoch # e)
    BY <1>3, <2>4
  <2>11. epoch'[e].status # "none" /\ epoch'[e].to <= Len(pnl)
    BY <2>1, <2>2, <2>3
  <2>12. PayoutInv'
    BY <1>1, <1>3, <1>5, <2>1, <2>3, <2>4, <2>5, <2>6, <2>7, <2>8, <2>9, <2>10, <2>11,
       OneEpochMoves
  <2> QED
    BY <1>5, <2>12 DEF NotAgain
<1> QED
  BY <1>2, <1>4, <1>5 DEF Narrated

LEMMA ApproveEpochKeeps ==
  ASSUME PayoutInv, NEW r \in PayRun, NEW e \in Epochs, ApproveEpoch(r, e)
  PROVE  PayoutInv' /\ NotAgain
<1>1. /\ epoch[e].status = "needs_review" /\ Distribute(r, e) /\ pnl' = pnl
      /\ e \in Written
  BY DEF ApproveEpoch, Approvable, Written
<1>2. \A q \in PayRun : q # r => (AtWork(payRun[q]) => payRun[q].epoch # e)
  BY <1>1 DEF PayoutInv, OnePayer
<1> QED
  BY <1>1, <1>2, DistributeKeeps

\* What is known of a request that waits for the signer.
LEMMA AtTheSigner ==
  ASSUME PayoutInv, NEW r \in PayRun, Paying(payRun[r]), NEW e, e = payRun[r].epoch,
         NEW left, left = payRun[r].left, NEW status \in {"sent", "failed", "signed"}
  PROVE  /\ e \in Epochs /\ e \in Written /\ epoch[e].status = "distributing"
         /\ \A q \in PayRun : q # r => (AtWork(payRun[q]) => payRun[q].epoch # e)
         /\ left \in Seq(Holder) /\ left # <<>> /\ IsInjective(left)
         /\ Waits(payRun[r], sends[e], item[e])
         /\ left[1] \in Holder /\ Head(left) = left[1]
         /\ item[e] \in [Holder -> ItemRow]
         /\ PaidItem(r, status) \in [Holder -> ItemRow]
         /\ Amounts(PaidItem(r, status)) = Amounts(item[e])
         /\ PaidItem(r, status)[left[1]].status = status
         /\ \A h \in Holder : h # left[1] => PaidItem(r, status)[h] = item[e][h]
<1>1. AtWork(payRun[r])
  BY DEF AtWork, Paying
<1>2. /\ e \in Epochs /\ e \in Written /\ epoch[e].status = "distributing"
      /\ \A q \in PayRun : q # r => (AtWork(payRun[q]) => payRun[q].epoch # e)
  BY <1>1, Alone DEF PayoutInv, OnePayer
<1>3. Waits(payRun[r], sends[e], item[e]) /\ left # <<>> /\ IsInjective(left)
  BY DEF PayoutInv, Waiting, Waits
<1>4. left \in Seq(Holder)
  BY PayoutTypes DEF RunRow
<1>5. left[1] \in Holder /\ Head(left) = left[1]
  BY <1>3, <1>4
<1>6. item[e] \in [Holder -> ItemRow]
  BY <1>2, PayoutTypes
<1>7. PaidItem(r, status) = [item[e] EXCEPT ![left[1]].status = status]
  BY <1>5 DEF PaidItem
<1>8. /\ PaidItem(r, status) \in [Holder -> ItemRow]
      /\ PaidItem(r, status)[left[1]].status = status
      /\ \A h \in Holder : h # left[1] => PaidItem(r, status)[h] = item[e][h]
      /\ \A h \in Holder : PaidItem(r, status)[h].amount = item[e][h].amount
  <2> DEFINE paid == [item[e][left[1]] EXCEPT !.status = status]
  <2>1. item[e][left[1]] \in ItemRow
    BY <1>5, <1>6
  <2>2. paid \in ItemRow /\ paid.status = status /\ paid.amount = item[e][left[1]].amount
    BY <2>1 DEF ItemRow
  <2>3. PaidItem(r, status) = [item[e] EXCEPT ![left[1]] = paid]
    BY <1>7
  <2> HIDE DEF paid
  <2>4. /\ PaidItem(r, status) \in [Holder -> ItemRow] /\ PaidItem(r, status)[left[1]] = paid
        /\ \A h \in Holder : h # left[1] => PaidItem(r, status)[h] = item[e][h]
    BY <1>5, <1>6, <2>2, <2>3
  <2> QED
    BY <2>2, <2>4
<1>9. Amounts(PaidItem(r, status)) = Amounts(item[e])
  BY <1>8 DEF Amounts
<1> QED
  BY <1>2, <1>3, <1>4, <1>5, <1>6, <1>8, <1>9

\* The signer has answered for the first of them: the next one is signed for.
LEMMA NextPaid ==
  ASSUME PayoutInv, NEW r \in PayRun, payRun[r].pc = "send", pnl' = pnl,
         NEW status \in {"sent", "failed"},
         PayOn(r, payRun[r].epoch, PaidItem(r, status), Tail(payRun[r].left))
  PROVE  PayoutInv' /\ NotAgain
<1>1. PICK e, left, items, more : /\ e = payRun[r].epoch /\ left = payRun[r].left
                                  /\ items = PaidItem(r, status) /\ more = Tail(left)
  OBVIOUS
<1>2. Paying(payRun[r])
  BY DEF Paying
<1>3. /\ e \in Epochs /\ e \in Written
      /\ \A q \in PayRun : q # r => (AtWork(payRun[q]) => payRun[q].epoch # e)
      /\ left \in Seq(Holder) /\ left # <<>> /\ IsInjective(left)
      /\ Waits(payRun[r], sends[e], item[e])
      /\ items \in [Holder -> ItemRow] /\ Amounts(items) = Amounts(item[e])
      /\ items[left[1]].status = status
      /\ \A h \in Holder : h # left[1] => items[h] = item[e][h]
  BY <1>1, <1>2, AtTheSigner
<1>4. /\ more \in Seq(Holder) /\ IsInjective(more) /\ left[1] \in Holder
      /\ \A i \in 1 .. Len(more) : i + 1 \in 2 .. Len(left) /\ more[i] = left[i + 1]
                                   /\ left[i + 1] # left[1]
  BY <1>1, <1>3, TailInARow
<1>5. /\ \A i \in 2 .. Len(left) : sends[e][left[i]] = 0
      /\ \A i \in 1 .. Len(left) : item[e][left[i]].status # "sent"
  BY <1>1, <1>3 DEF Waits
<1>6. ASSUME NEW i \in 1 .. Len(more)
      PROVE  sends[e][more[i]] = 0 /\ items[more[i]].status # "sent"
  <2>1. more[i] \in Holder /\ more[i] # left[1] /\ i + 1 \in 1 .. Len(left)
    BY <1>3, <1>4
  <2> QED
    BY <1>3, <1>4, <1>5, <2>1
<1>7. \A h \in Holder : item[e][h].status = "sent" => items[h].status = "sent"
  <2>1. item[e][left[1]].status # "sent"
    <3>1. 1 \in 1 .. Len(left)
      BY <1>3
    <3> QED
      BY <1>5, <3>1
  <2> QED
    BY <1>3, <2>1
<1>8. PayOn(r, e, items, more)
  BY <1>1
<1>9. /\ items \in [Holder -> ItemRow] /\ more \in Seq(Holder) /\ IsInjective(more)
      /\ e \in Epochs /\ e \in Written /\ Amounts(items) = Amounts(item[e])
  BY <1>3, <1>4
<1>10. \A q \in PayRun : q # r => (AtWork(payRun[q]) => payRun[q].epoch # e)
  BY <1>3
<1> QED
  BY <1>6, <1>7, <1>8, <1>9, <1>10, PayOnKeeps

LEMMA SentKeeps ==
  ASSUME PayoutInv, NEW r \in PayRun, Sent(r) PROVE PayoutInv' /\ NotAgain
<1>1. /\ payRun[r].pc = "send" /\ pnl' = pnl
      /\ PayOn(r, payRun[r].epoch, PaidItem(r, "sent"), Tail(payRun[r].left))
  BY DEF Sent
<1>2. "sent" \in {"sent", "failed"}
  OBVIOUS
<1> QED
  BY <1>1, <1>2, NextPaid

\* The first of them waits for another try, or is tried again.
LEMMA TryAgainKeeps ==
  ASSUME PayoutInv, NEW r \in PayRun, Paying(payRun[r]), UNCHANGED <<pnl, epoch>>,
         NEW e, e = payRun[r].epoch, NEW h, h = payRun[r].left[1],
         NEW status \in {"failed", "signed"}, NEW n \in {0, 1},
         item' = [item EXCEPT ![e] = PaidItem(r, status)],
         sends' = [sends EXCEPT ![e][h] = @ + n],
         payRun' = [payRun EXCEPT ![r].pc = IF n = 0 THEN "backoff" ELSE "send",
                                  ![r].try = @ + n],
         payRun[r].try < 3
  PROVE  PayoutInv' /\ NotAgain
<1>1. PICK left, items : left = payRun[r].left /\ items = PaidItem(r, status)
  OBVIOUS
<1>2. /\ e \in Epochs /\ e \in Written /\ epoch[e].status = "distributing"
      /\ \A q \in PayRun : q # r => (AtWork(payRun[q]) => payRun[q].epoch # e)
      /\ left \in Seq(Holder) /\ left # <<>> /\ IsInjective(left)
      /\ Waits(payRun[r], sends[e], item[e]) /\ h \in Holder /\ h = left[1]
      /\ items \in [Holder -> ItemRow] /\ Amounts(items) = Amounts(item[e])
      /\ items[h].status = status
      /\ \A k \in Holder : k # h => items[k] = item[e][k]
  BY <1>1, AtTheSigner
<1>3. payRun[r] \in RunRow /\ payRun[r].try \in 1 .. 3 /\ sends[e][h] = payRun[r].try
  BY <1>1, <1>2, PayoutTypes DEF Waits
<1>4. /\ \A i \in 2 .. Len(left) : sends[e][left[i]] = 0
      /\ \A i \in 1 .. Len(left) : item[e][left[i]].status # "sent"
  BY <1>1, <1>2 DEF Waits
<1> DEFINE try == payRun[r].try + n
           row == [payRun[r] EXCEPT !.pc = IF n = 0 THEN "backoff" ELSE "send", !.try = try]
           calls == [sends[e] EXCEPT ![h] = @ + n]
<1>5. try \in 1 .. 3 /\ try \in 0 .. 3 /\ (n = 0 => try < 3) /\ try \in Nat
  BY <1>3
<1>6. /\ row \in RunRow /\ row.pc = (IF n = 0 THEN "backoff" ELSE "send") /\ row.try = try
      /\ row.epoch = e /\ row.left = left /\ row.of = payRun[r].of
  <2> HIDE DEF try
  <2> QED
    BY <1>1, <1>3, <1>5 DEF RunRow
<1>7. /\ calls \in [Holder -> Nat] /\ calls[h] = try
      /\ \A k \in Holder : k # h => calls[k] = sends[e][k]
  <2>1. sends[e] \in [Holder -> Nat] /\ sends[e][h] + n = try
    BY <1>2, <1>3, PayoutTypes
  <2> HIDE DEF try
  <2> QED
    BY <1>2, <1>5, <2>1
<1>8. sends' = [sends EXCEPT ![e] = calls] /\ item' = [item EXCEPT ![e] = items]
  BY <1>1
<1>21. payRun' = [payRun EXCEPT ![r] = row]
  OBVIOUS
<1> HIDE DEF row, calls, try
<1>9. \A i \in 2 .. Len(left) : left[i] \in Holder /\ left[i] # h /\ i \in 1 .. Len(left)
  <2> SUFFICES ASSUME NEW i \in 2 .. Len(left)
               PROVE  left[i] \in Holder /\ left[i] # h /\ i \in 1 .. Len(left)
    OBVIOUS
  <2>1. /\ i \in 1 .. Len(left) /\ i # 1 /\ 1 \in 1 .. Len(left)
        /\ DOMAIN left = 1 .. Len(left)
    BY <1>2
  <2>2. left[i] # left[1]
    BY <1>2, <2>1 DEF IsInjective
  <2> QED
    BY <1>2, <2>1, <2>2
<1>10. Waits(row, calls, items)
  <2>1. \A i \in 2 .. Len(left) : calls[left[i]] = 0
    BY <1>4, <1>7, <1>9
  <2>2. ASSUME NEW i \in 1 .. Len(left) PROVE items[left[i]].status # "sent"
    <3>1. CASE left[i] = h
      BY <1>2, <3>1
    <3>2. CASE left[i] # h
      BY <1>2, <1>4, <3>2
    <3> QED
      BY <3>1, <3>2
  <2>3. row.try \in 1 .. 3 /\ (row.pc = "backoff" => row.try < 3) /\ calls[left[1]] = row.try
    BY <1>2, <1>5, <1>6, <1>7
  <2> QED
    BY <1>2, <1>6, <2>1, <2>2, <2>3 DEF Waits
<1>11. /\ sends' \in [Epochs -> [Holder -> Nat]] /\ sends'[e] = calls
       /\ \A d \in Epochs : d # e => sends'[d] = sends[d]
  BY <1>2, <1>7, <1>8, PayoutTypes
<1>12. /\ item' \in [Epochs -> [Holder -> ItemRow]] /\ item'[e] = items
       /\ \A d \in Epochs : d # e => item'[d] = item[d]
  BY <1>2, <1>8, PayoutTypes
<1>13. /\ payRun' \in [PayRun -> RunRow] /\ payRun'[r] = row
       /\ \A q \in PayRun : q # r => payRun'[q] = payRun[q]
  BY <1>6, <1>21, PayoutTypes
<1>14. PayoutTypeOK'
  BY <1>11, <1>12, <1>13 DEF PayoutInv, PayoutTypeOK
<1>15. Paying(row) /\ AtWork(row) /\ row.of.to <= Len(pnl)
  BY <1>6 DEF Paying, AtWork, PayoutInv, Numbered
<1>16. ASSUME NEW k \in Holder PROVE calls[k] <= 3
  <2>1. CASE k = h
    BY <1>5, <1>7, <2>1
  <2>2. CASE k # h
    BY <1>2, <1>7, <2>2 DEF PayoutInv, SentThrice
  <2> QED
    BY <2>1, <2>2
<1>17. /\ epoch'[e].to <= Len(pnl) /\ (1 .. e) \ {e} \subseteq Written
       /\ epoch'[e].status = "distributing"
  BY <1>2 DEF PayoutInv, Numbered
<1>22. SumFunctionOnSet(Amounts(item'[e]), Holder) <= epoch'[e].profit
  <2>1. SumFunctionOnSet(Amounts(item[e]), Holder) <= epoch[e].profit
    BY <1>2 DEF PayoutInv, WithinProfit, Amounts
  <2> QED
    BY <1>2, <1>12, <2>1
<1>23. /\ AtWork(payRun'[r]) /\ Paying(payRun'[r]) /\ payRun'[r].epoch = e
       /\ Waits(payRun'[r], sends'[e], item'[e]) /\ payRun'[r].of.to <= Len(pnl)
  BY <1>6, <1>10, <1>11, <1>12, <1>13, <1>15
<1>24. \A k \in Holder : sends'[e][k] <= 3
  BY <1>11, <1>16
<1>25. \A d \in Epochs : d # e => /\ epoch'[d] = epoch[d] /\ item'[d] = item[d]
                                 /\ sends'[d] = sends[d]
  BY <1>11, <1>12
<1>26. \A q \in PayRun : q # r =>
         payRun'[q] = payRun[q] /\ (AtWork(payRun[q]) => payRun[q].epoch # e)
  BY <1>2, <1>13
<1>18. PayoutInv'
  BY <1>2, <1>14, <1>17, <1>22, <1>23, <1>24, <1>25, <1>26, OneEpochMoves
<1>19. item[e][h].status # "sent"
  <2>1. 1 \in 1 .. Len(left)
    BY <1>2
  <2> QED
    BY <1>2, <1>4, <2>1
<1>20. NotAgain
  BY <1>7, <1>11, <1>19 DEF NotAgain
<1> QED
  BY <1>18, <1>20

LEMMA SendThrowsKeeps ==
  ASSUME PayoutInv, NEW r \in PayRun, SendThrows(r) PROVE PayoutInv' /\ NotAgain
<1>1. payRun[r].pc = "send" /\ pnl' = pnl /\ Paying(payRun[r])
  BY DEF SendThrows, Paying
<1>2. CASE payRun[r].try < 3
  <2>1. PICK e, h, left : /\ e = payRun[r].epoch /\ left = payRun[r].left
                          /\ h = payRun[r].left[1]
    OBVIOUS
  <2>2. /\ item' = [item EXCEPT ![e] = PaidItem(r, "failed")]
        /\ payRun' = [payRun EXCEPT ![r].pc = "backoff"] /\ UNCHANGED <<epoch, sends>>
    BY <1>2, <2>1 DEF SendThrows
  <2>3. e \in Epochs /\ h \in Holder
    <3>1. "failed" \in {"sent", "failed", "signed"}
      OBVIOUS
    <3> QED
      BY <1>1, <2>1, <3>1, AtTheSigner
  <2>4. payRun[r] \in RunRow /\ sends[e] \in [Holder -> Nat]
    BY <2>3, PayoutTypes
  <2>5. payRun[r].try + 0 = payRun[r].try /\ sends[e][h] + 0 = sends[e][h]
    BY <2>3, <2>4 DEF RunRow
  <2>6. sends' = [sends EXCEPT ![e][h] = @ + 0]
    BY <2>2, <2>3, <2>4, <2>5, PayoutTypes
  <2>7. payRun' = [payRun EXCEPT ![r].pc = IF 0 = 0 THEN "backoff" ELSE "send",
                                 ![r].try = @ + 0]
    BY <2>2, <2>4, <2>5, PayoutTypes DEF RunRow
  <2>8. "failed" \in {"failed", "signed"} /\ 0 \in {0, 1}
    OBVIOUS
  <2> QED
    BY <1>1, <1>2, <2>1, <2>2, <2>6, <2>7, <2>8, TryAgainKeeps
<1>3. CASE ~(payRun[r].try < 3)
  <2>1. PayOn(r, payRun[r].epoch, PaidItem(r, "failed"), Tail(payRun[r].left))
    BY <1>3 DEF SendThrows
  <2>2. "failed" \in {"sent", "failed"}
    OBVIOUS
  <2> QED
    BY <1>1, <2>1, <2>2, NextPaid
<1> QED
  BY <1>2, <1>3

LEMMA SendAgainKeeps ==
  ASSUME PayoutInv, NEW r \in PayRun, SendAgain(r) PROVE PayoutInv' /\ NotAgain
<1>1. payRun[r].pc = "backoff" /\ Paying(payRun[r]) /\ UNCHANGED <<pnl, epoch>>
  BY DEF SendAgain, Paying
<1>2. PICK e, h, left : /\ e = payRun[r].epoch /\ left = payRun[r].left
                        /\ h = payRun[r].left[1]
  OBVIOUS
<1>3. Head(left) = h /\ Waits(payRun[r], sends[e], item[e])
  <2>1. "failed" \in {"sent", "failed", "signed"}
    OBVIOUS
  <2> QED
    BY <1>1, <1>2, <2>1, AtTheSigner
<1>4. payRun[r].try < 3
  BY <1>1, <1>3 DEF Waits
<1>5. /\ item' = [item EXCEPT ![e] = PaidItem(r, "signed")]
      /\ sends' = [sends EXCEPT ![e][h] = @ + 1]
      /\ payRun' = [payRun EXCEPT ![r].pc = "send", ![r].try = @ + 1]
  BY <1>2, <1>3 DEF SendAgain
<1>6. payRun' = [payRun EXCEPT ![r].pc = IF 1 = 0 THEN "backoff" ELSE "send",
                               ![r].try = @ + 1]
  BY <1>5
<1>7. "signed" \in {"failed", "signed"} /\ 1 \in {0, 1}
  OBVIOUS
<1> QED
  BY <1>1, <1>2, <1>4, <1>5, <1>6, <1>7, TryAgainKeeps

LEMMA PayoutNextKeeps ==
  ASSUME PayoutInv, [PayoutNext]_payoutVars PROVE PayoutInv' /\ NotAgain
<1>1. CASE Trade
  BY <1>1, TradeKeeps DEF Trade, NotAgain
<1>2. CASE PayerDies
  BY <1>2, PayerDiesKeeps DEF PayerDies, NotAgain
<1>3. CASE \E r \in PayRun : CloseEpoch(r)
  BY <1>3, CloseEpochKeeps DEF CloseEpoch, NotAgain
<1>4. CASE \E r \in PayRun : ComputeEpoch(r)
  <2>1. UNCHANGED sends
    BY <1>4 DEF ComputeEpoch
  <2> QED
    BY <1>4, <2>1, ComputeEpochKeeps DEF NotAgain
<1>5. CASE \E r \in PayRun : Narrated(r) \/ Sent(r) \/ SendThrows(r) \/ SendAgain(r)
  BY <1>5, NarratedKeeps, SentKeeps, SendThrowsKeeps, SendAgainKeeps
<1>6. CASE \E r \in PayRun : \E e \in Epochs : ApproveEpoch(r, e)
  BY <1>6, ApproveEpochKeeps
<1>7. CASE UNCHANGED payoutVars
  <2>1. PayoutTypeOK'
    BY <1>7 DEF payoutVars, PayoutInv, PayoutTypeOK
  <2>2. Numbered'
    BY <1>7 DEF payoutVars, PayoutInv, Numbered, Written
  <2> QED
    BY <1>7, <2>1, <2>2
    DEF payoutVars, PayoutInv, WithinProfit, Untouched, OnePayer, Waiting, SentThrice,
        NotAgain
<1> QED
  BY <1>1, <1>2, <1>3, <1>4, <1>5, <1>6, <1>7 DEF PayoutNext

\* Whatever the balances and the threshold: an epoch hands out no more than its
\* profit.
THEOREM PayoutTheorem == PayoutSpec => []WithinProfit
<1>1. PayoutInit => PayoutInv
  BY PayoutInitInv
<1>2. PayoutInv /\ [PayoutNext]_payoutVars => PayoutInv'
  BY PayoutNextKeeps
<1>3. PayoutInv => WithinProfit
  BY DEF PayoutInv
<1> QED
  BY <1>1, <1>2, <1>3, PTL DEF PayoutSpec

\* However the requests overlap and wherever the process dies: who was paid is
\* not called again, and nobody is called more than three times.
THEOREM PaidOnceTheorem == PayoutSpec => PaidOnce
<1> DEFINE A == \A e \in Epochs, h \in Holder :
                  /\ item[e][h].status = "sent" => sends'[e][h] = sends[e][h]
                  /\ sends'[e][h] <= 3
<1>1. PayoutInit => PayoutInv
  BY PayoutInitInv
<1>2. PayoutInv /\ [PayoutNext]_payoutVars => PayoutInv'
  BY PayoutNextKeeps
<1>3. PayoutInv /\ [PayoutNext]_payoutVars => [A]_payoutVars
  <2> SUFFICES ASSUME PayoutInv, [PayoutNext]_payoutVars PROVE A
    OBVIOUS
  <2>1. PayoutInv' /\ NotAgain
    BY PayoutNextKeeps
  <2> QED
    BY <2>1 DEF PayoutInv, SentThrice, NotAgain
<1>4. PayoutSpec => [][A]_payoutVars
  BY <1>1, <1>2, <1>3, PTL DEF PayoutSpec
<1> QED
  BY <1>4 DEF PaidOnce
-----------------------------------------------------------------------------
(* Publisher: every post had a slot of the daily cap.                      *)

\* The slots a caller took and has not posted with yet.
Owed(row) ==
  IF row.pc = "draft" /\ row.live THEN 1
  ELSE IF row.pc = "media" THEN Len(row.rows)
  ELSE IF row.pc = "posting" THEN Len(row.rows) - 1
  ELSE 0

Owing == [c \in Caller |-> Owed(caller[c])]
Reserved == SumFunctionOnSet(Owing, Caller)

\* Who waits for X has something to post; a thread is a pair.
Reserving(row) ==
  /\ row.pc = "posting" => row.rows # <<>>
  /\ row.pc = "media" => Len(row.rows) = 2

PublisherInv ==
  /\ PublisherTypeOK
  /\ \A c \in Caller : Reserving(caller[c])
  /\ posts + Reserved <= taken

LEMMA OwedType == ASSUME NEW row \in CallerRow, Reserving(row) PROVE Owed(row) \in Nat
  BY DEF CallerRow, Reserving, Owed

LEMMA CallerType ==
  PublisherInv => /\ caller \in [Caller -> CallerRow]
                  /\ \A c \in Caller : caller[c] \in CallerRow /\ Owed(caller[c]) \in Nat
                  /\ Owing \in [Caller -> Nat]
                  /\ Reserved \in Nat /\ posts \in Nat /\ taken \in Nat
<1> SUFFICES ASSUME PublisherInv
             PROVE  /\ caller \in [Caller -> CallerRow]
                    /\ \A c \in Caller : caller[c] \in CallerRow /\ Owed(caller[c]) \in Nat
                    /\ Owing \in [Caller -> Nat]
                    /\ Reserved \in Nat /\ posts \in Nat /\ taken \in Nat
  OBVIOUS
<1>1. caller \in [Caller -> CallerRow] /\ posts \in Nat /\ taken \in Nat
  BY DEF PublisherInv, PublisherTypeOK
<1>2. \A c \in Caller : caller[c] \in CallerRow /\ Owed(caller[c]) \in Nat
  BY <1>1, OwedType DEF PublisherInv
<1>3. Owing \in [Caller -> Nat]
  BY <1>2 DEF Owing
<1>4. Reserved \in Nat
  BY <1>3, PublisherAssumption, SumFewer DEF Reserved
<1> QED
  BY <1>1, <1>2, <1>3, <1>4

\* One caller moves, and pays for what it posts with what it took.
LEMMA CallerMoves ==
  ASSUME PublisherInv, NEW c \in Caller, NEW row \in CallerRow, Reserving(row),
         caller' = [caller EXCEPT ![c] = row], posts' \in Nat, taken' \in Nat,
         posts' + taken + Owed(row) <= posts + taken' + Owed(caller[c])
  PROVE  /\ caller' \in [Caller -> CallerRow]
         /\ \A d \in Caller : Reserving(caller'[d])
         /\ posts' + Reserved' <= taken'
<1>1. caller' \in [Caller -> CallerRow] /\ \A d \in Caller : Reserving(caller'[d])
  BY CallerType DEF PublisherInv
<1>2. \A d \in Caller : caller'[d] \in CallerRow /\ Owed(caller'[d]) \in Nat
  BY <1>1, OwedType
<1> DEFINE next == [d \in Caller |-> Owed(caller'[d])]
<1>3. SumFunctionOnSet(next, Caller) = Reserved - Owing[c] + next[c]
  <2>1. \A d \in Caller : Owing[d] \in Int /\ next[d] \in Int
    BY <1>2, CallerType
  <2>2. \A d \in Caller : d # c => next[d] = Owing[d]
    BY CallerType DEF Owing
  <2> HIDE DEF next
  <2> QED
    BY <2>1, <2>2, PublisherAssumption, SumChange DEF Reserved
<1>4. Owing[c] = Owed(caller[c]) /\ next[c] = Owed(row) /\ Owed(row) \in Nat
  BY <1>2, CallerType DEF Owing
<1>5. Reserved' = SumFunctionOnSet(next, Caller)
  BY DEF Reserved, Owing
<1>6. posts + Reserved <= taken
  BY DEF PublisherInv
<1> HIDE DEF next
<1>7. posts' + Reserved' <= taken'
  BY <1>3, <1>4, <1>5, <1>6, CallerType
<1> QED
  BY <1>1, <1>7

LEMMA PublisherState ==
  PublisherInv => /\ mode \in {"off", "shadow", "live"}
                  /\ halted \in BOOLEAN /\ cooling \in BOOLEAN
                  /\ post \in [Posts -> PostRow]
                  /\ evidence \in SUBSET Posts
                  /\ slots \in 0 .. DailyCap /\ turns \in Nat
                  /\ taken \in Nat /\ posts \in Nat /\ DailyCap \in Nat
  BY PublisherAssumption DEF PublisherInv, PublisherTypeOK

LEMMA PublisherAssembled ==
  ASSUME mode' \in {"off", "shadow", "live"},
         halted' \in BOOLEAN, cooling' \in BOOLEAN,
         post' \in [Posts -> PostRow], evidence' \in SUBSET Posts,
         slots' \in 0 .. DailyCap, turns' \in Nat, taken' \in Nat, posts' \in Nat,
         caller' \in [Caller -> CallerRow], \A c \in Caller : Reserving(caller'[c]),
         posts' + Reserved' <= taken'
  PROVE  PublisherInv'
  BY DEF PublisherInv, PublisherTypeOK

LEMMA PublisherInitInv == PublisherInit => PublisherInv
<1> SUFFICES ASSUME PublisherInit PROVE PublisherInv
  OBVIOUS
<1>1. NoCaller \in CallerRow /\ Reserving(NoCaller) /\ Owed(NoCaller) = 0
  <2>1. <<>> \in Seq(Posts)
    OBVIOUS
  <2> QED
    BY <2>1 DEF NoCaller, CallerRow, Reserving, Owed
<1>2. caller = [c \in Caller |-> NoCaller]
  BY DEF PublisherInit
<1>3. \A c \in Caller : Owing[c] = 0
  BY <1>1, <1>2 DEF Owing
<1>4. Reserved = 0
  BY <1>3, PublisherAssumption, SumZero DEF Reserved
<1>5. post \in [Posts -> PostRow] /\ evidence \in SUBSET Posts
  BY DEF PublisherInit, PostRow
<1>6. /\ mode \in {"off", "shadow", "live"} /\ halted \in BOOLEAN /\ cooling \in BOOLEAN
      /\ slots \in 0 .. DailyCap /\ turns = 0 /\ taken = 0 /\ posts = 0
  <2>1. 0 \in 0 .. DailyCap
    BY PublisherAssumption
  <2> QED
    BY <2>1 DEF PublisherInit
<1> QED
  BY <1>1, <1>2, <1>4, <1>5, <1>6 DEF PublisherInv, PublisherTypeOK
-----------------------------------------------------------------------------
\* What a caller's row becomes.
LEMMA CallerWaits ==
  ASSUME PublisherInv, NEW c \in Caller,
         NEW pc \in {"idle", "ready", "read", "draft", "media", "posting"}
  PROVE  /\ [caller[c] EXCEPT !.pc = pc] \in CallerRow
         /\ [caller[c] EXCEPT !.pc = pc].pc = pc
         /\ [caller[c] EXCEPT !.pc = pc].live = caller[c].live
<1>1. caller[c] \in CallerRow
  BY CallerType
<1> QED
  BY <1>1 DEF CallerRow

LEMMA CallerHolds ==
  ASSUME PublisherInv, NEW c \in Caller, NEW pc \in {"media", "posting"},
         NEW rows \in Seq(Posts)
  PROVE  /\ [caller[c] EXCEPT !.pc = pc, !.rows = rows] \in CallerRow
         /\ [caller[c] EXCEPT !.pc = pc, !.rows = rows].pc = pc
         /\ [caller[c] EXCEPT !.pc = pc, !.rows = rows].rows = rows
<1>1. caller[c] \in CallerRow
  BY CallerType
<1> QED
  BY <1>1 DEF CallerRow

LEMMA RowsType ==
  ASSUME PublisherInv, NEW c \in Caller
  PROVE  caller[c].rows \in Seq(Posts) /\ Reserving(caller[c])
  BY CallerType DEF PublisherInv, CallerRow

LEMMA Rested ==
  /\ NoCaller \in CallerRow /\ Reserving(NoCaller) /\ Owed(NoCaller) = 0
  /\ [NoCaller EXCEPT !.pc = "read"] \in CallerRow
  /\ [NoCaller EXCEPT !.pc = "ready", !.live = TRUE] \in CallerRow
  /\ [NoCaller EXCEPT !.pc = "ready", !.live = TRUE, !.thread = TRUE] \in CallerRow
  /\ [NoCaller EXCEPT !.pc = "read"].pc = "read"
  /\ [NoCaller EXCEPT !.pc = "ready", !.live = TRUE].pc = "ready"
  /\ [NoCaller EXCEPT !.pc = "ready", !.live = TRUE, !.thread = TRUE].pc = "ready"
<1>1. <<>> \in Seq(Posts)
  OBVIOUS
<1>2. NoCaller \in CallerRow /\ Reserving(NoCaller) /\ Owed(NoCaller) = 0
  BY <1>1 DEF NoCaller, CallerRow, Reserving, Owed
<1>3. ASSUME NEW row \in CallerRow
      PROVE  /\ [row EXCEPT !.pc = "read"] \in CallerRow
             /\ [row EXCEPT !.pc = "ready", !.live = TRUE] \in CallerRow
             /\ [row EXCEPT !.pc = "ready", !.live = TRUE, !.thread = TRUE] \in CallerRow
             /\ [row EXCEPT !.pc = "read"].pc = "read"
             /\ [row EXCEPT !.pc = "ready", !.live = TRUE].pc = "ready"
             /\ [row EXCEPT !.pc = "ready", !.live = TRUE, !.thread = TRUE].pc = "ready"
  BY DEF CallerRow
<1> QED
  BY <1>2, <1>3

\* A caller that owes nothing in its new row, whatever it drops.
LEMMA CallerDrops ==
  ASSUME PublisherInv, NEW c \in Caller, NEW row \in CallerRow, row.pc \in {"idle", "ready", "read"},
         caller' = [caller EXCEPT ![c] = row], UNCHANGED <<posts, taken>>
  PROVE  /\ caller' \in [Caller -> CallerRow]
         /\ \A d \in Caller : Reserving(caller'[d])
         /\ posts' + Reserved' <= taken'
<1>1. Reserving(row) /\ Owed(row) = 0
  BY DEF Reserving, Owed
<1>2. posts' + taken + Owed(row) <= posts + taken' + Owed(caller[c])
  BY <1>1, CallerType
<1> QED
  BY <1>1, <1>2, CallerType, CallerMoves

LEMMA IdleKeeps ==
  ASSUME PublisherInv, NEW c \in Caller, Idle(c), UNCHANGED <<posts, taken>>
  PROVE  /\ caller' \in [Caller -> CallerRow]
         /\ \A d \in Caller : Reserving(caller'[d])
         /\ posts' + Reserved' <= taken'
<1>1. NoCaller.pc = "idle"
  BY DEF NoCaller
<1> QED
  BY <1>1, Rested, CallerDrops DEF Idle

\* The callers rest.
LEMMA OperatorKeeps ==
  ASSUME PublisherInv, SetMode \/ TimePasses \/ \E p \in Posts : ReviewPost(p)
  PROVE  PublisherInv'
<1>1. UNCHANGED <<halted, post, taken, posts, caller>>
  BY DEF SetMode, TimePasses, ReviewPost
<1>2. Reserved' = Reserved
  BY <1>1 DEF Reserved, Owing
<1>3. /\ mode' \in {"off", "shadow", "live"} /\ cooling' \in BOOLEAN
      /\ evidence' \in SUBSET Posts /\ slots' \in 0 .. DailyCap /\ turns' \in Nat
  <2>1. CASE SetMode
    BY <2>1, PublisherState DEF SetMode
  <2>2. CASE TimePasses
    <3>1. /\ turns' = turns + 1 /\ cooling' = FALSE /\ UNCHANGED mode
          /\ slots' = 0 \/ slots' = slots
          /\ evidence' = {} \/ evidence' = evidence
      BY <2>2 DEF TimePasses
    <3>2. slots' \in 0 .. DailyCap
      BY <3>1, PublisherState
    <3>3. evidence' \in SUBSET Posts
      BY <3>1, PublisherState
    <3>4. turns' \in Nat /\ mode' \in {"off", "shadow", "live"}
      BY <3>1, PublisherState
    <3>5. cooling' \in BOOLEAN
      BY <3>1
    <3> QED
      BY <3>2, <3>3, <3>4, <3>5
  <2>3. ASSUME NEW p \in Posts, ReviewPost(p)
        PROVE  /\ mode' \in {"off", "shadow", "live"} /\ cooling' \in BOOLEAN
               /\ evidence' \in SUBSET Posts /\ slots' \in 0 .. DailyCap /\ turns' \in Nat
    BY <2>3, PublisherState DEF ReviewPost
  <2> QED
    BY <2>1, <2>2, <2>3
<1> QED
  BY <1>1, <1>2, <1>3, PublisherState, PublisherAssembled DEF PublisherInv, PublisherTypeOK

LEMMA BeginKeeps ==
  ASSUME PublisherInv, NEW c \in Caller, BeginCycle(c) \/ BeginThread(c) PROVE PublisherInv'
<1>1. UNCHANGED <<mode, post, evidence, slots, taken, posts, turns>>
  BY DEF BeginCycle, BeginThread
<1>2. halted' \in BOOLEAN /\ cooling' \in BOOLEAN
  BY PublisherState DEF BeginCycle, BeginThread, HaltIdle
<1>3. \E row \in CallerRow : /\ row.pc \in {"idle", "ready", "read"}
                             /\ caller' = [caller EXCEPT ![c] = row]
  <2>1. CASE Idle(c)
    BY <2>1, Rested DEF Idle, NoCaller
  <2>2. CASE \/ caller' = [caller EXCEPT ![c] = [NoCaller EXCEPT !.pc = "ready", !.live = TRUE]]
             \/ caller' = [caller EXCEPT ![c] = [NoCaller EXCEPT !.pc = "read"]]
             \/ caller' = [caller EXCEPT ![c] =
                  [NoCaller EXCEPT !.pc = "ready", !.live = TRUE, !.thread = TRUE]]
    BY <2>2, Rested
  <2> QED
    BY <2>1, <2>2 DEF BeginCycle, BeginThread, HaltIdle
<1>4. /\ caller' \in [Caller -> CallerRow]
      /\ \A d \in Caller : Reserving(caller'[d])
      /\ posts' + Reserved' <= taken'
  BY <1>1, <1>3, CallerDrops
<1> QED
  BY <1>1, <1>2, <1>4, PublisherState, PublisherAssembled

\* A caller waits on, with what it took now.
LEMMA AwaitKeeps ==
  ASSUME PublisherInv, NEW c \in Caller, NEW pc \in {"read", "draft"}, Await(c, pc),
         UNCHANGED posts, taken' \in Nat,
         taken + (IF pc = "draft" /\ caller[c].live THEN 1 ELSE 0) <= taken' + Owed(caller[c])
  PROVE  /\ caller' \in [Caller -> CallerRow]
         /\ \A d \in Caller : Reserving(caller'[d])
         /\ posts' + Reserved' <= taken'
<1> DEFINE row == [caller[c] EXCEPT !.pc = pc]
<1>1. row \in CallerRow /\ row.pc = pc /\ row.live = caller[c].live
  BY CallerWaits
<1>2. caller' = [caller EXCEPT ![c] = row]
  BY DEF Await
<1> HIDE DEF row
<1>3. Reserving(row) /\ Owed(row) = IF pc = "draft" /\ caller[c].live THEN 1 ELSE 0
  BY <1>1 DEF Reserving, Owed
<1>4. posts' + taken + Owed(row) <= posts + taken' + Owed(caller[c])
  BY <1>3, CallerType
<1> QED
  BY <1>1, <1>2, <1>3, <1>4, CallerType, CallerMoves

LEMMA ReadyKeeps ==
  ASSUME PublisherInv, NEW c \in Caller, Ready(c) \/ ReadFails(c) \/ DraftFails(c)
  PROVE  PublisherInv'
<1>1. UNCHANGED <<mode, post, evidence, slots, taken, posts, turns>>
  BY DEF Ready, ReadFails, DraftFails
<1>2. halted' \in BOOLEAN /\ cooling' \in BOOLEAN
  BY PublisherState DEF Ready, ReadFails, DraftFails, HaltIdle
<1>3. Idle(c) \/ Await(c, "read")
  BY DEF Ready, ReadFails, DraftFails, HaltIdle
<1>4. /\ caller' \in [Caller -> CallerRow]
      /\ \A d \in Caller : Reserving(caller'[d])
      /\ posts' + Reserved' <= taken'
  <2>1. CASE Idle(c)
    BY <1>1, <2>1, IdleKeeps
  <2>2. CASE Await(c, "read")
    BY <1>1, <2>2, CallerType, AwaitKeeps
  <2> QED
    BY <1>3, <2>1, <2>2
<1> QED
  BY <1>1, <1>2, <1>4, PublisherState, PublisherAssembled

\* A live cycle takes one slot for the one post it will make.
LEMMA ReadDoneKeeps ==
  ASSUME PublisherInv, NEW c \in Caller, ReadDone(c) PROVE PublisherInv'
<1>1. UNCHANGED <<mode, halted, post, evidence, cooling, posts, turns>>
      /\ caller[c].pc = "read"
  BY DEF ReadDone
<1>2. CASE ~caller[c].live /\ Await(c, "draft") /\ UNCHANGED <<slots, taken>>
  <2>1. /\ caller' \in [Caller -> CallerRow]
        /\ \A d \in Caller : Reserving(caller'[d])
        /\ posts' + Reserved' <= taken'
    BY <1>1, <1>2, CallerType, AwaitKeeps
  <2> QED
    BY <1>1, <1>2, <2>1, PublisherState, PublisherAssembled
<1>3. CASE caller[c].live /\ TakeSlots(1) /\ Await(c, "draft")
  <2>1. taken' = taken + 1 /\ slots' \in 0 .. DailyCap /\ taken' \in Nat
    BY <1>3, PublisherState DEF TakeSlots
  <2>2. /\ caller' \in [Caller -> CallerRow]
        /\ \A d \in Caller : Reserving(caller'[d])
        /\ posts' + Reserved' <= taken'
    BY <1>1, <1>3, <2>1, CallerType, AwaitKeeps
  <2> QED
    BY <1>1, <2>1, <2>2, PublisherState, PublisherAssembled
<1>4. CASE Idle(c) /\ UNCHANGED <<slots, taken>>
  <2>1. /\ caller' \in [Caller -> CallerRow]
        /\ \A d \in Caller : Reserving(caller'[d])
        /\ posts' + Reserved' <= taken'
    BY <1>1, <1>4, IdleKeeps
  <2> QED
    BY <1>1, <1>4, <2>1, PublisherState, PublisherAssembled
<1> QED
  BY <1>2, <1>3, <1>4 DEF ReadDone
-----------------------------------------------------------------------------
\* The one call of X: the caller has taken a slot for each of the rows.
LEMMA PublishKeeps ==
  ASSUME PublisherInv, NEW c \in Caller, NEW rows \in Seq(Posts), rows # <<>>,
         NEW log \in [Posts -> PostRow], PublishCandidate(c, rows, log),
         taken' \in Nat, taken + Len(rows) <= taken' + Owed(caller[c])
  PROVE  /\ post' \in [Posts -> PostRow] /\ posts' \in Nat
         /\ caller' \in [Caller -> CallerRow]
         /\ \A d \in Caller : Reserving(caller'[d])
         /\ posts' + Reserved' <= taken'
<1>1. post' = [log EXCEPT ![Head(rows)].publish = "publishing"] /\ posts' = posts + 1
      /\ caller' = [caller EXCEPT ![c].pc = "posting", ![c].rows = rows]
  BY DEF PublishCandidate
<1>2. Head(rows) \in Posts /\ Len(rows) \in Nat /\ Len(rows) >= 1
  OBVIOUS
<1>3. post' \in [Posts -> PostRow]
  <2>1. [log[Head(rows)] EXCEPT !.publish = "publishing"] \in PostRow
    BY <1>2 DEF PostRow
  <2> QED
    BY <1>1, <1>2, <2>1
<1> DEFINE row == [caller[c] EXCEPT !.pc = "posting", !.rows = rows]
<1>4. row \in CallerRow /\ row.pc = "posting" /\ row.rows = rows
  BY CallerHolds
<1>5. caller' = [caller EXCEPT ![c] = row]
  BY <1>1, CallerType
<1> HIDE DEF row
<1>6. Reserving(row) /\ Owed(row) = Len(rows) - 1
  BY <1>4 DEF Reserving, Owed
<1>7. posts' + taken + Owed(row) <= posts + taken' + Owed(caller[c]) /\ posts' \in Nat
  <2>1. posts \in Nat /\ taken \in Nat /\ Owed(caller[c]) \in Nat
    BY CallerType
  <2>2. posts' = posts + 1
    BY <1>1
  <2> QED
    BY <1>2, <1>6, <2>1, <2>2
<1> QED
  BY <1>3, <1>4, <1>5, <1>6, <1>7, CallerMoves

LEMMA LogType ==
  ASSUME PublisherInv, NextPost \in Posts,
         NEW verdict \in {"none", "blocked", "shadow", "published"}
  PROVE  LogAs(verdict) \in [Posts -> PostRow]
<1>1. [post[NextPost] EXCEPT !.verdict = verdict] \in PostRow
  BY PublisherState DEF PostRow
<1> QED
  BY <1>1, PublisherState DEF LogAs

LEMMA DraftKeeps ==
  ASSUME PublisherInv, NEW c \in Caller, DraftBlocked(c) \/ DraftPasses(c) PROVE PublisherInv'
<1>1. CASE DraftBlocked(c)
  <2>1. /\ UNCHANGED <<mode, evidence, cooling, slots, taken, posts, turns>> /\ Idle(c)
        /\ halted' \in BOOLEAN /\ post' = LogAs("blocked") /\ NextPost \in Posts
    BY <1>1, PublisherState DEF DraftBlocked, ThreeBlocked
  <2>2. /\ caller' \in [Caller -> CallerRow]
        /\ \A d \in Caller : Reserving(caller'[d])
        /\ posts' + Reserved' <= taken'
    BY <2>1, IdleKeeps
  <2> QED
    BY <2>1, <2>2, LogType, PublisherState, PublisherAssembled
<1>2. CASE DraftPasses(c)
  <2>1. /\ UNCHANGED <<mode, halted, evidence, cooling, slots, taken, turns>>
        /\ NextPost \in Posts /\ caller[c].pc = "draft"
        /\ LogAs("shadow") \in [Posts -> PostRow]
    BY <1>2, LogType DEF DraftPasses
  <2>2. CASE GoesOut(c) /\ PublishCandidate(c, <<NextPost>>, LogAs("shadow"))
    <3>1. <<NextPost>> \in Seq(Posts) /\ <<NextPost>> # <<>> /\ Len(<<NextPost>>) = 1
      BY <2>1
    <3>2. Owed(caller[c]) = 1
      BY <2>1, <2>2 DEF GoesOut, Owed
    <3>3. taken' \in Nat /\ taken + Len(<<NextPost>>) <= taken' + Owed(caller[c])
      BY <2>1, <3>1, <3>2, PublisherState
    <3>4. /\ post' \in [Posts -> PostRow] /\ posts' \in Nat
          /\ caller' \in [Caller -> CallerRow]
          /\ \A d \in Caller : Reserving(caller'[d])
          /\ posts' + Reserved' <= taken'
      BY <2>1, <2>2, <3>1, <3>3, PublishKeeps
    <3> QED
      BY <2>1, <3>4, PublisherState, PublisherAssembled
  <2>3. CASE post' = LogAs("shadow") /\ Idle(c) /\ UNCHANGED posts
    <3>1. /\ caller' \in [Caller -> CallerRow]
          /\ \A d \in Caller : Reserving(caller'[d])
          /\ posts' + Reserved' <= taken'
      BY <2>1, <2>3, IdleKeeps
    <3> QED
      BY <2>1, <2>3, <3>1, PublisherState, PublisherAssembled
  <2> QED
    BY <1>2, <2>2, <2>3 DEF DraftPasses
<1> QED
  BY <1>1, <1>2

LEMMA ThreadBlockedKeeps ==
  ASSUME PublisherInv, NEW c \in Caller, ThreadBlocked(c) PROVE PublisherInv'
<1>1. /\ UNCHANGED <<mode, halted, evidence, cooling, slots, taken, posts, turns>> /\ Idle(c)
      /\ post' = [post EXCEPT ![NextPost].verdict = "blocked",
                              ![NextPost + 1].verdict = "blocked"]
  BY DEF ThreadBlocked
<1>2. post' \in [Posts -> PostRow]
  <2>1. \A p \in Posts : post[p] \in PostRow /\ [post[p] EXCEPT !.verdict = "blocked"] \in PostRow
    BY PublisherState DEF PostRow
  <2> DEFINE once == [post EXCEPT ![NextPost].verdict = "blocked"]
  <2>2. once \in [Posts -> PostRow]
    BY <2>1, PublisherState
  <2>3. \A p \in Posts : [once[p] EXCEPT !.verdict = "blocked"] \in PostRow
    <3> HIDE DEF once
    <3> QED
      BY <2>2 DEF PostRow
  <2>4. post' = [once EXCEPT ![NextPost + 1].verdict = "blocked"]
    BY <1>1
  <2> HIDE DEF once
  <2> QED
    BY <2>2, <2>3, <2>4
<1>3. /\ caller' \in [Caller -> CallerRow]
      /\ \A d \in Caller : Reserving(caller'[d])
      /\ posts' + Reserved' <= taken'
  BY <1>1, IdleKeeps
<1> QED
  BY <1>1, <1>2, <1>3, PublisherState, PublisherAssembled

LEMMA ThreadPassesKeeps ==
  ASSUME PublisherInv, NEW c \in Caller, ThreadPasses(c) PROVE PublisherInv'
<1> DEFINE rows == <<NextPost, NextPost + 1>>
           log == [p \in Posts |->
                     IF p \in {rows[1], rows[2]} THEN [post[p] EXCEPT !.verdict = "shadow"]
                     ELSE post[p]]
<1>1. /\ UNCHANGED <<mode, halted, evidence, cooling, turns>>
      /\ TakeSlots(2) /\ NextPost + 1 \in Posts /\ caller[c].pc = "read"
  BY DEF ThreadPasses
<1>2. \/ PublishCandidate(c, rows, log)
      \/ /\ c \in Script
         /\ post' = log /\ UNCHANGED posts
         /\ caller' = [caller EXCEPT ![c].pc = "media", ![c].rows = rows]
  BY DEF ThreadPasses
<1>3. log \in [Posts -> PostRow]
  <2>1. \A p \in Posts : post[p] \in PostRow /\ [post[p] EXCEPT !.verdict = "shadow"] \in PostRow
    BY PublisherState DEF PostRow
  <2> QED
    BY <2>1
<1>4. rows \in Seq(Posts) /\ rows # <<>> /\ Len(rows) = 2
  <2>1. NextPost \in Nat
    <3>1. Logged \subseteq Posts /\ IsFiniteSet(Posts)
      BY PublisherAssumption, FS_Interval DEF Logged, Posts
    <3> QED
      BY <3>1, FS_Subset, FS_CardinalityType DEF NextPost
  <2>2. NextPost \in Posts
    <3>1. NextPost >= 1
      <4>1. Logged \subseteq Posts /\ IsFiniteSet(Posts)
        BY PublisherAssumption, FS_Interval DEF Logged, Posts
      <4> QED
        BY <4>1, FS_Subset, FS_CardinalityType DEF NextPost
    <3> QED
      BY <1>1, <2>1, <3>1, PublisherAssumption DEF Posts
  <2> QED
    BY <1>1, <2>2
<1>5. taken' = taken + 2 /\ slots' \in 0 .. DailyCap /\ taken' \in Nat
  BY <1>1, PublisherState DEF TakeSlots
<1> HIDE DEF log, rows
<1>6. CASE PublishCandidate(c, rows, log)
  <2>1. taken + Len(rows) <= taken' + Owed(caller[c])
    BY <1>4, <1>5, CallerType
  <2>2. /\ post' \in [Posts -> PostRow] /\ posts' \in Nat
        /\ caller' \in [Caller -> CallerRow]
        /\ \A d \in Caller : Reserving(caller'[d])
        /\ posts' + Reserved' <= taken'
    BY <1>3, <1>4, <1>5, <1>6, <2>1, PublishKeeps
  <2> QED
    BY <1>1, <1>5, <2>2, PublisherState, PublisherAssembled
<1>7. CASE /\ post' = log /\ UNCHANGED posts
           /\ caller' = [caller EXCEPT ![c].pc = "media", ![c].rows = rows]
  <2> DEFINE row == [caller[c] EXCEPT !.pc = "media", !.rows = rows]
  <2>1. row \in CallerRow /\ row.pc = "media" /\ row.rows = rows
    BY <1>4, CallerHolds
  <2>2. caller' = [caller EXCEPT ![c] = row]
    BY <1>7, CallerType
  <2> HIDE DEF row
  <2>3. Reserving(row) /\ Owed(row) = 2
    BY <1>4, <2>1 DEF Reserving, Owed
  <2>4. posts' + taken + Owed(row) <= posts + taken' + Owed(caller[c]) /\ posts' \in Nat
    BY <1>5, <1>7, <2>3, CallerType
  <2>5. /\ caller' \in [Caller -> CallerRow]
        /\ \A d \in Caller : Reserving(caller'[d])
        /\ posts' + Reserved' <= taken'
    BY <1>5, <2>1, <2>2, <2>3, <2>4, CallerMoves
  <2> QED
    BY <1>1, <1>3, <1>5, <1>7, <2>5, PublisherState, PublisherAssembled
<1> QED
  BY <1>2, <1>6, <1>7

LEMMA MediaUploadedKeeps ==
  ASSUME PublisherInv, NEW c \in Caller, MediaUploaded(c) PROVE PublisherInv'
<1>1. /\ UNCHANGED <<mode, halted, evidence, cooling, slots, taken, turns>>
      /\ PublishCandidate(c, caller[c].rows, post) /\ caller[c].pc = "media"
  BY DEF MediaUploaded
<1>2. caller[c].rows \in Seq(Posts) /\ Len(caller[c].rows) = 2 /\ caller[c].rows # <<>>
  <2>1. caller[c].rows \in Seq(Posts) /\ Len(caller[c].rows) = 2
    BY <1>1, RowsType DEF Reserving
  <2>2. Len(<<>>) = 0
    OBVIOUS
  <2>3. ASSUME caller[c].rows = <<>> PROVE FALSE
    BY <2>1, <2>2, <2>3
  <2> QED
    BY <2>1, <2>3
<1>3. taken' \in Nat /\ taken + Len(caller[c].rows) <= taken' + Owed(caller[c])
  BY <1>1, <1>2, CallerType DEF Owed
<1>4. /\ post' \in [Posts -> PostRow] /\ posts' \in Nat
      /\ caller' \in [Caller -> CallerRow]
      /\ \A d \in Caller : Reserving(caller'[d])
      /\ posts' + Reserved' <= taken'
  BY <1>1, <1>2, <1>3, PublisherState, PublishKeeps
<1> QED
  BY <1>1, <1>4, PublisherState, PublisherAssembled

LEMMA FailsKeeps ==
  ASSUME PublisherInv, NEW c \in Caller, MediaFails(c) \/ PostFails(c) \/ Unrecorded(c)
  PROVE  PublisherInv'
<1>1. /\ UNCHANGED <<mode, evidence, cooling, slots, taken, posts, turns>>
      /\ Idle(c) /\ halted' \in BOOLEAN
  BY DEF MediaFails, PostFails, Unrecorded, HaltIdle
<1>2. /\ caller' \in [Caller -> CallerRow]
      /\ \A d \in Caller : Reserving(caller'[d])
      /\ posts' + Reserved' <= taken'
  BY <1>1, IdleKeeps
<1>3. post' \in [Posts -> PostRow]
  <2>1. ASSUME NEW rows, Failed(rows) PROVE post' \in [Posts -> PostRow]
    <3>1. [verdict |-> "blocked", publish |-> "failed"] \in PostRow
      BY DEF PostRow
    <3> QED
      BY <2>1, <3>1, PublisherState DEF Failed
  <2> QED
    BY <2>1, PublisherState DEF MediaFails, PostFails, Unrecorded
<1> QED
  BY <1>1, <1>2, <1>3, PublisherState, PublisherAssembled

LEMMA PostedKeeps ==
  ASSUME PublisherInv, NEW c \in Caller, Posted(c) PROVE PublisherInv'
<1> DEFINE rows == caller[c].rows
<1>1. /\ UNCHANGED <<mode, halted, evidence, cooling, slots, taken, turns>>
      /\ caller[c].pc = "posting"
      /\ IF Len(rows) > 1 THEN PublishCandidate(c, Tail(rows), Settled(Head(rows)))
         ELSE post' = Settled(Head(rows)) /\ Idle(c) /\ UNCHANGED posts
  BY DEF Posted
<1>2. rows \in Seq(Posts) /\ rows # <<>> /\ Head(rows) \in Posts /\ Len(rows) \in Nat
  BY <1>1, RowsType DEF Reserving
<1>3. Settled(Head(rows)) \in [Posts -> PostRow]
  <2>1. [verdict |-> "published", publish |-> "published"] \in PostRow
    BY DEF PostRow
  <2> QED
    BY <1>2, <2>1, PublisherState DEF Settled
<1>4. CASE Len(rows) > 1
  <2>1. Tail(rows) \in Seq(Posts) /\ Tail(rows) # <<>> /\ Len(Tail(rows)) = Len(rows) - 1
    <3> HIDE DEF rows
    <3>1. Tail(rows) \in Seq(Posts) /\ Len(Tail(rows)) = Len(rows) - 1
      BY <1>2
    <3> QED
      BY <1>2, <1>4, <3>1
  <2>2. Owed(caller[c]) = Len(rows) - 1
    BY <1>1 DEF Owed
  <2>3. taken' \in Nat /\ taken + Len(Tail(rows)) <= taken' + Owed(caller[c])
    BY <1>1, <1>2, <2>1, <2>2, PublisherState
  <2>4. PublishCandidate(c, Tail(rows), Settled(Head(rows)))
    BY <1>1, <1>4
  <2> HIDE DEF rows
  <2>5. /\ post' \in [Posts -> PostRow] /\ posts' \in Nat
        /\ caller' \in [Caller -> CallerRow]
        /\ \A d \in Caller : Reserving(caller'[d])
        /\ posts' + Reserved' <= taken'
    BY <1>3, <2>1, <2>3, <2>4, PublishKeeps
  <2> QED
    BY <1>1, <2>5, PublisherState, PublisherAssembled
<1>5. CASE ~(Len(rows) > 1)
  <2>1. post' = Settled(Head(rows)) /\ Idle(c) /\ UNCHANGED posts
    BY <1>1, <1>5
  <2>2. /\ caller' \in [Caller -> CallerRow]
        /\ \A d \in Caller : Reserving(caller'[d])
        /\ posts' + Reserved' <= taken'
    BY <1>1, <2>1, IdleKeeps
  <2> QED
    BY <1>1, <1>3, <2>1, <2>2, PublisherState, PublisherAssembled
<1> QED
  BY <1>4, <1>5

\* Who dies posts nothing more.
LEMMA PublisherDiesKeeps == PublisherInv /\ PublisherDies => PublisherInv'
<1> SUFFICES ASSUME PublisherInv, PublisherDies PROVE PublisherInv'
  OBVIOUS
<1>1. UNCHANGED <<mode, halted, post, evidence, cooling, slots, taken, posts, turns>>
  BY DEF PublisherDies
<1>2. PICK dead \in {Script, Caller \ Script} :
        caller' = [c \in Caller |-> IF c \in dead THEN NoCaller ELSE caller[c]]
  BY DEF PublisherDies
<1>3. caller' \in [Caller -> CallerRow] /\ \A c \in Caller : Reserving(caller'[c])
  BY <1>2, Rested, CallerType DEF PublisherInv
<1> DEFINE next == [c \in Caller |-> Owed(caller'[c])]
<1>4. \A c \in Caller : next[c] \in Int /\ Owing[c] \in Int /\ next[c] <= Owing[c]
  BY <1>2, Rested, CallerType DEF Owing
<1>5. SumFunctionOnSet(next, Caller) <= Reserved /\ SumFunctionOnSet(next, Caller) \in Int
  <2> HIDE DEF next
  <2> QED
    BY <1>4, PublisherAssumption, SumLeq, SumNumbers DEF Reserved
<1>6. Reserved' = SumFunctionOnSet(next, Caller)
  BY DEF Reserved, Owing
<1> HIDE DEF next
<1>7. posts' + Reserved' <= taken'
  BY <1>1, <1>5, <1>6, CallerType DEF PublisherInv
<1> QED
  BY <1>1, <1>3, <1>7, PublisherState, PublisherAssembled

LEMMA PublisherNextKeeps == PublisherInv /\ [PublisherNext]_publisherVars => PublisherInv'
<1> SUFFICES ASSUME PublisherInv, [PublisherNext]_publisherVars PROVE PublisherInv'
  OBVIOUS
<1>1. CASE SetMode \/ TimePasses \/ \E p \in Posts : ReviewPost(p)
  BY <1>1, OperatorKeeps
<1>2. CASE PublisherDies
  BY <1>2, PublisherDiesKeeps
<1>3. ASSUME NEW c \in Caller,
             \/ BeginCycle(c) \/ BeginThread(c) \/ Ready(c) \/ ReadFails(c) \/ ReadDone(c)
             \/ DraftFails(c) \/ DraftBlocked(c) \/ DraftPasses(c)
             \/ ThreadBlocked(c) \/ ThreadPasses(c) \/ MediaUploaded(c) \/ MediaFails(c)
             \/ Posted(c) \/ PostFails(c) \/ Unrecorded(c)
      PROVE  PublisherInv'
  BY <1>3, BeginKeeps, ReadyKeeps, ReadDoneKeeps, DraftKeeps, ThreadBlockedKeeps,
     ThreadPassesKeeps, MediaUploadedKeeps, FailsKeeps, PostedKeeps
<1>4. CASE UNCHANGED publisherVars
  BY <1>4
  DEF publisherVars, PublisherInv, PublisherTypeOK, Reserved, Owing
<1> QED
  BY <1>1, <1>2, <1>3, <1>4 DEF PublisherNext

\* However many callers overlap and die, every call that reaches the public
\* account had a slot of the daily cap (intern/intern.ts, research/budget.ts).
THEOREM PublisherTheorem == PublisherSpec => []PostsHaveSlots
<1>1. PublisherInit => PublisherInv
  BY PublisherInitInv
<1>2. PublisherInv /\ [PublisherNext]_publisherVars => PublisherInv'
  BY PublisherNextKeeps
<1>3. PublisherInv => PostsHaveSlots
  BY CallerType DEF PublisherInv, PostsHaveSlots
<1> QED
  BY <1>1, <1>2, <1>3, PTL DEF PublisherSpec
-----------------------------------------------------------------------------
(* Windows: the limits return.                                             *)

\* The rows are used in order, so a new row is newer than every other.
InOrder ==
  \A i \in WindowIds : window[i].state # "none" =>
    \A j \in 1 .. i - 1 : window[j].state # "none"

\* The oldest window that is not closed remembers the limits there were with no
\* window.
Remembers ==
  \A i \in Unclosed : (\A j \in Unclosed : i <= j) => window[i].restore = base

WindowInv == WindowTypeOK /\ InOrder /\ Remembers /\ LimitsReturn

\* The limits the clamp lets through are limits.
LEMMA ClampedType == ASSUME NEW n \in Nat PROVE Clamped(n) \in 0 .. MaxLoose
  BY WindowAssumption DEF Clamped

LEMMA WindowInitInv == WindowInit => WindowInv
  BY WindowAssumption
  DEF WindowInit, WindowInv, WindowTypeOK, WindowRow, WindowIds, InOrder, Remembers,
      Unclosed, LimitsReturn

LEMMA SetLimitsKeeps == WindowInv /\ SetLimits => WindowInv'
  BY WindowAssumption
  DEF SetLimits, WindowInv, WindowTypeOK, WindowRow, WindowIds, InOrder, Remembers,
      Unclosed, LimitsReturn

\* A window that opens over none finds the base; one that opens over others is
\* not the oldest.
LEMMA OpenKeeps == WindowInv /\ OpenWindow => WindowInv'
<1> SUFFICES ASSUME WindowInv, OpenWindow PROVE WindowInv'
  OBVIOUS
<1> USE WindowAssumption
<1>1. PICK i \in WindowIds, n \in 0 .. MaxLoose + 1 :
        /\ window[i].state = "none" /\ \A j \in 1 .. i - 1 : window[j].state # "none"
        /\ window' = [window EXCEPT ![i] = [state |-> "open", restore |-> limits]]
        /\ limits' \in {Clamped(n), limits}
  BY DEF OpenWindow
<1>2. base' = base
  BY DEF OpenWindow
<1>3. WindowTypeOK
  BY DEF WindowInv
<1>4. Clamped(n) \in 0 .. MaxLoose
  BY ClampedType
<1>5. WindowTypeOK'
  BY <1>1, <1>2, <1>3, <1>4 DEF WindowTypeOK, WindowRow
<1>6. \A j \in WindowIds \ {i} : window'[j] = window[j]
  BY <1>1, <1>3 DEF WindowTypeOK
<1>7. window'[i] = [state |-> "open", restore |-> limits]
  BY <1>1, <1>3 DEF WindowTypeOK
<1>8. \A j \in Unclosed : j < i
  <2> SUFFICES ASSUME NEW j \in Unclosed, ~(j < i) PROVE FALSE
    OBVIOUS
  <2>1. j \in WindowIds /\ window[j].state # "none"
    BY DEF Unclosed
  <2>2. j # i
    BY <1>1, <2>1
  <2>3. i \in 1 .. j - 1
    BY <2>1, <2>2 DEF WindowIds
  <2> QED
    BY <1>1, <2>1, <2>3 DEF WindowInv, InOrder
<1>9. Unclosed' = Unclosed \cup {i}
  BY <1>6, <1>7 DEF Unclosed
<1>10. InOrder'
  <2> SUFFICES ASSUME NEW k \in WindowIds, window'[k].state # "none", NEW j \in 1 .. k - 1
               PROVE  window'[j].state # "none"
    BY DEF InOrder
  <2>0. j \in WindowIds
    BY DEF WindowIds
  <2>1. CASE k = i
    BY <1>1, <1>6, <2>0, <2>1 DEF WindowIds
  <2>2. CASE k # i
    BY <1>6, <1>7, <2>0, <2>2 DEF WindowInv, InOrder
  <2> QED
    BY <2>1, <2>2
<1>11. Remembers'
  <2> SUFFICES ASSUME NEW k \in Unclosed', \A j \in Unclosed' : k <= j
               PROVE  window'[k].restore = base
    BY <1>2 DEF Remembers
  <2>1. CASE Unclosed = {}
    BY <1>7, <1>9, <2>1 DEF WindowInv, LimitsReturn
  <2>2. CASE Unclosed # {}
    <3>1. PICK j \in Unclosed : TRUE
      BY <2>2
    <3>2. k # i
      BY <1>8, <1>9, <3>1 DEF WindowIds, Unclosed
    <3>3. k \in Unclosed /\ \A m \in Unclosed : k <= m
      BY <1>9, <3>2
    <3> QED
      BY <1>6, <3>2, <3>3 DEF WindowInv, Remembers, Unclosed
  <2> QED
    BY <2>1, <2>2
<1>12. LimitsReturn'
  BY <1>9 DEF LimitsReturn
<1> QED
  BY <1>5, <1>10, <1>11, <1>12 DEF WindowInv

LEMMA ElapsesKeeps ==
  ASSUME NEW i \in WindowIds, WindowInv, WindowElapses(i) PROVE WindowInv'
<1> USE WindowAssumption
<1>1. WindowTypeOK /\ window' = [window EXCEPT ![i].state = "elapsed"]
      /\ limits' = limits /\ base' = base /\ window[i].state = "open"
  BY DEF WindowInv, WindowElapses
<1>2. WindowTypeOK'
  BY <1>1 DEF WindowTypeOK, WindowRow
<1>3. \A j \in WindowIds :
        /\ window'[j].restore = window[j].restore
        /\ window'[j].state = "none" <=> window[j].state = "none"
        /\ window'[j].state \in {"open", "elapsed"} <=> window[j].state \in {"open", "elapsed"}
  BY <1>1 DEF WindowTypeOK, WindowRow
<1>4. Unclosed' = Unclosed
  BY <1>3 DEF Unclosed
<1>5. InOrder'
  BY <1>3 DEF WindowInv, InOrder, WindowIds
<1>6. Remembers' /\ LimitsReturn'
  BY <1>1, <1>3, <1>4 DEF WindowInv, Remembers, LimitsReturn, Unclosed
<1> QED
  BY <1>2, <1>5, <1>6 DEF WindowInv

\* What both ways to close have in common: the newest is closed, with its limits
\* put back; others may elapse.
LEMMA ClosingKeeps ==
  ASSUME NEW i \in WindowIds, WindowInv, Current(i), WindowTypeOK',
         limits' = window[i].restore, base' = base,
         window'[i].state = "closed",
         \A j \in WindowIds \ {i} :
           /\ window'[j].restore = window[j].restore
           /\ window'[j].state = "none" <=> window[j].state = "none"
           /\ window'[j].state \in {"open", "elapsed"} <=> window[j].state \in {"open", "elapsed"}
  PROVE  WindowInv'
<1> USE WindowAssumption
<1>1. i \in Unclosed /\ \A j \in Unclosed : j <= i
  BY DEF Current
<1>2. Unclosed' = Unclosed \ {i}
  BY DEF Unclosed
<1>3. InOrder'
  <2> SUFFICES ASSUME NEW k \in WindowIds, window'[k].state # "none", NEW j \in 1 .. k - 1
               PROVE  window'[j].state # "none"
    BY DEF InOrder
  <2>1. j \in WindowIds
    BY DEF WindowIds
  <2>2. window[k].state # "none"
    BY <1>1 DEF Unclosed
  <2> QED
    BY <2>1, <2>2 DEF WindowInv, InOrder
<1>4. Remembers'
  <2> SUFFICES ASSUME NEW k \in Unclosed', \A j \in Unclosed' : k <= j
               PROVE  window'[k].restore = base
    BY DEF Remembers
  <2>1. k \in Unclosed /\ k # i /\ k <= i
    BY <1>1, <1>2
  <2>2. \A j \in Unclosed : k <= j
    BY <1>2, <2>1
  <2> QED
    BY <2>1, <2>2 DEF WindowInv, Remembers, Unclosed
<1>5. LimitsReturn'
  <2> SUFFICES ASSUME Unclosed' = {} PROVE limits' = base'
    BY DEF LimitsReturn
  <2>1. Unclosed = {i}
    BY <1>1, <1>2
  <2> QED
    BY <1>1, <2>1 DEF WindowInv, Remembers, Unclosed, WindowIds
<1> QED
  BY <1>3, <1>4, <1>5 DEF WindowInv

LEMMA CloseIfElapsedKeeps ==
  ASSUME NEW i \in WindowIds, WindowInv, CloseIfElapsed(i) PROVE WindowInv'
<1> USE WindowAssumption
<1>1. /\ WindowTypeOK /\ Current(i) /\ limits' = window[i].restore /\ base' = base
      /\ i \in Unclosed
  BY DEF WindowInv, CloseIfElapsed, Current
<1>2. CASE window' = window
  BY <1>1, <1>2
  DEF WindowInv, WindowTypeOK, WindowRow, InOrder, Remembers, LimitsReturn, Unclosed
<1>3. CASE window' = [window EXCEPT ![i].state = "closed"]
  <2>1. WindowTypeOK'
    BY <1>1, <1>3 DEF WindowTypeOK, WindowRow
  <2>2. window'[i].state = "closed" /\ \A j \in WindowIds \ {i} : window'[j] = window[j]
    BY <1>1, <1>3 DEF WindowTypeOK, WindowRow
  <2> QED
    BY <1>1, <2>1, <2>2, ClosingKeeps
<1> QED
  BY <1>2, <1>3 DEF CloseIfElapsed

LEMMA CloseNowKeeps ==
  ASSUME NEW i \in WindowIds, WindowInv, CloseNow(i) PROVE WindowInv'
<1> USE WindowAssumption
<1>1. WindowTypeOK /\ Current(i) /\ limits' = window[i].restore /\ base' = base
  BY DEF WindowInv, CloseNow
<1>2. window' = [j \in WindowIds |->
        IF j = i THEN [window[j] EXCEPT !.state = "closed"]
        ELSE IF j \in Unclosed THEN [window[j] EXCEPT !.state = "elapsed"] ELSE window[j]]
  BY DEF CloseNow
<1>3. WindowTypeOK'
  BY <1>1, <1>2 DEF WindowTypeOK, WindowRow
<1>4. window'[i].state = "closed"
  BY <1>1, <1>2 DEF WindowTypeOK, WindowRow
<1>5. \A j \in WindowIds \ {i} :
        /\ window'[j].restore = window[j].restore
        /\ window'[j].state = "none" <=> window[j].state = "none"
        /\ window'[j].state \in {"open", "elapsed"} <=> window[j].state \in {"open", "elapsed"}
  BY <1>1, <1>2 DEF WindowTypeOK, WindowRow, Unclosed
<1> QED
  BY <1>1, <1>3, <1>4, <1>5, ClosingKeeps

LEMMA WindowNextKeeps == WindowInv /\ [WindowNext]_windowVars => WindowInv'
<1> SUFFICES ASSUME WindowInv, [WindowNext]_windowVars PROVE WindowInv'
  OBVIOUS
<1>1. CASE UNCHANGED windowVars
  BY <1>1
  DEF windowVars, WindowInv, WindowTypeOK, InOrder, Remembers, Unclosed, LimitsReturn
<1>2. CASE WindowNext
  BY <1>2, SetLimitsKeeps, OpenKeeps, ElapsesKeeps, CloseIfElapsedKeeps, CloseNowKeeps
  DEF WindowNext
<1> QED
  BY <1>1, <1>2

\* With no window left the limits are those there were before the windows
\* (research/window.ts), for any number of windows and any limits: the newest
\* closes first and puts back what it found, so the oldest is the last to, and
\* it alone found the limits that are not a window's.
THEOREM LimitsTheorem == WindowSpec => []LimitsReturn
<1>1. WindowInv => LimitsReturn
  BY DEF WindowInv
<1> QED
  BY <1>1, WindowInitInv, WindowNextKeeps, PTL DEF WindowSpec
-----------------------------------------------------------------------------
(* Identities: an account keeps a way in of its own.                       *)

SeedsOnce == \A u \in Live : seed[u] <= 1

\* An email or a wallet is one live account's.
Apart ==
  \A u, v \in Live : u # v =>
    /\ user[u].email = Nobody \/ user[u].email # user[v].email
    /\ user[u].wallet = Nobody \/ user[u].wallet # user[v].wallet

\* Cookies and wallet links lead to accounts that are there.
Present ==
  /\ \A b \in Browser : session[b] # Nobody => session[b] \in Live
  /\ \A w \in Wallet : link[w] # Nobody => link[w] \in Live

\* An account that Privy made has the identity's wallet; where the identity has
\* none, it has its email, and stays the identity's.
Key(u) ==
  \/ user[u].email # Nobody /\ user[u].password
  \/ user[u].wallet # Nobody /\ MayRecord(u, user[u].wallet)
  \/ /\ PrivyWallets = {} /\ user[u].email = PrivyEmail
     /\ privy \in {u, Nobody}

Keyed == \A u \in Live : Key(u)

\* What a request waits for has the email or the wallet it is about.
About(row) ==
  /\ row.pc \in {"register", "linkEmail", "joinEmail"} => row.email \in Email
  /\ row.pc \in {"wallet", "linkWallet"} => row.wallet \in Wallet
  /\ row.pc \in {"login", "linkWallet", "linkEmail", "joinEmail"} => row.user \in User

RequestsAbout == \A b \in Browser : About(request[b])

\* What a deleted row said is gone.
Blank == \A u \in User : ~user[u].live => user[u] = NoUser

IdentityInv ==
  IdentityTypeOK /\ SeedsOnce /\ Apart /\ Present /\ Keyed /\ RequestsAbout /\ Blank

LEMMA IdentityConstants ==
  /\ Nobody \notin User /\ Nobody \notin Email /\ Nobody \notin Wallet
  /\ PrivyEmail \in Email \cup {Nobody} /\ PrivyWallets \subseteq Wallet
  /\ PrivyEmail # Nobody \/ PrivyWallets # {}
  BY IdentityAssumption

LEMMA IdentityTypes ==
  IdentityInv => /\ user \in [User -> UserRow] /\ seed \in [User -> Nat]
                 /\ privy \in User \cup {Nobody} /\ link \in [Wallet -> User \cup {Nobody}]
                 /\ nonce \subseteq Wallet /\ session \in [Browser -> User \cup {Nobody}]
                 /\ request \in [Browser -> RequestRow]
  BY DEF IdentityInv, IdentityTypeOK

LEMMA LiveRows ==
  ASSUME IdentityInv, NEW u \in Live
  PROVE  /\ u \in User /\ user[u] \in UserRow /\ user[u].live /\ Key(u)
         /\ seed[u] <= 1 /\ seed[u] \in Nat
  BY IdentityTypes DEF Live, IdentityInv, Keyed, SeedsOnce

LEMMA NoRowsType ==
  /\ NoUser \in UserRow /\ ~NoUser.live
  /\ NoRequest \in RequestRow /\ NoRequest.pc = "idle" /\ About(NoRequest)
  BY DEF NoUser, UserRow, NoRequest, RequestRow, About

LEMMA IdentityInitInv == IdentityInit => IdentityInv
<1> SUFFICES ASSUME IdentityInit PROVE IdentityInv
  OBVIOUS
<1> USE DEF IdentityInit
<1>1. IdentityTypeOK
  BY NoRowsType DEF IdentityTypeOK
<1>2. Live = {}
  BY NoRowsType DEF Live
<1> QED
  BY <1>1, <1>2, NoRowsType DEF IdentityInv, SeedsOnce, Apart, Present, Keyed, RequestsAbout, Blank

\* The accounts rest: a browser signs in or out, or its request moves on.
LEMMA AccountsRest ==
  ASSUME IdentityInv, UNCHANGED <<user, seed, privy, link>>, nonce' \subseteq Wallet,
         request' \in [Browser -> RequestRow], \A b \in Browser : About(request'[b]),
         session' \in [Browser -> User \cup {Nobody}],
         \A b \in Browser : session'[b] # Nobody => session'[b] \in Live
  PROVE  IdentityInv'
<1>1. Live' = Live
  BY DEF Live
<1>2. IdentityTypeOK'
  BY DEF IdentityInv, IdentityTypeOK
<1>3. SeedsOnce' /\ Apart' /\ Present'
  BY <1>1 DEF IdentityInv, SeedsOnce, Apart, Present
<1>4. Keyed'
  BY <1>1 DEF IdentityInv, Keyed, Key, MayRecord
<1> QED
  BY <1>2, <1>3, <1>4 DEF IdentityInv, RequestsAbout, Blank

\* The request's answer, alone or with a new cookie.
LEMMA AnswerKeeps ==
  ASSUME IdentityInv, NEW b \in Browser, Answer(b)
  PROVE  request' \in [Browser -> RequestRow] /\ \A c \in Browser : About(request'[c])
  BY IdentityTypes, NoRowsType DEF Answer, IdentityInv, RequestsAbout

LEMMA SignInKeeps ==
  ASSUME IdentityInv, NEW b \in Browser, NEW u \in User, SignIn(b, u)
  PROVE  /\ request' \in [Browser -> RequestRow] /\ \A c \in Browser : About(request'[c])
         /\ session' \in [Browser -> User \cup {Nobody}]
         /\ \A c \in Browser : session'[c] \in {u, session[c]}
  BY AnswerKeeps, IdentityTypes DEF SignIn

LEMMA WaitKeeps ==
  ASSUME IdentityInv, NEW b \in Browser, NEW pc, NEW u, NEW e, NEW w, Wait(b, pc, u, e, w),
         NEW row, row = [pc |-> pc, user |-> u, email |-> e, wallet |-> w],
         row \in RequestRow, About(row)
  PROVE  request' \in [Browser -> RequestRow] /\ \A c \in Browser : About(request'[c])
  BY IdentityTypes DEF Wait, IdentityInv, RequestsAbout

\* What is known of the account a step is about.
LEMMA SessionUser ==
  ASSUME IdentityInv, NEW b \in Browser, session[b] # Nobody
  PROVE  session[b] \in Live /\ session[b] \in User
  BY DEF IdentityInv, Present, Live

LEMMA RequestAbout ==
  ASSUME IdentityInv, NEW b \in Browser
  PROVE  request[b] \in RequestRow /\ About(request[b])
  BY IdentityTypes DEF IdentityInv, RequestsAbout

LEMMA QuietKeeps ==
  ASSUME IdentityInv, NEW b \in Browser, GiveUp(b) \/ Logout(b) \/ AskPrivy(b)
  PROVE  IdentityInv'
<1>1. CASE GiveUp(b)
  BY <1>1, AccountsRest, AnswerKeeps, IdentityTypes DEF GiveUp, IdentityInv, Present
<1>2. CASE Logout(b)
  <2>1. /\ session' \in [Browser -> User \cup {Nobody}]
        /\ \A c \in Browser : session'[c] \in {Nobody, session[c]}
    BY <1>2, IdentityTypes DEF Logout
  <2> QED
    BY <1>2, <2>1, AccountsRest, IdentityTypes DEF Logout, IdentityInv, Present, RequestsAbout
<1>3. CASE AskPrivy(b)
  <2> DEFINE row == [pc |-> "privy", user |-> Nobody, email |-> Nobody, wallet |-> Nobody]
  <2>1. row \in RequestRow /\ About(row)
    BY DEF RequestRow, About
  <2>2. request' \in [Browser -> RequestRow] /\ \A c \in Browser : About(request'[c])
    BY <1>3, <2>1, WaitKeeps DEF AskPrivy
  <2> QED
    BY <1>3, <2>2, AccountsRest, IdentityTypes DEF AskPrivy, IdentityInv, Present
<1> QED
  BY <1>1, <1>2, <1>3

LEMMA NonceKeeps == ASSUME IdentityInv, NEW w \in Wallet, IssueNonce(w) PROVE IdentityInv'
  BY AccountsRest, IdentityTypes DEF IssueNonce, IdentityInv, Present, RequestsAbout

LEMMA RegisterKeeps ==
  ASSUME IdentityInv, NEW b \in Browser, NEW e \in Email, Register(b, e) PROVE IdentityInv'
<1> DEFINE row == [pc |-> "register", user |-> Nobody, email |-> e, wallet |-> Nobody]
<1>1. row \in RequestRow /\ About(row)
  BY DEF RequestRow, About
<1>2. request' \in [Browser -> RequestRow] /\ \A c \in Browser : About(request'[c])
  BY <1>1, WaitKeeps DEF Register
<1> QED
  BY <1>2, AccountsRest, IdentityTypes DEF Register, IdentityInv, Present

LEMMA LoginKeeps ==
  ASSUME IdentityInv, NEW b \in Browser, NEW u \in User, Login(b, u) PROVE IdentityInv'
<1> DEFINE row == [pc |-> "login", user |-> u, email |-> Nobody, wallet |-> Nobody]
<1>1. row \in RequestRow /\ About(row)
  BY DEF RequestRow, About
<1>2. request' \in [Browser -> RequestRow] /\ \A c \in Browser : About(request'[c])
  BY <1>1, WaitKeeps DEF Login
<1> QED
  BY <1>2, AccountsRest, IdentityTypes DEF Login, IdentityInv, Present

LEMMA LoggedInKeeps ==
  ASSUME IdentityInv, NEW b \in Browser, LoggedIn(b) PROVE IdentityInv'
<1>1. PICK u \in Live : u = request[b].user
  BY DEF LoggedIn
<1>2. u \in User /\ SignIn(b, u)
  BY <1>1 DEF LoggedIn, Live
<1>3. /\ request' \in [Browser -> RequestRow] /\ \A c \in Browser : About(request'[c])
      /\ session' \in [Browser -> User \cup {Nobody}]
      /\ \A c \in Browser : session'[c] \in {u, session[c]}
  BY <1>2, SignInKeeps
<1> QED
  BY <1>3, AccountsRest, IdentityTypes DEF LoggedIn, IdentityInv, Present

LEMMA ProveWalletKeeps ==
  ASSUME IdentityInv, NEW b \in Browser, NEW w \in Wallet, NEW pc \in {"wallet", "linkWallet"},
         ProveWallet(b, w, pc)
  PROVE  IdentityInv'
<1>1. PICK u : u = IF pc = "linkWallet" THEN session[b] ELSE Nobody
  OBVIOUS
<1>2. u \in User \cup {Nobody} /\ (pc = "linkWallet" => u \in User)
  BY <1>1, SessionUser DEF ProveWallet
<1> DEFINE row == [pc |-> pc, user |-> u, email |-> Nobody, wallet |-> w]
<1>3. row \in RequestRow /\ About(row)
  BY <1>2 DEF RequestRow, About
<1>4. Wait(b, pc, u, Nobody, w)
  BY <1>1 DEF ProveWallet
<1>5. request' \in [Browser -> RequestRow] /\ \A c \in Browser : About(request'[c])
  BY <1>3, <1>4, WaitKeeps
<1> QED
  BY <1>5, AccountsRest, IdentityTypes DEF ProveWallet, IdentityInv, Present

LEMMA LinkEmailKeeps ==
  ASSUME IdentityInv, NEW b \in Browser, NEW e \in Email, LinkEmail(b, e) PROVE IdentityInv'
<1>1. PICK u \in Live : u = session[b]
  BY DEF LinkEmail
<1>2. PICK pc \in {"linkEmail", "joinEmail"}, w \in Wallet \cup {Nobody} : Wait(b, pc, u, e, w)
  <2>1. user[u].wallet \in Wallet \cup {Nobody}
    BY LiveRows DEF UserRow
  <2> QED
    BY <1>1, <2>1 DEF LinkEmail
<1> DEFINE row == [pc |-> pc, user |-> u, email |-> e, wallet |-> w]
<1>3. row \in RequestRow /\ About(row)
  BY LiveRows DEF RequestRow, About
<1>4. request' \in [Browser -> RequestRow] /\ \A c \in Browser : About(request'[c])
  BY <1>2, <1>3, WaitKeeps
<1> QED
  BY <1>4, AccountsRest, IdentityTypes DEF LinkEmail, IdentityInv, Present
-------------------------------------------------------------------------------
(* One row changes, or comes to be.                                         *)

LEMMA RowChanges ==
  ASSUME IdentityInv, IdentityTypeOK', NEW u \in User, NEW row, row.live,
         user' = [user EXCEPT ![u] = row],
         \A v \in Live : v # u =>
           /\ row.email = Nobody \/ row.email # user[v].email
           /\ row.wallet = Nobody \/ row.wallet # user[v].wallet,
         seed'[u] <= 1, \A v \in User : v # u => seed'[v] = seed[v],
         \A v \in Live : v # u => Key(v)', Key(u)',
         \A b \in Browser : session'[b] \in {u, session[b]},
         \A w \in Wallet : link'[w] \in {u, link[w], Nobody},
         \A b \in Browser : About(request'[b])
  PROVE  IdentityInv'
<1>1. /\ user' \in [User -> UserRow] /\ user'[u] = row
      /\ \A v \in User : v # u => user'[v] = user[v]
  BY IdentityTypes DEF IdentityTypeOK
<1>2. Live' = Live \cup {u}
  BY <1>1 DEF Live
<1>3. \A v \in Live : v \in User
  BY DEF Live
<1>4. SeedsOnce'
  BY <1>2, <1>3 DEF IdentityInv, SeedsOnce
<1>5. Apart'
  <2> SUFFICES ASSUME NEW v \in Live', NEW x \in Live', v # x
               PROVE  /\ user'[v].email = Nobody \/ user'[v].email # user'[x].email
                      /\ user'[v].wallet = Nobody \/ user'[v].wallet # user'[x].wallet
    BY DEF Apart
  <2>1. CASE v = u
    BY <1>1, <1>2, <1>3, <2>1
  <2>2. CASE x = u
    <3>1. user'[v] = user[v] /\ v \in Live /\ user'[x] = row
      BY <1>1, <1>2, <1>3, <2>2
    <3> QED
      BY <2>2, <3>1
  <2>3. CASE v # u /\ x # u
    <3>1. user'[v] = user[v] /\ user'[x] = user[x] /\ v \in Live /\ x \in Live
      BY <1>1, <1>2, <1>3, <2>3
    <3> QED
      BY <3>1 DEF IdentityInv, Apart
  <2> QED
    BY <2>1, <2>2, <2>3
<1>6. Present'
  BY <1>2 DEF IdentityInv, Present
<1>7. Keyed'
  BY <1>2 DEF Keyed
<1>8. Blank'
  BY <1>1 DEF IdentityInv, Blank
<1> QED
  BY <1>4, <1>5, <1>6, <1>7, <1>8 DEF IdentityInv, RequestsAbout

\* An account that a step is not about keeps its way in, if its wallet's link
\* and its identity stay its own.
LEMMA KeyStays ==
  ASSUME IdentityInv, NEW v \in Live, user'[v] = user[v],
         \A w \in Wallet : w = user[v].wallet /\ link[w] \in {v, Nobody}
           => link'[w] \in {v, Nobody},
         privy' = privy \/ privy' = v
           \/ (PrivyWallets = {} => user[v].email # PrivyEmail)
  PROVE  Key(v)'
<1>1. Key(v) /\ user[v] \in UserRow
  BY LiveRows
<1>2. user[v].wallet # Nobody => user[v].wallet \in Wallet
  BY <1>1 DEF UserRow
<1> QED
  BY <1>1, <1>2 DEF Key, MayRecord

LEMMA RegisteredKeeps ==
  ASSUME IdentityInv, NEW b \in Browser, NEW u \in User, Registered(b, u) PROVE IdentityInv'
<1>1. PICK e : e = request[b].email
  OBVIOUS
<1> DEFINE row == [NoUser EXCEPT !.live = TRUE, !.email = e, !.password = TRUE]
<1>2. /\ HasEmail(e) = {} /\ Unused(u) /\ user' = [user EXCEPT ![u] = row]
      /\ seed' = [seed EXCEPT ![u] = 1] /\ SignIn(b, u) /\ UNCHANGED <<privy, link, nonce>>
      /\ request[b].pc = "register"
  BY <1>1 DEF Registered
<1>3. e \in Email /\ e # Nobody
  BY <1>1, <1>2, RequestAbout, IdentityConstants DEF About
<1>4. /\ row \in UserRow /\ row.live /\ row.email = e /\ row.password
      /\ row.wallet = Nobody
  BY <1>3 DEF NoUser, UserRow
<1> HIDE DEF row
<1>5. /\ request' \in [Browser -> RequestRow] /\ \A c \in Browser : About(request'[c])
      /\ session' \in [Browser -> User \cup {Nobody}]
      /\ \A c \in Browser : session'[c] \in {u, session[c]}
  BY <1>2, SignInKeeps
<1>6. IdentityTypeOK'
  BY <1>2, <1>4, <1>5, IdentityTypes DEF IdentityTypeOK
<1>7. /\ user'[u] = row /\ \A v \in User : v # u => user'[v] = user[v]
      /\ seed'[u] <= 1 /\ \A v \in User : v # u => seed'[v] = seed[v]
  BY <1>2, IdentityTypes
<1>8. \A v \in Live : v # u => Key(v)'
  BY <1>2, <1>7, KeyStays DEF Live
<1>9. Key(u)'
  BY <1>3, <1>4, <1>7 DEF Key
<1>10. \A v \in Live : v # u => /\ row.email = Nobody \/ row.email # user[v].email
                                /\ row.wallet = Nobody \/ row.wallet # user[v].wallet
  BY <1>2, <1>4 DEF HasEmail
<1> QED
  BY <1>2, <1>4, <1>5, <1>6, <1>7, <1>8, <1>9, <1>10, RowChanges

LEMMA WalletNewKeeps ==
  ASSUME IdentityInv, NEW b \in Browser, NEW u \in User, WalletNew(b, u) PROVE IdentityInv'
<1>1. PICK w : w = request[b].wallet
  OBVIOUS
<1> DEFINE row == [NoUser EXCEPT !.live = TRUE, !.wallet = w]
<1>2. /\ HasWallet(w) = {} /\ user' = [user EXCEPT ![u] = row]
      /\ seed' = [seed EXCEPT ![u] = 1] /\ link' = [link EXCEPT ![w] = u]
      /\ SignIn(b, u) /\ UNCHANGED <<privy, nonce>> /\ request[b].pc = "wallet"
  BY <1>1 DEF WalletNew
<1>3. w \in Wallet /\ w # Nobody
  BY <1>1, <1>2, RequestAbout, IdentityConstants DEF About
<1>4. row \in UserRow /\ row.live /\ row.email = Nobody /\ row.wallet = w
  BY <1>3 DEF NoUser, UserRow
<1> HIDE DEF row
<1>5. /\ request' \in [Browser -> RequestRow] /\ \A c \in Browser : About(request'[c])
      /\ session' \in [Browser -> User \cup {Nobody}]
      /\ \A c \in Browser : session'[c] \in {u, session[c]}
  BY <1>2, SignInKeeps
<1>6. /\ link' \in [Wallet -> User \cup {Nobody}] /\ link'[w] = u
      /\ \A x \in Wallet : x # w => link'[x] = link[x]
  BY <1>2, <1>3, IdentityTypes
<1>7. IdentityTypeOK'
  BY <1>2, <1>4, <1>5, <1>6, IdentityTypes DEF IdentityTypeOK
<1>8. /\ user'[u] = row /\ \A v \in User : v # u => user'[v] = user[v]
      /\ seed'[u] <= 1 /\ \A v \in User : v # u => seed'[v] = seed[v]
  BY <1>2, IdentityTypes
<1>9. \A v \in Live : user[v].wallet # w
  BY <1>2 DEF HasWallet
<1>10. \A v \in Live : v # u => Key(v)'
  <2> SUFFICES ASSUME NEW v \in Live, v # u PROVE Key(v)'
    OBVIOUS
  <2>1. user'[v] = user[v] /\ user[v].wallet # w
    BY <1>8, <1>9 DEF Live
  <2> QED
    BY <1>2, <1>6, <2>1, KeyStays
<1>11. Key(u)'
  BY <1>3, <1>4, <1>6, <1>8 DEF Key, MayRecord
<1>12. \A v \in Live : v # u => /\ row.email = Nobody \/ row.email # user[v].email
                                /\ row.wallet = Nobody \/ row.wallet # user[v].wallet
  BY <1>4, <1>9
<1>13. \A x \in Wallet : link'[x] \in {u, link[x], Nobody}
  BY <1>6
<1>14. user' = [user EXCEPT ![u] = row]
  BY <1>2
<1> QED
  <2>1. row.live /\ seed'[u] <= 1 /\ Key(u)'
    BY <1>4, <1>8, <1>11
  <2>2. \A v \in User : v # u => seed'[v] = seed[v]
    BY <1>8
  <2>3. \A c \in Browser : session'[c] \in {u, session[c]}
    BY <1>5
  <2>4. \A c \in Browser : About(request'[c])
    BY <1>5
  <2> QED
    BY <1>7, <1>10, <1>12, <1>13, <1>14, <2>1, <2>2, <2>3, <2>4, RowChanges

LEMMA WalletKnownKeeps ==
  ASSUME IdentityInv, NEW b \in Browser, WalletKnown(b) PROVE IdentityInv'
<1>1. PICK w : w = request[b].wallet
  OBVIOUS
<1>2. PICK u \in HasWallet(w) :
        link' = [link EXCEPT ![w] = u] /\ SignIn(b, u) /\ UNCHANGED <<user, seed, privy, nonce>>
  BY <1>1 DEF WalletKnown
<1>3. u \in Live /\ u \in User /\ user[u].wallet = w /\ w \in Wallet
  BY <1>1, RequestAbout DEF HasWallet, Live, WalletKnown, About
<1>4. /\ request' \in [Browser -> RequestRow] /\ \A c \in Browser : About(request'[c])
      /\ session' \in [Browser -> User \cup {Nobody}]
      /\ \A c \in Browser : session'[c] \in {u, session[c]}
  BY <1>2, <1>3, SignInKeeps
<1>5. /\ link' \in [Wallet -> User \cup {Nobody}] /\ link'[w] = u
      /\ \A x \in Wallet : x # w => link'[x] = link[x]
  BY <1>2, <1>3, IdentityTypes
<1>6. IdentityTypeOK'
  BY <1>2, <1>4, <1>5, IdentityTypes DEF IdentityTypeOK
<1>7. Live' = Live
  BY <1>2 DEF Live
<1>8. SeedsOnce' /\ Apart'
  BY <1>2, <1>7 DEF IdentityInv, SeedsOnce, Apart
<1>9. Present'
  BY <1>3, <1>4, <1>5, <1>7 DEF IdentityInv, Present
<1>10. Keyed'
  <2> SUFFICES ASSUME NEW v \in Live PROVE Key(v)'
    BY <1>7 DEF Keyed
  <2>1. v # u => user[v].wallet # w
    BY <1>3, IdentityConstants DEF IdentityInv, Apart
  <2>2. \A x \in Wallet : x = user[v].wallet /\ link[x] \in {v, Nobody}
           => link'[x] \in {v, Nobody}
    BY <1>5, <2>1
  <2> QED
    BY <1>2, <2>2, KeyStays
<1>11. Blank'
  BY <1>2 DEF IdentityInv, Blank
<1> QED
  BY <1>4, <1>6, <1>8, <1>9, <1>10, <1>11 DEF IdentityInv, RequestsAbout

LEMMA UnlinkWalletKeeps ==
  ASSUME IdentityInv, NEW b \in Browser, UnlinkWallet(b) PROVE IdentityInv'
<1>1. PICK u \in Live : u = session[b]
  BY DEF UnlinkWallet
<1> DEFINE row == [user[u] EXCEPT !.wallet = Nobody]
<1>2. /\ user[u].email # Nobody /\ user[u].password /\ user' = [user EXCEPT ![u] = row]
      /\ link' = [w \in Wallet |->
           IF w = user[u].wallet /\ link[w] = u THEN Nobody ELSE link[w]]
      /\ UNCHANGED <<seed, privy, nonce, session, request>>
  BY <1>1 DEF UnlinkWallet
<1>3. u \in User /\ user[u] \in UserRow /\ user[u].live /\ seed[u] <= 1
  BY LiveRows
<1>4. /\ row \in UserRow /\ row.live /\ row.email = user[u].email /\ row.wallet = Nobody
      /\ row.password
  BY <1>2, <1>3 DEF UserRow
<1> HIDE DEF row
<1>5. \A w \in Wallet : link'[w] \in {link[w], Nobody}
  BY <1>2
<1>6. link' \in [Wallet -> User \cup {Nobody}]
  BY <1>2, IdentityTypes
<1>7. IdentityTypeOK'
  BY <1>2, <1>3, <1>4, <1>6, IdentityTypes DEF IdentityTypeOK
<1>8. user'[u] = row /\ \A v \in User : v # u => user'[v] = user[v]
  BY <1>2, <1>3, IdentityTypes
<1>9. \A v \in Live : v # u => Key(v)'
  <2> SUFFICES ASSUME NEW v \in Live, v # u PROVE Key(v)'
    OBVIOUS
  <2>1. user'[v] = user[v]
    BY <1>8 DEF Live
  <2> QED
    BY <1>2, <1>5, <2>1, KeyStays
<1>10. Key(u)'
  BY <1>2, <1>4, <1>8 DEF Key
<1>11. \A v \in Live : v # u => /\ row.email = Nobody \/ row.email # user[v].email
                                /\ row.wallet = Nobody \/ row.wallet # user[v].wallet
  BY <1>4 DEF IdentityInv, Apart
<1>12. \A c \in Browser : session'[c] \in {u, session[c]} /\ About(request'[c])
  BY <1>2 DEF IdentityInv, RequestsAbout
<1>13. seed'[u] <= 1 /\ \A v \in User : v # u => seed'[v] = seed[v]
  BY <1>2, <1>3
<1>14. \A w \in Wallet : link'[w] \in {u, link[w], Nobody}
  BY <1>5
<1> QED
  BY <1>2, <1>3, <1>4, <1>7, <1>9, <1>10, <1>11, <1>12, <1>13, <1>14, RowChanges

LEMMA LinkWalletKeeps ==
  ASSUME IdentityInv, NEW b \in Browser, LinkWallet(b) PROVE IdentityInv'
<1>1. PICK u \in Live, w \in Wallet : w = request[b].wallet /\ u = request[b].user
  BY RequestAbout DEF LinkWallet, About
<1> DEFINE row == [user[u] EXCEPT !.wallet = w]
<1>2. /\ request[b].pc = "linkWallet" /\ user[u].wallet \in {Nobody, w}
      /\ HasWallet(w) \subseteq {u} /\ user' = [user EXCEPT ![u] = row]
      /\ \/ link' = [link EXCEPT ![w] = u] /\ SignIn(b, u)
         \/ Answer(b) /\ UNCHANGED <<link, session>>
      /\ UNCHANGED <<seed, privy, nonce>>
  BY <1>1 DEF LinkWallet
<1>3. /\ u \in User /\ user[u] \in UserRow /\ user[u].live /\ seed[u] <= 1 /\ Key(u)
      /\ w \in Wallet /\ w # Nobody
  BY <1>1, <1>2, LiveRows, RequestAbout, IdentityConstants DEF About
<1>4. /\ row \in UserRow /\ row.live /\ row.email = user[u].email /\ row.wallet = w
      /\ row.password = user[u].password
  BY <1>3 DEF UserRow
<1>5. user[u].wallet = w => row = user[u]
  BY <1>3 DEF UserRow
<1> HIDE DEF row
<1>6. /\ link' \in [Wallet -> User \cup {Nobody}] /\ link'[w] \in {u, link[w]}
      /\ \A x \in Wallet : x # w => link'[x] = link[x]
  BY <1>2, <1>3, IdentityTypes
<1>7. /\ request' \in [Browser -> RequestRow] /\ \A c \in Browser : About(request'[c])
      /\ session' \in [Browser -> User \cup {Nobody}]
      /\ \A c \in Browser : session'[c] \in {u, session[c]}
  BY <1>2, <1>3, SignInKeeps, AnswerKeeps, IdentityTypes
<1>8. IdentityTypeOK'
  BY <1>2, <1>3, <1>4, <1>6, <1>7, IdentityTypes DEF IdentityTypeOK
<1>9. user'[u] = row /\ \A v \in User : v # u => user'[v] = user[v]
  BY <1>2, <1>3, IdentityTypes
<1>10. \A v \in Live : v # u => user[v].wallet # w
  BY <1>2 DEF HasWallet
<1>11. \A v \in Live : v # u => Key(v)'
  <2> SUFFICES ASSUME NEW v \in Live, v # u PROVE Key(v)'
    OBVIOUS
  <2>1. user'[v] = user[v] /\ user[v].wallet # w
    BY <1>9, <1>10 DEF Live
  <2> QED
    BY <1>2, <1>6, <2>1, KeyStays
<1>12. Key(u)'
  <2>1. CASE user[u].wallet = w
    BY <1>2, <1>3, <1>5, <1>6, <1>9, <2>1 DEF Key, MayRecord
  <2>2. CASE user[u].wallet = Nobody
    BY <1>2, <1>3, <1>4, <1>9, <2>2 DEF Key
  <2> QED
    BY <1>2, <2>1, <2>2
<1>13. \A v \in Live : v # u => /\ row.email = Nobody \/ row.email # user[v].email
                                /\ row.wallet = Nobody \/ row.wallet # user[v].wallet
  BY <1>4, <1>10 DEF IdentityInv, Apart
<1>14. \A x \in Wallet : link'[x] \in {u, link[x], Nobody}
  BY <1>6
<1>15. seed'[u] <= 1 /\ \A v \in User : v # u => seed'[v] = seed[v]
  BY <1>2, <1>3
<1> QED
  BY <1>2, <1>3, <1>4, <1>7, <1>8, <1>11, <1>12, <1>13, <1>14, <1>15, RowChanges

LEMMA EmailLinkedKeeps ==
  ASSUME IdentityInv, NEW b \in Browser, EmailLinked(b) PROVE IdentityInv'
<1>1. PICK u, e : u = request[b].user /\ e = request[b].email
  OBVIOUS
<1>2. Answer(b) /\ UNCHANGED <<seed, privy, link, nonce, session>>
  BY DEF EmailLinked
<1>3. request' \in [Browser -> RequestRow] /\ \A c \in Browser : About(request'[c])
  BY <1>2, AnswerKeeps
<1>4. CASE u \in Live
  <2> DEFINE row == [user[u] EXCEPT !.email = e, !.password = TRUE]
  <2>1. /\ request[b].pc = "linkEmail" /\ HasEmail(e) \subseteq {u}
        /\ user' = [user EXCEPT ![u] = row]
    BY <1>1, <1>4 DEF EmailLinked
  <2>2. /\ u \in User /\ user[u] \in UserRow /\ user[u].live /\ seed[u] <= 1
        /\ e \in Email /\ e # Nobody
    BY <1>1, <1>4, <2>1, LiveRows, RequestAbout, IdentityConstants DEF About
  <2>3. /\ row \in UserRow /\ row.live /\ row.email = e /\ row.password
        /\ row.wallet = user[u].wallet
    BY <2>2 DEF UserRow
  <2> HIDE DEF row
  <2>4. IdentityTypeOK'
    BY <1>2, <1>3, <2>1, <2>2, <2>3, IdentityTypes DEF IdentityTypeOK
  <2>5. user'[u] = row /\ \A v \in User : v # u => user'[v] = user[v]
    BY <2>1, <2>2, IdentityTypes
  <2>6. \A v \in Live : v # u => Key(v)'
    BY <1>2, <2>5, KeyStays DEF Live
  <2>7. Key(u)'
    BY <2>2, <2>3, <2>5 DEF Key
  <2>8. \A v \in Live : v # u => /\ row.email = Nobody \/ row.email # user[v].email
                                 /\ row.wallet = Nobody \/ row.wallet # user[v].wallet
    BY <1>4, <2>1, <2>3 DEF HasEmail, IdentityInv, Apart
  <2>9. /\ \A c \in Browser : session'[c] \in {u, session[c]}
        /\ \A w \in Wallet : link'[w] \in {u, link[w], Nobody}
        /\ seed'[u] <= 1 /\ \A v \in User : v # u => seed'[v] = seed[v]
    BY <1>2, <2>2
  <2> QED
    BY <1>3, <2>1, <2>2, <2>3, <2>4, <2>6, <2>7, <2>8, <2>9, RowChanges
<1>5. CASE u \notin Live
  <2>1. UNCHANGED user
    BY <1>1, <1>5 DEF EmailLinked
  <2> QED
    BY <1>2, <1>3, <2>1, AccountsRest, IdentityTypes DEF IdentityInv, Present
<1> QED
  BY <1>4, <1>5
-------------------------------------------------------------------------------
(* Two accounts become one.                                                 *)

LEMMA MergeKeeps ==
  ASSUME IdentityInv, IdentityTypeOK', NEW from \in Live, NEW to \in Live, from # to,
         NEW wallet, Merge(from, to, wallet),
         \A v \in Live : v \notin {from, to} => wallet = Nobody \/ user[v].wallet # wallet,
         \A b \in Browser : session'[b] = to \/ (session'[b] = session[b] /\ session[b] # from),
         \A w \in Wallet : link'[w] = to \/ (link'[w] = link[w] /\ link[w] # from),
         \A w \in Wallet : w # wallet \/ wallet = Nobody =>
           link'[w] = IF link[w] = from THEN to ELSE link[w],
         \A b \in Browser : About(request'[b]), Key(to)'
  PROVE  IdentityInv'
<1>1. /\ from \in User /\ to \in User /\ user[to] \in UserRow /\ user[to].live
      /\ seed[from] <= 1 /\ seed[to] <= 1 /\ seed[from] \in Nat /\ seed[to] \in Nat
  BY LiveRows
<1>2. /\ user'[to] = [user[to] EXCEPT !.wallet = wallet] /\ user'[from] = NoUser
      /\ \A v \in User : v \notin {from, to} => user'[v] = user[v]
  BY <1>1, IdentityTypes DEF Merge
<1>3. /\ user'[to].live /\ user'[to].email = user[to].email
      /\ user'[to].password = user[to].password /\ user'[to].wallet = wallet
  BY <1>1, <1>2 DEF UserRow
<1>4. Live' = Live \ {from}
  BY <1>1, <1>2, <1>3, NoRowsType DEF Live
<1>5. \A v \in Live : v \in User
  BY DEF Live
<1>6. SeedsOnce'
  <2>1. seed'[to] = SeedsOf(from, to) /\ \A v \in User : v # to => seed'[v] = seed[v]
    BY <1>1, IdentityTypes DEF Merge
  <2>2. seed'[to] <= 1
    BY <1>1, <2>1 DEF SeedsOf
  <2> QED
    BY <1>4, <1>5, <2>1, <2>2 DEF IdentityInv, SeedsOnce
<1>7. Apart'
  <2>1. ASSUME NEW v \in Live, v \notin {from, to}
        PROVE  /\ user[v].email = Nobody \/ user[v].email # user'[to].email
               /\ user'[to].email = Nobody \/ user[v].email # user'[to].email
               /\ user[v].wallet = Nobody \/ user[v].wallet # user'[to].wallet
               /\ user'[to].wallet = Nobody \/ user[v].wallet # user'[to].wallet
    BY <1>3, <2>1 DEF IdentityInv, Apart
  <2> SUFFICES ASSUME NEW v \in Live', NEW x \in Live', v # x
               PROVE  /\ user'[v].email = Nobody \/ user'[v].email # user'[x].email
                      /\ user'[v].wallet = Nobody \/ user'[v].wallet # user'[x].wallet
    BY DEF Apart
  <2>2. v \in Live /\ x \in Live /\ v # from /\ x # from /\ v \in User /\ x \in User
    BY <1>4, <1>5
  <2>3. CASE v = to
    <3>1. user'[x] = user[x] /\ x \notin {from, to}
      BY <1>2, <2>2, <2>3
    <3> QED
      BY <2>1, <2>2, <2>3, <3>1
  <2>4. CASE x = to
    <3>1. user'[v] = user[v] /\ v \notin {from, to}
      BY <1>2, <2>2, <2>4
    <3> QED
      BY <2>1, <2>2, <2>4, <3>1
  <2>5. CASE v # to /\ x # to
    <3>1. user'[v] = user[v] /\ user'[x] = user[x]
      BY <1>2, <2>2, <2>5
    <3> QED
      BY <2>2, <3>1 DEF IdentityInv, Apart
  <2> QED
    BY <2>3, <2>4, <2>5
<1>8. Present'
  BY <1>4 DEF IdentityInv, Present
<1>9. Keyed'
  <2> SUFFICES ASSUME NEW v \in Live, v # from, v # to PROVE Key(v)'
    BY <1>4 DEF Keyed
  <2>1. user'[v] = user[v] /\ Key(v) /\ user[v] \in UserRow
    BY <1>2, <1>5, LiveRows
  <2>2. user[v].wallet # Nobody => user[v].wallet \in Wallet /\ user[v].wallet # wallet
    BY <2>1 DEF UserRow
  <2>3. user[v].wallet # Nobody /\ MayRecord(v, user[v].wallet)
          => link'[user[v].wallet] \in {v, Nobody}
    BY <1>1, <2>2, IdentityConstants DEF MayRecord
  <2>4. privy \in {v, Nobody} => privy' \in {v, Nobody}
    BY IdentityConstants, <1>1 DEF Merge
  <2> QED
    BY <2>1, <2>3, <2>4 DEF Key, MayRecord
<1>10. Blank'
  <2> SUFFICES ASSUME NEW v \in User, ~user'[v].live PROVE user'[v] = NoUser
    BY DEF Blank
  <2>1. v # from => v \notin {from, to}
    BY <1>3
  <2> QED
    BY <1>2, <2>1 DEF IdentityInv, Blank
<1> QED
  BY <1>6, <1>7, <1>8, <1>9, <1>10 DEF IdentityInv, RequestsAbout

\* Rows that move from one account to another.
LEMMA MovedType ==
  ASSUME NEW S, NEW owner \in [S -> User \cup {Nobody}], NEW from, NEW to \in User
  PROVE  /\ Moved(from, to, owner) \in [S -> User \cup {Nobody}]
         /\ \A x \in S : Moved(from, to, owner)[x] = IF owner[x] = from THEN to ELSE owner[x]
  BY DEF Moved

LEMMA MergeTypes ==
  ASSUME IdentityInv, NEW from \in Live, NEW to \in Live,
         NEW wallet \in Wallet \cup {Nobody}, Merge(from, to, wallet),
         link' \in [Wallet -> User \cup {Nobody}], session' \in [Browser -> User \cup {Nobody}],
         request' \in [Browser -> RequestRow], nonce' = nonce
  PROVE  IdentityTypeOK'
<1>1. /\ from \in User /\ to \in User /\ user[to] \in UserRow
      /\ seed[from] \in Nat /\ seed[to] \in Nat
  BY LiveRows
<1>2. [user[to] EXCEPT !.wallet = wallet] \in UserRow
  BY <1>1 DEF UserRow
<1>3. user' \in [User -> UserRow]
  BY <1>1, <1>2, IdentityTypes, NoRowsType DEF Merge
<1>4. SeedsOf(from, to) \in Nat
  BY <1>1 DEF SeedsOf
<1>5. seed' \in [User -> Nat]
  BY <1>1, <1>4, IdentityTypes DEF Merge
<1>6. privy' \in User \cup {Nobody}
  BY <1>1, IdentityTypes DEF Merge
<1> QED
  BY <1>3, <1>5, <1>6, IdentityTypes DEF IdentityTypeOK

LEMMA JoinWalletKeeps ==
  ASSUME IdentityInv, NEW b \in Browser, JoinWallet(b) PROVE IdentityInv'
<1>1. PICK u \in Live, w \in Wallet : u = request[b].user /\ w = request[b].wallet
  BY RequestAbout DEF JoinWallet, About
<1>2. PICK v \in HasWallet(w) \ {u} :
        /\ MayMerge(v, u) /\ Merge(v, u, w)
        /\ \/ /\ link' = [Moved(v, u, link) EXCEPT ![w] = u]
              /\ session' = [Moved(v, u, session) EXCEPT ![b] = u]
           \/ link' = Moved(v, u, link) /\ session' = Moved(v, u, session)
        /\ Answer(b)
  BY <1>1 DEF JoinWallet
<1>3. user[u].email # Nobody /\ user[u].password /\ nonce' = nonce
  BY <1>1 DEF JoinWallet
<1>4. v \in Live /\ v \in User /\ u \in User /\ user[v].wallet = w /\ w # Nobody
  BY IdentityConstants DEF HasWallet, Live
<1>5. request' \in [Browser -> RequestRow] /\ \A c \in Browser : About(request'[c])
  BY <1>2, AnswerKeeps
<1>6. /\ link' \in [Wallet -> User \cup {Nobody}]
      /\ \A x \in Wallet : /\ link'[x] = u \/ (link'[x] = link[x] /\ link[x] # v)
                           /\ x # w => link'[x] = IF link[x] = v THEN u ELSE link[x]
  <2>1. /\ Moved(v, u, link) \in [Wallet -> User \cup {Nobody}]
        /\ \A x \in Wallet : Moved(v, u, link)[x] = IF link[x] = v THEN u ELSE link[x]
    BY <1>4, IdentityTypes, MovedType
  <2> QED
    BY <1>2, <1>4, <2>1
<1>7. /\ session' \in [Browser -> User \cup {Nobody}]
      /\ \A c \in Browser : session'[c] = u \/ (session'[c] = session[c] /\ session[c] # v)
  <2>1. /\ Moved(v, u, session) \in [Browser -> User \cup {Nobody}]
        /\ \A c \in Browser : Moved(v, u, session)[c] = IF session[c] = v THEN u ELSE session[c]
    BY <1>4, IdentityTypes, MovedType
  <2> QED
    BY <1>2, <1>4, <2>1
<1>8. IdentityTypeOK'
  BY <1>2, <1>3, <1>4, <1>5, <1>6, <1>7, MergeTypes
<1>9. user'[u] = [user[u] EXCEPT !.wallet = w]
  BY <1>2, <1>4, IdentityTypes DEF Merge
<1>10. Key(u)'
  BY <1>3, <1>4, <1>9, IdentityTypes DEF Key, UserRow
<1>11. \A x \in Live : x \notin {v, u} => user[x].wallet # w
  BY <1>4 DEF IdentityInv, Apart
<1> QED
  BY <1>2, <1>4, <1>5, <1>6, <1>7, <1>8, <1>10, <1>11, MergeKeeps

LEMMA EmailJoinedKeeps ==
  ASSUME IdentityInv, NEW b \in Browser, EmailJoined(b) PROVE IdentityInv'
<1>1. PICK u : u = request[b].user
  OBVIOUS
<1>0. PICK v \in HasEmail(request[b].email) \ {u} : \E w :
        /\ w = (IF user[v].wallet = Nobody THEN user[u].wallet ELSE user[v].wallet)
        /\ MayMerge(u, v) /\ Merge(u, v, w)
        /\ link' = Moved(u, v, link) /\ session' = Moved(u, v, session)
        /\ Answer(b) /\ nonce' = nonce /\ request[b].pc = "joinEmail"
  BY <1>1 DEF EmailJoined
<1>2. PICK w :
        /\ w = (IF user[v].wallet = Nobody THEN user[u].wallet ELSE user[v].wallet)
        /\ MayMerge(u, v) /\ Merge(u, v, w)
        /\ link' = Moved(u, v, link) /\ session' = Moved(u, v, session)
        /\ Answer(b) /\ nonce' = nonce /\ request[b].pc = "joinEmail"
  BY <1>0
<1>3. /\ v \in Live /\ u \in Live /\ v \in User /\ u \in User
      /\ user[v].email \in Email /\ user[v].email # Nobody /\ v # u
  BY <1>0, <1>2, RequestAbout, IdentityConstants DEF HasEmail, MayMerge, About, Live
<1>4. user[u].email = Nobody
  BY <1>2, <1>3 DEF MayMerge
<1>5. user[u] \in UserRow /\ user[v] \in UserRow /\ Key(u) /\ Key(v)
  BY <1>3, LiveRows
<1>6. w \in Wallet \cup {Nobody}
  BY <1>2, <1>5 DEF UserRow
<1>7. request' \in [Browser -> RequestRow] /\ \A c \in Browser : About(request'[c])
  BY <1>2, AnswerKeeps
<1>8. /\ link' \in [Wallet -> User \cup {Nobody}]
      /\ \A x \in Wallet : link'[x] = IF link[x] = u THEN v ELSE link[x]
  BY <1>2, <1>3, IdentityTypes, MovedType
<1>9. /\ session' \in [Browser -> User \cup {Nobody}]
      /\ \A c \in Browser : session'[c] = IF session[c] = u THEN v ELSE session[c]
  BY <1>2, <1>3, IdentityTypes, MovedType
<1>10. IdentityTypeOK'
  BY <1>2, <1>3, <1>6, <1>7, <1>8, <1>9, MergeTypes
<1>11. /\ user'[v].email = user[v].email /\ user'[v].password = user[v].password
       /\ user'[v].wallet = w
  <2>1. user'[v] = [user[v] EXCEPT !.wallet = w]
    BY <1>2, <1>3, IdentityTypes DEF Merge
  <2> QED
    BY <1>5, <2>1 DEF UserRow
<1>12. Key(v)'
  <2>1. CASE user[v].email # Nobody /\ user[v].password
    BY <1>11, <2>1 DEF Key
  <2>2. CASE user[v].wallet # Nobody /\ MayRecord(v, user[v].wallet)
    <3>1. w = user[v].wallet /\ w \in Wallet /\ link[w] \in {v, Nobody}
      BY <1>2, <1>6, <2>2 DEF MayRecord
    <3>2. link'[w] \in {v, Nobody}
      BY <1>8, <3>1, <1>3, IdentityConstants
    <3> QED
      BY <1>11, <2>2, <3>1, <3>2 DEF Key, MayRecord
  <2>3. CASE PrivyWallets = {} /\ user[v].email = PrivyEmail /\ privy \in {v, Nobody}
    <3>1. privy' \in {v, Nobody}
      BY <1>2, <2>3 DEF Merge
    <3> QED
      BY <1>11, <2>3, <3>1 DEF Key
  <2> QED
    BY <1>5, <2>1, <2>2, <2>3 DEF Key
<1>13. \A x \in Live : x \notin {u, v} => w = Nobody \/ user[x].wallet # w
  BY <1>2, <1>3 DEF IdentityInv, Apart
<1>14. /\ \A c \in Browser : session'[c] = v \/ (session'[c] = session[c] /\ session[c] # u)
       /\ \A x \in Wallet : link'[x] = v \/ (link'[x] = link[x] /\ link[x] # u)
  BY <1>8, <1>9
<1> QED
  BY <1>2, <1>3, <1>7, <1>8, <1>10, <1>12, <1>13, <1>14, MergeKeeps
-------------------------------------------------------------------------------
(* Privy.                                                                   *)

LEMMA FilledRow ==
  ASSUME IdentityInv, NEW u \in User
  PROVE  /\ PrivyFilled(u) \in UserRow /\ PrivyFilled(u).live
         /\ PrivyFilled(u).password = user[u].password
         /\ PrivyFilled(u).email = IF user[u].email = Nobody THEN PrivyEmail ELSE user[u].email
         /\ user[u].wallet # Nobody => PrivyFilled(u).wallet = user[u].wallet
         /\ user[u].wallet = Nobody /\ PrivyWallets # {} =>
              PrivyFilled(u).wallet \in PrivyWallets
         /\ user[u].wallet = Nobody /\ PrivyWallets = {} => PrivyFilled(u).wallet = Nobody
<1>1. user[u] \in UserRow
  BY IdentityTypes
<1>2. PrivyWallets # {} => (CHOOSE w \in PrivyWallets : TRUE) \in PrivyWallets
  OBVIOUS
<1>3. (CHOOSE w \in PrivyWallets : TRUE) \in Wallet \/ PrivyWallets = {}
  BY <1>2, IdentityConstants
<1> QED
  BY <1>1, <1>2, <1>3, IdentityConstants DEF PrivyFilled, UserRow

LEMMA PrivyBoundKeeps ==
  ASSUME IdentityInv, NEW b \in Browser, NEW u \in User, PrivyBound(b, u) PROVE IdentityInv'
<1>1. PICK row : row = PrivyFilled(u)
  OBVIOUS
<1>2. /\ PrivyAccount(b, u) /\ (u \in Live \/ Unused(u)) /\ nonce' = nonce
      /\ user' = [user EXCEPT ![u] = row]
  BY <1>1 DEF PrivyBound
<1>3. /\ row \in UserRow /\ row.live /\ row.password = user[u].password
      /\ row.email = IF user[u].email = Nobody THEN PrivyEmail ELSE user[u].email
      /\ user[u].wallet # Nobody => row.wallet = user[u].wallet
      /\ user[u].wallet = Nobody /\ PrivyWallets # {} => row.wallet \in PrivyWallets
      /\ user[u].wallet = Nobody /\ PrivyWallets = {} => row.wallet = Nobody
  BY <1>1, FilledRow
<1>4. /\ seed' \in [User -> Nat] /\ seed'[u] <= 1
      /\ \A v \in User : v # u => seed'[v] = seed[v]
  <2>1. seed[u] <= 1 /\ seed[u] \in Nat
    BY <1>2, LiveRows, IdentityTypes DEF Unused
  <2> QED
    BY <2>1, IdentityTypes DEF PrivyBound
<1>5. /\ request' \in [Browser -> RequestRow] /\ \A c \in Browser : About(request'[c])
      /\ session' \in [Browser -> User \cup {Nobody}]
      /\ \A c \in Browser : session'[c] \in {u, session[c]}
  BY SignInKeeps, AnswerKeeps, IdentityTypes DEF PrivyBound
<1>6. /\ link' \in [Wallet -> User \cup {Nobody}]
      /\ \A w \in Wallet : link'[w] \in {u, link[w]}
      /\ \A w \in Wallet : w \notin PrivyWallets => link'[w] = link[w]
  BY IdentityTypes DEF PrivyBound
<1>7. privy' \in {u, privy} /\ (privy = Nobody \/ privy = u)
  BY <1>2 DEF PrivyBound, PrivyAccount
<1>8. IdentityTypeOK'
  BY <1>2, <1>3, <1>4, <1>5, <1>6, <1>7, IdentityTypes DEF IdentityTypeOK
<1>9. user'[u] = row /\ \A v \in User : v # u => user'[v] = user[v]
  BY <1>2, IdentityTypes
<1>10. ASSUME NEW v \in Live, v # u
       PROVE  /\ PrivyEmail = Nobody \/ user[v].email # PrivyEmail
              /\ user[v].wallet \notin PrivyWallets
  <2>1. v \notin Matched
    BY <1>2, <1>10 DEF PrivyAccount
  <2> QED
    BY <2>1 DEF Matched
<1>11. ASSUME NEW v \in Live, v # u
       PROVE  /\ row.email = Nobody \/ row.email # user[v].email
              /\ row.wallet = Nobody \/ row.wallet # user[v].wallet
  <2>1. CASE u \in Live
    <3>1. /\ user[u].email = Nobody \/ user[u].email # user[v].email
          /\ user[u].wallet = Nobody \/ user[u].wallet # user[v].wallet
      BY <1>11, <2>1 DEF IdentityInv, Apart
    <3> QED
      BY <1>3, <1>10, <1>11, <3>1
  <2>2. CASE u \notin Live
    <3>1. user[u].email = Nobody /\ user[u].wallet = Nobody
      BY <2>2 DEF IdentityInv, Blank, NoUser, Live
    <3> QED
      BY <1>3, <1>10, <1>11, <3>1
  <2> QED
    BY <2>1, <2>2
\* The other accounts keep theirs: the identity matches none of them.
<1>12. ASSUME NEW v \in Live, v # u PROVE Key(v)'
  <2>1. user'[v] = user[v]
    BY <1>9, <1>12 DEF Live
  <2>2. PrivyWallets = {} => user[v].email # PrivyEmail
    BY <1>10, <1>12, IdentityConstants
  <2>3. \A w \in Wallet : w = user[v].wallet => link'[w] = link[w]
    BY <1>6, <1>10, <1>12
  <2> QED
    BY <2>1, <2>2, <2>3, KeyStays
<1>13. ASSUME u \in Live PROVE Key(u)'
  <2>1. Key(u) /\ user[u] \in UserRow
    BY <1>13, LiveRows
  <2>2. CASE user[u].email # Nobody /\ user[u].password
    BY <1>3, <1>9, <2>2 DEF Key
  <2>3. CASE user[u].wallet # Nobody /\ MayRecord(u, user[u].wallet)
    <3>1. row.wallet = user[u].wallet /\ user[u].wallet \in Wallet
      BY <1>3, <2>1, <2>3 DEF UserRow
    <3>2. link'[user[u].wallet] \in {u, Nobody}
      BY <1>6, <2>3, <3>1 DEF MayRecord
    <3> QED
      BY <1>9, <2>3, <3>1, <3>2 DEF Key, MayRecord
  <2>4. CASE PrivyWallets = {} /\ user[u].email = PrivyEmail /\ privy \in {u, Nobody}
    <3>1. row.email = PrivyEmail /\ privy' \in {u, Nobody}
      BY <1>3, <1>7, <2>4, IdentityConstants
    <3> QED
      BY <1>9, <2>4, <3>1 DEF Key
  <2> QED
    BY <2>1, <2>2, <2>3, <2>4 DEF Key
<1>14. ASSUME u \notin Live PROVE Key(u)'
  <2>1. user[u].email = Nobody /\ user[u].wallet = Nobody
    BY <1>14 DEF IdentityInv, Blank, NoUser, Live
  <2>2. CASE PrivyWallets = {}
    <3>1. row.email = PrivyEmail /\ privy' \in {u, Nobody}
      BY <1>3, <1>7, <2>1, IdentityConstants
    <3> QED
      BY <1>9, <2>2, <3>1 DEF Key
  <2>3. CASE PrivyWallets # {}
    <3>1. row.wallet \in PrivyWallets /\ row.wallet \in Wallet /\ row.wallet # Nobody
      BY <1>3, <2>1, <2>3, IdentityConstants
    <3>2. link[row.wallet] \in {u, Nobody}
      <4>1. link[row.wallet] # Nobody => link[row.wallet] \in Live
        BY <3>1 DEF IdentityInv, Present
      <4>2. link[row.wallet] # Nobody => link[row.wallet] \in Matched
        BY <3>1, <4>1 DEF Matched, Live
      <4> QED
        BY <1>2, <4>2 DEF PrivyAccount
    <3>3. link'[row.wallet] \in {u, Nobody}
      BY <1>6, <3>1, <3>2
    <3> QED
      BY <1>9, <3>1, <3>3 DEF Key, MayRecord
  <2> QED
    BY <2>2, <2>3
<1>15. Key(u)'
  BY <1>13, <1>14
<1>16. \A w \in Wallet : link'[w] \in {u, link[w], Nobody}
  BY <1>6
<1>17. seed'[u] <= 1 /\ \A v \in User : v # u => seed'[v] = seed[v]
  BY <1>4
<1>18. user' = [user EXCEPT ![u] = row] /\ row.live
  BY <1>2, <1>3
<1>19. \A v \in Live : v # u => /\ row.email = Nobody \/ row.email # user[v].email
                                /\ row.wallet = Nobody \/ row.wallet # user[v].wallet
  BY <1>11
<1>20. \A v \in Live : v # u => Key(v)'
  BY <1>12
<1> QED
  BY <1>5, <1>8, <1>15, <1>16, <1>17, <1>18, <1>19, <1>20, RowChanges
-------------------------------------------------------------------------------
LEMMA IdentityNextKeeps == IdentityInv /\ [IdentityNext]_identityVars => IdentityInv'
<1> SUFFICES ASSUME IdentityInv, [IdentityNext]_identityVars PROVE IdentityInv'
  OBVIOUS
<1>1. CASE UNCHANGED identityVars
  BY <1>1, IdentityTypes, AccountsRest DEF identityVars, IdentityInv, Present, RequestsAbout
<1>2. CASE \E w \in Wallet : IssueNonce(w)
  BY <1>2, NonceKeeps
<1>3. ASSUME NEW b \in Browser,
             \/ GiveUp(b) \/ Logout(b) \/ LoggedIn(b) \/ WalletKnown(b) \/ UnlinkWallet(b)
             \/ LinkWallet(b) \/ JoinWallet(b) \/ EmailLinked(b) \/ EmailJoined(b) \/ AskPrivy(b)
      PROVE  IdentityInv'
  BY <1>3, QuietKeeps, LoggedInKeeps, WalletKnownKeeps, UnlinkWalletKeeps, LinkWalletKeeps,
     JoinWalletKeeps, EmailLinkedKeeps, EmailJoinedKeeps
<1>4. ASSUME NEW b \in Browser, NEW e \in Email, Register(b, e) \/ LinkEmail(b, e)
      PROVE  IdentityInv'
  BY <1>4, RegisterKeeps, LinkEmailKeeps
<1>5. ASSUME NEW b \in Browser, NEW u \in User,
             Registered(b, u) \/ Login(b, u) \/ WalletNew(b, u) \/ PrivyBound(b, u)
      PROVE  IdentityInv'
  BY <1>5, RegisteredKeeps, LoginKeeps, WalletNewKeeps, PrivyBoundKeeps
<1>6. ASSUME NEW b \in Browser, NEW w \in Wallet, NEW pc \in {"wallet", "linkWallet"},
             ProveWallet(b, w, pc)
      PROVE  IdentityInv'
  BY <1>6, ProveWalletKeeps
<1> QED
  BY <1>1, <1>2, <1>3, <1>4, <1>5, <1>6 DEF IdentityNext

LEMMA IdentityInvSound == IdentityInv => AccountsSound
<1> SUFFICES ASSUME IdentityInv PROVE AccountsSound
  OBVIOUS
<1>1. ASSUME NEW u \in Live PROVE WayIn(u)
  <2>1. Key(u)
    BY LiveRows
  <2>2. CASE PrivyWallets = {} /\ user[u].email = PrivyEmail /\ privy \in {u, Nobody}
    <3>1. PrivyEmail # Nobody
      BY <2>2, IdentityConstants
    <3>2. \A v \in Live : user[v].email = PrivyEmail => v = u
      BY <2>2, <3>1 DEF IdentityInv, Apart
    <3>3. Matched = {u}
      BY <2>2, <3>1, <3>2 DEF Matched
    <3> QED
      BY <2>2, <3>3 DEF WayIn
  <2> QED
    BY <2>1, <2>2 DEF Key, WayIn
<1> QED
  BY <1>1 DEF AccountsSound, IdentityInv, SeedsOnce, Apart, Present

\* For any accounts, browsers and Privy identity, whatever requests overlap: no
\* account is left without a way in or with two signup credits, and an email, a
\* wallet or a cookie leads to one account that is there.
THEOREM IdentityTheorem == IdentitySpec => []AccountsSound
<1>1. IdentityInit => IdentityInv
  BY IdentityInitInv
<1>2. IdentityInv /\ [IdentityNext]_identityVars => IdentityInv'
  BY IdentityNextKeeps
<1>3. IdentityInv => AccountsSound
  BY IdentityInvSound
<1> QED
  BY <1>1, <1>2, <1>3, PTL DEF IdentitySpec
-----------------------------------------------------------------------------
(* Desk: by how much the budget of a month can be passed.                  *)

JobRow == {Quiet} \cup [pc : {"asked"}, kind : Voices, left : 0 .. Turns]

\* The jobs of g that wait for an answer to be paid from s, and what sessions of
\* g may still ask.
BusyIn(g, s) == {j \in Jobs : g[j].pc = "asked" /\ Scope(g[j].kind) = s}
LeftIn(g) == [j \in Jobs |-> IF j \in BusyIn(g, "shared") THEN g[j].left + 1 ELSE 0]

\* A session never has more than all its turns to go.
WithinBudget(g) == \A j \in Jobs : g[j].pc = "asked" /\ g[j].kind \in Session => g[j].left + 1 <= Turns

Paid == WithinBudget(job) /\ ((\E j \in Jobs : job[j].pc = "asked") => Cap >= 1)
Noticed == \A s \in Scopes : Cardinality(BusyIn(job, s)) <= crowd[s]
ChatBound ==
  spent["chat"] + Cardinality(BusyIn(job, "chat"))
    <= IF crowd["chat"] = 0 THEN 0 ELSE Cap + crowd["chat"] - 1
SessionBound ==
  spent["shared"] + SumFunctionOnSet(LeftIn(job), Jobs)
    <= IF crowd["shared"] = 0 THEN 0 ELSE Cap - 1 + crowd["shared"] * Turns

DeskInv == DeskTypeOK /\ Paid /\ Noticed /\ ChatBound /\ SessionBound
-----------------------------------------------------------------------------
(* Requests under way are counted.                                          *)

LEMMA DeskNumbers ==
  /\ Cap \in Nat /\ Turns \in Nat /\ MaxJobs \in Nat
  /\ MaxSession \in Nat /\ MaxMonth \in Nat
BY DeskAssumption

\* No more requests wait than there are places.
LEMMA SpendCounted ==
  ASSUME NEW g, NEW s
  PROVE  /\ IsFiniteSet(Jobs) /\ IsFiniteSet(BusyIn(g, s))
         /\ Cardinality(BusyIn(g, s)) \in 0 .. MaxJobs
<1>1. IsFiniteSet(Jobs) /\ Cardinality(Jobs) = MaxJobs
  <2>1. 1 \in Int /\ MaxJobs \in Int /\ MaxJobs >= 0
    BY DeskNumbers
  <2>2. /\ IsFiniteSet(1 .. MaxJobs)
        /\ Cardinality(1 .. MaxJobs) = IF 1 > MaxJobs THEN 0 ELSE MaxJobs - 1 + 1
    BY <2>1, FS_Interval
  <2> QED
    BY <2>1, <2>2 DEF Jobs
<1>2. BusyIn(g, s) \subseteq Jobs
  BY DEF BusyIn
<1>3. /\ IsFiniteSet(BusyIn(g, s))
      /\ Cardinality(BusyIn(g, s)) <= Cardinality(Jobs)
  BY <1>1, <1>2, FS_Subset
<1>4. Cardinality(BusyIn(g, s)) \in Nat
  BY <1>3, FS_CardinalityType
<1> QED
  BY <1>1, <1>3, <1>4, DeskNumbers

LEMMA TimesMore ==
  ASSUME NEW a \in Nat, NEW b \in Nat, a <= b, NEW t \in Nat PROVE a * t <= b * t
<1>1. b - a \in Nat /\ b = a + (b - a)
  OBVIOUS
<1>2. b * t = a * t + (b - a) * t
  BY <1>1, Distributes
<1>3. (b - a) * t \in Nat /\ a * t \in Nat
  BY <1>1
<1> QED
  BY <1>2, <1>3

\* Sessions under way have no more to go than all their turns.
LEMMA LeftFits ==
  ASSUME NEW g \in [Jobs -> JobRow], WithinBudget(g)
  PROVE  /\ SumFunctionOnSet(LeftIn(g), Jobs) \in Nat
         /\ SumFunctionOnSet(LeftIn(g), Jobs) <= Cardinality(BusyIn(g, "shared")) * Turns
<1> DEFINE T == BusyIn(g, "shared")
<1> DEFINE none == [j \in Jobs |-> 0]
<1> DEFINE all == [j \in Jobs |-> IF j \in T THEN none[j] + Turns ELSE none[j]]
<1>1. IsFiniteSet(Jobs) /\ T \subseteq Jobs /\ Cardinality(T) \in Nat
  <2>1. T \subseteq Jobs
    BY DEF BusyIn
  <2>2. IsFiniteSet(Jobs) /\ Cardinality(T) \in 0 .. MaxJobs
    BY SpendCounted
  <2> QED
    BY <2>1, <2>2, DeskNumbers
<1>2. \A j \in T : g[j].kind \in Session /\ g[j].pc = "asked" /\ g[j].left \in Nat
  BY DEF BusyIn, Scope, JobRow, Quiet
<1>3. \A j \in Jobs : LeftIn(g)[j] \in Nat /\ LeftIn(g)[j] <= all[j] /\ all[j] \in Int
  <2> SUFFICES ASSUME NEW j \in Jobs
               PROVE  LeftIn(g)[j] \in Nat /\ LeftIn(g)[j] <= all[j] /\ all[j] \in Int
    OBVIOUS
  <2>1. CASE j \in T
    BY <1>2, <2>1, DeskNumbers DEF LeftIn, WithinBudget
  <2>2. CASE j \notin T
    BY <2>2 DEF LeftIn
  <2> QED
    BY <2>1, <2>2
<1>4. SumFunctionOnSet(LeftIn(g), Jobs) <= SumFunctionOnSet(all, Jobs)
  <2>1. \A j \in Jobs : LeftIn(g)[j] \in Int /\ all[j] \in Int /\ LeftIn(g)[j] <= all[j]
    BY <1>3
  <2> HIDE DEF all
  <2> QED
    BY <1>1, <2>1, SumLeq
<1>5. SumFunctionOnSet(all, Jobs) = SumFunctionOnSet(none, Jobs) + Turns * Cardinality(T)
  <2>1. \A j \in Jobs : none[j] \in Int /\ all[j] = IF j \in T THEN none[j] + Turns ELSE none[j]
    OBVIOUS
  <2>2. Turns \in Int
    BY DeskNumbers
  <2> HIDE DEF all, none, T
  <2> QED
    BY <1>1, <2>1, <2>2, SumMarked
<1>6. SumFunctionOnSet(none, Jobs) = 0
  <2>1. \A j \in Jobs : none[j] = 0
    OBVIOUS
  <2> HIDE DEF none
  <2> QED
    BY <1>1, <2>1, SumZero
<1>7. SumFunctionOnSet(LeftIn(g), Jobs) \in Nat
  <2>1. \A j \in Jobs : LeftIn(g)[j] \in Nat
    BY <1>3
  <2>2. Jobs \subseteq Jobs
    OBVIOUS
  <2> QED
    BY <1>1, <2>1, <2>2, SumFewer
<1>8. Turns * Cardinality(T) = Cardinality(T) * Turns
  BY <1>1, DeskNumbers
<1> HIDE DEF all, none, T
<1>9. SumFunctionOnSet(LeftIn(g), Jobs) <= Cardinality(T) * Turns
  BY <1>1, <1>4, <1>5, <1>6, <1>7, <1>8, DeskNumbers
<1> QED
  BY <1>7, <1>9 DEF T

\* Where a budget has room for one request, every job may have one under way.
LEMMA ChatRoom ==
  ASSUME NEW s \in Nat, s + 1 <= Cap, NEW n \in Nat, NEW c \in Nat, n <= c, n > 0 \/ s = 0
  PROVE  s + n <= IF c = 0 THEN 0 ELSE Cap + c - 1
BY DeskNumbers

\* And where it is not reached, every session all its turns.
LEMMA SessionRoom ==
  ASSUME NEW g \in [Jobs -> JobRow], WithinBudget(g), NEW s \in Nat, NEW c \in Nat,
         s + 1 <= Cap, c > 0, Cardinality(BusyIn(g, "shared")) <= c
  PROVE  s + SumFunctionOnSet(LeftIn(g), Jobs) <= Cap - 1 + c * Turns
<1>1. Cardinality(BusyIn(g, "shared")) \in Nat
  BY SpendCounted, DeskNumbers
<1>2. Cardinality(BusyIn(g, "shared")) * Turns <= c * Turns
  BY <1>1, DeskNumbers, TimesMore
<1>3. /\ c * Turns \in Nat /\ Cardinality(BusyIn(g, "shared")) * Turns \in Nat
      /\ SumFunctionOnSet(LeftIn(g), Jobs) \in Nat
      /\ SumFunctionOnSet(LeftIn(g), Jobs) <= Cardinality(BusyIn(g, "shared")) * Turns
  BY <1>1, DeskNumbers, LeftFits
<1> QED
  BY <1>2, <1>3, DeskNumbers

LEMMA NextBusy == \A s : Busy(s)' = BusyIn(job', s) /\ Busy(s) = BusyIn(job, s)
  BY DEF Busy, BusyIn, Jobs
-----------------------------------------------------------------------------
(* Steps.                                                                   *)

\* A step that neither spends, asks nor answers.
LEMMA DeskRestKeeps ==
  ASSUME DeskInv, DeskTypeOK', UNCHANGED <<spent, job, crowd>>
  PROVE  DeskInv'
BY DEF DeskInv, Paid, Noticed, ChatBound, SessionBound, WithinBudget, BusyIn, LeftIn, Jobs

\* A row that waits is well typed.
LEMMA RowType ==
  ASSUME NEW g \in [Jobs -> JobRow], NEW j \in Jobs, NEW k \in Voices, NEW n \in 0 .. Turns
  PROVE  /\ [g EXCEPT ![j] = [pc |-> "asked", kind |-> k, left |-> n]] \in [Jobs -> JobRow]
         /\ [g EXCEPT ![j] = Quiet] \in [Jobs -> JobRow]
<1>1. [pc |-> "asked", kind |-> k, left |-> n] \in JobRow /\ Quiet \in JobRow
  BY DEF JobRow
<1> QED
  BY <1>1

\* A job that begins may spend, and is noticed.
LEMMA SpeakKeeps ==
  ASSUME DeskInv, NEW j \in Jobs, NEW k \in Voices, NEW n \in Nat, Free(j), Speak(j, k, n),
         n <= Turns \/ (n = 1 /\ k \notin Session), n <= Turns + 1,
         spent' = spent, months' = months,
         cooldown' \subseteq Voices \cup {"everyone"},
         demo' \in {"unopened", "open", "over", "closed"},
         sessions' \in [{"begun", "ended"} -> Nat]
  PROVE  DeskInv'
<1> USE DeskNumbers
<1>0. /\ job \in [Jobs -> JobRow] /\ spent \in [Scopes -> Nat] /\ crowd \in [Scopes -> 0 .. MaxJobs]
      /\ months \in 0 .. MaxMonth /\ job[j].pc = "quiet"
  BY DEF DeskInv, DeskTypeOK, JobRow, Free
<1>1. \/ job' = job
      \/ /\ MaySpend(k, spent, TRUE)
         /\ \E left \in 0 .. n - 1 :
              job' = [job EXCEPT ![j] = [pc |-> "asked", kind |-> k, left |-> left]]
  BY DEF Speak, Ask
<1>2. job' \in [Jobs -> JobRow] /\ WithinBudget(job')
  <2>1. CASE job' = job
    BY <1>0, <2>1 DEF DeskInv, Paid
  <2>2. ASSUME NEW left \in 0 .. n - 1,
               job' = [job EXCEPT ![j] = [pc |-> "asked", kind |-> k, left |-> left]]
        PROVE  job' \in [Jobs -> JobRow] /\ WithinBudget(job')
    <3>1. left \in 0 .. Turns
      OBVIOUS
    <3>2. job' \in [Jobs -> JobRow]
      BY <1>0, <2>2, <3>1, RowType
    <3>3. k \in Session => left + 1 <= Turns
      OBVIOUS
    <3>4. WithinBudget(job)
      BY DEF DeskInv, Paid
    <3>5. WithinBudget(job')
      BY <1>0, <2>2, <3>3, <3>4 DEF WithinBudget
    <3> QED
      BY <3>2, <3>5
  <2> QED
    BY <1>1, <2>1, <2>2
<1>3. \A s \in Scopes : Cardinality(BusyIn(job', s)) \in 0 .. MaxJobs
  BY SpendCounted
<1>4. crowd' = [s \in Scopes |-> IF Cardinality(BusyIn(job', s)) > crowd[s]
                                 THEN Cardinality(BusyIn(job', s)) ELSE crowd[s]]
  BY NextBusy DEF Speak, Crowded
<1>5. /\ crowd' \in [Scopes -> 0 .. MaxJobs]
      /\ \A s \in Scopes : crowd'[s] >= crowd[s] /\ Cardinality(BusyIn(job', s)) <= crowd'[s]
  BY <1>0, <1>3, <1>4
<1>6. DeskTypeOK' /\ Noticed'
  BY <1>0, <1>2, <1>5 DEF DeskTypeOK, Noticed, JobRow
<1>7. CASE job' = job
  <2>1. \A s \in Scopes : Cardinality(BusyIn(job', s)) <= crowd[s]
    BY <1>7 DEF DeskInv, Noticed
  <2>2. crowd' = crowd
    BY <1>0, <1>3, <1>4, <2>1
  <2> QED
    BY <1>6, <1>7, <2>2, DeskRestKeeps
<1>8. CASE /\ MaySpend(k, spent, TRUE)
           /\ \E left \in 0 .. n - 1 :
                job' = [job EXCEPT ![j] = [pc |-> "asked", kind |-> k, left |-> left]]
  <2>1. PICK left \in 0 .. n - 1 :
               job' = [job EXCEPT ![j] = [pc |-> "asked", kind |-> k, left |-> left]]
    BY <1>8
  <2>2. job'[j].pc = "asked" /\ job'[j].kind = k /\ \A i \in Jobs \ {j} : job'[i] = job[i]
    BY <1>0, <2>1
  <2>3. "chat" \in Scopes /\ "shared" \in Scopes
    BY DEF Scopes
  <2>4. CASE k \in Session
    <3>1. spent["shared"] \in Nat /\ spent["shared"] + 1 <= Cap
      BY <1>0, <1>8, <2>3, <2>4 DEF MaySpend
    <3>2. BusyIn(job', "chat") = BusyIn(job, "chat")
      BY <1>0, <2>2, <2>4 DEF BusyIn, Scope
    <3>3. ChatBound'
      <4>1. /\ spent["chat"] \in Nat /\ crowd["chat"] \in Nat /\ crowd'["chat"] \in Nat
            /\ crowd'["chat"] >= crowd["chat"]
        BY <1>0, <1>5, <2>3
      <4>2. spent["chat"] + Cardinality(BusyIn(job', "chat"))
              <= IF crowd["chat"] = 0 THEN 0 ELSE Cap + crowd["chat"] - 1
        BY <3>2 DEF DeskInv, ChatBound
      <4>3. Cap >= 1
        BY <3>1
      <4>4. Cardinality(BusyIn(job', "chat")) \in Nat
        BY <1>3, <2>3
      <4>5. spent'["chat"] + Cardinality(BusyIn(job', "chat"))
              <= IF crowd'["chat"] = 0 THEN 0 ELSE Cap + crowd'["chat"] - 1
        BY <4>1, <4>2, <4>3, <4>4
      <4> QED
        BY <4>5 DEF ChatBound
    <3>4. SessionBound'
      <4>1. j \in BusyIn(job', "shared")
        BY <2>2, <2>4 DEF BusyIn, Scope
      <4>2. Cardinality(BusyIn(job', "shared")) # 0
        BY <4>1, SpendCounted, FS_EmptySet
      <4>3. /\ crowd'["shared"] \in Nat /\ crowd'["shared"] > 0
            /\ Cardinality(BusyIn(job', "shared")) <= crowd'["shared"]
        BY <1>3, <1>5, <2>3, <4>2
      <4>4. spent["shared"] + SumFunctionOnSet(LeftIn(job'), Jobs) <= Cap - 1 + crowd'["shared"] * Turns
        BY <1>2, <3>1, <4>3, SessionRoom
      <4> QED
        BY <4>3, <4>4 DEF SessionBound, LeftIn, BusyIn, Jobs
    <3>5. Paid'
      BY <1>2, <3>1 DEF Paid, WithinBudget, Jobs
    <3> QED
      BY <1>6, <3>3, <3>4, <3>5 DEF DeskInv
  <2>5. CASE k \notin Session
    <3>1. spent["chat"] \in Nat /\ spent["chat"] + 1 <= Cap
      BY <1>0, <1>8, <2>3, <2>5 DEF MaySpend
    <3>2. BusyIn(job', "shared") = BusyIn(job, "shared")
      BY <1>0, <2>2, <2>5 DEF BusyIn, Scope
    <3>3. LeftIn(job') = LeftIn(job)
      <4>1. \A i \in BusyIn(job, "shared") : job'[i] = job[i]
        BY <1>0, <2>2 DEF BusyIn
      <4> QED
        BY <3>2, <4>1 DEF LeftIn
    <3>4. SessionBound'
      <4>1. /\ crowd["shared"] \in Nat /\ crowd'["shared"] \in Nat
            /\ crowd'["shared"] >= crowd["shared"]
        BY <1>0, <1>5, <2>3
      <4>2. crowd["shared"] * Turns <= crowd'["shared"] * Turns
        BY <4>1, TimesMore
      <4>3. /\ crowd["shared"] * Turns \in Nat /\ crowd'["shared"] * Turns \in Nat
        BY <4>1
      <4>4. SumFunctionOnSet(LeftIn(job'), Jobs) \in Nat /\ spent["shared"] \in Nat
        BY <1>0, <1>2, <2>3, LeftFits
      <4>5. spent["shared"] + SumFunctionOnSet(LeftIn(job'), Jobs)
              <= IF crowd["shared"] = 0 THEN 0 ELSE Cap - 1 + crowd["shared"] * Turns
        BY <3>3 DEF DeskInv, SessionBound
      <4>6. spent'["shared"] + SumFunctionOnSet(LeftIn(job'), Jobs)
              <= IF crowd'["shared"] = 0 THEN 0 ELSE Cap - 1 + crowd'["shared"] * Turns
        BY <3>1, <4>1, <4>2, <4>3, <4>4, <4>5
      <4> QED
        BY <4>6 DEF SessionBound, LeftIn, BusyIn, Jobs
    <3>5. ChatBound'
      <4>1. j \in BusyIn(job', "chat")
        BY <2>2, <2>5 DEF BusyIn, Scope
      <4>2. Cardinality(BusyIn(job', "chat")) # 0
        BY <4>1, SpendCounted, FS_EmptySet
      <4>3. /\ crowd'["chat"] \in Nat /\ Cardinality(BusyIn(job', "chat")) \in Nat
            /\ Cardinality(BusyIn(job', "chat")) <= crowd'["chat"]
        BY <1>3, <1>5, <2>3
      <4> QED
        BY <3>1, <4>2, <4>3, ChatRoom DEF ChatBound
    <3>6. Paid'
      BY <1>2, <3>1 DEF Paid, WithinBudget, Jobs
    <3> QED
      BY <1>6, <3>4, <3>5, <3>6 DEF DeskInv
  <2> QED
    BY <2>4, <2>5
<1> QED
  BY <1>1, <1>7, <1>8

LEMMA DeskInitInv == DeskInit => DeskInv
<1> SUFFICES ASSUME DeskInit PROVE DeskInv
  OBVIOUS
<1> USE DeskNumbers
<1>1. DeskTypeOK
  BY DEF DeskInit, DeskTypeOK
<1>2. job \in [Jobs -> JobRow] /\ \A j \in Jobs : job[j].pc = "quiet"
  BY DEF DeskInit, JobRow, Quiet
<1>3. Paid
  BY <1>2 DEF Paid, WithinBudget
<1>4. \A s \in Scopes : BusyIn(job, s) = {}
  BY <1>2 DEF BusyIn
<1>5. \A s \in Scopes : Cardinality(BusyIn(job, s)) = 0
  BY <1>4, FS_EmptySet
<1>6. SumFunctionOnSet(LeftIn(job), Jobs) = 0
  <2>1. \A j \in Jobs : LeftIn(job)[j] = 0
    BY <1>4 DEF LeftIn, Scopes
  <2>2. IsFiniteSet(Jobs)
    BY SpendCounted
  <2> QED
    BY <2>1, <2>2, SumZero
<1>7. Noticed /\ ChatBound /\ SessionBound
  BY <1>5, <1>6 DEF DeskInit, Noticed, ChatBound, SessionBound, Scopes
<1> QED
  BY <1>1, <1>3, <1>7 DEF DeskInv

LEMMA HumanPostKeeps ==
  ASSUME NEW h \in Human, NEW j \in Jobs, DeskInv, HumanPost(h, j) PROVE DeskInv'
<1> USE DeskNumbers
<1>1. h \in Voices
  BY DEF Voices
<1>2. /\ cooldown' \subseteq Voices \cup {"everyone"} /\ sessions \in [{"begun", "ended"} -> Nat]
      /\ demo \in {"unopened", "open", "over", "closed"}
  BY <1>1 DEF HumanPost, DeskInv, DeskTypeOK
<1>3. UNCHANGED <<spent, demo, sessions, months>> /\ Free(j)
  BY DEF HumanPost
<1>4. CASE Speak(j, h, Turns)
  BY <1>1, <1>2, <1>3, <1>4, SpeakKeeps
<1>5. CASE UNCHANGED <<job, crowd>>
  <2>1. DeskTypeOK'
    BY <1>2, <1>3, <1>5 DEF DeskInv, DeskTypeOK
  <2> QED
    BY <1>3, <1>5, <2>1, DeskRestKeeps
<1> QED
  BY <1>4, <1>5 DEF HumanPost

LEMMA HeartbeatKeeps == ASSUME NEW j \in Jobs, DeskInv, Heartbeat(j) PROVE DeskInv'
<1> USE DeskNumbers
<1>1. "heartbeat" \in Voices /\ "heartbeat" \notin Session
  BY DeskAssumption DEF Voices, Crons
<1>2. /\ cooldown \subseteq Voices \cup {"everyone"} /\ sessions \in [{"begun", "ended"} -> Nat]
      /\ demo \in {"unopened", "open", "over", "closed"}
  BY DEF DeskInv, DeskTypeOK
<1>3. UNCHANGED <<spent, sessions, months>> /\ Free(j)
  BY DEF Heartbeat
<1>4. CASE demo' = "closed" /\ UNCHANGED <<cooldown, job, crowd>>
  <2>1. DeskTypeOK'
    BY <1>3, <1>4 DEF DeskInv, DeskTypeOK
  <2> QED
    BY <1>3, <1>4, <2>1, DeskRestKeeps
<1>5. CASE /\ cooldown' = cooldown \cup {"heartbeat"} /\ UNCHANGED demo
           /\ Speak(j, "heartbeat", 1)
  BY <1>1, <1>2, <1>3, <1>5, SpeakKeeps
<1> QED
  BY <1>4, <1>5 DEF Heartbeat

LEMMA AutoPostKeeps == ASSUME NEW j \in Jobs, DeskInv, AutoPost(j) PROVE DeskInv'
<1> USE DeskNumbers
<1>1. "autopost" \in Voices /\ "autopost" \notin Session
  BY DeskAssumption DEF Voices, Crons
<1>2. /\ cooldown \subseteq Voices \cup {"everyone"} /\ sessions \in [{"begun", "ended"} -> Nat]
      /\ demo \in {"unopened", "open", "over", "closed"}
  BY DEF DeskInv, DeskTypeOK
<1>3. /\ UNCHANGED <<spent, demo, sessions, months>> /\ Free(j)
      /\ cooldown' = cooldown \cup {"autopost"} /\ Speak(j, "autopost", 1)
  BY DEF AutoPost
<1> QED
  BY <1>1, <1>2, <1>3, SpeakKeeps

\* A session has all its turns to go, under a budget that is not reached.
LEMMA SessionKeeps ==
  ASSUME NEW k \in Session, NEW j \in Jobs, DeskInv, StartSession(k, j) PROVE DeskInv'
<1> USE DeskNumbers
<1>1. k \in Voices
  BY DEF Voices
<1>2. /\ cooldown \subseteq Voices \cup {"everyone"} /\ sessions \in [{"begun", "ended"} -> Nat]
      /\ demo \in {"unopened", "open", "over", "closed"}
  BY DEF DeskInv, DeskTypeOK
<1>3. /\ UNCHANGED <<spent, demo, months>> /\ Free(j)
      /\ cooldown' = cooldown \cup {k} /\ Speak(j, k, Turns)
  BY DEF StartSession
<1>4. \/ sessions' = [sessions EXCEPT !["begun"] = @ + 1] \/ sessions' = sessions
      \/ sessions' = [x \in DOMAIN sessions |-> sessions[x] + 1]
  BY DEF StartSession
<1>5. sessions' \in [{"begun", "ended"} -> Nat]
  BY <1>2, <1>4
<1> QED
  BY <1>1, <1>2, <1>3, <1>5, SpeakKeeps

\* An answer ends a job, or is followed by its next request: no more wait.
LEMMA AnsweredRows ==
  ASSUME NEW j \in Jobs, DeskInv, Answered(j)
  PROVE  /\ job \in [Jobs -> JobRow] /\ job' \in [Jobs -> JobRow] /\ WithinBudget(job')
         /\ job[j].pc = "asked" /\ job[j].kind \in Voices /\ job[j].left \in Nat
         /\ \A i \in Jobs \ {j} : job'[i] = job[i]
         /\ \/ job'[j] = Quiet
            \/ /\ job[j].left > 0 /\ MaySpend(job[j].kind, spent', FALSE)
               /\ job'[j] = [pc |-> "asked", kind |-> job[j].kind, left |-> job[j].left - 1]
<1> USE DeskNumbers
<1>1. job \in [Jobs -> JobRow] /\ WithinBudget(job) /\ job[j].pc = "asked"
  BY DEF DeskInv, DeskTypeOK, JobRow, Paid, Answered
<1>2. job[j] \in [pc : {"asked"}, kind : Voices, left : 0 .. Turns]
  BY <1>1 DEF JobRow, Quiet
<1>3. job[j].kind \in Voices /\ job[j].left \in 0 .. Turns
  BY <1>2
<1>4. CASE job' = [job EXCEPT ![j] = Quiet]
  <2>1. job' \in [Jobs -> JobRow]
    BY <1>1, <1>3, <1>4, RowType
  <2>2. job'[j] = Quiet /\ \A i \in Jobs \ {j} : job'[i] = job[i]
    BY <1>1, <1>4
  <2>3. WithinBudget(job')
    BY <1>1, <2>2 DEF WithinBudget, Quiet
  <2> QED
    BY <1>1, <1>3, <2>1, <2>2, <2>3
<1>5. CASE /\ job[j].left > 0 /\ MaySpend(job[j].kind, spent', FALSE)
           /\ job' = [job EXCEPT ![j] = [pc |-> "asked", kind |-> job[j].kind,
                                         left |-> job[j].left - 1]]
  <2>1. job[j].left - 1 \in 0 .. Turns
    BY <1>3, <1>5
  <2>2. job' \in [Jobs -> JobRow]
    BY <1>1, <1>3, <1>5, <2>1, RowType
  <2>3. /\ job'[j] = [pc |-> "asked", kind |-> job[j].kind, left |-> job[j].left - 1]
        /\ \A i \in Jobs \ {j} : job'[i] = job[i]
    BY <1>1, <1>5
  <2>4. WithinBudget(job')
    BY <1>1, <1>3, <2>3 DEF WithinBudget
  <2>5. job[j].left \in Nat
    BY <1>3
  <2> QED
    BY <1>1, <1>3, <1>5, <2>2, <2>3, <2>4, <2>5, Zenon
<1> QED
  BY <1>4, <1>5 DEF Answered, Ask, Hush

LEMMA AnsweredKeeps == ASSUME NEW j \in Jobs, DeskInv, Answered(j) PROVE DeskInv'
<1> USE DeskNumbers
<1>1. PICK cost \in {0, 1} : spent' = [spent EXCEPT ![Scope(job[j].kind)] = @ + cost]
  BY DEF Answered
<1>2. /\ job \in [Jobs -> JobRow] /\ job' \in [Jobs -> JobRow] /\ WithinBudget(job')
      /\ job[j].pc = "asked" /\ job[j].kind \in Voices /\ job[j].left \in Nat
      /\ \A i \in Jobs \ {j} : job'[i] = job[i]
      /\ \/ job'[j] = Quiet
         \/ /\ job[j].left > 0 /\ MaySpend(job[j].kind, spent', FALSE)
            /\ job'[j] = [pc |-> "asked", kind |-> job[j].kind, left |-> job[j].left - 1]
  BY AnsweredRows
<1>3. /\ spent \in [Scopes -> Nat] /\ crowd \in [Scopes -> 0 .. MaxJobs] /\ crowd' = crowd
      /\ "chat" \in Scopes /\ "shared" \in Scopes /\ Cap >= 1
  BY <1>2 DEF DeskInv, DeskTypeOK, Answered, Scopes, Paid
<1>4. spent' \in [Scopes -> Nat]
  BY <1>1, <1>3 DEF Scope
<1>5. DeskTypeOK'
  <2>1. sessions' = sessions \/ sessions' = [sessions EXCEPT !["ended"] = @ + 1]
    BY Zenon DEF Answered
  <2>2. sessions' \in [{"begun", "ended"} -> Nat]
    BY <2>1 DEF DeskInv, DeskTypeOK
  <2>3. /\ cooldown' = cooldown /\ months' = months
        /\ demo' \in {"unopened", "open", "over", "closed"}
    BY DEF Answered, DeskInv, DeskTypeOK
  <2> QED
    BY <1>2, <1>3, <1>4, <2>2, <2>3 DEF DeskInv, DeskTypeOK, JobRow
<1>6. \A s \in Scopes : BusyIn(job', s) \subseteq BusyIn(job, s)
  <2> SUFFICES ASSUME NEW s \in Scopes, NEW i \in BusyIn(job', s) PROVE i \in BusyIn(job, s)
    OBVIOUS
  <2>1. i \in Jobs /\ job'[i].pc = "asked" /\ Scope(job'[i].kind) = s
    BY DEF BusyIn
  <2>2. job'[i].kind = job[i].kind /\ job[i].pc = "asked"
    <3>1. CASE i = j /\ job'[j] = Quiet
      BY <2>1, <3>1 DEF Quiet
    <3>2. CASE i = j /\ job'[j] = [pc |-> "asked", kind |-> job[j].kind, left |-> job[j].left - 1]
      BY <1>2, <3>2
    <3>3. CASE i # j
      BY <1>2, <2>1, <3>3
    <3> QED
      BY <1>2, <3>1, <3>2, <3>3
  <2> QED
    BY <2>1, <2>2 DEF BusyIn
<1>7. Noticed'
  <2> SUFFICES ASSUME NEW s \in Scopes PROVE Cardinality(BusyIn(job', s)) <= crowd[s]
    BY <1>3 DEF Noticed, BusyIn, Jobs, Scope
  <2>1. /\ IsFiniteSet(BusyIn(job, s)) /\ Cardinality(BusyIn(job, s)) \in 0 .. MaxJobs
        /\ Cardinality(BusyIn(job', s)) \in 0 .. MaxJobs
    BY SpendCounted
  <2>2. Cardinality(BusyIn(job', s)) <= Cardinality(BusyIn(job, s))
    BY <1>6, <2>1, FS_Subset
  <2>3. Cardinality(BusyIn(job, s)) <= crowd[s] /\ crowd[s] \in Nat
    BY <1>3 DEF DeskInv, Noticed
  <2> QED
    BY <2>1, <2>2, <2>3
<1>8. Paid'
  BY <1>2, <1>3 DEF Paid, WithinBudget, Jobs
<1>9. CASE job[j].kind \in Session
  <2>1. spent'["shared"] = spent["shared"] + cost /\ spent'["chat"] = spent["chat"]
    BY <1>1, <1>3, <1>9 DEF Scope
  <2>2. BusyIn(job', "chat") = BusyIn(job, "chat")
    <3>1. j \notin BusyIn(job, "chat")
      BY <1>9 DEF BusyIn, Scope
    <3>2. \A i \in BusyIn(job, "chat") : job'[i] = job[i]
      BY <1>2, <3>1 DEF BusyIn
    <3> QED
      BY <1>3, <1>6, <3>2 DEF BusyIn
  <2>3. ChatBound'
    BY <1>3, <2>1, <2>2 DEF DeskInv, ChatBound
  <2>4. j \in BusyIn(job, "shared") /\ LeftIn(job)[j] = job[j].left + 1
    BY <1>2, <1>9 DEF BusyIn, Scope, LeftIn
  <2>5. LeftIn(job')[j] \in Nat /\ LeftIn(job')[j] + 1 <= LeftIn(job)[j]
    <3>1. CASE job'[j] = Quiet
      <4>1. j \notin BusyIn(job', "shared")
        BY <3>1 DEF BusyIn, Quiet
      <4> QED
        BY <1>2, <2>4, <4>1 DEF LeftIn
    <3>2. CASE job[j].left > 0 /\ job'[j].left = job[j].left - 1
      <4>1. LeftIn(job')[j] \in {0, job'[j].left + 1}
        BY DEF LeftIn
      <4> QED
        BY <1>2, <2>4, <3>2, <4>1
    <3>3. ASSUME job'[j] = [pc |-> "asked", kind |-> job[j].kind, left |-> job[j].left - 1]
          PROVE  job'[j].left = job[j].left - 1
      BY <3>3
    <3>4. \/ job'[j] = Quiet
          \/ /\ job[j].left > 0
             /\ job'[j] = [pc |-> "asked", kind |-> job[j].kind, left |-> job[j].left - 1]
      BY <1>2, Zenon
    <3> QED
      BY <3>1, <3>2, <3>3, <3>4
  <2>6. \A i \in Jobs : i # j => LeftIn(job')[i] = LeftIn(job)[i]
    BY <1>2 DEF LeftIn, BusyIn
  <2>7. \A i \in Jobs : LeftIn(job)[i] \in Int /\ LeftIn(job')[i] \in Int
    <3>1. \A i \in Jobs : LeftIn(job)[i] \in Int
      BY <1>2 DEF LeftIn, BusyIn, JobRow, Quiet
    <3> QED
      BY <2>5, <2>6, <3>1
  <2>8. SumFunctionOnSet(LeftIn(job'), Jobs)
          = SumFunctionOnSet(LeftIn(job), Jobs) - LeftIn(job)[j] + LeftIn(job')[j]
    <3>1. IsFiniteSet(Jobs)
      BY SpendCounted
    <3> QED
      BY <2>6, <2>7, <3>1, SumChange
  <2>9. SumFunctionOnSet(LeftIn(job), Jobs) \in Nat /\ LeftIn(job)[j] \in Nat
    <3>1. WithinBudget(job)
      BY DEF DeskInv, Paid
    <3> QED
      BY <1>2, <2>4, <3>1, LeftFits
  <2>10. /\ spent["shared"] \in Nat /\ crowd["shared"] \in Nat /\ crowd["shared"] * Turns \in Nat
    BY <1>3
  <2>11. spent'["shared"] + SumFunctionOnSet(LeftIn(job'), Jobs)
           <= spent["shared"] + SumFunctionOnSet(LeftIn(job), Jobs)
    BY <2>1, <2>5, <2>8, <2>9, <2>10
  <2>12. spent["shared"] + SumFunctionOnSet(LeftIn(job), Jobs)
           <= IF crowd["shared"] = 0 THEN 0 ELSE Cap - 1 + crowd["shared"] * Turns
    BY DEF DeskInv, SessionBound
  <2>13. spent'["shared"] + SumFunctionOnSet(LeftIn(job'), Jobs)
           <= IF crowd["shared"] = 0 THEN 0 ELSE Cap - 1 + crowd["shared"] * Turns
    <3>1. spent'["shared"] + SumFunctionOnSet(LeftIn(job'), Jobs) \in Int
      BY <2>1, <2>5, <2>8, <2>9, <2>10
    <3> QED
      BY <2>9, <2>10, <2>11, <2>12, <3>1
  <2>14. SessionBound'
    BY <1>3, <2>13 DEF SessionBound, LeftIn, BusyIn, Jobs
  <2> QED
    BY <1>5, <1>7, <1>8, <2>3, <2>14 DEF DeskInv
<1>10. CASE job[j].kind \notin Session
  <2>1. spent'["chat"] = spent["chat"] + cost /\ spent'["shared"] = spent["shared"]
    BY <1>1, <1>3, <1>10 DEF Scope
  <2>2. LeftIn(job') = LeftIn(job)
    <3>1. j \notin BusyIn(job, "shared")
      BY <1>10 DEF BusyIn, Scope
    <3>2. \A i \in BusyIn(job, "shared") : job'[i] = job[i]
      BY <1>2, <3>1 DEF BusyIn
    <3>3. BusyIn(job', "shared") = BusyIn(job, "shared")
      BY <1>3, <1>6, <3>2 DEF BusyIn
    <3> QED
      BY <3>2, <3>3 DEF LeftIn
  <2>3. SessionBound'
    BY <1>3, <2>1, <2>2 DEF DeskInv, SessionBound
  <2>4. j \in BusyIn(job, "chat")
    BY <1>2, <1>10 DEF BusyIn, Scope
  <2>5. /\ IsFiniteSet(BusyIn(job, "chat")) /\ Cardinality(BusyIn(job, "chat")) \in Nat
        /\ Cardinality(BusyIn(job', "chat")) \in Nat
        /\ Cardinality(BusyIn(job', "chat")) <= crowd["chat"]
        /\ Cardinality(BusyIn(job, "chat")) <= crowd["chat"]
    BY <1>3, <1>7, SpendCounted DEF Noticed, DeskInv
  <2>6. spent["chat"] \in Nat /\ crowd["chat"] \in Nat
    BY <1>3
  <2>7. ChatBound'
    <3>1. CASE job'[j] = Quiet
      <4>1. BusyIn(job', "chat") = BusyIn(job, "chat") \ {j}
        BY <1>2, <3>1 DEF BusyIn, Quiet
      <4>2. Cardinality(BusyIn(job', "chat")) = Cardinality(BusyIn(job, "chat")) - 1
        BY <2>4, <2>5, <4>1, FS_RemoveElement
      <4>3. spent["chat"] + Cardinality(BusyIn(job, "chat"))
              <= IF crowd["chat"] = 0 THEN 0 ELSE Cap + crowd["chat"] - 1
        BY DEF DeskInv, ChatBound
      <4>4. spent'["chat"] + Cardinality(BusyIn(job', "chat"))
              <= IF crowd["chat"] = 0 THEN 0 ELSE Cap + crowd["chat"] - 1
        BY <2>1, <2>5, <2>6, <4>2, <4>3
      <4> QED
        BY <1>3, <4>4 DEF ChatBound
    <3>2. CASE /\ MaySpend(job[j].kind, spent', FALSE)
               /\ job'[j] = [pc |-> "asked", kind |-> job[j].kind, left |-> job[j].left - 1]
      <4>1. spent'["chat"] + 1 <= Cap /\ spent'["chat"] \in Nat
        BY <1>4, <1>3, <1>10, <3>2 DEF MaySpend
      <4>2. j \in BusyIn(job', "chat")
        BY <1>10, <3>2 DEF BusyIn, Scope
      <4>3. Cardinality(BusyIn(job', "chat")) # 0
        BY <4>2, SpendCounted, FS_EmptySet
      <4>4. spent'["chat"] + Cardinality(BusyIn(job', "chat"))
              <= IF crowd["chat"] = 0 THEN 0 ELSE Cap + crowd["chat"] - 1
        BY <2>5, <2>6, <4>1, <4>3, ChatRoom
      <4> QED
        BY <1>3, <4>4 DEF ChatBound
    <3> QED
      BY <1>2, <3>1, <3>2
  <2> QED
    BY <1>5, <1>7, <1>8, <2>3, <2>7 DEF DeskInv
<1> QED
  BY <1>9, <1>10

\* A new month has the budget of one request at least for whoever still waits.
LEMMA MonthKeeps == DeskInv /\ MonthEnds => DeskInv'
<1> SUFFICES ASSUME DeskInv, MonthEnds PROVE DeskInv'
  OBVIOUS
<1> USE DeskNumbers
<1>1. /\ spent' = [s \in Scopes |-> 0] /\ job' = job
      /\ crowd' = [s \in Scopes |-> Cardinality(BusyIn(job, s))]
  BY NextBusy DEF MonthEnds
<1>2. \A s \in Scopes : Cardinality(BusyIn(job, s)) \in 0 .. MaxJobs
  BY SpendCounted
<1>3. DeskTypeOK'
  BY <1>1, <1>2 DEF DeskInv, DeskTypeOK, MonthEnds
<1>4. Paid' /\ Noticed'
  <2>1. \A s \in Scopes : crowd'[s] = Cardinality(BusyIn(job, s))
    BY <1>1
  <2> QED
    BY <1>1, <1>2, <2>1 DEF DeskInv, Paid, Noticed, WithinBudget, BusyIn, Jobs
<1>5. "chat" \in Scopes /\ "shared" \in Scopes
  BY DEF Scopes
<1>6. \A s \in Scopes : Cardinality(BusyIn(job, s)) > 0 => Cap >= 1
  <2> SUFFICES ASSUME NEW s \in Scopes, Cardinality(BusyIn(job, s)) > 0 PROVE Cap >= 1
    OBVIOUS
  <2>1. BusyIn(job, s) # {}
    BY FS_EmptySet
  <2> QED
    BY <2>1 DEF BusyIn, DeskInv, Paid
<1>7. ChatBound'
  <2> DEFINE n == Cardinality(BusyIn(job, "chat"))
  <2>1. n \in Nat /\ (n > 0 => Cap >= 1)
    BY <1>2, <1>5, <1>6
  <2>2. spent'["chat"] = 0 /\ crowd'["chat"] = n
    BY <1>1, <1>5
  <2>3. Cardinality(BusyIn(job', "chat")) = n
    BY <1>1
  <2> HIDE DEF n
  <2>4. 0 + n <= IF n = 0 THEN 0 ELSE Cap + n - 1
    BY <2>1
  <2> QED
    BY <2>2, <2>3, <2>4 DEF ChatBound
<1>8. SessionBound'
  <2> DEFINE n == Cardinality(BusyIn(job, "shared"))
  <2>1. n \in Nat /\ (n > 0 => Cap >= 1)
    BY <1>2, <1>5, <1>6
  <2>2. spent'["shared"] = 0 /\ crowd'["shared"] = n /\ job' = job
    BY <1>1, <1>5
  <2>3. /\ SumFunctionOnSet(LeftIn(job), Jobs) \in Nat
        /\ SumFunctionOnSet(LeftIn(job), Jobs) <= n * Turns
    BY LeftFits DEF DeskInv, DeskTypeOK, JobRow, Paid
  <2>4. n * Turns \in Nat /\ (n = 0 => n * Turns = 0)
    BY <2>1
  <2> HIDE DEF n
  <2>5. 0 + SumFunctionOnSet(LeftIn(job), Jobs) <= IF n = 0 THEN 0 ELSE Cap - 1 + n * Turns
    BY <2>1, <2>3, <2>4
  <2> QED
    BY <2>2, <2>5 DEF SessionBound, LeftIn, BusyIn, Jobs
<1> QED
  BY <1>3, <1>4, <1>7, <1>8 DEF DeskInv

LEMMA RestartKeeps == DeskInv /\ DeskRestarts => DeskInv'
<1> SUFFICES ASSUME DeskInv, DeskRestarts PROVE DeskInv'
  OBVIOUS
<1> USE DeskNumbers
<1>1. job' = [j \in Jobs |-> Quiet] /\ spent' = spent /\ crowd' = crowd
  BY DEF DeskRestarts
<1>2. DeskTypeOK'
  BY <1>1 DEF DeskInv, DeskTypeOK, DeskRestarts
<1>3. Paid'
  BY <1>1 DEF Paid, WithinBudget, Quiet, Jobs
<1>4. \A s \in Scopes : BusyIn(job', s) = {}
  BY <1>1 DEF BusyIn, Quiet
<1>5. \A s \in Scopes : Cardinality(BusyIn(job', s)) = 0
  BY <1>4, FS_EmptySet
<1>6. /\ crowd \in [Scopes -> 0 .. MaxJobs] /\ spent \in [Scopes -> Nat]
      /\ "chat" \in Scopes /\ "shared" \in Scopes
      /\ \A s \in Scopes : crowd'[s] = crowd[s]
  BY <1>1 DEF DeskInv, DeskTypeOK, Scopes
<1>7. Noticed'
  BY <1>5, <1>6 DEF Noticed, BusyIn, Jobs, Scope
<1>8. ChatBound'
  <2>1. Cardinality(BusyIn(job, "chat")) \in Nat
    BY SpendCounted, DeskNumbers
  <2>2. spent["chat"] + Cardinality(BusyIn(job, "chat"))
          <= IF crowd["chat"] = 0 THEN 0 ELSE Cap + crowd["chat"] - 1
    BY DEF DeskInv, ChatBound
  <2>3. spent["chat"] + 0 <= IF crowd["chat"] = 0 THEN 0 ELSE Cap + crowd["chat"] - 1
    BY <1>6, <2>1, <2>2
  <2> QED
    BY <1>1, <1>5, <1>6, <2>3 DEF ChatBound
<1>9. SessionBound'
  <2>1. SumFunctionOnSet(LeftIn(job), Jobs) \in Nat
    BY LeftFits DEF DeskInv, DeskTypeOK, JobRow, Paid
  <2>2. spent["shared"] + SumFunctionOnSet(LeftIn(job), Jobs)
          <= IF crowd["shared"] = 0 THEN 0 ELSE Cap - 1 + crowd["shared"] * Turns
    BY DEF DeskInv, SessionBound
  <2>3. SumFunctionOnSet(LeftIn(job'), Jobs) = 0
    <3>1. \A j \in Jobs : LeftIn(job')[j] = 0
      BY <1>4, <1>6 DEF LeftIn
    <3>2. IsFiniteSet(Jobs)
      BY SpendCounted
    <3> QED
      BY <3>1, <3>2, SumZero
  <2>4. crowd["shared"] \in Nat /\ spent["shared"] \in Nat /\ crowd["shared"] * Turns \in Nat
    BY <1>6
  <2>5. spent["shared"] + 0 <= IF crowd["shared"] = 0 THEN 0 ELSE Cap - 1 + crowd["shared"] * Turns
    BY <2>1, <2>2, <2>4
  <2> QED
    BY <1>1, <2>3, <2>5 DEF SessionBound, LeftIn, BusyIn, Jobs
<1> QED
  BY <1>2, <1>3, <1>7, <1>8, <1>9 DEF DeskInv

LEMMA DeskNextKeeps == DeskInv /\ [DeskNext]_deskVars => DeskInv'
<1> SUFFICES ASSUME DeskInv, [DeskNext]_deskVars PROVE DeskInv'
  OBVIOUS
<1>1. CASE UNCHANGED deskVars
  <2>1. DeskTypeOK'
    BY <1>1 DEF deskVars, DeskInv, DeskTypeOK
  <2> QED
    BY <1>1, <2>1, DeskRestKeeps DEF deskVars
<1>2. ASSUME NEW k \in Voices \cup {"everyone"}, CoolsDown(k) PROVE DeskInv'
  <2>1. DeskTypeOK'
    BY <1>2 DEF CoolsDown, DeskInv, DeskTypeOK
  <2> QED
    BY <1>2, <2>1, DeskRestKeeps DEF CoolsDown
<1>3. CASE DemoElapses
  <2>1. DeskTypeOK'
    BY <1>3 DEF DemoElapses, DeskInv, DeskTypeOK
  <2> QED
    BY <1>3, <2>1, DeskRestKeeps DEF DemoElapses
<1> QED
  BY <1>1, <1>2, <1>3, HumanPostKeeps, HeartbeatKeeps, AutoPostKeeps, SessionKeeps,
     AnsweredKeeps, MonthKeeps, RestartKeeps
  DEF DeskNext

\* However many jobs overlap, of one kind or of several: chat passes its budget
\* by one request for each but one of the most that were under way together,
\* and sessions by the turns of as many (research/budget.ts, toolkit/forum.ts,
\* research/discussion.ts).
THEOREM OverspendTheorem == DeskSpec => []OverspendBounded
<1>1. DeskInv => OverspendBounded
  <2>1. Busy("chat") = BusyIn(job, "chat") /\ ToGo = LeftIn(job)
    BY NextBusy DEF ToGo, LeftIn
  <2> QED
    BY <2>1 DEF DeskInv, ChatBound, SessionBound, OverspendBounded
<1> QED
  BY <1>1, DeskInitInv, DeskNextKeeps, PTL DEF DeskSpec
-----------------------------------------------------------------------------
(* Custody: what a ceremony leaves, wherever it is killed.                 *)

Steps == {"attach", "check", "bind", "sign", "send", "wait", "book"}
Attempt == {"signed", "sent", "ok", "reverted"}
Worn == {Unknown} \cup SUBSET Confined
Records == [hash : [Asset -> Nat], payload : SUBSET Asset, prev : Worn]
Runs == [pc : {"off", "again", "read", "restore", "make"} \cup Steps, legs : Seq(Asset),
         found : Worn, prev : Worn]

\* The fields that no rule below is about.
CustodyTyped ==
  /\ vault \in [owner : {"none", "fits", "other"}, policies : SUBSET Confined,
               signer : {"owner", "attached", "missing"}, override : {{}, {Standing}}]
  /\ asking \in BOOLEAN /\ stray = FALSE
  /\ command \in Command
  /\ run \in Runs /\ runs \in Nat /\ file \in Records
  /\ sent \in [Asset -> Seq(Attempt)]
  /\ held \subseteq Asset /\ (command # "sweep" => "ETH" \in held) /\ astray \in BOOLEAN

\* Which steps a command has, and what its run has found by then.
Ceremony ==
  /\ run.pc = "make" => command = "isolate"
  /\ command = "isolate" => run.pc \in {"off", "make"}
  /\ command = "provision" => run.pc \in {"off", "read", "attach"}
  /\ run.pc = "again" => command = "top-up-gas"
  /\ run.pc \in {"sign", "send", "wait", "book"} => run.legs # <<>>
  /\ run.pc = "book" => command \in Payments
  /\ run.pc = "again" \/ run.pc = "restore" => run.prev # Unknown
  /\ run.pc \in Steps /\ command # "provision" => run.found # Unknown

\* A top-up keeps what it found in its file, the others in the run.
FoundInFile ==
  /\ command # "top-up-gas" => file.prev = Unknown
  /\ command = "provision" \/ command = "isolate" => run.prev = Unknown /\ run.found = Unknown
  /\ command = "top-up-gas" =>
       /\ run.pc # "off" => run.prev = file.prev /\ run.found = file.prev
       /\ run.prev \in {Unknown, file.prev}
       /\ file.hash["ETH"] > 0 => file.prev # Unknown
       /\ run.pc = "read" \/ file.prev = Unknown => Plain(vault.policies)
       /\ file.prev = Unknown \/ Plain(file.prev)
  /\ command # "top-up-gas" /\ ~astray =>
       /\ run.pc \in {"off", "read", "make"} => Plain(vault.policies) /\ run.prev = Unknown
       /\ run.pc \in {"attach", "check", "bind", "sign", "send", "wait", "book", "restore"} /\ command # "provision" => Plain(run.found)
       /\ run.prev # Unknown => run.prev = run.found
       /\ run.pc = "attach" => Plain(vault.policies)
  /\ run.pc = "off" => run.prev = Unknown
  /\ run.pc \in {"read", "attach"} /\ command # "top-up-gas" => run.prev = Unknown

\* A wallet that wore no policy never wears the standing one, but for
\* provision, after which it always does.
CustodyKinds == {vault.policies, run.found, run.prev, file.prev}
Guards ==
  /\ asking => IF vault.signer = "owner" THEN {} \notin CustodyKinds ELSE vault.override = {Standing}
  /\ command # "provision" => {} \notin CustodyKinds \/ {Standing} \notin CustodyKinds
  /\ command = "provision" => (asking /\ vault.signer = "owner" => vault.policies = {Standing})

\* A payment signs each leg once.
SignsOnce ==
  command # "sweep" => \A a \in Asset :
    /\ Len(sent[a]) <= 1
    /\ file.hash[a] = Len(sent[a])
    /\ run.pc = "send" \/ run.pc = "wait" \/ run.pc = "book" =>
         file.hash[Head(run.legs)] = 1
Books ==
  /\ run.pc = "book" => sent[Head(run.legs)][Len(sent[Head(run.legs)])] = "ok"
  /\ booked \subseteq {"manager", "trader"} \X Asset \X {1}
  /\ \A a \in Asset : Sides(a, 1) \cap booked # {} =>
       1 \in DOMAIN sent[a] /\ sent[a][1] = "ok" /\ Sides(a, 1) \subseteq booked

\* A sweep sends the gas when all else is gone.
Empties ==
  command = "sweep" =>
    /\ held # {} => "ETH" \in held
    /\ run.pc \in Steps => held \subseteq ToSet(run.legs)
    /\ \A i \in 1 .. Len(run.legs) - 1 : run.legs[i] # "ETH"
    /\ run.pc \in {"read", "attach"} => run.legs # <<>>
    /\ run.pc \in {"send", "wait"} => sent[Head(run.legs)] # <<>>
    /\ \A a \in Asset : file.hash[a] = 0
    /\ run.pc = "read" => held \subseteq ToSet(run.legs)
    /\ \A a \in Asset : \A k \in DOMAIN sent[a] :
         /\ sent[a][k] = "ok" => a \notin held
         /\ a = "ETH" => held \subseteq {"ETH"}

CustodyInv == CustodyTyped /\ Ceremony /\ FoundInFile /\ Guards /\ SignsOnce /\ Books /\ Empties
-----------------------------------------------------------------------------
LEMMA PolicyFacts ==
  /\ Standing \in Confined /\ PolicyOf("funding", {}) \in Confined
  /\ PolicyOf("top-up", {}) \in Confined
  /\ \A rules \in (SUBSET Asset) \ {{}} : PolicyOf("withdrawal", rules) \in Confined
  /\ \A name, rules : name # "standing" => PolicyOf(name, rules) # Standing
  /\ Unknown # {} /\ Unknown # {Standing} /\ {Standing} # {}
  /\ ~(Unknown \subseteq Confined)
<1> DEFINE Safe(p) == \A r \in Request : Allows(p, r) =>
     r.party # "other" /\ (r.party = "holder" => r.amount <= CapUsd)
<1>1. Safe(Standing)
  BY DEF Standing, PolicyOf, Allows, StandingAllows, Request
<1>2. Safe(PolicyOf("funding", {})) /\ Safe(PolicyOf("top-up", {}))
  BY DEF PolicyOf, Allows, FundingAllows, TopUpAllows, Request
<1>3. \A rules \in (SUBSET Asset) \ {{}} : Safe(PolicyOf("withdrawal", rules))
  BY DEF PolicyOf, Allows, WithdrawalAllows, Request
<1>4. \A name, rules : name # "standing" => PolicyOf(name, rules) # Standing
  BY DEF Standing, PolicyOf
<1>5. Unknown # {Standing}
  BY <1>4 DEF Unknown
<1>6. PolicyOf("unknown", {}) \notin Policy
  BY DEF PolicyOf, Policy, Standing
<1>7. ~(Unknown \subseteq Confined)
  BY <1>6 DEF Unknown, Confined
<1> QED BY <1>1, <1>2, <1>3, <1>4, <1>5, <1>7 DEF Confined, Policy, Unknown

\* Of what a wallet may wear, only the standing policy lets the server sign.
LEMMA ServerIsConfined ==
  ASSUME NEW p \in Confined, NEW r \in Asked, SignerTakes(r), Allows(p, r)
  PROVE  p = Standing
<1>1. p \in Policy /\ r.act \in {"approve", "exec"}
  BY DEF Confined, Asked
<1>2. ASSUME NEW rules, p = PolicyOf("withdrawal", rules) PROVE FALSE
  <2>1. p.name = "withdrawal"
    BY <1>2 DEF PolicyOf
  <2>2. WithdrawalAllows(r, p.rules)
    BY <2>1 DEF Allows
  <2> QED BY <1>1, <2>2 DEF WithdrawalAllows
<1>3. p # PolicyOf("funding", {})
  <2>1. SUFFICES ASSUME p = PolicyOf("funding", {}) PROVE FALSE
    OBVIOUS
  <2>2. p.name = "funding"
    BY <2>1 DEF PolicyOf
  <2>3. FundingAllows(r)
    BY <2>2 DEF Allows
  <2> QED BY <1>1, <2>3 DEF FundingAllows, TopUpAllows
<1>4. p # PolicyOf("top-up", {})
  <2>1. SUFFICES ASSUME p = PolicyOf("top-up", {}) PROVE FALSE
    OBVIOUS
  <2>2. p.name = "top-up"
    BY <2>1 DEF PolicyOf
  <2>3. TopUpAllows(r)
    BY <2>2 DEF Allows
  <2> QED BY <1>1, <2>3 DEF TopUpAllows
<1> QED BY <1>1, <1>2, <1>3, <1>4 DEF Policy

LEMMA TailFacts ==
  ASSUME NEW w \in Seq(Asset), w # <<>>, \A i \in 1 .. Len(w) - 1 : w[i] # "ETH"
  PROVE  /\ Head(w) \in Asset /\ Tail(w) \in Seq(Asset)
         /\ ToSet(w) = {Head(w)} \cup ToSet(Tail(w))
         /\ \A i \in 1 .. Len(Tail(w)) - 1 : Tail(w)[i] # "ETH"
         /\ Head(w) = "ETH" => ToSet(w) = {"ETH"}
<1>1. /\ Head(w) = w[1] /\ Head(w) \in Asset /\ Tail(w) \in Seq(Asset) /\ Len(w) \in Nat \ {0}
      /\ Len(Tail(w)) = Len(w) - 1 /\ DOMAIN w = 1 .. Len(w)
      /\ DOMAIN Tail(w) = 1 .. Len(Tail(w))
      /\ \A i \in 1 .. Len(w) - 1 : Tail(w)[i] = w[i + 1]
  OBVIOUS
<1>2. ToSet(w) \subseteq {Head(w)} \cup ToSet(Tail(w))
  <2> SUFFICES ASSUME NEW i \in 1 .. Len(w), i # 1
               PROVE  w[i] \in ToSet(Tail(w))
    BY <1>1 DEF ToSet
  <2>1. i - 1 \in DOMAIN Tail(w) /\ Tail(w)[i - 1] = w[i]
    BY <1>1
  <2> QED BY <2>1 DEF ToSet
<1>3. {Head(w)} \cup ToSet(Tail(w)) \subseteq ToSet(w)
  <2> SUFFICES ASSUME NEW i \in 1 .. Len(w) - 1
               PROVE  Tail(w)[i] \in ToSet(w)
    BY <1>1 DEF ToSet
  <2>1. i + 1 \in DOMAIN w /\ Tail(w)[i] = w[i + 1]
    BY <1>1
  <2> QED BY <2>1 DEF ToSet
<1>4. \A i \in 1 .. Len(Tail(w)) - 1 : Tail(w)[i] # "ETH"
  BY <1>1
<1>5. Head(w) = "ETH" => ToSet(w) = {"ETH"}
  <2> SUFFICES ASSUME Head(w) = "ETH" PROVE ToSet(w) = {"ETH"}
    OBVIOUS
  <2>1. Len(w) = 1
    BY <1>1
  <2>2. DOMAIN w = {1}
    BY <1>1, <2>1
  <2> QED BY <1>1, <2>2 DEF ToSet
<1> QED BY <1>1, <1>2, <1>3, <1>4, <1>5

LEMMA ConcatFacts ==
  ASSUME NEW u \in Seq(Asset), NEW v \in Seq(Asset)
  PROVE  /\ u \o v \in Seq(Asset) /\ ToSet(u \o v) = ToSet(u) \cup ToSet(v)
         /\ Len(u \o v) = Len(u) + Len(v)
         /\ \A i \in 1 .. Len(u) : (u \o v)[i] = u[i]
<1>1. /\ u \o v \in Seq(Asset) /\ Len(u \o v) = Len(u) + Len(v)
      /\ \A i \in 1 .. Len(u) : (u \o v)[i] = u[i]
      /\ \A i \in 1 .. Len(v) : (u \o v)[i + Len(u)] = v[i]
      /\ \A i \in 1 .. Len(u) + Len(v) : (u \o v)[i] = IF i <= Len(u) THEN u[i] ELSE v[i - Len(u)]
      /\ DOMAIN (u \o v) = 1 .. Len(u \o v) /\ Len(u) \in Nat /\ Len(v) \in Nat
      /\ DOMAIN u = 1 .. Len(u) /\ DOMAIN v = 1 .. Len(v)
  OBVIOUS
<1>2. ToSet(u \o v) \subseteq ToSet(u) \cup ToSet(v)
  <2> SUFFICES ASSUME NEW i \in 1 .. Len(u) + Len(v)
               PROVE  (u \o v)[i] \in ToSet(u) \cup ToSet(v)
    BY <1>1 DEF ToSet
  <2>1. CASE i <= Len(u)
    <3>1. i \in DOMAIN u
      BY <1>1, <2>1
    <3> QED BY <1>1, <2>1, <3>1 DEF ToSet
  <2>2. CASE ~(i <= Len(u))
    <3>1. i - Len(u) \in DOMAIN v
      BY <1>1, <2>2
    <3> QED BY <1>1, <2>2, <3>1 DEF ToSet
  <2> QED BY <2>1, <2>2
<1>3. ToSet(u) \subseteq ToSet(u \o v)
  <2>1. \A i \in DOMAIN u : i \in DOMAIN (u \o v) /\ (u \o v)[i] = u[i]
    BY <1>1
  <2> QED BY <2>1 DEF ToSet
<1>4. ToSet(v) \subseteq ToSet(u \o v)
  <2>1. \A i \in DOMAIN v : i + Len(u) \in DOMAIN (u \o v) /\ (u \o v)[i + Len(u)] = v[i]
    BY <1>1
  <2> QED BY <2>1 DEF ToSet
<1> QED BY <1>1, <1>2, <1>3, <1>4

LEMMA LegFacts ==
  ASSUME held \subseteq Asset, NEW c \in Command
  PROVE  /\ LegsOf(c) \in Seq(Asset)
         /\ c = "sweep" => /\ ToSet(LegsOf(c)) = held
                           /\ \A i \in 1 .. Len(LegsOf(c)) - 1 : LegsOf(c)[i] # "ETH"
<1>1. CASE c # "sweep"
  <2>1. <<"USDG", "ETH">> \in Seq(Asset) /\ <<"USDG">> \in Seq(Asset) /\ <<"ETH">> \in Seq(Asset)
    BY DEF Asset
  <2>2. <<>> \in Seq(Asset)
    OBVIOUS
  <2>3. \/ LegsOf(c) = <<"USDG", "ETH">> \/ LegsOf(c) = <<"USDG">>
        \/ LegsOf(c) = <<"ETH">> \/ LegsOf(c) = <<>>
    BY <1>1 DEF LegsOf
  <2> QED BY <1>1, <2>1, <2>2, <2>3
<1>2. CASE c = "sweep"
  <2> DEFINE u == LegIf("USDG") \o LegIf("WETH")
             e == LegIf("ETH")
  <2>1. LegsOf(c) = u \o e
    BY <1>2 DEF LegsOf
  <2>2. \A a \in Asset : /\ LegIf(a) \in Seq(Asset) /\ ToSet(LegIf(a)) = {a} \cap held
                         /\ Len(LegIf(a)) <= 1
    BY DEF LegIf, ToSet
  <2>3. /\ u \in Seq(Asset) /\ ToSet(u) = {"USDG", "WETH"} \cap held
    BY <2>2, ConcatFacts DEF Asset
  <2>4. e \in Seq(Asset) /\ ToSet(e) = {"ETH"} \cap held /\ Len(e) <= 1
    BY <2>2 DEF Asset
  <2> HIDE DEF u, e
  <2>5. /\ u \o e \in Seq(Asset) /\ ToSet(u \o e) = ToSet(u) \cup ToSet(e)
        /\ Len(u \o e) = Len(u) + Len(e)
        /\ \A i \in 1 .. Len(u) : (u \o e)[i] = u[i]
    BY <2>3, <2>4, ConcatFacts
  <2>6. \A i \in 1 .. Len(u) : u[i] # "ETH"
    <3>1. \A i \in 1 .. Len(u) : u[i] \in ToSet(u)
      BY <2>3 DEF ToSet
    <3> QED BY <3>1, <2>3
  <2>7. Len(u) \in Nat /\ Len(e) \in Nat
    BY <2>3, <2>4
  <2>8. \A i \in 1 .. Len(u \o e) - 1 : (u \o e)[i] # "ETH"
    <3> SUFFICES ASSUME NEW i \in 1 .. Len(u \o e) - 1 PROVE (u \o e)[i] # "ETH"
      OBVIOUS
    <3>1. i \in 1 .. Len(u)
      BY <2>4, <2>5, <2>7
    <3> QED BY <3>1, <2>5, <2>6
  <2>9. ToSet(u) \cup ToSet(e) = held
    BY <2>3, <2>4 DEF Asset
  <2> QED BY <1>2, <2>1, <2>5, <2>8, <2>9
<1> QED BY <1>1, <1>2
-----------------------------------------------------------------------------
(* Steps.                                                                   *)

LEMMA OffFacts ==
  /\ Off \in Runs /\ Off.pc = "off" /\ Off.legs = <<>>
  /\ Off.found = Unknown /\ Off.prev = Unknown
<1>1. <<>> \in Seq(Asset)
  OBVIOUS
<1> QED BY <1>1 DEF Off, Runs, Worn

LEMMA PolicyForFacts ==
  ASSUME CustodyInv, run.pc = "attach", command # "provision"
  PROVE  /\ PolicyFor(command) \in Confined
         /\ {PolicyFor(command)} # {} /\ {PolicyFor(command)} # {Standing}
<1>1. CASE command = "sweep"
  <2>1. run.legs \in Seq(Asset) /\ run.legs # <<>>
    BY <1>1 DEF CustodyInv, CustodyTyped, Runs, Empties
  <2>2. ToSet(run.legs) \in (SUBSET Asset) \ {{}}
    <3>1. 1 \in DOMAIN run.legs /\ \A i \in DOMAIN run.legs : run.legs[i] \in Asset
      BY <2>1
    <3>2. run.legs[1] \in ToSet(run.legs)
      BY <3>1 DEF ToSet
    <3>3. ToSet(run.legs) \subseteq Asset
      BY <3>1 DEF ToSet
    <3>4. ToSet(run.legs) # {}
      BY <3>2
    <3> QED BY <3>3, <3>4
  <2>3. PolicyFor(command) = PolicyOf("withdrawal", ToSet(run.legs))
    BY <1>1 DEF PolicyFor
  <2>4. PolicyFor(command) \in Confined /\ PolicyFor(command) # Standing
    BY <2>2, <2>3, PolicyFacts
  <2> QED BY <2>4
<1>2. CASE command # "sweep"
  <2>1. PolicyFor(command) = PolicyOf("top-up", {}) \/ PolicyFor(command) = PolicyOf("funding", {})
    BY <1>2 DEF PolicyFor
  <2>2. PolicyFor(command) \in Confined /\ PolicyFor(command) # Standing
    BY <2>1, PolicyFacts
  <2> QED BY <2>2
<1> QED BY <1>1, <1>2

\* A step that signs, sends and books nothing.
LEMMA MoneyStays ==
  ASSUME CustodyInv, UNCHANGED <<command, sent, booked, held>>, file'.hash = file.hash,
         run'.legs = run.legs \/ (run'.legs = <<>> /\ run'.pc = "off"),
         run'.pc \notin {"send", "wait", "book"} \/ run'.pc = run.pc,
         command = "sweep" /\ run'.pc \in Steps => run.pc \in Steps \cup {"read"},
         command = "sweep" /\ run'.pc = "read" => run.pc = "read",
         command = "sweep" /\ run'.pc = "attach" => run.pc \in {"read", "attach"}
  PROVE  (SignsOnce /\ Books /\ Empties)'
<1>1. SignsOnce'
  BY DEF CustodyInv, SignsOnce
<1>2. Books'
  BY DEF CustodyInv, Books, Sides
<1>3. Empties'
  <2>1. CASE command # "sweep"
    BY <2>1 DEF Empties
  <2>2. CASE command = "sweep"
    <3>1. CASE run'.legs = run.legs
      BY <2>2, <3>1 DEF CustodyInv, Empties, Steps
    <3>2. CASE run'.legs = <<>> /\ run'.pc = "off"
      BY <2>2, <3>2 DEF CustodyInv, Empties, Steps
    <3> QED BY <3>1, <3>2
  <2> QED BY <2>1, <2>2
<1> QED BY <1>1, <1>2, <1>3

\* A transaction is signed; one that was signed changes.
LEMMA Appends ==
  ASSUME sent \in [Asset -> Seq(Attempt)], NEW a \in Asset, NEW v \in Attempt,
         sent' = [sent EXCEPT ![a] = Append(@, v)]
  PROVE  /\ sent' \in [Asset -> Seq(Attempt)]
         /\ Len(sent[a]) \in Nat /\ Len(sent'[a]) = Len(sent[a]) + 1
         /\ sent'[a][Len(sent[a]) + 1] = v
         /\ DOMAIN sent[a] = 1 .. Len(sent[a]) /\ DOMAIN sent'[a] = 1 .. Len(sent[a]) + 1
         /\ \A i \in DOMAIN sent[a] : sent'[a][i] = sent[a][i]
         /\ \A b \in Asset : b # a => sent'[b] = sent[b]
<1> DEFINE t == Append(sent[a], v)
<1>1. sent[a] \in Seq(Attempt)
  OBVIOUS
<1>2. /\ t \in Seq(Attempt) /\ Len(sent[a]) \in Nat /\ Len(t) = Len(sent[a]) + 1
      /\ t[Len(sent[a]) + 1] = v /\ DOMAIN sent[a] = 1 .. Len(sent[a])
      /\ DOMAIN t = 1 .. Len(sent[a]) + 1 /\ \A i \in DOMAIN sent[a] : t[i] = sent[a][i]
  BY <1>1
<1>3. sent' = [sent EXCEPT ![a] = t]
  OBVIOUS
<1> HIDE DEF t
<1> QED BY <1>2, <1>3

LEMMA Rewrites ==
  ASSUME sent \in [Asset -> Seq(Attempt)], NEW a \in Asset, NEW k \in DOMAIN sent[a],
         NEW v \in Attempt, sent' = [sent EXCEPT ![a][k] = v]
  PROVE  /\ sent' \in [Asset -> Seq(Attempt)]
         /\ \A b \in Asset : Len(sent'[b]) = Len(sent[b]) /\ DOMAIN sent'[b] = DOMAIN sent[b]
         /\ \A b \in Asset : \A i \in DOMAIN sent[b] :
              sent'[b][i] = IF b = a /\ i = k THEN v ELSE sent[b][i]
<1> DEFINE t == [sent[a] EXCEPT ![k] = v]
<1>1. sent[a] \in Seq(Attempt)
  OBVIOUS
<1>2. /\ t \in Seq(Attempt) /\ Len(t) = Len(sent[a]) /\ DOMAIN t = DOMAIN sent[a]
      /\ \A i \in DOMAIN sent[a] : t[i] = IF i = k THEN v ELSE sent[a][i]
  BY <1>1, ExceptSeq
<1>3. sent' = [sent EXCEPT ![a] = t]
  OBVIOUS
<1> HIDE DEF t
<1> QED BY <1>2, <1>3

LEMMA CeremonyBeginKeeps == ASSUME CustodyInv, Begin PROVE CustodyInv'
<1> USE PolicyFacts
<1>f. /\ run'.pc = FirstStep /\ run'.legs = LegsOf(command)
      /\ run'.found = file.prev /\ run'.prev = file.prev /\ run.pc = "off"
      /\ command = "sweep" => held # {}
  BY DEF Begin
<1>g. /\ LegsOf(command) \in Seq(Asset)
      /\ command = "sweep" => /\ ToSet(LegsOf(command)) = held
                              /\ \A i \in 1 .. Len(LegsOf(command)) - 1 : LegsOf(command)[i] # "ETH"
  BY LegFacts DEF CustodyInv, CustodyTyped
<1>h. FirstStep = "send" => command = "top-up-gas" /\ LegsOf(command) = <<"ETH">> /\ file.hash["ETH"] > 0
  BY DEF FirstStep, LegsOf
<1>i. /\ FirstStep \in {"make", "send", "again", "read"}
      /\ FirstStep = "make" <=> command = "isolate"
      /\ FirstStep = "again" => command = "top-up-gas" /\ file.prev # Unknown
      /\ command = "top-up-gas" /\ FirstStep = "read" => file.prev = Unknown
  BY DEF FirstStep, CustodyInv, CustodyTyped, FoundInFile, Records
<1>j. ToSet(<<>>) = {}
  BY DEF ToSet
<1>1. CustodyTyped'
  BY <1>f, <1>g, <1>h, <1>i, <1>j DEF CustodyInv, CustodyTyped, Records, Runs, Worn, Steps, Begin, Separate, enclaveVars
<1>2. Ceremony'
  <2>1. command' = command /\ command \in Command
    BY DEF Begin, CustodyInv, CustodyTyped
  <2>2. FirstStep = "send" => file.prev # Unknown
    BY <1>h DEF CustodyInv, FoundInFile
  <2>3. <<"ETH">> # <<>>
    OBVIOUS
  <2>4. command = "isolate" \/ command = "provision" => FirstStep \in {"make", "read"}
    BY <1>h, <1>i
  <2>5. run'.pc \in Steps => run'.pc = "send"
    BY <1>f, <1>i DEF Steps
  <2>6. (run'.pc \in {"sign", "send", "wait", "book"} => run'.pc = "send") /\ run'.pc # "book"
        /\ run'.pc \notin {"restore", "attach"}
    BY <1>f, <1>i
  <2> QED BY <1>f, <1>h, <1>i, <2>1, <2>2, <2>3, <2>4, <2>5, <2>6 DEF Ceremony
<1>3. FoundInFile'
  BY <1>f, <1>g, <1>h, <1>i, <1>j DEF CustodyInv, CustodyTyped, Ceremony, FoundInFile, Steps, Plain, Records, Runs, Begin, Separate, enclaveVars
<1>4. Guards'
  BY <1>f, <1>g, <1>h, <1>i, <1>j DEF CustodyInv, CustodyTyped, Ceremony, FoundInFile, Guards, CustodyKinds, Steps, Records, Runs, Begin, Separate, enclaveVars
<1>5. SignsOnce'
  BY <1>f, <1>g, <1>h, <1>i, <1>j DEF CustodyInv, CustodyTyped, SignsOnce, Begin, Separate, enclaveVars
<1>6. Books'
  BY <1>f, <1>g, <1>h, <1>i, <1>j DEF CustodyInv, CustodyTyped, Books, Sides, Begin, Separate, enclaveVars
<1>7. Empties'
  BY <1>f, <1>g, <1>h, <1>i, <1>j DEF CustodyInv, CustodyTyped, Empties, Steps, Begin, Separate, enclaveVars
<1> QED BY <1>1, <1>2, <1>3, <1>4, <1>5, <1>6, <1>7 DEF CustodyInv

LEMMA CeremonyFailsKeeps == ASSUME CustodyInv, Fails PROVE CustodyInv'
<1> USE PolicyFacts, OffFacts
<1>1. CustodyTyped'
  <2>1. CASE run.prev = Unknown
    BY <2>1 DEF CustodyInv, CustodyTyped, Records, Runs, Worn, Steps, Fails, Throw, Leave, To
  <2>2. CASE run.prev # Unknown
    BY <2>2 DEF CustodyInv, CustodyTyped, Records, Runs, Worn, Steps, Fails, Throw, Leave, To
  <2> QED BY <2>1, <2>2 DEF Fails
<1>2. Ceremony'
  <2>1. CASE run.prev = Unknown
    BY <2>1 DEF CustodyInv, CustodyTyped, Ceremony, FoundInFile, Steps, Payments, Runs, Fails, Throw, Leave, To
  <2>2. CASE run.prev # Unknown
    BY <2>2 DEF CustodyInv, CustodyTyped, Ceremony, FoundInFile, Steps, Payments, Runs, Fails, Throw, Leave, To
  <2> QED BY <2>1, <2>2 DEF Fails
<1>3. FoundInFile'
  <2>1. CASE run.prev = Unknown
    BY <2>1 DEF CustodyInv, CustodyTyped, Ceremony, FoundInFile, Steps, Plain, Records, Runs, Fails, Throw, Leave, To
  <2>2. CASE run.prev # Unknown
    BY <2>2 DEF CustodyInv, CustodyTyped, Ceremony, FoundInFile, Steps, Plain, Records, Runs, Fails, Throw, Leave, To
  <2> QED BY <2>1, <2>2 DEF Fails
<1>4. Guards'
  <2>1. CASE run.prev = Unknown
    BY <2>1 DEF CustodyInv, CustodyTyped, Ceremony, FoundInFile, Guards, CustodyKinds, Steps, Records, Runs, Fails, Throw, Leave, To
  <2>2. CASE run.prev # Unknown
    BY <2>2 DEF CustodyInv, CustodyTyped, Ceremony, FoundInFile, Guards, CustodyKinds, Steps, Records, Runs, Fails, Throw, Leave, To
  <2> QED BY <2>1, <2>2 DEF Fails
<1>5. (SignsOnce /\ Books /\ Empties)'
  <2>1. CASE run.prev = Unknown
    BY MoneyStays, <2>1 DEF CustodyInv, CustodyTyped, Ceremony, Runs, Records, Steps, Fails, Throw, Leave, To
  <2>2. CASE run.prev # Unknown
    BY MoneyStays, <2>2 DEF CustodyInv, CustodyTyped, Ceremony, Runs, Records, Steps, Fails, Throw, Leave, To
  <2> QED BY <2>1, <2>2 DEF Fails
<1> QED BY <1>1, <1>2, <1>3, <1>4, <1>5 DEF CustodyInv

LEMMA KilledKeeps == ASSUME CustodyInv, Killed PROVE CustodyInv'
<1> USE PolicyFacts, OffFacts
<1>1. CustodyTyped'
  BY DEF CustodyInv, CustodyTyped, Records, Runs, Worn, Steps, Killed, Leave
<1>2. Ceremony'
  BY DEF CustodyInv, CustodyTyped, Ceremony, FoundInFile, Steps, Payments, Runs, Killed, Leave
<1>3. FoundInFile'
  BY DEF CustodyInv, CustodyTyped, Ceremony, FoundInFile, Steps, Plain, Records, Runs, Killed, Leave
<1>4. Guards'
  BY DEF CustodyInv, CustodyTyped, Ceremony, FoundInFile, Guards, CustodyKinds, Steps, Records, Runs, Killed, Leave
<1>5. (SignsOnce /\ Books /\ Empties)'
  BY MoneyStays DEF CustodyInv, CustodyTyped, Ceremony, Runs, Records, Steps, Killed, Leave
<1> QED BY <1>1, <1>2, <1>3, <1>4, <1>5 DEF CustodyInv

LEMMA RestoredAgainKeeps == ASSUME CustodyInv, RestoredAgain PROVE CustodyInv'
<1> USE PolicyFacts, OffFacts
<1>1. CustodyTyped'
  BY DEF CustodyInv, CustodyTyped, Ceremony, Records, Runs, Worn, Steps, RestoredAgain, Wear, To, atWallet
<1>2. Ceremony'
  BY DEF CustodyInv, CustodyTyped, Ceremony, FoundInFile, Steps, Payments, Runs, RestoredAgain, Wear, To, atWallet
<1>3. FoundInFile'
  BY DEF CustodyInv, CustodyTyped, Ceremony, FoundInFile, Steps, Plain, Records, Runs, RestoredAgain, Wear, To, atWallet
<1>4. Guards'
  BY DEF CustodyInv, CustodyTyped, Ceremony, FoundInFile, Guards, CustodyKinds, Steps, Records, Runs, RestoredAgain, Wear, To, atWallet
<1>5. (SignsOnce /\ Books /\ Empties)'
  BY MoneyStays DEF CustodyInv, CustodyTyped, Ceremony, Runs, Records, Steps, RestoredAgain, Wear, To, atWallet
<1> QED BY <1>1, <1>2, <1>3, <1>4, <1>5 DEF CustodyInv

LEMMA ProvisionReadKeeps == ASSUME CustodyInv, ProvisionRead PROVE CustodyInv'
<1> USE PolicyFacts, OffFacts
<1>1. CustodyTyped'
  BY DEF CustodyInv, CustodyTyped, Records, Runs, Worn, Steps, ProvisionRead, To, atWallet
<1>2. Ceremony'
  BY DEF CustodyInv, CustodyTyped, Ceremony, FoundInFile, Steps, Payments, Runs, ProvisionRead, To, atWallet
<1>3. FoundInFile'
  BY DEF CustodyInv, CustodyTyped, Ceremony, FoundInFile, Steps, Plain, Records, Runs, ProvisionRead, To, atWallet
<1>4. Guards'
  BY DEF CustodyInv, CustodyTyped, Ceremony, FoundInFile, Guards, CustodyKinds, Steps, Records, Runs, ProvisionRead, To, atWallet
<1>5. (SignsOnce /\ Books /\ Empties)'
  BY MoneyStays DEF CustodyInv, CustodyTyped, Ceremony, Runs, Records, Steps, ProvisionRead, To, atWallet
<1> QED BY <1>1, <1>2, <1>3, <1>4, <1>5 DEF CustodyInv

LEMMA WalletReadKeeps == ASSUME CustodyInv, WalletRead PROVE CustodyInv'
<1> USE PolicyFacts, OffFacts
<1>f. vault.policies \in Worn /\ vault.policies # Unknown /\ file.prev \in Worn
  BY DEF CustodyInv, CustodyTyped, Worn, Records
<1>g. /\ run'.pc = "attach" /\ run'.legs = run.legs /\ run'.found = vault.policies
      /\ run'.prev = IF command = "top-up-gas" THEN vault.policies ELSE run.prev
      /\ file' = IF command = "top-up-gas" THEN [file EXCEPT !.prev = vault.policies] ELSE file
      /\ run' = [pc |-> run'.pc, legs |-> run'.legs, found |-> run'.found, prev |-> run'.prev]
  BY DEF WalletRead, CustodyInv, CustodyTyped, Runs
<1>1. CustodyTyped'
  <2>1. CASE command = "top-up-gas"
    BY <1>f, <1>g, <2>1 DEF CustodyInv, CustodyTyped, Records, Runs, Worn, Steps, WalletRead, atWallet
  <2>2. CASE command # "top-up-gas"
    BY <1>f, <1>g, <2>2 DEF CustodyInv, CustodyTyped, Records, Runs, Worn, Steps, WalletRead, atWallet
  <2> QED BY <2>1, <2>2 DEF WalletRead
<1>2. Ceremony'
  <2>1. CASE command = "top-up-gas"
    BY <1>f, <1>g, <2>1 DEF CustodyInv, CustodyTyped, Ceremony, FoundInFile, Steps, Payments, Runs, WalletRead, atWallet
  <2>2. CASE command # "top-up-gas"
    BY <1>f, <1>g, <2>2 DEF CustodyInv, CustodyTyped, Ceremony, FoundInFile, Steps, Payments, Runs, WalletRead, atWallet
  <2> QED BY <2>1, <2>2 DEF WalletRead
<1>3. FoundInFile'
  <2>1. CASE command = "top-up-gas"
    BY <1>f, <1>g, <2>1 DEF CustodyInv, CustodyTyped, Ceremony, FoundInFile, Steps, Plain, Records, Runs, WalletRead, atWallet
  <2>2. CASE command # "top-up-gas"
    <3>1. /\ UNCHANGED <<command, file, astray>> /\ vault' = vault /\ run.pc = "read"
          /\ command \notin {"provision", "isolate"}
      BY <2>2 DEF WalletRead, atWallet, CustodyInv, Ceremony
    <3>2. file.prev = Unknown /\ (~astray => Plain(vault.policies) /\ run.prev = Unknown)
      BY <2>2, <3>1 DEF CustodyInv, FoundInFile
    <3>3. astray => run.prev = Unknown
      BY <2>2, <3>1 DEF CustodyInv, FoundInFile
    <3> QED BY <1>g, <2>2, <3>1, <3>2, <3>3 DEF FoundInFile, Plain
  <2> QED BY <2>1, <2>2
<1>4. Guards'
  <2>1. CASE command = "top-up-gas"
    BY <1>f, <1>g, <2>1 DEF CustodyInv, CustodyTyped, Ceremony, FoundInFile, Guards, CustodyKinds, Steps, Records, Runs, WalletRead, atWallet
  <2>2. CASE command # "top-up-gas"
    BY <1>f, <1>g, <2>2 DEF CustodyInv, CustodyTyped, Ceremony, FoundInFile, Guards, CustodyKinds, Steps, Records, Runs, WalletRead, atWallet
  <2> QED BY <2>1, <2>2 DEF WalletRead
<1>5. (SignsOnce /\ Books /\ Empties)'
  <2>1. CASE command = "top-up-gas"
    BY MoneyStays, <1>f, <1>g, <2>1 DEF CustodyInv, CustodyTyped, Ceremony, Runs, Records, Steps, WalletRead, atWallet
  <2>2. CASE command # "top-up-gas"
    BY MoneyStays, <1>f, <1>g, <2>2 DEF CustodyInv, CustodyTyped, Ceremony, Runs, Records, Steps, WalletRead, atWallet
  <2> QED BY <2>1, <2>2 DEF WalletRead
<1> QED BY <1>1, <1>2, <1>3, <1>4, <1>5 DEF CustodyInv

LEMMA ProvisionAttachedKeeps == ASSUME CustodyInv, ProvisionAttached PROVE CustodyInv'
<1> USE PolicyFacts, OffFacts
<1>1. CustodyTyped'
  BY DEF CustodyInv, CustodyTyped, Records, Runs, Worn, Steps, ProvisionAttached, Leave, atWallet
<1>2. Ceremony'
  BY DEF CustodyInv, CustodyTyped, Ceremony, FoundInFile, Steps, Payments, Runs, ProvisionAttached, Leave, atWallet
<1>3. FoundInFile'
  BY DEF CustodyInv, CustodyTyped, Ceremony, FoundInFile, Steps, Plain, Records, Runs, ProvisionAttached, Leave, atWallet
<1>4. Guards'
  BY DEF CustodyInv, CustodyTyped, Ceremony, FoundInFile, Guards, CustodyKinds, Steps, Records, Runs, ProvisionAttached, Leave, atWallet
<1>5. (SignsOnce /\ Books /\ Empties)'
  BY MoneyStays DEF CustodyInv, CustodyTyped, Ceremony, Runs, Records, Steps, ProvisionAttached, Leave, atWallet
<1> QED BY <1>1, <1>2, <1>3, <1>4, <1>5 DEF CustodyInv

LEMMA AttachedKeeps == ASSUME CustodyInv, Attached PROVE CustodyInv'
<1> USE PolicyFacts, OffFacts
<1>f. command # "provision" => /\ PolicyFor(command) \in Confined
                                /\ {PolicyFor(command)} # {} /\ {PolicyFor(command)} # {Standing}
  BY PolicyForFacts DEF Attached
<1>1. CustodyTyped'
  <2>1. CASE Throw /\ run.prev = Unknown
    BY <1>f, <2>1 DEF CustodyInv, CustodyTyped, Records, Runs, Worn, Steps, Attached, Wear, Throw, Leave, To, atWallet
  <2>2. CASE Throw /\ run.prev # Unknown
    BY <1>f, <2>2 DEF CustodyInv, CustodyTyped, Records, Runs, Worn, Steps, Attached, Wear, Throw, Leave, To, atWallet
  <2>3. CASE To("check") /\ UNCHANGED astray
    BY <1>f, <2>3 DEF CustodyInv, CustodyTyped, Records, Runs, Worn, Steps, Attached, Wear, Throw, Leave, To, atWallet
  <2> QED BY <2>1, <2>2, <2>3 DEF Attached
<1>2. Ceremony'
  <2>1. CASE Throw /\ run.prev = Unknown
    BY <1>f, <2>1 DEF CustodyInv, CustodyTyped, Ceremony, FoundInFile, Steps, Payments, Runs, Attached, Wear, Throw, Leave, To, atWallet
  <2>2. CASE Throw /\ run.prev # Unknown
    BY <1>f, <2>2 DEF CustodyInv, CustodyTyped, Ceremony, FoundInFile, Steps, Payments, Runs, Attached, Wear, Throw, Leave, To, atWallet
  <2>3. CASE To("check") /\ UNCHANGED astray
    BY <1>f, <2>3 DEF CustodyInv, CustodyTyped, Ceremony, FoundInFile, Steps, Payments, Runs, Attached, Wear, Throw, Leave, To, atWallet
  <2> QED BY <2>1, <2>2, <2>3 DEF Attached
<1>3. FoundInFile'
  <2>1. CASE Throw /\ run.prev = Unknown
    BY <1>f, <2>1 DEF CustodyInv, CustodyTyped, Ceremony, FoundInFile, Steps, Plain, Records, Runs, Attached, Wear, Throw, Leave, To, atWallet
  <2>2. CASE Throw /\ run.prev # Unknown
    BY <1>f, <2>2 DEF CustodyInv, CustodyTyped, Ceremony, FoundInFile, Steps, Plain, Records, Runs, Attached, Wear, Throw, Leave, To, atWallet
  <2>3. CASE To("check") /\ UNCHANGED astray
    BY <1>f, <2>3 DEF CustodyInv, CustodyTyped, Ceremony, FoundInFile, Steps, Plain, Records, Runs, Attached, Wear, Throw, Leave, To, atWallet
  <2> QED BY <2>1, <2>2, <2>3 DEF Attached
<1>4. Guards'
  <2>1. CASE Throw /\ run.prev = Unknown
    BY <1>f, <2>1 DEF CustodyInv, CustodyTyped, Ceremony, FoundInFile, Guards, CustodyKinds, Steps, Records, Runs, Attached, Wear, Throw, Leave, To, atWallet
  <2>2. CASE Throw /\ run.prev # Unknown
    BY <1>f, <2>2 DEF CustodyInv, CustodyTyped, Ceremony, FoundInFile, Guards, CustodyKinds, Steps, Records, Runs, Attached, Wear, Throw, Leave, To, atWallet
  <2>3. CASE To("check") /\ UNCHANGED astray
    BY <1>f, <2>3 DEF CustodyInv, CustodyTyped, Ceremony, FoundInFile, Guards, CustodyKinds, Steps, Records, Runs, Attached, Wear, Throw, Leave, To, atWallet
  <2> QED BY <2>1, <2>2, <2>3 DEF Attached
<1>5. (SignsOnce /\ Books /\ Empties)'
  <2>1. CASE Throw /\ run.prev = Unknown
    BY MoneyStays, <1>f, <2>1 DEF CustodyInv, CustodyTyped, Ceremony, Runs, Records, Steps, Attached, Wear, Throw, Leave, To, atWallet
  <2>2. CASE Throw /\ run.prev # Unknown
    BY MoneyStays, <1>f, <2>2 DEF CustodyInv, CustodyTyped, Ceremony, Runs, Records, Steps, Attached, Wear, Throw, Leave, To, atWallet
  <2>3. CASE To("check") /\ UNCHANGED astray
    BY MoneyStays, <1>f, <2>3 DEF CustodyInv, CustodyTyped, Ceremony, Runs, Records, Steps, Attached, Wear, Throw, Leave, To, atWallet
  <2> QED BY <2>1, <2>2, <2>3 DEF Attached
<1> QED BY <1>1, <1>2, <1>3, <1>4, <1>5 DEF CustodyInv

LEMMA CheckedKeeps == ASSUME CustodyInv, Checked PROVE CustodyInv'
<1>f. /\ run.pc = "check" /\ run \in Runs
      /\ UNCHANGED <<vault, command, file, astray, asking, stray, runs, sent, booked, held>>
  BY DEF Checked, Onward, atWallet, CustodyInv, CustodyTyped
<1>r. /\ run' \in Runs /\ run'.legs = run.legs /\ run'.found = run.found /\ run'.prev = run.found
      /\ run'.pc \in {"bind", "restore", "sign"}
      /\ run'.pc = "sign" => run.legs # <<>>
  <2>1. CASE command = "fund-usdg"
    <3>1. run' = [run EXCEPT !.pc = "bind", !.prev = run.found]
      BY <2>1 DEF Checked
    <3> QED BY <1>f, <3>1 DEF Runs, Steps
  <2>2. CASE command # "fund-usdg"
    <3>1. run' = [run EXCEPT !.legs = run.legs, !.prev = run.found,
                             !.pc = IF run.legs = <<>> THEN "restore" ELSE "sign"]
      BY <2>2 DEF Checked, Onward
    <3> QED BY <1>f, <3>1 DEF Runs, Steps
  <2> QED BY <2>1, <2>2
<1>k. run.found # Unknown /\ command \notin {"provision", "isolate"}
  BY <1>f DEF CustodyInv, Ceremony, Steps
<1>1. CustodyTyped'
  BY <1>f, <1>r DEF CustodyInv, CustodyTyped
<1>2. Ceremony'
  BY <1>f, <1>r, <1>k DEF Ceremony, Steps
<1>3. FoundInFile'
  BY <1>f, <1>r, <1>k DEF CustodyInv, FoundInFile, Plain
<1>4. Guards'
  BY <1>f, <1>r, <1>k DEF CustodyInv, Guards, CustodyKinds
<1>5. (SignsOnce /\ Books /\ Empties)'
  BY MoneyStays, <1>f, <1>r DEF Steps
<1> QED BY <1>1, <1>2, <1>3, <1>4, <1>5 DEF CustodyInv

LEMMA RotatedKeeps == ASSUME CustodyInv, Rotated PROVE CustodyInv'
<1> USE PolicyFacts, OffFacts
<1>1. CustodyTyped'
  BY DEF CustodyInv, CustodyTyped, Records, Runs, Worn, Steps, Rotated, Onward, atWallet
<1>2. Ceremony'
  BY DEF CustodyInv, CustodyTyped, Ceremony, FoundInFile, Steps, Payments, Runs, Rotated, Onward, atWallet
<1>3. FoundInFile'
  BY DEF CustodyInv, CustodyTyped, Ceremony, FoundInFile, Steps, Plain, Records, Runs, Rotated, Onward, atWallet
<1>4. Guards'
  BY DEF CustodyInv, CustodyTyped, Ceremony, FoundInFile, Guards, CustodyKinds, Steps, Records, Runs, Rotated, Onward, atWallet
<1>5. (SignsOnce /\ Books /\ Empties)'
  BY MoneyStays DEF CustodyInv, CustodyTyped, Ceremony, Runs, Records, Steps, Rotated, Onward, atWallet
<1> QED BY <1>1, <1>2, <1>3, <1>4, <1>5 DEF CustodyInv

LEMMA RestoredKeeps == ASSUME CustodyInv, Restored PROVE CustodyInv'
<1> USE PolicyFacts, OffFacts
<1>1. CustodyTyped'
  BY DEF CustodyInv, CustodyTyped, Ceremony, Records, Runs, Worn, Steps, Restored, Wear, Leave, atWallet
<1>2. Ceremony'
  BY DEF CustodyInv, CustodyTyped, Ceremony, FoundInFile, Steps, Payments, Runs, Restored, Wear, Leave, atWallet
<1>3. FoundInFile'
  BY DEF CustodyInv, CustodyTyped, Ceremony, FoundInFile, Steps, Plain, Records, Runs, Restored, Wear, Leave, atWallet
<1>4. Guards'
  BY DEF CustodyInv, CustodyTyped, Ceremony, FoundInFile, Guards, CustodyKinds, Steps, Records, Runs, Restored, Wear, Leave, atWallet
<1>5. (SignsOnce /\ Books /\ Empties)'
  BY MoneyStays DEF CustodyInv, CustodyTyped, Ceremony, Runs, Records, Steps, Restored, Wear, Leave, atWallet
<1> QED BY <1>1, <1>2, <1>3, <1>4, <1>5 DEF CustodyInv

LEMMA ProvisionedKeeps == ASSUME CustodyInv, Provisioned PROVE CustodyInv'
<1> USE PolicyFacts, OffFacts
<1>1. CustodyTyped'
  BY DEF CustodyInv, CustodyTyped, Records, Runs, Worn, Steps, Provisioned, enclaveVars
<1>2. Ceremony'
  BY DEF CustodyInv, CustodyTyped, Ceremony, FoundInFile, Steps, Payments, Runs, Provisioned, enclaveVars
<1>3. FoundInFile'
  BY DEF CustodyInv, CustodyTyped, Ceremony, FoundInFile, Steps, Plain, Records, Runs, Provisioned, enclaveVars
<1>4. Guards'
  BY DEF CustodyInv, CustodyTyped, Ceremony, FoundInFile, Guards, CustodyKinds, Steps, Records, Runs, Provisioned, enclaveVars
<1>5. (SignsOnce /\ Books /\ Empties)'
  BY MoneyStays DEF CustodyInv, CustodyTyped, Ceremony, Runs, Records, Steps, Provisioned, enclaveVars
<1> QED BY <1>1, <1>2, <1>3, <1>4, <1>5 DEF CustodyInv

LEMMA SignedBeforeKeeps == ASSUME CustodyInv, SignedBefore PROVE CustodyInv'
<1>1. /\ run.pc = "sign" /\ run' = [run EXCEPT !.pc = run'.pc] /\ run'.pc \in {"wait", "send"}
      /\ UNCHANGED <<vault, asking, stray, command, runs, file, sent, booked, held, astray>>
      /\ run'.legs = run.legs /\ run'.found = run.found /\ run'.prev = run.prev
      /\ file.hash[Head(run.legs)] > 0
  BY DEF SignedBefore, To, atLeg, enclaveVars, CustodyInv, CustodyTyped, Runs, Leg
<1>2. run.legs # <<>> /\ Head(run.legs) \in Asset
  BY <1>1 DEF CustodyInv, CustodyTyped, Ceremony, Runs
<1>3. command # "sweep"
  BY <1>1, <1>2 DEF CustodyInv, CustodyTyped, Empties, Records
<1>4. CustodyTyped'
  BY <1>1 DEF CustodyInv, CustodyTyped, Runs, Steps
<1>5. Ceremony'
  BY <1>1 DEF CustodyInv, Ceremony, Steps
<1>6. FoundInFile'
  BY <1>1 DEF CustodyInv, FoundInFile, Plain
<1>7. Guards'
  BY <1>1 DEF CustodyInv, Guards, CustodyKinds
<1>8. SignsOnce'
  BY <1>1, <1>2, <1>3 DEF CustodyInv, CustodyTyped, SignsOnce, Records
<1>9. Books'
  BY <1>1 DEF CustodyInv, Books, Sides
<1>10. Empties'
  BY <1>1, <1>3 DEF Empties
<1> QED BY <1>4, <1>5, <1>6, <1>7, <1>8, <1>9, <1>10 DEF CustodyInv

LEMMA SignedKeeps == ASSUME CustodyInv, Signed PROVE CustodyInv'
<1> DEFINE a == Head(run.legs)
<1>1. /\ run.pc = "sign" /\ run' = [run EXCEPT !.pc = "send"]
      /\ UNCHANGED <<vault, asking, stray, command, runs, booked, held, astray>>
      /\ run'.pc = "send" /\ run'.legs = run.legs /\ run'.found = run.found /\ run'.prev = run.prev
      /\ file.hash[a] = 0 /\ sent' = [sent EXCEPT ![a] = Append(@, "signed")]
  BY DEF Signed, To, atLeg, enclaveVars, CustodyInv, CustodyTyped, Runs, Leg
<1>2. run.legs # <<>> /\ a \in Asset /\ sent \in [Asset -> Seq(Attempt)]
  BY <1>1 DEF CustodyInv, CustodyTyped, Ceremony, Runs
<1>3. IF command = "sweep" THEN file' = file
      ELSE file' = [file EXCEPT !.hash[a] = Len(sent[a]) + 1, !.payload = @ \cup {a}]
  BY DEF Signed, Noted, Leg, Try
<1> HIDE DEF a
<1>4. /\ sent' \in [Asset -> Seq(Attempt)]
      /\ Len(sent[a]) \in Nat /\ Len(sent'[a]) = Len(sent[a]) + 1
      /\ sent'[a][Len(sent[a]) + 1] = "signed"
      /\ DOMAIN sent[a] = 1 .. Len(sent[a]) /\ DOMAIN sent'[a] = 1 .. Len(sent[a]) + 1
      /\ \A i \in DOMAIN sent[a] : sent'[a][i] = sent[a][i]
      /\ \A b \in Asset : b # a => sent'[b] = sent[b]
  BY <1>1, <1>2, Appends DEF Attempt
<1>5. /\ file' \in Records /\ file'.prev = file.prev
      /\ \A b \in Asset : b # a => file'.hash[b] = file.hash[b]
      /\ command # "sweep" => file'.hash[a] = Len(sent[a]) + 1
      /\ command = "sweep" => file' = file
  <2>1. file \in Records
    BY DEF CustodyInv, CustodyTyped
  <2>2. CASE command = "sweep"
    BY <1>3, <2>1, <2>2
  <2>3. CASE command # "sweep"
    <3>1. file' = [file EXCEPT !.hash[a] = Len(sent[a]) + 1, !.payload = @ \cup {a}]
      BY <1>3, <2>3
    <3>2. Len(sent[a]) + 1 \in Nat
      BY <1>4
    <3> QED BY <1>2, <2>1, <2>3, <3>1, <3>2 DEF Records
  <2> QED BY <2>2, <2>3
<1>6. CustodyTyped'
  BY <1>1, <1>4, <1>5 DEF CustodyInv, CustodyTyped, Runs, Steps
<1>7. Ceremony'
  BY <1>1 DEF CustodyInv, Ceremony, Steps
<1>8. FoundInFile'
  <2>1. command = "top-up-gas" => file.prev # Unknown
    BY <1>1 DEF CustodyInv, Ceremony, FoundInFile, Steps
  <2>2. (FoundInFile /\ UNCHANGED <<command, vault, astray>>) /\ run.pc = "sign"
    BY <1>1 DEF CustodyInv
  <2> QED BY <1>1, <1>5, <2>1, <2>2 DEF FoundInFile, Plain
<1>9. Guards'
  BY <1>1, <1>5 DEF CustodyInv, Guards, CustodyKinds
<1>10. SignsOnce'
  <2> SUFFICES ASSUME command # "sweep"
               PROVE  /\ \A b \in Asset : Len(sent'[b]) <= 1 /\ file'.hash[b] = Len(sent'[b])
                      /\ file'.hash[a] = 1
    BY <1>1 DEF SignsOnce, a
  <2>1. Len(sent[a]) = 0
    BY <1>1, <1>2 DEF CustodyInv, SignsOnce
  <2>2. \A b \in Asset : Len(sent[b]) <= 1 /\ file.hash[b] = Len(sent[b])
    BY DEF CustodyInv, SignsOnce
  <2>3. /\ Len(sent'[a]) <= 1 /\ file'.hash[a] = Len(sent'[a])
        /\ file'.hash[a] = 1
    BY <1>4, <1>5, <2>1
  <2>4. \A b \in Asset : b # a => Len(sent'[b]) <= 1 /\ file'.hash[b] = Len(sent'[b])
    BY <1>4, <1>5, <2>2
  <2> QED BY <2>3, <2>4, Zenon
<1>11. Books'
  BY <1>1, <1>4 DEF CustodyInv, Books, Sides
<1>12. Empties'
  <2> SUFFICES ASSUME command = "sweep" PROVE Empties'
    BY <1>1 DEF Empties
  <2>1. /\ held \subseteq ToSet(run.legs) /\ run.legs \in Seq(Asset)
        /\ \A i \in 1 .. Len(run.legs) - 1 : run.legs[i] # "ETH"
    BY <1>1 DEF CustodyInv, CustodyTyped, Runs, Empties, Steps
  <2>2. a = "ETH" => held \subseteq {"ETH"}
    BY <1>2, <2>1, TailFacts DEF a
  <2>3. sent'[a] # <<>>
    BY <1>4
  <2>4. \A b \in Asset : \A k \in DOMAIN sent'[b] :
          (sent'[b][k] = "ok" => b \notin held) /\ (b = "ETH" => held \subseteq {"ETH"})
    <3> SUFFICES ASSUME NEW b \in Asset, NEW k \in DOMAIN sent'[b]
                 PROVE  (sent'[b][k] = "ok" => b \notin held) /\ (b = "ETH" => held \subseteq {"ETH"})
      OBVIOUS
    <3>1. CASE b # a \/ k \in DOMAIN sent[a]
      BY <1>4, <3>1 DEF CustodyInv, Empties
    <3>2. CASE b = a /\ k \notin DOMAIN sent[a]
      <4>1. k = Len(sent[a]) + 1
        BY <1>4, <3>2
      <4> QED BY <1>4, <2>2, <3>2, <4>1
    <3> QED BY <3>1, <3>2
  <2>5. (held # {} => "ETH" \in held) /\ \A b \in Asset : file.hash[b] = 0
    BY DEF CustodyInv, Empties
  <2>6. sent'[Head(run'.legs)] # <<>>
    BY <1>1, <2>3 DEF a
  <2> QED BY <1>1, <1>5, <2>1, <2>4, <2>5, <2>6 DEF Empties
<1> QED BY <1>6, <1>7, <1>8, <1>9, <1>10, <1>11, <1>12 DEF CustodyInv

\* What a leg that is sent, waited for or booked has.
LEMMA Underway ==
  ASSUME CustodyInv, run.pc \in {"send", "wait", "book"}
  PROVE  /\ run.legs # <<>> /\ Head(run.legs) \in Asset
         /\ Len(sent[Head(run.legs)]) \in DOMAIN sent[Head(run.legs)]
         /\ command # "sweep" => Len(sent[Head(run.legs)]) = 1
<1>1. run.legs # <<>> /\ Head(run.legs) \in Asset
  BY DEF CustodyInv, CustodyTyped, Ceremony, Runs
<1> DEFINE q == sent[Head(run.legs)]
<1>2. q \in Seq(Attempt)
  BY <1>1 DEF CustodyInv, CustodyTyped
<1>3. command # "sweep" => Len(q) = 1
  BY <1>1 DEF CustodyInv, SignsOnce
<1>4. command = "sweep" => q # <<>>
  BY DEF CustodyInv, Empties, Ceremony, Payments
<1> HIDE DEF q
<1>5. Len(q) \in DOMAIN q
  <2>1. Len(q) \in Nat /\ DOMAIN q = 1 .. Len(q) /\ (q # <<>> => Len(q) # 0)
    BY <1>2
  <2> QED BY <1>3, <1>4, <2>1
<1> QED BY <1>1, <1>3, <1>5 DEF q

LEMMA SentOutKeeps == ASSUME CustodyInv, SentOut PROVE CustodyInv'
<1> DEFINE a == Head(run.legs)
           k == Len(sent[a])
<1> USE OffFacts
<1>1. /\ run.pc = "send" /\ UNCHANGED <<vault, asking, stray, command, runs, file, booked, held>>
      /\ \/ sent' = sent /\ run' = [run EXCEPT !.pc = "wait"] /\ astray' = astray
         \/ /\ sent[a][k] \in {"signed", "sent"} /\ sent' = [sent EXCEPT ![a][k] = "sent"]
            /\ Throw \/ (run' = [run EXCEPT !.pc = "wait"] /\ astray' = astray)
  BY DEF SentOut, To, Leg, Try, atLeg, enclaveVars
<1>2. /\ run.legs # <<>> /\ a \in Asset /\ k \in DOMAIN sent[a]
      /\ sent \in [Asset -> Seq(Attempt)] /\ run \in Runs
  BY <1>1, Underway DEF CustodyInv, CustodyTyped
<1> HIDE DEF a, k
<1>3. /\ run' \in Runs /\ run'.pc \in {"wait", "off", "restore"}
      /\ run'.pc = "off" => run' = Off /\ astray' = (astray \/ ~Plain(vault.policies))
      /\ run'.pc # "off" => /\ run'.legs = run.legs /\ run'.found = run.found
                            /\ run'.prev = run.prev /\ astray' = astray
      /\ run'.pc = "restore" => run.prev # Unknown
  <2>1. CASE run' = [run EXCEPT !.pc = "wait"] /\ astray' = astray
    BY <1>2, <2>1 DEF Runs, Steps
  <2>2. CASE Throw /\ run.prev = Unknown
    BY <1>1, <1>2, <2>2 DEF Throw, Leave
  <2>3. CASE Throw /\ run.prev # Unknown
    BY <1>2, <2>3 DEF Throw, To, Runs
  <2> QED BY <1>1, <2>1, <2>2, <2>3
<1>4. /\ sent' \in [Asset -> Seq(Attempt)]
      /\ \A b \in Asset : Len(sent'[b]) = Len(sent[b]) /\ DOMAIN sent'[b] = DOMAIN sent[b]
      /\ \A b \in Asset : \A i \in DOMAIN sent[b] : sent'[b][i] = sent[b][i] \/
           (sent[b][i] # "ok" /\ sent'[b][i] # "ok")
  <2>1. CASE sent' = sent
    BY <1>2, <2>1
  <2>2. CASE sent[a][k] \in {"signed", "sent"} /\ sent' = [sent EXCEPT ![a][k] = "sent"]
    <3>1. /\ sent' \in [Asset -> Seq(Attempt)]
          /\ \A b \in Asset : Len(sent'[b]) = Len(sent[b]) /\ DOMAIN sent'[b] = DOMAIN sent[b]
          /\ \A b \in Asset : \A i \in DOMAIN sent[b] :
               sent'[b][i] = IF b = a /\ i = k THEN "sent" ELSE sent[b][i]
      BY <1>2, <2>2, Rewrites DEF Attempt
    <3> QED BY <2>2, <3>1
  <2> QED BY <1>1, <2>1, <2>2
<1>5. CustodyTyped'
  BY <1>1, <1>3, <1>4 DEF CustodyInv, CustodyTyped, Leave
<1>6. Ceremony'
  BY <1>1, <1>3 DEF CustodyInv, Ceremony, Steps, FoundInFile
<1>7. FoundInFile'
  <2>1. CASE run'.pc = "off"
    BY <1>1, <1>3, <2>1 DEF CustodyInv, FoundInFile, Plain
  <2>2. CASE run'.pc # "off"
    BY <1>1, <1>3, <2>2 DEF CustodyInv, FoundInFile, Plain
  <2> QED BY <2>1, <2>2
<1>8. Guards'
  BY <1>1, <1>3, PolicyFacts DEF CustodyInv, Guards, CustodyKinds, FoundInFile
<1>9. SignsOnce'
  BY <1>1, <1>3, <1>4 DEF CustodyInv, SignsOnce
<1>10. Books'
  <2>1. \A b \in Asset : 1 \in DOMAIN sent[b] /\ sent[b][1] = "ok" =>
          1 \in DOMAIN sent'[b] /\ sent'[b][1] = "ok"
    BY <1>4
  <2> QED BY <1>1, <1>3, <2>1 DEF CustodyInv, Books, Sides
<1>11. Empties'
  <2> SUFFICES ASSUME command = "sweep" PROVE Empties'
    BY <1>1 DEF Empties
  <2>1. \A b \in Asset : \A i \in DOMAIN sent'[b] : sent'[b][i] = "ok" => sent[b][i] = "ok"
    BY <1>4
  <2>2. run'.pc = "wait" => sent'[a] # <<>>
    <3>1. Len(sent'[a]) = k /\ k # 0
      BY <1>2, <1>4 DEF k
    <3> QED BY <3>1
  <2>3. run'.pc = "wait" => sent'[Head(run'.legs)] # <<>>
    BY <1>3, <2>2 DEF a
  <2>4. \A i \in 1 .. Len(<<>>) - 1 : <<>>[i] # "ETH"
    OBVIOUS
  <2>5. \A i \in 1 .. Len(run'.legs) - 1 : run'.legs[i] # "ETH"
    BY <1>3, <2>4 DEF CustodyInv, Empties
  <2>6. \A b \in Asset : \A i \in DOMAIN sent'[b] :
          (sent'[b][i] = "ok" => b \notin held) /\ (b = "ETH" => held \subseteq {"ETH"})
    BY <1>4, <2>1 DEF CustodyInv, Empties
  <2> QED BY <1>1, <1>3, <2>3, <2>5, <2>6 DEF CustodyInv, Empties, Steps
<1> QED BY <1>5, <1>6, <1>7, <1>8, <1>9, <1>10, <1>11 DEF CustodyInv

\* The next leg, or the end of them.
LEMMA OnwardFacts ==
  ASSUME CustodyInv, run.pc \in {"wait", "book"}, Onward(Tail(run.legs)),
         UNCHANGED <<vault, asking, command>>, file'.prev = file.prev, file'.hash = file.hash
  PROVE  /\ run' \in Runs /\ run'.pc \in {"restore", "sign"} /\ run'.legs = Tail(run.legs)
         /\ astray' = astray /\ (Ceremony /\ FoundInFile /\ Guards)'
<1>1. run.legs # <<>> /\ run \in Runs /\ Tail(run.legs) \in Seq(Asset)
  <2>1. run \in Runs /\ run.legs # <<>>
    BY Underway DEF CustodyInv, CustodyTyped
  <2>2. run.legs \in Seq(Asset)
    BY <2>1 DEF Runs
  <2> QED BY <2>1, <2>2
<1>2. /\ run' \in Runs /\ run'.pc \in {"restore", "sign"} /\ run'.legs = Tail(run.legs)
      /\ run'.found = run.found /\ run'.prev = run.found /\ astray' = astray
      /\ run'.pc = "sign" => run'.legs # <<>>
  BY <1>1 DEF Onward, Runs, Steps
<1>3. run.found # Unknown /\ command \notin {"isolate", "provision"}
  BY DEF CustodyInv, Ceremony, Steps
<1>4. Ceremony'
  BY <1>2, <1>3 DEF Ceremony, Steps
<1>5. FoundInFile'
  BY <1>2, <1>3 DEF CustodyInv, FoundInFile, Plain
<1>6. Guards'
  BY <1>2, <1>3 DEF CustodyInv, Guards, CustodyKinds
<1> QED BY <1>2, <1>4, <1>5, <1>6

LEMMA WaitedKeeps == ASSUME CustodyInv, Waited PROVE CustodyInv'
<1> DEFINE a == Head(run.legs)
           k == Len(sent[a])
<1>1. /\ run.pc = "wait" /\ sent[a][k] = "ok"
      /\ UNCHANGED <<vault, asking, stray, command, runs, sent, booked, held>>
      /\ IF command = "sweep" THEN Onward(Tail(run.legs))
         ELSE run' = [run EXCEPT !.pc = "book"] /\ astray' = astray
      /\ file' = file \/ file' = [file EXCEPT !.payload = @ \ {a}]
  BY DEF Waited, To, Leg, Try, atLeg, enclaveVars
<1>2. /\ run.legs # <<>> /\ a \in Asset /\ k \in DOMAIN sent[a] /\ run \in Runs /\ file \in Records
  BY <1>1, Underway DEF CustodyInv, CustodyTyped
<1> HIDE DEF a, k
<1>3. file' \in Records /\ file'.prev = file.prev /\ file'.hash = file.hash
  BY <1>1, <1>2 DEF Records
<1>4. CASE command # "sweep"
  <2>1. /\ run' \in Runs /\ run'.pc = "book" /\ run'.legs = run.legs
        /\ run'.found = run.found /\ run'.prev = run.prev /\ astray' = astray
    BY <1>1, <1>2, <1>4 DEF Runs, Steps
  <2>2. CustodyTyped'
    BY <1>1, <1>3, <2>1 DEF CustodyInv, CustodyTyped
  <2>3. Ceremony'
    BY <1>1, <1>2, <1>4, <2>1 DEF CustodyInv, CustodyTyped, Ceremony, Steps, Command
  <2>4. FoundInFile'
    BY <1>1, <1>3, <2>1 DEF CustodyInv, FoundInFile, Plain
  <2>5. Guards'
    BY <1>1, <1>3, <2>1 DEF CustodyInv, Guards, CustodyKinds
  <2>6. SignsOnce'
    BY <1>1, <1>3, <2>1 DEF CustodyInv, SignsOnce
  <2>7. Books'
    BY <1>1, <2>1 DEF CustodyInv, Books, Sides, a, k
  <2>8. Empties'
    BY <1>1, <1>4 DEF Empties
  <2> QED BY <2>2, <2>3, <2>4, <2>5, <2>6, <2>7, <2>8 DEF CustodyInv
<1>5. CASE command = "sweep"
  <2>1. /\ run' \in Runs /\ run'.pc \in {"restore", "sign"} /\ run'.legs = Tail(run.legs)
        /\ astray' = astray /\ (Ceremony /\ FoundInFile /\ Guards)'
    BY <1>1, <1>3, <1>5, OnwardFacts
  <2>2. CustodyTyped'
    BY <1>1, <1>3, <2>1 DEF CustodyInv, CustodyTyped
  <2>3. SignsOnce'
    BY <1>1, <1>5 DEF SignsOnce
  <2>4. Books'
    BY <1>1, <2>1 DEF CustodyInv, Books, Sides
  <2>5. a \notin held
    BY <1>1, <1>2, <1>5 DEF CustodyInv, Empties
  <2>6. /\ ToSet(run.legs) = {a} \cup ToSet(Tail(run.legs))
        /\ \A i \in 1 .. Len(Tail(run.legs)) - 1 : Tail(run.legs)[i] # "ETH"
    <3>1. run.legs \in Seq(Asset) /\ \A i \in 1 .. Len(run.legs) - 1 : run.legs[i] # "ETH"
      BY <1>2, <1>5 DEF CustodyInv, Empties, Runs
    <3> QED BY <1>2, <3>1, TailFacts DEF a
  <2>7. held \subseteq ToSet(Tail(run.legs))
    BY <1>1, <1>5, <2>5, <2>6 DEF CustodyInv, Empties, Steps
  <2>8. Empties'
    BY <1>1, <1>3, <1>5, <2>1, <2>6, <2>7 DEF CustodyInv, Empties
  <2> QED BY <2>1, <2>2, <2>3, <2>4, <2>8 DEF CustodyInv
<1> QED BY <1>4, <1>5

LEMMA BookedKeeps == ASSUME CustodyInv, Booked PROVE CustodyInv'
<1> DEFINE a == Head(run.legs)
           k == Len(sent[a])
<1>1. /\ run.pc = "book" /\ booked' = booked \cup Sides(a, k)
      /\ UNCHANGED <<vault, asking, stray, command, runs, sent, held>>
      /\ Onward(Tail(run.legs))
      /\ file' = file \/ file' = [file EXCEPT !.payload = @ \ {a}]
  BY DEF Booked, Recorded, Leg, Try, atLeg, enclaveVars
<1>2. /\ run.legs # <<>> /\ a \in Asset /\ k \in DOMAIN sent[a] /\ run \in Runs /\ file \in Records
      /\ command # "sweep" /\ k = 1
  BY <1>1, Underway DEF CustodyInv, CustodyTyped, Ceremony, Payments
<1>3. sent[a][1] = "ok"
  BY <1>1, <1>2 DEF CustodyInv, Books
<1> HIDE DEF a, k
<1>4. file' \in Records /\ file'.prev = file.prev /\ file'.hash = file.hash
  BY <1>1, <1>2 DEF Records
<1>5. /\ run' \in Runs /\ run'.pc \in {"restore", "sign"} /\ run'.legs = Tail(run.legs)
      /\ astray' = astray /\ (Ceremony /\ FoundInFile /\ Guards)'
  BY <1>1, <1>4, OnwardFacts
<1>6. CustodyTyped'
  BY <1>1, <1>4, <1>5 DEF CustodyInv, CustodyTyped
<1>7. SignsOnce'
  BY <1>1, <1>4, <1>5 DEF CustodyInv, SignsOnce
<1>8. Books'
  <2>1. booked' = booked \cup Sides(a, 1)
    BY <1>1, <1>2
  <2>2. booked' \subseteq {"manager", "trader"} \X Asset \X {1}
    BY <1>2, <2>1 DEF CustodyInv, Books, Sides
  <2>3. ASSUME NEW b \in Asset, Sides(b, 1) \cap booked' # {}
        PROVE  1 \in DOMAIN sent[b] /\ sent[b][1] = "ok" /\ Sides(b, 1) \subseteq booked'
    <3>1. CASE b = a
      BY <1>2, <1>3, <2>1, <3>1
    <3>2. CASE b # a
      <4>1. Sides(b, 1) \cap Sides(a, 1) = {}
        BY <3>2 DEF Sides
      <4>2. Sides(b, 1) \cap booked # {}
        BY <2>1, <2>3, <4>1
      <4> QED BY <2>1, <4>2 DEF CustodyInv, Books
    <3> QED BY <3>1, <3>2
  <2>4. \A b \in Asset : Sides(b, 1) \cap booked' # {} =>
          1 \in DOMAIN sent'[b] /\ sent'[b][1] = "ok" /\ Sides(b, 1) \subseteq booked'
    BY <1>1, <2>3
  <2>5. \A b : Sides(b, 1)' = Sides(b, 1)
    BY DEF Sides
  <2> QED BY <1>5, <2>2, <2>4, <2>5 DEF Books
<1>9. Empties'
  BY <1>1, <1>2 DEF Empties
<1> QED BY <1>5, <1>6, <1>7, <1>8, <1>9 DEF CustodyInv

LEMMA MinedKeeps ==
  ASSUME CustodyInv, NEW a \in Asset, NEW k \in 1 .. MaxRun, Mined(a, k)
  PROVE  CustodyInv'
<1>1. /\ UNCHANGED <<vault, asking, stray, command, run, runs, file, booked, astray>>
      /\ k \in DOMAIN sent[a] /\ sent[a][k] = "sent"
      /\ \/ sent' = [sent EXCEPT ![a][k] = "reverted"] /\ held' = held
         \/ /\ command = "sweep" => {a, "ETH"} \subseteq held
            /\ sent' = [sent EXCEPT ![a][k] = "ok"]
            /\ held' = IF command = "sweep" THEN held \ {a} ELSE held
  BY DEF Mined, enclaveVars
<1>2. sent \in [Asset -> Seq(Attempt)] /\ held \subseteq Asset
  BY DEF CustodyInv, CustodyTyped
<1>3. PICK v \in {"ok", "reverted"} :
        /\ sent' = [sent EXCEPT ![a][k] = v]
        /\ v = "ok" /\ command = "sweep" => {a, "ETH"} \subseteq held
        /\ held' = IF v = "ok" /\ command = "sweep" THEN held \ {a} ELSE held
  BY <1>1
<1>4. /\ sent' \in [Asset -> Seq(Attempt)]
      /\ \A b \in Asset : Len(sent'[b]) = Len(sent[b]) /\ DOMAIN sent'[b] = DOMAIN sent[b]
      /\ \A b \in Asset : \A i \in DOMAIN sent[b] :
           sent'[b][i] = IF b = a /\ i = k THEN v ELSE sent[b][i]
  BY <1>1, <1>2, <1>3, Rewrites DEF Attempt
<1>5. CustodyTyped'
  BY <1>1, <1>3, <1>4 DEF CustodyInv, CustodyTyped
<1>6. Ceremony'
  BY <1>1 DEF CustodyInv, Ceremony
<1>7. FoundInFile'
  BY <1>1 DEF CustodyInv, FoundInFile, Plain
<1>8. Guards'
  BY <1>1 DEF CustodyInv, Guards, CustodyKinds
<1>9. SignsOnce'
  BY <1>1, <1>4 DEF CustodyInv, SignsOnce
<1>10. \A b \in Asset : \A i \in DOMAIN sent[b] : sent[b][i] = "ok" => sent'[b][i] = "ok"
  BY <1>1, <1>4
<1>11. Books'
  <2>1. \A b \in Asset : 1 \in DOMAIN sent[b] /\ sent[b][1] = "ok" =>
          1 \in DOMAIN sent'[b] /\ sent'[b][1] = "ok"
    BY <1>4, <1>10
  <2>2. run.pc = "book" => sent'[Head(run.legs)][Len(sent'[Head(run.legs)])] = "ok"
    BY <1>4, <1>10, Underway DEF CustodyInv, Books
  <2> QED BY <1>1, <2>1, <2>2 DEF CustodyInv, Books, Sides
<1>12. Empties'
  <2> SUFFICES ASSUME command = "sweep" PROVE Empties'
    BY <1>1 DEF Empties
  <2>1. held' \subseteq held
    BY <1>3
  <2>2. held' # {} => "ETH" \in held'
    <3>1. CASE v = "ok"
      <4>1. held' = held \ {a} /\ "ETH" \in held
        BY <1>3, <3>1
      <4>2. a = "ETH" => held \subseteq {"ETH"}
        BY <1>1 DEF CustodyInv, Empties
      <4> QED BY <4>1, <4>2
    <3>2. CASE v # "ok"
      BY <1>3, <3>2 DEF CustodyInv, Empties
    <3> QED BY <3>1, <3>2
  <2>3. \A b \in Asset : \A i \in DOMAIN sent'[b] :
          (sent'[b][i] = "ok" => b \notin held') /\ (b = "ETH" => held' \subseteq {"ETH"})
    BY <1>3, <1>4, <2>1 DEF CustodyInv, Empties
  <2>4. run.pc \in {"send", "wait"} => sent'[Head(run.legs)] # <<>>
    <3> SUFFICES ASSUME run.pc \in {"send", "wait"} PROVE sent'[Head(run.legs)] # <<>>
      OBVIOUS
    <3>1. Len(sent'[Head(run.legs)]) \in DOMAIN sent'[Head(run.legs)]
      BY <1>4, Underway
    <3> QED BY <3>1
  <2> QED BY <1>1, <2>1, <2>2, <2>3, <2>4 DEF CustodyInv, Empties
<1> QED BY <1>5, <1>6, <1>7, <1>8, <1>9, <1>11, <1>12 DEF CustodyInv

LEMMA ServerKeeps ==
  ASSUME CustodyInv, ServerAsks \/ ServerSigns,
         UNCHANGED <<command, run, runs, file, made, sent, booked, accounts, held, astray>>
  PROVE  CustodyInv'
<1>1. vault' = vault /\ asking' \in BOOLEAN /\ (asking' => asking \/ Guarded)
  BY DEF ServerAsks, ServerSigns
<1>2. stray' = FALSE
  <2>1. CASE ServerAsks
    BY <2>1 DEF ServerAsks, CustodyInv, CustodyTyped
  <2>2. CASE ServerSigns
    <3> SUFFICES ASSUME NEW r \in Asked, SignerTakes(r), ServerMaySign(r)
                 PROVE  Standing \in InForce
      BY <2>2 DEF ServerSigns, CustodyInv, CustodyTyped
    <3>1. asking
      BY <2>2 DEF ServerSigns
    <3>2. CASE vault.signer # "owner"
      BY <3>1, <3>2 DEF CustodyInv, Guards, InForce
    <3>3. CASE vault.signer = "owner"
      <4>1. vault.policies # {}
        BY <3>1, <3>3, PolicyFacts DEF CustodyInv, Guards, CustodyKinds
      <4>2. PICK p \in vault.policies : Allows(p, r)
        BY <3>3, <4>1 DEF ServerMaySign, MaySign
      <4>3. p \in Confined
        BY DEF CustodyInv, CustodyTyped
      <4> QED BY <3>3, <4>2, <4>3, ServerIsConfined DEF InForce
    <3> QED BY <3>2, <3>3
  <2> QED BY <2>1, <2>2
<1>3. CustodyTyped'
  BY <1>1, <1>2 DEF CustodyInv, CustodyTyped
<1>4. Ceremony'
  BY DEF CustodyInv, Ceremony
<1>5. FoundInFile'
  BY <1>1 DEF CustodyInv, FoundInFile, Plain
<1>6. Guards'
  <2>1. Guarded /\ vault.signer = "owner" => vault.policies = {Standing} /\ {Standing} # {}
    BY DEF Guarded, InForce
  <2>2. Guarded /\ vault.signer = "owner" => {} \notin CustodyKinds
    <3>1. command = "provision" => {} \notin {run.found, run.prev, file.prev}
      BY PolicyFacts DEF CustodyInv, FoundInFile
    <3>2. command # "provision" /\ Guarded /\ vault.signer = "owner" => {} \notin CustodyKinds
      BY <2>1 DEF CustodyInv, Guards, CustodyKinds
    <3> QED BY <2>1, <3>1, <3>2 DEF CustodyKinds
  <2>3. Guarded /\ vault.signer # "owner" => vault.override = {Standing}
    BY DEF Guarded, InForce
  <2> QED BY <1>1, <2>1, <2>2, <2>3 DEF CustodyInv, Guards, CustodyKinds
<1>7. SignsOnce'
  BY DEF CustodyInv, SignsOnce
<1>8. Books'
  BY DEF CustodyInv, Books, Sides
<1>9. Empties'
  BY DEF CustodyInv, Empties
<1> QED BY <1>3, <1>4, <1>5, <1>6, <1>7, <1>8, <1>9 DEF CustodyInv

LEMMA CustodyNextKeeps == CustodyInv /\ [CustodyNext]_custodyVars => CustodyInv'
<1> SUFFICES ASSUME CustodyInv, [CustodyNext]_custodyVars PROVE CustodyInv'
  OBVIOUS
<1>1. CASE UNCHANGED custodyVars
  BY <1>1 DEF custodyVars, enclaveVars, CustodyInv, CustodyTyped, Ceremony, FoundInFile, Plain,
     Guards, CustodyKinds, SignsOnce, Books, Sides, Empties
<1>2. CASE Begin \/ Fails \/ Killed \/ RestoredAgain \/ ProvisionRead \/ WalletRead
  BY <1>2, CeremonyBeginKeeps, CeremonyFailsKeeps, KilledKeeps, RestoredAgainKeeps, ProvisionReadKeeps,
     WalletReadKeeps
<1>3. CASE ProvisionAttached \/ Attached \/ Checked \/ Rotated \/ Restored
  BY <1>3, ProvisionAttachedKeeps, AttachedKeeps, CheckedKeeps, RotatedKeeps, RestoredKeeps
<1>4. CASE SignedBefore \/ Signed \/ SentOut \/ Waited \/ Booked \/ Provisioned
  BY <1>4, SignedBeforeKeeps, SignedKeeps, SentOutKeeps, WaitedKeeps, BookedKeeps,
     ProvisionedKeeps
<1>5. CASE (ServerAsks \/ ServerSigns) /\ UNCHANGED
             <<command, run, runs, file, made, sent, booked, accounts, held, astray>>
  BY <1>5, ServerKeeps
<1>6. CASE \E a \in Asset, k \in 1 .. MaxRun : Mined(a, k)
  BY <1>6, MinedKeeps
<1> QED BY <1>1, <1>2, <1>3, <1>4, <1>5, <1>6 DEF CustodyNext

LEMMA CustodyInitHolds == CustodyInit => CustodyInv
<1> SUFFICES ASSUME CustodyInit PROVE CustodyInv
  OBVIOUS
<1> USE PolicyFacts, OffFacts
<1>1. /\ vault \in [owner : {"none", "fits", "other"}, policies : {{}, {Standing}},
                   signer : {"owner", "attached", "missing"}, override : {{}, {Standing}}]
      /\ asking = FALSE /\ stray = FALSE /\ command \in Command /\ run = Off /\ runs = 0
      /\ file = NoFile /\ sent = [a \in Asset |-> <<>>] /\ booked = {} /\ astray = FALSE
      /\ held \in {Asset, {"USDG", "ETH"}}
  BY DEF CustodyInit, EnclaveInit
<1>2. file.hash = [a \in Asset |-> 0] /\ file.payload = {} /\ file.prev = Unknown /\ file \in Records
  BY <1>1 DEF NoFile, Records, Worn
<1>3. CustodyTyped
  <2>1. <<>> \in Seq(Attempt)
    OBVIOUS
  <2> QED BY <1>1, <1>2, <2>1 DEF CustodyTyped, Asset
<1>4. Ceremony
  BY <1>1 DEF Ceremony, Steps
<1>5. FoundInFile
  BY <1>1, <1>2 DEF FoundInFile, Plain, Asset
<1>6. Guards
  BY <1>1, <1>2 DEF Guards, CustodyKinds
<1>7. SignsOnce
  BY <1>1, <1>2 DEF SignsOnce
<1>8. Books
  BY <1>1 DEF Books
<1>9. Empties
  BY <1>1, <1>2 DEF Empties, Asset, Steps
<1> QED BY <1>3, <1>4, <1>5, <1>6, <1>7, <1>8, <1>9 DEF CustodyInv

\* However often a ceremony is killed, fails or loses an answer and is run again:
\* a payment is signed once and booked as it was paid, a command puts back what
\* the wallet wore before, and nothing is in reach of a stranger.
THEOREM CustodyTheorem == CustodySpec => []CustodySound
<1>1. CustodyInv => CustodySound
  <2> SUFFICES ASSUME CustodyInv PROVE CustodySound
    OBVIOUS
  <2>1. PaysOnce
    <3> SUFFICES ASSUME command # "sweep", NEW a \in Asset
                 PROVE  /\ Cardinality({k \in DOMAIN sent[a] : sent[a][k] = "ok"}) <= 1
                        /\ \A k \in 1 .. MaxRun : Sides(a, k) \cap booked # {} =>
                             sent[a][k] = "ok" /\ Sides(a, k) \subseteq booked
      BY DEF PaysOnce
    <3>1. sent[a] \in Seq(Attempt) /\ Len(sent[a]) <= 1
      BY DEF CustodyInv, CustodyTyped, SignsOnce
    <3>2. DOMAIN sent[a] \subseteq {1}
      BY <3>1
    <3>3. {k \in DOMAIN sent[a] : sent[a][k] = "ok"} \in {{}, {1}}
      BY <3>2
    <3>4. Cardinality({}) = 0 /\ Cardinality({1}) = 1
      BY FS_EmptySet, FS_Singleton
    <3>5. Cardinality({k \in DOMAIN sent[a] : sent[a][k] = "ok"}) <= 1
      BY <3>3, <3>4
    <3>6. \A k \in 1 .. MaxRun : Sides(a, k) \cap booked # {} => k = 1
      BY DEF CustodyInv, Books, Sides
    <3> QED BY <3>5, <3>6 DEF CustodyInv, Books
  <2>2. PutsBack
    BY DEF PutsBack, CustodyInv, FoundInFile, Ceremony, CustodyTyped, Runs, Steps
  <2>3. NothingStrays
    BY DEF NothingStrays, CustodyInv, CustodyTyped, Empties
  <2> QED BY <2>1, <2>2, <2>3 DEF CustodySound
<1> QED BY <1>1, CustodyInitHolds, CustodyNextKeeps, PTL DEF CustodySpec
-----------------------------------------------------------------------------
(* Seasons: a season pays an owner once.                                   *)

SeasonTyped ==
  /\ season \in [SeasonIds -> {"none", "active", "over", "closed"}]
  /\ DOMAIN standing = SeasonIds
  /\ tradeXp \in [Quant -> Nat] /\ up \in BOOLEAN

\* The seasons before n are closed, those after it have not begun; the last one
\* never ends.
Until(n) ==
  /\ \A s \in SeasonIds : s < n => season[s] = "closed"
  /\ \A s \in SeasonIds : s > n => season[s] = "none"
  /\ season[n] \in {"active", "over", "closed"}
  /\ n = MaxSeason => season[n] = "active"
  /\ up => season[n] # "closed"
InTurn == \E n \in SeasonIds : Until(n)

\* The owner's best place in a table.
BestOf(o, table, i) ==
  /\ i \in DOMAIN table /\ OwnerOf[table[i]] = o
  /\ \A j \in 1 .. i - 1 : OwnerOf[table[j]] # o

\* What was paid was for the best place in a season that is closed.
PaidForBest(f) ==
  /\ f[2] \in SeasonIds /\ season[f[2]] = "closed"
  /\ DOMAIN standing[f[2]] = 1 .. Cardinality(Bot)
  /\ \E i \in DOMAIN standing[f[2]] : BestOf(f[1], standing[f[2]], i) /\ f[3] = Prize(i)
PaidOnceEach == \A f \in finish : PaidForBest(f)

Capped == \A o \in Quant : tradeXp[o] < TradeCap + TradeXp

SeasonInv == SeasonTyped /\ InTurn /\ PaidOnceEach /\ Capped

LEMMA SeasonConstants ==
  /\ Cardinality(Bot) \in Nat /\ MaxSeason \in Nat /\ MaxSeason >= 1
  /\ TradeCap \in Nat /\ TradeXp \in Nat /\ TradeXp >= 1 /\ TopN \in Nat
  BY SeasonAssumption, FS_CardinalityType

\* The next season begins when the one before is over, once.
LEMMA NextBegins ==
  ASSUME NEW table \in [SeasonIds -> {"none", "active", "over", "closed"}],
         NEW n \in SeasonIds,
         \A s \in SeasonIds : s < n => table[s] = "closed",
         \A s \in SeasonIds : s > n => table[s] = "none",
         table[n] \in {"active", "over", "closed"},
         n = MaxSeason => table[n] = "active"
  PROVE  /\ EnsureActive(table) \in [SeasonIds -> {"none", "active", "over", "closed"}]
         /\ \A s \in SeasonIds : table[s] = "closed" => EnsureActive(table)[s] = "closed"
         /\ \E m \in SeasonIds :
              /\ \A s \in SeasonIds : s < m => EnsureActive(table)[s] = "closed"
              /\ \A s \in SeasonIds : s > m => EnsureActive(table)[s] = "none"
              /\ EnsureActive(table)[m] \in {"active", "over"}
              /\ m = MaxSeason => EnsureActive(table)[m] = "active"
<1>1. CASE table[n] # "closed"
  <2>1. \E s \in SeasonIds : table[s] \in {"active", "over"}
    BY <1>1
  <2>2. EnsureActive(table) = table
    BY <2>1 DEF EnsureActive
  <2> QED BY <1>1, <2>2
<1>2. CASE table[n] = "closed"
  <2>1. n < MaxSeason /\ n + 1 \in SeasonIds /\ n \in Nat
    BY <1>2, SeasonConstants DEF SeasonIds
  <2>2. \A s \in SeasonIds : s \in Nat /\ (s < n \/ s = n \/ s = n + 1 \/ s > n + 1)
    BY <2>1 DEF SeasonIds
  <2>3. \A s \in SeasonIds : table[s] \in {"closed", "none"}
    <3> SUFFICES ASSUME NEW s \in SeasonIds PROVE table[s] \in {"closed", "none"}
      OBVIOUS
    <3>1. s < n => table[s] = "closed"
      OBVIOUS
    <3>2. s > n => table[s] = "none"
      OBVIOUS
    <3>3. s < n \/ s = n \/ s > n
      BY <2>1 DEF SeasonIds
    <3> QED BY <1>2, <3>1, <3>2, <3>3
  <2> DEFINE first(s) == table[s] = "none" /\ \A r \in 1 .. s - 1 : table[r] # "none"
  <2>4. EnsureActive(table) = [s \in SeasonIds |-> IF first(s) THEN "active" ELSE table[s]]
    BY <2>3 DEF EnsureActive
  <2>5. \A s \in SeasonIds : first(s) <=> s = n + 1
    <3>1. first(n + 1)
      <4>1. \A r \in 1 .. n : r \in SeasonIds /\ table[r] # "none"
        <5> SUFFICES ASSUME NEW r \in 1 .. n PROVE r \in SeasonIds /\ table[r] # "none"
          OBVIOUS
        <5>1. r \in SeasonIds
          BY <2>1, SeasonConstants DEF SeasonIds
        <5>2. r < n \/ r = n
          BY <2>1
        <5> QED BY <1>2, <5>1, <5>2
      <4>2. table[n + 1] = "none"
        BY <2>1
      <4> QED BY <2>1, <4>1, <4>2
    <3>2. ASSUME NEW s \in SeasonIds, first(s) PROVE s = n + 1
      <4>1. CASE s > n + 1
        BY <2>1, <2>2, <3>2, <4>1
      <4>2. CASE s < n \/ s = n
        BY <1>2, <3>2, <4>2
      <4> QED BY <2>2, <4>1, <4>2
    <3> QED BY <2>1, <3>1, <3>2
  <2> HIDE DEF first
  <2>6. \A s \in SeasonIds : EnsureActive(table)[s] = IF s = n + 1 THEN "active" ELSE table[s]
    BY <2>4, <2>5
  <2>7. EnsureActive(table) \in [SeasonIds -> {"none", "active", "over", "closed"}]
    BY <2>4
  <2>8. /\ \A s \in SeasonIds : s < n + 1 => EnsureActive(table)[s] = "closed"
        /\ \A s \in SeasonIds : s > n + 1 => EnsureActive(table)[s] = "none"
        /\ EnsureActive(table)[n + 1] = "active"
    BY <1>2, <2>1, <2>2, <2>6
  <2>9. \A s \in SeasonIds : table[s] = "closed" => EnsureActive(table)[s] = "closed"
    BY <2>1, <2>6
  <2> QED BY <2>1, <2>7, <2>8, <2>9
<1> QED BY <1>1, <1>2

\* What was paid stays so while its season stays closed and its table as it is.
LEMMA PaidStays ==
  ASSUME NEW f, PaidForBest(f), season'[f[2]] = "closed", standing'[f[2]] = standing[f[2]]
  PROVE  PaidForBest(f)'
BY DEF PaidForBest, BestOf

LEMMA CloseKeeps ==
  ASSUME SeasonInv, NEW s \in SeasonIds, CloseSeason(s) PROVE SeasonInv'
<1>1. PICK table \in Standings, k \in 0 .. Rewarded :
        /\ standing' = [standing EXCEPT ![s] = table]
        /\ finish' = finish \cup {<<p[1], s, p[2]>> : p \in Places(table, k)}
        /\ \/ season' = [season EXCEPT ![s] = "closed"] /\ up' = FALSE
           \/ season' = EnsureActive([season EXCEPT ![s] = "closed"]) /\ UNCHANGED up
  BY DEF CloseSeason
<1>2. up /\ season[s] = "over" /\ UNCHANGED tradeXp
  BY DEF CloseSeason
<1>3. PICK n \in SeasonIds : Until(n)
  BY DEF SeasonInv, InTurn
<1>4. s = n /\ n # MaxSeason
  BY <1>2, <1>3 DEF Until, SeasonIds
<1> DEFINE closed == [season EXCEPT ![s] = "closed"]
<1>5. /\ closed \in [SeasonIds -> {"none", "active", "over", "closed"}]
      /\ \A r \in SeasonIds : r < n => closed[r] = "closed"
      /\ \A r \in SeasonIds : r > n => closed[r] = "none"
      /\ closed[n] = "closed"
      /\ \A r \in SeasonIds : season[r] = "closed" => closed[r] = "closed"
  BY <1>3, <1>4 DEF SeasonInv, SeasonTyped, Until, SeasonIds
<1>6. \/ season' = closed /\ up' = FALSE
      \/ season' = EnsureActive(closed) /\ up' = up
  BY <1>1 DEF closed
<1> HIDE DEF closed
<1>7. /\ EnsureActive(closed) \in [SeasonIds -> {"none", "active", "over", "closed"}]
      /\ \A r \in SeasonIds : closed[r] = "closed" => EnsureActive(closed)[r] = "closed"
      /\ \E m \in SeasonIds :
           /\ \A r \in SeasonIds : r < m => EnsureActive(closed)[r] = "closed"
           /\ \A r \in SeasonIds : r > m => EnsureActive(closed)[r] = "none"
           /\ EnsureActive(closed)[m] \in {"active", "over"}
           /\ m = MaxSeason => EnsureActive(closed)[m] = "active"
  BY <1>4, <1>5, NextBegins
<1>8. season' \in [SeasonIds -> {"none", "active", "over", "closed"}]
      /\ \A r \in SeasonIds : season[r] = "closed" \/ r = s => season'[r] = "closed"
  BY <1>4, <1>5, <1>6, <1>7
<1>9. SeasonTyped'
  BY <1>1, <1>2, <1>6, <1>8 DEF SeasonInv, SeasonTyped
<1>10. InTurn'
  <2>1. CASE season' = closed /\ up' = FALSE
    <3>1. Until(n)'
      BY <1>4, <1>5, <2>1 DEF Until
    <3> QED BY <3>1 DEF InTurn
  <2>2. CASE season' = EnsureActive(closed)
    <3>1. PICK m \in SeasonIds :
           /\ \A r \in SeasonIds : r < m => season'[r] = "closed"
           /\ \A r \in SeasonIds : r > m => season'[r] = "none"
           /\ season'[m] \in {"active", "over"}
           /\ m = MaxSeason => season'[m] = "active"
      BY <1>7, <2>2
    <3>2. Until(m)'
      BY <3>1 DEF Until
    <3> QED BY <3>2 DEF InTurn
  <2> QED BY <1>6, <2>1, <2>2
<1>11. PaidOnceEach'
  <2> SUFFICES ASSUME NEW f \in finish' PROVE PaidForBest(f)'
    BY DEF PaidOnceEach
  <2>1. CASE f \in finish
    <3>1. PaidForBest(f) /\ f[2] \in SeasonIds /\ season[f[2]] = "closed"
      BY <2>1 DEF SeasonInv, PaidOnceEach, PaidForBest
    <3>2. f[2] # s
      BY <1>2, <3>1
    <3>3. standing'[f[2]] = standing[f[2]]
      BY <1>1, <3>1, <3>2 DEF SeasonInv, SeasonTyped
    <3> QED BY <1>8, <3>1, <3>3, PaidStays
  <2>2. CASE f \notin finish
    <3>1. PICK p \in Places(table, k) : f = <<p[1], s, p[2]>>
      BY <1>1, <2>2
    <3>2. PICK i \in 1 .. k :
            /\ p = <<OwnerOf[table[i]], Prize(i)>>
            /\ \A l \in 1 .. i - 1 : OwnerOf[table[l]] # OwnerOf[table[i]]
      BY DEF Places
    <3>3. f[1] = OwnerOf[table[i]] /\ f[2] = s /\ f[3] = Prize(i)
      BY <3>1, <3>2
    <3>4. DOMAIN table = 1 .. Cardinality(Bot) /\ i \in DOMAIN table
      BY SeasonConstants DEF Standings, Rewarded
    <3>5. standing'[s] = table /\ season'[s] = "closed"
      BY <1>1, <1>8 DEF SeasonInv, SeasonTyped
    <3>6. BestOf(f[1], table, i)
      BY <3>2, <3>3, <3>4 DEF BestOf
    <3> QED BY <3>3, <3>4, <3>5, <3>6 DEF PaidForBest, BestOf
  <2> QED BY <2>1, <2>2
<1>12. Capped'
  BY <1>2 DEF SeasonInv, Capped
<1> QED BY <1>9, <1>10, <1>11, <1>12 DEF SeasonInv

LEMMA EndsKeeps ==
  ASSUME SeasonInv, NEW s \in SeasonIds, SeasonEnds(s) PROVE SeasonInv'
<1>1. /\ season[s] = "active" /\ s < MaxSeason /\ season' = [season EXCEPT ![s] = "over"]
      /\ UNCHANGED <<standing, finish, tradeXp, up>>
  BY DEF SeasonEnds
<1>2. SeasonTyped'
  BY <1>1 DEF SeasonInv, SeasonTyped
<1>3. InTurn'
  <2>1. PICK n \in SeasonIds : Until(n)
    BY DEF SeasonInv, InTurn
  <2>2. s = n
    BY <1>1, <2>1 DEF Until, SeasonIds
  <2>3. Until(n)'
    BY <1>1, <2>1, <2>2, SeasonConstants DEF Until, SeasonInv, SeasonTyped, SeasonIds
  <2> QED BY <2>3 DEF InTurn
<1>4. PaidOnceEach'
  <2> SUFFICES ASSUME NEW f \in finish PROVE PaidForBest(f)'
    BY <1>1 DEF PaidOnceEach
  <2>1. PaidForBest(f) /\ f[2] \in SeasonIds /\ season[f[2]] = "closed"
    BY DEF SeasonInv, PaidOnceEach, PaidForBest
  <2>2. season'[f[2]] = "closed"
    BY <1>1, <2>1 DEF SeasonInv, SeasonTyped
  <2> QED BY <1>1, <2>1, <2>2, PaidStays
<1>5. Capped'
  BY <1>1 DEF SeasonInv, Capped
<1> QED BY <1>2, <1>3, <1>4, <1>5 DEF SeasonInv

LEMMA BootKeeps == ASSUME SeasonInv, SeasonBoot PROVE SeasonInv'
<1>1. /\ up' = TRUE /\ season' = EnsureActive(season) /\ UNCHANGED <<standing, finish, tradeXp>>
  BY DEF SeasonBoot
<1>2. PICK n \in SeasonIds : Until(n)
  BY DEF SeasonInv, InTurn
<1>3. /\ season' \in [SeasonIds -> {"none", "active", "over", "closed"}]
      /\ \A r \in SeasonIds : season[r] = "closed" => season'[r] = "closed"
      /\ \E m \in SeasonIds :
           /\ \A r \in SeasonIds : r < m => season'[r] = "closed"
           /\ \A r \in SeasonIds : r > m => season'[r] = "none"
           /\ season'[m] \in {"active", "over"}
           /\ m = MaxSeason => season'[m] = "active"
  <2>1. season \in [SeasonIds -> {"none", "active", "over", "closed"}]
    BY DEF SeasonInv, SeasonTyped
  <2> QED BY <1>1, <1>2, <2>1, NextBegins DEF Until
<1>4. SeasonTyped'
  BY <1>1, <1>3 DEF SeasonInv, SeasonTyped
<1>5. InTurn'
  BY <1>3 DEF InTurn, Until
<1>6. PaidOnceEach'
  BY <1>1, <1>3, PaidStays DEF SeasonInv, PaidOnceEach, PaidForBest
<1>7. Capped'
  BY <1>1 DEF SeasonInv, Capped
<1> QED BY <1>4, <1>5, <1>6, <1>7 DEF SeasonInv

LEMMA TradeDoneKeeps == ASSUME SeasonInv, NEW b \in Bot, TradeDone(b) PROVE SeasonInv'
<1>1. UNCHANGED <<season, standing, finish, up>>
  BY DEF TradeDone
<1>2. tradeXp' \in [Quant -> Nat] /\ Capped'
  <2>1. CASE OwnerOf[b] = House
    BY <2>1 DEF TradeDone, SeasonInv, SeasonTyped, Capped
  <2>2. CASE OwnerOf[b] # House
    <3>1. OwnerOf[b] \in Quant
      BY <2>2, SeasonAssumption
    <3>2. tradeXp' = [tradeXp EXCEPT ![OwnerOf[b]] =
                        IF tradeXp[OwnerOf[b]] >= TradeCap THEN tradeXp[OwnerOf[b]]
                        ELSE tradeXp[OwnerOf[b]] + TradeXp]
      BY <2>2 DEF TradeDone
    <3>3. tradeXp \in [Quant -> Nat] /\ \A o \in Quant : tradeXp[o] < TradeCap + TradeXp
      BY DEF SeasonInv, SeasonTyped, Capped
    <3>4. tradeXp' \in [Quant -> Nat]
      BY <3>1, <3>2, <3>3, SeasonConstants
    <3>5. \A o \in Quant : tradeXp'[o] < TradeCap + TradeXp
      BY <3>1, <3>2, <3>3, SeasonConstants
    <3> QED BY <3>4, <3>5 DEF Capped
  <2> QED BY <2>1, <2>2
<1>3. SeasonTyped'
  BY <1>1, <1>2 DEF SeasonInv, SeasonTyped
<1>4. InTurn'
  BY <1>1 DEF SeasonInv, InTurn, Until
<1>5. PaidOnceEach'
  BY <1>1 DEF SeasonInv, PaidOnceEach, PaidForBest, BestOf
<1> QED BY <1>2, <1>3, <1>4, <1>5 DEF SeasonInv

LEMMA RestKeeps ==
  ASSUME SeasonInv, SeasonDayEnds \/ SeasonServerDies \/ UNCHANGED seasonVars PROVE SeasonInv'
<1>1. /\ UNCHANGED <<season, standing, finish>> /\ (up' = up \/ up' = FALSE)
      /\ tradeXp' = tradeXp \/ tradeXp' = [o \in Quant |-> 0]
  BY DEF SeasonDayEnds, SeasonServerDies, seasonVars
<1>2. SeasonTyped'
  <2>1. up' \in BOOLEAN
    BY <1>1 DEF SeasonInv, SeasonTyped
  <2>2. tradeXp' \in [Quant -> Nat]
    BY <1>1 DEF SeasonInv, SeasonTyped
  <2> QED BY <1>1, <2>1, <2>2 DEF SeasonInv, SeasonTyped
<1>3. InTurn'
  <2>1. PICK n \in SeasonIds : Until(n)
    BY DEF SeasonInv, InTurn
  <2>2. up' => up
    BY <1>1
  <2>3. Until(n)'
    BY <1>1, <2>1, <2>2 DEF Until
  <2> QED BY <2>3 DEF InTurn
<1>4. PaidOnceEach'
  BY <1>1 DEF SeasonInv, PaidOnceEach, PaidForBest, BestOf
<1>5. Capped'
  BY <1>1, SeasonConstants DEF SeasonInv, Capped
<1> QED BY <1>2, <1>3, <1>4, <1>5 DEF SeasonInv

LEMMA SeasonNextKeeps == SeasonInv /\ [SeasonNext]_seasonVars => SeasonInv'
  BY CloseKeeps, EndsKeeps, BootKeeps, TradeDoneKeeps, RestKeeps DEF SeasonNext

LEMMA SeasonInitHolds == SeasonInit => SeasonInv
<1> SUFFICES ASSUME SeasonInit PROVE SeasonInv
  OBVIOUS
<1>1. SeasonTyped
  BY DEF SeasonInit, SeasonTyped
<1>2. InTurn
  <2>1. 1 \in SeasonIds /\ Until(1)
    BY SeasonConstants DEF SeasonInit, Until, SeasonIds
  <2> QED BY <2>1 DEF InTurn
<1>3. PaidOnceEach
  BY DEF SeasonInit, PaidOnceEach
<1>4. Capped
  BY SeasonConstants DEF SeasonInit, Capped
<1> QED BY <1>1, <1>2, <1>3, <1>4 DEF SeasonInv

LEMMA SeasonInvPays == SeasonInv => SeasonsPayOnce
<1> SUFFICES ASSUME SeasonInv PROVE SeasonsPayOnce
  OBVIOUS
<1>1. ASSUME NEW f \in finish
      PROVE  season[f[2]] = "closed" /\ f[3] = Prize(BestRank(f[1], f[2]))
  <2> DEFINE t == standing[f[2]]
             Best(i) == /\ OwnerOf[t[i]] = f[1]
                        /\ \A j \in 1 .. i - 1 : OwnerOf[t[j]] # f[1]
  <2>1. season[f[2]] = "closed" /\ DOMAIN t = 1 .. Cardinality(Bot)
    BY DEF SeasonInv, PaidOnceEach, PaidForBest
  <2>2. PICK i \in DOMAIN t : Best(i) /\ f[3] = Prize(i)
    BY DEF SeasonInv, PaidOnceEach, PaidForBest, BestOf
  <2>3. \A l \in DOMAIN t : Best(l) => l = i
    <3> SUFFICES ASSUME NEW l \in DOMAIN t, Best(l), l # i PROVE FALSE
      OBVIOUS
    <3>1. l \in Int /\ i \in Int /\ l >= 1 /\ i >= 1
      BY <2>1, SeasonConstants
    <3>2. l \in 1 .. i - 1 \/ i \in 1 .. l - 1
      BY <3>1
    <3> QED BY <2>2, <3>2
  <2>4. BestRank(f[1], f[2]) = CHOOSE l \in DOMAIN t : Best(l)
    BY DEF BestRank
  <2> HIDE DEF Best
  <2>5. (CHOOSE l \in DOMAIN t : Best(l)) = i
    BY <2>2, <2>3
  <2> QED BY <2>1, <2>2, <2>4, <2>5
<1>2. up => Cardinality({s \in SeasonIds : season[s] \in {"active", "over"}}) = 1
  <2> SUFFICES ASSUME up
               PROVE  Cardinality({s \in SeasonIds : season[s] \in {"active", "over"}}) = 1
    OBVIOUS
  <2>1. PICK n \in SeasonIds : Until(n)
    BY DEF SeasonInv, InTurn
  <2>2. \A s \in SeasonIds : s < n \/ s > n \/ s = n
    BY DEF SeasonIds
  <2>3. {s \in SeasonIds : season[s] \in {"active", "over"}} = {n}
    BY <2>1, <2>2 DEF Until
  <2> QED BY <2>3, FS_Singleton
<1> QED BY <1>1, <1>2 DEF SeasonInv, Capped, SeasonsPayOnce

\* A season pays its owners once, one season is open, and a day's trades pay no
\* more than the cap and the trade that reaches it.
LEMMA SeasonsHold == SeasonSpec => []SeasonsPayOnce
  BY SeasonInitHolds, SeasonNextKeeps, SeasonInvPays, PTL DEF SeasonSpec
-----------------------------------------------------------------------------
(* Claims: a weight is earned.                                             *)

\* The weights are the evidence of the claims, unless a pass died.
ClaimsInv ==
  /\ claims \in [1 .. MaxClaims -> ClaimsRow]
  /\ weights \in [Components -> [n : Nat, sum : Nat]]
  /\ behind \in BOOLEAN
  /\ ~behind => weights = Evidence(claims)

\* The claims a record counts.
Marked(table, kinds) ==
  {c \in 1 .. MaxClaims : Counted(table[c]) /\ table[c].kind \in kinds}
Briers(table) == [c \in 1 .. MaxClaims |-> Brier(table[c])]

LEMMA BrierNatural == \A row \in ClaimsRow : Brier(row) \in Nat
<1> SUFFICES ASSUME NEW row \in ClaimsRow PROVE Brier(row) \in Nat
  OBVIOUS
<1>1. Miss(row) \in Nat
  BY DEF Miss, ClaimsRow
<1> QED BY <1>1 DEF Brier

LEMMA MarkedFinite ==
  ASSUME NEW table \in [1 .. MaxClaims -> ClaimsRow], NEW kinds
  PROVE  /\ IsFiniteSet(Marked(table, kinds))
         /\ Cardinality(Marked(table, kinds)) \in Nat
         /\ \A c \in Marked(table, kinds) : Briers(table)[c] \in Nat
<1>1. IsFiniteSet(1 .. MaxClaims)
  BY ClaimsAssumption, FS_Interval
<1>2. Marked(table, kinds) \in SUBSET (1 .. MaxClaims)
  BY DEF Marked
<1>3. IsFiniteSet(Marked(table, kinds))
  BY <1>1, <1>2, FS_Subset
<1>4. \A c \in 1 .. MaxClaims : Briers(table)[c] \in Nat
  BY BrierNatural DEF Briers
<1> QED BY <1>2, <1>3, <1>4, FS_CardinalityType

\* A record, by its parts.
LEMMA RecordIs ==
  ASSUME NEW table, NEW kinds
  PROVE  RecordOf(table, kinds) =
           [n |-> Cardinality(Marked(table, kinds)),
            sum |-> SumFunctionOnSet(Briers(table), Marked(table, kinds))]
BY DEF RecordOf, Marked, Briers

LEMMA EvidenceTyped ==
  ASSUME NEW table \in [1 .. MaxClaims -> ClaimsRow]
  PROVE  Evidence(table) \in [Components -> [n : Nat, sum : Nat]]
<1> SUFFICES ASSUME NEW c \in Components PROVE Evidence(table)[c] \in [n : Nat, sum : Nat]
  BY DEF Evidence
<1> DEFINE of == {k \in Kinds : Component[k] = c}
<1>1. Evidence(table)[c] = RecordOf(table, of)
  BY DEF Evidence
<1> HIDE DEF of
<1>2. /\ IsFiniteSet(Marked(table, of)) /\ Cardinality(Marked(table, of)) \in Nat
      /\ \A d \in Marked(table, of) : Briers(table)[d] \in Nat
  BY MarkedFinite
<1>3. SumFunctionOnSet(Briers(table), Marked(table, of)) \in Nat
  BY <1>2, SumFewer
<1> QED BY <1>1, <1>2, <1>3, RecordIs

\* A claim that is not counted is no evidence.
LEMMA SameEvidence ==
  ASSUME NEW t \in [1 .. MaxClaims -> ClaimsRow], NEW u \in [1 .. MaxClaims -> ClaimsRow],
         \A c \in 1 .. MaxClaims : t[c] = u[c] \/ (~Counted(t[c]) /\ ~Counted(u[c]))
  PROVE  Evidence(t) = Evidence(u)
<1>1. ASSUME NEW kinds PROVE RecordOf(t, kinds) = RecordOf(u, kinds)
  <2>1. Marked(t, kinds) = Marked(u, kinds)
    BY DEF Marked
  <2>2. \A c \in Marked(t, kinds) : t[c] = u[c] /\ c \in 1 .. MaxClaims
    BY DEF Marked
  <2>3. \A c \in Marked(t, kinds) : Briers(t)[c] = Briers(u)[c]
    BY <2>2 DEF Briers
  <2>4. /\ IsFiniteSet(Marked(t, kinds))
        /\ \A c \in Marked(t, kinds) : Briers(t)[c] \in Int
    BY MarkedFinite
  <2>5. SumFunctionOnSet(Briers(t), Marked(t, kinds)) = SumFunctionOnSet(Briers(u), Marked(t, kinds))
    BY <2>3, <2>4, SumSame
  <2> QED BY <2>1, <2>5, RecordIs
<1> QED BY <1>1 DEF Evidence

LEMMA ResolvedTyped ==
  ASSUME claims \in [1 .. MaxClaims -> ClaimsRow], NEW done \in SUBSET DueClaims,
         NEW table \in ResolvedTo(done)
  PROVE  /\ table \in [1 .. MaxClaims -> ClaimsRow]
         /\ \A c \in 1 .. MaxClaims :
              table[c] = claims[c] \/ (~Counted(claims[c]) /\ c \in DueClaims
                                       /\ table[c].state \in {"yes", "no", "void"})
<1>1. PICK fate \in [done -> {"yes", "no", "void"}] :
        table = [c \in 1 .. MaxClaims |->
                   IF c \in done THEN [claims[c] EXCEPT !.state = fate[c]] ELSE claims[c]]
  BY DEF ResolvedTo
<1>2. ASSUME NEW c \in 1 .. MaxClaims
      PROVE  table[c] \in ClaimsRow
             /\ (table[c] = claims[c] \/ (~Counted(claims[c]) /\ c \in DueClaims
                                          /\ table[c].state \in {"yes", "no", "void"}))
  <2>1. claims[c] \in ClaimsRow
    OBVIOUS
  <2>2. CASE c \in done
    <3>1. fate[c] \in {"yes", "no", "void"} /\ table[c] = [claims[c] EXCEPT !.state = fate[c]]
      BY <1>1, <2>2
    <3>2. table[c] \in ClaimsRow /\ table[c].state \in {"yes", "no", "void"}
      BY <2>1, <3>1 DEF ClaimsRow
    <3>3. c \in DueClaims /\ ~Counted(claims[c])
      BY <2>2 DEF DueClaims, Counted
    <3> QED BY <3>2, <3>3
  <2>3. CASE c \notin done
    BY <1>1, <2>1, <2>3
  <2> QED BY <2>2, <2>3
<1>3. table \in [1 .. MaxClaims -> ClaimsRow]
  BY <1>1, <1>2
<1> QED BY <1>2, <1>3

LEMMA OpenClaimKeeps ==
  ASSUME ClaimsInv, NEW k \in Kinds, NEW odds \in Odds, OpenClaim(k, odds) PROVE ClaimsInv'
<1>1. PICK c \in 1 .. MaxClaims :
        /\ claims[c].state = "none"
        /\ claims' = [claims EXCEPT ![c] = [state |-> "open", kind |-> k, odds |-> odds]]
        /\ UNCHANGED <<scores, weights, behind>>
  BY DEF OpenClaim
<1>2. claims' \in [1 .. MaxClaims -> ClaimsRow]
  BY <1>1, ClaimsAssumption DEF ClaimsInv, ClaimsRow
<1>3. \A d \in 1 .. MaxClaims :
        claims[d] = claims'[d] \/ (~Counted(claims[d]) /\ ~Counted(claims'[d]))
  BY <1>1 DEF ClaimsInv, Counted
<1>4. Evidence(claims) = Evidence(claims')
  BY <1>2, <1>3, SameEvidence DEF ClaimsInv
<1> QED BY <1>1, <1>2, <1>4 DEF ClaimsInv, Evidence, RecordOf

LEMMA PassesKeeps ==
  ASSUME ClaimsInv, NEW c \in 1 .. MaxClaims, HorizonPasses(c) PROVE ClaimsInv'
<1>1. /\ claims[c].state = "open" /\ claims' = [claims EXCEPT ![c].state = "due"]
      /\ UNCHANGED <<scores, weights, behind>>
  BY DEF HorizonPasses
<1>2. claims' \in [1 .. MaxClaims -> ClaimsRow]
  BY <1>1 DEF ClaimsInv, ClaimsRow
<1>3. \A d \in 1 .. MaxClaims :
        claims[d] = claims'[d] \/ (~Counted(claims[d]) /\ ~Counted(claims'[d]))
  BY <1>1 DEF ClaimsInv, ClaimsRow, Counted
<1>4. Evidence(claims) = Evidence(claims')
  BY <1>2, <1>3, SameEvidence DEF ClaimsInv
<1> QED BY <1>1, <1>2, <1>4 DEF ClaimsInv, Evidence, RecordOf

LEMMA ResolveKeeps == ASSUME ClaimsInv, Resolve PROVE ClaimsInv'
<1>1. claims' \in ResolvedTo(DueClaims) /\ DueClaims \in SUBSET DueClaims
  BY DEF Resolve
<1>2. /\ claims' \in [1 .. MaxClaims -> ClaimsRow]
      /\ \A d \in 1 .. MaxClaims :
           claims'[d] = claims[d] \/ (~Counted(claims[d]) /\ d \in DueClaims
                                      /\ claims'[d].state \in {"yes", "no", "void"})
  BY <1>1, ResolvedTyped DEF ClaimsInv
<1>3. CASE \E c \in DueClaims : claims'[c].state # "void"
  <2>1. weights' = Evidence(claims') /\ behind' = FALSE
    BY <1>3 DEF Resolve
  <2>2. Evidence(claims') \in [Components -> [n : Nat, sum : Nat]]
    BY <1>2, EvidenceTyped
  <2> QED BY <1>2, <2>1, <2>2 DEF ClaimsInv, Evidence, RecordOf
<1>4. CASE ~ \E c \in DueClaims : claims'[c].state # "void"
  <2>1. UNCHANGED <<scores, weights, behind>>
    BY <1>4 DEF Resolve
  <2>2. \A d \in 1 .. MaxClaims :
          claims[d] = claims'[d] \/ (~Counted(claims[d]) /\ ~Counted(claims'[d]))
    BY <1>2, <1>4 DEF Counted
  <2>3. Evidence(claims) = Evidence(claims')
    BY <1>2, <2>2, SameEvidence DEF ClaimsInv
  <2> QED BY <1>2, <2>1, <2>3 DEF ClaimsInv, Evidence, RecordOf
<1> QED BY <1>3, <1>4

LEMMA DiesKeeps == ASSUME ClaimsInv, ResolveDies PROVE ClaimsInv'
<1>1. PICK done \in (SUBSET DueClaims) \ {{}} : claims' \in ResolvedTo(done)
  BY DEF ResolveDies
<1>2. claims' \in [1 .. MaxClaims -> ClaimsRow]
  BY <1>1, ResolvedTyped DEF ClaimsInv
<1>3. weights' = weights /\ behind' = (behind \/ weights # Evidence(claims'))
  BY DEF ResolveDies
<1>4. behind' \in BOOLEAN
  BY <1>3 DEF ClaimsInv
<1>5. ~behind' => weights' = Evidence(claims')
  BY <1>3
<1> QED BY <1>2, <1>3, <1>4, <1>5 DEF ClaimsInv, Evidence, RecordOf

LEMMA ClaimsNextKeeps == ClaimsInv /\ [ClaimsNext]_claimsVars => ClaimsInv'
<1> SUFFICES ASSUME ClaimsInv, [ClaimsNext]_claimsVars PROVE ClaimsInv'
  OBVIOUS
<1>1. CASE UNCHANGED claimsVars
  BY <1>1 DEF claimsVars, ClaimsInv, Evidence, RecordOf
<1>2. CASE ClaimsNext
  BY <1>2, OpenClaimKeeps, PassesKeeps, ResolveKeeps, DiesKeeps DEF ClaimsNext
<1> QED BY <1>1, <1>2

LEMMA ClaimsInitHolds == ClaimsInit => ClaimsInv
<1> SUFFICES ASSUME ClaimsInit PROVE ClaimsInv
  OBVIOUS
<1>1. claims \in [1 .. MaxClaims -> ClaimsRow]
  BY DEF ClaimsInit, ClaimsRow, Kinds
<1>2. \A kinds : Marked(claims, kinds) = {}
  BY DEF ClaimsInit, Marked, Counted
<1>3. \A kinds : RecordOf(claims, kinds) = NoRecord
  BY <1>2, RecordIs, SumEmpty, FS_EmptySet DEF NoRecord
<1>4. weights = Evidence(claims)
  BY <1>3 DEF ClaimsInit, Evidence
<1>5. weights \in [Components -> [n : Nat, sum : Nat]]
  BY DEF ClaimsInit, NoRecord
<1>6. behind \in BOOLEAN
  BY DEF ClaimsInit
<1> QED BY <1>1, <1>4, <1>5, <1>6 DEF ClaimsInv

LEMMA ClaimsInvEarns == ClaimsInv => WeightEarned
<1> SUFFICES ASSUME ClaimsInv, NEW c \in Components
             PROVE  /\ ~behind => (Earned(weights[c]) > 0 <=> BeatsCoin(c))
                    /\ Earned(weights[c]) <= CoinFlip * weights[c].n
  BY DEF WeightEarned
<1>1. weights[c].n \in Nat /\ weights[c].sum \in Nat
  BY DEF ClaimsInv
<1>2. Earned(weights[c]) <= CoinFlip * weights[c].n
  BY <1>1 DEF Earned, CoinFlip
<1>3. Earned(weights[c]) > 0 <=> weights[c].sum - CoinFlip * weights[c].n < 0
  BY <1>1 DEF Earned, CoinFlip
<1>4. ASSUME ~behind PROVE BeatsCoin(c) <=> weights[c].sum - CoinFlip * weights[c].n < 0
  <2> DEFINE kinds == {k \in Kinds : Component[k] = c}
             hits == {d \in 1 .. MaxClaims :
                        claims[d].state \in {"yes", "no"} /\ Component[claims[d].kind] = c}
             over == [d \in 1 .. MaxClaims |-> Brier(claims[d]) - CoinFlip]
  <2>1. hits = Marked(claims, kinds)
    <3>1. \A d \in 1 .. MaxClaims : claims[d].kind \in Kinds
      BY DEF ClaimsInv, ClaimsRow
    <3> QED BY <3>1 DEF Marked, Counted
  <2>2. BeatsCoin(c) <=> SumFunctionOnSet(over, hits) < 0
    BY DEF BeatsCoin
  <2>3. weights[c] = RecordOf(claims, kinds)
    BY <1>4 DEF ClaimsInv, Evidence
  <2>4. \A d \in hits : over[d] = Briers(claims)[d] - CoinFlip
    BY DEF Briers
  <2> HIDE DEF kinds, hits, over
  <2>5. /\ IsFiniteSet(hits)
        /\ \A d \in hits : Briers(claims)[d] \in Int
    BY <2>1, MarkedFinite DEF ClaimsInv
  <2>6. CoinFlip \in Int
    BY DEF CoinFlip
  <2>7. SumFunctionOnSet(over, hits)
          = SumFunctionOnSet(Briers(claims), hits) - CoinFlip * Cardinality(hits)
    BY <2>4, <2>5, <2>6, SumShift
  <2>8. /\ weights[c].n = Cardinality(hits)
        /\ weights[c].sum = SumFunctionOnSet(Briers(claims), hits)
    BY <2>1, <2>3, RecordIs
  <2> QED BY <2>2, <2>7, <2>8
<1> QED BY <1>2, <1>3, <1>4

\* A weight above its base was earned by claims that beat a coin flip.
LEMMA ClaimsHold == ClaimsSpec => []WeightEarned
  BY ClaimsInitHolds, ClaimsNextKeeps, ClaimsInvEarns, PTL DEF ClaimsSpec
-----------------------------------------------------------------------------
(* Scanner: an idea is said once, of a bar that is over.                   *)

IdeaKey == ({"major"} \cup Launch \cup Trend) \X Nat
IdeaRow == [key : IdeaKey, high : BOOLEAN, at : Nat, life : Nat]

\* A row of this process is remembered, or followed by as many rows as the
\* process keeps keys: the memory drops a key only for newer ones.
Memory(keys, rows) ==
  \A i \in 1 .. Len(rows) :
    rows[i].life = life =>
      \/ Len(rows) - i >= Keep
      \/ Len(rows) - i < Len(keys) /\ keys[Len(keys) - (Len(rows) - i)] = rows[i].key

\* NoEarlyRepeat, of any rows.
Spread(rows) ==
  \A i, j \in 1 .. Len(rows) :
    i < j /\ rows[i].key = rows[j].key /\ rows[i].life = rows[j].life => j - i > Keep

\* A row is of this process or of an earlier one, and of a bar that is over.
Over(idea) ==
  /\ idea.life <= life
  /\ idea.key[1] = "major" => (idea.key[2] + 1) * BarLife <= idea.at

IdeasFit(keys, rows) ==
  /\ keys \in Seq(IdeaKey) /\ rows \in Seq(IdeaRow)
  /\ Memory(keys, rows) /\ Spread(rows)
  /\ \A i \in 1 .. Len(rows) : Over(rows[i])

\* A stored bar is whole, or has a gap, or a backfill stored it while it formed.
BarsClosed ==
  \A b \in Bars : bars[b] # NoBar /\ ~bars[b].whole => Gap(b) \/ b \in forming

ScannerTyped ==
  /\ now \in Minutes
  /\ minutes \in [Minutes -> {"none", "part", "whole"}]
  /\ bars \in [Bars -> BarRow \cup {NoBar}]
  /\ heard \in -1 .. now - 1
  /\ boot \in 0 .. now \cup {Up}
  /\ boot # Up => heard < boot
  /\ forming \subseteq Bars
  /\ trending \subseteq Trend
  /\ life \in 1 .. MaxLife

ScannerInv == ScannerTyped /\ BarsClosed /\ IdeasFit(seen, ideas)

\* No earlier minute is of a later bar, and none of a bar comes after its last.
LEMMA BarOrder ==
  ASSUME NEW m \in Nat, NEW n \in Nat
  PROVE  /\ BarOf(m) \in Nat
         /\ m <= n => BarOf(m) <= BarOf(n)
         /\ BarOf(m) = BarOf(n) /\ EndsBar(n) => m <= n
<1> DEFINE d == m \div BarLife
           r == m % BarLife
           e == n \div BarLife
           u == n % BarLife
<1>0. BarLife \in Nat \ {0}
  BY ScannerAssumption
<1>1. m = BarLife * d + r /\ r \in 0 .. BarLife - 1 /\ d \in Nat
  BY <1>0, QuotientFits
<1>2. n = BarLife * e + u /\ u \in 0 .. BarLife - 1 /\ e \in Nat
  BY <1>0, QuotientFits
<1> HIDE DEF d, r, e, u
<1>3. ASSUME m <= n PROVE d <= e
  <2> SUFFICES ASSUME d > e PROVE FALSE
    BY <1>1, <1>2
  <2>1. BarLife * (d - e) >= BarLife
    BY <1>0, <1>1, <1>2
  <2>2. BarLife * (d - e) = BarLife * d - BarLife * e
    BY <1>0, <1>1, <1>2
  <2>3. BarLife * d \in Nat /\ BarLife * e \in Nat
    BY <1>0, <1>1, <1>2
  <2> QED
    BY <1>0, <1>1, <1>2, <1>3, <2>1, <2>2, <2>3
<1>4. ASSUME d = e, u = BarLife - 1 PROVE m <= n
  <2>1. BarLife * d \in Nat
    BY <1>0, <1>1
  <2> QED
    BY <1>0, <1>1, <1>2, <1>4, <2>1
<1> QED
  BY <1>1, <1>3, <1>4 DEF BarOf, EndsBar, d, e, u
\* The bar of any time within the bound is one of the bars.
LEMMA BarOfNow ==
  ASSUME NEW m \in Minutes PROVE m \in Nat /\ BarOf(m) \in Bars
<1> DEFINE d == m \div BarLife
           r == m % BarLife
           D == MaxNow \div BarLife
           R == MaxNow % BarLife
<1>0. BarLife \in Nat \ {0} /\ MaxNow \in Nat /\ m \in Nat /\ m <= MaxNow
  BY ScannerAssumption DEF Minutes
<1>1. m = BarLife * d + r /\ r \in 0 .. BarLife - 1 /\ d \in Nat
  BY <1>0, QuotientFits
<1>2. MaxNow = BarLife * D + R /\ R \in 0 .. BarLife - 1 /\ D \in Nat
  BY <1>0, QuotientFits
<1> HIDE DEF d, r, D, R
<1>3. BarLife * (d - D) < BarLife
  BY <1>0, <1>1, <1>2
<1>4. ~(d > D)
  <2> SUFFICES ASSUME d > D PROVE FALSE
    OBVIOUS
  <2>1. BarLife * (d - D) >= BarLife
    BY <1>0, <1>1, <1>2
  <2> QED
    BY <1>0, <1>1, <1>2, <1>3, <2>1
<1>5. d \in 0 .. D
  BY <1>1, <1>2, <1>4
<1> QED
  BY <1>0, <1>5 DEF Bars, BarOf, d, D
-----------------------------------------------------------------------------
(* One idea more.                                                           *)

\* What is appended is last.
LEMMA Appended ==
  ASSUME NEW S, NEW s \in Seq(S), NEW x \in S
  PROVE  /\ Append(s, x) \in Seq(S) /\ Len(Append(s, x)) = Len(s) + 1
         /\ Append(s, x)[Len(s) + 1] = x
         /\ \A i \in 1 .. Len(s) : Append(s, x)[i] = s[i]
  OBVIOUS

\* The memory keeps its newest keys, Keep of them at least.
LEMMA RememberedKeys ==
  ASSUME NEW keys \in Seq(IdeaKey)
  PROVE  /\ Remembered(keys) \in Seq(IdeaKey)
         /\ Len(Remembered(keys)) <= Len(keys)
         /\ Len(Remembered(keys)) = Len(keys) \/ Len(Remembered(keys)) = Keep
         /\ \A d \in 0 .. Len(Remembered(keys)) - 1 :
              Remembered(keys)[Len(Remembered(keys)) - d] = keys[Len(keys) - d]
<1>0. Keep \in Nat \ {0} /\ Full \in Nat /\ Keep <= Full
  BY ScannerAssumption
<1>1. CASE ~(Len(keys) > Full)
  BY <1>1 DEF Remembered
<1>2. CASE Len(keys) > Full
  <2> DEFINE s == SubSeq(keys, Len(keys) - Keep + 1, Len(keys))
  <2>1. Remembered(keys) = s
    BY <1>2 DEF Remembered
  <2>2. Len(keys) \in Nat /\ Len(keys) - Keep + 1 \in 1 .. Len(keys)
    BY <1>0, <1>2
  <2>3. s \in Seq(IdeaKey) /\ Len(s) = Keep
    BY <1>0, <1>2, <2>2
  <2>4. \A i \in 1 .. Keep : s[i] = keys[Len(keys) - Keep + i]
    BY <1>0, <1>2, <2>2
  <2> HIDE DEF s
  <2>5. ASSUME NEW d \in 0 .. Keep - 1 PROVE s[Keep - d] = keys[Len(keys) - d]
    BY <1>0, <2>2, <2>4
  <2> QED
    BY <1>0, <1>2, <2>1, <2>2, <2>3, <2>5
<1> QED
  BY <1>1, <1>2

LEMMA Unrepeated ==
  ASSUME ScannerTyped,
         NEW keys \in Seq(IdeaKey), NEW rows \in Seq(IdeaRow), IdeasFit(keys, rows),
         NEW idea \in IdeaRow, idea.life = life, Over(idea),
         \A i \in 1 .. Len(keys) : keys[i] # idea.key
  PROVE  IdeasFit(Remembered(Append(keys, idea.key)), Append(rows, idea))
<1> DEFINE K == Append(keys, idea.key)
           R == Append(rows, idea)
           M == Remembered(K)
<1>0. idea.key \in IdeaKey /\ Keep \in Nat \ {0}
  BY ScannerAssumption DEF IdeaRow
<1>1. /\ K \in Seq(IdeaKey) /\ Len(K) = Len(keys) + 1 /\ K[Len(keys) + 1] = idea.key
      /\ \A i \in 1 .. Len(keys) : K[i] = keys[i]
  BY <1>0, Appended
<1>2. /\ R \in Seq(IdeaRow) /\ Len(R) = Len(rows) + 1 /\ R[Len(rows) + 1] = idea
      /\ \A i \in 1 .. Len(rows) : R[i] = rows[i]
  BY Appended
<1> HIDE DEF K, R
<1>3. /\ M \in Seq(IdeaKey) /\ Len(M) <= Len(K)
      /\ Len(M) = Len(K) \/ Len(M) = Keep
      /\ \A d \in 0 .. Len(M) - 1 : M[Len(M) - d] = K[Len(K) - d]
  BY <1>1, RememberedKeys
<1> HIDE DEF M
<1>4. Len(rows) \in Nat /\ Len(keys) \in Nat /\ Len(M) \in Nat /\ Len(M) >= 1
  BY <1>0, <1>1, <1>3
<1>5. Memory(M, R)
  <2> SUFFICES ASSUME NEW i \in 1 .. Len(R), R[i].life = life
               PROVE  \/ Len(R) - i >= Keep
                      \/ Len(R) - i < Len(M) /\ M[Len(M) - (Len(R) - i)] = R[i].key
    BY DEF Memory
  <2>0. Len(R) \in Nat /\ Len(R) - i \in Int
    BY <1>2, <1>4
  <2> SUFFICES ASSUME Len(R) - i < Keep
               PROVE  Len(R) - i < Len(M) /\ M[Len(M) - (Len(R) - i)] = R[i].key
    BY <1>0, <2>0
  <2> DEFINE d == Len(R) - i
  <2>1. d \in Nat /\ d < Keep /\ i = Len(R) - d /\ d = Len(R) - i
    BY <1>2, <1>4
  <2> HIDE DEF d
  <2>2. CASE i = Len(rows) + 1
    <3>1. d = 0 /\ R[i] = idea
      BY <1>2, <1>4, <2>1, <2>2
    <3>2. 0 \in 0 .. Len(M) - 1
      BY <1>4
    <3>3. M[Len(M) - 0] = K[Len(K) - 0]
      BY <1>3, <3>2
    <3>4. M[Len(M)] = idea.key
      BY <1>1, <1>4, <3>3
    <3>5. d < Len(M) /\ Len(M) - d = Len(M)
      BY <1>4, <3>1
    <3> QED
      BY <2>1, <3>1, <3>4, <3>5
  <2>3. CASE i \in 1 .. Len(rows)
    <3>0. d = Len(rows) - i + 1
      BY <1>2, <1>4, <2>1, <2>3
    <3>1. R[i] = rows[i] /\ Len(rows) - i < Keep
      BY <1>0, <1>2, <1>4, <2>1, <2>3, <3>0
    <3>2. Len(rows) - i < Len(keys) /\ keys[Len(keys) - (Len(rows) - i)] = rows[i].key
      <4>1. Memory(keys, rows)
        BY DEF IdeasFit
      <4>2. ~(Len(rows) - i >= Keep)
        BY <1>0, <1>4, <2>3, <3>1
      <4> QED
        BY <2>3, <3>1, <4>1, <4>2 DEF Memory
    <3>3. d < Len(K) /\ Len(K) - d \in 1 .. Len(keys) /\ Len(K) - d = Len(keys) - (Len(rows) - i)
      <4>1. d < Len(keys) + 1 /\ Len(keys) + 1 - d = Len(keys) - (Len(rows) - i)
        BY <1>4, <2>3, <3>0, <3>2
      <4>2. Len(keys) + 1 - d \in 1 .. Len(keys)
        BY <1>4, <2>3, <3>0, <4>1
      <4>3. Len(K) = Len(keys) + 1
        BY <1>1
      <4>4. d < Len(K)
        BY <4>1, <4>3
      <4>5. Len(K) - d = Len(keys) + 1 - d
        BY <1>4, <2>1, <4>3
      <4> QED
        BY <4>1, <4>2, <4>4, <4>5
    <3>4. K[Len(K) - d] = rows[i].key
      BY <1>1, <3>2, <3>3
    <3>5. d < Len(M)
      BY <1>3, <1>4, <2>1, <3>3
    <3>6. d \in 0 .. Len(M) - 1
      BY <1>4, <2>1, <3>5
    <3>7. M[Len(M) - d] = K[Len(K) - d]
      BY <1>3, <3>6
    <3> QED
      BY <2>1, <3>1, <3>4, <3>5, <3>7
  <2> QED
    BY <1>2, <1>4, <2>2, <2>3
<1>6. Spread(R)
  <2> SUFFICES ASSUME NEW i \in 1 .. Len(R), NEW j \in 1 .. Len(R), i < j,
                      R[i].key = R[j].key, R[i].life = R[j].life
               PROVE  j - i > Keep
    BY DEF Spread
  <2>1. i \in 1 .. Len(rows) /\ R[i] = rows[i]
    BY <1>2, <1>4
  <2>2. CASE j \in 1 .. Len(rows)
    <3>1. R[j] = rows[j]
      BY <1>2, <2>2
    <3>2. Spread(rows)
      BY DEF IdeasFit
    <3> QED
      BY <2>1, <2>2, <3>1, <3>2 DEF Spread
  <2>3. CASE j = Len(rows) + 1
    <3>1. R[j] = idea
      BY <1>2, <2>3
    <3>2. Memory(keys, rows)
      BY DEF IdeasFit
    <3>3. \/ Len(rows) - i >= Keep
          \/ Len(rows) - i < Len(keys) /\ keys[Len(keys) - (Len(rows) - i)] = rows[i].key
      BY <2>1, <3>1, <3>2 DEF Memory
    <3>4. ~(Len(rows) - i < Len(keys) /\ keys[Len(keys) - (Len(rows) - i)] = rows[i].key)
      <4> SUFFICES ASSUME Len(rows) - i < Len(keys) PROVE keys[Len(keys) - (Len(rows) - i)] # rows[i].key
        OBVIOUS
      <4>1. Len(keys) - (Len(rows) - i) \in 1 .. Len(keys)
        BY <1>4, <2>1
      <4> QED
        BY <2>1, <3>1, <4>1
    <3> QED
      BY <1>0, <1>4, <2>1, <2>3, <3>3, <3>4
  <2> QED
    BY <1>2, <1>4, <2>2, <2>3
<1>7. \A i \in 1 .. Len(R) : Over(R[i])
  <2> SUFFICES ASSUME NEW i \in 1 .. Len(R) PROVE Over(R[i])
    OBVIOUS
  <2>1. CASE i \in 1 .. Len(rows)
    BY <1>2, <2>1 DEF IdeasFit
  <2>2. CASE i = Len(rows) + 1
    BY <1>2, <2>2
  <2> QED
    BY <1>2, <1>4, <2>1, <2>2
<1>8. IdeasFit(M, R)
  BY <1>2, <1>3, <1>5, <1>6, <1>7 DEF IdeasFit
<1> QED
  BY <1>8 DEF M, K, R
-----------------------------------------------------------------------------
(* A pass over a list of ideas.                                             *)

\* What a pass may find: an idea of now and of this process.
Fits(idea) == idea \in IdeaRow /\ idea.life = life /\ Over(idea)

Acc == [seen : Seq(IdeaKey), found : Seq(IdeaRow)]

\* What has been found keeps with the rows.
AccFits(acc) ==
  /\ acc \in Acc /\ IdeasFit(acc.seen, ideas \o acc.found)
  /\ \A i \in 1 .. Len(acc.found) : Fits(acc.found[i])

LEMMA UnseenFits ==
  ASSUME ScannerTyped, ideas \in Seq(IdeaRow), NEW acc, AccFits(acc), NEW idea, Fits(idea)
  PROVE  AccFits(Unseen(acc, idea))
<1>1. /\ acc.seen \in Seq(IdeaKey) /\ acc.found \in Seq(IdeaRow)
      /\ ideas \o acc.found \in Seq(IdeaRow)
      /\ idea \in IdeaRow /\ idea.key \in IdeaKey
  BY DEF AccFits, Acc, Fits, IdeaRow
<1>2. CASE Contains(acc.seen, idea.key)
  BY <1>2 DEF Unseen
<1>3. CASE ~Contains(acc.seen, idea.key)
  <2> DEFINE keys == Remembered(Append(acc.seen, idea.key))
             new == Append(acc.found, idea)
  <2>1. Unseen(acc, idea) = [seen |-> keys, found |-> new]
    BY <1>3 DEF Unseen
  <2>2. \A i \in 1 .. Len(acc.seen) : acc.seen[i] # idea.key
    BY <1>3 DEF Contains
  <2>3. IdeasFit(acc.seen, ideas \o acc.found)
    BY DEF AccFits
  <2>4. idea.life = life /\ Over(idea)
    BY DEF Fits
  <2>5. IdeasFit(keys, Append(ideas \o acc.found, idea))
    BY <1>1, <2>2, <2>3, <2>4, Unrepeated
  <2>6. Append(ideas \o acc.found, idea) = ideas \o new
    <3> DEFINE a == Append(ideas \o acc.found, idea)
               b == ideas \o new
               n == Len(ideas) + Len(acc.found)
    <3>1. Len(ideas) \in Nat /\ Len(acc.found) \in Nat /\ n \in Nat
      BY <1>1
    <3>2. new \in Seq(IdeaRow) /\ Len(new) = Len(acc.found) + 1
      BY <1>1, Appended
    <3>3. a \in Seq(IdeaRow) /\ b \in Seq(IdeaRow)
      BY <1>1, <3>2
    <3>4. Len(ideas \o acc.found) = n
      BY <1>1
    <3>5. Len(a) = n + 1
      BY <1>1, <3>4, Appended
    <3>6. Len(b) = n + 1
      BY <1>1, <3>1, <3>2
    <3>7. ASSUME NEW i \in 1 .. n + 1 PROVE a[i] = b[i]
      <4>1. CASE i <= Len(ideas)
        BY <1>1, <3>1, <3>2, <3>4, <4>1
      <4>2. CASE i > Len(ideas) /\ i <= n
        BY <1>1, <3>1, <3>2, <3>4, <4>2
      <4>3. CASE i = n + 1
        BY <1>1, <3>1, <3>2, <3>4, <4>3
      <4> QED
        BY <3>1, <4>1, <4>2, <4>3
    <3> HIDE DEF a, b, n
    <3>8. a = b
      BY <3>1, <3>3, <3>5, <3>6, <3>7, SeqEqual
    <3> QED
      BY <3>8 DEF a, b
  <2>7. keys \in Seq(IdeaKey)
    BY <2>5 DEF IdeasFit
  <2>8. /\ new \in Seq(IdeaRow) /\ Len(new) = Len(acc.found) + 1
        /\ new[Len(acc.found) + 1] = idea
        /\ \A i \in 1 .. Len(acc.found) : new[i] = acc.found[i]
    BY <1>1, Appended
  <2> HIDE DEF keys, new
  <2>9. ASSUME NEW i \in 1 .. Len(new) PROVE Fits(new[i])
    <3>1. CASE i \in 1 .. Len(acc.found)
      BY <2>8, <3>1 DEF AccFits
    <3>2. CASE i = Len(acc.found) + 1
      BY <2>8, <3>2
    <3>3. Len(acc.found) \in Nat
      BY <1>1
    <3> QED
      BY <2>8, <3>1, <3>2, <3>3
  <2>10. [seen |-> keys, found |-> new] \in Acc
    BY <2>7, <2>8 DEF Acc
  <2> QED
    BY <2>1, <2>5, <2>6, <2>9, <2>10 DEF AccFits
<1> QED
  BY <1>2, <1>3

\* The steps of a pass: what is left after each idea of the list.
Passes(g, list, n) ==
  /\ g = [m \in 0 .. n |-> g[m]]
  /\ g[0] = [seen |-> seen, found |-> <<>>]
  /\ \A m \in 1 .. n : g[m] = Unseen(g[m - 1], list[m])

LEMMA PassExists ==
  ASSUME NEW list, NEW n \in Nat
  PROVE  \E g : Passes(g, list, n)
<1> DEFINE D == {m \in Nat : ~ \E g : Passes(g, list, m)}
<1> SUFFICES ASSUME D # {} PROVE FALSE
  OBVIOUS
<1>1. PICK m \in D : \A k \in D : m <= k
  <2>1. D \subseteq Nat
    OBVIOUS
  <2> HIDE DEF D
  <2> QED
    BY <2>1, SmallestNat
<1>2. CASE m = 0
  <2> DEFINE g == [k \in 0 .. 0 |-> [seen |-> seen, found |-> <<>>]]
  <2>1. Passes(g, list, 0)
    BY DEF Passes
  <2> QED
    BY <1>1, <1>2, <2>1
<1>3. CASE m # 0
  <2>1. m \in Nat /\ m - 1 \in Nat /\ m - 1 \notin D
    BY <1>1, <1>3
  <2>2. PICK h : Passes(h, list, m - 1)
    BY <2>1
  <2> DEFINE g == [k \in 0 .. m |-> IF k = m THEN Unseen(h[m - 1], list[m]) ELSE h[k]]
  <2>3. g[0] = [seen |-> seen, found |-> <<>>]
    BY <1>3, <2>1, <2>2 DEF Passes
  <2>4. ASSUME NEW k \in 1 .. m PROVE g[k] = Unseen(g[k - 1], list[k])
    <3>1. CASE k = m
      <4>1. g[k] = Unseen(h[m - 1], list[m])
        BY <2>1, <3>1
      <4>2. g[k - 1] = h[m - 1]
        BY <2>1, <3>1
      <4> QED
        BY <3>1, <4>1, <4>2
    <3>2. CASE k # m
      <4>1. k \in 1 .. m - 1 /\ k - 1 \in 0 .. m - 1
        BY <2>1, <3>2
      <4>2. g[k] = h[k] /\ g[k - 1] = h[k - 1]
        BY <2>1, <3>2, <4>1
      <4>3. h[k] = Unseen(h[k - 1], list[k])
        BY <2>2, <4>1 DEF Passes
      <4> QED
        BY <4>2, <4>3
    <3> QED
      BY <3>1, <3>2
  <2>5. g = [k \in 0 .. m |-> g[k]]
    OBVIOUS
  <2> HIDE DEF g
  <2>6. Passes(g, list, m)
    BY <2>3, <2>4, <2>5 DEF Passes
  <2> QED
    BY <1>1, <2>6
<1> QED
  BY <1>2, <1>3

\* There is one way to do them.
LEMMA SiftedPasses ==
  ASSUME NEW list, Len(list) \in Nat
  PROVE  \E g : Passes(g, list, Len(list)) /\ Sifted(list) = g[Len(list)]
<1> DEFINE N == Len(list)
           Rec(g) == g = [n \in 0 .. N |-> IF n = 0 THEN [seen |-> seen, found |-> <<>>]
                                          ELSE Unseen(g[n - 1], list[n])]
           after == CHOOSE g : Rec(g)
<1>1. PICK h : Passes(h, list, N)
  BY PassExists
<1>2. Rec(h)
  <2>1. h = [n \in 0 .. N |-> h[n]]
    BY <1>1 DEF Passes
  <2>2. ASSUME NEW n \in 0 .. N
        PROVE  h[n] = IF n = 0 THEN [seen |-> seen, found |-> <<>>]
                      ELSE Unseen(h[n - 1], list[n])
    <3>1. n # 0 => n \in 1 .. N
      OBVIOUS
    <3> QED
      BY <1>1, <3>1 DEF Passes
  <2> QED
    BY <2>1, <2>2
<1>3. Rec(after)
  <2> HIDE DEF Rec
  <2> QED
    BY <1>2
<1>4. Passes(after, list, N)
  <2> HIDE DEF after
  <2>1. after[0] = [seen |-> seen, found |-> <<>>]
    BY <1>3
  <2>2. ASSUME NEW m \in 1 .. N PROVE after[m] = Unseen(after[m - 1], list[m])
    BY <1>3
  <2>3. after = [m \in 0 .. N |-> after[m]]
    BY <1>3
  <2> QED
    BY <2>1, <2>2, <2>3 DEF Passes
<1>5. Sifted(list) = after[N]
  BY DEF Sifted
<1> QED
  BY <1>4, <1>5

LEMMA SiftedFits ==
  ASSUME ScannerInv, NEW list, Len(list) \in Nat,
         \A i \in 1 .. Len(list) : Fits(list[i])
  PROVE  AccFits(Sifted(list))
<1>1. PICK g : Passes(g, list, Len(list)) /\ Sifted(list) = g[Len(list)]
  BY SiftedPasses
<1>0. ideas \in Seq(IdeaRow) /\ seen \in Seq(IdeaKey) /\ ScannerTyped /\ IdeasFit(seen, ideas)
  BY DEF ScannerInv, IdeasFit
<1> DEFINE D == {m \in 0 .. Len(list) : ~AccFits(g[m])}
<1>2. D = {}
  <2> SUFFICES ASSUME D # {} PROVE FALSE
    OBVIOUS
  <2>1. PICK m \in D : \A k \in D : m <= k
    <3>1. D \subseteq Nat
      OBVIOUS
    <3> HIDE DEF D
    <3> QED
      BY <3>1, SmallestNat
  <2>2. CASE m = 0
    <3>1. g[0] = [seen |-> seen, found |-> <<>>]
      BY <1>1 DEF Passes
    <3>2. ideas \o <<>> = ideas
      BY <1>0
    <3>3. AccFits([seen |-> seen, found |-> <<>>])
      BY <1>0, <3>2 DEF AccFits, Acc
    <3> QED
      BY <2>1, <2>2, <3>1, <3>3
  <2>3. CASE m # 0
    <3>1. m \in 1 .. Len(list) /\ m - 1 \in 0 .. Len(list) /\ m - 1 \notin D
      BY <2>1, <2>3
    <3>2. AccFits(g[m - 1]) /\ Fits(list[m])
      BY <3>1
    <3>3. g[m] = Unseen(g[m - 1], list[m])
      BY <1>1, <3>1 DEF Passes
    <3>4. AccFits(g[m])
      BY <1>0, <3>2, <3>3, UnseenFits
    <3> QED
      BY <2>1, <3>4
  <2> QED
    BY <2>2, <2>3
<1> QED
  BY <1>1, <1>2
-----------------------------------------------------------------------------
(* What a pass scans.                                                       *)

\* The elements of a finite set, in some order, are a sequence of them.
LEMMA ListOf ==
  ASSUME NEW S, IsFiniteSet(S)
  PROVE  /\ SetToSeq(S) \in Seq(S) /\ Len(SetToSeq(S)) \in Nat
         /\ \A i \in 1 .. Len(SetToSeq(S)) : SetToSeq(S)[i] \in S
<1>1. Cardinality(S) \in Nat /\ ExistsBijection(1 .. Cardinality(S), S)
  BY FS_CardinalityType
<1>2. PICK f : f \in Bijection(1 .. Cardinality(S), S)
  BY <1>1 DEF ExistsBijection
<1>3. f \in [1 .. Cardinality(S) -> S] /\ IsInjective(f)
  BY <1>2 DEF Bijection, Injection, IsInjective
<1>4. SetToSeq(S) \in [1 .. Cardinality(S) -> S]
  BY <1>3 DEF SetToSeq
<1> QED
  BY <1>1, <1>4

LEMMA ScannerConstants ==
  /\ Keep \in Nat \ {0} /\ Full \in Nat /\ BarLife \in Nat \ {0} /\ MaxNow \in Nat
  /\ Bars \subseteq Nat /\ IsFiniteSet(Bars)
  /\ IsFiniteSet(Launch) /\ IsFiniteSet(Trend)
<1>1. /\ Keep \in Nat \ {0} /\ Full \in Nat /\ BarLife \in Nat \ {0} /\ MaxNow \in Nat
      /\ IsFiniteSet(Launch) /\ IsFiniteSet(Trend)
  BY ScannerAssumption
<1>2. MaxNow \div BarLife \in Nat
  BY <1>1, QuotientFits
<1>3. Bars = 0 .. MaxNow \div BarLife
  BY DEF Bars
<1>4. IsFiniteSet(0 .. MaxNow \div BarLife)
  BY <1>2, FS_Interval
<1> QED
  BY <1>1, <1>2, <1>3, <1>4

\* An idea that is well made fits.
LEMMA MadeFits ==
  ASSUME ScannerTyped, NEW key \in IdeaKey, NEW high \in BOOLEAN,
         key[1] = "major" => (key[2] + 1) * BarLife <= now
  PROVE  Fits(Idea(key, high))
<1>1. now \in Nat /\ life \in Nat
  BY ScannerAssumption DEF ScannerTyped, Minutes
<1>2. Idea(key, high) = [key |-> key, high |-> high, at |-> now, life |-> life]
  BY DEF Idea
<1>3. Idea(key, high) \in IdeaRow
  BY <1>1, <1>2 DEF IdeaRow
<1>4. life <= life
  BY <1>1
<1> QED
  BY <1>2, <1>3, <1>4 DEF Fits, Over

\* The ideas of the majors fit: what is judged is over.
LEMMA MajorsFit ==
  ASSUME ScannerInv, NEW sure \in BOOLEAN
  PROVE  IsFiniteSet(Majors(sure)) /\ \A idea \in Majors(sure) : Fits(idea)
<1> DEFINE B == {c \in Judged : bars[c].mood # "calm"}
           I(b) == Idea(MajorKey(b), sure /\ Viable("majors", Gross[bars[b].mood]))
           f == [b \in B |-> I(b)]
<1>1. Majors(sure) = {I(b) : b \in B}
  BY DEF Majors
<1>2. B \subseteq Bars
  BY DEF Judged
<1>3. IsFiniteSet(B)
  BY <1>2, ScannerConstants, FS_Subset
<1>4. f \in Surjection(B, Majors(sure))
  <2>1. f \in [B -> Majors(sure)]
    <3> HIDE DEF I
    <3> QED
      BY <1>1
  <2>2. \A t \in Majors(sure) : \E s \in B : f[s] = t
    <3> HIDE DEF I
    <3> QED
      BY <1>1
  <2> QED
    BY <2>1, <2>2 DEF Surjection
<1>5. IsFiniteSet(Majors(sure))
  <2> HIDE DEF f, B
  <2> QED
    BY <1>3, <1>4, FS_Surjection
<1>6. ASSUME NEW b \in B PROVE Fits(I(b))
  <2>1. b \in Bars /\ b \in Nat /\ ~Forming(b)
    BY <1>2, ScannerConstants DEF Judged
  <2>2. now \in Nat /\ BarLife \in Nat
    BY ScannerConstants DEF ScannerInv, ScannerTyped, Minutes
  <2>3. (b + 1) * BarLife <= now
    <3>1. (b + 1) * BarLife \in Nat
      BY <2>1, <2>2
    <3> QED
      BY <2>1, <2>2, <3>1 DEF Forming
  <2>4. MajorKey(b) \in IdeaKey /\ MajorKey(b)[2] = b
    BY <2>1 DEF MajorKey, IdeaKey
  <2>5. (sure /\ Viable("majors", Gross[bars[b].mood])) \in BOOLEAN
    OBVIOUS
  <2>6. MajorKey(b)[1] = "major" => (MajorKey(b)[2] + 1) * BarLife <= now
    BY <2>3, <2>4
  <2>7. ScannerTyped
    BY DEF ScannerInv
  <2> QED
    BY <2>4, <2>5, <2>6, <2>7, MadeFits
<1> QED
  BY <1>1, <1>5, <1>6

\* So do those of tokens, which are of no bar.
LEMMA TokensFit ==
  ASSUME ScannerInv, NEW T, T \in SUBSET Launch \/ T \in SUBSET Trend, NEW high \in BOOLEAN
  PROVE  LET found == {Idea(TokenKey(t), high) : t \in T}
         IN  IsFiniteSet(found) /\ \A idea \in found : Fits(idea)
<1> DEFINE I(t) == Idea(TokenKey(t), high)
           found == {I(t) : t \in T}
           f == [t \in T |-> I(t)]
<1>1. IsFiniteSet(T)
  BY ScannerConstants, FS_Subset
<1>2. f \in Surjection(T, found)
  <2> HIDE DEF I
  <2> QED
    BY DEF Surjection
<1>3. IsFiniteSet(found)
  <2> HIDE DEF f, found
  <2> QED
    BY <1>1, <1>2, FS_Surjection
<1>4. ASSUME NEW t \in T PROVE Fits(I(t))
  <2>1. ScannerTyped /\ now \in Nat
    BY DEF ScannerInv, ScannerTyped, Minutes
  <2>2. now \div Bucket \in Nat
    BY <2>1, ScannerAssumption, QuotientFits
  <2>3. TokenKey(t) \in IdeaKey /\ TokenKey(t)[1] = t /\ t # "major"
    BY <2>2, ScannerAssumption DEF TokenKey, IdeaKey
  <2> QED
    BY <2>1, <2>3, MadeFits
<1> QED
  BY <1>3, <1>4

\* A pass finds what fits.
LEMMA FoundFits ==
  ASSUME ScannerInv, NEW busy \in SUBSET Launch, NEW sure \in BOOLEAN
  PROVE  AccFits(Found(busy, sure))
<1> DEFINE A == Majors(sure)
           B == Launches(busy)
           C == Trends
           list == SetToSeq(A) \o SetToSeq(B) \o SetToSeq(C)
<1>1. IsFiniteSet(A) /\ \A idea \in A : Fits(idea)
  BY MajorsFit
<1>2. IsFiniteSet(B) /\ \A idea \in B : Fits(idea)
  <2> DEFINE high == Viable("pumpfun", 600)
  <2>1. high \in BOOLEAN
    BY DEF Viable
  <2>2. B = {Idea(TokenKey(t), high) : t \in busy}
    BY DEF Launches
  <2> HIDE DEF high, B
  <2> QED
    BY <2>1, <2>2, TokensFit
<1>3. IsFiniteSet(C) /\ \A idea \in C : Fits(idea)
  <2>1. trending \in SUBSET Trend
    BY DEF ScannerInv, ScannerTyped
  <2>2. C = {Idea(TokenKey(t), FALSE) : t \in trending}
    BY DEF Trends
  <2> HIDE DEF C
  <2> QED
    BY <2>1, <2>2, TokensFit
<1> HIDE DEF A, B, C
<1>4. /\ SetToSeq(A) \in Seq(A \cup B \cup C) /\ SetToSeq(B) \in Seq(A \cup B \cup C)
      /\ SetToSeq(C) \in Seq(A \cup B \cup C)
  <2>1. SetToSeq(A) \in Seq(A) /\ SetToSeq(B) \in Seq(B) /\ SetToSeq(C) \in Seq(C)
    BY <1>1, <1>2, <1>3, ListOf
  <2> QED
    BY <2>1
<1>5. list \in Seq(A \cup B \cup C)
  BY <1>4
<1> HIDE DEF list
<1>6. Len(list) \in Nat /\ \A i \in 1 .. Len(list) : list[i] \in A \cup B \cup C
  BY <1>5
<1>7. \A i \in 1 .. Len(list) : Fits(list[i])
  BY <1>1, <1>2, <1>3, <1>6
<1>8. AccFits(Sifted(list))
  BY <1>6, <1>7, SiftedFits
<1> QED
  BY <1>8 DEF Found, list, A, B, C

\* Rows that are left after the oldest are deleted fit as they did.
LEMMA SuffixFits ==
  ASSUME ScannerTyped, NEW keys, NEW rows, IdeasFit(keys, rows), NEW n \in 0 .. Len(rows)
  PROVE  IdeasFit(keys, SubSeq(rows, n + 1, Len(rows)))
<1> DEFINE R == SubSeq(rows, n + 1, Len(rows))
           N == Len(rows)
<1>1. rows \in Seq(IdeaRow) /\ N \in Nat
  BY DEF IdeasFit
<1>2. R \in Seq(IdeaRow) /\ Len(R) = N - n /\ \A i \in 1 .. N - n : R[i] = rows[n + i]
  BY <1>1
<1> HIDE DEF R
<1>3. Memory(keys, R)
  <2> SUFFICES ASSUME NEW i \in 1 .. Len(R), R[i].life = life
               PROVE  \/ Len(R) - i >= Keep
                      \/ Len(R) - i < Len(keys) /\ keys[Len(keys) - (Len(R) - i)] = R[i].key
    BY DEF Memory
  <2>1. n + i \in 1 .. N /\ Len(R) - i = N - (n + i) /\ R[i] = rows[n + i]
    BY <1>1, <1>2
  <2>2. Memory(keys, rows)
    BY DEF IdeasFit
  <2> QED
    BY <2>1, <2>2 DEF Memory
<1>4. Spread(R)
  <2> SUFFICES ASSUME NEW i \in 1 .. Len(R), NEW j \in 1 .. Len(R), i < j,
                      R[i].key = R[j].key, R[i].life = R[j].life
               PROVE  j - i > Keep
    BY DEF Spread
  <2>1. /\ n + i \in 1 .. N /\ n + j \in 1 .. N /\ n + i < n + j
        /\ R[i] = rows[n + i] /\ R[j] = rows[n + j]
    BY <1>1, <1>2
  <2>2. Spread(rows)
    BY DEF IdeasFit
  <2>3. (n + j) - (n + i) > Keep
    BY <2>1, <2>2 DEF Spread
  <2> QED
    BY <1>1, <1>2, <2>3
<1>5. \A i \in 1 .. Len(R) : Over(R[i])
  <2> SUFFICES ASSUME NEW i \in 1 .. Len(R) PROVE Over(R[i])
    OBVIOUS
  <2>1. n + i \in 1 .. N /\ R[i] = rows[n + i]
    BY <1>1, <1>2
  <2>2. \A j \in 1 .. N : Over(rows[j])
    BY DEF IdeasFit
  <2> QED
    BY <2>1, <2>2
<1>6. IdeasFit(keys, R)
  BY <1>2, <1>3, <1>4, <1>5 DEF IdeasFit
<1> QED
  BY <1>6 DEF R

LEMMA KeptFits ==
  ASSUME ScannerTyped, NEW keys, NEW rows, IdeasFit(keys, rows)
  PROVE  IdeasFit(keys, Kept(rows))
<1> DEFINE old == {i \in DOMAIN rows : rows[i].at < now - Day}
<1>1. rows \in Seq(IdeaRow) /\ Len(rows) \in Nat /\ DOMAIN rows = 1 .. Len(rows)
  BY DEF IdeasFit
<1>2. IsFiniteSet(1 .. Len(rows)) /\ Cardinality(1 .. Len(rows)) = Len(rows)
  BY <1>1, FS_Interval
<1>3. old \in SUBSET (1 .. Len(rows))
  BY <1>1
<1> HIDE DEF old
<1>4. IsFiniteSet(old) /\ Cardinality(old) <= Len(rows)
  BY <1>2, <1>3, FS_Subset
<1>5. Cardinality(old) \in 0 .. Len(rows)
  BY <1>1, <1>4, FS_CardinalityType
<1>6. IdeasFit(keys, SubSeq(rows, Cardinality(old) + 1, Len(rows)))
  BY <1>5, SuffixFits
<1> QED
  BY <1>6 DEF Kept, old
-----------------------------------------------------------------------------
(* The actions.                                                             *)

LEMMA ScannerInitInv == ScannerInit => ScannerInv
<1> SUFFICES ASSUME ScannerInit PROVE ScannerInv
  OBVIOUS
<1>1. ScannerTyped
  BY ScannerAssumption DEF ScannerInit, ScannerTyped, Minutes, Up
<1>2. BarsClosed
  BY DEF ScannerInit, BarsClosed
<1>3. IdeasFit(seen, ideas)
  BY DEF ScannerInit, IdeasFit, Memory, Spread
<1> QED
  BY <1>1, <1>2, <1>3 DEF ScannerInv

\* What was said was said, while the process lives.
LEMMA StillFits ==
  ASSUME ScannerInv, UNCHANGED <<seen, ideas, life>> PROVE IdeasFit(seen, ideas)'
BY DEF ScannerInv, IdeasFit, Memory, Spread, Over

LEMMA MinuteEndsKeeps == ASSUME ScannerInv, MinuteEnds PROVE ScannerInv'
<1>1. /\ now \in Minutes /\ now < MaxNow /\ now' = now + 1 /\ MaxNow \in Nat
      /\ UNCHANGED <<minutes, bars, heard, boot, forming, trending, seen, ideas, life>>
  BY ScannerAssumption DEF ScannerInv, ScannerTyped, MinuteEnds
<1>2. ScannerTyped'
  BY <1>1 DEF ScannerInv, ScannerTyped, Minutes, Up
<1>3. BarsClosed'
  BY <1>1 DEF ScannerInv, BarsClosed, Gap
<1> QED
  BY <1>1, <1>2, <1>3, StillFits DEF ScannerInv

\* The minute that ends a bar rolls it up: whole, or with the gap it has.
LEMMA MinuteComesKeeps ==
  ASSUME ScannerInv, NEW m \in Minutes, NEW row \in {"part", "whole"}, NEW mood \in Mood,
         MinuteComes(m, row, mood)
  PROVE  ScannerInv'
<1>0. /\ ScannerTyped /\ BarsClosed /\ MaxNow \in Nat /\ Minutes \subseteq Nat
      /\ now \in Nat /\ m \in Nat /\ BarOf(m) \in Bars
      /\ heard \in Int /\ heard < m /\ m < now
  BY ScannerAssumption, BarOfNow DEF ScannerInv, ScannerTyped, Minutes, MinuteComes
<1>1. /\ boot = Up /\ heard' = m /\ minutes' = [minutes EXCEPT ![m] = row]
      /\ UNCHANGED <<now, boot, trending, seen, ideas, life>>
  BY DEF MinuteComes
<1> DEFINE b == BarOf(m)
           w == AllCame(b)'
<1>2. \/ /\ EndsBar(m) /\ bars' = [bars EXCEPT ![b] = [whole |-> w, mood |-> mood]]
         /\ forming' = forming \ {b}
      \/ bars' = bars /\ forming' = forming
  BY DEF MinuteComes
<1>3. w \in BOOLEAN
  BY DEF AllCame
<1>4. minutes \in [Minutes -> {"none", "part", "whole"}] /\ minutes' \in [Minutes -> {"none", "part", "whole"}]
  BY <1>0, <1>1 DEF ScannerTyped
<1>5. EndsBar(m) /\ ~w => Gap(b)'
  <2> SUFFICES ASSUME EndsBar(m), ~w PROVE Gap(b)'
    OBVIOUS
  <2>1. PICK n \in Minutes : BarOf(n) = b /\ minutes'[n] # "whole"
    BY DEF AllCame, Minutes, BarOf
  <2>2. n <= m
    BY <1>0, <2>1, BarOrder
  <2> QED
    BY <1>1, <2>1, <2>2 DEF Gap, Minutes, BarOf
<1>6. \A c \in Bars : Gap(c) => Gap(c)'
  <2> SUFFICES ASSUME NEW c \in Bars, Gap(c) PROVE Gap(c)'
    OBVIOUS
  <2>1. PICK n \in Minutes : BarOf(n) = c /\ n <= heard /\ minutes[n] # "whole"
    BY DEF Gap
  <2>2. n \in Nat /\ n # m /\ n <= m
    BY <1>0, <2>1
  <2>3. minutes'[n] = minutes[n]
    BY <1>1, <1>4, <2>1, <2>2
  <2> QED
    BY <1>1, <2>1, <2>2, <2>3 DEF Gap, Minutes, BarOf
<1> HIDE DEF w
<1>7. [whole |-> w, mood |-> mood] \in BarRow
  BY <1>3 DEF BarRow
<1>8. bars \in [Bars -> BarRow \cup {NoBar}] /\ forming \subseteq Bars
  BY <1>0 DEF ScannerTyped
<1>9. bars' \in [Bars -> BarRow \cup {NoBar}] /\ forming' \subseteq Bars
  BY <1>2, <1>7, <1>8
<1>10. ScannerTyped'
  BY <1>0, <1>1, <1>4, <1>9 DEF ScannerTyped, Minutes, Up
<1>11. BarsClosed'
  <2> SUFFICES ASSUME NEW c \in Bars, bars'[c] # NoBar, ~bars'[c].whole
               PROVE  Gap(c)' \/ c \in forming'
    BY DEF BarsClosed, Bars
  <2>1. CASE bars'[c] = bars[c] /\ (c \in forming => c \in forming')
    BY <1>0, <1>6, <2>1 DEF BarsClosed
  <2>2. CASE /\ c = b /\ EndsBar(m)
             /\ bars' = [bars EXCEPT ![b] = [whole |-> w, mood |-> mood]]
    <3>1. bars'[c].whole = w
      BY <1>8, <2>2
    <3> QED
      BY <1>5, <2>2, <3>1
  <2>3. CASE c # b
    <3>1. bars'[c] = bars[c] /\ (c \in forming => c \in forming')
      BY <1>2, <1>8, <2>3
    <3> QED
      BY <2>1, <3>1
  <2>4. CASE c = b
    <3>1. CASE bars' = bars /\ forming' = forming
      BY <2>1, <3>1
    <3>2. CASE /\ EndsBar(m) /\ bars' = [bars EXCEPT ![b] = [whole |-> w, mood |-> mood]]
               /\ forming' = forming \ {b}
      BY <2>2, <2>4, <3>2
    <3> QED
      BY <1>2, <3>1, <3>2, Zenon
  <2> QED
    BY <2>3, <2>4
<1> QED
  BY <1>1, <1>10, <1>11, StillFits DEF ScannerInv

\* What a backfill stores is whole, or of the bar that is forming.
LEMMA BackfilledKeeps ==
  ASSUME ScannerInv, NEW at \in Minutes, NEW mood \in Mood, NEW late \in Mood,
         Backfilled(at, mood, late)
  PROVE  ScannerInv'
<1>0. /\ ScannerTyped /\ BarsClosed /\ MaxNow \in Nat /\ Minutes \subseteq Nat /\ Bars \subseteq Nat
      /\ now \in Nat /\ at \in Nat /\ BarOf(at) \in Bars
      /\ heard \in Int /\ boot \in Nat /\ heard < boot /\ boot <= at /\ at <= now
  BY ScannerConstants, BarOfNow DEF ScannerInv, ScannerTyped, Minutes, Backfilled, Up
<1>1. /\ boot' = Up /\ heard' = at - 1
      /\ minutes' = [m \in Minutes |-> IF m < at THEN "whole" ELSE IF m = at THEN "part" ELSE minutes[m]]
      /\ bars' = [b \in Bars |->
           IF b > BarOf(at) THEN bars[b]
           ELSE IF b = BarOf(at) THEN [whole |-> FALSE, mood |-> late]
           ELSE IF bars[b].whole THEN bars[b] ELSE [whole |-> TRUE, mood |-> mood]]
      /\ forming' = (forming \ {b \in Bars : b < BarOf(at)}) \cup {BarOf(at)}
      /\ UNCHANGED <<now, trending, seen, ideas, life>>
  BY DEF Backfilled
<1>2. /\ minutes \in [Minutes -> {"none", "part", "whole"}]
      /\ bars \in [Bars -> BarRow \cup {NoBar}] /\ forming \subseteq Bars
  BY <1>0 DEF ScannerTyped
<1>3. minutes' \in [Minutes -> {"none", "part", "whole"}]
  BY <1>1, <1>2
<1>4. ASSUME NEW b \in Bars
      PROVE  /\ bars'[b] \in BarRow \cup {NoBar}
             /\ b < BarOf(at) => bars'[b].whole
             /\ b > BarOf(at) => bars'[b] = bars[b]
  <2>0. bars[b] \in BarRow \cup {NoBar} /\ b \in Nat /\ BarOf(at) \in Nat
    BY <1>0, <1>2
  <2>1. CASE b > BarOf(at)
    BY <1>1, <2>0, <2>1
  <2>2. CASE b = BarOf(at)
    BY <1>1, <2>0, <2>2 DEF BarRow
  <2>3. CASE b < BarOf(at) /\ bars[b].whole
    BY <1>1, <2>0, <2>3
  <2>4. CASE b < BarOf(at) /\ ~bars[b].whole
    BY <1>1, <2>0, <2>4 DEF BarRow
  <2> QED
    BY <2>0, <2>1, <2>2, <2>3, <2>4
<1>5. bars' \in [Bars -> BarRow \cup {NoBar}]
  BY <1>1, <1>4
<1>6. ScannerTyped'
  <2>1. heard' \in -1 .. now' - 1
    BY <1>0, <1>1
  <2>2. forming' \subseteq Bars
    <3>1. forming \subseteq Bars /\ BarOf(at) \in Bars
      BY <1>0, <1>2
    <3>2. forming' = (forming \ {b \in Bars : b < BarOf(at)}) \cup {BarOf(at)}
      BY <1>1
    <3> QED
      BY <3>1, <3>2, Zenon
  <2> QED
    BY <1>0, <1>1, <1>3, <1>5, <2>1, <2>2 DEF ScannerTyped
<1>7. BarsClosed'
  <2> SUFFICES ASSUME NEW b \in Bars, bars'[b] # NoBar, ~bars'[b].whole
               PROVE  b \in forming'
    BY DEF BarsClosed, Bars
  <2>1. b \in Nat /\ BarOf(at) \in Nat /\ ~(b < BarOf(at))
    BY <1>0, <1>4
  <2>2. CASE b = BarOf(at)
    BY <1>1, <2>2
  <2>3. CASE b > BarOf(at)
    <3>1. bars'[b] = bars[b]
      BY <1>4, <2>3
    <3>2. ~Gap(b)
      <4> SUFFICES ASSUME NEW m \in Minutes, BarOf(m) = b, m <= heard PROVE FALSE
        BY DEF Gap
      <4>1. m \in Nat /\ m <= at
        BY <1>0
      <4>2. BarOf(m) <= BarOf(at)
        BY <1>0, <4>1, BarOrder
      <4> QED
        BY <2>1, <2>3, <4>2
    <3>3. b \in forming
      BY <1>0, <3>1, <3>2 DEF BarsClosed
    <3> QED
      BY <1>1, <2>1, <2>3, <3>3
  <2> QED
    BY <2>1, <2>2, <2>3
<1> QED
  BY <1>1, <1>6, <1>7, StillFits DEF ScannerInv

LEMMA BackfillFailsKeeps == ASSUME ScannerInv, BackfillFails PROVE ScannerInv'
<1>1. boot' = Up /\ UNCHANGED <<now, minutes, bars, heard, forming, trending, seen, ideas, life>>
  BY DEF BackfillFails
<1>2. ScannerTyped' /\ BarsClosed'
  BY <1>1 DEF ScannerInv, ScannerTyped, BarsClosed, Gap
<1> QED
  BY <1>1, <1>2, StillFits DEF ScannerInv

LEMMA PollsKeeps ==
  ASSUME ScannerInv, NEW tokens \in SUBSET Trend, Polls(tokens) PROVE ScannerInv'
<1>1. trending' = tokens /\ UNCHANGED <<feedVars, seen, ideas, life>>
  BY DEF Polls
<1>2. ScannerTyped' /\ BarsClosed'
  BY <1>1 DEF ScannerInv, ScannerTyped, BarsClosed, Gap, feedVars
<1> QED
  BY <1>1, <1>2, StillFits DEF ScannerInv

LEMMA PassKeeps ==
  ASSUME ScannerInv, NEW busy \in SUBSET Launch, NEW sure \in BOOLEAN, RunPass(busy, sure)
  PROVE  ScannerInv'
<1> DEFINE pass == Found(busy, sure)
<1>1. /\ seen' = pass.seen /\ ideas' = Kept(ideas \o pass.found)
      /\ UNCHANGED <<feedVars, trending, life>>
  BY DEF RunPass
<1>2. AccFits(pass)
  BY FoundFits
<1> HIDE DEF pass
<1>3. ScannerTyped
  BY DEF ScannerInv
<1>4. IdeasFit(pass.seen, ideas \o pass.found)
  BY <1>2 DEF AccFits
<1>5. IdeasFit(pass.seen, Kept(ideas \o pass.found))
  BY <1>3, <1>4, KeptFits
<1>6. IdeasFit(seen', ideas')
  BY <1>1, <1>5
<1>7. IdeasFit(seen, ideas)'
  BY <1>1, <1>6 DEF IdeasFit, Memory, Spread, Over
<1>8. ScannerTyped' /\ BarsClosed'
  BY <1>1 DEF ScannerInv, ScannerTyped, BarsClosed, Gap, feedVars
<1> QED
  BY <1>7, <1>8 DEF ScannerInv

LEMMA RebootKeeps == ASSUME ScannerInv, Reboot PROVE ScannerInv'
<1>0. /\ ScannerTyped /\ IdeasFit(seen, ideas) /\ life \in Nat /\ now \in Nat /\ heard < now
  BY ScannerAssumption DEF ScannerInv, ScannerTyped, Minutes
<1>1. /\ life' = life + 1 /\ life' \in 1 .. MaxLife /\ seen' = <<>> /\ trending' = {}
      /\ boot' = now /\ UNCHANGED <<now, minutes, bars, heard, forming, ideas>>
  BY <1>0, ScannerAssumption DEF Reboot, ScannerTyped
<1>2. ScannerTyped' /\ BarsClosed'
  BY <1>0, <1>1 DEF ScannerInv, ScannerTyped, BarsClosed, Gap
<1>3. IdeasFit(seen, ideas)'
  <2>1. ASSUME NEW i \in 1 .. Len(ideas)
        PROVE  ideas[i].life <= life /\ ideas[i].life \in Nat /\ ideas[i].life # life'
    <3>1. ideas[i] \in IdeaRow /\ ideas[i].life <= life
      BY <1>0 DEF IdeasFit, Over
    <3> QED
      BY <1>0, <1>1, <3>1 DEF IdeaRow
  <2>2. Memory(seen, ideas)'
    BY <1>1, <2>1 DEF Memory
  <2>3. \A i \in 1 .. Len(ideas) : ideas[i].life <= life'
    BY <1>0, <1>1, <2>1
  <2>4. (\A i \in 1 .. Len(ideas) : Over(ideas[i]))'
    BY <1>0, <1>1, <2>3 DEF IdeasFit, Over
  <2>5. Spread(ideas)' /\ ideas' \in Seq(IdeaRow) /\ seen' \in Seq(IdeaKey)
    BY <1>0, <1>1 DEF IdeasFit, Spread
  <2> QED
    BY <2>2, <2>4, <2>5 DEF IdeasFit
<1> QED
  BY <1>2, <1>3 DEF ScannerInv

LEMMA ScannerNextKeeps == ScannerInv /\ [ScannerNext]_scannerVars => ScannerInv'
<1> SUFFICES ASSUME ScannerInv, [ScannerNext]_scannerVars PROVE ScannerInv'
  OBVIOUS
<1>1. CASE UNCHANGED scannerVars
  <2>1. UNCHANGED <<feedVars, trending, seen, ideas, life>>
    BY <1>1 DEF scannerVars
  <2>2. ScannerTyped' /\ BarsClosed'
    BY <2>1 DEF ScannerInv, ScannerTyped, BarsClosed, Gap, feedVars
  <2> QED
    BY <2>1, <2>2, StillFits DEF ScannerInv
<1> QED
  BY <1>1, MinuteEndsKeeps, BackfillFailsKeeps, RebootKeeps, MinuteComesKeeps,
     BackfilledKeeps, PollsKeeps, PassKeeps
  DEF ScannerNext

LEMMA ScannerInvSound == ScannerInv => IdeasSound
<1> SUFFICES ASSUME ScannerInv PROVE IdeasSound
  OBVIOUS
<1>1. /\ ideas \in Seq(IdeaRow) /\ DOMAIN ideas = 1 .. Len(ideas)
      /\ Spread(ideas) /\ \A i \in 1 .. Len(ideas) : Over(ideas[i])
  BY DEF ScannerInv, IdeasFit
<1>2. NoEarlyRepeat
  BY <1>1 DEF NoEarlyRepeat, Spread
<1>3. \A b \in Judged : bars[b].whole \/ Gap(b) \/ b \in forming
  BY DEF ScannerInv, BarsClosed, Judged
<1>4. JudgedClosed
  BY <1>1, <1>3 DEF JudgedClosed, Over
<1> QED
  BY <1>2, <1>4 DEF IdeasSound

\* What the scanners say, they say once, and of bars that are over: a process
\* repeats an idea only after as many newer ones as it keeps (opportunityEngine.ts,
\* fresh), and judges a bar that is over and whole, unless a minute of it was
\* missed or a backfill's row of it still waits for the last (scanMajors;
\* candles.ts, tryAggregate).
THEOREM IdeasTheorem == ScannerSpec => []IdeasSound
<1>1. ScannerInit => ScannerInv
  BY ScannerInitInv
<1>2. ScannerInv /\ [ScannerNext]_scannerVars => ScannerInv'
  BY ScannerNextKeeps
<1>3. ScannerInv => IdeasSound
  BY ScannerInvSound
<1> QED
  BY <1>1, <1>2, <1>3, PTL DEF ScannerSpec
-----------------------------------------------------------------------------
(* Services: all parts in one process.                                     *)

\* A step of the services is a step of a part, and the other parts rest.
LEMMA ServicesSteps ==
  ASSUME [ServicesNext]_servicesVars
  PROVE  /\ [MembershipNext]_membershipVars /\ [PayoutNext]_payoutVars
         /\ [PublisherNext]_publisherVars /\ [WindowNext]_windowVars
         /\ [IdentityNext]_identityVars /\ [DeskNext]_deskVars
         /\ [ClaimsNext]_claimsVars /\ [SeasonNext]_seasonVars
         /\ [CustodyNext]_custodyVars /\ [ScannerNext]_scannerVars
<1>1. CASE UNCHANGED servicesVars
  BY <1>1 DEF servicesVars
<1>2. CASE ServicesNext
  BY <1>2 DEF ServicesNext, Only
<1> QED
  BY <1>1, <1>2

\* A season pays each owner once, a day's trades up to the cap, a weight is
\* earned by claims that beat a coin flip, and an idea is said once
\* (social/seasons.ts, social/xp.ts, research/scoring.ts,
\* live/opportunityEngine.ts).
THEOREM StandingsTheorem == SeasonSpec /\ ClaimsSpec /\ ScannerSpec => []StandingsSound
<1>1. SeasonsPayOnce /\ WeightEarned /\ IdeasSound => StandingsSound
  BY DEF StandingsSound
<1> QED
  BY <1>1, SeasonsHold, ClaimsHold, IdeasTheorem, PTL

\* Each part keeps its promise in the process that runs all of them
\* (server/src/index.ts).
THEOREM ServicesTheorem ==
  ServicesSpec =>
    /\ [](OnePeriodEach /\ WithinProfit /\ PostsHaveSlots /\ AccountsSound)
    /\ [](LimitsReturn /\ OverspendBounded /\ StandingsSound /\ CustodySound)
    /\ PaidOnce
<1>1. ServicesInit => MembershipInit /\ PayoutInit /\ PublisherInit /\ WindowInit
                      /\ IdentityInit /\ DeskInit /\ ClaimsInit /\ SeasonInit /\ CustodyInit
                      /\ ScannerInit
  BY DEF ServicesInit
<1>2. ServicesSpec => /\ MembershipSpec /\ PayoutSpec /\ PublisherSpec
                      /\ IdentitySpec /\ WindowSpec /\ DeskSpec
                      /\ ClaimsSpec /\ SeasonSpec /\ CustodySpec /\ ScannerSpec
  BY <1>1, ServicesSteps, PTL
  DEF ServicesSpec, MembershipSpec, PayoutSpec, PublisherSpec, IdentitySpec, WindowSpec,
      DeskSpec, ClaimsSpec, SeasonSpec, CustodySpec, ScannerSpec
<1> QED
  BY <1>2, MembershipTheorem, PayoutTheorem, PublisherTheorem, IdentityTheorem,
     LimitsTheorem, OverspendTheorem, PaidOnceTheorem, StandingsTheorem, CustodyTheorem,
     PTL
=============================================================================
