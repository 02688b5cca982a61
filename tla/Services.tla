------------------------------- MODULE Services -------------------------------
(***************************************************************************)
(* The parts of the server around its members: their accounts              *)
(* (Identities), the membership they pay for on chain (Membership), what   *)
(* holders are paid (Payouts), what the bots say in public (Publisher) and *)
(* to each other (Desk), what the scanners see (Scanner), what agents      *)
(* predict and earn (Claims, Seasons), the window in which they research   *)
(* (Windows), and how the operator moves custody (Custody).                *)
(*                                                                         *)
(* They share a process and a database and write none of each other's      *)
(* tables but in the ways each module states, so a behaviour here is a     *)
(* behaviour of one of them, the part; the others rest.                    *)
(***************************************************************************)
EXTENDS Membership, Payouts, Publisher, Windows, Identities, Desk, Claims, Seasons,
        Custody, Scanner

CONSTANTS h1, o1, b3       \* a holder, an owner, a house bot

VARIABLE part

Part == {"membership", "payouts", "publisher", "windows", "identities", "desk",
         "claims", "seasons", "custody", "scanner"}

\* Both holders share, or h2 has sunk below the threshold.
MCBalances == {[h \in Holder |-> IF h = h1 THEN 3 ELSE 2],
               [h \in Holder |-> IF h = h1 THEN 3 ELSE 1]}
MCPnl == {-1, 2, 3}

\* b3 is a bot of the house, which no season pays.
MCOwner == [b \in Bot |-> IF b = b3 THEN House ELSE o1]

ServicesInit ==
  /\ part \in Part
  /\ MembershipInit /\ PayoutInit /\ PublisherInit /\ WindowInit
  /\ IdentityInit /\ DeskInit /\ ClaimsInit /\ SeasonInit
  /\ CustodyInit /\ ScannerInit
  /\ part = "custody" \/ (vault = [owner |-> "fits", policies |-> {Standing}, signer |-> "owner", override |-> {}]
       /\ command = "provision" /\ accounts = "joint" /\ held = Asset)

\* The step is p's, and the parts beside it rest.
Only(p) ==
  /\ part = p /\ UNCHANGED part
  /\ IF p = "membership" THEN TRUE ELSE UNCHANGED membershipVars
  /\ IF p = "payouts" THEN TRUE ELSE UNCHANGED payoutVars
  /\ IF p = "publisher" THEN TRUE ELSE UNCHANGED publisherVars
  /\ IF p = "windows" THEN TRUE ELSE UNCHANGED windowVars
  /\ IF p = "identities" THEN TRUE ELSE UNCHANGED identityVars
  /\ IF p = "desk" THEN TRUE ELSE UNCHANGED deskVars
  /\ IF p = "claims" THEN TRUE ELSE UNCHANGED claimsVars
  /\ IF p = "seasons" THEN TRUE ELSE UNCHANGED seasonVars
  /\ IF p = "custody" THEN TRUE ELSE UNCHANGED custodyVars
  /\ IF p = "scanner" THEN TRUE ELSE UNCHANGED scannerVars

ServicesNext ==
  \/ Only("membership") /\ MembershipNext
  \/ Only("payouts") /\ PayoutNext
  \/ Only("publisher") /\ PublisherNext
  \/ Only("windows") /\ WindowNext
  \/ Only("identities") /\ IdentityNext
  \/ Only("desk") /\ DeskNext
  \/ Only("claims") /\ ClaimsNext
  \/ Only("seasons") /\ SeasonNext
  \/ Only("custody") /\ CustodyNext
  \/ Only("scanner") /\ ScannerNext

servicesVars ==
  <<part, membershipVars, payoutVars, publisherVars, windowVars, identityVars,
    deskVars, claimsVars, seasonVars, custodyVars, scannerVars>>

ServicesSpec == ServicesInit /\ [][ServicesNext]_servicesVars
-----------------------------------------------------------------------------
\* What a bot's record shows was earned once: a season pays its winners once,
\* no agent's weight counts a claim that was void, and the scanners say nothing
\* again that they have not forgotten (social/seasons.ts, research/scoring.ts,
\* live/opportunityEngine.ts).
StandingsSound == SeasonsPayOnce /\ WeightEarned /\ IdeasSound
=============================================================================
