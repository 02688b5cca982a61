--------------------------------- MODULE Claims ---------------------------------
(***************************************************************************)
(* Predictions and what they earn (research/predictions.ts,                *)
(* research/scoring.ts): an agent claims something with a probability, a   *)
(* cron settles or voids what is due, and the record moves the weights of  *)
(* the confidence score.                                                   *)
(*                                                                         *)
(* A resolution is synchronous, but every settled claim is a commit of its *)
(* own, then the scores, then the weights: a crash leaves the last two     *)
(* behind.  Probabilities are tenths, Brier scores hundredths; prices and  *)
(* what they say of a claim are free.                                      *)
(***************************************************************************)
EXTENDS Integers, FiniteSetsExt

CONSTANTS MaxClaims,   \* bound: claims
          Odds         \* the tenths that are claimed

ASSUME ClaimsAssumption ==
  MaxClaims \in Nat /\ Odds \subseteq 0 .. 10

VARIABLES claims,    \* agent_predictions
          scores,    \* agent_scores: by kind
          weights,   \* confidence_weights, the newest version, by component
          behind     \* settled by a pass that crashed before it scored (ghost)

claimsVars == <<claims, scores, weights, behind>>

\* One agent; each kind is evidence about one component.
Kinds == {"direction", "edge_survives"}
Component == [direction |-> "strategy", edge_survives |-> "cost"]
Components == {"strategy", "cost"}
CoinFlip == 25

Tally == [n : 0 .. MaxClaims, sum : 0 .. 100 * MaxClaims]
ClaimsRow == [state : {"none", "open", "due", "yes", "no", "void"},
              kind : Kinds, odds : 0 .. 10]

ClaimsTypeOK ==
  /\ claims \in [1 .. MaxClaims -> ClaimsRow]
  /\ scores \in [Kinds -> Tally]
  /\ weights \in [Components -> Tally]
  /\ behind \in BOOLEAN

NoRecord == [n |-> 0, sum |-> 0]

ClaimsInit ==
  /\ claims = [c \in 1 .. MaxClaims |->
       [state |-> "none", kind |-> "direction", odds |-> 0]]
  /\ scores = [k \in Kinds |-> NoRecord]
  /\ weights = [k \in Components |-> NoRecord]
  /\ behind = FALSE
-----------------------------------------------------------------------------
\* How far the claim was off; squared.
Miss(row) == IF row.state = "yes" THEN 10 - row.odds ELSE row.odds
Brier(row) == Miss(row) * Miss(row)

\* Mutant of Counted: a claim without a mark is counted as one that failed.
CountedVoid(row) == row.state \in {"yes", "no", "void"}

\* Voided claims are excluded from every score.
Counted(row) == row.state \in {"yes", "no"}

\* The resolved claims of some kinds, in a table of claims.
RecordOf(table, kinds) ==
  LET rows == {c \in 1 .. MaxClaims : Counted(table[c]) /\ table[c].kind \in kinds}
  IN  [n |-> Cardinality(rows), sum |->
         SumFunctionOnSet([c \in 1 .. MaxClaims |-> Brier(table[c])], rows)]

\* rebuildAgentScores; rows of a kind without claims are not touched.
Scored(table) == [k \in Kinds |-> RecordOf(table, {k})]

\* componentEvidence.
Evidence(table) ==
  [c \in Components |-> RecordOf(table, {k \in Kinds : Component[k] = c})]

\* computeWeights, before the weights are normalised: what a record adds to its
\* component's base, in parts of 50 * (n + SHRINK_N) of it; at most half.
Earned(r) ==
  LET skill == CoinFlip * r.n - r.sum
  IN  IF skill < -(CoinFlip * r.n) THEN -(CoinFlip * r.n) ELSE skill

-----------------------------------------------------------------------------
OpenClaim(k, odds) ==
  /\ \E c \in 1 .. MaxClaims :
       /\ claims[c].state = "none" /\ \A d \in 1 .. c - 1 : claims[d].state # "none"
       /\ claims' = [claims EXCEPT ![c] = [state |-> "open", kind |-> k, odds |-> odds]]
  /\ UNCHANGED <<scores, weights, behind>>

HorizonPasses(c) ==
  /\ claims[c].state = "open"
  /\ claims' = [claims EXCEPT ![c].state = "due"]
  /\ UNCHANGED <<scores, weights, behind>>

DueClaims == {c \in 1 .. MaxClaims : claims[c].state = "due"}

\* resolvePredictions over the claims that are done before it ends or crashes.
ResolvedTo(done) ==
  {[c \in 1 .. MaxClaims |->
      IF c \in done THEN [claims[c] EXCEPT !.state = fate[c]] ELSE claims[c]] :
   fate \in [done -> {"yes", "no", "void"}]}

\* A pass that settles nothing scores nothing.
Resolve ==
  /\ DueClaims # {}
  /\ claims' \in ResolvedTo(DueClaims)
  /\ IF \E c \in DueClaims : claims'[c].state # "void"
     THEN /\ scores' = Scored(claims')
          /\ weights' = Evidence(claims')
          /\ behind' = FALSE
     ELSE UNCHANGED <<scores, weights, behind>>

\* The process dies between two claims, before the scores, or before the weights.
ResolveDies ==
  /\ \E done \in (SUBSET DueClaims) \ {{}} :
       /\ claims' \in ResolvedTo(done)
       /\ scores' \in {scores} \cup (IF done = DueClaims THEN {Scored(claims')} ELSE {})
  /\ behind' = (behind \/ weights # Evidence(claims'))
  /\ UNCHANGED weights

ClaimsNext ==
  \/ Resolve \/ ResolveDies
  \/ \E k \in Kinds, odds \in Odds : OpenClaim(k, odds)
  \/ \E c \in 1 .. MaxClaims : HorizonPasses(c)

ClaimsSpec == ClaimsInit /\ [][ClaimsNext]_claimsVars
-----------------------------------------------------------------------------
(* Properties.                                                              *)

\* What happened, of the claims that came true or false.
BeatsCoin(c) ==
  LET hits == {d \in 1 .. MaxClaims :
                 claims[d].state \in {"yes", "no"} /\ Component[claims[d].kind] = c}
  IN  SumFunctionOnSet([d \in 1 .. MaxClaims |-> Brier(claims[d]) - CoinFlip], hits) < 0

\* Weight is earned by beating a coin flip and by nothing else: a claim that
\* could not be measured moves nothing, and only a pass that died may leave a
\* weight behind the record until the next one that settles something.
WeightEarned ==
  \A c \in Components :
    /\ ~behind => (Earned(weights[c]) > 0 <=> BeatsCoin(c))
    /\ Earned(weights[c]) <= CoinFlip * weights[c].n
=============================================================================
