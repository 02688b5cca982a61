--------------------------- MODULE MarketsProofs ----------------------------
(***************************************************************************)
(* What holds of the parts that Markets composes, for any tokens,          *)
(* refreshes, prices, amounts, events and bounds: for each part an         *)
(* inductive invariant that implies its property, and one lemma per action *)
(* that the action keeps it. At the end, the server that runs all of them. *)
(***************************************************************************)
EXTENDS Markets, Sums
-----------------------------------------------------------------------------
(* FullMarket: the month of the council keeps to its budget.               *)

\* What a council may still make of the budget: a seat, while it runs; what it
\* cost, when it closed in time, the call that passed its ceiling aside.
Claim(row) ==
  IF row.old THEN 0
  ELSE IF row.state = "running" THEN RunCap
  ELSE IF row.cost > RunCap THEN row.cost - 1 ELSE row.cost
Claimed(c) == [s \in Sweep |-> Claim(c[s])]
Costs(c) == [s \in Sweep |-> c[s].cost]

CouncilRow == [state : {"none", "running", "approved", "rejected", "failed"},
               cost : Nat, old : BOOLEAN]

\* A row is fresh, or passes its ceiling by no more than the last call.
RowSound(row) ==
  /\ row.cost <= RunCap + 1
  /\ row.state = "none" => row.cost = 0 /\ ~row.old
  /\ row.state = "running" => row.cost <= RunCap

\* A panel at work is below the ceiling of its row, which runs or was given up.
Working(row) ==
  row.state # "none" /\ row.cost <= RunCap /\ (row.state = "running" \/ row.old)

CouncilTyped ==
  /\ councils \in [Sweep -> CouncilRow]
  /\ DOMAIN panel = Starter
  /\ \A w \in Starter : panel[w] = [on |-> panel[w].on, turn |-> panel[w].turn]
RowsSound(c) == \A s \in Sweep : RowSound(c[s])
Panels ==
  /\ \A w \in Starter : panel[w].on \in Sweep => Working(councils[panel[w].on])
  /\ panel["cycle"].on \in Sweep => panel["admin"].on # panel["cycle"].on
ClaimsFit == SumFunctionOnSet(Claimed(councils), Sweep) <= Budget

CouncilInv == CouncilTyped /\ RowsSound(councils) /\ Panels /\ ClaimsFit
-----------------------------------------------------------------------------
LEMMA SweepFinite == IsFiniteSet(Sweep)
  BY FullMarketAssumption, FS_Interval DEF Sweep

LEMMA ClaimTyped ==
  ASSUME NEW row \in CouncilRow PROVE Claim(row) \in Nat
  BY FullMarketAssumption DEF Claim, CouncilRow

LEMMA ClaimsTyped ==
  ASSUME NEW c \in [Sweep -> CouncilRow]
  PROVE  /\ \A s \in Sweep : Claimed(c)[s] \in Int
         /\ \A s \in Sweep : Costs(c)[s] \in Int
         /\ SumFunctionOnSet(Claimed(c), Sweep) \in Int
         /\ SumFunctionOnSet(Costs(c), Sweep) \in Int
<1>1. \A s \in Sweep : Claimed(c)[s] \in Int
  BY ClaimTyped DEF Claimed
<1>2. \A s \in Sweep : Costs(c)[s] \in Int
  BY DEF Costs, CouncilRow
<1> QED
  BY <1>1, <1>2, SweepFinite, SumNumbers

\* Claims that do not grow fit as before.
LEMMA ClaimsShrink ==
  ASSUME NEW c \in [Sweep -> CouncilRow], NEW d \in [Sweep -> CouncilRow],
         \A s \in Sweep : Claim(d[s]) <= Claim(c[s])
  PROVE  SumFunctionOnSet(Claimed(d), Sweep) <= SumFunctionOnSet(Claimed(c), Sweep)
<1>1. \A s \in Sweep : Claimed(d)[s] <= Claimed(c)[s]
  BY DEF Claimed
<1>2. \A s \in Sweep : Claimed(d)[s] \in Int /\ Claimed(c)[s] \in Int
  BY ClaimsTyped
<1> QED
  BY <1>1, <1>2, SweepFinite, SumLeq

\* Giving up on stale councils.
LEMMA ExpiredKeeps ==
  ASSUME NEW c \in [Sweep -> CouncilRow], RowsSound(c)
  PROVE  /\ Expired(c) \in [Sweep -> CouncilRow] /\ RowsSound(Expired(c))
         /\ \A s \in Sweep : Working(c[s]) => Working(Expired(c)[s])
         /\ \A s \in Sweep : Claim(Expired(c)[s]) = Claim(c[s])
         /\ \A s \in Sweep : Expired(c)[s].cost = c[s].cost
         /\ \A s \in Sweep : Expired(c)[s].state = "none" <=> c[s].state = "none"
<1> SUFFICES ASSUME NEW s \in Sweep
             PROVE  /\ Expired(c)[s] \in CouncilRow /\ RowSound(Expired(c)[s])
                    /\ Working(c[s]) => Working(Expired(c)[s])
                    /\ Claim(Expired(c)[s]) = Claim(c[s])
                    /\ Expired(c)[s].cost = c[s].cost
                    /\ Expired(c)[s].state = "none" <=> c[s].state = "none"
  BY DEF Expired, RowsSound
<1>1. c[s] \in CouncilRow /\ RowSound(c[s])
  BY DEF RowsSound
<1>2. CASE c[s].state = "running" /\ c[s].old
  <2>1. Expired(c)[s] = [c[s] EXCEPT !.state = "failed"]
    BY <1>2 DEF Expired
  <2>2. /\ Expired(c)[s] \in CouncilRow
        /\ Expired(c)[s].cost = c[s].cost /\ Expired(c)[s].old = c[s].old
        /\ Expired(c)[s].state = "failed"
    BY <1>1, <2>1 DEF CouncilRow
  <2>3. RowSound(Expired(c)[s])
    BY <1>1, <2>2 DEF RowSound
  <2>4. Working(c[s]) => Working(Expired(c)[s])
    BY <1>2, <2>2 DEF Working
  <2>5. Claim(Expired(c)[s]) = Claim(c[s])
    BY <1>2, <2>2 DEF Claim
  <2> QED
    BY <1>2, <2>2, <2>3, <2>4, <2>5
<1>3. CASE ~(c[s].state = "running" /\ c[s].old)
  <2>1. Expired(c)[s] = c[s]
    BY <1>3 DEF Expired
  <2> QED
    BY <1>1, <2>1
<1> QED
  BY <1>2, <1>3

\* Claims, with a seat more, fit what is reservable.
LEMMA SeatFits ==
  ASSUME NEW kept \in [Sweep -> CouncilRow], RowsSound(kept),
         \A s \in Sweep : kept[s].cost = councils[s].cost,
         \A s \in Sweep : ~(kept[s].state = "running" /\ kept[s].old),
         Reservable(kept)
  PROVE  SumFunctionOnSet(Claimed(kept), Sweep) + RunCap <= Budget
<1> DEFINE seats == {s \in Sweep : kept[s].state = "running"}
           most == [s \in Sweep |-> IF s \in seats THEN Costs(kept)[s] + RunCap
                                    ELSE Costs(kept)[s]]
<1>1. RunCap \in Nat /\ Budget \in Nat /\ RunCap \in Int
  BY FullMarketAssumption
<1>2. /\ \A s \in Sweep : Claimed(kept)[s] \in Int
      /\ \A s \in Sweep : Costs(kept)[s] \in Int
      /\ SumFunctionOnSet(Claimed(kept), Sweep) \in Int
      /\ SumFunctionOnSet(Costs(kept), Sweep) \in Int
  BY ClaimsTyped
<1>3. \A s \in Sweep : Claimed(kept)[s] <= most[s]
  <2> SUFFICES ASSUME NEW s \in Sweep PROVE Claimed(kept)[s] <= most[s]
    OBVIOUS
  <2>1. kept[s] \in CouncilRow /\ kept[s].cost \in Nat
    BY DEF CouncilRow
  <2>2. Claimed(kept)[s] = Claim(kept[s]) /\ Costs(kept)[s] = kept[s].cost
    BY DEF Claimed, Costs
  <2>3. CASE s \in seats
    BY <1>1, <2>1, <2>2, <2>3 DEF Claim
  <2>4. CASE s \notin seats
    BY <1>1, <2>1, <2>2, <2>4 DEF Claim
  <2> QED
    BY <2>3, <2>4
<1>4. \A s \in Sweep : most[s] \in Int
  BY <1>1, <1>2
<1>5. seats \subseteq Sweep /\ Seats(kept) = Cardinality(seats)
  BY DEF Seats
<1>6. \A s \in Sweep : most[s] = IF s \in seats THEN Costs(kept)[s] + RunCap
                                 ELSE Costs(kept)[s]
  OBVIOUS
<1> HIDE DEF seats, most
<1>7. SumFunctionOnSet(most, Sweep)
        = SumFunctionOnSet(Costs(kept), Sweep) + RunCap * Cardinality(seats)
  BY <1>1, <1>2, <1>5, <1>6, SweepFinite, SumMarked
<1>8. SumFunctionOnSet(Claimed(kept), Sweep) <= SumFunctionOnSet(most, Sweep)
  BY <1>2, <1>3, <1>4, SweepFinite, SumLeq
<1>9. CouncilSpend = SumFunctionOnSet(Costs(kept), Sweep)
  <2>1. Costs(kept) = [s \in Sweep |-> councils[s].cost]
    BY DEF Costs
  <2> QED
    BY <2>1 DEF CouncilSpend
<1>10. Cardinality(seats) \in Nat
  BY <1>5, SweepFinite, FS_Subset, FS_CardinalityType
<1>11. /\ Cardinality(seats) * RunCap = RunCap * Cardinality(seats)
       /\ RunCap * Cardinality(seats) \in Int
  BY <1>1, <1>10
<1>12. CouncilSpend + Cardinality(seats) * RunCap + RunCap <= Budget
  BY <1>5 DEF Reservable
<1> QED
  BY <1>1, <1>2, <1>7, <1>8, <1>9, <1>11, <1>12
-----------------------------------------------------------------------------
(* One lemma per action that touches a council.                             *)

LEMMA ConveneKeeps ==
  ASSUME CouncilInv, NEW who \in Starter, NEW s, Convene(who, s) PROVE CouncilInv'
<1> DEFINE kept == Expired(councils)
<1>1. /\ kept[s].state = "none" /\ Reservable(kept)
      /\ councils' = [kept EXCEPT ![s].state = "running"]
      /\ panel' = [panel EXCEPT ![who] = [on |-> s, turn |-> 0]]
  BY DEF Convene
<1>2. /\ kept \in [Sweep -> CouncilRow] /\ RowsSound(kept)
      /\ \A r \in Sweep : Working(councils[r]) => Working(kept[r])
      /\ \A r \in Sweep : Claim(kept[r]) = Claim(councils[r])
      /\ \A r \in Sweep : kept[r].cost = councils[r].cost
      /\ \A r \in Sweep : kept[r].state = "none" <=> councils[r].state = "none"
  BY ExpiredKeeps DEF CouncilInv, CouncilTyped
<1>3. \A r \in Sweep : ~(kept[r].state = "running" /\ kept[r].old)
  BY DEF Expired, CouncilInv, CouncilTyped, CouncilRow
<1> HIDE DEF kept
<1>4. /\ DOMAIN panel' = Starter
      /\ \A w \in Starter : panel'[w] = [on |-> panel'[w].on, turn |-> panel'[w].turn]
      /\ panel'[who].on = s
      /\ \A w \in Starter : w # who => panel'[w].on = panel[w].on
  BY <1>1 DEF CouncilInv, CouncilTyped
<1>5. CASE s \notin Sweep
  <2>1. councils' = kept
    BY <1>1, <1>2, <1>5
  <2>2. CouncilTyped' /\ RowsSound(councils)'
    BY <1>2, <1>4, <2>1 DEF CouncilTyped, RowsSound, RowSound
  <2>3. Panels'
    BY <1>2, <1>4, <1>5, <2>1 DEF CouncilInv, Panels, Starter
  <2>4. SumFunctionOnSet(Claimed(kept), Sweep) <= SumFunctionOnSet(Claimed(councils), Sweep)
    <3>1. \A r \in Sweep : Claim(kept[r]) <= Claim(councils[r])
      BY <1>2, ClaimTyped DEF CouncilInv, CouncilTyped
    <3>2. councils \in [Sweep -> CouncilRow]
      BY DEF CouncilInv, CouncilTyped
    <3> QED
      BY <1>2, <3>1, <3>2, ClaimsShrink
  <2>5. ClaimsFit'
    <3>1. /\ SumFunctionOnSet(Claimed(kept), Sweep) \in Int
          /\ SumFunctionOnSet(Claimed(councils), Sweep) \in Int
          /\ SumFunctionOnSet(Claimed(councils), Sweep) <= Budget
      BY <1>2, ClaimsTyped DEF CouncilInv, CouncilTyped, ClaimsFit
    <3>2. SumFunctionOnSet(Claimed(kept), Sweep) <= Budget
      BY <2>4, <3>1, FullMarketAssumption
    <3> QED
      BY <2>1, <3>2 DEF ClaimsFit, Claimed, Claim
  <2> QED
    BY <2>2, <2>3, <2>5 DEF CouncilInv
<1>6. CASE s \in Sweep
  <2>1. kept[s] \in CouncilRow /\ kept[s].cost = 0 /\ ~kept[s].old
    BY <1>1, <1>2, <1>6 DEF RowsSound, RowSound
  <2>2. /\ councils' \in [Sweep -> CouncilRow]
        /\ councils'[s].state = "running" /\ councils'[s].cost = 0 /\ ~councils'[s].old
        /\ \A r \in Sweep : r # s => councils'[r] = kept[r]
    BY <1>1, <1>2, <1>6, <2>1 DEF CouncilRow
  <2>3. CouncilTyped'
    BY <1>4, <2>2 DEF CouncilTyped
  <2>4. RowsSound(councils)'
    <3>1. \A r \in Sweep : RowSound(councils'[r])
      BY <1>2, <2>2, FullMarketAssumption DEF RowsSound, RowSound
    <3> QED
      BY <3>1 DEF RowsSound, RowSound
  <2>5. Panels'
    <3>1. Working(councils'[s])
      BY <2>2, FullMarketAssumption DEF Working
    <3>2. ASSUME NEW w \in Starter, w # who, panel[w].on \in Sweep
          PROVE  panel[w].on # s /\ Working(councils'[panel[w].on])
      <4>1. Working(kept[panel[w].on])
        BY <1>2, <3>2 DEF CouncilInv, Panels
      <4>2. panel[w].on # s
        BY <1>1, <4>1 DEF Working
      <4> QED
        BY <2>2, <3>2, <4>1, <4>2
    <3>3. \A w \in Starter : panel'[w].on \in Sweep => Working(councils'[panel'[w].on])
      BY <1>4, <3>1, <3>2
    <3>4. panel'["cycle"].on \in Sweep => panel'["admin"].on # panel'["cycle"].on
      <4>1. CASE who = "cycle"
        BY <1>4, <1>6, <3>2, <4>1 DEF Starter
      <4>2. CASE who = "admin"
        BY <1>4, <3>2, <4>2 DEF Starter
      <4> QED
        BY <4>1, <4>2 DEF Starter
    <3> QED
      BY <3>3, <3>4 DEF Panels, Working
  <2>6. ClaimsFit'
    <3> DEFINE before == Claimed(kept)
               after == [r \in Sweep |-> Claim(councils'[r])]
    <3>1. before[s] = 0 /\ after[s] = RunCap
      <4>1. Claim(kept[s]) = 0
        BY <1>1, <2>1, FullMarketAssumption DEF Claim
      <4>2. Claim(councils'[s]) = RunCap
        BY <2>2 DEF Claim
      <4> QED
        BY <1>6, <4>1, <4>2 DEF Claimed
    <3>2. \A r \in Sweep : r # s => after[r] = before[r]
      BY <2>2 DEF Claimed
    <3>3. \A r \in Sweep : before[r] \in Int /\ after[r] \in Int
      BY <1>2, <2>2, ClaimTyped DEF Claimed
    <3>4. SumFunctionOnSet(before, Sweep) + RunCap <= Budget
      BY <1>1, <1>2, <1>3, SeatFits
    <3>5. SumFunctionOnSet(before, Sweep) \in Int
      BY <1>2, ClaimsTyped
    <3>6. SumFunctionOnSet(Claimed(councils)', Sweep) = SumFunctionOnSet(after, Sweep)
      BY DEF Claimed, Claim
    <3> HIDE DEF before, after
    <3>7. SumFunctionOnSet(after, Sweep)
            = SumFunctionOnSet(before, Sweep) - before[s] + after[s]
      BY <1>6, <3>2, <3>3, SweepFinite, SumChange
    <3>8. SumFunctionOnSet(after, Sweep) <= Budget
      BY <3>1, <3>4, <3>5, <3>7, FullMarketAssumption
    <3> QED
      BY <3>6, <3>8 DEF ClaimsFit
  <2> QED
    BY <2>3, <2>4, <2>5, <2>6 DEF CouncilInv
<1> QED
  BY <1>5, <1>6

\* Rows whose claims do not grow.
LEMMA FitsAfter ==
  ASSUME CouncilInv, councils' \in [Sweep -> CouncilRow],
         \A s \in Sweep : Claim(councils'[s]) <= Claim(councils[s])
  PROVE  ClaimsFit'
<1>1. councils \in [Sweep -> CouncilRow]
  BY DEF CouncilInv, CouncilTyped
<1>2. SumFunctionOnSet(Claimed(councils'), Sweep) <= SumFunctionOnSet(Claimed(councils), Sweep)
  BY <1>1, ClaimsShrink
<1>3. /\ SumFunctionOnSet(Claimed(councils'), Sweep) \in Int
      /\ SumFunctionOnSet(Claimed(councils), Sweep) \in Int
      /\ SumFunctionOnSet(Claimed(councils), Sweep) <= Budget
  BY <1>1, ClaimsTyped DEF CouncilInv, ClaimsFit
<1>4. SumFunctionOnSet(Claimed(councils'), Sweep) <= Budget
  BY <1>2, <1>3, FullMarketAssumption
<1> QED
  BY <1>4 DEF ClaimsFit, Claimed, Claim

LEMMA AgesKeeps == ASSUME CouncilInv, NEW s \in Sweep, CouncilAges(s) PROVE CouncilInv'
<1>1. /\ councils[s].state = "running" /\ ~councils[s].old
      /\ councils' = [councils EXCEPT ![s].old = TRUE] /\ UNCHANGED panel
  BY DEF CouncilAges
<1>2. councils \in [Sweep -> CouncilRow]
  BY DEF CouncilInv, CouncilTyped
<1>3. /\ councils' \in [Sweep -> CouncilRow]
      /\ councils'[s].state = "running" /\ councils'[s].old
      /\ councils'[s].cost = councils[s].cost
      /\ \A r \in Sweep : r # s => councils'[r] = councils[r]
  BY <1>1, <1>2 DEF CouncilRow
<1>4. CouncilTyped'
  BY <1>1, <1>3 DEF CouncilInv, CouncilTyped
<1>5. \A r \in Sweep : RowSound(councils'[r]) /\ (Working(councils[r]) => Working(councils'[r]))
  BY <1>1, <1>3 DEF CouncilInv, RowsSound, RowSound, Working
<1>6. RowsSound(councils)'
  BY <1>5 DEF RowsSound, RowSound
<1>7. Panels'
  BY <1>1, <1>5 DEF CouncilInv, Panels, Working, Starter
<1>8. \A r \in Sweep : Claim(councils'[r]) <= Claim(councils[r])
  <2> SUFFICES ASSUME NEW r \in Sweep PROVE Claim(councils'[r]) <= Claim(councils[r])
    OBVIOUS
  <2>1. Claim(councils[r]) \in Nat
    BY <1>2, ClaimTyped
  <2>2. r = s => Claim(councils'[r]) = 0
    BY <1>3 DEF Claim
  <2> QED
    BY <1>3, <2>1, <2>2
<1>9. ClaimsFit'
  BY <1>3, <1>8, FitsAfter
<1> QED
  BY <1>4, <1>6, <1>7, <1>9 DEF CouncilInv

\* What a turn does to the row and to the panel.
LEMMA TurnDoes ==
  ASSUME CouncilTyped, NEW who \in Starter, NEW cost \in {0, 1}, Turn(who, cost),
         panel[who].on \in Sweep
  PROVE  /\ councils' \in [Sweep -> CouncilRow]
         /\ councils'[panel[who].on].cost = councils[panel[who].on].cost + cost
         /\ councils'[panel[who].on].old = councils[panel[who].on].old
         /\ \A r \in Sweep : r # panel[who].on => councils'[r] = councils[r]
         /\ \/ /\ councils'[panel[who].on].cost <= RunCap
               /\ councils'[panel[who].on].state = councils[panel[who].on].state
               /\ panel' = [panel EXCEPT ![who].turn = @ + 1]
            \/ /\ councils'[panel[who].on].state \in {"failed", "approved", "rejected"}
               /\ panel' = [panel EXCEPT ![who] = NoPanel]
<1> DEFINE s == panel[who].on
           paid == councils[s].cost + cost
<1>1. councils[s] \in CouncilRow /\ paid \in Nat /\ councils \in [Sweep -> CouncilRow]
  BY DEF CouncilTyped, CouncilRow
<1>2. \/ /\ paid <= RunCap
         /\ councils' = [councils EXCEPT ![s].cost = paid]
         /\ panel' = [panel EXCEPT ![who].turn = @ + 1]
      \/ \E verdict \in {"failed", "approved", "rejected"} :
           /\ councils' = [councils EXCEPT ![s].cost = paid, ![s].state = verdict]
           /\ panel' = [panel EXCEPT ![who] = NoPanel]
  BY DEF Turn
<1> HIDE DEF paid
<1>3. CASE /\ paid <= RunCap
           /\ councils' = [councils EXCEPT ![s].cost = paid]
           /\ panel' = [panel EXCEPT ![who].turn = @ + 1]
  <2>1. /\ councils' \in [Sweep -> CouncilRow] /\ councils'[s].cost = paid
        /\ councils'[s].old = councils[s].old /\ councils'[s].state = councils[s].state
        /\ \A r \in Sweep : r # s => councils'[r] = councils[r]
    BY <1>1, <1>3 DEF CouncilRow
  <2> QED
    BY <1>3, <2>1 DEF paid
<1>4. CASE \E verdict \in {"failed", "approved", "rejected"} :
           /\ councils' = [councils EXCEPT ![s].cost = paid, ![s].state = verdict]
           /\ panel' = [panel EXCEPT ![who] = NoPanel]
  <2>1. PICK verdict \in {"failed", "approved", "rejected"} :
           /\ councils' = [councils EXCEPT ![s].cost = paid, ![s].state = verdict]
           /\ panel' = [panel EXCEPT ![who] = NoPanel]
    BY <1>4
  <2>2. /\ councils' \in [Sweep -> CouncilRow] /\ councils'[s].cost = paid
        /\ councils'[s].old = councils[s].old /\ councils'[s].state = verdict
        /\ \A r \in Sweep : r # s => councils'[r] = councils[r]
    BY <1>1, <2>1 DEF CouncilRow
  <2> QED
    BY <2>1, <2>2 DEF paid
<1> QED
  BY <1>2, <1>3, <1>4

\* The two ways in which a turn leaves the panel.
LEMMA TurnPanel ==
  ASSUME CouncilTyped, NEW who \in Starter,
         \/ panel' = [panel EXCEPT ![who].turn = @ + 1]
         \/ panel' = [panel EXCEPT ![who] = NoPanel]
  PROVE  /\ DOMAIN panel' = Starter
         /\ \A w \in Starter : panel'[w] = [on |-> panel'[w].on, turn |-> panel'[w].turn]
         /\ \A w \in Starter : w # who => panel'[w].on = panel[w].on
         /\ panel' = [panel EXCEPT ![who].turn = @ + 1] => panel'[who].on = panel[who].on
         /\ panel' = [panel EXCEPT ![who] = NoPanel] => panel'[who].on \notin Sweep
<1>1. DOMAIN panel = Starter
  BY DEF CouncilTyped
<1>2. \A w \in Starter : panel[w] = [on |-> panel[w].on, turn |-> panel[w].turn]
  BY DEF CouncilTyped
<1>3. CASE panel' = [panel EXCEPT ![who].turn = @ + 1]
  <2>1. /\ \A w \in Starter : w # who => panel'[w] = panel[w]
        /\ panel'[who] = [panel[who] EXCEPT !.turn = @ + 1]
        /\ DOMAIN panel' = Starter
    BY <1>1, <1>3
  <2>2. panel'[who] = [on |-> panel[who].on, turn |-> panel[who].turn + 1]
    BY <1>2, <2>1
  <2>3. panel'[who].on \in Sweep => panel' # [panel EXCEPT ![who] = NoPanel]
    BY <1>1 DEF NoPanel, Sweep
  <2> QED
    BY <1>2, <2>1, <2>2, <2>3
<1>4. CASE panel' = [panel EXCEPT ![who] = NoPanel]
  <2>1. /\ \A w \in Starter : w # who => panel'[w] = panel[w]
        /\ panel'[who] = NoPanel
        /\ DOMAIN panel' = Starter
    BY <1>1, <1>4
  <2>2. NoPanel = [on |-> NoPanel.on, turn |-> NoPanel.turn] /\ NoPanel.on \notin Sweep
    BY DEF NoPanel, Sweep
  <2>3. panel' = [panel EXCEPT ![who].turn = @ + 1] => panel'[who].on = panel[who].on
    BY <1>1, <1>2
  <2> QED
    BY <1>2, <2>1, <2>2, <2>3
<1> QED
  BY <1>3, <1>4

LEMMA TurnKeeps ==
  ASSUME CouncilInv, NEW who \in Starter, NEW cost \in {0, 1}, Turn(who, cost)
  PROVE  CouncilInv'
<1> DEFINE s == panel[who].on
<1>1. \/ panel' = [panel EXCEPT ![who].turn = @ + 1]
      \/ panel' = [panel EXCEPT ![who] = NoPanel]
  BY DEF Turn
<1>2. CouncilTyped
  BY DEF CouncilInv
<1>3. /\ DOMAIN panel' = Starter
      /\ \A w \in Starter : panel'[w] = [on |-> panel'[w].on, turn |-> panel'[w].turn]
      /\ \A w \in Starter : w # who => panel'[w].on = panel[w].on
      /\ panel' = [panel EXCEPT ![who].turn = @ + 1] => panel'[who].on = s
      /\ panel' = [panel EXCEPT ![who] = NoPanel] => panel'[who].on \notin Sweep
  BY <1>1, <1>2, TurnPanel
<1>4. CASE s \notin Sweep
  <2>1. councils' = councils
    <3>1. \E paid, state : \/ councils' = [councils EXCEPT ![s].cost = paid]
                           \/ councils' = [councils EXCEPT ![s].cost = paid, ![s].state = state]
      BY DEF Turn
    <3> QED
      BY <1>2, <1>4, <3>1 DEF CouncilTyped
  <2>2. panel'[who].on \notin Sweep
    BY <1>1, <1>3, <1>4
  <2>3. CouncilTyped' /\ RowsSound(councils)' /\ ClaimsFit'
    BY <1>3, <2>1 DEF CouncilInv, CouncilTyped, RowsSound, RowSound, ClaimsFit, Claimed, Claim
  <2>4. Panels'
    BY <1>3, <2>1, <2>2 DEF CouncilInv, Panels, Working, Starter
  <2> QED
    BY <2>3, <2>4 DEF CouncilInv
<1>5. CASE s \in Sweep
  <2>1. Working(councils[s]) /\ RowSound(councils[s]) /\ councils \in [Sweep -> CouncilRow]
    BY <1>5 DEF CouncilInv, CouncilTyped, RowsSound, Panels
  <2>2. /\ councils' \in [Sweep -> CouncilRow]
        /\ councils'[s].cost = councils[s].cost + cost
        /\ councils'[s].old = councils[s].old
        /\ \A r \in Sweep : r # s => councils'[r] = councils[r]
        /\ \/ /\ councils'[s].cost <= RunCap
              /\ councils'[s].state = councils[s].state
              /\ panel' = [panel EXCEPT ![who].turn = @ + 1]
           \/ /\ councils'[s].state \in {"failed", "approved", "rejected"}
              /\ panel' = [panel EXCEPT ![who] = NoPanel]
    BY <1>2, <1>5, TurnDoes
  <2>3. RunCap \in Nat /\ councils[s].cost \in Nat
    BY <2>1, <1>5, FullMarketAssumption DEF CouncilRow
  <2>4. RowSound(councils'[s])
    BY <2>1, <2>2, <2>3 DEF RowSound, Working
  <2>5. CouncilTyped' /\ RowsSound(councils)'
    <3>1. \A r \in Sweep : RowSound(councils'[r])
      BY <2>2, <2>4 DEF CouncilInv, RowsSound
    <3> QED
      BY <1>3, <2>2, <3>1 DEF CouncilTyped, RowsSound, RowSound
  <2>6. ASSUME NEW w \in Starter, panel'[w].on \in Sweep PROVE Working(councils'[panel'[w].on])
    <3>1. CASE w = who
      <4>1. panel'[who].on = s /\ councils'[s].cost <= RunCap
            /\ councils'[s].state = councils[s].state
        BY <1>3, <2>2, <2>6, <3>1
      <4> QED
        BY <2>1, <2>2, <3>1, <4>1 DEF Working
    <3>2. CASE w # who
      <4>1. panel'[w].on = panel[w].on /\ Working(councils[panel[w].on])
        BY <1>3, <2>6, <3>2 DEF CouncilInv, Panels
      <4>2. panel[w].on # s
        BY <1>5, <2>6, <3>2, <4>1 DEF CouncilInv, Panels, Starter
      <4> QED
        BY <2>2, <2>6, <4>1, <4>2
    <3> QED
      BY <3>1, <3>2
  <2>7. panel'["cycle"].on \in Sweep => panel'["admin"].on # panel'["cycle"].on
    <3>1. panel'[who].on = panel[who].on \/ panel'[who].on \notin Sweep
      BY <1>1, <1>3
    <3> QED
      BY <1>3, <3>1 DEF CouncilInv, Panels, Starter
  <2>8. Panels'
    BY <2>6, <2>7 DEF Panels, Working
  <2>9. \A r \in Sweep : Claim(councils'[r]) <= Claim(councils[r])
    <3>1. Claim(councils'[s]) <= Claim(councils[s])
      BY <2>1, <2>2, <2>3 DEF Claim, Working
    <3>2. \A r \in Sweep : Claim(councils[r]) \in Nat
      BY <2>1, ClaimTyped
    <3> QED
      BY <2>2, <3>1, <3>2
  <2>10. ClaimsFit'
    BY <2>2, <2>9, FitsAfter
  <2> QED
    BY <2>5, <2>8, <2>10 DEF CouncilInv
<1> QED
  BY <1>4, <1>5

\* Stale councils are given up, and nothing else happens to a council.
LEMMA GivesUpKeeps ==
  ASSUME CouncilInv, councils' = Expired(councils), UNCHANGED panel PROVE CouncilInv'
<1>1. councils \in [Sweep -> CouncilRow] /\ RowsSound(councils)
  BY DEF CouncilInv, CouncilTyped
<1>2. /\ councils' \in [Sweep -> CouncilRow] /\ RowsSound(councils')
      /\ \A r \in Sweep : Working(councils[r]) => Working(councils'[r])
      /\ \A r \in Sweep : Claim(councils'[r]) = Claim(councils[r])
  BY <1>1, ExpiredKeeps
<1>3. CouncilTyped' /\ RowsSound(councils)'
  BY <1>2 DEF CouncilInv, CouncilTyped, RowsSound, RowSound
<1>4. Panels'
  BY <1>2 DEF CouncilInv, Panels, Working, Starter
<1>5. \A r \in Sweep : Claim(councils'[r]) <= Claim(councils[r])
  BY <1>1, <1>2, ClaimTyped
<1>6. ClaimsFit'
  BY <1>2, <1>5, FitsAfter
<1> QED
  BY <1>3, <1>4, <1>6 DEF CouncilInv

\* A death empties the panels; the rows stay.
LEMMA CouncilRests ==
  ASSUME CouncilInv, UNCHANGED councils,
         panel' = panel \/ panel' = [w \in Starter |-> NoPanel]
  PROVE  CouncilInv'
<1>1. RowsSound(councils)' /\ ClaimsFit'
  BY DEF CouncilInv, RowsSound, RowSound, ClaimsFit, Claimed, Claim
<1>2. CASE panel' = panel
  BY <1>1, <1>2 DEF CouncilInv, CouncilTyped, Panels, Working
<1>3. CASE panel' = [w \in Starter |-> NoPanel]
  <2>1. CouncilTyped'
    BY <1>3 DEF CouncilInv, CouncilTyped, NoPanel
  <2>2. \A w \in Starter : panel'[w].on \notin Sweep
    BY <1>3 DEF NoPanel, Sweep
  <2>3. Panels'
    BY <2>2 DEF Panels, Starter
  <2> QED
    BY <1>1, <2>1, <2>3 DEF CouncilInv
<1> QED
  BY <1>2, <1>3

LEMMA CycleConvenesKeeps == ASSUME CouncilInv, CycleConvenes PROVE CouncilInv'
<1>1. \/ Convene("cycle", cycle.on)
      \/ councils' = Expired(councils) /\ UNCHANGED panel
      \/ UNCHANGED <<councils, panel>>
  BY DEF CycleConvenes
<1>2. "cycle" \in Starter
  BY DEF Starter
<1> QED
  BY <1>1, <1>2, ConveneKeeps, GivesUpKeeps, CouncilRests

LEMMA MarketNextKeeps == CouncilInv /\ [FullMarketNext]_marketVars => CouncilInv'
<1> SUFFICES ASSUME CouncilInv, [FullMarketNext]_marketVars PROVE CouncilInv'
  OBVIOUS
<1>1. CASE UNCHANGED marketVars
  BY <1>1, CouncilRests DEF marketVars
<1>2. ASSUME NEW s \in Sweep, AdminConvenes(s) PROVE CouncilInv'
  BY <1>2, ConveneKeeps DEF AdminConvenes, Starter
<1>3. ASSUME \/ MarketHalts \/ AskEnable \/ Enable \/ NotEnabled \/ Deadline \/ EndSweep
             \/ AdminSweeps \/ CycleStarts \/ CheckHalts \/ CycleGivesUp \/ CycleSweeps
             \/ PlaceChild \/ MarketCrash
      PROVE  CouncilInv'
  <2>1. UNCHANGED councils /\ (panel' = panel \/ panel' = [w \in Starter |-> NoPanel])
    BY <1>3 DEF MarketHalts, AskEnable, Enable, NotEnabled, Deadline, EndSweep, AdminSweeps,
                CycleStarts, CheckHalts, CycleGivesUp, CycleSweeps, PlaceChild, MarketCrash
  <2> QED
    BY <2>1, CouncilRests
<1>4. ASSUME NEW x, Launch(x) \/ Land(x) \/ Placed(x) PROVE CouncilInv'
  <2>1. UNCHANGED <<councils, panel>>
    BY <1>4 DEF Launch, Land, Placed
  <2> QED
    BY <2>1, CouncilRests
<1>5. CASE FullMarketNext
  BY <1>2, <1>3, <1>4, <1>5, AgesKeeps, TurnKeeps, CycleConvenesKeeps DEF FullMarketNext
<1> QED
  BY <1>1, <1>5

LEMMA MarketInitHolds == MarketInit => CouncilInv
<1> SUFFICES ASSUME MarketInit PROVE CouncilInv
  OBVIOUS
<1>1. /\ councils = [s \in Sweep |-> [state |-> "none", cost |-> 0, old |-> FALSE]]
      /\ panel = [w \in Starter |-> NoPanel]
  BY DEF MarketInit
<1>2. CouncilTyped
  BY <1>1 DEF CouncilTyped, CouncilRow, NoPanel
<1>3. RowsSound(councils)
  BY <1>1, FullMarketAssumption DEF RowsSound, RowSound
<1>4. Panels
  BY <1>1 DEF Panels, NoPanel, Sweep, Starter
<1>5. ClaimsFit
  <2>1. \A s \in Sweep : Claimed(councils)[s] = 0
    BY <1>1, FullMarketAssumption DEF Claimed, Claim
  <2>2. SumFunctionOnSet(Claimed(councils), Sweep) = 0
    BY <2>1, SweepFinite, SumZero
  <2> QED
    BY <2>2, FullMarketAssumption DEF ClaimsFit
<1> QED
  BY <1>2, <1>3, <1>4, <1>5 DEF CouncilInv

\* Whatever the pairs, the roles, the ceiling of a run and the month's budget,
\* however councils overlap, are given up and come back: their costs exceed the
\* budget by no more than a last call each, and what stale ones went on to spend
\* (live/tradingCouncil.ts:88-94).
THEOREM CouncilTheorem == FullMarketSpec => []CouncilWithinBudget
<1>1. CouncilInv => CouncilWithinBudget
  <2> SUFFICES ASSUME CouncilInv PROVE CouncilWithinBudget
    OBVIOUS
  <2> DEFINE over == {s \in Sweep : councils[s].cost > RunCap}
             given == {s \in Sweep : councils[s].old}
             base == Claimed(councils)
             some == [s \in Sweep |-> IF s \in over THEN base[s] + 1 ELSE base[s]]
             most == [s \in Sweep |-> IF s \in given THEN some[s] + RunCap ELSE some[s]]
  <2>1. councils \in [Sweep -> CouncilRow] /\ RunCap \in Int /\ RunCap \in Nat /\ 1 \in Int
    BY FullMarketAssumption DEF CouncilInv, CouncilTyped
  <2>2. /\ \A s \in Sweep : base[s] \in Int /\ Costs(councils)[s] \in Int
        /\ SumFunctionOnSet(base, Sweep) \in Int
        /\ SumFunctionOnSet(Costs(councils), Sweep) \in Int
    BY <2>1, ClaimsTyped
  <2>3. /\ \A s \in Sweep : some[s] = IF s \in over THEN base[s] + 1 ELSE base[s]
        /\ \A s \in Sweep : most[s] = IF s \in given THEN some[s] + RunCap ELSE some[s]
    OBVIOUS
  <2>4. over \subseteq Sweep /\ given \subseteq Sweep
    OBVIOUS
  <2>5. \A s \in Sweep : Costs(councils)[s] <= most[s]
    <3> SUFFICES ASSUME NEW s \in Sweep PROVE Costs(councils)[s] <= most[s]
      OBVIOUS
    <3>1. RowSound(councils[s]) /\ councils[s] \in CouncilRow /\ councils[s].cost \in Nat
      BY <2>1 DEF CouncilInv, RowsSound, CouncilRow
    <3>2. Costs(councils)[s] = councils[s].cost /\ base[s] = Claim(councils[s])
      BY DEF Costs, Claimed
    <3>3. CASE councils[s].old
      BY <2>1, <3>1, <3>2, <3>3 DEF RowSound, Claim
    <3>4. CASE ~councils[s].old
      BY <2>1, <3>1, <3>2, <3>4 DEF RowSound, Claim
    <3> QED
      BY <3>3, <3>4
  <2>6. CouncilSpend = SumFunctionOnSet(Costs(councils), Sweep)
    BY DEF CouncilSpend, Costs
  <2>7. CouncilWithinBudget <=>
          CouncilSpend <= Budget + Cardinality(over) + RunCap * Cardinality(given)
    BY DEF CouncilWithinBudget
  <2>8. SumFunctionOnSet(base, Sweep) <= Budget /\ Budget \in Int
    BY FullMarketAssumption DEF CouncilInv, ClaimsFit
  <2> HIDE DEF over, given, base, some, most
  <2>9. \A s \in Sweep : some[s] \in Int /\ most[s] \in Int
    BY <2>1, <2>2, <2>3
  <2>10. SumFunctionOnSet(some, Sweep) = SumFunctionOnSet(base, Sweep) + 1 * Cardinality(over)
    BY <2>1, <2>2, <2>3, <2>4, SweepFinite, SumMarked
  <2>11. SumFunctionOnSet(most, Sweep)
           = SumFunctionOnSet(some, Sweep) + RunCap * Cardinality(given)
    BY <2>1, <2>3, <2>4, <2>9, SweepFinite, SumMarked
  <2>12. SumFunctionOnSet(Costs(councils), Sweep) <= SumFunctionOnSet(most, Sweep)
    BY <2>2, <2>5, <2>9, SweepFinite, SumLeq
  <2>13. Cardinality(over) \in Nat /\ Cardinality(given) \in Nat
    BY <2>4, SweepFinite, FS_Subset, FS_CardinalityType
  <2>14. RunCap * Cardinality(given) \in Int
    BY <2>1, <2>13
  <2> QED
    BY <2>2, <2>6, <2>7, <2>8, <2>10, <2>11, <2>12, <2>13, <2>14
<1> QED
  BY <1>1, MarketInitHolds, MarketNextKeeps, PTL DEF FullMarketSpec
-----------------------------------------------------------------------------
(* Exposure: the cash reserve stays in the wallet.                         *)

Size == [o \in Ids |-> book[o].size]

\* Buys that may still take their cash: those in doubt too.
Unsettled == InState({"approved", "open", "unknown"})

\* The cash when all of them have.
Rest == cash - Worth(Unsettled)

\* A row is of an order, or of none.
Whole(row) ==
  IF row.state = "none" THEN row.by = "none"
  ELSE row.by # "none" /\ row.size >= 1 /\ (row.state = "approved" => row.by = "council")

\* The rows are filled in the order of their numbers.
InOrder == \A p, q \in Ids : p < q /\ book[q].state # "none" => book[p].state # "none"

ExposureTyped ==
  /\ book \in [Ids -> BookRow]
  /\ cash \in Int /\ stage \in Stages /\ auth \in Nat
  /\ stopped \in BOOLEAN /\ armed \in BOOLEAN /\ blind \in BOOLEAN
  /\ \A o \in Ids : Whole(book[o])
  /\ InOrder

\* A buy in doubt is settled before the network runs again, and the cash it may
\* take is still above the reserve.
Solvent ==
  \/ blind
  \/ /\ ~stopped => InState({"unknown"}) = {}
     /\ Swaps = {} => Rest >= ReserveAt(stage)
     /\ Entries = {} => \A o \in Ids : Newest(o) => Rest >= book[o].floor

ExposureInv == ExposureTyped /\ Solvent
-----------------------------------------------------------------------------
LEMMA IdsFinite == IsFiniteSet(Ids)
  BY ExposureAssumption, FS_Interval DEF Ids

\* The reserve of a stage is part of its capital, and a higher stage keeps more.
LEMMA Reserves ==
  ASSUME NEW s \in Stages
  PROVE  /\ ReserveAt(s) \in Nat /\ ReserveAt(s) <= Caps[s]
         /\ \A t \in Stages : t <= s => ReserveAt(t) <= ReserveAt(s)
<1>1. /\ ReservePct \in 0 .. 100 /\ Caps[s] \in Nat
      /\ \A t \in Stages : Caps[t] \in Nat
      /\ \A t \in Stages : t <= s => Caps[t] <= Caps[s]
  BY ExposureAssumption
<1>2. \A c \in Nat : c * ReservePct \in Nat /\ c * ReservePct <= c * 100
  <2> SUFFICES ASSUME NEW c \in Nat PROVE c * ReservePct \in Nat /\ c * ReservePct <= c * 100
    OBVIOUS
  <2> DEFINE left == 100 - ReservePct
  <2>1. left \in Nat /\ 100 = ReservePct + left
    BY <1>1
  <2> HIDE DEF left
  <2>2. c * (ReservePct + left) = c * ReservePct + c * left
    BY <1>1, <2>1, Distributes
  <2>3. c * left \in Nat /\ c * ReservePct \in Nat
    BY <1>1, <2>1
  <2> QED
    BY <2>1, <2>2, <2>3
<1>3. ASSUME NEW t \in Stages, t <= s PROVE Caps[t] * ReservePct <= Caps[s] * ReservePct
  <2> DEFINE more == Caps[s] - Caps[t]
  <2>1. more \in Nat /\ Caps[s] = Caps[t] + more /\ Caps[t] \in Nat
    BY <1>1, <1>3
  <2> HIDE DEF more
  <2>2. ReservePct * (Caps[t] + more) = ReservePct * Caps[t] + ReservePct * more
    BY <1>1, <2>1, Distributes
  <2>3. /\ ReservePct * Caps[t] = Caps[t] * ReservePct
        /\ ReservePct * (Caps[t] + more) = Caps[s] * ReservePct
        /\ ReservePct * more \in Nat /\ Caps[t] * ReservePct \in Nat
    BY <1>1, <2>1
  <2> QED
    BY <2>2, <2>3
<1>4. ReserveAt(s) \in Nat /\ ReserveAt(s) <= Caps[s]
  <2>1. Caps[s] * ReservePct \in Nat /\ Caps[s] * ReservePct <= Caps[s] * 100
    BY <1>1, <1>2
  <2> QED
    BY <1>1, <2>1 DEF ReserveAt, Reserve
<1>5. ASSUME NEW t \in Stages, t <= s PROVE ReserveAt(t) <= ReserveAt(s)
  <2>1. Caps[t] * ReservePct <= Caps[s] * ReservePct
    BY <1>3, <1>5
  <2>2. Caps[t] * ReservePct \in Nat /\ Caps[s] * ReservePct \in Nat
    BY <1>1, <1>2
  <2> QED
    BY <2>1, <2>2 DEF ReserveAt, Reserve
<1> QED
  BY <1>4, <1>5

\* The capital that is in effect is the stage's, or less.
LEMMA Effectives ==
  ASSUME ExposureTyped
  PROVE  Effective \in Nat /\ Reserve(Effective) \in Nat
<1>1. auth \in Nat /\ Caps[stage] \in Nat /\ ReservePct \in Nat
  BY ExposureAssumption DEF ExposureTyped
<1>2. Effective \in {auth, Caps[stage]}
  <2> DEFINE two == {auth, Caps[stage]}
  <2>2. PICK least \in two : \A n \in two : least <= n
    BY <1>1
  <2> QED
    BY <1>1, <2>2 DEF Effective, Min
<1>3. Effective \in Nat
  BY <1>1, <1>2
<1>4. Effective * ReservePct \in Nat
  BY <1>1, <1>3
<1> QED
  BY <1>3, <1>4 DEF Reserve

\* What orders are worth, and their parts.
LEMMA Worths ==
  ASSUME book \in [Ids -> BookRow], NEW set \in SUBSET Ids
  PROVE  /\ Worth(set) \in Nat
         /\ \A part1 \in SUBSET set : Worth(part1) <= Worth(set)
         /\ \A o \in set : Worth(set) = book[o].size + Worth(set \ {o})
<1>1. \A o \in Ids : Size[o] \in Nat /\ Size[o] = book[o].size
  BY DEF Size, BookRow
<1>2. IsFiniteSet(set)
  BY IdsFinite, FS_Subset
<1>3. \A any : Worth(any) = SumFunctionOnSet(Size, any)
  BY DEF Worth, Size
<1>4. /\ \A o \in set : Size[o] \in Nat
      /\ \A o \in set : Size[o] \in Int
  BY <1>1
<1>5. /\ SumFunctionOnSet(Size, set) \in Nat
      /\ \A part1 \in SUBSET set : SumFunctionOnSet(Size, part1) <= SumFunctionOnSet(Size, set)
  BY <1>2, <1>4, SumFewer
<1>6. \A o \in set : SumFunctionOnSet(Size, set) = Size[o] + SumFunctionOnSet(Size, set \ {o})
  BY <1>2, <1>4, SumWithout
<1> QED
  BY <1>1, <1>3, <1>5, <1>6

\* Orders whose sizes stay are worth the same.
LEMMA WorthStays ==
  ASSUME book \in [Ids -> BookRow], NEW set \in SUBSET Ids,
         \A o \in set : book'[o].size = book[o].size
  PROVE  SumFunctionOnSet(Size', set) = Worth(set)
<1>1. \A o \in set : Size[o] \in Int /\ Size[o] = Size'[o]
  BY DEF Size, BookRow
<1>2. IsFiniteSet(set)
  BY IdsFinite, FS_Subset
<1>3. SumFunctionOnSet(Size, set) = SumFunctionOnSet(Size', set)
  BY <1>1, <1>2, SumSame
<1> QED
  BY <1>3 DEF Worth, Size

\* A row changes its state and nothing else.
Turns(o, state) == book' = [book EXCEPT ![o].state = state]

States == {"open", "unknown", "failed", "rejected", "held", "selling", "sold"}

LEMMA TurnsTyped ==
  ASSUME ExposureTyped, NEW o \in Ids, NEW state \in States, Turns(o, state),
         book[o].state # "none"
  PROVE  /\ book' \in [Ids -> BookRow]
         /\ \A p \in Ids : Whole(book'[p])
         /\ \A p \in Ids : book'[p].size = book[p].size
         /\ \A p \in Ids : book'[p].floor = book[p].floor
         /\ \A p \in Ids : book'[p].state = IF p = o THEN state ELSE book[p].state
         /\ Swaps' = Swaps /\ Entries' = Entries
         /\ InOrder'
<1>1. /\ book \in [Ids -> BookRow] /\ \A p \in Ids : Whole(book[p])
      /\ book' = [book EXCEPT ![o].state = state]
  BY DEF ExposureTyped, Turns
<1>2. /\ book' \in [Ids -> BookRow]
      /\ \A p \in Ids : /\ book'[p].size = book[p].size /\ book'[p].floor = book[p].floor
                        /\ book'[p].by = book[p].by
      /\ \A p \in Ids : book'[p].state = IF p = o THEN state ELSE book[p].state
  BY <1>1 DEF BookRow, States
<1>3. \A p \in Ids : Whole(book'[p])
  BY <1>1, <1>2 DEF Whole, States
<1>4. Swaps' = Swaps /\ Entries' = Entries
  BY <1>2 DEF Swaps, Entries
<1>5. \A p \in Ids : book'[p].state = "none" <=> book[p].state = "none"
  BY <1>2 DEF States
<1>6. InOrder'
  BY <1>5 DEF InOrder, ExposureTyped, Ids
<1> QED
  BY <1>2, <1>3, <1>4, <1>6

\* The worth of what is unsettled, when no order joins or leaves.
LEMMA SameWorth ==
  ASSUME ExposureTyped, \A o \in Ids : book'[o].size = book[o].size, Unsettled' = Unsettled
  PROVE  Worth(Unsettled)' = Worth(Unsettled)
<1>1. Unsettled \in SUBSET Ids
  BY DEF Unsettled, InState
<1>2. SumFunctionOnSet(Size', Unsettled) = Worth(Unsettled)
  BY <1>1, WorthStays DEF ExposureTyped
<1> QED
  BY <1>2 DEF Worth, Size

\* One order is settled.
LEMMA LessWorth ==
  ASSUME ExposureTyped, \A o \in Ids : book'[o].size = book[o].size,
         NEW o \in Unsettled, Unsettled' = Unsettled \ {o}
  PROVE  Worth(Unsettled)' = Worth(Unsettled) - book[o].size
<1>1. Unsettled \in SUBSET Ids /\ Unsettled \ {o} \in SUBSET Ids /\ o \in Ids
  BY DEF Unsettled, InState
<1>2. SumFunctionOnSet(Size', Unsettled \ {o}) = Worth(Unsettled \ {o})
  BY <1>1, WorthStays DEF ExposureTyped
<1>3. Worth(Unsettled) = book[o].size + Worth(Unsettled \ {o})
  BY <1>1, Worths DEF ExposureTyped
<1>4. Worth(Unsettled \ {o}) \in Nat
  BY <1>1, Worths DEF ExposureTyped
<1>5. book[o].size \in Nat
  BY <1>1 DEF ExposureTyped, BookRow
<1>6. Worth(Unsettled)' = Worth(Unsettled \ {o})
  BY <1>2 DEF Worth, Size
<1> QED
  BY <1>3, <1>4, <1>5, <1>6

\* One order is approved.
LEMMA MoreWorth ==
  ASSUME ExposureTyped, book' \in [Ids -> BookRow], NEW o \in Ids, o \notin Unsettled,
         \A p \in Ids : p # o => book'[p].size = book[p].size,
         Unsettled' = Unsettled \cup {o}
  PROVE  Worth(Unsettled)' = Worth(Unsettled) + book'[o].size
<1>1. Unsettled \in SUBSET Ids /\ Unsettled' \in SUBSET Ids
      /\ Unsettled' \ {o} = Unsettled /\ o \in Unsettled'
  BY DEF Unsettled, InState
<1>2. SumFunctionOnSet(Size', Unsettled) = Worth(Unsettled)
  BY <1>1, WorthStays DEF ExposureTyped
<1>3. /\ IsFiniteSet(Unsettled')
      /\ \A p \in Unsettled' : Size'[p] \in Int
      /\ Size'[o] = book'[o].size
  BY <1>1, IdsFinite, FS_Subset DEF Size, BookRow
<1>4. SumFunctionOnSet(Size', Unsettled')
        = Size'[o] + SumFunctionOnSet(Size', Unsettled' \ {o})
  BY <1>1, <1>3, SumWithout
<1>5. Worth(Unsettled)' = SumFunctionOnSet(Size', Unsettled')
  BY DEF Worth, Size
<1>6. Worth(Unsettled) \in Nat /\ book'[o].size \in Nat
  BY <1>1, Worths DEF ExposureTyped, BookRow
<1>7. SumFunctionOnSet(Size', Unsettled' \ {o}) = Worth(Unsettled)
  BY <1>1, <1>2
<1>8. Worth(Unsettled)' = book'[o].size + Worth(Unsettled)
  BY <1>3, <1>4, <1>5, <1>7
<1> QED
  BY <1>6, <1>8

\* What is open is among what is unsettled.
LEMMA CommittedWithin ==
  ASSUME ExposureTyped
  PROVE  /\ Committed(Ids) \in Nat /\ Committed(Ids) <= Worth(Unsettled)
         /\ Worth(Unsettled) \in Nat /\ Rest \in Int /\ Rest <= cash - Committed(Ids)
         /\ InState({"unknown"}) = {} => Committed(Ids) = Worth(Unsettled)
<1>1. /\ Unsettled \in SUBSET Ids
      /\ Ids \cap InState(Buying) \in SUBSET Unsettled
      /\ Ids \cap InState(Buying) \in SUBSET Ids
      /\ InState({"unknown"}) = {} => Ids \cap InState(Buying) = Unsettled
  BY DEF Unsettled, InState, Buying
<1>2. /\ Committed(Ids) \in Nat /\ Committed(Ids) <= Worth(Unsettled)
      /\ Worth(Unsettled) \in Nat
      /\ InState({"unknown"}) = {} => Committed(Ids) = Worth(Unsettled)
  BY <1>1, Worths DEF ExposureTyped, Committed
<1> QED
  BY <1>2 DEF ExposureTyped, Rest

\* What is left does not fall, and no order is approved.
LEMMA RestHolds ==
  ASSUME ExposureInv, Rest \in Int, Rest' \in Int, Rest' >= Rest, stage \in Stages,
         UNCHANGED <<stage, blind>>, Swaps' = Swaps, Entries' = Entries,
         \A o \in Ids : book'[o].floor = book[o].floor,
         ~stopped' => InState({"unknown"})' = {} \/ (~stopped /\ InState({"unknown"})' \subseteq InState({"unknown"}))
  PROVE  Solvent'
<1>1. CASE blind
  BY <1>1 DEF Solvent
<1>2. CASE ~blind
  <2>1. /\ ~stopped => InState({"unknown"}) = {}
        /\ Swaps = {} => Rest >= ReserveAt(stage)
        /\ Entries = {} => \A o \in Ids : Newest(o) => Rest >= book[o].floor
    BY <1>2 DEF ExposureInv, Solvent
  <2>2. ~stopped' => InState({"unknown"})' = {}
    BY <2>1
  <2>3. ReserveAt(stage)' = ReserveAt(stage) /\ ReserveAt(stage) \in Nat
    BY Reserves DEF ReserveAt
  <2>4. Swaps' = {} => Rest' >= ReserveAt(stage)'
    BY <2>1, <2>3
  <2>5. ASSUME Entries' = {}, NEW o \in Ids, Newest(o)' PROVE Rest' >= book'[o].floor
    <3>1. Newest(o)
      BY <2>5 DEF Newest
    <3>2. Rest >= book[o].floor /\ book[o].floor \in Int
      BY <2>1, <2>5, <3>1 DEF ExposureInv, ExposureTyped, BookRow
    <3> QED
      BY <3>2
  <2> QED
    BY <2>2, <2>4, <2>5 DEF Solvent
<1> QED
  BY <1>1, <1>2
-----------------------------------------------------------------------------
(* One lemma per action.                                                    *)

\* A fresh order is nobody's, and approving it leaves the others as they are.
LEMMA BookedRow ==
  ASSUME ExposureInv, NEW o \in Ids, Fresh(o), NEW row \in BookRow, row.state \in Buying,
         Whole(row), book' = [book EXCEPT ![o] = row]
  PROVE  /\ book' \in [Ids -> BookRow]
         /\ \A p \in Ids : Whole(book'[p])
         /\ InState({"unknown"})' = InState({"unknown"})
         /\ Worth(Unsettled)' = Worth(Unsettled) + row.size
         /\ book'[o] = row /\ \A p \in Ids : p # o => book'[p] = book[p]
         /\ o \notin Swaps /\ o \notin Entries
         /\ InOrder'
<1>1. /\ book[o].state = "none" /\ book[o].by = "none"
      /\ book \in [Ids -> BookRow]
  BY DEF ExposureInv, ExposureTyped, Fresh, Whole
<1>2. /\ book'[o] = row
      /\ \A p \in Ids : p # o => book'[p] = book[p]
      /\ book' \in [Ids -> BookRow]
  BY <1>1
<1>3. \A p \in Ids : Whole(book'[p])
  BY <1>2 DEF ExposureInv, ExposureTyped, Whole, Buying
<1>4. InState({"unknown"})' = InState({"unknown"})
  BY <1>1, <1>2 DEF InState, Buying
<1>5. Worth(Unsettled)' = Worth(Unsettled) + row.size
  <2>1. o \notin Unsettled /\ Unsettled' = Unsettled \cup {o}
    BY <1>1, <1>2 DEF Unsettled, InState, Buying
  <2>2. ExposureTyped /\ \A p \in Ids : p # o => book'[p].size = book[p].size
    BY <1>2 DEF ExposureInv
  <2>3. Worth(Unsettled)' = Worth(Unsettled) + book'[o].size
    BY <1>2, <2>1, <2>2, MoreWorth
  <2> QED
    BY <1>2, <2>3
<1>6. o \notin Swaps /\ o \notin Entries
  BY <1>1 DEF Swaps, Entries
<1>7. InOrder'
  <2> SUFFICES ASSUME NEW p \in Ids, NEW q \in Ids, p < q, book'[q].state # "none"
               PROVE  book'[p].state # "none"
    BY DEF InOrder, Ids
  <2>1. CASE p = o
    BY <1>2, <2>1 DEF Buying
  <2>2. CASE p # o /\ q = o
    <3>1. p \in 1 .. o - 1
      BY <2>2, ExposureAssumption DEF Ids
    <3> QED
      BY <1>2, <2>2, <3>1 DEF Fresh
  <2>3. CASE p # o /\ q # o
    BY <1>2, <2>3 DEF ExposureInv, ExposureTyped, InOrder
  <2> QED
    BY <2>1, <2>2, <2>3
<1> QED
  BY <1>2, <1>3, <1>4, <1>5, <1>6, <1>7

\* No order comes after a fresh one.
LEMMA FreshLast ==
  ASSUME ExposureTyped, NEW o \in Ids, Fresh(o), NEW q \in Ids, o < q
  PROVE  book[q].state = "none" /\ book[q].by = "none"
BY DEF ExposureTyped, InOrder, Fresh, Whole

LEMMA EnterKeeps ==
  ASSUME ExposureInv, NEW o \in Ids, NEW b \in Bots, NEW size \in 1 .. Ceiling(Caps[stage]),
         Enter(o, b, size)
  PROVE  ExposureInv'
<1> DEFINE row == [bot |-> b, by |-> "bot", size |-> size, floor |-> ReserveAt(stage),
                   state |-> "open"]
<1>1. /\ Fresh(o) /\ book' = [book EXCEPT ![o] = row] /\ ~stopped
      /\ size <= cash - Committed(Ids) - ReserveAt(stage)
      /\ UNCHANGED <<cash, stage, stopped, armed, auth, blind>>
  BY DEF Enter, configVars, ledgerVars
<1>2. ReserveAt(stage) \in Nat /\ cash \in Int
  BY Reserves DEF ExposureInv, ExposureTyped
<1>3. /\ row \in BookRow /\ row.state \in Buying /\ Whole(row)
      /\ row.size = size /\ size \in Nat /\ row.by = "bot"
  BY <1>2 DEF BookRow, Buying, Whole
<1> HIDE DEF row
<1>4. /\ book' \in [Ids -> BookRow]
      /\ \A p \in Ids : Whole(book'[p])
      /\ InState({"unknown"})' = InState({"unknown"})
      /\ Worth(Unsettled)' = Worth(Unsettled) + size
      /\ book'[o] = row /\ \A p \in Ids : p # o => book'[p] = book[p]
      /\ o \notin Swaps /\ InOrder'
  BY <1>1, <1>3, BookedRow
<1>5. ExposureTyped'
  BY <1>1, <1>4 DEF ExposureInv, ExposureTyped
<1>6. CASE blind
  BY <1>1, <1>5, <1>6 DEF ExposureInv, Solvent
<1>7. CASE ~blind
  <2>1. Committed(Ids) = Worth(Unsettled) /\ Worth(Unsettled) \in Nat
    BY <1>1, <1>7, CommittedWithin DEF ExposureInv, Solvent
  <2>2. Rest' >= ReserveAt(stage)'
    BY <1>1, <1>2, <1>3, <1>4, <2>1 DEF ReserveAt, Rest
  <2>3. Entries' # {}
    BY <1>3, <1>4 DEF Entries
  <2>4. ~stopped' => InState({"unknown"})' = {}
    BY <1>1, <1>4, <1>7 DEF ExposureInv, Solvent
  <2> QED
    BY <1>5, <2>2, <2>3, <2>4 DEF ExposureInv, Solvent
<1> QED
  BY <1>6, <1>7

LEMMA SwapInKeeps ==
  ASSUME ExposureInv, NEW o \in Ids, NEW b \in Bots, NEW size \in 1 .. Ceiling(Effective),
         SwapIn(o, b, size)
  PROVE  ExposureInv'
<1> DEFINE row == [bot |-> b, by |-> "council", size |-> size, floor |-> Reserve(Effective),
                   state |-> "approved"]
<1>1. /\ Fresh(o) /\ book' = [book EXCEPT ![o] = row] /\ ~stopped
      /\ cash - Committed(Swaps) - size >= Reserve(Effective)
      /\ UNCHANGED <<cash, stage, stopped, armed, auth, blind>>
  BY DEF SwapIn, configVars, ledgerVars
<1>2. Reserve(Effective) \in Nat /\ cash \in Int
  BY Effectives DEF ExposureInv, ExposureTyped
<1>3. /\ row \in BookRow /\ row.state \in Buying /\ Whole(row)
      /\ row.size = size /\ size \in Nat /\ row.by = "council" /\ row.floor = Reserve(Effective)
  BY <1>2 DEF BookRow, Buying, Whole
<1> HIDE DEF row
<1>4. /\ book' \in [Ids -> BookRow]
      /\ \A p \in Ids : Whole(book'[p])
      /\ InState({"unknown"})' = InState({"unknown"})
      /\ Worth(Unsettled)' = Worth(Unsettled) + size
      /\ book'[o] = row /\ \A p \in Ids : p # o => book'[p] = book[p]
      /\ o \notin Entries /\ InOrder'
  BY <1>1, <1>3, BookedRow
<1>5. ExposureTyped'
  BY <1>1, <1>4 DEF ExposureInv, ExposureTyped
<1>6. CASE blind
  BY <1>1, <1>5, <1>6 DEF ExposureInv, Solvent
<1>7. CASE ~blind
  <2>1. ~stopped' => InState({"unknown"})' = {}
    BY <1>1, <1>4, <1>7 DEF ExposureInv, Solvent
  <2>2. Swaps' # {}
    BY <1>3, <1>4 DEF Swaps
  <2>3. ASSUME Entries' = {}, NEW p \in Ids, Newest(p)' PROVE Rest' >= book'[p].floor
    <3>1. Entries = {}
      BY <1>4, <2>3 DEF Entries
    <3>2. p = o
      <4>1. o \in Swaps'
        BY <1>3, <1>4 DEF Swaps
      <4>2. p \in Swaps' /\ o <= p
        BY <2>3, <4>1 DEF Newest
      <4>3. book[o].state = "none" /\ \A q \in 1 .. o - 1 : book[q].state # "none"
        BY <1>1 DEF Fresh
      <4>4. CASE p # o
        <5>1. book[p].by = "council" /\ p \in Ids /\ Fresh(o) /\ o < p
          <6>1. book'[p].by = "council" /\ book'[p] = book[p]
            BY <1>4, <4>2, <4>4 DEF Swaps
          <6>2. o \in Int /\ p \in Int
            BY DEF Ids
          <6> QED
            BY <1>1, <4>2, <4>4, <6>1, <6>2
        <5> QED
          BY <5>1, FreshLast DEF ExposureInv
      <4> QED
        BY <4>4
    <3>3. Committed(Swaps) = Worth(Unsettled) /\ Worth(Unsettled) \in Nat
      <4>1. Swaps \cap InState(Buying) = Ids \cap InState(Buying)
        BY <3>1 DEF Swaps, Entries, InState, Buying, ExposureInv, ExposureTyped, BookRow, Whole
      <4>2. Committed(Swaps) = Committed(Ids)
        BY <4>1 DEF Committed
      <4> QED
        BY <1>1, <1>7, <4>2, CommittedWithin DEF ExposureInv, Solvent
    <3>4. Rest' >= Reserve(Effective)
      BY <1>1, <1>2, <1>3, <1>4, <3>3 DEF Rest
    <3> QED
      BY <1>3, <1>4, <3>2, <3>4
  <2> QED
    BY <1>5, <2>1, <2>2, <2>3 DEF ExposureInv, Solvent
<1> QED
  BY <1>6, <1>7

\* What a halt leaves of the switches.
LEMMA HaltTypes ==
  ASSUME ExposureTyped, NEW yes \in BOOLEAN, HaltNetwork(yes)
  PROVE  stopped' \in BOOLEAN /\ armed' \in BOOLEAN /\ (~stopped' => ~stopped /\ ~yes)
BY DEF ExposureTyped, HaltNetwork

LEMMA LeaveKeeps == ASSUME ExposureInv, NEW o \in Ids, Leave(o) PROVE ExposureInv'
<1>1. /\ book[o].state = "held" /\ Turns(o, "selling") /\ "selling" \in States
      /\ UNCHANGED <<cash, stage, auth, blind>>
  BY DEF Leave, Turns, States, ledgerVars
<1>2. stopped' \in BOOLEAN /\ armed' \in BOOLEAN /\ (~stopped' => ~stopped)
  <2>1. (Drawdown >= MaxDraw) \in BOOLEAN
    OBVIOUS
  <2> QED
    BY <2>1, HaltTypes DEF Leave, ExposureInv
<1>3. /\ book' \in [Ids -> BookRow] /\ \A p \in Ids : Whole(book'[p])
      /\ \A p \in Ids : book'[p].size = book[p].size
      /\ \A p \in Ids : book'[p].floor = book[p].floor
      /\ \A p \in Ids : book'[p].state = IF p = o THEN "selling" ELSE book[p].state
      /\ Swaps' = Swaps /\ Entries' = Entries /\ InOrder'
  BY <1>1, TurnsTyped DEF ExposureInv
<1>4. ExposureTyped'
  BY <1>1, <1>2, <1>3 DEF ExposureInv, ExposureTyped
<1>5. Unsettled' = Unsettled /\ InState({"unknown"})' = InState({"unknown"})
  BY <1>1, <1>3 DEF Unsettled, InState
<1>6. Worth(Unsettled)' = Worth(Unsettled)
  BY <1>3, <1>5, SameWorth DEF ExposureInv
<1>7. Rest \in Int /\ Rest' = Rest /\ stage \in Stages
  BY <1>1, <1>6, CommittedWithin DEF ExposureInv, ExposureTyped, Rest
<1>8. Solvent'
  BY <1>1, <1>2, <1>3, <1>5, <1>7, RestHolds
<1> QED
  BY <1>4, <1>8 DEF ExposureInv

LEMMA BroadcastKeeps == ASSUME ExposureInv, NEW o \in Ids, Broadcast(o) PROVE ExposureInv'
<1>1. /\ book[o].state = "approved" /\ Turns(o, "open") /\ "open" \in States
      /\ UNCHANGED <<cash, stage, stopped, armed, auth, blind>>
  BY DEF Broadcast, Turns, States, ledgerVars, configVars
<1>2. /\ book' \in [Ids -> BookRow] /\ \A p \in Ids : Whole(book'[p])
      /\ \A p \in Ids : book'[p].size = book[p].size
      /\ \A p \in Ids : book'[p].floor = book[p].floor
      /\ \A p \in Ids : book'[p].state = IF p = o THEN "open" ELSE book[p].state
      /\ Swaps' = Swaps /\ Entries' = Entries /\ InOrder'
  BY <1>1, TurnsTyped DEF ExposureInv
<1>3. ExposureTyped'
  BY <1>1, <1>2 DEF ExposureInv, ExposureTyped
<1>4. Unsettled' = Unsettled /\ InState({"unknown"})' = InState({"unknown"})
  BY <1>1, <1>2 DEF Unsettled, InState
<1>5. Worth(Unsettled)' = Worth(Unsettled)
  BY <1>2, <1>4, SameWorth DEF ExposureInv
<1>6. Rest \in Int /\ Rest' = Rest /\ stage \in Stages
  BY <1>1, <1>5, CommittedWithin DEF ExposureInv, ExposureTyped, Rest
<1>7. Solvent'
  BY <1>1, <1>2, <1>4, <1>6, RestHolds
<1> QED
  BY <1>3, <1>7 DEF ExposureInv

LEMMA BuyKeeps == ASSUME ExposureInv, NEW o \in Ids, BuySettles(o) PROVE ExposureInv'
<1>1. /\ book[o].state \in {"open", "unknown"} /\ Turns(o, "held") /\ "held" \in States
      /\ cash' = cash - book[o].size /\ UNCHANGED <<stage, stopped, armed, auth, blind>>
  BY DEF BuySettles, Turns, States, configVars
<1>2. /\ book' \in [Ids -> BookRow] /\ \A p \in Ids : Whole(book'[p])
      /\ \A p \in Ids : book'[p].size = book[p].size
      /\ \A p \in Ids : book'[p].floor = book[p].floor
      /\ \A p \in Ids : book'[p].state = IF p = o THEN "held" ELSE book[p].state
      /\ Swaps' = Swaps /\ Entries' = Entries /\ InOrder'
  BY <1>1, TurnsTyped DEF ExposureInv
<1>3. book[o].size \in Nat /\ cash \in Int
  BY DEF ExposureInv, ExposureTyped, BookRow
<1>4. ExposureTyped'
  BY <1>1, <1>2, <1>3 DEF ExposureInv, ExposureTyped
<1>5. /\ o \in Unsettled /\ Unsettled' = Unsettled \ {o}
      /\ InState({"unknown"})' \subseteq InState({"unknown"})
  BY <1>1, <1>2 DEF Unsettled, InState
<1>6. Worth(Unsettled)' = Worth(Unsettled) - book[o].size /\ Worth(Unsettled) \in Nat
  BY <1>2, <1>5, LessWorth, CommittedWithin DEF ExposureInv
<1>7. Rest \in Int /\ Rest' = Rest /\ stage \in Stages
  BY <1>1, <1>3, <1>6, CommittedWithin DEF ExposureInv, ExposureTyped, Rest
<1>8. Solvent'
  BY <1>1, <1>2, <1>5, <1>7, RestHolds
<1> QED
  BY <1>4, <1>8 DEF ExposureInv

\* An order that comes to nothing gives back what it would have taken.
LEMMA GivenUpKeeps ==
  ASSUME ExposureInv, NEW o \in Ids, Declined(o) \/ Missed(o) PROVE ExposureInv'
<1>1. PICK state \in {"rejected", "failed"} :
        /\ book[o].state \in {"approved", "open", "unknown"} /\ Turns(o, state)
        /\ UNCHANGED <<cash, stage, auth, blind>> /\ \E yes \in BOOLEAN : HaltNetwork(yes)
  BY DEF Declined, Missed, Turns, ledgerVars
<1>2. stopped' \in BOOLEAN /\ armed' \in BOOLEAN /\ (~stopped' => ~stopped)
  BY <1>1, HaltTypes DEF ExposureInv
<1>3. /\ book' \in [Ids -> BookRow] /\ \A p \in Ids : Whole(book'[p])
      /\ \A p \in Ids : book'[p].size = book[p].size
      /\ \A p \in Ids : book'[p].floor = book[p].floor
      /\ \A p \in Ids : book'[p].state = IF p = o THEN state ELSE book[p].state
      /\ Swaps' = Swaps /\ Entries' = Entries /\ InOrder'
  <2>1. state \in States
    BY DEF States
  <2> QED
    BY <1>1, <2>1, TurnsTyped DEF ExposureInv
<1>4. book[o].size \in Nat
  BY DEF ExposureInv, ExposureTyped, BookRow
<1>5. ExposureTyped'
  BY <1>1, <1>2, <1>3 DEF ExposureInv, ExposureTyped
<1>6. /\ o \in Unsettled /\ Unsettled' = Unsettled \ {o}
      /\ InState({"unknown"})' \subseteq InState({"unknown"})
  BY <1>1, <1>3 DEF Unsettled, InState
<1>7. Worth(Unsettled)' = Worth(Unsettled) - book[o].size /\ Worth(Unsettled) \in Nat
  BY <1>3, <1>6, LessWorth, CommittedWithin DEF ExposureInv
<1>8. Rest \in Int /\ Rest' \in Int /\ Rest' >= Rest /\ stage \in Stages
  BY <1>1, <1>4, <1>7, CommittedWithin DEF ExposureInv, ExposureTyped, Rest
<1>9. Solvent'
  BY <1>1, <1>2, <1>3, <1>6, <1>8, RestHolds
<1> QED
  BY <1>5, <1>9 DEF ExposureInv

LEMMA DoubtfulKeeps == ASSUME ExposureInv, NEW o \in Ids, Doubtful(o) PROVE ExposureInv'
<1>1. /\ book[o].state \in {"approved", "open"} /\ Turns(o, "unknown") /\ "unknown" \in States
      /\ UNCHANGED <<cash, stage, auth, blind>> /\ HaltNetwork(TRUE)
  BY DEF Doubtful, Turns, States, Buying, ledgerVars
<1>2. stopped' \in BOOLEAN /\ armed' \in BOOLEAN /\ stopped'
  BY <1>1, HaltTypes DEF ExposureInv
<1>3. /\ book' \in [Ids -> BookRow] /\ \A p \in Ids : Whole(book'[p])
      /\ \A p \in Ids : book'[p].size = book[p].size
      /\ \A p \in Ids : book'[p].floor = book[p].floor
      /\ \A p \in Ids : book'[p].state = IF p = o THEN "unknown" ELSE book[p].state
      /\ Swaps' = Swaps /\ Entries' = Entries /\ InOrder'
  BY <1>1, TurnsTyped DEF ExposureInv
<1>4. ExposureTyped'
  BY <1>1, <1>2, <1>3 DEF ExposureInv, ExposureTyped
<1>5. Unsettled' = Unsettled
  BY <1>1, <1>3 DEF Unsettled, InState
<1>6. Worth(Unsettled)' = Worth(Unsettled)
  BY <1>3, <1>5, SameWorth DEF ExposureInv
<1>7. Rest \in Int /\ Rest' = Rest /\ stage \in Stages
  BY <1>1, <1>6, CommittedWithin DEF ExposureInv, ExposureTyped, Rest
<1>8. Solvent'
  BY <1>1, <1>2, <1>3, <1>7, RestHolds
<1> QED
  BY <1>4, <1>8 DEF ExposureInv

LEMMA ExitKeeps ==
  ASSUME ExposureInv, NEW o \in Ids, NEW gain \in {-1, 1}, ExitSettles(o, gain)
  PROVE  ExposureInv'
<1>1. /\ book[o].state = "selling" /\ Turns(o, "sold") /\ "sold" \in States
      /\ cash' = cash + book[o].size + gain
      /\ UNCHANGED <<stage, stopped, armed, auth, blind>>
  BY DEF ExitSettles, Turns, States, configVars
<1>2. /\ book' \in [Ids -> BookRow] /\ \A p \in Ids : Whole(book'[p])
      /\ \A p \in Ids : book'[p].size = book[p].size
      /\ \A p \in Ids : book'[p].floor = book[p].floor
      /\ \A p \in Ids : book'[p].state = IF p = o THEN "sold" ELSE book[p].state
      /\ Swaps' = Swaps /\ Entries' = Entries /\ InOrder'
  BY <1>1, TurnsTyped DEF ExposureInv
<1>3. book[o].size \in Nat /\ book[o].size >= 1 /\ cash \in Int
  <2>1. Whole(book[o])
    BY DEF ExposureInv, ExposureTyped
  <2> QED
    BY <1>1, <2>1 DEF ExposureInv, ExposureTyped, BookRow, Whole
<1>4. cash' \in Int /\ cash' >= cash
  BY <1>1, <1>3
<1>5. ExposureTyped'
  BY <1>1, <1>2, <1>4 DEF ExposureInv, ExposureTyped
<1>6. Unsettled' = Unsettled /\ InState({"unknown"})' = InState({"unknown"})
  BY <1>1, <1>2 DEF Unsettled, InState
<1>7. Worth(Unsettled)' = Worth(Unsettled) /\ Worth(Unsettled) \in Nat
  BY <1>2, <1>6, SameWorth, CommittedWithin DEF ExposureInv
<1>8. Rest \in Int /\ Rest' \in Int /\ Rest' >= Rest /\ stage \in Stages
  BY <1>3, <1>4, <1>7 DEF ExposureInv, ExposureTyped, Rest
<1>9. Solvent'
  BY <1>1, <1>2, <1>6, <1>8, RestHolds
<1> QED
  BY <1>5, <1>9 DEF ExposureInv

\* What moves no order.
LEMMA BookRests ==
  ASSUME ExposureInv, UNCHANGED book
  PROVE  /\ InState({"unknown"})' = InState({"unknown"}) /\ Swaps' = Swaps /\ Entries' = Entries
         /\ Worth(Unsettled)' = Worth(Unsettled) /\ Worth(Unsettled) \in Nat
         /\ \A o \in Ids : book'[o].floor = book[o].floor
         /\ book' \in [Ids -> BookRow] /\ InOrder' /\ \A o \in Ids : Whole(book'[o])
<1>1. /\ Unsettled' = Unsettled /\ InState({"unknown"})' = InState({"unknown"})
      /\ Swaps' = Swaps /\ Entries' = Entries
  BY DEF Unsettled, InState, Swaps, Entries
<1>2. Worth(Unsettled)' = Worth(Unsettled)
  BY <1>1, SameWorth DEF ExposureInv
<1>3. book' \in [Ids -> BookRow] /\ InOrder' /\ \A o \in Ids : Whole(book'[o])
  BY DEF ExposureInv, ExposureTyped, InOrder, Whole
<1> QED
  BY <1>1, <1>2, <1>3, CommittedWithin DEF ExposureInv

LEMMA SwitchKeeps == ASSUME ExposureInv, Breaker \/ Resume PROVE ExposureInv'
<1>1. /\ UNCHANGED <<book, cash, stage, auth, blind>>
      /\ stopped' \in BOOLEAN /\ armed' \in BOOLEAN
      /\ ~stopped' => InState({"unknown"}) = {}
  <2>1. CASE Breaker
    BY <2>1 DEF Breaker, HaltNetwork, ledgerVars, ExposureInv, ExposureTyped
  <2>2. CASE Resume
    BY <2>2 DEF Resume, ledgerVars
  <2> QED
    BY <2>1, <2>2
<1>2. ExposureTyped'
  BY <1>1, BookRests DEF ExposureInv, ExposureTyped
<1>3. Rest \in Int /\ Rest' = Rest /\ stage \in Stages
  BY <1>1, BookRests, CommittedWithin DEF ExposureInv, ExposureTyped, Rest
<1>4. Solvent'
  BY <1>1, <1>3, BookRests, RestHolds
<1> QED
  BY <1>2, <1>4 DEF ExposureInv

LEMMA LaunchKeeps == ASSUME ExposureInv, EnableFullMarket PROVE ExposureInv'
<1>1. /\ UNCHANGED <<book, cash, stage>> /\ cash >= Caps[1]
      /\ auth' = cash /\ armed' = TRUE /\ stopped' = FALSE
      /\ blind' = (blind \/ InState({"unknown"}) # {})
  BY DEF EnableFullMarket, ledgerVars
<1>2. auth' \in Nat
  BY <1>1, ExposureAssumption DEF ExposureInv, ExposureTyped
<1>3. ExposureTyped'
  BY <1>1, <1>2, BookRests DEF ExposureInv, ExposureTyped
<1>4. CASE blind'
  BY <1>3, <1>4 DEF ExposureInv, Solvent
<1>5. CASE ~blind'
  <2>1. UNCHANGED blind /\ InState({"unknown"}) = {}
    BY <1>1, <1>5 DEF ExposureInv, ExposureTyped
  <2>2. Rest \in Int /\ Rest' = Rest /\ stage \in Stages
    BY <1>1, BookRests, CommittedWithin DEF ExposureInv, ExposureTyped, Rest
  <2>3. Solvent'
    BY <1>1, <2>1, <2>2, BookRests, RestHolds
  <2> QED
    BY <1>3, <2>3 DEF ExposureInv
<1> QED
  BY <1>4, <1>5

LEMMA DepositKeeps == ASSUME ExposureInv, Deposit(Caps[1]) PROVE ExposureInv'
<1>1. /\ cash' = cash + Caps[1] /\ UNCHANGED <<book, stage, stopped, armed, auth, blind>>
      /\ Caps[1] \in Nat
  BY ExposureAssumption DEF Deposit, configVars
<1>2. cash \in Int /\ Worth(Unsettled) \in Nat
  BY <1>1, BookRests DEF ExposureInv, ExposureTyped
<1>3. cash' \in Int /\ cash' >= cash
  BY <1>1, <1>2
<1>4. ExposureTyped'
  BY <1>1, <1>3, BookRests DEF ExposureInv, ExposureTyped
<1>5. Rest \in Int /\ Rest' \in Int /\ Rest' >= Rest /\ stage \in Stages
  BY <1>1, <1>2, <1>3, BookRests DEF ExposureInv, ExposureTyped, Rest
<1>6. Solvent'
  BY <1>1, <1>5, BookRests, RestHolds
<1> QED
  BY <1>4, <1>6 DEF ExposureInv

LEMMA StageKeeps == ASSUME ExposureInv, NEW s \in Stages, SetStage(s) PROVE ExposureInv'
<1>1. /\ stage' = s /\ UNCHANGED <<book, cash, stopped, armed, auth, blind>>
      /\ s > stage => Promotable(s)
  BY DEF SetStage, ledgerVars
<1>2. ExposureTyped'
  BY <1>1, BookRests DEF ExposureInv, ExposureTyped
<1>3. /\ cash \in Int /\ stage \in Stages /\ s \in Nat /\ stage \in Nat
      /\ ReserveAt(s) \in Nat /\ ReserveAt(s) <= Caps[s] /\ Caps[s] \in Nat
      /\ ReserveAt(stage) \in Nat /\ Worth(Unsettled) \in Nat
      /\ Rest \in Int /\ Rest' = Rest
  BY <1>1, BookRests, Reserves, CommittedWithin, ExposureAssumption
  DEF ExposureInv, ExposureTyped, Rest
<1>4. CASE blind
  BY <1>1, <1>2, <1>4 DEF ExposureInv, Solvent
<1>5. CASE ~blind
  <2>1. /\ ~stopped => InState({"unknown"}) = {}
        /\ Swaps = {} => Rest >= ReserveAt(stage)
        /\ Entries = {} => \A o \in Ids : Newest(o) => Rest >= book[o].floor
    BY <1>5 DEF ExposureInv, Solvent
  <2>2. ASSUME Swaps = {} PROVE Rest >= ReserveAt(s)
    <3>1. CASE s > stage
      <4>1. InState({"failed", "unknown", "open", "selling"}) = {} /\ cash >= Caps[s]
        BY <1>1, <3>1 DEF Promotable
      <4>2. Unsettled = {}
        <5> SUFFICES ASSUME NEW o \in Unsettled PROVE FALSE
          OBVIOUS
        <5>1. o \in Ids /\ book[o].state = "approved"
          BY <4>1 DEF Unsettled, InState
        <5>2. book[o].by = "bot"
          BY <2>2, <5>1 DEF Swaps, ExposureInv, ExposureTyped, BookRow, Whole
        <5> QED
          BY <5>1, <5>2 DEF ExposureInv, ExposureTyped, Whole
      <4>3. Worth(Unsettled) = 0
        BY <4>2, SumEmpty DEF Worth
      <4> QED
        BY <1>3, <4>1, <4>3 DEF Rest
    <3>2. CASE s <= stage
      <4>1. ReserveAt(s) <= ReserveAt(stage)
        BY <1>3, <3>2, Reserves
      <4> QED
        BY <1>3, <2>1, <2>2, <4>1
    <3> QED
      BY <1>3, <3>1, <3>2
  <2>3. ReserveAt(stage)' = ReserveAt(s)
    BY <1>1 DEF ReserveAt
  <2>4. Swaps' = {} => Rest' >= ReserveAt(stage)'
    BY <1>1, <1>3, <2>2, <2>3, BookRests
  <2>5. ~stopped' => InState({"unknown"})' = {}
    BY <1>1, <2>1, BookRests
  <2>6. ASSUME Entries' = {}, NEW o \in Ids, Newest(o)' PROVE Rest' >= book'[o].floor
    <3>1. Newest(o) /\ Entries = {}
      BY <1>1, <2>6, BookRests DEF Newest
    <3> QED
      BY <1>1, <1>3, <2>1, <3>1
  <2> QED
    BY <1>2, <2>4, <2>5, <2>6 DEF ExposureInv, Solvent
<1> QED
  BY <1>4, <1>5

LEMMA ExposureRests ==
  ASSUME ExposureInv, UNCHANGED <<book, cash, stage, stopped, armed, auth, blind>>
  PROVE  ExposureInv'
<1>1. ExposureTyped'
  BY BookRests DEF ExposureInv, ExposureTyped
<1>2. Rest \in Int /\ Rest' = Rest /\ stage \in Stages
  BY BookRests, CommittedWithin DEF ExposureInv, ExposureTyped, Rest
<1>3. Solvent'
  BY <1>2, BookRests, RestHolds
<1> QED
  BY <1>1, <1>3 DEF ExposureInv

LEMMA ExposureNextKeeps == ExposureInv /\ [ExposureNext]_exposureVars => ExposureInv'
<1> SUFFICES ASSUME ExposureInv, [ExposureNext]_exposureVars PROVE ExposureInv'
  OBVIOUS
<1>1. CASE UNCHANGED exposureVars
  BY <1>1, ExposureRests DEF exposureVars, configVars, ledgerVars
<1>2. ASSUME NEW o \in Ids, NEW b \in Bots, NEW size \in 1 .. Ceiling(Caps[stage]),
             Enter(o, b, size)
      PROVE  ExposureInv'
  BY <1>2, EnterKeeps
<1>3. ASSUME NEW o \in Ids, NEW b \in Bots, NEW size \in 1 .. Ceiling(Effective),
             SwapIn(o, b, size)
      PROVE  ExposureInv'
  BY <1>3, SwapInKeeps
<1>4. ASSUME NEW o \in Ids, \/ Leave(o) \/ Broadcast(o) \/ Declined(o)
                            \/ BuySettles(o) \/ Missed(o) \/ Doubtful(o)
      PROVE  ExposureInv'
  BY <1>4, LeaveKeeps, BroadcastKeeps, BuyKeeps, GivenUpKeeps, DoubtfulKeeps
<1>5. ASSUME NEW o \in Ids, NEW gain \in {-1, 1}, ExitSettles(o, gain) PROVE ExposureInv'
  BY <1>5, ExitKeeps
<1>6. ASSUME NEW capital, NEW new, Rebalance(capital, new) PROVE ExposureInv'
  BY <1>6, ExposureRests DEF Rebalance, configVars, ledgerVars
<1>7. CASE ExposureNext
  BY <1>2, <1>3, <1>4, <1>5, <1>6, <1>7, SwitchKeeps, LaunchKeeps, StageKeeps, DepositKeeps
  DEF ExposureNext
<1> QED
  BY <1>1, <1>7

LEMMA ExposureInitHolds == ExposureInit => ExposureInv
<1> SUFFICES ASSUME ExposureInit PROVE ExposureInv
  OBVIOUS
<1>1. /\ book = [o \in Ids |-> NoOrder] /\ cash = Caps[1]
      /\ stage = 1 /\ stopped = FALSE /\ armed = FALSE /\ auth = 0 /\ blind = FALSE
  BY DEF ExposureInit
<1>2. 1 \in Stages /\ Caps[1] \in Nat
  BY ExposureAssumption
<1>3. \A o \in Ids : book[o].state = "none" /\ book[o].by = "none"
  BY <1>1 DEF NoOrder
<1>4. ExposureTyped
  <2>1. book \in [Ids -> BookRow]
    BY <1>1 DEF BookRow, NoOrder
  <2>2. InOrder /\ \A o \in Ids : Whole(book[o])
    BY <1>3 DEF InOrder, Whole
  <2>3. cash \in Int /\ stage \in Stages /\ auth \in Nat
    BY <1>1, <1>2
  <2>4. stopped \in BOOLEAN /\ armed \in BOOLEAN /\ blind \in BOOLEAN
    BY <1>1
  <2> QED
    BY <2>1, <2>2, <2>3, <2>4 DEF ExposureTyped
<1>5. Unsettled = {} /\ InState({"unknown"}) = {} /\ Swaps = {}
  BY <1>3 DEF Unsettled, InState, Swaps
<1>6. Worth(Unsettled) = 0
  BY <1>5, SumEmpty DEF Worth
<1>7. ReserveAt(1) \in Nat /\ ReserveAt(1) <= Caps[1]
  BY <1>2, Reserves
<1>8. Rest >= ReserveAt(stage)
  BY <1>1, <1>2, <1>6, <1>7 DEF Rest
<1>9. \A o \in Ids : ~Newest(o)
  BY <1>5 DEF Newest
<1>10. Solvent
  BY <1>5, <1>8, <1>9 DEF Solvent
<1> QED
  BY <1>4, <1>10 DEF ExposureInv

\* Whatever the bots, the stages and the reserve: bots alone leave the reserve of
\* the stage in the wallet, and the council alone the one its newest swap was
\* judged by (live/riskEngine.ts:413-424, live/swapIntent.ts:82-95).
THEOREM ReserveTheorem == ExposureSpec => []ReserveKept
<1>1. ExposureInv => ReserveKept
  <2> SUFFICES ASSUME ExposureInv, ~blind PROVE ReserveKept
    BY DEF ReserveKept
  <2>1. /\ Rest \in Int /\ Rest <= cash - Committed(Ids) /\ Committed(Ids) \in Nat
        /\ cash \in Int /\ ReserveAt(stage) \in Nat
    BY CommittedWithin, Reserves DEF ExposureInv, ExposureTyped
  <2>2. Swaps = {} => cash - Committed(Ids) >= ReserveAt(stage)
    BY <2>1 DEF ExposureInv, Solvent
  <2>3. ASSUME Entries = {}, NEW o \in Ids, Newest(o)
        PROVE  cash - Committed(Ids) >= book[o].floor
    <3>1. Rest >= book[o].floor /\ book[o].floor \in Int
      BY <2>3 DEF ExposureInv, ExposureTyped, Solvent, BookRow
    <3> QED
      BY <2>1, <3>1
  <2> QED
    BY <2>2, <2>3 DEF ReserveKept
<1> QED
  BY <1>1, ExposureInitHolds, ExposureNextKeeps, PTL DEF ExposureSpec
-----------------------------------------------------------------------------
(* Universe: what may trade was verified by the chain.                     *)

\* A token that was verified is in the registry with the chain's decimals.
VerifiedByChain ==
  \A a \in Asset : registry[a].verified => registry[a].listed /\ registry[a].decimals

\* What a refresh has still to verify is listed, and a row never leaves the list.
DueIsListed ==
  \A r \in Refresher : refresh[r].due # <<>> => \A a \in Asset : registry[a].listed

UniverseInv ==
  /\ UniverseTypeOK /\ Len(pinned) <= MaxPinned
  /\ VerifiedByChain /\ DueIsListed /\ ObservedWasRead

DueRow == [asset : Asset, symbol : BOOLEAN, decimals : BOOLEAN]
Refresh == [at : {"idle", "fetch", "verify"}, due : Seq(DueRow), rejected : BOOLEAN]
Terms == [Asset -> [symbol : BOOLEAN, decimals : BOOLEAN]]
Snapshot == [terms : Terms, state : {"draft", "active", "retired"}, now : BOOLEAN,
             policy : 0 .. MaxPolicy, applied : BOOLEAN]

PolicyRow == [universe : 0 .. MaxPinned, expected : 0 .. MaxPolicy,
              observed : 0 .. MaxPolicy, halted : BOOLEAN, armed : BOOLEAN]

LEMMA UniverseTypes ==
  UniverseTypeOK =>
    /\ \A a \in Asset : registry[a] \in Row
    /\ \A r \in Refresher : refresh[r] \in Refresh
    /\ pinned \in Seq(Snapshot)
    /\ \A i \in DOMAIN pinned : pinned[i] \in Snapshot
<1> SUFFICES ASSUME UniverseTypeOK
             PROVE  /\ \A a \in Asset : registry[a] \in Row
                    /\ \A r \in Refresher : refresh[r] \in Refresh
                    /\ pinned \in Seq(Snapshot)
                    /\ \A i \in DOMAIN pinned : pinned[i] \in Snapshot
  OBVIOUS
<1>1. registry \in [Asset -> Row] /\ refresh \in [Refresher -> Refresh]
  BY DEF UniverseTypeOK, Refresh, DueRow, Refresh
<1>2. pinned \in Seq(Snapshot)
  BY DEF UniverseTypeOK, Snapshot, Terms
<1> QED
  BY <1>1, <1>2

LEMMA RestingType ==
  /\ Resting \in Refresh /\ Resting.due = <<>>
  /\ [Resting EXCEPT !.at = "fetch"] \in Refresh
  /\ [Resting EXCEPT !.at = "fetch"].due = <<>>
<1>1. <<>> \in Seq(DueRow)
  OBVIOUS
<1>2. Resting = [at |-> "idle", due |-> <<>>, rejected |-> FALSE]
  BY DEF Resting
<1>3. Resting \in Refresh /\ Resting.due = <<>>
  BY <1>1, <1>2 DEF Refresh
<1>4. ASSUME NEW q \in Refresh
      PROVE  [q EXCEPT !.at = "fetch"] \in Refresh /\ [q EXCEPT !.at = "fetch"].due = q.due
  BY DEF Refresh
<1> QED
  BY <1>3, <1>4

LEMMA UniverseInitInv == UniverseInit => UniverseInv
<1> SUFFICES ASSUME UniverseInit PROVE UniverseInv
  OBVIOUS
<1> USE UniverseAssumption
<1>1. registry \in [Asset -> Row] /\ VerifiedByChain
  BY DEF UniverseInit, Row, Unlisted, VerifiedByChain
<1>2. refresh \in [Refresher -> Refresh] /\ DueIsListed
  BY RestingType DEF UniverseInit, DueIsListed
<1>3. pinned \in Seq(Snapshot) /\ Len(pinned) <= MaxPinned
  BY DEF UniverseInit
<1>4. ObservedWasRead
  BY DEF UniverseInit, ObservedWasRead
<1>5. policy \in PolicyRow
  BY DEF UniverseInit, PolicyRow
<1>7. corporate \in [Asset -> {"none", "pauses", "over"}]
  BY DEF UniverseInit
<1>8. {bundles, privy} \subseteq 0 .. MaxPolicy /\ refreshes \in 0 .. MaxRefresh
  <2>1. 0 \in 0 .. MaxPolicy /\ 0 \in 0 .. MaxRefresh
    OBVIOUS
  <2> QED
    BY <2>1 DEF UniverseInit
<1>9. clean \in BOOLEAN
  BY DEF UniverseInit
<1>6. readBack \in [for : {"nothing", "confirm", "enable"}, on : 0 .. MaxPinned,
                    hash : 0 .. MaxPolicy, bodies : 0 .. MaxPolicy]
  BY DEF UniverseInit, Nothing
<1> QED
  BY <1>1, <1>2, <1>3, <1>4, <1>5, <1>6, <1>7, <1>8, <1>9
  DEF UniverseInv, UniverseTypeOK, Refresh, DueRow, Snapshot, Terms, PolicyRow

\* A refresh that starts, fails or ends: what it had to verify is forgotten.
LEMMA UniverseRests ==
  ASSUME UniverseInv, NEW r \in Refresher, NEW row, row.due = <<>>,
         refresh' = [refresh EXCEPT ![r] = row], registry' = registry,
         row \in Refresh
  PROVE  /\ refresh' \in [Refresher -> Refresh]
         /\ registry' \in [Asset -> Row]
         /\ VerifiedByChain' /\ DueIsListed'
  BY DEF UniverseInv, UniverseTypeOK, VerifiedByChain, DueIsListed, Refresh, DueRow

LEMMA RefreshStartsKeeps ==
  ASSUME UniverseInv, NEW r \in Refresher, RefreshStarts(r) PROVE UniverseInv'
<1> USE UniverseAssumption
<1>1. VerifiedByChain' /\ DueIsListed'
      /\ refresh' \in [Refresher -> Refresh]
  BY UniverseRests, RestingType DEF RefreshStarts
<1>2. refreshes' \in 0 .. MaxRefresh
  BY DEF RefreshStarts, UniverseInv, UniverseTypeOK
<1> QED
  BY <1>1, <1>2 DEF RefreshStarts, UniverseInv, UniverseTypeOK, Refresh, DueRow, ObservedWasRead

LEMMA FetchFailsKeeps ==
  ASSUME UniverseInv, NEW r \in Refresher, FetchFails(r) PROVE UniverseInv'
<1>1. VerifiedByChain' /\ DueIsListed'
      /\ refresh' \in [Refresher -> Refresh]
  BY UniverseRests, RestingType DEF FetchFails
<1> QED
  BY <1>1 DEF FetchFails, UniverseInv, UniverseTypeOK, Refresh, DueRow, ObservedWasRead

\* The snapshots may be out of date now, and are otherwise the same.
LEMMA OutdatedKeeps ==
  ASSUME UniverseInv, policy' = policy, pinned' = Outdated \/ pinned' = pinned
  PROVE  pinned' \in Seq(Snapshot) /\ Len(pinned') <= MaxPinned /\ ObservedWasRead'
<1>1. pinned \in Seq(Snapshot) /\ \A i \in DOMAIN pinned : pinned[i] \in Snapshot
  BY UniverseTypes DEF UniverseInv
<1>2. CASE pinned' = pinned
  BY <1>1, <1>2 DEF UniverseInv, ObservedWasRead
<1>3. CASE pinned' = Outdated
  <2>1. DOMAIN pinned = 1 .. Len(pinned) /\ Len(pinned) \in Nat
    BY <1>1
  <2>2. \A i \in DOMAIN pinned :
          /\ pinned'[i] \in Snapshot /\ pinned'[i].policy = pinned[i].policy
          /\ pinned'[i].applied = pinned[i].applied
    BY <1>1, <1>3 DEF Outdated, Snapshot
  <2>3. DOMAIN pinned' = 1 .. Len(pinned) /\ pinned' = [i \in 1 .. Len(pinned) |-> pinned'[i]]
    BY <1>3, <2>1 DEF Outdated
  <2>4. pinned' \in Seq(Snapshot) /\ Len(pinned') = Len(pinned)
    BY <2>1, <2>2, <2>3
  <2>5. ObservedWasRead'
    BY <2>1, <2>2, <2>3 DEF UniverseInv, ObservedWasRead
  <2> QED
    BY <2>4, <2>5 DEF UniverseInv
<1> QED
  BY <1>2, <1>3

LEMMA ListedKeeps ==
  ASSUME UniverseInv, NEW r \in Refresher, Listed(r) PROVE UniverseInv'
<1> USE UniverseAssumption
<1>1. PICK api \in [Asset -> [symbol : BOOLEAN, decimals : BOOLEAN, tradable : BOOLEAN]],
           order \in SetToSeqs(Asset) :
        LET new == [a \in Asset |-> Upserted(registry[a], api[a])]
        IN /\ registry' = new
           /\ refresh' = [refresh EXCEPT ![r].at = "verify",
                ![r].due = [i \in DOMAIN order |->
                  [asset |-> order[i], symbol |-> new[order[i]].symbol,
                   decimals |-> new[order[i]].decimals]]]
           /\ pinned' = IF new = registry THEN pinned ELSE Outdated
  BY DEF Listed
<1>2. UNCHANGED <<clean, corporate, policy, bundles, privy, readBack, refreshes>>
  BY DEF Listed
<1>3. registry' = [a \in Asset |-> Upserted(registry[a], api[a])]
  BY <1>1
<1>4. \A a \in Asset : registry[a] \in Row /\ api[a] \in
        [symbol : BOOLEAN, decimals : BOOLEAN, tradable : BOOLEAN]
  BY UniverseTypes DEF UniverseInv
<1>5. \A a \in Asset : /\ registry'[a] \in Row /\ registry'[a].listed
                       /\ registry'[a].verified = registry[a].verified
                       /\ registry[a].listed => registry'[a].decimals = registry[a].decimals
  <2> SUFFICES ASSUME NEW a \in Asset
               PROVE  /\ Upserted(registry[a], api[a]) \in Row
                      /\ Upserted(registry[a], api[a]).listed
                      /\ Upserted(registry[a], api[a]).verified = registry[a].verified
                      /\ registry[a].listed =>
                           Upserted(registry[a], api[a]).decimals = registry[a].decimals
    BY <1>3
  <2> QED
    BY <1>4 DEF Upserted, Row
<1>6. registry' \in [Asset -> Row] /\ VerifiedByChain'
  BY <1>3, <1>5 DEF UniverseInv, VerifiedByChain
<1>7. DueIsListed'
  BY <1>5 DEF DueIsListed
<1> DEFINE owing == [i \in DOMAIN order |->
                [asset |-> order[i], symbol |-> registry'[order[i]].symbol,
                 decimals |-> registry'[order[i]].decimals]]
<1>8. owing \in Seq(DueRow)
  <2>1. Cardinality(Asset) \in Nat /\ order \in [1 .. Cardinality(Asset) -> Asset]
    BY FS_CardinalityType DEF SetToSeqs
  <2>2. \A i \in 1 .. Cardinality(Asset) : owing[i] \in DueRow
    BY <1>5, <2>1 DEF DueRow, Row
  <2> QED
    BY <2>1, <2>2
<1>9. refresh' = [refresh EXCEPT ![r].at = "verify", ![r].due = owing]
  BY <1>1
<1>10. refresh' \in [Refresher -> Refresh]
  <2> HIDE DEF owing
  <2>1. DOMAIN refresh = Refresher /\ \A q \in Refresher : refresh[q] \in Refresh
    BY UniverseTypes DEF UniverseInv, UniverseTypeOK
  <2>2. [refresh[r] EXCEPT !.at = "verify", !.due = owing] \in Refresh
    BY <1>8, <2>1 DEF Refresh
  <2> QED
    BY <1>9, <2>1, <2>2
<1>11. pinned' = Outdated \/ pinned' = pinned
  BY <1>1
<1>12. pinned' \in Seq(Snapshot) /\ Len(pinned') <= MaxPinned /\ ObservedWasRead'
  BY <1>2, <1>11, OutdatedKeeps
<1> QED
  BY <1>2, <1>6, <1>7, <1>10, <1>12
  DEF UniverseInv, UniverseTypeOK, Refresh, DueRow, Snapshot, Terms

LEMMA VerifiedKeeps ==
  ASSUME UniverseInv, NEW r \in Refresher, Verified(r) PROVE UniverseInv'
<1> DEFINE row == Head(refresh[r].due)
<1>1. PICK symbolRead \in BOOLEAN, decimalsRead \in BOOLEAN :
        LET ok == VerifyAsset(row, symbolRead, decimalsRead)
        IN /\ registry' = [registry EXCEPT ![row.asset].verified = ok,
                                           ![row.asset].decimals = @ \/ decimalsRead]
           /\ refresh' = [refresh EXCEPT ![r].due = Tail(@), ![r].rejected = @ \/ ~ok]
  BY DEF Verified
<1>2. /\ UNCHANGED <<clean, corporate, policy, bundles, privy, readBack, refreshes>>
      /\ pinned' = Outdated /\ refresh[r].due # <<>>
  BY DEF Verified
<1>3. /\ refresh[r] \in Refresh /\ refresh[r].due \in Seq(DueRow)
      /\ \A a \in Asset : registry[a] \in Row
  BY UniverseTypes DEF UniverseInv, Refresh
<1>4. row \in DueRow /\ Tail(refresh[r].due) \in Seq(DueRow)
  BY <1>2, <1>3
<1> DEFINE ok == VerifyAsset(row, symbolRead, decimalsRead)
<1>5. row.asset \in Asset /\ ok \in BOOLEAN /\ (ok => decimalsRead)
  BY <1>4 DEF DueRow, VerifyAsset
<1>6. /\ registry' = [registry EXCEPT ![row.asset].verified = ok,
                                      ![row.asset].decimals = @ \/ decimalsRead]
      /\ refresh' = [refresh EXCEPT ![r].due = Tail(@), ![r].rejected = @ \/ ~ok]
  BY <1>1
<1> HIDE DEF row, ok
<1>7. \A a \in Asset :
        registry'[a] = IF a = row.asset
                         THEN [registry[a] EXCEPT !.verified = ok,
                                                  !.decimals = @ \/ decimalsRead]
                         ELSE registry[a]
  BY <1>5, <1>6 DEF UniverseInv, UniverseTypeOK
<1>8. \A a \in Asset : registry'[a] \in Row /\ registry'[a].listed = registry[a].listed
                       /\ (registry'[a].verified => registry'[a].listed /\ registry'[a].decimals)
  <2> SUFFICES ASSUME NEW a \in Asset
               PROVE  /\ registry'[a] \in Row /\ registry'[a].listed = registry[a].listed
                      /\ (registry'[a].verified => registry'[a].listed /\ registry'[a].decimals)
    OBVIOUS
  <2>1. registry[a].listed
    BY <1>2 DEF UniverseInv, DueIsListed
  <2>2. CASE a = row.asset
    BY <1>3, <1>5, <1>7, <2>1, <2>2 DEF Row
  <2>3. CASE a # row.asset
    BY <1>3, <1>7, <2>1, <2>3 DEF UniverseInv, VerifiedByChain
  <2> QED
    BY <2>2, <2>3
<1>9. registry' \in [Asset -> Row]
  BY <1>6, <1>8 DEF UniverseInv, UniverseTypeOK
<1>10. VerifiedByChain' /\ DueIsListed'
  <2>1. \A a \in Asset : registry'[a].listed
    BY <1>2, <1>8 DEF UniverseInv, DueIsListed
  <2> QED
    BY <1>8, <2>1 DEF VerifiedByChain, DueIsListed
<1>11. refresh' \in [Refresher -> Refresh]
  <2>1. DOMAIN refresh = Refresher /\ \A q \in Refresher : refresh[q] \in Refresh
    BY UniverseTypes DEF UniverseInv, UniverseTypeOK
  <2>2. [refresh[r] EXCEPT !.due = Tail(@), !.rejected = @ \/ ~ok] \in Refresh
    BY <1>3, <1>4, <1>5 DEF Refresh
  <2> QED
    BY <1>6, <2>1, <2>2
<1>12. pinned' \in Seq(Snapshot) /\ Len(pinned') <= MaxPinned /\ ObservedWasRead'
  BY <1>2, OutdatedKeeps
<1> QED
  BY <1>2, <1>9, <1>10, <1>11, <1>12
  DEF UniverseInv, UniverseTypeOK, Refresh, DueRow, Snapshot, Terms

\* A snapshot that is appended or activated leaves what the others expect.
LEMMA WithSnapshotType ==
  ASSUME UniverseInv
  PROVE  /\ WithSnapshot(pinned) \in Seq(Snapshot)
         /\ \E j \in DOMAIN WithSnapshot(pinned) : WithSnapshot(pinned)[j].now
         /\ \A i \in DOMAIN pinned : /\ i \in DOMAIN WithSnapshot(pinned)
                                     /\ WithSnapshot(pinned)[i] = pinned[i]
<1> DEFINE new == [terms |-> [a \in Asset |-> [symbol |-> registry[a].symbol,
                                               decimals |-> registry[a].decimals]],
                   state |-> "draft", now |-> TRUE, policy |-> 0, applied |-> FALSE]
<1>1. \A a \in Asset : registry[a].symbol \in BOOLEAN /\ registry[a].decimals \in BOOLEAN
  BY UniverseTypes DEF UniverseInv, Row
<1>2. new.now /\ new \in Snapshot
  BY <1>1, UniverseAssumption DEF Snapshot, Terms
<1>3. pinned \in Seq(Snapshot)
  BY UniverseTypes DEF UniverseInv
<1>4. WithSnapshot(pinned) = IF \E i \in DOMAIN pinned : pinned[i].now THEN pinned
                             ELSE Append(pinned, new)
  BY DEF WithSnapshot
<1> HIDE DEF new
<1> QED
  BY <1>2, <1>3, <1>4

LEMMA ActivatedType ==
  ASSUME NEW seq \in Seq(Snapshot), NEW i
  PROVE  /\ Activated(seq, i) \in Seq(Snapshot)
         /\ DOMAIN Activated(seq, i) = DOMAIN seq /\ Len(Activated(seq, i)) = Len(seq)
         /\ \A j \in DOMAIN seq : /\ Activated(seq, i)[j].policy = seq[j].policy
                                  /\ Activated(seq, i)[j].applied = seq[j].applied
<1>1. DOMAIN seq = 1 .. Len(seq) /\ Len(seq) \in Nat /\ \A j \in DOMAIN seq : seq[j] \in Snapshot
  OBVIOUS
<1> DEFINE new == Activated(seq, i)
<1>2. new = [j \in DOMAIN seq |-> [seq[j] EXCEPT !.state =
               IF j = i THEN "active" ELSE IF @ = "active" THEN "retired" ELSE @]]
  BY DEF Activated
<1> HIDE DEF new
<1>3. \A j \in DOMAIN seq : /\ new[j] \in Snapshot /\ new[j].policy = seq[j].policy
                            /\ new[j].applied = seq[j].applied
  BY <1>1, <1>2 DEF Snapshot
<1>4. new = [j \in 1 .. Len(seq) |-> new[j]]
  BY <1>1, <1>2
<1>5. new \in Seq(Snapshot) /\ DOMAIN new = DOMAIN seq /\ Len(new) = Len(seq)
  BY <1>1, <1>3, <1>4
<1> QED
  BY <1>3, <1>5 DEF new

\* What is observed is still expected by a universe it was applied to.
LEMMA StillObserved ==
  ASSUME ObservedWasRead, policy'.observed = policy.observed,
         \A i \in DOMAIN pinned : /\ i \in DOMAIN pinned'
                                  /\ pinned'[i].policy = pinned[i].policy
                                  /\ pinned'[i].applied = pinned[i].applied
  PROVE  ObservedWasRead'
  BY DEF ObservedWasRead

LEMMA DisarmedType ==
  ASSUME UniverseInv, NEW i \in 0 .. MaxPinned
  PROVE  /\ [Disarmed(policy) EXCEPT !.universe = i] \in PolicyRow
         /\ [Disarmed(policy) EXCEPT !.universe = i].observed = policy.observed
<1>1. policy \in PolicyRow
  BY DEF UniverseInv, UniverseTypeOK, PolicyRow
<1>2. Disarmed(policy) \in PolicyRow /\ Disarmed(policy).observed = policy.observed
  BY <1>1 DEF Disarmed, PolicyRow
<1> QED
  BY <1>2 DEF PolicyRow

LEMMA RefreshEndsKeeps ==
  ASSUME UniverseInv, NEW r \in Refresher, RefreshEnds(r) PROVE UniverseInv'
<1> DEFINE new == WithSnapshot(pinned)
           i == CHOOSE j \in DOMAIN new : new[j].now
<1>1. /\ refresh' = [refresh EXCEPT ![r] = Resting] /\ clean' = ~refresh[r].rejected
      /\ UNCHANGED <<registry, corporate, bundles, privy, readBack, refreshes>>
      /\ \/ UNCHANGED <<pinned, policy>>
         \/ /\ ~ (Len(new) > MaxPinned)
            /\ pinned' = Activated(new, i)
            /\ policy' = [Disarmed(policy) EXCEPT !.universe = i]
  BY DEF RefreshEnds
<1>2. VerifiedByChain' /\ DueIsListed' /\ refresh' \in [Refresher -> Refresh]
  BY <1>1, UniverseRests, RestingType
<1>3. clean' \in BOOLEAN
  BY <1>1
<1>4. pinned' \in Seq(Snapshot) /\ Len(pinned') <= MaxPinned /\ policy' \in PolicyRow
      /\ ObservedWasRead'
  <2>1. CASE UNCHANGED <<pinned, policy>>
    BY <2>1, UniverseTypes DEF UniverseInv, UniverseTypeOK, ObservedWasRead, PolicyRow
  <2>2. CASE /\ ~ (Len(new) > MaxPinned)
             /\ pinned' = Activated(new, i)
             /\ policy' = [Disarmed(policy) EXCEPT !.universe = i]
    <3>1. new \in Seq(Snapshot) /\ i \in DOMAIN new
      BY WithSnapshotType
    <3>2. \A j \in DOMAIN pinned : j \in DOMAIN new /\ new[j] = pinned[j]
      BY WithSnapshotType
    <3> HIDE DEF new, i
    <3>3. i \in 0 .. MaxPinned /\ Len(new) <= MaxPinned
      BY <2>2, <3>1, UniverseAssumption
    <3>4. /\ pinned' \in Seq(Snapshot) /\ DOMAIN pinned' = DOMAIN new /\ Len(pinned') = Len(new)
          /\ \A j \in DOMAIN new : /\ pinned'[j].policy = new[j].policy
                                   /\ pinned'[j].applied = new[j].applied
      BY <2>2, <3>1, ActivatedType
    <3>5. policy' \in PolicyRow /\ policy'.observed = policy.observed
      BY <2>2, <3>3, DisarmedType
    <3>6. ObservedWasRead'
      BY <3>2, <3>4, <3>5, StillObserved DEF UniverseInv
    <3> QED
      BY <3>3, <3>4, <3>5, <3>6
  <2> QED
    BY <1>1, <2>1, <2>2
<1> QED
  BY <1>1, <1>2, <1>3, <1>4
  DEF UniverseInv, UniverseTypeOK, Refresh, DueRow, Snapshot, Terms, PolicyRow

\* The other ways to touch the snapshots and the policy leave the registry.
LEMMA UniverseBinds ==
  ASSUME UniverseInv, UNCHANGED <<registry, refresh, clean, refreshes>>,
         corporate' \in [Asset -> {"none", "pauses", "over"}],
         pinned' \in Seq(Snapshot), Len(pinned') <= MaxPinned, policy' \in PolicyRow,
         bundles' \in 0 .. MaxPolicy, privy' \in 0 .. MaxPolicy,
         readBack' \in [for : {"nothing", "confirm", "enable"}, on : 0 .. MaxPinned,
                        hash : 0 .. MaxPolicy, bodies : 0 .. MaxPolicy],
         ObservedWasRead'
  PROVE  UniverseInv'
  BY DEF UniverseInv, UniverseTypeOK, Refresh, DueRow, Snapshot, Terms, PolicyRow,
         VerifiedByChain, DueIsListed

LEMMA UniverseState ==
  UniverseInv =>
    /\ pinned \in Seq(Snapshot) /\ Len(pinned) <= MaxPinned /\ policy \in PolicyRow
    /\ corporate \in [Asset -> {"none", "pauses", "over"}]
    /\ bundles \in 0 .. MaxPolicy /\ privy \in 0 .. MaxPolicy
    /\ readBack \in [for : {"nothing", "confirm", "enable"}, on : 0 .. MaxPinned,
                     hash : 0 .. MaxPolicy, bodies : 0 .. MaxPolicy]
    /\ \A i \in DOMAIN pinned : pinned[i] \in Snapshot /\ i \in 0 .. MaxPinned
<1> SUFFICES ASSUME UniverseInv
             PROVE  /\ pinned \in Seq(Snapshot) /\ Len(pinned) <= MaxPinned
                    /\ policy \in PolicyRow
                    /\ corporate \in [Asset -> {"none", "pauses", "over"}]
                    /\ bundles \in 0 .. MaxPolicy /\ privy \in 0 .. MaxPolicy
                    /\ readBack \in [for : {"nothing", "confirm", "enable"},
                                     on : 0 .. MaxPinned,
                                     hash : 0 .. MaxPolicy, bodies : 0 .. MaxPolicy]
                    /\ \A i \in DOMAIN pinned : pinned[i] \in Snapshot /\ i \in 0 .. MaxPinned
  OBVIOUS
<1>1. pinned \in Seq(Snapshot) /\ Len(pinned) <= MaxPinned /\ MaxPinned \in Nat
  BY UniverseTypes, UniverseAssumption DEF UniverseInv
<1>2. \A i \in DOMAIN pinned : pinned[i] \in Snapshot /\ i \in 0 .. MaxPinned
  BY <1>1
<1> QED
  BY <1>1, <1>2 DEF UniverseInv, UniverseTypeOK, PolicyRow

LEMMA AdminPinsKeeps == UniverseInv /\ AdminPins => UniverseInv'
<1> SUFFICES ASSUME UniverseInv, AdminPins PROVE UniverseInv'
  OBVIOUS
<1>1. /\ pinned' = WithSnapshot(pinned) /\ Len(pinned') <= MaxPinned
      /\ UNCHANGED <<registry, refresh, clean, corporate, policy, bundles, privy,
                     readBack, refreshes>>
  BY DEF AdminPins
<1>2. pinned' \in Seq(Snapshot) /\ ObservedWasRead'
  <2>1. pinned' \in Seq(Snapshot) /\ \A i \in DOMAIN pinned : i \in DOMAIN pinned'
                                                     /\ pinned'[i] = pinned[i]
    BY <1>1, WithSnapshotType
  <2> QED
    BY <1>1, <2>1, StillObserved DEF UniverseInv
<1> QED
  BY <1>1, <1>2, UniverseState, UniverseBinds

LEMMA AdminActivatesKeeps ==
  ASSUME UniverseInv, NEW i \in DOMAIN pinned, AdminActivates(i) PROVE UniverseInv'
<1>1. /\ pinned' = Activated(pinned, i)
      /\ policy' = [Disarmed(policy) EXCEPT !.universe = i]
      /\ UNCHANGED <<registry, refresh, clean, corporate, bundles, privy, readBack, refreshes>>
  BY DEF AdminActivates
<1>2. /\ pinned' \in Seq(Snapshot) /\ Len(pinned') = Len(pinned)
      /\ \A j \in DOMAIN pinned : /\ j \in DOMAIN pinned'
                                  /\ pinned'[j].policy = pinned[j].policy
                                  /\ pinned'[j].applied = pinned[j].applied
  BY <1>1, UniverseState, ActivatedType
<1>3. policy' \in PolicyRow /\ policy'.observed = policy.observed
  BY <1>1, UniverseState, DisarmedType
<1>4. ObservedWasRead'
  BY <1>2, <1>3, StillObserved DEF UniverseInv
<1>5. Len(pinned') <= MaxPinned
  BY <1>2, UniverseState
<1> QED
  BY <1>1, <1>2, <1>3, <1>4, <1>5, UniverseState, UniverseBinds

LEMMA CorporateKeeps ==
  ASSUME UniverseInv, NEW a \in Asset, NEW now \in {"pauses", "over"}, CorporateRead(a, now)
  PROVE  UniverseInv'
<1>1. corporate' \in [Asset -> {"none", "pauses", "over"}]
  BY UniverseState DEF CorporateRead
<1>2. UNCHANGED <<registry, refresh, clean, pinned, policy, bundles, privy, readBack, refreshes>>
  BY DEF CorporateRead
<1>3. ObservedWasRead'
  BY <1>2, StillObserved DEF UniverseInv
<1> QED
  BY <1>1, <1>2, <1>3, UniverseState, UniverseBinds

\* A new bundle: nothing is observed until it is read back.
LEMMA GenerateKeeps == UniverseInv /\ Generate => UniverseInv'
<1> SUFFICES ASSUME UniverseInv, Generate PROVE UniverseInv'
  OBVIOUS
<1>1. /\ bundles < MaxPolicy /\ bundles' = bundles + 1
      /\ UNCHANGED <<registry, refresh, clean, corporate, privy, readBack, refreshes>>
  BY DEF Generate
<1>2. PICK i \in Active :
        /\ pinned' = [pinned EXCEPT ![i].policy = bundles + 1]
        /\ policy' = [Disarmed(policy) EXCEPT !.expected = bundles + 1, !.observed = 0]
  BY DEF Generate
<1>3. bundles + 1 \in 0 .. MaxPolicy /\ 0 \in 0 .. MaxPolicy
  BY <1>1, UniverseState, UniverseAssumption
<1>4. i \in DOMAIN pinned
  BY DEF Active
<1>5. pinned' \in Seq(Snapshot) /\ Len(pinned') = Len(pinned)
  <2>1. [pinned[i] EXCEPT !.policy = bundles + 1] \in Snapshot
    BY <1>3, <1>4, UniverseState DEF Snapshot
  <2>2. pinned' = [pinned EXCEPT ![i] = [pinned[i] EXCEPT !.policy = bundles + 1]]
    BY <1>2
  <2> QED
    BY <1>4, <2>1, <2>2, UniverseState
<1>6. policy' \in PolicyRow /\ policy'.observed = 0
  <2>1. Disarmed(policy) \in PolicyRow
    BY UniverseState DEF Disarmed, PolicyRow
  <2> QED
    BY <1>2, <1>3, <2>1 DEF PolicyRow
<1>7. ObservedWasRead'
  BY <1>6 DEF ObservedWasRead
<1>8. Len(pinned') <= MaxPinned
  BY <1>5, UniverseState
<1> QED
  BY <1>1, <1>3, <1>5, <1>6, <1>7, <1>8, UniverseState, UniverseBinds

\* Requests that wait for Privy, and what Privy enforces.
LEMMA ReadBackKeeps ==
  ASSUME UniverseInv,
         \/ \E p \in 1 .. bundles : OperatorApplies(p) \/ AskConfirm(p)
         \/ BodiesRead \/ AskEnableUniverse \/ ReadBackFails
  PROVE  UniverseInv'
<1>1. UNCHANGED <<registry, refresh, clean, corporate, pinned, policy, bundles, refreshes>>
  BY DEF OperatorApplies, AskConfirm, BodiesRead, AskEnableUniverse, ReadBackFails
<1>2. privy' \in 0 .. MaxPolicy
  <2>1. bundles \in 0 .. MaxPolicy /\ privy \in 0 .. MaxPolicy /\ MaxPolicy \in Nat
    BY UniverseState, UniverseAssumption
  <2>2. CASE UNCHANGED privy
    BY <2>1, <2>2
  <2>3. ASSUME NEW p \in 1 .. bundles, OperatorApplies(p) PROVE privy' \in 0 .. MaxPolicy
    BY <2>1, <2>3 DEF OperatorApplies
  <2> QED
    BY <2>2, <2>3 DEF AskConfirm, BodiesRead, AskEnableUniverse, ReadBackFails
<1> DEFINE Asked == [for : {"nothing", "confirm", "enable"}, on : 0 .. MaxPinned,
                     hash : 0 .. MaxPolicy, bodies : 0 .. MaxPolicy]
<1>3. readBack' \in Asked
  <2>0. Nothing \in Asked
    BY UniverseAssumption DEF Nothing
  <2>00. readBack \in Asked
    BY UniverseState
  <2>1. CASE BodiesRead
    BY <2>1, <2>00, UniverseState DEF BodiesRead
  <2>2. CASE AskEnableUniverse
    <3>1. PICK i \in Active :
            readBack' = [Nothing EXCEPT !.for = "enable", !.on = i, !.hash = pinned[i].policy]
      BY <2>2 DEF AskEnableUniverse
    <3>2. i \in 0 .. MaxPinned /\ pinned[i].policy \in 0 .. MaxPolicy
      BY UniverseState DEF Active, Snapshot
    <3> QED
      BY <2>0, <3>1, <3>2
  <2>3. CASE ReadBackFails
    BY <2>0, <2>3 DEF ReadBackFails
  <2>4. ASSUME NEW p \in 1 .. bundles, OperatorApplies(p) PROVE readBack' \in Asked
    BY <2>00, <2>4 DEF OperatorApplies
  <2>5. ASSUME NEW p \in 1 .. bundles, AskConfirm(p) PROVE readBack' \in Asked
    <3>1. p \in 0 .. MaxPolicy
      BY UniverseState, UniverseAssumption
    <3>2. readBack' = [Nothing EXCEPT !.for = "confirm", !.hash = p]
      BY <2>5 DEF AskConfirm
    <3> QED
      BY <2>0, <3>1, <3>2
  <2> HIDE DEF Asked
  <2> QED
    BY <2>1, <2>2, <2>3, <2>4, <2>5
<1>4. ObservedWasRead'
  BY <1>1, StillObserved DEF UniverseInv
<1> QED
  BY <1>1, <1>2, <1>3, <1>4, UniverseState, UniverseBinds

\* What becomes observed is what the active universe expects, and it is applied.
LEMMA RecordAppliedKeeps == UniverseInv /\ RecordApplied => UniverseInv'
<1> SUFFICES ASSUME UniverseInv, RecordApplied PROVE UniverseInv'
  OBVIOUS
<1>1. PICK i \in Active : /\ pinned[i].policy = readBack.hash
                          /\ pinned' = [pinned EXCEPT ![i].applied = TRUE]
  BY DEF RecordApplied
<1>2. /\ policy' = [Disarmed(policy) EXCEPT !.observed = readBack.hash]
      /\ readBack' = Nothing
      /\ UNCHANGED <<registry, refresh, clean, corporate, bundles, privy, refreshes>>
  BY DEF RecordApplied
<1>3. i \in DOMAIN pinned /\ pinned[i] \in Snapshot /\ readBack.hash \in 0 .. MaxPolicy
  BY UniverseState DEF Active
<1>4. [pinned[i] EXCEPT !.applied = TRUE] \in Snapshot
      /\ [pinned[i] EXCEPT !.applied = TRUE].applied
      /\ [pinned[i] EXCEPT !.applied = TRUE].policy = readBack.hash
  BY <1>1, <1>3 DEF Snapshot
<1>5. pinned' = [pinned EXCEPT ![i] = [pinned[i] EXCEPT !.applied = TRUE]]
  BY <1>1
<1>6. pinned' \in Seq(Snapshot) /\ Len(pinned') = Len(pinned) /\ i \in DOMAIN pinned'
      /\ pinned'[i] = [pinned[i] EXCEPT !.applied = TRUE]
  BY <1>3, <1>4, <1>5, UniverseState
<1>7. policy' \in PolicyRow /\ policy'.observed = readBack.hash
  <2>1. Disarmed(policy) \in PolicyRow
    BY UniverseState DEF Disarmed, PolicyRow
  <2> QED
    BY <1>2, <1>3, <2>1 DEF PolicyRow
<1>8. ObservedWasRead'
  BY <1>4, <1>6, <1>7 DEF ObservedWasRead
<1>9. Len(pinned') <= MaxPinned
  BY <1>6, UniverseState
<1>10. readBack' \in [for : {"nothing", "confirm", "enable"}, on : 0 .. MaxPinned,
                      hash : 0 .. MaxPolicy, bodies : 0 .. MaxPolicy]
  BY <1>2, UniverseAssumption DEF Nothing
<1> QED
  BY <1>2, <1>6, <1>7, <1>8, <1>9, <1>10, UniverseState, UniverseBinds

LEMMA EnableUniverseKeeps == UniverseInv /\ EnableUniverse => UniverseInv'
<1> SUFFICES ASSUME UniverseInv, EnableUniverse PROVE UniverseInv'
  OBVIOUS
<1>1. /\ policy' = [policy EXCEPT !.halted = FALSE, !.armed = TRUE]
      /\ readBack' = Nothing
      /\ UNCHANGED <<registry, refresh, clean, corporate, pinned, bundles, privy, refreshes>>
  BY DEF EnableUniverse
<1>2. policy' \in PolicyRow /\ policy'.observed = policy.observed
  BY <1>1, UniverseState DEF PolicyRow
<1>3. ObservedWasRead'
  BY <1>1, <1>2, StillObserved DEF UniverseInv
<1>4. readBack' \in [for : {"nothing", "confirm", "enable"}, on : 0 .. MaxPinned,
                      hash : 0 .. MaxPolicy, bodies : 0 .. MaxPolicy]
  BY <1>1, UniverseAssumption DEF Nothing
<1> QED
  BY <1>1, <1>2, <1>3, <1>4, UniverseState, UniverseBinds

LEMMA UniverseNextKeeps == UniverseInv /\ [UniverseNext]_universeVars => UniverseInv'
<1> SUFFICES ASSUME UniverseInv, [UniverseNext]_universeVars PROVE UniverseInv'
  OBVIOUS
<1>1. ASSUME NEW r \in Refresher,
             RefreshStarts(r) \/ FetchFails(r) \/ Listed(r) \/ Verified(r) \/ RefreshEnds(r)
      PROVE  UniverseInv'
  BY <1>1, RefreshStartsKeeps, FetchFailsKeeps, ListedKeeps, VerifiedKeeps, RefreshEndsKeeps
<1>2. CASE AdminPins
  BY <1>2, AdminPinsKeeps
<1>3. ASSUME NEW i \in DOMAIN pinned, AdminActivates(i) PROVE UniverseInv'
  BY <1>3, AdminActivatesKeeps
<1>4. ASSUME NEW a \in Asset, NEW now \in {"pauses", "over"}, CorporateRead(a, now)
      PROVE  UniverseInv'
  BY <1>4, CorporateKeeps
<1>5. CASE \/ \E p \in 1 .. bundles : OperatorApplies(p) \/ AskConfirm(p)
           \/ BodiesRead \/ AskEnableUniverse \/ ReadBackFails
  BY <1>5, ReadBackKeeps
<1>6. CASE Generate \/ RecordApplied \/ EnableUniverse
  BY <1>6, GenerateKeeps, RecordAppliedKeeps, EnableUniverseKeeps
<1>7. CASE UNCHANGED universeVars
  BY <1>7
  DEF universeVars, UniverseInv, UniverseTypeOK, VerifiedByChain, DueIsListed, ObservedWasRead
<1> QED
  BY <1>1, <1>2, <1>3, <1>4, <1>5, <1>6, <1>7 DEF UniverseNext

LEMMA UniverseInvSound == UniverseInv => UniverseSound
<1> SUFFICES ASSUME UniverseInv, NEW i \in Active, NEW a \in Asset, Passes(i, a)
             PROVE  pinned[i].terms[a].decimals
  BY DEF UniverseSound, SizedByChain, UniverseInv
<1>1. registry[a].decimals /\ pinned[i].terms[a].decimals = registry[a].decimals
  BY DEF Passes, UniverseInv, VerifiedByChain
<1> QED
  BY <1>1

\* However refreshes overlap and whatever the API lists, a token that may trade
\* is sized by the chain's decimals, and what live_config observes was read back
\* (robinhood/assetRegistry.ts, live/signing/universePolicy.ts).
THEOREM UniverseTheorem == UniverseSpec => []UniverseSound
<1>1. UniverseInit => UniverseInv
  BY UniverseInitInv
<1>2. UniverseInv /\ [UniverseNext]_universeVars => UniverseInv'
  BY UniverseNextKeeps
<1>3. UniverseInv => UniverseSound
  BY UniverseInvSound
<1> QED
  BY <1>1, <1>2, <1>3, PTL DEF UniverseSpec
-----------------------------------------------------------------------------
(* PaperBook: the books of a bot balance, and those of its replay.         *)

Account == [cash : Int, qty : 0 .. MaxQty, avg : Nat, realized : Int, fees : Nat]

\* What the averages were rounded by.
Missing(b) == Capital + b.realized - (b.cash + b.qty * b.avg + b.fees)

\* A bot that could not pay runs again only when its owner starts it or the
\* process dies.
MayRun == loaded = "running" \/ botRow = "running"
UnpaidSoFar ==
  /\ unpaid <= starts + deaths + (IF MayRun THEN 0 ELSE 1)
  /\ botRow = "none" => unpaid = 0 /\ loaded = "absent"

PaperInv ==
  /\ PaperTypeOK /\ (kind = "quant" => account.qty <= 1)
  /\ BooksBalance /\ BacktestMirrors /\ UnpaidSoFar /\ unpaid <= fills

\* What is held after a purchase costs what it did and the price, but for the
\* rounding.
LEMMA AverageRounds ==
  ASSUME NEW avg \in Nat, NEW q \in 0 .. 1, NEW p \in Nat
  PROVE  /\ Averaged(avg, q, p) \in Nat
         /\ q * avg + p - (q + 1) * Averaged(avg, q, p) \in 0 .. 1
<1>1. CASE q = 0
  BY <1>1 DEF Averaged
<1>2. CASE q = 1
  <2>1. Averaged(avg, q, p) = (avg + p) \div 2
    BY <1>2 DEF Averaged
  <2> QED
    BY <1>2, <2>1
<1> QED
  BY <1>1, <1>2

LEMMA PaperInitInv == PaperInit => PaperInv
<1> SUFFICES ASSUME PaperInit PROVE PaperInv
  OBVIOUS
<1> USE PaperAssumption
<1>1. account \in Account /\ replay = account /\ account.qty = 0
  BY DEF PaperInit, Opening, Account, MaxQty
<1>2. BooksBalance
  BY <1>1 DEF PaperInit, BooksBalance, Opening
<1>3. /\ kind \in {"quant", "house"}
      /\ botRow \in {"none", "running", "paused", "stopped"}
      /\ loaded \in {"absent", "running", "paused"}
      /\ {stale, inStep, distils} \subseteq BOOLEAN
      /\ mark \in Price \cup {0}
  BY DEF PaperInit
<1>4. /\ credits \in 0 .. Credits
      /\ unpaid \in 0 .. MaxFill /\ fills \in 0 .. MaxFill
      /\ starts \in 0 .. MaxStart /\ deaths \in 0 .. MaxDeath
  BY DEF PaperInit
<1>5. UnpaidSoFar /\ unpaid <= fills
  BY DEF PaperInit, UnpaidSoFar, MayRun
<1> QED
  BY <1>1, <1>2, <1>3, <1>4, <1>5
  DEF PaperInv, PaperTypeOK, BacktestMirrors, Account

\* A step that books nothing.
LEMMA NothingBooked ==
  ASSUME PaperInv, UNCHANGED <<kind, account, fills>>,
         botRow' \in {"none", "running", "paused", "stopped"},
         loaded' \in {"absent", "running", "paused"},
         {stale', inStep', distils'} \subseteq BOOLEAN,
         mark' \in Price \cup {0}, credits' \in 0 .. Credits, unpaid' = unpaid,
         starts' \in 0 .. MaxStart, deaths' \in 0 .. MaxDeath,
         \/ inStep' = inStep /\ replay' = replay
         \/ inStep' = FALSE /\ replay' = Opening,
         UnpaidSoFar'
  PROVE  PaperInv'
<1>1. {account', replay'} \subseteq Account
  BY PaperAssumption DEF PaperInv, PaperTypeOK, Account, Opening, MaxQty
<1>2. BacktestMirrors'
  BY DEF PaperInv, BacktestMirrors
<1> QED
  BY <1>1, <1>2 DEF PaperInv, PaperTypeOK, Account, BooksBalance

\* The rows and the copy in memory.
LEMMA PaperRows ==
  PaperInv => /\ botRow \in {"none", "running", "paused", "stopped"}
              /\ loaded \in {"absent", "running", "paused"}
              /\ stale \in BOOLEAN /\ inStep \in BOOLEAN /\ distils \in BOOLEAN
              /\ mark \in Price \cup {0} /\ credits \in 0 .. Credits
              /\ unpaid \in Nat /\ starts \in 0 .. MaxStart /\ deaths \in 0 .. MaxDeath
              /\ Credits \in Nat /\ MaxStart \in Nat /\ MaxDeath \in Nat
              /\ Tax \in Nat /\ Creation \in Nat /\ UnpaidSoFar
  BY PaperAssumption DEF PaperInv, PaperTypeOK

LEMMA ReloadedRow ==
  ASSUME NEW m \in {"absent", "running", "paused"},
         NEW row \in {"none", "running", "paused", "stopped"}
  PROVE  /\ Reloaded(m, row) \in {"absent", "running", "paused"}
         /\ Reloaded("absent", row) = "running" <=> row = "running"
  BY DEF Reloaded

LEMMA DeployKeeps == PaperInv /\ Deploy => PaperInv'
<1> SUFFICES ASSUME PaperInv, Deploy PROVE PaperInv'
  OBVIOUS
<1>1. credits' \in 0 .. Credits
  BY PaperRows DEF Deploy
<1>2. loaded' \in {"absent", "running", "paused"} /\ UnpaidSoFar'
  BY PaperRows, ReloadedRow DEF Deploy, UnpaidSoFar, MayRun
<1> QED
  BY <1>1, <1>2, PaperRows, NothingBooked DEF Deploy

LEMMA CloneSoldKeeps == PaperInv /\ CloneSold => PaperInv'
<1> SUFFICES ASSUME PaperInv, CloneSold PROVE PaperInv'
  OBVIOUS
<1>1. credits' \in 0 .. Credits
  BY PaperRows DEF CloneSold
<1>2. UnpaidSoFar'
  BY PaperRows DEF CloneSold, UnpaidSoFar, MayRun
<1> QED
  BY <1>1, <1>2, PaperRows, NothingBooked DEF CloneSold

LEMMA StartKeeps == PaperInv /\ Start => PaperInv'
<1> SUFFICES ASSUME PaperInv, Start PROVE PaperInv'
  OBVIOUS
<1>1. starts' \in 0 .. MaxStart
  BY PaperRows DEF Start
<1>2. loaded' \in {"absent", "running", "paused"} /\ UnpaidSoFar'
  <2>1. loaded' \in {"absent", "running", "paused"}
    BY PaperRows, ReloadedRow DEF Start
  <2>2. unpaid' <= starts' + deaths'
    BY PaperRows DEF Start, UnpaidSoFar
  <2>3. botRow' = "running" /\ MayRun'
    BY DEF Start, MayRun
  <2>4. (IF MayRun' THEN 0 ELSE 1) = 0 /\ starts' + deaths' \in Nat
    BY <1>1, <2>3, PaperRows DEF Start
  <2>5. unpaid' <= starts' + deaths' + (IF MayRun' THEN 0 ELSE 1)
    BY <2>2, <2>4
  <2> QED
    BY <2>1, <2>3, <2>5 DEF UnpaidSoFar
<1> QED
  BY <1>1, <1>2, PaperRows, NothingBooked DEF Start

LEMMA StopKeeps == PaperInv /\ Stop => PaperInv'
<1> SUFFICES ASSUME PaperInv, Stop PROVE PaperInv'
  OBVIOUS
<1>1. loaded' = "absent" /\ botRow' = "stopped"
  BY DEF Stop, Reloaded
<1>2. UnpaidSoFar'
  BY <1>1, PaperRows DEF Stop, UnpaidSoFar, MayRun
<1> QED
  BY <1>1, <1>2, PaperRows, NothingBooked DEF Stop

\* Requests, prices and the state of the feed.
LEMMA QuietKeeps ==
  ASSUME PaperInv, AskPersona \/ FeedStatus \/ \E p \in Price : Tick(p)
  PROVE  PaperInv'
<1>1. UNCHANGED <<kind, botRow, loaded, account, replay, inStep, credits, unpaid,
                  fills, starts, deaths>>
  BY DEF AskPersona, FeedStatus, Tick
<1>2. stale' \in BOOLEAN /\ distils' \in BOOLEAN /\ mark' \in Price \cup {0}
  BY PaperRows DEF AskPersona, FeedStatus, Tick
<1>3. UnpaidSoFar'
  BY <1>1, PaperRows DEF UnpaidSoFar, MayRun
<1> QED
  BY <1>1, <1>2, <1>3, PaperRows, NothingBooked

LEMMA PersonaSavedKeeps == PaperInv /\ PersonaSaved => PaperInv'
<1> SUFFICES ASSUME PaperInv, PersonaSaved PROVE PaperInv'
  OBVIOUS
<1>1. loaded' \in {"absent", "running", "paused"} /\ (loaded' = "running" <=> botRow = "running")
      /\ (botRow = "none" => loaded' = "absent")
  BY PaperRows, ReloadedRow DEF PersonaSaved, Reloaded
<1>2. UnpaidSoFar'
  BY <1>1, PaperRows DEF PersonaSaved, UnpaidSoFar, MayRun
<1> QED
  BY <1>1, <1>2, PaperRows, NothingBooked DEF PersonaSaved

LEMMA DiesKeeps == PaperInv /\ PaperDies => PaperInv'
<1> SUFFICES ASSUME PaperInv, PaperDies PROVE PaperInv'
  OBVIOUS
<1>1. loaded' \in {"absent", "running", "paused"} /\ (loaded' = "running" <=> botRow = "running")
      /\ (botRow = "none" => loaded' = "absent")
  BY PaperRows, ReloadedRow DEF PaperDies, Restarted, Reloaded
<1>2. deaths' \in 0 .. MaxDeath /\ deaths' = deaths + 1
  BY PaperRows DEF PaperDies, Restarted
<1>3. UnpaidSoFar'
  BY <1>1, <1>2, PaperRows DEF PaperDies, UnpaidSoFar, MayRun
<1> QED
  BY <1>1, <1>2, <1>3, PaperRows, NothingBooked DEF PaperDies, Restarted
-----------------------------------------------------------------------------
(* What is booked.                                                          *)

\* What a strategy may want, the books may do.
Possible(b, want) ==
  /\ b \in Account /\ want \in {"buy", "sell", "part"}
  /\ want = "buy" => b.qty < MaxQty
  /\ want # "buy" => b.qty > 0

LEMMA Wants ==
  ASSUME PaperInv, NEW want \in Wanted, want # "nothing"
  PROVE  Possible(account, want) /\ (kind = "quant" => account.qty = 0 \/ want = "sell")
                                 /\ (kind = "quant" /\ want = "buy" => account.qty = 0)
<1>1. account \in Account /\ account.qty \in 0 .. 2
  BY DEF PaperInv, PaperTypeOK, Account, MaxQty
<1>2. CASE kind = "quant"
  BY <1>1, <1>2 DEF Wanted, RuleWants, Possible, MaxQty
<1>3. CASE kind # "quant"
  BY <1>1, <1>3 DEF Wanted, RungWants, Possible, MaxQty
<1> QED
  BY <1>2, <1>3

LEMMA BoughtIs ==
  ASSUME NEW b \in Account, NEW p \in Price, b.qty < MaxQty
  PROVE  /\ Bought(b, p) \in Account /\ Bought(b, p).qty = b.qty + 1
         /\ Missing(Bought(b, p)) - Missing(b) \in 0 .. 1
<1>1. p \in Nat /\ Fee \in Nat /\ Capital \in Nat
  BY PaperAssumption
<1> DEFINE to == Averaged(b.avg, b.qty, p)
<1>2. b.avg \in Nat /\ b.qty \in 0 .. 1 /\ b.cash \in Int /\ b.fees \in Nat /\ b.realized \in Int
  BY DEF Account, MaxQty
<1>3. to \in Nat /\ b.qty * b.avg + p - (b.qty + 1) * to \in 0 .. 1
  BY <1>1, <1>2, AverageRounds
<1>4. Bought(b, p) = [b EXCEPT !.cash = b.cash - p - Fee, !.qty = b.qty + 1, !.avg = to,
                               !.fees = b.fees + Fee]
  BY DEF Bought
<1> HIDE DEF to
<1>5. /\ b.cash - p - Fee \in Int /\ b.qty + 1 \in 0 .. MaxQty /\ b.fees + Fee \in Nat
  BY <1>1, <1>2 DEF MaxQty
<1>6. /\ Bought(b, p) \in Account
      /\ Bought(b, p).qty = b.qty + 1 /\ Bought(b, p).avg = to
      /\ Bought(b, p).cash = b.cash - p - Fee /\ Bought(b, p).fees = b.fees + Fee
      /\ Bought(b, p).realized = b.realized
  BY <1>3, <1>4, <1>5 DEF Account
<1>7. (b.qty + 1) * to \in Int /\ b.qty * b.avg \in Int
  BY <1>2, <1>3
<1>8. Missing(Bought(b, p)) = Capital + b.realized
                                - (b.cash - p - Fee + (b.qty + 1) * to + (b.fees + Fee))
  BY <1>6 DEF Missing
<1>9. Missing(b) = Capital + b.realized - (b.cash + b.qty * b.avg + b.fees)
  BY DEF Missing
<1>10. Missing(Bought(b, p)) - Missing(b) = b.qty * b.avg + p - (b.qty + 1) * to
  BY <1>1, <1>2, <1>7, <1>8, <1>9
<1> QED
  BY <1>3, <1>6, <1>10

LEMMA SoldIs ==
  ASSUME NEW b \in Account, NEW p \in Price, NEW k \in 1 .. b.qty
  PROVE  /\ Sold(b, p, k) \in Account /\ Sold(b, p, k).qty = b.qty - k
         /\ Missing(Sold(b, p, k)) = Missing(b)
<1>1. p \in Nat /\ Fee \in Nat /\ Capital \in Nat
  BY PaperAssumption
<1>2. /\ b.qty \in 1 .. 2 /\ b.avg \in Nat /\ k \in 1 .. 2 /\ k <= b.qty
      /\ b.cash \in Int /\ b.fees \in Nat /\ b.realized \in Int
  BY DEF Account, MaxQty
<1> DEFINE left == IF k = b.qty THEN 0 ELSE b.avg
           got == k * p
           gain == k * (p - b.avg)
<1>3. left \in Nat /\ got \in Nat /\ gain \in Int
  BY <1>1, <1>2
<1>4. gain = got - k * b.avg /\ b.qty * b.avg - (b.qty - k) * left = k * b.avg
      /\ k * b.avg \in Int /\ b.qty * b.avg \in Int /\ (b.qty - k) * left \in Int
  <2>1. CASE k = 1 /\ b.qty = 1
    BY <1>1, <1>2, <2>1
  <2>2. CASE k = 1 /\ b.qty = 2
    BY <1>1, <1>2, <2>2
  <2>3. CASE k = 2 /\ b.qty = 2
    BY <1>1, <1>2, <2>3
  <2> QED
    BY <1>2, <2>1, <2>2, <2>3
<1>5. Sold(b, p, k) =
        [b EXCEPT !.cash = b.cash + got - Fee, !.qty = b.qty - k, !.avg = left,
                  !.realized = b.realized + gain - Fee]
  BY DEF Sold
<1> HIDE DEF left, got, gain
<1>6. /\ b.cash + got - Fee \in Int /\ b.qty - k \in 0 .. MaxQty
      /\ b.realized + gain - Fee \in Int
  BY <1>1, <1>2, <1>3 DEF MaxQty
<1>7. /\ Sold(b, p, k) \in Account
      /\ Sold(b, p, k).qty = b.qty - k /\ Sold(b, p, k).avg = left
      /\ Sold(b, p, k).cash = b.cash + got - Fee /\ Sold(b, p, k).fees = b.fees
      /\ Sold(b, p, k).realized = b.realized + gain - Fee
  BY <1>3, <1>5, <1>6 DEF Account
<1>8. Missing(Sold(b, p, k)) = Capital + (b.realized + gain - Fee)
                                 - (b.cash + got - Fee + (b.qty - k) * left + b.fees)
  BY <1>7 DEF Missing
<1>9. Missing(b) = Capital + b.realized - (b.cash + b.qty * b.avg + b.fees)
  BY DEF Missing
<1>10. Missing(Sold(b, p, k)) = Missing(b)
  <2> DEFINE taken == k * b.avg
             held == b.qty * b.avg
             kept == (b.qty - k) * left
  <2>1. /\ taken \in Int /\ held \in Int /\ kept \in Int
        /\ gain = got - taken /\ held - kept = taken
    BY <1>4
  <2>2. /\ Missing(Sold(b, p, k)) = Capital + (b.realized + gain - Fee)
                                       - (b.cash + got - Fee + kept + b.fees)
        /\ Missing(b) = Capital + b.realized - (b.cash + held + b.fees)
    BY <1>8, <1>9
  <2> HIDE DEF taken, held, kept
  <2> QED
    BY <1>1, <1>2, <1>3, <2>1, <2>2
<1> QED
  BY <1>7, <1>10

\* A fill keeps the books, whatever it is.
LEMMA FilledKeeps ==
  ASSUME PaperInv, NEW want \in Wanted, want # "nothing", NEW p \in Price,
         fills < MaxFill, fills' = fills + 1, account' = Filled(account, want, p),
         kind' = kind
  PROVE  /\ account' \in Account /\ fills' \in 0 .. MaxFill
         /\ kind' = "quant" => account'.qty <= 1
         /\ BooksBalance'
<1>1. /\ account \in Account /\ fills \in Nat /\ MaxFill \in Nat /\ fills' \in 0 .. MaxFill
  BY PaperAssumption DEF PaperInv, PaperTypeOK, Account
<1>2. /\ Possible(account, want) /\ (kind = "quant" => account.qty = 0 \/ want = "sell")
      /\ (kind = "quant" /\ want = "buy" => account.qty = 0)
  BY Wants
<1>3. Missing(account) \in 0 .. fills
  BY DEF PaperInv, BooksBalance, Missing
<1>4. account.qty \in 0 .. 2
  BY <1>1 DEF Account, MaxQty
<1>5. ASSUME Missing(account') - Missing(account) \in 0 .. 1, Missing(account') \in Int
      PROVE  BooksBalance'
  <2>1. Missing(account') \in 0 .. fills'
    BY <1>1, <1>3, <1>5
  <2> QED
    BY <2>1 DEF BooksBalance, Missing
<1>6. CASE want = "buy"
  <2>1. account' = Bought(account, p) /\ account.qty < MaxQty
    BY <1>2, <1>6 DEF Filled, Possible
  <2>2. /\ account' \in Account /\ account'.qty = account.qty + 1
        /\ Missing(account') - Missing(account) \in 0 .. 1
    BY <1>1, <2>1, BoughtIs
  <2>3. Missing(account') \in Int
    BY <2>2, PaperAssumption DEF Missing, Account, MaxQty
  <2>4. BooksBalance'
    BY <1>5, <2>2, <2>3
  <2> QED
    BY <1>1, <1>2, <1>4, <1>6, <2>2, <2>4
<1>7. CASE want # "buy"
  <2> DEFINE k == SellQty(account, want)
  <2>1. k \in 1 .. account.qty /\ account' = Sold(account, p, k)
    BY <1>2, <1>4, <1>7 DEF Filled, Possible, SellQty
  <2> HIDE DEF k
  <2>2. /\ account' \in Account /\ account'.qty = account.qty - k
        /\ Missing(account') = Missing(account)
    BY <1>1, <2>1, SoldIs
  <2>3. account'.qty <= 1
    BY <1>4, <2>1, <2>2
  <2>4. Missing(account') - Missing(account) \in 0 .. 1 /\ Missing(account') \in Int
    BY <1>3, <2>2
  <2>5. BooksBalance'
    BY <1>5, <2>4
  <2> QED
    BY <1>1, <2>2, <2>3, <2>5
<1> QED
  BY <1>6, <1>7

\* The backtester computes the same from the same.
LEMMA ReplayedIs ==
  ASSUME PaperInv, NEW want \in Wanted, NEW p \in Price, replay = account,
         fills < MaxFill, loaded = "running"
  PROVE  Replayed(want, p) = IF Executes(want, p) THEN Filled(account, want, p) ELSE account
<1>1. /\ account \in Account /\ p \in Nat /\ Fee \in Nat
      /\ account.cash \in Int /\ account.avg \in Nat /\ account.fees \in Nat
      /\ account.realized \in Int /\ account.qty \in 0 .. 2
  BY PaperAssumption DEF PaperInv, PaperTypeOK, Account, MaxQty
<1>2. CASE want = "nothing"
  BY <1>2 DEF Replayed, Executes
<1>3. CASE want = "buy"
  <2>1. (p > account.cash) <=> ~(p <= account.cash)
    BY <1>1
  <2>2. account.cash - (p + Fee) = account.cash - p - Fee
    BY <1>1
  <2> QED
    BY <1>3, <2>1, <2>2 DEF Replayed, Executes, Filled, Bought, Averaged
<1>4. CASE want # "nothing" /\ want # "buy"
  <2> DEFINE k == SellQty(account, want)
  <2>1. Possible(account, want) /\ Executes(want, p)
    BY <1>4, Wants DEF Executes
  <2>2. k \in 1 .. account.qty /\ account.qty \in 1 .. 2
    BY <1>1, <1>4, <2>1 DEF Possible, SellQty
  <2> HIDE DEF k
  <2>3. /\ account.cash + (k * p - Fee) = account.cash + k * p - Fee
        /\ account.realized + (k * (p - account.avg) - Fee)
             = account.realized + k * (p - account.avg) - Fee
        /\ account.qty - k = 0 <=> k = account.qty
    <3>1. k * p \in Int /\ k * (p - account.avg) \in Int /\ k \in Int
      BY <1>1, <2>2
    <3> QED
      BY <1>1, <2>2, <3>1
  <2>4. Replayed(want, p) =
          [account EXCEPT !.cash = account.cash + (k * p - Fee), !.qty = account.qty - k,
                          !.avg = IF account.qty - k = 0 THEN 0 ELSE account.avg,
                          !.realized = account.realized + (k * (p - account.avg) - Fee)]
    BY <1>4 DEF Replayed, k
  <2>5. Filled(account, want, p) =
          [account EXCEPT !.cash = account.cash + k * p - Fee, !.qty = account.qty - k,
                          !.avg = IF k = account.qty THEN 0 ELSE account.avg,
                          !.realized = account.realized + k * (p - account.avg) - Fee]
    BY <1>4 DEF Filled, Sold, k
  <2> QED
    BY <2>1, <2>3, <2>4, <2>5
<1> QED
  BY <1>2, <1>3, <1>4

\* The tax is taken only from credits that cover it.
LEMMA BooksMoney ==
  ASSUME PaperInv, NEW want, NEW p, Books(want, p)
  PROVE  /\ credits' \in 0 .. Credits /\ unpaid' \in 0 .. MaxFill /\ unpaid' <= fills'
         /\ Pays => unpaid' = unpaid
         /\ want # "buy" => unpaid' = unpaid
         /\ unpaid' \in {unpaid, unpaid + 1}
<1>1. fills \in 0 .. MaxFill /\ fills < MaxFill /\ fills' = fills + 1
      /\ unpaid \in 0 .. MaxFill /\ unpaid <= fills /\ MaxFill \in Nat
  BY PaperAssumption DEF PaperInv, PaperTypeOK, Books
<1>2. unpaid' = IF Pays \/ want # "buy" THEN unpaid ELSE unpaid + 1
  BY DEF Books
<1>3. credits' \in 0 .. Credits
  BY PaperRows DEF Books, Pays, Taxed
<1> QED
  BY <1>1, <1>2, <1>3

\* What a bar leaves of the backtester.
LEMMA FollowsKeeps ==
  ASSUME PaperInv, NEW want \in Wanted, NEW p \in Price, NEW free \in BOOLEAN,
         Follows(free, want, p), account' \in Account,
         free => loaded = "running",
         free => account' = IF Executes(want, p) THEN Filled(account, want, p) ELSE account,
         Executes(want, p) => fills < MaxFill
  PROVE  /\ inStep' \in BOOLEAN /\ BacktestMirrors' /\ replay' \in Account
<1>1. inStep' = (inStep /\ free) /\ inStep \in BOOLEAN
  BY PaperRows DEF Follows
<1>2. CASE inStep'
  <2>1. replay = account /\ replay' = Replayed(want, p)
    BY <1>1, <1>2 DEF Follows, PaperInv, BacktestMirrors
  <2>2. CASE fills < MaxFill
    BY <1>1, <1>2, <2>1, <2>2, ReplayedIs DEF BacktestMirrors
  <2>3. CASE ~(fills < MaxFill)
    <3>1. account' = account /\ ~Executes(want, p)
      BY <1>1, <1>2, <2>3
    <3>2. replay' = account
      <4>1. want # "nothing" => want = "buy" /\ ~(p <= account.cash)
        BY <1>1, <1>2, <3>1 DEF Executes
      <4>2. p \in Nat /\ account.cash \in Int
        BY PaperAssumption DEF PaperInv, PaperTypeOK
      <4>3. want = "buy" => p > account.cash \/ want = "nothing"
        BY <4>1, <4>2
      <4> QED
        BY <2>1, <4>1, <4>3 DEF Replayed
    <3> QED
      BY <1>1, <1>2, <3>1, <3>2 DEF BacktestMirrors
  <2> QED
    BY <2>2, <2>3
<1>3. CASE ~inStep'
  <2>1. replay' = Opening
    BY <1>3 DEF Follows
  <2>2. Opening \in Account
    BY PaperAssumption DEF Opening, Account, MaxQty
  <2> QED
    BY <1>1, <1>3, <2>1, <2>2 DEF BacktestMirrors
<1> QED
  BY <1>2, <1>3

LEMMA Assembled ==
  ASSUME PaperInv, kind' = kind, stale' \in BOOLEAN, distils' \in BOOLEAN,
         inStep' \in BOOLEAN,
         botRow' \in {"none", "running", "paused", "stopped"},
         loaded' \in {"absent", "running", "paused"},
         mark' \in Price \cup {0}, credits' \in 0 .. Credits, unpaid' \in 0 .. MaxFill,
         starts' \in 0 .. MaxStart, deaths' \in 0 .. MaxDeath, fills' \in 0 .. MaxFill,
         account' \in Account, replay' \in Account, unpaid' <= fills',
         kind' = "quant" => account'.qty <= 1,
         BooksBalance', BacktestMirrors', UnpaidSoFar'
  PROVE  PaperInv'
  BY DEF PaperInv, PaperTypeOK, Account

LEMMA BarKeeps ==
  ASSUME PaperInv, NEW p \in Price, NEW want \in Wanted, Bar(p, want) PROVE PaperInv'
<1> USE DEF Bar
<1>1. UNCHANGED <<kind, stale, distils, starts, deaths>> /\ mark' \in Price \cup {0}
      /\ loaded \in {"running", "paused"}
  BY PaperRows
<1>2. CASE Executes(want, p)
  <2>1. Books(want, p) /\ Paused(Pays) /\ want # "nothing"
    BY <1>2 DEF Executes
  <2>2. /\ account' \in Account /\ fills' \in 0 .. MaxFill
        /\ kind' = "quant" => account'.qty <= 1
        /\ BooksBalance'
    BY <1>1, <2>1, FilledKeeps DEF Books
  <2>3. inStep' \in BOOLEAN /\ BacktestMirrors' /\ replay' \in Account
    <3>1. Follows(loaded = "running", want, p) /\ (loaded = "running") \in BOOLEAN
      OBVIOUS
    <3>2. account' = Filled(account, want, p) /\ fills < MaxFill
      BY <2>1 DEF Books
    <3> QED
      BY <1>2, <2>2, <3>1, <3>2, FollowsKeeps
  <2>4. /\ credits' \in 0 .. Credits /\ unpaid' \in 0 .. MaxFill /\ unpaid' <= fills'
        /\ Pays => unpaid' = unpaid
        /\ want # "buy" => unpaid' = unpaid
        /\ unpaid' \in {unpaid, unpaid + 1}
    BY <2>1, BooksMoney
  <2>5. UnpaidSoFar' /\ botRow' \in {"none", "running", "paused", "stopped"}
        /\ loaded' \in {"absent", "running", "paused"}
    <3>1. CASE Pays
      BY <1>1, <2>1, <2>4, <3>1, PaperRows DEF Paused, UnpaidSoFar, MayRun
    <3>2. CASE ~Pays
      <4>1. botRow' = "paused" /\ loaded' = "paused" /\ ~MayRun'
        BY <2>1, <3>2 DEF Paused, MayRun
      <4>2. unpaid' <= starts + deaths + 1
        <5>1. CASE want = "buy"
          <6>1. loaded = "running" /\ MayRun
            BY <1>1, <1>2, <5>1 DEF Executes, MayRun
          <6>2. unpaid <= starts + deaths
            BY <6>1, PaperRows DEF UnpaidSoFar
          <6> QED
            BY <2>4, <6>2, PaperRows
        <5>2. CASE want # "buy"
          <6>1. unpaid <= starts + deaths + 1
            BY PaperRows DEF UnpaidSoFar
          <6> QED
            BY <2>4, <5>2, <6>1
        <5> QED
          BY <5>1, <5>2
      <4>3. unpaid' <= starts' + deaths' + (IF MayRun' THEN 0 ELSE 1)
        BY <1>1, <4>1, <4>2
      <4> QED
        BY <4>1, <4>3 DEF UnpaidSoFar
    <3> QED
      BY <3>1, <3>2
  <2> QED
    BY <1>1, <2>2, <2>3, <2>4, <2>5, PaperRows, Assembled
<1>3. CASE ~Executes(want, p)
  <2>1. UNCHANGED <<botRow, loaded, account, credits, unpaid, fills>>
    BY <1>3
  <2>2. account' \in Account
    BY <2>1 DEF PaperInv, PaperTypeOK, Account
  <2>3. inStep' \in BOOLEAN /\ BacktestMirrors' /\ replay' \in Account
    <3>1. Follows(loaded = "running", want, p) /\ (loaded = "running") \in BOOLEAN
      OBVIOUS
    <3> QED
      BY <1>3, <2>1, <2>2, <3>1, FollowsKeeps
  <2>4. UnpaidSoFar' /\ BooksBalance'
    BY <1>1, <2>1 DEF PaperInv, UnpaidSoFar, MayRun, BooksBalance
  <2>5. fills' \in 0 .. MaxFill /\ unpaid' \in 0 .. MaxFill /\ unpaid' <= fills'
        /\ (kind' = "quant" => account'.qty <= 1)
    BY <1>1, <2>1 DEF PaperInv, PaperTypeOK
  <2> QED
    BY <1>1, <2>1, <2>2, <2>3, <2>4, <2>5, PaperRows, Assembled
<1> QED
  BY <1>2, <1>3

LEMMA HeldKeeps == PaperInv /\ HeldTooLong => PaperInv'
<1> SUFFICES ASSUME PaperInv, HeldTooLong PROVE PaperInv'
  OBVIOUS
<1> USE DEF HeldTooLong
<1>1. /\ UNCHANGED <<kind, stale, mark, distils, starts, deaths>>
      /\ kind = "house" /\ account.qty > 0 /\ Books("sell", mark) /\ Paused(Pays)
      /\ mark \in Price /\ Pays
  BY PaperRows DEF Pays, Taxed
<1>2. "sell" \in Wanted /\ "sell" # "nothing"
  BY <1>1 DEF Wanted, RungWants
<1>3. /\ account' \in Account /\ fills' \in 0 .. MaxFill
      /\ kind' = "quant" => account'.qty <= 1
      /\ BooksBalance'
  BY <1>1, <1>2, FilledKeeps DEF Books
<1>4. inStep' \in BOOLEAN /\ BacktestMirrors' /\ replay' \in Account
  <2>1. Follows(FALSE, "sell", mark) /\ fills < MaxFill
    BY <1>1 DEF Books
  <2> QED
    BY <1>1, <1>2, <1>3, <2>1, FollowsKeeps
<1>5. /\ credits' \in 0 .. Credits /\ unpaid' \in 0 .. MaxFill /\ unpaid' <= fills'
      /\ unpaid' = unpaid
  BY <1>1, BooksMoney
<1>6. UNCHANGED <<botRow, loaded>>
  BY <1>1 DEF Paused
<1>7. UnpaidSoFar'
  BY <1>1, <1>5, <1>6, PaperRows DEF UnpaidSoFar, MayRun
<1> QED
  BY <1>1, <1>3, <1>4, <1>5, <1>6, <1>7, PaperRows, Assembled

LEMMA DiesUnpausedKeeps ==
  ASSUME PaperInv, NEW p \in Price, NEW want \in Wanted, DiesUnpaused(p, want) PROVE PaperInv'
<1> USE DEF DiesUnpaused
<1>1. /\ UNCHANGED <<kind, botRow, starts>> /\ mark' = 0 /\ stale' = FALSE
      /\ distils' = FALSE /\ deaths' = deaths + 1 /\ deaths < MaxDeath
      /\ loaded \in {"running", "paused"} /\ want # "nothing"
      /\ loaded' = Reloaded("absent", botRow)
  BY PaperRows DEF Restarted, Executes
<1>2. /\ account' \in Account /\ fills' \in 0 .. MaxFill
      /\ kind' = "quant" => account'.qty <= 1
      /\ BooksBalance'
  BY <1>1, FilledKeeps DEF Books
<1>3. inStep' \in BOOLEAN /\ BacktestMirrors' /\ replay' \in Account
  <2>1. Follows(loaded = "running", want, p) /\ (loaded = "running") \in BOOLEAN
    OBVIOUS
  <2>2. account' = Filled(account, want, p) /\ fills < MaxFill /\ Executes(want, p)
    BY DEF Books
  <2> QED
    BY <1>2, <2>1, <2>2, FollowsKeeps
<1>4. /\ credits' \in 0 .. Credits /\ unpaid' \in 0 .. MaxFill /\ unpaid' <= fills'
      /\ want # "buy" => unpaid' = unpaid
      /\ unpaid' \in {unpaid, unpaid + 1}
  BY BooksMoney
<1>5. /\ loaded' \in {"absent", "running", "paused"} /\ (loaded' = "running" <=> botRow = "running")
      /\ (botRow = "none" => loaded' = "absent")
  BY <1>1, PaperRows, ReloadedRow DEF Reloaded
<1>6. UnpaidSoFar'
  <2>1. unpaid' <= starts + deaths + 1 + (IF MayRun' THEN 0 ELSE 1)
    <3>1. CASE want = "buy"
      <4>1. loaded = "running" /\ MayRun
        BY <1>1, <3>1 DEF Executes, MayRun
      <4>2. unpaid <= starts + deaths
        BY <4>1, PaperRows DEF UnpaidSoFar
      <4> QED
        BY <1>4, <4>2, PaperRows
    <3>2. CASE want # "buy"
      BY <1>4, <3>2, PaperRows DEF UnpaidSoFar
    <3> QED
      BY <3>1, <3>2
  <2>2. botRow # "none"
    BY <1>1, PaperRows DEF UnpaidSoFar
  <2> QED
    BY <1>1, <2>1, <2>2, PaperRows DEF UnpaidSoFar
<1>7. deaths' \in 0 .. MaxDeath /\ mark' \in Price \cup {0} /\ starts' \in 0 .. MaxStart
  BY <1>1, PaperRows
<1> QED
  BY <1>1, <1>2, <1>3, <1>4, <1>5, <1>6, <1>7, PaperRows, Assembled

LEMMA PaperNextKeeps == PaperInv /\ [PaperNext]_paperVars => PaperInv'
<1> SUFFICES ASSUME PaperInv, [PaperNext]_paperVars PROVE PaperInv'
  OBVIOUS
<1>1. CASE Deploy \/ CloneSold \/ Start \/ Stop
  BY <1>1, DeployKeeps, CloneSoldKeeps, StartKeeps, StopKeeps
<1>2. CASE AskPersona \/ FeedStatus \/ \E p \in Price : Tick(p)
  BY <1>2, QuietKeeps
<1>3. CASE PersonaSaved \/ PaperDies \/ HeldTooLong
  BY <1>3, PersonaSavedKeeps, DiesKeeps, HeldKeeps
<1>4. ASSUME NEW p \in Price, NEW want \in Wanted, Bar(p, want) \/ DiesUnpaused(p, want)
      PROVE  PaperInv'
  BY <1>4, BarKeeps, DiesUnpausedKeeps
<1>5. CASE UNCHANGED paperVars
  BY <1>5
  DEF paperVars, PaperInv, PaperTypeOK, BooksBalance, BacktestMirrors,
      UnpaidSoFar, MayRun
<1> QED
  BY <1>1, <1>2, <1>3, <1>4, <1>5 DEF PaperNext

\* The books of a paper bot balance, its backtest books the same, and who
\* cannot pay is not let enter again and again (engine/engine.ts,
\* engine/accounting.ts, backtest/backtester.ts).
THEOREM PaperTheorem == PaperSpec => []PaperSound
<1>1. PaperInit => PaperInv
  BY PaperInitInv
<1>2. PaperInv /\ [PaperNext]_paperVars => PaperInv'
  BY PaperNextKeeps
<1>3. PaperInv => PaperSound
  BY PaperRows DEF PaperSound, PaperInv, UnpaidEntries, UnpaidSoFar
<1> QED
  BY <1>1, <1>2, <1>3, PTL DEF PaperSpec
-----------------------------------------------------------------------------
(* Webhooks: the newest event wins.                                        *)

\* A row says what the event it is stamped with said.
Said(n) == IF stripe[n] = "refund" THEN "refunded" ELSE stripe[n]

MemberNamed ==
  member.at # 0 => stripe[member.at] \in Subscribed /\ member.status = stripe[member.at]

PaymentNamed ==
  payment.at # 0 =>
    stripe[payment.at] \in Invoice \cup {"refund"} /\ payment.status = Said(payment.at)

\* An event that was delivered was made, and one whose invoice is asked for is
\* a refund.
Delivered ==
  /\ \A n \in Event : journal[n] # "none" => stripe[n] # "none"
  /\ \A h \in Handler : lookup[h] # 0 => stripe[lookup[h]] = "refund"

\* No row is older than an event that was processed.
EventsFresh ==
  \A n \in Event : journal[n] = "processed" =>
    IF stripe[n] \in Subscribed THEN member.at >= n ELSE payment.at >= n

WebhookInv == WebhookTypeOK /\ MemberNamed /\ PaymentNamed /\ Delivered /\ EventsFresh

LEMMA WebhookInvNewest == WebhookInv => NewestWins
  BY WebhookAssumption
  DEF WebhookInv, WebhookTypeOK, MemberNamed, PaymentNamed, EventsFresh, Said, NewestWins,
      Event, Subscribed, Invoice

LEMMA WebhookInitInv == WebhookInit => WebhookInv
  BY WebhookAssumption
  DEF WebhookInit, WebhookInv, WebhookTypeOK, MemberNamed, PaymentNamed, Delivered, EventsFresh,
      Event
-----------------------------------------------------------------------------
(* The steps.                                                               *)

\* Stripe makes an event that is not journalled and that no row is stamped
\* with.
LEMMA MakesKeeps ==
  ASSUME WebhookInv, NEW n \in Event, NEW what \in Subscribed \cup Invoice \cup {"refund"},
         StripeMakes(n, what)
  PROVE  WebhookInv'
<1> USE WebhookAssumption DEF WebhookInv, StripeMakes
<1>1. WebhookTypeOK'
  BY DEF WebhookTypeOK
<1>2. \A m \in Event : stripe[m] # "none" => stripe'[m] = stripe[m]
  BY DEF WebhookTypeOK
<1>3. MemberNamed'
  BY <1>2 DEF MemberNamed, WebhookTypeOK, Subscribed, Event
<1>4. PaymentNamed'
  BY <1>2 DEF PaymentNamed, Said, WebhookTypeOK, Invoice, Event
<1>5. Delivered'
  BY <1>2 DEF Delivered, WebhookTypeOK, Event
<1>6. EventsFresh'
  BY <1>2 DEF EventsFresh, Delivered, WebhookTypeOK
<1> QED
  BY <1>1, <1>3, <1>4, <1>5, <1>6

\* What a step that only moves the journal leaves: an event it calls processed
\* was so before.
LEMMA JournalKeeps ==
  ASSUME WebhookInv, WebhookTypeOK', UNCHANGED <<stripe, member, payment>>,
         \A m \in Event : journal'[m] # journal[m] =>
           stripe[m] # "none" /\ journal'[m] # "processed",
         \A h \in Handler : lookup'[h] # lookup[h] /\ lookup'[h] # 0 =>
           stripe[lookup'[h]] = "refund"
  PROVE  WebhookInv'
<1> USE DEF WebhookInv
<1>1. MemberNamed' /\ PaymentNamed'
  BY DEF MemberNamed, PaymentNamed, Said
<1>2. Delivered'
  BY DEF Delivered
<1>3. EventsFresh'
  BY DEF EventsFresh
<1> QED
  BY <1>1, <1>2, <1>3

\* An event is written into a row unless the row is newer.
LEMMA ApplyKeeps ==
  ASSUME WebhookInv, NEW n \in Event, Apply(n) PROVE WebhookInv'
<1> USE WebhookAssumption DEF WebhookInv
<1>1. /\ stripe[n] \notin {"none", "refund"} /\ UNCHANGED <<stripe, lookup>>
      /\ Journal(n, "processed") \/ Journal(n, "processing")
      /\ cuts' \in {cuts, cuts + 1} /\ (cuts' = cuts \/ cuts < MaxCut)
  <2>1. stripe[n] \notin {"none", "refund"} /\ UNCHANGED <<stripe, lookup>>
    BY DEF Apply, Claimable
  <2>2. \/ Journal(n, "processed") /\ cuts' = cuts
        \/ Journal(n, "processing") /\ cuts < MaxCut /\ cuts' = cuts + 1
    BY DEF Apply
  <2> QED
    BY <2>1, <2>2
<1>2. /\ journal' \in [Event -> {"none", "processing", "processed", "failed"}]
      /\ \A m \in Event \ {n} : journal'[m] = journal[m]
      /\ overdue' \in SUBSET Event
  BY <1>1 DEF Journal, WebhookTypeOK
<1>3. cuts' \in 0 .. MaxCut
  BY <1>1 DEF WebhookTypeOK
<1>4. Delivered'
  BY <1>1, <1>2 DEF Delivered
<1>5. n \in 1 .. MaxEvent /\ n # 0 /\ member.at \in 0 .. MaxEvent /\ payment.at \in 0 .. MaxEvent
  BY DEF Event, WebhookTypeOK
<1>6. CASE Sync(n)
  <2>1. /\ stripe[n] \in Subscribed /\ payment' = payment
        /\ member' = IF n >= member.at THEN [status |-> stripe[n], at |-> n] ELSE member
    BY <1>6 DEF Sync, RowWritten, Newer
  <2>2. /\ member' \in [status : Subscribed \cup {"none"}, at : 0 .. MaxEvent]
        /\ member'.at >= member.at /\ member'.at >= n
    BY <1>5, <2>1 DEF WebhookTypeOK
  <2>3. WebhookTypeOK'
    BY <1>1, <1>2, <1>3, <2>1, <2>2 DEF WebhookTypeOK
  <2>4. MemberNamed' /\ PaymentNamed'
    BY <1>1, <2>1 DEF MemberNamed, PaymentNamed, Said
  <2>5. EventsFresh'
    BY <1>1, <1>2, <1>5, <2>1, <2>2 DEF EventsFresh, Event
  <2> QED
    BY <1>4, <2>3, <2>4, <2>5
<1>7. CASE RecordPayment(n)
  <2>1. /\ stripe[n] \in Invoice /\ stripe[n] # "refund" /\ member' = member
        /\ payment' = IF n >= payment.at THEN [status |-> stripe[n], at |-> n] ELSE payment
    BY <1>1, <1>7 DEF RecordPayment, RowWritten, Newer
  <2>2. /\ payment' \in [status : Invoice \cup {"none", "refunded"}, at : 0 .. MaxEvent]
        /\ payment'.at >= payment.at /\ payment'.at >= n
    BY <1>5, <2>1 DEF WebhookTypeOK
  <2>3. WebhookTypeOK'
    BY <1>1, <1>2, <1>3, <2>1, <2>2 DEF WebhookTypeOK
  <2>4. MemberNamed' /\ PaymentNamed'
    BY <1>1, <2>1 DEF MemberNamed, PaymentNamed, Said
  <2>5. stripe[n] \notin Subscribed
    BY <2>1 DEF Subscribed, Invoice
  <2>6. EventsFresh'
    BY <1>1, <1>2, <1>5, <2>1, <2>2, <2>5 DEF EventsFresh, Event
  <2> QED
    BY <1>4, <2>3, <2>4, <2>6
<1> QED
  BY <1>6, <1>7 DEF Apply

\* A refund is written the same way when Stripe has answered.
LEMMA RefundKeeps ==
  ASSUME WebhookInv, NEW h \in Handler, RefundApplies(h) PROVE WebhookInv'
<1> DEFINE n == lookup[h]
<1> USE WebhookAssumption DEF WebhookInv
<1>1. /\ n # 0 /\ UNCHANGED <<stripe, member, cuts>> /\ Journal(n, "processed")
      /\ lookup' = [lookup EXCEPT ![h] = 0]
      /\ payment' = IF n >= payment.at THEN [status |-> "refunded", at |-> n] ELSE payment
  BY DEF RefundApplies, RowWritten, Newer
<1>2. /\ n \in Event /\ n \in 1 .. MaxEvent /\ stripe[n] = "refund"
      /\ payment.at \in 0 .. MaxEvent
  BY <1>1 DEF WebhookTypeOK, Delivered, Event
<1> HIDE DEF n
<1>3. /\ payment' \in [status : Invoice \cup {"none", "refunded"}, at : 0 .. MaxEvent]
      /\ payment'.at >= payment.at /\ payment'.at >= n
  BY <1>1, <1>2 DEF WebhookTypeOK
<1>4. /\ journal' \in [Event -> {"none", "processing", "processed", "failed"}]
      /\ \A m \in Event \ {n} : journal'[m] = journal[m]
      /\ overdue' \in SUBSET Event
  BY <1>1, <1>2 DEF Journal, WebhookTypeOK
<1>5. WebhookTypeOK'
  BY <1>1, <1>3, <1>4 DEF WebhookTypeOK
<1>6. MemberNamed' /\ PaymentNamed'
  BY <1>1, <1>2 DEF MemberNamed, PaymentNamed, Said
<1>7. Delivered'
  BY <1>1, <1>2, <1>4 DEF Delivered, WebhookTypeOK
<1>8. EventsFresh'
  <2>1. "refund" \notin Subscribed
    BY DEF Subscribed
  <2> QED
    BY <1>1, <1>2, <1>3, <1>4, <2>1 DEF EventsFresh, Event
<1> QED
  BY <1>5, <1>6, <1>7, <1>8

LEMMA WebhookNextKeeps == WebhookInv /\ [WebhookNext]_webhookVars => WebhookInv'
<1> SUFFICES ASSUME WebhookInv, [WebhookNext]_webhookVars PROVE WebhookInv'
  OBVIOUS
<1> USE WebhookAssumption
<1>1. ASSUME NEW n \in Event, NEW what \in Subscribed \cup Invoice \cup {"refund"},
             StripeMakes(n, what)
      PROVE  WebhookInv'
  BY <1>1, MakesKeeps
<1>2. ASSUME NEW n \in Event, LeaseEnds(n) PROVE WebhookInv'
  <2>1. WebhookTypeOK'
    BY <1>2 DEF LeaseEnds, WebhookInv, WebhookTypeOK
  <2> QED
    BY <1>2, <2>1, JournalKeeps DEF LeaseEnds
<1>3. ASSUME NEW n \in Event, Apply(n) PROVE WebhookInv'
  BY <1>3, ApplyKeeps
<1>4. ASSUME NEW n \in Event, NEW s \in {"processing", "failed"},
             stripe[n] # "none", Journal(n, s),
             UNCHANGED <<stripe, member, payment>>, cuts' \in 0 .. MaxCut,
             lookup' \in [Handler -> 0 .. MaxEvent],
             \A h \in Handler : lookup'[h] # lookup[h] /\ lookup'[h] # 0 =>
               stripe[lookup'[h]] = "refund"
      PROVE  WebhookInv'
  <2>1. WebhookTypeOK'
    BY <1>4 DEF Journal, WebhookInv, WebhookTypeOK
  <2>2. \A m \in Event : journal'[m] # journal[m] =>
          stripe[m] # "none" /\ journal'[m] # "processed"
    BY <1>4 DEF Journal, WebhookInv, WebhookTypeOK
  <2> QED
    BY <1>4, <2>1, <2>2, JournalKeeps
<1>5. ASSUME NEW n \in Event, BeginOnly(n) PROVE WebhookInv'
  <2>1. cuts' \in 0 .. MaxCut /\ lookup' \in [Handler -> 0 .. MaxEvent]
    BY <1>5 DEF BeginOnly, WebhookInv, WebhookTypeOK
  <2> QED
    BY <1>4, <1>5, <2>1 DEF BeginOnly, Claimable
<1>6. ASSUME NEW n \in Event, ApplyFails(n) PROVE WebhookInv'
  <2>1. cuts' \in 0 .. MaxCut /\ lookup' \in [Handler -> 0 .. MaxEvent]
    BY <1>6 DEF ApplyFails, WebhookInv, WebhookTypeOK
  <2> QED
    BY <1>4, <1>6, <2>1 DEF ApplyFails, Claimable
<1>7. ASSUME NEW n \in Event, NEW h \in Handler, RefundAsks(h, n) PROVE WebhookInv'
  <2>1. /\ cuts' \in 0 .. MaxCut /\ lookup' \in [Handler -> 0 .. MaxEvent]
        /\ \A g \in Handler : lookup'[g] # lookup[g] => lookup'[g] = n
    BY <1>7 DEF RefundAsks, WebhookInv, WebhookTypeOK, Event
  <2>2. stripe[n] = "refund" /\ UNCHANGED <<stripe, member, payment>> /\ Journal(n, "processing")
    BY <1>7 DEF RefundAsks
  <2> QED
    BY <1>4, <2>1, <2>2
<1>8. ASSUME NEW h \in Handler, RefundApplies(h) PROVE WebhookInv'
  BY <1>8, RefundKeeps
<1>9. ASSUME NEW h \in Handler, RefundFails(h) PROVE WebhookInv'
  <2>1. lookup[h] \in Event /\ stripe[lookup[h]] = "refund"
    BY <1>9 DEF RefundFails, WebhookInv, WebhookTypeOK, Delivered, Event
  <2>2. /\ cuts' \in 0 .. MaxCut /\ lookup' \in [Handler -> 0 .. MaxEvent]
        /\ \A g \in Handler : lookup'[g] # lookup[g] => lookup'[g] = 0
    BY <1>9 DEF RefundFails, WebhookInv, WebhookTypeOK
  <2>3. UNCHANGED <<stripe, member, payment>> /\ Journal(lookup[h], "failed")
    BY <1>9 DEF RefundFails
  <2> QED
    BY <1>4, <2>1, <2>2, <2>3
<1>10. CASE Cut
  <2>1. WebhookTypeOK'
    BY <1>10 DEF Cut, WebhookInv, WebhookTypeOK
  <2>2. \A g \in Handler : lookup'[g] = 0
    BY <1>10 DEF Cut
  <2> QED
    BY <1>10, <2>1, <2>2, JournalKeeps DEF Cut
<1>11. CASE UNCHANGED webhookVars
  <2>1. WebhookTypeOK'
    BY <1>11 DEF webhookVars, WebhookInv, WebhookTypeOK
  <2> QED
    BY <1>11, <2>1, JournalKeeps DEF webhookVars
<1> QED
  BY <1>1, <1>2, <1>3, <1>5, <1>6, <1>7, <1>8, <1>9, <1>10, <1>11 DEF WebhookNext

\* However Stripe's events are reordered, repeated and cut off, the rows of the
\* membership say what the newest event processed said: the `>=` of both upserts
\* and the lease of the event journal are enough, with any number of requests
\* under way.
THEOREM NewestTheorem == WebhookSpec => []NewestWins
<1>1. WebhookSpec => []WebhookInv
  BY WebhookInitInv, WebhookNextKeeps, PTL DEF WebhookSpec
<1> QED
  BY <1>1, WebhookInvNewest, PTL
-----------------------------------------------------------------------------
(* Swap: what is signed is priced in time and granted exactly.             *)

TxRow == [order : SwapOrder \cup {BotOrder}, purpose : {"allowance", "swap"}, amount : Amounts \cup {0},
          state : {"broadcast", "confirmed", "unknown"}, mined : {"no", "yes", "reverted"}]
JobRow ==
  [at : {"idle", "allowance", "reset", "exact", "mining", "checks", "quote", "settler", "submit"},
   order : {0} \cup SwapOrder, amount : Amounts \cup {0}, gas : Nat,
   price : EthPrice \cup {0}, priceAt : 0 .. MaxClock,
   by : 0 .. MaxClock + FetchTime + Life, quote : {NoQuote} \cup Quote, tx : Nat, others : Nat]

SwapTyped ==
  /\ clock \in 0 .. MaxClock
  /\ ref \in [price : EthPrice, at : 0 .. MaxClock]
  /\ grant \in Nat
  /\ txs \in Seq(TxRow) /\ gasRows \subseteq DOMAIN txs
  /\ job \in JobRow
  /\ placed \in [SwapOrder -> {"none", "placing", "sent", "risk_rejected", "lost"}]
  /\ haltedFor \subseteq SwapOrder /\ swapHalt \in BOOLEAN

\* One order is placed at a time.
OnePlacing ==
  /\ IF job.at = "idle" THEN job = NoJob
     ELSE /\ job.order \in SwapOrder /\ job.amount \in Amounts
          /\ placed[job.order] = "placing"
  /\ \A o \in SwapOrder : placed[o] = "placing" => job.at # "idle" /\ job.order = o
  /\ \A i \in DOMAIN txs : ~FromBots(i) => placed[txs[i].order] # "none"

\* The price of the final gates is followed by two waits with a deadline each.
PriceAges ==
  /\ job.at = "quote" => clock <= job.by /\ job.by <= job.priceAt + StaleAge + FetchTime
  /\ job.at \in {"settler", "submit"} => job.by <= job.priceAt + StaleAge + FetchTime + Life

\* The quote that is signed passed both checks.
QuotePasses ==
  /\ job.at \in {"settler", "submit"} => job.quote \in Quote /\ VerifyQuote(job.quote)
  /\ job.at = "submit" => job.quote.callMin * job.price > job.amount

\* A swap's approval is awaited, or confirmed, or halted the network, and none
\* is open beside another job's; so what is granted once the approvals are done
\* only shrinks, but for what the bots approve.
Ours(i) == ~FromBots(i) /\ txs[i].purpose = "allowance"

GrantedExactly ==
  /\ \A i \in DOMAIN txs :
       Ours(i) /\ txs[i].state # "confirmed" =>
         /\ swapHalt \/ (job.at = "mining" /\ i = job.tx)
         /\ job.at # "idle" => job.at = "mining" /\ i = job.tx
  /\ job.at = "mining" =>
       /\ job.tx \in DOMAIN txs
       /\ txs[job.tx].purpose = "allowance" /\ txs[job.tx].order = job.order
       /\ txs[job.tx].amount \in {0, job.amount}
       /\ txs[job.tx].mined = "yes" => grant <= txs[job.tx].amount \/ grant <= job.others
  /\ job.at \in {"checks", "quote", "settler", "submit"} =>
       grant <= job.amount \/ grant <= job.others

\* The gas of every approval is booked before the next step is taken.
GasBooked ==
  /\ \A i \in DOMAIN txs :
       Ours(i) /\ i \notin gasRows =>
         txs[i].order \in haltedFor \/ placed[txs[i].order] \in {"placing", "lost"}
  /\ job.at # "idle" =>
       \A i \in DOMAIN txs :
         Ours(i) /\ txs[i].order = job.order /\ i \notin gasRows => job.at = "mining" /\ i = job.tx

SentSound == EdgeFresh /\ NoLargerGrant /\ GuaranteeHolds

SwapInv ==
  SwapTyped /\ OnePlacing /\ PriceAges /\ QuotePasses /\ GrantedExactly /\ GasBooked /\ SentSound

LEMMA SwapConstants ==
  /\ Amounts \subseteq Nat /\ EthPrice \subseteq Nat /\ Outputs \subseteq Nat
  /\ EthPrice # {} /\ 0 \notin Amounts /\ 0 \notin Outputs
  /\ Scale \in Nat /\ MaxSlip \in Nat
  /\ RawCap \in Nat /\ StaleAge \in Nat /\ FetchTime \in Nat /\ Life \in Nat
  /\ MaxSwap \in Nat /\ MaxClock \in Nat /\ BotOrder = 0 /\ BotOrder \notin SwapOrder
  BY SwapAssumption DEF BotOrder, SwapOrder

LEMMA NoJobType ==
  /\ NoJob \in JobRow /\ NoJob.at = "idle"
<1>1. /\ 0 \in 0 .. MaxClock /\ 0 \in 0 .. MaxClock + FetchTime + Life
  BY SwapConstants
<1> QED
  BY <1>1 DEF NoJob, JobRow

LEMMA SwapInitInv == SwapInit => SwapInv
<1> SUFFICES ASSUME SwapInit PROVE SwapInv
  OBVIOUS
<1>1. SwapTyped
  <2>1. ref \in [price : EthPrice, at : 0 .. MaxClock]
    BY SwapConstants DEF SwapInit
  <2>2. txs \in Seq(TxRow) /\ gasRows \subseteq DOMAIN txs
    BY DEF SwapInit
  <2>3. clock \in 0 .. MaxClock /\ grant \in Nat
    BY SwapConstants DEF SwapInit
  <2>4. placed \in [SwapOrder -> {"none", "placing", "sent", "risk_rejected", "lost"}]
        /\ haltedFor \subseteq SwapOrder /\ swapHalt \in BOOLEAN
    BY DEF SwapInit
  <2> QED
    BY <2>1, <2>2, <2>3, <2>4, NoJobType DEF SwapTyped, SwapInit
<1>2. DOMAIN txs = {} /\ job = NoJob /\ job.at = "idle"
  BY NoJobType DEF SwapInit
<1>3. OnePlacing /\ PriceAges /\ QuotePasses /\ GrantedExactly /\ GasBooked
  BY <1>2 DEF SwapInit, OnePlacing, PriceAges, QuotePasses, GrantedExactly, GasBooked
<1>4. SentSound
  BY DEF SwapInit, SentSound, EdgeFresh, NoLargerGrant, GuaranteeHolds, NoSwap
<1> QED
  BY <1>1, <1>3, <1>4 DEF SwapInv
-----------------------------------------------------------------------------
(* Time, prices and the chain.                                              *)

LEMMA TimeKeeps == SwapInv /\ TimeGoes => SwapInv'
<1> SUFFICES ASSUME SwapInv, TimeGoes PROVE SwapInv'
  OBVIOUS
<1> USE DEF TimeGoes
<1>1. clock' \in 0 .. MaxClock /\ clock' = clock + 1 /\ clock \in Nat
  BY SwapConstants DEF SwapInv, SwapTyped
<1>2. PriceAges'
  <2>1. job.by \in Nat
    BY SwapConstants DEF SwapInv, SwapTyped, JobRow
  <2> QED
    BY <1>1, <2>1 DEF SwapInv, PriceAges
<1> QED
  BY <1>1, <1>2
  DEF SwapInv, SwapTyped, Ours, FromBots, OnePlacing, QuotePasses, GrantedExactly, GasBooked, SentSound,
      EdgeFresh, NoLargerGrant, GuaranteeHolds

LEMMA PolledKeeps ==
  ASSUME SwapInv, NEW usd \in EthPrice, Polled(usd) PROVE SwapInv'
<1>1. ref' \in [price : EthPrice, at : 0 .. MaxClock]
  BY DEF Polled, SwapInv, SwapTyped
<1> QED
  BY <1>1
  DEF Polled, SwapInv, SwapTyped, Ours, FromBots, OnePlacing, PriceAges, QuotePasses, GrantedExactly,
      GasBooked, SentSound, EdgeFresh, NoLargerGrant, GuaranteeHolds

\* A transaction changes in what became of it.
LEMMA TxChanges ==
  ASSUME SwapInv, NEW i \in DOMAIN txs, NEW row \in TxRow,
         txs' = [txs EXCEPT ![i] = row],
         row.order = txs[i].order, row.purpose = txs[i].purpose, row.amount = txs[i].amount
  PROVE  /\ txs' \in Seq(TxRow) /\ DOMAIN txs' = DOMAIN txs /\ Len(txs') = Len(txs)
         /\ txs'[i] = row
         /\ \A j \in DOMAIN txs : /\ j # i => txs'[j] = txs[j]
                                  /\ txs'[j].order = txs[j].order
                                  /\ txs'[j].purpose = txs[j].purpose
                                  /\ txs'[j].amount = txs[j].amount
                                  /\ (Ours(j)') = Ours(j) /\ (FromBots(j)') = FromBots(j)
<1>1. txs \in Seq(TxRow)
  BY DEF SwapInv, SwapTyped
<1> QED
  BY <1>1 DEF Ours, FromBots

LEMMA TxType ==
  SwapInv => /\ txs \in Seq(TxRow) /\ \A i \in DOMAIN txs : txs[i] \in TxRow
             /\ DOMAIN txs = 1 .. Len(txs) /\ Len(txs) \in Nat
<1> SUFFICES ASSUME SwapInv
             PROVE  /\ txs \in Seq(TxRow) /\ \A i \in DOMAIN txs : txs[i] \in TxRow
                    /\ DOMAIN txs = 1 .. Len(txs) /\ Len(txs) \in Nat
  OBVIOUS
<1>1. txs \in Seq(TxRow)
  BY DEF SwapInv, SwapTyped
<1> QED
  BY <1>1

LEMMA TxFields == ASSUME SwapInv, NEW i \in DOMAIN txs PROVE txs[i].amount \in Nat
<1>1. txs[i].amount \in Amounts \cup {0}
  BY TxType DEF TxRow
<1>2. Amounts \subseteq Nat
  BY SwapConstants
<1>3. CASE txs[i].amount \in Amounts
  BY <1>2, <1>3
<1>4. CASE txs[i].amount \in {0}
  BY <1>4
<1> QED
  BY <1>1, <1>3, <1>4

LEMMA JobFields ==
  SwapInv => /\ job \in JobRow /\ clock \in 0 .. MaxClock /\ clock \in Nat /\ grant \in Nat
             /\ job.amount \in Nat /\ job.gas \in Nat /\ job.price \in Nat
             /\ job.priceAt \in Nat /\ job.by \in Nat /\ job.others \in Nat /\ job.tx \in Nat
<1> SUFFICES ASSUME SwapInv
             PROVE  /\ job \in JobRow /\ clock \in 0 .. MaxClock /\ clock \in Nat /\ grant \in Nat
                    /\ job.amount \in Nat /\ job.gas \in Nat /\ job.price \in Nat
                    /\ job.priceAt \in Nat /\ job.by \in Nat /\ job.others \in Nat /\ job.tx \in Nat
  OBVIOUS
<1>1. job \in JobRow /\ clock \in 0 .. MaxClock /\ grant \in Nat
  BY DEF SwapInv, SwapTyped
<1>2. /\ job.amount \in Amounts \cup {0} /\ job.gas \in Nat /\ job.price \in EthPrice \cup {0}
      /\ job.priceAt \in 0 .. MaxClock /\ job.by \in 0 .. MaxClock + FetchTime + Life
  BY <1>1 DEF JobRow
<1>3. job.amount \in Nat /\ job.price \in Nat
  <2>1. Amounts \cup {0} \subseteq Nat /\ EthPrice \cup {0} \subseteq Nat
    <3>1. Amounts \subseteq Nat /\ EthPrice \subseteq Nat
      BY SwapConstants
    <3>2. {0} \subseteq Nat
      OBVIOUS
    <3> QED
      BY <3>1, <3>2
  <2> QED
    BY <1>2, <2>1
<1>4. job.priceAt \in Nat /\ job.by \in Nat /\ clock \in Nat
  BY <1>1, <1>2, SwapConstants
<1>5. job.others \in Nat /\ job.tx \in Nat
  BY <1>1 DEF JobRow
<1> QED
  BY <1>1, <1>2, <1>3, <1>4, <1>5

\* The chain changes neither the orders nor, but for what others were granted,
\* the job.
LEMMA TxMinedKeeps ==
  ASSUME SwapInv, NEW i \in DOMAIN txs, TxMined(i) PROVE SwapInv'
<1>1. /\ txs[i].state = "broadcast" /\ txs[i].mined = "no"
      /\ UNCHANGED <<clock, ref, gasRows, placed, haltedFor, swapHalt, sent>>
  BY DEF TxMined
<1>2. PICK how \in {"yes", "reverted"} :
        /\ txs' = [txs EXCEPT ![i].mined = how]
        /\ \/ how = "yes" /\ Spent(i)
           \/ how = "yes" /\ Granted(i)
           \/ how = "reverted" /\ UNCHANGED <<grant, job>>
  BY DEF TxMined
<1> DEFINE row == [txs[i] EXCEPT !.mined = how]
<1>3. /\ row \in TxRow /\ row.order = txs[i].order /\ row.purpose = txs[i].purpose
      /\ row.amount = txs[i].amount /\ row.state = txs[i].state /\ row.mined = how
  BY TxType DEF TxRow
<1>4. txs' = [txs EXCEPT ![i] = row]
  BY <1>2
<1> HIDE DEF row
<1>5. /\ txs' \in Seq(TxRow) /\ DOMAIN txs' = DOMAIN txs /\ Len(txs') = Len(txs)
      /\ txs'[i] = row
      /\ \A j \in DOMAIN txs : /\ j # i => txs'[j] = txs[j]
                               /\ txs'[j].order = txs[j].order
                               /\ txs'[j].purpose = txs[j].purpose
                               /\ txs'[j].amount = txs[j].amount
                               /\ (Ours(j)') = Ours(j) /\ (FromBots(j)') = FromBots(j)
  BY <1>3, <1>4, TxChanges
<1>6. \A j \in DOMAIN txs : txs'[j].state = txs[j].state
  BY <1>3, <1>5
<1>7. txs[i].amount \in Nat /\ grant \in Nat /\ job.others \in Nat /\ job \in JobRow
  BY TxFields, JobFields
<1>8. /\ job' \in JobRow /\ job'.at = job.at /\ job'.order = job.order
      /\ job'.amount = job.amount /\ job'.price = job.price /\ job'.priceAt = job.priceAt
      /\ job'.by = job.by /\ job'.quote = job.quote /\ job'.tx = job.tx
      /\ job = NoJob => job' = NoJob
  <2>1. CASE job' = job
    BY <1>7, <2>1
  <2>2. CASE Granted(i)
    <3> DEFINE more == IF FromBots(i) /\ job # NoJob THEN txs[i].amount ELSE 0
    <3>1. job' = [job EXCEPT !.others = more]
      BY <2>2 DEF Granted
    <3>2. more \in Nat /\ (job = NoJob => more = 0)
      BY <1>7
    <3> HIDE DEF more
    <3>3. job = NoJob => job' = NoJob
      BY <3>1, <3>2 DEF NoJob
    <3> QED
      BY <1>7, <3>1, <3>2, <3>3 DEF JobRow
  <2> QED
    BY <1>2, <2>1, <2>2 DEF Spent
<1>9. grant' \in Nat
  <2>1. CASE Spent(i)
    BY <1>7, <2>1 DEF Spent
  <2>2. CASE Granted(i)
    BY <1>7, <2>2 DEF Granted
  <2> QED
    BY <1>2, <1>7, <2>1, <2>2
<1>10. SwapTyped'
  BY <1>1, <1>5, <1>8, <1>9 DEF SwapInv, SwapTyped
<1>11. OnePlacing' /\ PriceAges' /\ QuotePasses' /\ GasBooked'
  <2>1. OnePlacing'
    BY <1>1, <1>5, <1>8 DEF SwapInv, OnePlacing
  <2>2. PriceAges' /\ QuotePasses'
    BY <1>1, <1>8 DEF SwapInv, PriceAges, QuotePasses
  <2>3. GasBooked'
    BY <1>1, <1>5, <1>8 DEF SwapInv, GasBooked
  <2> QED
    BY <2>1, <2>2, <2>3
<1>12. ASSUME NEW most \in Nat, grant <= most \/ grant <= job.others,
              Granted(i) => FromBots(i), job # NoJob
       PROVE  grant' <= most \/ grant' <= job'.others
  <2>1. CASE Spent(i)
    <3>1. grant' = grant - txs[i].amount /\ job' = job
      BY <2>1 DEF Spent
    <3> QED
      BY <1>7, <1>12, <3>1
  <2>2. CASE Granted(i)
    <3>1. FromBots(i) /\ grant' = txs[i].amount
      BY <1>12, <2>2 DEF Granted
    <3>2. job' = [job EXCEPT !.others = txs[i].amount]
      BY <1>12, <2>2, <3>1 DEF Granted
    <3>3. job'.others = txs[i].amount
      BY <1>7, <3>2 DEF JobRow
    <3> QED
      BY <1>7, <3>1, <3>3
  <2>3. CASE UNCHANGED <<grant, job>>
    BY <1>12, <2>3
  <2> QED
    BY <1>2, <2>1, <2>2, <2>3
<1>13. GrantedExactly'
  <2>1. \A j \in DOMAIN txs' :
          Ours(j)' /\ txs'[j].state # "confirmed" =>
            /\ swapHalt' \/ (job'.at = "mining" /\ j = job'.tx)
            /\ job'.at # "idle" => job'.at = "mining" /\ j = job'.tx
    BY <1>1, <1>5, <1>6, <1>8 DEF SwapInv, GrantedExactly
  <2>2. job'.at = "mining" =>
          /\ job'.tx \in DOMAIN txs'
          /\ txs'[job'.tx].purpose = "allowance" /\ txs'[job'.tx].order = job'.order
          /\ txs'[job'.tx].amount \in {0, job'.amount}
    BY <1>5, <1>8 DEF SwapInv, GrantedExactly
  <2>3. ASSUME job'.at = "mining", txs'[job'.tx].mined = "yes"
        PROVE  grant' <= txs'[job'.tx].amount \/ grant' <= job'.others
    <3>1. /\ job.at = "mining" /\ job.tx \in DOMAIN txs
          /\ txs'[job'.tx].amount = txs[job.tx].amount /\ txs[job.tx].amount \in Nat
      BY <1>5, <1>8, <2>3, TxFields DEF SwapInv, GrantedExactly
    <3>2. CASE i = job.tx
      <4>1. how = "yes" /\ txs[i].purpose = "allowance"
        BY <1>3, <1>5, <1>8, <2>3, <3>1, <3>2 DEF SwapInv, GrantedExactly
      <4>2. Granted(i)
        BY <1>2, <4>1 DEF Spent
      <4>3. grant' = txs[i].amount
        BY <4>2 DEF Granted
      <4> QED
        BY <1>7, <3>1, <3>2, <4>3
    <3>3. CASE i # job.tx
      <4>1. txs[job.tx].mined = "yes"
        BY <1>5, <1>8, <2>3, <3>1, <3>3
      <4>2. grant <= txs[job.tx].amount \/ grant <= job.others
        BY <3>1, <4>1 DEF SwapInv, GrantedExactly
      <4>3. Granted(i) => FromBots(i)
        BY <1>1, <3>1, <3>3 DEF SwapInv, GrantedExactly, Granted, Ours
      <4>4. job # NoJob
        BY <3>1, NoJobType
      <4> QED
        BY <1>12, <3>1, <4>2, <4>3, <4>4
    <3> QED
      BY <3>2, <3>3
  <2>4. ASSUME job'.at \in {"checks", "quote", "settler", "submit"}
        PROVE  grant' <= job'.amount \/ grant' <= job'.others
    <3>1. job.at \in {"checks", "quote", "settler", "submit"}
      BY <1>8, <2>4
    <3>2. grant <= job.amount \/ grant <= job.others
      BY <3>1 DEF SwapInv, GrantedExactly
    <3>3. Granted(i) => FromBots(i)
      BY <1>1, <3>1 DEF SwapInv, GrantedExactly, Granted, Ours
    <3>4. job.amount \in Nat /\ job # NoJob
      BY <3>1, JobFields, NoJobType
    <3> QED
      BY <1>8, <1>12, <3>2, <3>3, <3>4
  <2> QED
    BY <2>1, <2>2, <2>3, <2>4 DEF GrantedExactly
<1>14. SentSound'
  BY <1>1 DEF SwapInv, SentSound, EdgeFresh, NoLargerGrant, GuaranteeHolds
<1> QED
  BY <1>10, <1>11, <1>13, <1>14 DEF SwapInv

LEMMA TxRecoveredKeeps ==
  ASSUME SwapInv, NEW i \in DOMAIN txs, TxRecovered(i) PROVE SwapInv'
<1>1. /\ txs' = [txs EXCEPT ![i].state = "confirmed"]
      /\ UNCHANGED <<clock, ref, grant, gasRows, job, placed, haltedFor, swapHalt, sent>>
  BY DEF TxRecovered
<1> DEFINE row == [txs[i] EXCEPT !.state = "confirmed"]
<1>2. /\ row \in TxRow /\ row.order = txs[i].order /\ row.purpose = txs[i].purpose
      /\ row.amount = txs[i].amount /\ row.state = "confirmed" /\ row.mined = txs[i].mined
  BY TxType DEF TxRow
<1>3. txs' = [txs EXCEPT ![i] = row]
  BY <1>1
<1> HIDE DEF row
<1>4. /\ txs' \in Seq(TxRow) /\ DOMAIN txs' = DOMAIN txs /\ Len(txs') = Len(txs)
      /\ txs'[i] = row
      /\ \A j \in DOMAIN txs : /\ j # i => txs'[j] = txs[j]
                               /\ txs'[j].order = txs[j].order
                               /\ txs'[j].purpose = txs[j].purpose
                               /\ txs'[j].amount = txs[j].amount
                               /\ (Ours(j)') = Ours(j) /\ (FromBots(j)') = FromBots(j)
  BY <1>2, <1>3, TxChanges
<1>5. \A j \in DOMAIN txs : /\ txs'[j].mined = txs[j].mined
                            /\ txs'[j].state # "confirmed" => txs[j].state # "confirmed"
  BY <1>2, <1>4
<1>6. SwapTyped' /\ OnePlacing' /\ PriceAges' /\ QuotePasses' /\ GasBooked'
  BY <1>1, <1>4 DEF SwapInv, SwapTyped, OnePlacing, PriceAges, QuotePasses, GasBooked
<1>7. GrantedExactly'
  BY <1>1, <1>4, <1>5 DEF SwapInv, GrantedExactly
<1>8. SentSound'
  BY <1>1 DEF SwapInv, SentSound, EdgeFresh, NoLargerGrant, GuaranteeHolds
<1> QED
  BY <1>6, <1>7, <1>8 DEF SwapInv
-----------------------------------------------------------------------------
(* The job.                                                                 *)

\* A job that ends: its order leaves the placing state, and whoever left an
\* approval open halts the network.
LEMMA JobEnds ==
  ASSUME SwapInv, job.at # "idle", job' = NoJob,
         UNCHANGED <<clock, ref, grant, txs, gasRows>>, SentSound',
         NEW how \in {"sent", "risk_rejected", "lost"},
         placed' = [placed EXCEPT ![job.order] = how],
         haltedFor' \subseteq SwapOrder, haltedFor \subseteq haltedFor', swapHalt' \in BOOLEAN,
         swapHalt => swapHalt',
         \A i \in DOMAIN txs : Ours(i) /\ txs[i].state # "confirmed" => swapHalt',
         \A i \in DOMAIN txs :
           Ours(i) /\ txs[i].order = job.order /\ i \notin gasRows =>
             job.order \in haltedFor' \/ how = "lost"
  PROVE  SwapInv'
<1>1. job.order \in SwapOrder
  BY DEF SwapInv, OnePlacing
<1>2. placed' \in [SwapOrder -> {"none", "placing", "sent", "risk_rejected", "lost"}]
      /\ placed'[job.order] = how /\ \A o \in SwapOrder : o # job.order => placed'[o] = placed[o]
  BY <1>1 DEF SwapInv, SwapTyped
<1>3. SwapTyped'
  BY <1>2, NoJobType DEF SwapInv, SwapTyped
<1>4. /\ \A i \in DOMAIN txs : ~FromBots(i) => txs[i].order \in SwapOrder
      /\ \A i : (Ours(i)') = Ours(i) /\ (FromBots(i)') = FromBots(i)
  BY TxType DEF TxRow, FromBots, Ours
<1>5. OnePlacing'
  <2>1. \A o \in SwapOrder : placed'[o] # "placing"
    BY <1>2 DEF SwapInv, OnePlacing
  <2>2. \A i \in DOMAIN txs : ~FromBots(i) => placed'[txs[i].order] # "none"
    BY <1>2, <1>4 DEF SwapInv, OnePlacing
  <2> QED
    BY <1>4, <2>1, <2>2, NoJobType DEF OnePlacing
<1>6. PriceAges' /\ QuotePasses' /\ GrantedExactly'
  BY <1>4, NoJobType DEF PriceAges, QuotePasses, GrantedExactly
<1>7. GasBooked'
  <2> SUFFICES ASSUME NEW i \in DOMAIN txs, Ours(i), i \notin gasRows
               PROVE  txs[i].order \in haltedFor' \/ placed'[txs[i].order] \in {"placing", "lost"}
    BY <1>4, NoJobType DEF GasBooked
  <2>1. CASE txs[i].order = job.order
    BY <1>2, <2>1
  <2>2. CASE txs[i].order # job.order
    <3>1. placed'[txs[i].order] = placed[txs[i].order]
      BY <1>2, <1>4, <2>2 DEF Ours
    <3> QED
      BY <3>1 DEF SwapInv, GasBooked
  <2> QED
    BY <2>1, <2>2
<1> QED
  BY <1>3, <1>5, <1>6, <1>7 DEF SwapInv

LEMMA SentStays ==
  SwapInv /\ UNCHANGED sent => SentSound'
  BY DEF SwapInv, SentSound, EdgeFresh, NoLargerGrant, GuaranteeHolds

LEMMA RefuseKeeps ==
  ASSUME SwapInv, job.at # "idle", Refuse, UNCHANGED <<clock, ref, grant, txs, gasRows, sent>>
  PROVE  SwapInv'
<1> USE DEF Refuse
<1>1. job.order \in SwapOrder /\ swapHalt \in BOOLEAN /\ haltedFor \subseteq SwapOrder
  BY DEF SwapInv, SwapTyped, OnePlacing
<1>2. /\ haltedFor' \subseteq SwapOrder /\ haltedFor \subseteq haltedFor' /\ swapHalt' \in BOOLEAN
      /\ swapHalt => swapHalt'
  BY <1>1
<1>3. \A i \in DOMAIN txs : Ours(i) /\ txs[i].state # "confirmed" => swapHalt'
  <2> SUFFICES ASSUME NEW i \in DOMAIN txs, Ours(i), txs[i].state # "confirmed"
               PROVE  swapHalt'
    OBVIOUS
  <2>1. swapHalt \/ HasChild(job.order)
    BY DEF SwapInv, GrantedExactly, HasChild
  <2> QED
    BY <1>2, <2>1
<1>4. \A i \in DOMAIN txs :
        Ours(i) /\ txs[i].order = job.order /\ i \notin gasRows => job.order \in haltedFor'
  BY DEF HasChild
<1> QED
  BY <1>2, <1>3, <1>4, SentStays, JobEnds

LEMMA SwapDiesKeeps == SwapInv /\ SwapDies => SwapInv'
<1> SUFFICES ASSUME SwapInv, SwapDies PROVE SwapInv'
  OBVIOUS
<1> USE DEF SwapDies
<1>1. job.at # "idle" /\ swapHalt \in BOOLEAN /\ haltedFor \subseteq SwapOrder
  BY DEF SwapInv, SwapTyped, OnePlacing
<1>2. swapHalt' \in BOOLEAN /\ (swapHalt => swapHalt') /\ (Unresolved => swapHalt')
  <2>1. CASE Unresolved
    BY <2>1
  <2>2. CASE ~Unresolved
    <3>1. swapHalt' = swapHalt \/ swapHalt' = TRUE
      BY <2>2
    <3> QED
      BY <1>1, <2>2, <3>1
  <2> QED
    BY <2>1, <2>2
<1>3. \A i \in DOMAIN txs : Ours(i) /\ txs[i].state # "confirmed" => swapHalt'
  BY <1>2 DEF Unresolved
<1> QED
  BY <1>1, <1>2, <1>3, SentStays, JobEnds

LEMMA EnabledKeeps == SwapInv /\ Enabled => SwapInv'
<1> SUFFICES ASSUME SwapInv, Enabled PROVE SwapInv'
  OBVIOUS
<1> USE DEF Enabled
<1>1. SwapTyped' /\ OnePlacing' /\ PriceAges' /\ QuotePasses' /\ GasBooked'
  BY DEF SwapInv, SwapTyped, OnePlacing, PriceAges, QuotePasses, GasBooked, Ours, FromBots
<1>2. GrantedExactly'
  BY DEF SwapInv, GrantedExactly, Unresolved, Ours, FromBots
<1> QED
  BY <1>1, <1>2, SentStays DEF SwapInv

LEMMA OthersHaltKeeps == SwapInv /\ OthersHalt => SwapInv'
<1> SUFFICES ASSUME SwapInv, OthersHalt PROVE SwapInv'
  OBVIOUS
<1> USE DEF OthersHalt
<1>1. SwapTyped' /\ OnePlacing' /\ PriceAges' /\ QuotePasses' /\ GasBooked'
  BY DEF SwapInv, SwapTyped, OnePlacing, PriceAges, QuotePasses, GasBooked, Ours, FromBots
<1>2. GrantedExactly'
  BY DEF SwapInv, GrantedExactly, Ours, FromBots
<1> QED
  BY <1>1, <1>2, SentStays DEF SwapInv

LEMMA PlaceKeeps ==
  ASSUME SwapInv, NEW o \in SwapOrder, NEW amount \in Amounts, PlaceStarts(o, amount)
  PROVE  SwapInv'
<1> USE DEF PlaceStarts
<1>1. UNCHANGED <<clock, ref, grant, txs, gasRows, haltedFor, swapHalt, sent>>
      /\ job = NoJob /\ job.at = "idle" /\ ~swapHalt /\ placed[o] = "none"
  BY NoJobType
<1>2. /\ job' \in JobRow /\ job'.at = "allowance" /\ job'.order = o /\ job'.amount = amount
  <2> DEFINE row == [job EXCEPT !.at = "allowance", !.order = o, !.amount = amount]
  <2>1. row \in JobRow /\ row.at = "allowance" /\ row.order = o /\ row.amount = amount
    BY JobFields DEF JobRow
  <2>2. job' = row
    BY <1>1
  <2> HIDE DEF row
  <2> QED
    BY <2>1, <2>2
<1>3. placed' \in [SwapOrder -> {"none", "placing", "sent", "risk_rejected", "lost"}]
      /\ placed'[o] = "placing" /\ \A p \in SwapOrder : p # o => placed'[p] = placed[p]
  BY DEF SwapInv, SwapTyped
<1>4. SwapTyped'
  BY <1>1, <1>2, <1>3 DEF SwapInv, SwapTyped
<1>5. /\ \A i \in DOMAIN txs : ~FromBots(i) => txs[i].order \in SwapOrder /\ txs[i].order # o
      /\ \A i : (Ours(i)') = Ours(i) /\ (FromBots(i)') = FromBots(i)
  BY <1>1, TxType DEF TxRow, SwapInv, OnePlacing, FromBots, Ours
<1>6. OnePlacing'
  BY <1>1, <1>2, <1>3, <1>5 DEF SwapInv, OnePlacing
<1>7. PriceAges' /\ QuotePasses'
  BY <1>2 DEF PriceAges, QuotePasses
<1>8. GrantedExactly'
  BY <1>1, <1>2, <1>5 DEF SwapInv, GrantedExactly
<1>9. GasBooked'
  BY <1>1, <1>2, <1>3, <1>5 DEF SwapInv, GasBooked, Ours
<1> QED
  BY <1>1, <1>4, <1>6, <1>7, <1>8, <1>9, SentStays DEF SwapInv

\* The job goes on without a transaction.
LEMMA JobGoesOn ==
  ASSUME SwapInv, job.at \notin {"idle", "mining"},
         UNCHANGED <<clock, ref, grant, txs, gasRows, placed, haltedFor, swapHalt, sent>>,
         job' \in JobRow, job'.order = job.order, job'.amount = job.amount,
         job'.at \notin {"idle", "mining"},
         job'.at \in {"checks", "quote", "settler", "submit"} =>
           grant <= job.amount \/ grant <= job'.others,
         PriceAges', QuotePasses'
  PROVE  SwapInv'
<1>1. SwapTyped'
  BY DEF SwapInv, SwapTyped
<1>2. OnePlacing'
  BY DEF SwapInv, OnePlacing, FromBots
<1>3. GrantedExactly'
  BY DEF SwapInv, GrantedExactly, Ours, FromBots
<1>4. GasBooked'
  BY DEF SwapInv, GasBooked, Ours, FromBots
<1> QED
  BY <1>1, <1>2, <1>3, <1>4, SentStays DEF SwapInv

LEMMA AllowanceReadKeeps == SwapInv /\ AllowanceRead => SwapInv'
<1> SUFFICES ASSUME SwapInv, AllowanceRead PROVE SwapInv'
  OBVIOUS
<1> USE DEF AllowanceRead
<1> DEFINE to == IF Suffices(grant, job.amount) THEN "checks"
                 ELSE IF grant > 0 THEN "reset" ELSE "exact"
           row == [job EXCEPT !.others = 0, !.at = to]
<1>1. to \in {"checks", "reset", "exact"} /\ (to = "checks" => grant = job.amount)
  BY DEF Suffices
<1>2. job' = row
  OBVIOUS
<1> HIDE DEF to
<1>3. row \in JobRow /\ row.at = to /\ row.order = job.order /\ row.amount = job.amount
  BY <1>1, JobFields DEF JobRow
<1> HIDE DEF row
<1>4. PriceAges' /\ QuotePasses'
  BY <1>1, <1>2, <1>3 DEF PriceAges, QuotePasses
<1>5. job'.at \in {"checks", "quote", "settler", "submit"} =>
        grant <= job.amount \/ grant <= job'.others
  <2>1. to = "checks" => grant <= job.amount
    BY <1>1, JobFields
  <2> QED
    BY <1>1, <1>2, <1>3, <2>1
<1> QED
  BY <1>1, <1>2, <1>3, <1>4, <1>5, JobGoesOn

LEMMA FinalGatesKeeps == SwapInv /\ FinalGates => SwapInv'
<1> SUFFICES ASSUME SwapInv, FinalGates PROVE SwapInv'
  OBVIOUS
<1> USE DEF FinalGates, Checked
<1> DEFINE row == [job EXCEPT !.at = "quote", !.price = ref.price, !.priceAt = ref.at,
                              !.by = clock + FetchTime]
<1>1. job' = row /\ clock - ref.at <= StaleAge
  BY DEF Usable, Age
<1>2. ref.price \in EthPrice /\ ref.at \in 0 .. MaxClock /\ ref.at \in Nat
  BY SwapConstants DEF SwapInv, SwapTyped
<1>3. clock + FetchTime \in 0 .. MaxClock + FetchTime + Life
  BY JobFields, SwapConstants
<1>4. /\ row \in JobRow /\ row.at = "quote" /\ row.order = job.order /\ row.amount = job.amount
      /\ row.by = clock + FetchTime /\ row.priceAt = ref.at /\ row.others = job.others
  BY <1>2, <1>3, JobFields DEF JobRow
<1> HIDE DEF row
<1>5. PriceAges'
  <2>1. clock <= clock + FetchTime /\ clock + FetchTime <= ref.at + StaleAge + FetchTime
    BY <1>1, <1>2, JobFields, SwapConstants
  <2> QED
    BY <1>1, <1>4, <2>1 DEF PriceAges
<1>6. QuotePasses'
  BY <1>1, <1>4 DEF QuotePasses
<1>7. grant <= job.amount \/ grant <= job.others
  BY DEF SwapInv, GrantedExactly
<1> QED
  BY <1>1, <1>4, <1>5, <1>6, <1>7, JobGoesOn

LEMMA QuoteArrivesKeeps ==
  ASSUME SwapInv, NEW q \in Quote, QuoteArrives(q) PROVE SwapInv'
<1> USE DEF QuoteArrives
<1> DEFINE row == [job EXCEPT !.at = "settler", !.quote = q, !.by = clock + Life]
<1>1. job' = row
  OBVIOUS
<1>2. clock + Life \in 0 .. MaxClock + FetchTime + Life
  BY JobFields, SwapConstants
<1>3. /\ row \in JobRow /\ row.at = "settler" /\ row.order = job.order
      /\ row.amount = job.amount /\ row.quote = q
      /\ row.by = clock + Life /\ row.priceAt = job.priceAt /\ row.others = job.others
  BY <1>2, JobFields DEF JobRow
<1> HIDE DEF row
<1>4. PriceAges'
  <2>1. clock <= job.priceAt + StaleAge + FetchTime
    <3>1. clock <= job.by /\ job.by <= job.priceAt + StaleAge + FetchTime
      BY DEF SwapInv, PriceAges
    <3> QED
      BY <3>1, JobFields, SwapConstants
  <2>2. clock + Life <= job.priceAt + StaleAge + FetchTime + Life
    BY <2>1, JobFields, SwapConstants
  <2> QED
    BY <1>1, <1>3, <2>2 DEF PriceAges
<1>5. QuotePasses'
  BY <1>1, <1>3 DEF QuotePasses
<1>6. grant <= job.amount \/ grant <= job.others
  BY DEF SwapInv, GrantedExactly
<1> QED
  BY <1>1, <1>3, <1>4, <1>5, <1>6, JobGoesOn

LEMMA SettlerKeeps == SwapInv /\ SettlerRead => SwapInv'
<1> SUFFICES ASSUME SwapInv, SettlerRead PROVE SwapInv'
  OBVIOUS
<1> USE DEF SettlerRead
<1> DEFINE row == [job EXCEPT !.at = "submit"]
<1>1. job' = row /\ NetEdge > 0
  OBVIOUS
<1>2. /\ row \in JobRow /\ row.at = "submit" /\ row.order = job.order /\ row.price = job.price
      /\ row.amount = job.amount /\ row.quote = job.quote
      /\ row.by = job.by /\ row.priceAt = job.priceAt /\ row.others = job.others
  BY JobFields DEF JobRow
<1> HIDE DEF row
<1>3. job.quote \in Quote /\ VerifyQuote(job.quote)
  BY DEF SwapInv, QuotePasses
<1>4. job.quote.callMin * job.price > job.amount
  <2>1. job.quote.callMin = job.quote.min /\ job.quote.min \in Nat
    BY <1>3, SwapConstants DEF VerifyQuote, Quote
  <2>2. job.quote.min * job.price \in Int
    BY <2>1, JobFields
  <2> QED
    BY <1>1, <2>1, <2>2, JobFields DEF NetEdge
<1>5. QuotePasses'
  BY <1>1, <1>2, <1>3, <1>4 DEF QuotePasses
<1>6. PriceAges'
  BY <1>1, <1>2 DEF PriceAges, SwapInv
<1>7. grant <= job.amount \/ grant <= job.others
  BY DEF SwapInv, GrantedExactly
<1> QED
  BY <1>1, <1>2, <1>5, <1>6, <1>7, JobGoesOn
-----------------------------------------------------------------------------
(* Its transactions.                                                        *)

LEMMA TxAppends ==
  ASSUME SwapInv, NEW row \in TxRow, txs' = Append(txs, row)
  PROVE  /\ txs' \in Seq(TxRow) /\ Len(txs') = Len(txs) + 1
         /\ DOMAIN txs' = DOMAIN txs \cup {Len(txs')} /\ Len(txs') \notin DOMAIN txs
         /\ txs'[Len(txs')] = row /\ \A i \in DOMAIN txs : txs'[i] = txs[i]
         /\ \A i \in DOMAIN txs : (Ours(i)') = Ours(i) /\ (FromBots(i)') = FromBots(i)
<1>1. /\ txs' \in Seq(TxRow) /\ Len(txs') = Len(txs) + 1
      /\ DOMAIN txs' = DOMAIN txs \cup {Len(txs')} /\ Len(txs') \notin DOMAIN txs
      /\ txs'[Len(txs')] = row /\ \A i \in DOMAIN txs : txs'[i] = txs[i]
  BY TxType
<1>2. \A i \in DOMAIN txs : (Ours(i)') = Ours(i) /\ (FromBots(i)') = FromBots(i)
  BY <1>1 DEF Ours, FromBots
<1> QED
  BY <1>1, <1>2

LEMMA ApproveKeeps == SwapInv /\ Approve => SwapInv'
<1> SUFFICES ASSUME SwapInv, Approve PROVE SwapInv'
  OBVIOUS
<1> USE DEF Approve
<1>1. /\ UNCHANGED <<clock, ref, grant, gasRows, placed, haltedFor, swapHalt, sent>>
      /\ job.at \in {"reset", "exact"} /\ ~Unresolved
  BY DEF Submitted
<1> DEFINE place == Len(txs')
           what == IF job.at = "reset" THEN 0 ELSE job.amount
           row == [order |-> job.order, purpose |-> "allowance", amount |-> what,
                   state |-> "broadcast", mined |-> "no"]
           next == [job EXCEPT !.at = "mining", !.tx = place]
<1>2. txs' = Append(txs, row) /\ job' = next
  BY DEF Submitted
<1>3. /\ place \in Nat => next \in JobRow
      /\ next.at = "mining" /\ next.order = job.order
      /\ next.amount = job.amount /\ next.tx = place
  BY JobFields DEF JobRow
<1>4. job.order \in SwapOrder /\ job.amount \in Amounts /\ placed[job.order] = "placing"
  BY <1>1 DEF SwapInv, OnePlacing
<1>5. row \in TxRow /\ what \in {0, job.amount}
  BY <1>4 DEF TxRow
<1> HIDE DEF next
<1>6. /\ txs' \in Seq(TxRow) /\ Len(txs') = Len(txs) + 1
      /\ DOMAIN txs' = DOMAIN txs \cup {Len(txs')} /\ Len(txs') \notin DOMAIN txs
      /\ txs'[Len(txs')] = row /\ \A i \in DOMAIN txs : txs'[i] = txs[i]
      /\ \A i \in DOMAIN txs : (Ours(i)') = Ours(i) /\ (FromBots(i)') = FromBots(i)
  <2> HIDE DEF row
  <2> QED
    BY <1>2, <1>5, TxAppends
<1>7. /\ txs'[Len(txs')].order = job.order /\ txs'[Len(txs')].purpose = "allowance"
      /\ txs'[Len(txs')].amount = what /\ txs'[Len(txs')].mined = "no"
  BY <1>6
<1>8. place \in DOMAIN txs' /\ place = Len(txs') /\ place \in Nat
  BY <1>6, TxType
<1>9. /\ job' \in JobRow /\ job'.at = "mining" /\ job'.order = job.order
      /\ job'.amount = job.amount /\ job'.tx = Len(txs')
  BY <1>2, <1>3, <1>8
<1> HIDE DEF row, what, place
<1>10. SwapTyped'
  BY <1>1, <1>6, <1>9 DEF SwapInv, SwapTyped
<1>11. OnePlacing'
  BY <1>1, <1>4, <1>6, <1>7, <1>9 DEF SwapInv, OnePlacing
<1>12. PriceAges' /\ QuotePasses'
  BY <1>9 DEF PriceAges, QuotePasses
<1>13. GrantedExactly'
  <2>1. \A i \in DOMAIN txs' : i # Len(txs') => txs'[i].state = "confirmed"
    BY <1>1, <1>6 DEF Unresolved
  <2> QED
    BY <1>5, <1>6, <1>7, <1>9, <2>1 DEF GrantedExactly
<1>14. GasBooked'
  <2>1. \A i \in DOMAIN txs' :
          Ours(i)' /\ i \notin gasRows =>
            txs'[i].order \in haltedFor \/ placed[txs'[i].order] \in {"placing", "lost"}
    BY <1>4, <1>6, <1>7 DEF SwapInv, GasBooked
  <2>2. \A i \in DOMAIN txs' :
          Ours(i)' /\ txs'[i].order = job.order /\ i \notin gasRows => i = Len(txs')
    BY <1>1, <1>6, <1>7 DEF SwapInv, GasBooked
  <2> QED
    BY <1>1, <1>9, <2>1, <2>2 DEF GasBooked
<1> QED
  BY <1>1, <1>10, <1>11, <1>12, <1>13, <1>14, SentStays DEF SwapInv

LEMMA BotSendsKeeps ==
  ASSUME SwapInv, NEW purpose \in {"allowance", "swap"}, NEW amount \in Amounts,
         BotSends(purpose, amount)
  PROVE  SwapInv'
<1> DEFINE row == [order |-> BotOrder, purpose |-> purpose, amount |-> amount,
                   state |-> "broadcast", mined |-> "no"]
<1>1. /\ UNCHANGED <<clock, ref, grant, gasRows, job, placed, haltedFor, swapHalt, sent>>
      /\ txs' = Append(txs, row)
  BY DEF BotSends, Submitted
<1>2. row.order = BotOrder
  OBVIOUS
<1>3. row \in TxRow
  BY DEF TxRow
<1> HIDE DEF row
<1>4. /\ txs' \in Seq(TxRow) /\ Len(txs') = Len(txs) + 1
      /\ DOMAIN txs' = DOMAIN txs \cup {Len(txs')} /\ Len(txs') \notin DOMAIN txs
      /\ txs'[Len(txs')] = row /\ \A i \in DOMAIN txs : txs'[i] = txs[i]
      /\ \A i \in DOMAIN txs : (Ours(i)') = Ours(i) /\ (FromBots(i)') = FromBots(i)
  BY <1>1, <1>3, TxAppends
<1>5. FromBots(Len(txs))' /\ ~(Ours(Len(txs))')
  BY <1>2, <1>4 DEF FromBots, Ours
<1>6. SwapTyped'
  BY <1>1, <1>4 DEF SwapInv, SwapTyped
<1>7. OnePlacing'
  BY <1>1, <1>4, <1>5 DEF SwapInv, OnePlacing
<1>8. PriceAges' /\ QuotePasses'
  BY <1>1 DEF SwapInv, PriceAges, QuotePasses
<1>9. GrantedExactly'
  BY <1>1, <1>4, <1>5 DEF SwapInv, GrantedExactly
<1>10. GasBooked'
  BY <1>1, <1>4, <1>5 DEF SwapInv, GasBooked
<1> QED
  BY <1>1, <1>6, <1>7, <1>8, <1>9, <1>10, SentStays DEF SwapInv

LEMMA ReceiptKeeps == SwapInv /\ ReceiptSeen => SwapInv'
<1> SUFFICES ASSUME SwapInv, ReceiptSeen PROVE SwapInv'
  OBVIOUS
<1> DEFINE i == job.tx
           to == IF txs[i].amount = 0 THEN "exact" ELSE "checks"
           row == [txs[i] EXCEPT !.state = "confirmed"]
           next == [job EXCEPT !.gas = @ + 1, !.at = to]
<1>1. /\ UNCHANGED <<clock, ref, grant, placed, haltedFor, swapHalt, sent>>
      /\ job.at = "mining" /\ txs[i].mined = "yes"
      /\ txs' = [txs EXCEPT ![i] = row]
      /\ gasRows' = gasRows \cup {i} /\ job' = next
  BY DEF ReceiptSeen
<1>2. /\ i \in DOMAIN txs /\ txs[i].order = job.order /\ txs[i].amount \in {0, job.amount}
      /\ grant <= txs[i].amount \/ grant <= job.others
  BY <1>1 DEF SwapInv, GrantedExactly
<1>3. /\ row \in TxRow /\ row.order = txs[i].order /\ row.purpose = txs[i].purpose
      /\ row.amount = txs[i].amount /\ row.state = "confirmed"
  BY <1>2, TxType DEF TxRow
<1> HIDE DEF row, i
<1>4. /\ txs' \in Seq(TxRow) /\ DOMAIN txs' = DOMAIN txs /\ Len(txs') = Len(txs)
      /\ txs'[i] = row
      /\ \A j \in DOMAIN txs : /\ j # i => txs'[j] = txs[j]
                               /\ txs'[j].order = txs[j].order
                               /\ txs'[j].purpose = txs[j].purpose
                               /\ txs'[j].amount = txs[j].amount
                               /\ (Ours(j)') = Ours(j) /\ (FromBots(j)') = FromBots(j)
  BY <1>1, <1>2, <1>3, TxChanges
<1>5. /\ to \in {"exact", "checks"}
      /\ to = "checks" => grant <= job.amount \/ grant <= job.others
  BY <1>2
<1> HIDE DEF to
<1>6. /\ next \in JobRow /\ next.at = to /\ next.order = job.order /\ next.amount = job.amount
      /\ next.others = job.others
  <2> DEFINE more == job.gas + 1
  <2>1. more \in Nat /\ job \in JobRow
    BY JobFields
  <2>2. next = [job EXCEPT !.gas = more, !.at = to]
    OBVIOUS
  <2> HIDE DEF more, next
  <2> QED
    BY <1>5, <2>1, <2>2 DEF JobRow
<1> HIDE DEF next
<1>7. \A j \in DOMAIN txs' : Ours(j)' => txs'[j].state = "confirmed"
  <2>1. \A j \in DOMAIN txs : Ours(j) /\ j # i => txs[j].state = "confirmed"
    BY <1>1 DEF SwapInv, GrantedExactly, i
  <2> QED
    BY <1>3, <1>4, <2>1
<1>8. SwapTyped'
  BY <1>1, <1>2, <1>4, <1>6 DEF SwapInv, SwapTyped
<1>9. OnePlacing'
  BY <1>1, <1>4, <1>5, <1>6 DEF SwapInv, OnePlacing
<1>10. PriceAges' /\ QuotePasses'
  BY <1>1, <1>5, <1>6 DEF PriceAges, QuotePasses
<1>11. GrantedExactly'
  BY <1>1, <1>5, <1>6, <1>7 DEF GrantedExactly
<1>12. GasBooked'
  <2>1. \A j \in DOMAIN txs :
          Ours(j) /\ txs[j].order = job.order /\ j \notin gasRows => j = i
    BY <1>1 DEF SwapInv, GasBooked, i
  <2> QED
    BY <1>1, <1>4, <1>6, <2>1 DEF SwapInv, GasBooked
<1> QED
  BY <1>1, <1>8, <1>9, <1>10, <1>11, <1>12, SentStays DEF SwapInv

\* What a verified quote guarantees.
LEMMA Floor ==
  ASSUME NEW a \in Int, NEW b \in Nat, b # 0, NEW m \in Nat, a \div b <= m
  PROVE  a < b * (m + 1)
<1> DEFINE d == a \div b
           r == a % b
<1>1. d \in Int /\ r \in 0 .. b - 1 /\ a = b * d + r
  OBVIOUS
<1> HIDE DEF d, r
<1>2. a < b * d + b
  <2>1. b * d \in Int
    BY <1>1
  <2> QED
    BY <1>1, <2>1
<1>3. b * d <= b * m
  <2>1. d <= m
    BY DEF d
  <2> QED
    BY <1>1, <2>1
<1>4. b * (m + 1) = b * m + b /\ b * m \in Int /\ b * d \in Int
  BY <1>1
<1> QED
  BY <1>2, <1>3, <1>4

LEMMA Guaranteed ==
  ASSUME NEW q \in Quote, VerifyQuote(q)
  PROVE  q.callMin * Scale > q.buy * (Scale - MaxSlip - 1)
<1>1. q.buy \in Nat /\ q.buy # 0 /\ q.min \in Nat /\ q.callMin = q.min
  BY SwapConstants DEF Quote, VerifyQuote
<1>2. ((q.buy - q.min) * Scale) \div q.buy <= MaxSlip
  BY DEF VerifyQuote, WithinSlip
<1> DEFINE b == q.buy
           m == q.min
<1>3. b \in Nat /\ b # 0 /\ m \in Nat /\ Scale \in Nat /\ MaxSlip \in Nat
  BY <1>1, SwapConstants
<1>4. ((b - m) * Scale) \div b <= MaxSlip
  BY <1>2
<1> HIDE DEF b, m
<1>5. (b - m) * Scale \in Int
  BY <1>3
<1>6. (b - m) * Scale < b * (MaxSlip + 1)
  BY <1>3, <1>4, <1>5, Floor
<1>7. (b - m) * Scale = b * Scale - m * Scale
  BY <1>3
<1>8. b * (Scale - MaxSlip - 1) = b * Scale - b * (MaxSlip + 1)
  BY <1>3
<1>9. b * Scale \in Int /\ m * Scale \in Int /\ b * (MaxSlip + 1) \in Int
  BY <1>3
<1>10. m * Scale > b * (Scale - MaxSlip - 1)
  BY <1>6, <1>7, <1>8, <1>9
<1> QED
  BY <1>1, <1>10 DEF b, m

LEMMA SwapSentKeeps == SwapInv /\ SwapSent => SwapInv'
<1> SUFFICES ASSUME SwapInv, SwapSent PROVE SwapInv'
  OBVIOUS
<1> USE DEF SwapSent
<1> DEFINE row == [order |-> job.order, purpose |-> "swap", amount |-> job.amount,
                   state |-> "broadcast", mined |-> "no"]
<1>1. /\ UNCHANGED <<clock, ref, grant, gasRows, haltedFor, swapHalt>>
      /\ job.at = "submit" /\ clock < job.by /\ ~Unresolved
      /\ txs' = Append(txs, row) /\ job' = NoJob
      /\ placed' = [placed EXCEPT ![job.order] = "sent"]
      /\ sent' = [amount |-> job.amount, at |-> clock, price |-> job.price,
                  priceAt |-> job.priceAt, quote |-> job.quote, grant |-> grant, others |-> job.others]
  BY DEF Submitted
<1>2. job.order \in SwapOrder /\ job.amount \in Amounts
  BY <1>1 DEF SwapInv, OnePlacing
<1>3. row \in TxRow
  BY <1>2 DEF TxRow
<1>4. row.purpose = "swap" /\ row.order = job.order
  OBVIOUS
<1> HIDE DEF row
<1>5. /\ txs' \in Seq(TxRow) /\ Len(txs') = Len(txs) + 1
      /\ DOMAIN txs' = DOMAIN txs \cup {Len(txs')} /\ Len(txs') \notin DOMAIN txs
      /\ txs'[Len(txs')] = row /\ \A i \in DOMAIN txs : txs'[i] = txs[i]
      /\ \A i \in DOMAIN txs : (Ours(i)') = Ours(i) /\ (FromBots(i)') = FromBots(i)
  BY <1>1, <1>3, TxAppends
<1>6. placed' \in [SwapOrder -> {"none", "placing", "sent", "risk_rejected", "lost"}]
      /\ placed'[job.order] = "sent"
      /\ \A o \in SwapOrder : o # job.order => placed'[o] = placed[o]
  BY <1>1, <1>2 DEF SwapInv, SwapTyped
<1>7. SwapTyped'
  BY <1>1, <1>5, <1>6, NoJobType DEF SwapInv, SwapTyped
<1>8. /\ \A i \in DOMAIN txs : ~FromBots(i) => txs[i].order \in SwapOrder
      /\ ~(Ours(Len(txs))')
  BY <1>4, <1>5, TxType DEF TxRow, FromBots, Ours
<1>9. OnePlacing'
  <2>1. \A o \in SwapOrder : placed'[o] # "placing"
    BY <1>6 DEF SwapInv, OnePlacing
  <2>2. \A i \in DOMAIN txs' : ~(FromBots(i)') => placed'[txs'[i].order] # "none"
    BY <1>4, <1>5, <1>6, <1>8 DEF SwapInv, OnePlacing
  <2> QED
    BY <1>1, <2>1, <2>2, NoJobType DEF OnePlacing
<1>10. PriceAges' /\ QuotePasses'
  BY <1>1, NoJobType DEF PriceAges, QuotePasses
<1>11. GrantedExactly'
  <2>1. \A i \in DOMAIN txs' : Ours(i)' => txs'[i].state = "confirmed"
    BY <1>1, <1>5, <1>8 DEF Unresolved
  <2> QED
    BY <1>1, <2>1, NoJobType DEF GrantedExactly
<1>12. GasBooked'
  <2> SUFFICES ASSUME NEW i \in DOMAIN txs', Ours(i)', i \notin gasRows
               PROVE  txs'[i].order \in haltedFor
                        \/ placed'[txs'[i].order] \in {"placing", "lost"}
    BY <1>1, NoJobType DEF GasBooked
  <2>1. i \in DOMAIN txs /\ txs'[i] = txs[i] /\ Ours(i) /\ txs[i].order \in SwapOrder
    BY <1>5, <1>8 DEF Ours
  <2>2. txs[i].order # job.order
    BY <1>1, <2>1 DEF SwapInv, GasBooked
  <2> QED
    BY <1>6, <1>8, <2>1, <2>2 DEF SwapInv, GasBooked
<1>13. SentSound'
  <2>1. job.quote \in Quote /\ VerifyQuote(job.quote)
        /\ job.quote.callMin * job.price > job.amount
    BY <1>1 DEF SwapInv, QuotePasses
  <2>2. job.quote.callMin * Scale > job.quote.buy * (Scale - MaxSlip - 1)
    BY <2>1, Guaranteed
  <2>3. grant <= job.amount \/ grant <= job.others
    BY <1>1 DEF SwapInv, GrantedExactly
  <2>4. clock - job.priceAt < StaleAge + FetchTime + Life
    <3>1. clock < job.by /\ job.by <= job.priceAt + StaleAge + FetchTime + Life
      BY <1>1 DEF SwapInv, PriceAges
    <3> QED
      BY <3>1, JobFields, SwapConstants
  <2>5. /\ sent'.amount = job.amount /\ sent'.at = clock /\ sent'.price = job.price
        /\ sent'.priceAt = job.priceAt /\ sent'.quote = job.quote /\ sent'.grant = grant
        /\ sent'.others = job.others
    BY <1>1
  <2> QED
    BY <2>1, <2>2, <2>3, <2>4, <2>5 DEF SentSound, EdgeFresh, NoLargerGrant, GuaranteeHolds
<1> QED
  BY <1>7, <1>9, <1>10, <1>11, <1>12, <1>13 DEF SwapInv

LEMMA QuoteExpiredKeeps == SwapInv /\ QuoteExpired => SwapInv'
<1> SUFFICES ASSUME SwapInv, QuoteExpired PROVE SwapInv'
  OBVIOUS
<1> USE DEF QuoteExpired
<1> DEFINE row == [order |-> job.order, purpose |-> "swap", amount |-> job.amount,
                   state |-> "unknown", mined |-> "no"]
<1>1. /\ UNCHANGED <<clock, ref, grant, gasRows, sent>>
      /\ job.at = "submit" /\ txs' = Append(txs, row) /\ job' = NoJob
      /\ placed' = [placed EXCEPT ![job.order] = "risk_rejected"]
      /\ swapHalt' = TRUE /\ haltedFor' = haltedFor \cup {job.order}
  OBVIOUS
<1>2. job.order \in SwapOrder /\ job.amount \in Amounts
  BY <1>1 DEF SwapInv, OnePlacing
<1>3. row \in TxRow
  BY <1>2 DEF TxRow
<1>4. row.purpose = "swap" /\ row.order = job.order
  OBVIOUS
<1> HIDE DEF row
<1>5. /\ txs' \in Seq(TxRow) /\ Len(txs') = Len(txs) + 1
      /\ DOMAIN txs' = DOMAIN txs \cup {Len(txs')} /\ Len(txs') \notin DOMAIN txs
      /\ txs'[Len(txs')] = row /\ \A i \in DOMAIN txs : txs'[i] = txs[i]
      /\ \A i \in DOMAIN txs : (Ours(i)') = Ours(i) /\ (FromBots(i)') = FromBots(i)
  BY <1>1, <1>3, TxAppends
<1>6. placed' \in [SwapOrder -> {"none", "placing", "sent", "risk_rejected", "lost"}]
      /\ placed'[job.order] = "risk_rejected"
      /\ \A o \in SwapOrder : o # job.order => placed'[o] = placed[o]
  BY <1>1, <1>2 DEF SwapInv, SwapTyped
<1>7. SwapTyped'
  BY <1>1, <1>2, <1>5, <1>6, NoJobType DEF SwapInv, SwapTyped
<1>8. /\ \A i \in DOMAIN txs : ~FromBots(i) => txs[i].order \in SwapOrder
      /\ ~(Ours(Len(txs))')
  BY <1>4, <1>5, TxType DEF TxRow, FromBots, Ours
<1>9. OnePlacing'
  <2>1. \A o \in SwapOrder : placed'[o] # "placing"
    BY <1>6 DEF SwapInv, OnePlacing
  <2>2. \A i \in DOMAIN txs' : ~(FromBots(i)') => placed'[txs'[i].order] # "none"
    BY <1>4, <1>5, <1>6, <1>8 DEF SwapInv, OnePlacing
  <2> QED
    BY <1>1, <2>1, <2>2, NoJobType DEF OnePlacing
<1>10. PriceAges' /\ QuotePasses'
  BY <1>1, NoJobType DEF PriceAges, QuotePasses
<1>11. GrantedExactly'
  BY <1>1, NoJobType DEF GrantedExactly
<1>12. GasBooked'
  <2> SUFFICES ASSUME NEW i \in DOMAIN txs', Ours(i)', i \notin gasRows
               PROVE  txs'[i].order \in haltedFor'
                        \/ placed'[txs'[i].order] \in {"placing", "lost"}
    BY <1>1, NoJobType DEF GasBooked
  <2>1. i \in DOMAIN txs /\ txs'[i] = txs[i] /\ Ours(i) /\ txs[i].order \in SwapOrder
    BY <1>5, <1>8 DEF Ours
  <2>2. CASE txs[i].order = job.order
    BY <1>1, <2>1, <2>2
  <2>3. CASE txs[i].order # job.order
    BY <1>1, <1>6, <1>8, <2>1, <2>3 DEF SwapInv, GasBooked
  <2> QED
    BY <2>2, <2>3
<1> QED
  BY <1>1, <1>7, <1>9, <1>10, <1>11, <1>12, SentStays DEF SwapInv

LEMMA SwapNextKeeps == SwapInv /\ [SwapNext]_swapVars => SwapInv'
<1> SUFFICES ASSUME SwapInv, [SwapNext]_swapVars PROVE SwapInv'
  OBVIOUS
<1>1. CASE TimeGoes
  BY <1>1, TimeKeeps
<1>2. ASSUME NEW usd \in EthPrice, Polled(usd) PROVE SwapInv'
  BY <1>2, PolledKeeps
<1>3. ASSUME NEW i \in DOMAIN txs, TxMined(i) \/ TxRecovered(i) PROVE SwapInv'
  BY <1>3, TxMinedKeeps, TxRecoveredKeeps
<1>4. ASSUME NEW o \in SwapOrder, NEW amount \in Amounts, PlaceStarts(o, amount) PROVE SwapInv'
  BY <1>4, PlaceKeeps
<1>5. CASE AllowanceRead \/ Approve \/ ReceiptSeen \/ FinalGates
  BY <1>5, AllowanceReadKeeps, ApproveKeeps, ReceiptKeeps, FinalGatesKeeps
<1>6. CASE NoReceipt \/ Rejected
  <2>1. /\ job.at # "idle" /\ Refuse
        /\ UNCHANGED <<clock, ref, grant, txs, gasRows, sent>>
    BY <1>6 DEF NoReceipt, Rejected
  <2> QED
    BY <2>1, RefuseKeeps
<1>7. ASSUME NEW q \in Quote, QuoteArrives(q) PROVE SwapInv'
  BY <1>7, QuoteArrivesKeeps
<1>8. CASE SettlerRead \/ SwapSent \/ QuoteExpired \/ Enabled \/ SwapDies
  BY <1>8, SettlerKeeps, SwapSentKeeps, QuoteExpiredKeeps, EnabledKeeps, SwapDiesKeeps
<1>9. CASE UNCHANGED swapVars
  BY <1>9
  DEF swapVars, SwapInv, SwapTyped, Ours, FromBots, OnePlacing, PriceAges, QuotePasses, GrantedExactly,
      GasBooked, SentSound, EdgeFresh, NoLargerGrant, GuaranteeHolds
<1>10. ASSUME NEW purpose \in {"allowance", "swap"}, NEW amount \in Amounts,
              BotSends(purpose, amount)
       PROVE  SwapInv'
  BY <1>10, BotSendsKeeps
<1>11. CASE OthersHalt
  BY <1>11, OthersHaltKeeps
<1> QED
  BY <1>1, <1>2, <1>3, <1>4, <1>5, <1>6, <1>7, <1>8, <1>9, <1>10, <1>11 DEF SwapNext

\* Whatever the world does during the waits of a swap, what is signed is priced
\* in time, granted exactly and covered by its calldata, and the gas of its
\* approvals is known (live/adapters/zeroXRobinhood.ts).
THEOREM SwapTheorem == SwapSpec => []SwapSound
<1>1. SwapInit => SwapInv
  BY SwapInitInv
<1>2. SwapInv /\ [SwapNext]_swapVars => SwapInv'
  BY SwapNextKeeps
<1>3. SwapInv => SwapSound
  BY DEF SwapInv, SentSound, SwapSound, GasBooked, GasKnown, Ours
<1> QED
  BY <1>1, <1>2, <1>3, PTL DEF SwapSpec
-----------------------------------------------------------------------------
(* Markets: all parts in one process.                                      *)

\* A step of the markets is a step of a part, and the other parts rest.
LEMMA MarketsSteps ==
  ASSUME [MarketsNext]_marketsVars
  PROVE  /\ [FullMarketNext]_marketVars /\ [ExposureNext]_exposureVars
         /\ [UniverseNext]_universeVars /\ [PaperNext]_paperVars
         /\ [WebhookNext]_webhookVars /\ [SwapNext]_swapVars
<1>1. CASE UNCHANGED marketsVars
  BY <1>1 DEF marketsVars
<1>2. CASE MarketsNext
  BY <1>2 DEF MarketsNext, Only
<1> QED
  BY <1>1, <1>2

\* Each part keeps its promise in the process that runs all of them
\* (server/src/index.ts).
THEOREM MarketsTheorem ==
  MarketsSpec =>
    [](/\ CouncilWithinBudget /\ ReserveKept /\ UniverseSound /\ PaperSound
       /\ NewestWins /\ SwapSound)
<1>1. MarketsInit => /\ MarketInit /\ ExposureInit /\ UniverseInit /\ PaperInit
                     /\ WebhookInit /\ SwapInit
  BY DEF MarketsInit
<1>2. MarketsSpec => /\ FullMarketSpec /\ ExposureSpec /\ UniverseSpec /\ PaperSpec
                     /\ WebhookSpec /\ SwapSpec
  BY <1>1, MarketsSteps, PTL
  DEF MarketsSpec, FullMarketSpec, ExposureSpec, UniverseSpec, PaperSpec, WebhookSpec, SwapSpec
<1> QED
  BY <1>2, CouncilTheorem, ReserveTheorem, UniverseTheorem, PaperTheorem,
     NewestTheorem, SwapTheorem, PTL
=============================================================================
