------------------------------ MODULE FullMarket ------------------------------
(***************************************************************************)
(* Full-market autonomy: a sweep over every pair of the universe           *)
(* (live/pairScanner.ts), a council of five models that votes on its best  *)
(* candidates (live/tradingCouncil.ts), and the cycle that turns an        *)
(* approval into one swap (live/fullMarketAutonomy.ts,                     *)
(* live/swapIntent.ts, live/fullMarketController.ts).                      *)
(*                                                                         *)
(* The cycle runs from a cron and from a route behind one in-memory flag;  *)
(* an administrator also starts sweeps and councils of his own.  What a    *)
(* quote, a model or a readiness check says is free; council costs are in  *)
(* units of one model call.                                                *)
(***************************************************************************)
EXTENDS Integers, SequencesExt

CONSTANTS Pairs,      \* directed pairs of the universe
          Roles,      \* council roles, one model call each
          RunCap,     \* RUN_CAP_USD
          Budget,     \* tradingCouncilLlmBudgetUsd, one month
          MaxSweep,   \* bound: sweeps
          MaxCrash    \* bound: process deaths

ASSUME FullMarketAssumption ==
  /\ {Pairs, Roles, MaxSweep} \subseteq Nat \ {0}
  /\ {RunCap, Budget, MaxCrash} \subseteq Nat

VARIABLES market,    \* live_config: halted, and both autonomy flags
          enabling,  \* an enableFullMarketAutonomy awaits its readiness
          cycle,     \* where the cycle stands
          sweeps,    \* pair_sweep_runs with what their candidates say
          pairScan,  \* the scanner at work, in memory
          councils,  \* trading_council_runs, by sweep
          panel,     \* runTradingCouncil at work, by caller
          swaps,     \* live_orders of the cycle, by sweep
          crashed

marketVars == <<market, enabling, cycle, sweeps, pairScan, councils, panel,
                swaps, crashed>>

Sweep == 1 .. MaxSweep
Starter == {"cycle", "admin"}
NoScan == [by |-> "nobody", tried |-> 0, flying |-> 0, bad |-> "no", late |-> FALSE]
NoPanel == [on |-> 0, turn |-> 0]
Idle == [at |-> "idle", on |-> 0]

MarketTypeOK ==
  /\ market \in [halted : BOOLEAN, armed : BOOLEAN]
  /\ enabling \in BOOLEAN
  /\ cycle \in [at : {"idle", "checks", "sweep", "after", "council", "placing"},
                on : 0 .. MaxSweep]
  /\ sweeps \in BoundedSeq([state : {"running", "complete", "rate_limited", "stale", "failed"},
                            survivors : BOOLEAN], MaxSweep)
  /\ pairScan \in [by : Starter \cup {"nobody"}, tried : 0 .. Pairs, flying : 0 .. Pairs,
                   bad : {"no", "error", "limited"}, late : BOOLEAN]
  /\ councils \in [Sweep -> [state : {"none", "running", "approved", "rejected", "failed"},
                             cost : 0 .. RunCap + 1, old : BOOLEAN]]
  /\ panel \in [Starter -> [on : 0 .. MaxSweep, turn : 0 .. Roles]]
  /\ swaps \in [Sweep -> [state : {"none", "risk_approved", "risk_rejected", "sent"},
                          child : BOOLEAN]]
  /\ crashed \in 0 .. MaxCrash

MarketInit ==
  /\ market = [halted |-> FALSE, armed |-> FALSE]
  /\ enabling = FALSE
  /\ cycle = Idle
  /\ sweeps = <<>>
  /\ pairScan = NoScan
  /\ councils = [s \in Sweep |-> [state |-> "none", cost |-> 0, old |-> FALSE]]
  /\ panel = [w \in Starter |-> NoPanel]
  /\ swaps = [s \in Sweep |-> [state |-> "none", child |-> FALSE]]
  /\ crashed = 0

Halted == [halted |-> TRUE, armed |-> FALSE]
-----------------------------------------------------------------------------
(* live_config.                                                             *)

\* Anyone may halt: a haltNetwork elsewhere, or the operator.
MarketHalts ==
  /\ ~market.halted
  /\ market' = Halted
  /\ UNCHANGED <<enabling, cycle, sweeps, pairScan, councils, panel, swaps, crashed>>

\* The route's preflight refuses a halted network; the readiness awaits follow.
AskEnable ==
  /\ ~enabling
  /\ ~market.halted
  /\ sweeps # <<>>
  /\ enabling' = TRUE
  /\ UNCHANGED <<market, cycle, sweeps, pairScan, councils, panel, swaps, crashed>>

\* The newest sweep must be complete.  No check looks at the halt again, and
\* the update lifts it.
Enable ==
  /\ enabling
  /\ enabling' = FALSE
  /\ Last(sweeps).state = "complete"
  /\ market' = [halted |-> FALSE, armed |-> TRUE]
  /\ UNCHANGED <<cycle, sweeps, pairScan, councils, panel, swaps, crashed>>

NotEnabled ==
  /\ enabling
  /\ enabling' = FALSE
  /\ UNCHANGED <<market, cycle, sweeps, pairScan, councils, panel, swaps, crashed>>
-----------------------------------------------------------------------------
(* FullPairScanner.run.                                                     *)

Running == \E i \in DOMAIN sweeps : sweeps[i].state = "running"

StartSweep(who) ==
  /\ Len(sweeps) < MaxSweep
  /\ ~Running
  /\ sweeps' = Append(sweeps, [state |-> "running", survivors |-> FALSE])
  /\ pairScan' = [NoScan EXCEPT !.by = who]

\* A quote is asked for, unless the asset gate already rejects the pair.
Launch(ask) ==
  /\ pairScan.by # "nobody"
  /\ pairScan.tried < Pairs
  /\ pairScan.bad = "no" /\ ~pairScan.late
  /\ pairScan' = [pairScan EXCEPT !.tried = @ + 1,
                                  !.flying = IF ask THEN @ + 1 ELSE @]
  /\ UNCHANGED <<market, enabling, cycle, sweeps, councils, panel, swaps, crashed>>

\* An answer, a failed request or a 429; an error leaves no candidate row.
Land(bad) ==
  /\ pairScan.flying > 0
  /\ pairScan' = [pairScan EXCEPT !.flying = @ - 1,
       !.bad = IF "limited" \in {bad, @} THEN "limited" ELSE IF bad = "no" THEN @ ELSE bad]
  /\ \E edge \in IF bad = "no" THEN BOOLEAN ELSE {FALSE} :
       sweeps' = [sweeps EXCEPT ![Len(sweeps)].survivors = @ \/ edge]
  /\ UNCHANGED <<market, enabling, cycle, councils, panel, swaps, crashed>>

Deadline ==
  /\ pairScan.by # "nobody"
  /\ ~pairScan.late
  /\ pairScan' = [pairScan EXCEPT !.late = TRUE]
  /\ UNCHANGED <<market, enabling, cycle, sweeps, councils, panel, swaps, crashed>>

\* The last word counts attempts: a request that failed among the last ones
\* launched leaves the sweep complete.
SweepState ==
  IF pairScan.bad = "limited" THEN "rate_limited"
  ELSE IF pairScan.tried = Pairs THEN "complete"
  ELSE IF pairScan.late THEN "stale" ELSE "failed"

EndSweep ==
  /\ pairScan.by # "nobody"
  /\ pairScan.flying = 0
  /\ pairScan.tried = Pairs \/ pairScan.bad # "no" \/ pairScan.late
  /\ sweeps' = [sweeps EXCEPT ![Len(sweeps)].state = SweepState]
  /\ pairScan' = NoScan
  /\ cycle' = IF pairScan.by = "admin" THEN cycle
              ELSE IF SweepState = "complete" THEN [cycle EXCEPT !.at = "after"] ELSE Idle
  /\ UNCHANGED <<market, enabling, councils, panel, swaps, crashed>>

AdminSweeps ==
  /\ StartSweep("admin")
  /\ UNCHANGED <<market, enabling, cycle, councils, panel, swaps, crashed>>
-----------------------------------------------------------------------------
(* runTradingCouncil.                                                       *)

CouncilSpend == SumFunctionOnSet([s \in Sweep |-> councils[s].cost], Sweep)

\* reserveRun first gives up on reservations older than 15 minutes.
Expired(c) ==
  [s \in Sweep |-> IF c[s].state = "running" /\ c[s].old
                   THEN [c[s] EXCEPT !.state = "failed"] ELSE c[s]]

Seats(c) == Cardinality({s \in Sweep : c[s].state = "running"})

\* Mutant of Reservable: what running councils may still spend is not counted.
ReservableAlone(c) == CouncilSpend + RunCap <= Budget

Reservable(c) == CouncilSpend + Seats(c) * RunCap + RunCap <= Budget

\* A council per sweep, ever: a second call gets the first one's row.
Convene(who, s) ==
  LET kept == Expired(councils) IN
  /\ panel[who].on = 0
  /\ kept[s].state = "none"
  /\ sweeps[s].state = "complete" /\ sweeps[s].survivors
  /\ Reservable(kept)
  /\ councils' = [kept EXCEPT ![s].state = "running"]
  /\ panel' = [panel EXCEPT ![who] = [on |-> s, turn |-> 0]]

AdminConvenes(s) ==
  /\ s \in DOMAIN sweeps
  /\ Convene("admin", s)
  /\ UNCHANGED <<market, enabling, cycle, sweeps, pairScan, swaps, crashed>>

CouncilAges(s) ==
  /\ councils[s].state = "running"
  /\ ~councils[s].old
  /\ councils' = [councils EXCEPT ![s].old = TRUE]
  /\ UNCHANGED <<market, enabling, cycle, sweeps, pairScan, panel, swaps, crashed>>

\* The cycle's half of an approval, in the same turn: a bot has an allocation,
\* the intent is built unless the network is halted or something else blocks
\* it, and the order is stored.  Without an ETH price it stays as it is.
Trade(s) ==
  \/ /\ cycle' = Idle
     /\ UNCHANGED swaps
  \/ /\ ~market.halted /\ market.armed
     /\ swaps' = [swaps EXCEPT ![s].state = "risk_approved"]
     /\ cycle' \in {Idle, [cycle EXCEPT !.at = "placing"]}

Resolved(who, s, state) ==
  IF who = "admin" THEN UNCHANGED <<cycle, swaps>>
  ELSE IF state = "approved" THEN Trade(s)
  ELSE cycle' = Idle /\ UNCHANGED swaps

\* A role answers and its cost is booked; the row is closed by id alone, also
\* one that was given up on.
Turn(who, cost) ==
  LET s == panel[who].on
      paid == councils[s].cost + cost
      last == panel[who].turn + 1 = Roles
  IN /\ s # 0
     /\ \/ /\ paid <= RunCap /\ ~last
           /\ councils' = [councils EXCEPT ![s].cost = paid]
           /\ panel' = [panel EXCEPT ![who].turn = @ + 1]
           /\ UNCHANGED <<cycle, swaps>>
        \/ \E verdict \in IF paid <= RunCap /\ last
                          THEN {"failed", "approved", "rejected"} ELSE {"failed"} :
             /\ councils' = [councils EXCEPT ![s].cost = paid, ![s].state = verdict]
             /\ panel' = [panel EXCEPT ![who] = NoPanel]
             /\ Resolved(who, s, verdict)
     /\ UNCHANGED <<market, enabling, sweeps, pairScan, crashed>>
-----------------------------------------------------------------------------
(* FullMarketAutonomy.cycle.                                                *)

CycleStarts ==
  /\ cycle = Idle
  /\ ~market.halted /\ market.armed
  /\ cycle' = [at |-> "checks", on |-> 0]
  /\ UNCHANGED <<market, enabling, sweeps, pairScan, councils, panel, swaps, crashed>>

\* The policy drifted, before or after the sweep, the holdings cannot be
\* valued, the loss gate or the reserve gate.
CheckHalts ==
  /\ cycle.at \in {"checks", "after"}
  /\ cycle' = Idle
  /\ market' = Halted
  /\ UNCHANGED <<enabling, sweeps, pairScan, councils, panel, swaps, crashed>>

\* A reference failed, or a sweep is already running.
CycleGivesUp ==
  /\ cycle.at = "checks"
  /\ cycle' = Idle
  /\ UNCHANGED <<market, enabling, sweeps, pairScan, councils, panel, swaps, crashed>>

CycleSweeps ==
  /\ cycle.at = "checks"
  /\ StartSweep("cycle")
  /\ cycle' = [at |-> "sweep", on |-> Len(sweeps) + 1]
  /\ UNCHANGED <<market, enabling, councils, panel, swaps, crashed>>

\* prunePairSweepDetails keeps two sweeps and what a council chose.
Pruned ==
  [i \in DOMAIN sweeps |->
     IF i < Len(sweeps) - 1 /\ councils[i].state # "approved"
     THEN [sweeps[i] EXCEPT !.survivors = FALSE] ELSE sweeps[i]]

\* The council is asked; an administrator's earlier one on the same sweep
\* answers at once.
CycleConvenes ==
  LET s == cycle.on IN
  /\ cycle.at = "after"
  /\ sweeps' = Pruned
  /\ \/ /\ Convene("cycle", s)
        /\ cycle' = [cycle EXCEPT !.at = "council"]
        /\ UNCHANGED swaps
     \/ /\ councils[s].state # "none"
        /\ sweeps[s].survivors
        /\ councils' = Expired(councils)
        /\ Resolved("cycle", s, councils'[s].state)
        /\ UNCHANGED panel
     \/ /\ cycle' = Idle
        /\ UNCHANGED <<councils, panel, swaps>>
  /\ UNCHANGED <<market, enabling, pairScan, crashed>>

\* placeSwapIntent: an allowance or the swap itself becomes a child
\* transaction; no step of it looks at the halt.
PlaceChild ==
  /\ cycle.at = "placing"
  /\ ~swaps[cycle.on].child
  /\ swaps' = [swaps EXCEPT ![cycle.on].child = TRUE]
  /\ UNCHANGED <<market, enabling, cycle, sweeps, pairScan, councils, panel, crashed>>

Placed(state) ==
  /\ cycle.at = "placing"
  /\ state = "sent" => swaps[cycle.on].child
  /\ swaps' = [swaps EXCEPT ![cycle.on].state = state]
  /\ cycle' = Idle
  /\ market' = IF state # "sent" /\ swaps[cycle.on].child THEN Halted ELSE market
  /\ UNCHANGED <<enabling, sweeps, pairScan, councils, panel, crashed>>

\* Everything in memory is gone; the rows stay.  A boot halts a network that
\* was armed unless full-market readiness passes, which needs the newest sweep
\* complete.
MarketCrash ==
  /\ crashed < MaxCrash
  /\ crashed' = crashed + 1
  /\ enabling' = FALSE
  /\ cycle' = Idle
  /\ pairScan' = NoScan
  /\ panel' = [w \in Starter |-> NoPanel]
  /\ \/ market' = Halted
     \/ /\ market.armed => Last(sweeps).state = "complete"
        /\ UNCHANGED market
  /\ UNCHANGED <<sweeps, councils, swaps>>

FullMarketNext ==
  \/ MarketHalts \/ AskEnable \/ Enable \/ NotEnabled
  \/ \E ask \in BOOLEAN : Launch(ask)
  \/ \E bad \in {"no", "error", "limited"} : Land(bad)
  \/ Deadline \/ EndSweep \/ AdminSweeps
  \/ \E s \in Sweep : AdminConvenes(s) \/ CouncilAges(s)
  \/ \E who \in Starter, cost \in {0, 1} : Turn(who, cost)
  \/ CycleStarts \/ CheckHalts \/ CycleGivesUp \/ CycleSweeps \/ CycleConvenes
  \/ PlaceChild
  \/ \E state \in {"risk_approved", "risk_rejected", "sent"} : Placed(state)
  \/ MarketCrash

FullMarketSpec == MarketInit /\ [][FullMarketNext]_marketVars
-----------------------------------------------------------------------------
\* The council's month stays within its budget (live/tradingCouncil.ts:88-94,
\* "monthly budget cannot reserve another run"): it is overdrawn by no more
\* than the one call with which each run may pass its ceiling, and by the runs
\* that were given up as stale and yet went on spending.
CouncilWithinBudget ==
  CouncilSpend <= Budget
    + Cardinality({s \in Sweep : councils[s].cost > RunCap})
    + RunCap * Cardinality({s \in Sweep : councils[s].old})
==============================================================================
