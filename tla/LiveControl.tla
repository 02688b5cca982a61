----------------------------- MODULE LiveControl -----------------------------
(***************************************************************************)
(* Who may trade real money, and when: live_config (live/riskEngine.ts),   *)
(* the admin ceremonies and the boot sequence of the supervisor            *)
(* (live/supervisor.ts, live/preflight.ts, live/fullMarketController.ts),  *)
(* reconciliation (live/reconciler.ts) and the canary round trip           *)
(* (live/canaryExperiment.ts) whose completed run is the proof that        *)
(* autonomy asks for.                                                      *)
(*                                                                         *)
(* An action is the code between two awaits.  One process: what happens to *)
(* an order on its way to the chain is in OrderExecution; here a query     *)
(* answers for it.  Left out: the checks of preflight that read neither    *)
(* orders, runs nor reconciliation (any ceremony may fail at any step),    *)
(* orders other than a round trip's, and the signer's identity, which is   *)
(* fixed.                                                                  *)
(***************************************************************************)
EXTENDS Naturals

CONSTANTS Run,        \* canary_experiment_runs, by idempotency key
          Op,         \* admin requests that may be under way together
          Nobody,
          TopStage,   \* CAPITAL_STAGES' last index, which live mode needs
          MaxCrash    \* bound: restarts

ASSUME TopAssumption == TopStage \in Nat \ {0}
ASSUME BoundAssumption == MaxCrash \in Nat

VARIABLES cfg,      \* the live_config row
          recon,    \* the newest reconciliation_runs row of the trader account
          run,      \* state of each run; "stranded" is failed for min_size
          order,    \* live_orders of the round trips
          adv,      \* where advance() stands
          op,       \* where each admin request stands
          boot,     \* where boot() stands
          crashes

vars == <<cfg, recon, run, order, adv, op, boot, crashes>>

Mode     == {"simulation", "shadow", "canary", "live"}
Phase    == {"simulation", "shadow", "canary_probe", "canary_exit_recovery",
             "autonomous_canary", "live"}
Real     == {"canary", "live"}
Stage    == 0 .. TopStage
RunState == {"none", "created", "buy_pending", "buy_confirmed", "sell_pending",
             "reconciling", "completed", "failed", "stranded"}
Closed   == {"none", "completed", "failed", "stranded"}
\* "exit" is the sell under its :recovery:v1 key.
Side     == {"buy", "sell", "exit"}
Key      == Run \X Side
\* "lost" is reconciling without a venue id, "unclear" reconciling with one.
OrderState == {"none", "rejected", "min_size", "submitting", "lost", "pending",
               "unclear", "filled", "failed"}
InFlight == {"submitting", "lost", "pending", "unclear"}
Clerk    == Op \cup {"timer", "canary"}   \* who has a pass running
Kind     == {"arm", "promote", "shadow", "enable", "market"}

TypeOK ==
  /\ cfg \in [mode : Mode, phase : Phase, auto : BOOLEAN, full : BOOLEAN,
              halted : BOOLEAN, stage : Stage]
  /\ recon \in [by : Clerk \cup {Nobody},
                status : {"none", "running", "clean", "failed"}]
  /\ run \in [Run -> RunState]
  /\ order \in [Key -> OrderState]
  /\ adv \in [pc : {"idle", "placing", "reconciling"}, run : Run \cup {Nobody},
              side : Side, phase : Phase]
  /\ op \in [Op -> [kind : Kind, pc : {"idle", "recover", "reconcile",
                                       "preflight", "act"},
                    mode : Mode, stage : Stage, exit : BOOLEAN]]
  /\ boot \in [pc : {"recover", "reconcile", "judge", "up"}, halted : BOOLEAN,
               bad : BOOLEAN]
  /\ crashes \in 0 .. MaxCrash

Idle     == [kind |-> "arm", pc |-> "idle", mode |-> "shadow", stage |-> 0,
             exit |-> FALSE]
AdvIdle  == [pc |-> "idle", run |-> Nobody, side |-> "buy", phase |-> "shadow"]

\* As the migrations leave it: halted shadow at stage 0; older versions may
\* have left a run whose sell was refused for its size.
Init ==
  /\ cfg = [mode |-> "shadow", phase |-> "shadow", auto |-> FALSE,
            full |-> FALSE, halted |-> TRUE, stage |-> 0]
  /\ recon = [by |-> Nobody, status |-> "none"]
  /\ \E Old \in SUBSET Run :
       /\ run = [r \in Run |-> IF r \in Old THEN "stranded" ELSE "none"]
       /\ order = [k \in Key |-> IF k[1] \notin Old \/ k[2] = "exit" THEN "none"
                                 ELSE IF k[2] = "buy" THEN "filled"
                                 ELSE "min_size"]
  /\ adv = AdvIdle
  /\ op = [a \in Op |-> Idle]
  /\ boot = [pc |-> "up", halted |-> FALSE, bad |-> FALSE]
  /\ crashes = 0
-----------------------------------------------------------------------------
(* live_config.                                                             *)

\* haltNetwork.
Halted(c) == [c EXCEPT !.halted = TRUE, !.auto = FALSE, !.full = FALSE]

\* setLiveMode.
InMode(c, m) == [c EXCEPT !.mode = m,
                          !.phase = IF m = "canary" THEN "canary_probe" ELSE m,
                          !.auto = (m = "live"),
                          !.full = FALSE]

Unresolved == {k \in Key : order[k] \in InFlight}

\* setCapitalStage: down freely, up one step and on evidence (its fills,
\* drawdown and collateral may refuse as well).
StageOK(s) ==
  \/ s <= cfg.stage
  \/ /\ s = cfg.stage + 1
     /\ recon.status = "clean"
     /\ \A k \in Key : order[k] \notin InFlight \cup {"failed"}

SetConfig(c) ==
  /\ cfg' = c
  /\ UNCHANGED <<recon, run, order, adv, op, boot, crashes>>

Up == boot.pc = "up"

\* The halt route, the sentinel (from the first moment of boot), and the halts
\* other orders cause.
HaltNetwork ==
  /\ ~cfg.halted
  /\ Up \/ cfg.mode # "simulation"
  /\ SetConfig(Halted(cfg))

\* POST mode: shadow out of a halt is a ceremony of its own.
SetMode(m) ==
  /\ Up
  /\ m \in {"simulation", "shadow"}
  /\ m = "shadow" => ~cfg.halted
  /\ SetConfig(InMode(cfg, m))

Demote(s) == Up /\ s < cfg.stage /\ SetConfig([cfg EXCEPT !.stage = s])
-----------------------------------------------------------------------------
(* Reconciliation of the trader account, and queries about orders.          *)

\* A row of the pass is inserted first, completed after the venue answered; only
\* the newest row is ever read.
Closing(c, status) ==
  IF recon.by = c THEN [by |-> Nobody, status |-> status] ELSE recon

\* Drift, or a venue that cannot be read, halts.
Verdict(status) == IF status = "clean" THEN cfg ELSE Halted(cfg)

\* The five-minute timer and the reconcile route.
BeginPass ==
  /\ Up
  /\ recon.by # "timer"
  /\ recon' = [by |-> "timer", status |-> "running"]
  /\ UNCHANGED <<cfg, run, order, adv, op, boot, crashes>>

EndPass(status) ==
  /\ Up
  /\ recon.by = "timer"
  /\ recon' = Closing("timer", status)
  /\ cfg' = Verdict(status)
  /\ UNCHANGED <<run, order, adv, op, boot, crashes>>

\* What getOrderStatus may answer.  It needs a venue id: an order that has none
\* stays lost unless recoverTransactions, which every gate calls first, found a
\* signed transaction of it.
Answers(k) == {"pending", "filled", "failed", "unclear"}
              \cup IF order[k] \in {"submitting", "lost"} THEN {"lost"} ELSE {}

\* recoverPendingOrders: every order in flight is asked for; one that is not
\* resolved halts, and so does a query that threw.
Recovered(news) ==
  [k \in Key |-> IF k \in Unresolved THEN news[k] ELSE order[k]]
Ambiguous(news, threw) ==
  \E k \in Unresolved : threw \/ news[k] \in {"lost", "failed", "unclear"}
News == {news \in [Unresolved -> OrderState] :
           \A k \in Unresolved : news[k] \in Answers(k)}

\* pollPendingOrders, one row of it.
Poll(k, answer) ==
  /\ Up
  /\ order[k] = "pending"
  /\ answer \in Answers(k)
  /\ order' = [order EXCEPT ![k] = answer]
  /\ cfg' = IF answer \in {"failed", "unclear"} THEN Halted(cfg) ELSE cfg
  /\ UNCHANGED <<recon, run, adv, op, boot, crashes>>
-----------------------------------------------------------------------------
(* The canary round trip.                                                   *)

\* Mutant of SellKey: a sell that was ever placed is placed again as an exit.
SellAnew(r) == <<r, IF order[<<r, "sell">>] # "none" THEN "exit" ELSE "sell">>

SellKey(r) == <<r, IF order[<<r, "sell">>] = "min_size" THEN "exit" ELSE "sell">>

Held(r) == /\ order[<<r, "buy">>] = "filled"
           /\ \A s \in {"sell", "exit"} : order[<<r, s>>] # "filled"
Open == {r \in Run : run[r] \notin Closed}

\* recoveryCandidate: the account holds exactly this run's receipt.
Candidate(r) ==
  /\ run[r] = "stranded"
  /\ Unresolved = {}
  /\ {q \in Run : Held(q)} = {r}

ProbePhase == cfg.phase \in {"canary_probe", "canary_exit_recovery"}

\* Mutant of StartGuard: a run that is already active is not looked for.
StartAgain ==
  /\ Up
  /\ cfg.mode = "canary" /\ ProbePhase /\ ~cfg.auto /\ ~cfg.halted
  /\ cfg.stage = 1

\* start, up to its INSERT or its re-opening of a stranded run; the advance()
\* that follows is the timer's.
StartGuard ==
  /\ Up
  /\ cfg.mode = "canary" /\ ProbePhase /\ ~cfg.auto /\ ~cfg.halted
  /\ cfg.stage = 1
  /\ Open = {}

Start(r) ==
  /\ StartGuard
  /\ run[r] = "none"
  /\ \A q \in Run : ~Candidate(q)
  /\ cfg.phase # "canary_exit_recovery"
  /\ run' = [run EXCEPT ![r] = "created"]
  /\ UNCHANGED <<cfg, recon, order, adv, op, boot, crashes>>

StartRecovery(r) ==
  /\ StartGuard
  /\ Candidate(r)
  /\ run' = [run EXCEPT ![r] = "buy_confirmed"]
  /\ UNCHANGED <<cfg, recon, order, adv, op, boot, crashes>>

\* fail(): the run is over and the network halts.
Fail(r) ==
  /\ run' = [run EXCEPT ![r] = "failed"]
  /\ cfg' = Halted(cfg)

\* advanceOne's first lines.
Advancing(r) ==
  /\ Up
  /\ adv.pc = "idle"
  /\ r \in Open
  /\ cfg.mode = "canary" /\ ProbePhase /\ ~cfg.auto /\ ~cfg.halted

\* The state a run is in once the database has told it of its order.
Seen(r) ==
  CASE run[r] = "buy_pending" /\ order[<<r, "buy">>] = "filled" -> "buy_confirmed"
    [] run[r] = "sell_pending" /\ order[SellKey(r)] = "filled"  -> "reconciling"
    [] OTHER -> run[r]

\* The order the run would place next.
NextKey(r) == IF Seen(r) = "created" THEN <<r, "buy">> ELSE SellKey(r)
Waits(r)   == IF NextKey(r)[2] = "buy" THEN "buy_pending" ELSE "sell_pending"
Places(r)  == Advancing(r) /\ Seen(r) \in {"created", "buy_confirmed"}

\* mirrorTrade sells the whole open lot or nothing.  evaluateIntent: an exact
\* exit passes every gate but the stage; a buy is refused in exit recovery.
MayPlace(r) ==
  /\ cfg.stage > 0
  /\ IF NextKey(r)[2] = "buy" THEN cfg.phase # "canary_exit_recovery" ELSE Held(r)

\* forceTrade up to the adapter's first await.  The drawdown breaker halts and
\* lets an exit go.
Place(r) ==
  /\ Places(r)
  /\ order[NextKey(r)] = "none"
  /\ MayPlace(r)
  /\ run' = [run EXCEPT ![r] = Seen(r)]
  /\ order' = [order EXCEPT ![NextKey(r)] = "submitting"]
  /\ adv' = [pc |-> "placing", run |-> r, side |-> NextKey(r)[2],
             phase |-> cfg.phase]
  /\ \/ cfg' = cfg
     \/ NextKey(r)[2] # "buy" /\ cfg' = Halted(cfg)
  /\ UNCHANGED <<recon, op, boot, crashes>>

\* Refused: no mark, no sponsor, a lot that does not match, a risk check.
PlaceRefused(r) ==
  /\ Places(r)
  /\ order[NextKey(r)] = "none"
  /\ \E recorded \in BOOLEAN :
       order' = IF recorded THEN [order EXCEPT ![NextKey(r)] = "rejected"]
                ELSE order
  /\ Fail(r)
  /\ UNCHANGED <<recon, adv, op, boot, crashes>>

\* A crash came between the order and the run's UPDATE: INSERT OR IGNORE finds
\* the intent placed and its row decides.
PlacedBefore(r) ==
  /\ Places(r)
  /\ order[NextKey(r)] # "none"
  /\ IF order[NextKey(r)] \in {"pending", "filled"}
     THEN run' = [run EXCEPT ![r] = Waits(r)] /\ cfg' = cfg
     ELSE Fail(r)
  /\ UNCHANGED <<recon, order, adv, op, boot, crashes>>

\* mirrorTrade's tail, forceTrade's reading of the row, the run's UPDATE.
Placed(accepted) ==
  LET r == adv.run IN
  /\ adv.pc = "placing"
  /\ order' = [order EXCEPT ![<<r, adv.side>>] =
                 IF accepted THEN "pending" ELSE "failed"]
  /\ IF accepted
     THEN /\ run' = [run EXCEPT ![r] = IF adv.side = "buy" THEN "buy_pending"
                                       ELSE "sell_pending"]
          /\ cfg' = cfg
     ELSE Fail(r)
  /\ adv' = AdvIdle
  /\ UNCHANGED <<recon, op, boot, crashes>>

OrderEnded(r) ==
  LET k == IF run[r] = "buy_pending" THEN <<r, "buy">> ELSE SellKey(r) IN
  /\ Advancing(r)
  /\ run[r] \in {"buy_pending", "sell_pending"}
  /\ order[k] \in {"failed", "rejected", "lost", "unclear"}
  /\ Fail(r)
  /\ UNCHANGED <<recon, order, adv, op, boot, crashes>>

BeginProof(r) ==
  /\ Advancing(r)
  /\ Seen(r) = "reconciling"
  /\ run' = [run EXCEPT ![r] = "reconciling"]
  /\ recon' = [by |-> "canary", status |-> "running"]
  /\ adv' = [pc |-> "reconciling", run |-> r, side |-> "sell",
             phase |-> cfg.phase]
  /\ UNCHANGED <<cfg, order, op, boot, crashes>>

\* Mutant of Flat: what is left in the account is not looked at.
FlatEnough == TRUE

Flat == \A r \in Run : ~Held(r)

\* Clean and flat completes the run; out of exit recovery it also halts.
EndProof(status) ==
  LET r == adv.run IN
  /\ adv.pc = "reconciling"
  /\ recon' = Closing("canary", status)
  /\ IF status = "clean" /\ Flat
     THEN /\ run' = [run EXCEPT ![r] = "completed"]
          /\ cfg' = IF adv.phase = "canary_exit_recovery"
                    THEN Halted([cfg EXCEPT !.phase = "canary_probe"]) ELSE cfg
     ELSE Fail(r)
  /\ adv' = AdvIdle
  /\ UNCHANGED <<order, op, boot, crashes>>
-----------------------------------------------------------------------------
(* Ceremonies: begin, recover orders, reconcile, preflight, act.            *)

\* Mutant of Proof: a round trip need only have begun.
ProofBegun == \E r \in Run : run[r] # "none"

Proof == \E r \in Run : run[r] = "completed"

Begin(a, kind, pc, m, s, exit) ==
  /\ Up
  /\ op[a].pc = "idle"
  /\ op' = [op EXCEPT ![a] = [kind |-> kind, pc |-> pc, mode |-> m, stage |-> s,
                              exit |-> exit]]
  /\ UNCHANGED <<cfg, recon, run, order, adv, boot, crashes>>

\* arm; canRecoverExactExit decides here whether this arms an exit only.
ArmBegin(a, m, s) ==
  /\ \/ m = "canary" /\ s >= 1
     \/ m = "live" /\ s = TopStage
  /\ Begin(a, "arm", "recover", m, s,
           /\ m = "canary" /\ s = 1 /\ cfg.halted
           /\ cfg.mode = "canary" /\ cfg.stage = 1 /\ ~cfg.auto
           /\ \E r \in Run : Candidate(r))

PromoteBegin(a, s) ==
  /\ s > cfg.stage
  /\ cfg.mode \in Real
  /\ Begin(a, "promote", "recover", cfg.mode, s, FALSE)

ShadowBegin(a) ==
  cfg.halted /\ Begin(a, "shadow", "recover", "shadow", cfg.stage, FALSE)

EnableBegin(a) ==
  /\ cfg.mode = "canary" /\ cfg.phase = "canary_probe" /\ ~cfg.halted
  /\ cfg.stage = 1
  /\ Proof
  /\ Begin(a, "enable", "recover", "canary", 1, FALSE)

\* The full-market route starts at its preflight, whose first lines count the
\* orders without an outcome.
MarketBegin(a) ==
  Unresolved = {} /\ Begin(a, "market", "preflight", "canary", cfg.stage, FALSE)

Step(a, pc) == op' = [op EXCEPT ![a].pc = pc]
End(a)      == op' = [op EXCEPT ![a] = Idle]

\* An order without an outcome ends the ceremony; recovery itself halts.
\* armShadow acts at once: nothing it checks after this awaits.
GateRecover(a, news, threw) ==
  /\ op[a].pc = "recover"
  /\ order' = Recovered(news)
  /\ IF Ambiguous(news, threw)
     THEN cfg' = Halted(cfg) /\ recon' = recon /\ End(a)
     ELSE IF op[a].kind = "shadow"
     THEN cfg' = [InMode(cfg, "shadow") EXCEPT !.halted = FALSE]
          /\ recon' = recon /\ End(a)
     ELSE cfg' = cfg /\ recon' = [by |-> a, status |-> "running"]
          /\ Step(a, "reconcile")
  /\ UNCHANGED <<run, adv, boot, crashes>>

\* reconcileAll, and preflight's first lines.
GateReconcile(a, status) ==
  /\ op[a].pc = "reconcile"
  /\ recon' = Closing(a, status)
  /\ cfg' = Verdict(status)
  /\ IF status = "clean" /\ Unresolved = {} THEN Step(a, "preflight") ELSE End(a)
  /\ UNCHANGED <<run, order, adv, boot, crashes>>

\* What preflight reads after its awaits: launch evidence and the newest
\* reconciliation.  fullMarketReadiness follows and reads mode and stage first.
NeedsProof(a) == op[a].kind \in {"promote", "enable", "market"}
                 /\ op[a].mode = "canary"

GatePreflight(a) ==
  /\ op[a].pc = "preflight"
  /\ NeedsProof(a) => Proof
  /\ recon.status = "clean"
  /\ op' = [op EXCEPT ![a] =
              IF @.kind = "market"
              THEN [@ EXCEPT !.pc = "act", !.mode = cfg.mode, !.stage = cfg.stage]
              ELSE [@ EXCEPT !.pc = "act"]]
  /\ UNCHANGED <<cfg, recon, run, order, adv, boot, crashes>>

\* Any other check may fail; setCapitalStage may throw at the end.
GiveUp(a) ==
  /\ op[a].pc # "idle"
  /\ End(a)
  /\ UNCHANGED <<cfg, recon, run, order, adv, boot, crashes>>

Acts(a, kind, c) ==
  /\ op[a].kind = kind /\ op[a].pc = "act"
  /\ cfg' = c
  /\ End(a)
  /\ UNCHANGED <<recon, run, order, adv, boot, crashes>>

\* One transaction: stage, mode, exit recovery, resume.
Arm(a) ==
  /\ StageOK(op[a].stage)
  /\ Acts(a, "arm",
       LET c == [InMode(cfg, op[a].mode) EXCEPT !.stage = op[a].stage,
                                                !.halted = FALSE]
       IN  IF op[a].exit THEN [c EXCEPT !.phase = "canary_exit_recovery"] ELSE c)

Promote(a) ==
  /\ StageOK(op[a].stage)
  /\ Acts(a, "promote", [cfg EXCEPT !.stage = op[a].stage])

\* Mutant of EnableGuard: the look before the gate is trusted.
EnableBlindly == TRUE

\* enableCanaryAutonomy looks at the config again before it writes.
EnableGuard ==
  /\ cfg.mode = "canary" /\ cfg.phase = "canary_probe"
  /\ ~cfg.halted /\ cfg.stage = 1

Enable(a) ==
  /\ EnableGuard
  /\ Acts(a, "enable", [cfg EXCEPT !.phase = "autonomous_canary", !.auto = TRUE])

\* fullMarketReadiness: mode and stage as read before its awaits, the newest
\* reconciliation and the proof as they are now.
MarketReady(a) ==
  /\ op[a].mode = "canary" /\ op[a].stage = 1
  /\ recon.status = "clean"
  /\ Proof

OpenMarket(a) ==
  /\ MarketReady(a)
  /\ Acts(a, "market", [cfg EXCEPT !.full = TRUE, !.auto = TRUE,
                          !.phase = "autonomous_canary", !.halted = FALSE])
-----------------------------------------------------------------------------
(* Restart.                                                                 *)

Crash ==
  /\ crashes < MaxCrash
  /\ crashes' = crashes + 1
  /\ adv' = AdvIdle
  /\ op' = [a \in Op |-> Idle]
  /\ boot' = [pc |-> "recover", halted |-> cfg.halted, bad |-> FALSE]
  /\ recon' = [recon EXCEPT !.by = Nobody]
  /\ UNCHANGED <<cfg, run, order>>

BootRecover(news, threw) ==
  /\ boot.pc = "recover"
  /\ order' = Recovered(news)
  /\ cfg' = IF Ambiguous(news, threw) THEN Halted(cfg) ELSE cfg
  /\ boot' = [boot EXCEPT !.pc = "reconcile", !.bad = Ambiguous(news, threw)]
  /\ UNCHANGED <<recon, run, adv, op, crashes>>

\* Custody is compared in a real-money mode only.
BootReconcile(status) ==
  /\ boot.pc = "reconcile"
  /\ IF cfg.mode \in Real
     THEN /\ recon' = [by |-> Nobody, status |-> status]
          /\ cfg' = Verdict(status)
     ELSE status = "clean" /\ UNCHANGED <<recon, cfg>>
  /\ boot' = [boot EXCEPT !.pc = "judge", !.bad = @ \/ status # "clean"]
  /\ UNCHANGED <<run, order, adv, op, crashes>>

\* runPreflight and, if it was armed, fullMarketReadiness: what they must find.
BootPreflight ==
  cfg.mode \in Real =>
    /\ Unresolved = {}
    /\ recon.status = "clean"
    /\ cfg.mode = "canary" /\ cfg.phase = "autonomous_canary" => Proof

\* Mutant of Judge: a failed check only halts what was fully armed.
JudgeFull(bad) == bad /\ cfg.full

\* Any failure brings the network up halted.
Judge(bad) == bad /\ (~boot.halted \/ cfg.full)

BootJudge(bad) ==
  /\ boot.pc = "judge"
  /\ boot.bad \/ ~BootPreflight => bad
  /\ cfg' = IF Judge(bad) THEN Halted(cfg) ELSE cfg
  /\ boot' = [pc |-> "up", halted |-> FALSE, bad |-> bad]
  /\ UNCHANGED <<recon, run, order, adv, op, crashes>>
-----------------------------------------------------------------------------
RunStep ==
  \/ \E r \in Run : \/ Start(r) \/ StartRecovery(r)
                    \/ Place(r) \/ PlaceRefused(r) \/ PlacedBefore(r)
                    \/ OrderEnded(r) \/ BeginProof(r)
  \/ \E accepted \in BOOLEAN : Placed(accepted)
  \/ \E status \in {"clean", "failed"} : EndProof(status)

OpStep(a) ==
  \/ \E m \in Real, s \in Stage : ArmBegin(a, m, s)
  \/ \E s \in Stage : PromoteBegin(a, s)
  \/ ShadowBegin(a) \/ EnableBegin(a) \/ MarketBegin(a)
  \/ \E news \in News, threw \in BOOLEAN : GateRecover(a, news, threw)
  \/ \E status \in {"clean", "failed"} : GateReconcile(a, status)
  \/ GatePreflight(a) \/ GiveUp(a)
  \/ Arm(a) \/ Promote(a) \/ Enable(a) \/ OpenMarket(a)

BootStep ==
  \/ Crash
  \/ \E news \in News, threw \in BOOLEAN : BootRecover(news, threw)
  \/ \E status \in {"clean", "failed"} : BootReconcile(status)
  \/ \E bad \in BOOLEAN : BootJudge(bad)

ControlStep ==
  \/ HaltNetwork
  \/ \E m \in Mode : SetMode(m)
  \/ \E s \in Stage : Demote(s)
  \/ BeginPass
  \/ \E status \in {"clean", "failed"} : EndPass(status)
  \/ \E k \in Key, answer \in OrderState : Poll(k, answer)

Next ==
  \/ RunStep
  \/ \E a \in Op : OpStep(a)
  \/ BootStep
  \/ ControlStep

Spec == Init /\ [][Next]_vars
-----------------------------------------------------------------------------
\* While the network is halted no autonomy flag is up, whatever ceremony, mode
\* change or round trip was under way when the halt came (haltNetwork against
\* enableCanaryAutonomy, setLiveMode and the full-market launch).
HaltEndsAutonomy == cfg.halted => ~cfg.auto /\ ~cfg.full

\* The network is in its autonomous phase only if some round trip was completed
\* (completedCanaryExperiment).
AutonomyHasProof ==
  cfg.phase = "autonomous_canary" => \E r \in Run : run[r] = "completed"

\* One round trip at a time, recovery of a stranded one included (start).
OneOpenRun == \A q, r \in Open : q = r

\* At most one sale of a position ever reached the adapter, whichever key it had
\* and wherever a crash fell, and only of a position that was bought (SellKey,
\* INSERT OR IGNORE by intent_id).
SoldOnce ==
  \A r \in Run :
    LET sent(s) == order[<<r, s>>] \notin {"none", "rejected", "min_size"} IN
    /\ ~(sent("sell") /\ sent("exit"))
    /\ sent("sell") \/ sent("exit") => order[<<r, "buy">>] = "filled"

\* A run that completes is one filled buy and one filled sale, and leaves no
\* round trip's WETH in the account ("must leave zero WETH after
\* reconciliation", deploy/README.md; advanceOne).
ProofIsExact ==
  [][\A r \in Run : run[r] # "completed" /\ run'[r] = "completed" =>
       /\ order[<<r, "buy">>] = "filled"
       /\ (order[<<r, "sell">>] = "filled") # (order[<<r, "exit">>] = "filled")
       /\ \A q \in Run : order[<<q, "buy">>] = "filled" =>
            \E t \in {"sell", "exit"} : order[<<q, t>>] = "filled"]_vars

\* boot(): any failed or ambiguous check stays halted (deploy/README.md).
BootFailsClosed ==
  [][boot.pc # "up" /\ boot'.pc = "up" /\ boot'.bad => cfg'.halted]_vars

\* "full-market launch starts only from $5 canary stage"
\* (fullMarketReadiness).
LaunchFromCanary ==
  [][cfg'.full /\ ~cfg.full => cfg.mode = "canary" /\ cfg.stage = 1]_vars
=============================================================================
