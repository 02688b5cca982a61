-------------------------- MODULE LiveControlProofs --------------------------
(***************************************************************************)
(* Theorems about LiveControl, for any number of runs, admin requests,     *)
(* capital stages and crashes: every property its run checks.              *)
(*                                                                         *)
(* Two facts carry the argument.  What is in flight may become anything    *)
(* but stays sent, and what is filled stays filled except under the one    *)
(* order that is being placed (Asked, AdvInv); and a completed run is      *)
(* completed for good, so an enable request that saw the proof still has   *)
(* it when it writes (OpInv).                                              *)
(***************************************************************************)
EXTENDS LiveControl, TLAPS

CfgRow  == [mode : Mode, phase : Phase, auto : BOOLEAN, full : BOOLEAN,
            halted : BOOLEAN, stage : Stage]
OpRow   == [kind : Kind, pc : {"idle", "recover", "reconcile", "preflight", "act"},
            mode : Mode, stage : Stage, exit : BOOLEAN]
AdvRow  == [pc : {"idle", "placing", "reconciling"}, run : Run \cup {Nobody},
            side : Side, phase : Phase]
BootRow == [pc : {"recover", "reconcile", "judge", "up"}, halted : BOOLEAN,
            bad : BOOLEAN]
ReconRow == [by : Clerk \cup {Nobody}, status : {"none", "running", "clean", "failed"}]

Sent == {"submitting", "lost", "pending", "unclear", "filled", "failed"}

CfgInv == cfg \in CfgRow /\ HaltEndsAutonomy /\ AutonomyHasProof

RunInv == run \in [Run -> RunState] /\ OneOpenRun

OneSale(r) ==
  /\ order[<<r, "exit">>] # "none" => order[<<r, "sell">>] = "min_size"
  /\ order[<<r, "sell">>] \in Sent \/ order[<<r, "exit">>] \in Sent
       => order[<<r, "buy">>] = "filled"
  /\ run[r] \in {"none", "created"}
       => order[<<r, "sell">>] = "none" /\ order[<<r, "exit">>] = "none"
  /\ run[r] = "reconciling"
       => order[<<r, "sell">>] = "filled" \/ order[<<r, "exit">>] = "filled"

OrderInv == order \in [Key -> OrderState] /\ \A r \in Run : OneSale(r)

AdvInv ==
  /\ adv \in AdvRow
  /\ adv.pc # "idle" => adv.run \in Run
  /\ adv.pc = "placing" =>
       /\ order[<<adv.run, adv.side>>] \in Sent
       /\ run[adv.run] = IF adv.side = "buy" THEN "created" ELSE "buy_confirmed"
  /\ adv.pc = "reconciling" => run[adv.run] = "reconciling"

OpInv ==
  /\ op \in [Op -> OpRow]
  /\ \A a \in Op : op[a].pc # "idle" /\ op[a].kind = "enable" => Proof

BootInv ==
  /\ boot \in BootRow
  /\ boot.pc # "up" => /\ adv.pc = "idle"
                       /\ \A a \in Op : op[a].pc = "idle"
                       /\ boot.halted => cfg.halted

Inv ==
  /\ CfgInv
  /\ recon \in ReconRow
  /\ RunInv
  /\ OrderInv
  /\ AdvInv
  /\ OpInv
  /\ BootInv
  /\ crashes \in 0 .. MaxCrash

LEMMA InvType == ASSUME Inv PROVE TypeOK
BY DEF Inv, CfgInv, RunInv, OrderInv, AdvInv, OpInv, BootInv, TypeOK,
       CfgRow, ReconRow, OpRow, AdvRow, BootRow

LEMMA InvSafety ==
  ASSUME Inv PROVE HaltEndsAutonomy /\ AutonomyHasProof /\ OneOpenRun /\ SoldOnce
<1>1. HaltEndsAutonomy /\ AutonomyHasProof /\ OneOpenRun
  BY DEF Inv, CfgInv, RunInv
<1>2. ASSUME NEW r \in Run, NEW s \in Side
      PROVE  order[<<r, s>>] \in OrderState
  BY DEF Inv, OrderInv, Key
<1>3. SoldOnce
  <2> SUFFICES ASSUME NEW r \in Run
               PROVE  LET sent(s) == order[<<r, s>>] \notin {"none", "rejected", "min_size"} IN
                      /\ ~(sent("sell") /\ sent("exit"))
                      /\ sent("sell") \/ sent("exit") => order[<<r, "buy">>] = "filled"
    BY DEF SoldOnce
  <2>1. OneSale(r)
    BY DEF Inv, OrderInv
  <2> QED BY <1>2, <2>1 DEF OneSale, Sent, OrderState, Side
<1> QED BY <1>1, <1>3

LEMMA InitInv == ASSUME Init PROVE Inv
<1> USE TopAssumption
<1>1. CfgInv
  <2>1. cfg \in CfgRow
    BY DEF Init, CfgRow, Mode, Phase, Stage
  <2> QED BY <2>1 DEF Init, CfgInv, HaltEndsAutonomy, AutonomyHasProof
<1>2. recon \in ReconRow
  BY DEF Init, ReconRow
<1>3. RunInv
  <2>1. \A r \in Run : run[r] \in Closed /\ run[r] \in RunState
    BY DEF Init, Closed, RunState
  <2>2. run \in [Run -> RunState]
    BY <2>1 DEF Init
  <2> QED BY <2>1, <2>2 DEF RunInv, OneOpenRun, Open
<1>4. OrderInv
  <2> PICK Old \in SUBSET Run :
         /\ run = [r \in Run |-> IF r \in Old THEN "stranded" ELSE "none"]
         /\ order = [k \in Key |-> IF k[1] \notin Old \/ k[2] = "exit" THEN "none"
                                   ELSE IF k[2] = "buy" THEN "filled"
                                   ELSE "min_size"]
    BY DEF Init
  <2>1. order \in [Key -> OrderState]
    BY DEF OrderState
  <2>2. ASSUME NEW r \in Run PROVE OneSale(r)
    <3>1. \A s \in Side : <<r, s>> \in Key
      BY DEF Key
    <3>2. order[<<r, "exit">>] = "none"
      BY <3>1 DEF Side
    <3>3. order[<<r, "sell">>] = IF r \in Old THEN "min_size" ELSE "none"
      BY <3>1 DEF Side
    <3>4. run[r] = IF r \in Old THEN "stranded" ELSE "none"
      OBVIOUS
    <3> QED BY <3>2, <3>3, <3>4 DEF OneSale, Sent
  <2> QED BY <2>1, <2>2 DEF OrderInv
<1>5. AdvInv
  BY DEF Init, AdvInv, AdvIdle, AdvRow, Side, Phase
<1>6. OpInv
  <2>1. Idle \in OpRow /\ Idle.pc = "idle"
    BY DEF Idle, OpRow, Kind, Mode, Stage
  <2> QED BY <2>1 DEF Init, OpInv
<1>7. BootInv
  BY DEF Init, BootInv, BootRow
<1>8. crashes \in 0 .. MaxCrash
  BY BoundAssumption DEF Init
<1> QED BY <1>1, <1>2, <1>3, <1>4, <1>5, <1>6, <1>7, <1>8 DEF Inv
-----------------------------------------------------------------------------
(* What the steps are made of.                                              *)

\* A write of live_config that keeps to the rules.
CfgStep ==
  /\ cfg' \in CfgRow
  /\ HaltEndsAutonomy'
  /\ cfg'.phase = "autonomous_canary" => Proof
  /\ boot.pc # "up" /\ cfg.halted => cfg'.halted

RunsKept == \A r \in Run : run[r] = "completed" => run'[r] = "completed"

LEMMA HaltedRow ==
  ASSUME NEW c \in CfgRow
  PROVE  /\ Halted(c) \in CfgRow
         /\ Halted(c).halted = TRUE /\ Halted(c).auto = FALSE /\ Halted(c).full = FALSE
         /\ Halted(c).phase = c.phase /\ Halted(c).mode = c.mode
BY DEF Halted, CfgRow

LEMMA InModeRow ==
  ASSUME NEW c \in CfgRow, NEW m \in Mode
  PROVE  /\ InMode(c, m) \in CfgRow
         /\ InMode(c, m).halted = c.halted /\ InMode(c, m).full = FALSE
         /\ InMode(c, m).auto = (m = "live")
         /\ InMode(c, m).phase # "autonomous_canary"
<1>1. (m = "live") \in BOOLEAN
  OBVIOUS
<1>2. (IF m = "canary" THEN "canary_probe" ELSE m) \in Phase \ {"autonomous_canary"}
  BY DEF Mode, Phase
<1> QED BY <1>1, <1>2 DEF InMode, CfgRow

LEMMA HaltOrKeep ==
  ASSUME Inv, cfg' = Halted(cfg) \/ cfg' = cfg
  PROVE  CfgStep
<1>1. cfg \in CfgRow /\ HaltEndsAutonomy /\ (cfg.phase = "autonomous_canary" => Proof)
  BY DEF Inv, CfgInv, AutonomyHasProof, Proof
<1>2. CASE cfg' = Halted(cfg)
  BY <1>1, <1>2, HaltedRow DEF CfgStep, HaltEndsAutonomy
<1>3. CASE cfg' = cfg
  BY <1>1, <1>3 DEF CfgStep, HaltEndsAutonomy
<1> QED BY <1>2, <1>3

LEMMA CfgKeeps ==
  ASSUME CfgStep, RunsKept PROVE CfgInv'
BY DEF CfgStep, RunsKept, CfgInv, AutonomyHasProof, Proof

LEMMA OpKeeps ==
  ASSUME OpInv, RunsKept, UNCHANGED op PROVE OpInv'
BY DEF OpInv, RunsKept, Proof

\* A request ends or moves on to its next step.
LEMMA OpMoves ==
  ASSUME OpInv, RunsKept, NEW a \in Op, op[a].pc # "idle", NEW x \in OpRow,
         op' = [op EXCEPT ![a] = x], x.pc = "idle" \/ x.kind = op[a].kind
  PROVE  OpInv'
BY DEF OpInv, RunsKept, Proof

LEMMA BootKeeps ==
  ASSUME BootInv, CfgStep, UNCHANGED <<boot, adv, op>> PROVE BootInv'
BY DEF BootInv, CfgStep

\* Outside of boot the boot conditions are idle.
LEMMA BootUp ==
  ASSUME BootInv, boot.pc = "up", UNCHANGED boot PROVE BootInv'
BY DEF BootInv

\* Orders in flight have been asked for, by a poll or by recovery.
Asked ==
  /\ order' \in [Key -> OrderState]
  /\ \A k \in Key : \/ order'[k] = order[k]
                    \/ order[k] \in InFlight /\ order'[k] \in Sent

LEMMA AskedKeeps ==
  ASSUME Inv, Asked, UNCHANGED <<run, adv>>
  PROVE  OrderInv' /\ AdvInv'
<1>1. \A r \in Run, s \in Side : <<r, s>> \in Key
  BY DEF Key
<1>2. ASSUME NEW r \in Run PROVE OneSale(r)'
  <2> DEFINE Kept(s) == \/ order'[<<r, s>>] = order[<<r, s>>]
                        \/ order[<<r, s>>] \in InFlight /\ order'[<<r, s>>] \in Sent
  <2>1. Kept("buy") /\ Kept("sell") /\ Kept("exit")
    BY <1>1 DEF Asked, Side
  <2>2. OneSale(r)
    BY DEF Inv, OrderInv
  <2> QED BY <2>1, <2>2 DEF OneSale, Sent, InFlight
<1>3. OrderInv'
  BY <1>2 DEF OrderInv, Asked
<1>4. adv.pc = "placing" => order'[<<adv.run, adv.side>>] \in Sent
  <2> SUFFICES ASSUME adv.pc = "placing" PROVE order'[<<adv.run, adv.side>>] \in Sent
    OBVIOUS
  <2>1. adv.run \in Run /\ adv.side \in Side /\ order[<<adv.run, adv.side>>] \in Sent
    BY DEF Inv, AdvInv, AdvRow
  <2>2. <<adv.run, adv.side>> \in Key
    BY <2>1, <1>1
  <2> QED BY <2>1, <2>2 DEF Asked
<1>5. AdvInv'
  BY <1>4 DEF Inv, AdvInv
<1> QED BY <1>3, <1>5

LEMMA AnswersSent ==
  ASSUME NEW k \in Key
  PROVE  Answers(k) \subseteq Sent /\ Answers(k) \subseteq OrderState
BY DEF Answers, Sent, OrderState

LEMMA RecoveredAsks ==
  ASSUME Inv, NEW news \in News, order' = Recovered(news)
  PROVE  Asked
<1>1. order \in [Key -> OrderState]
  BY DEF Inv, OrderInv
<1>2. ASSUME NEW k \in Unresolved
      PROVE  news[k] \in Sent /\ news[k] \in OrderState /\ order[k] \in InFlight
  <2>1. k \in Key /\ order[k] \in InFlight
    BY DEF Unresolved
  <2>2. news[k] \in Answers(k)
    BY DEF News
  <2> QED BY <2>1, <2>2, AnswersSent
<1>3. ASSUME NEW k \in Key
      PROVE  /\ order'[k] \in OrderState
             /\ order'[k] = order[k] \/ (order[k] \in InFlight /\ order'[k] \in Sent)
  <2>1. order'[k] = IF k \in Unresolved THEN news[k] ELSE order[k]
    BY DEF Recovered
  <2> QED BY <1>1, <1>2, <2>1
<1>4. order' \in [Key -> OrderState]
  <2>1. order' = [k \in Key |-> order'[k]]
    BY DEF Recovered
  <2> QED BY <2>1, <1>3
<1> QED BY <1>3, <1>4 DEF Asked
-----------------------------------------------------------------------------
(* The steps, group by group.                                               *)

\* Only live_config and the newest reconciliation change.
LEMMA ConfigOnly ==
  ASSUME Inv, CfgStep, recon' \in ReconRow,
         UNCHANGED <<run, order, adv, op, boot, crashes>>
  PROVE  Inv'
<1>1. RunsKept
  BY DEF RunsKept
<1>2. CfgInv' /\ OpInv'
  BY <1>1, CfgKeeps, OpKeeps DEF Inv
<1>3. BootInv'
  BY BootKeeps DEF Inv
<1>4. RunInv' /\ OrderInv' /\ AdvInv'
  BY DEF Inv, RunInv, OneOpenRun, Open, OrderInv, OneSale, AdvInv
<1> QED BY <1>2, <1>3, <1>4 DEF Inv

LEMMA ClosingRow ==
  ASSUME recon \in ReconRow, NEW c, NEW status \in {"clean", "failed"}
  PROVE  Closing(c, status) \in ReconRow
BY DEF Closing, ReconRow

LEMMA VerdictStep ==
  ASSUME Inv, NEW status, cfg' = Verdict(status) PROVE CfgStep
BY HaltOrKeep DEF Verdict

LEMMA ControlInv == ASSUME Inv, ControlStep PROVE Inv'
<1>1. ASSUME HaltNetwork PROVE Inv'
  <2>1. CfgStep
    BY <1>1, HaltOrKeep DEF HaltNetwork, SetConfig
  <2> QED BY <1>1, <2>1, ConfigOnly DEF HaltNetwork, SetConfig, Inv
<1>2. ASSUME NEW m \in Mode, SetMode(m) PROVE Inv'
  <2>1. cfg \in CfgRow /\ boot.pc = "up" /\ cfg' = InMode(cfg, m) /\ m # "live"
    BY <1>2 DEF SetMode, SetConfig, Up, Inv, CfgInv
  <2>2. CfgStep
    BY <2>1, InModeRow DEF CfgStep, HaltEndsAutonomy
  <2> QED BY <1>2, <2>2, ConfigOnly DEF SetMode, SetConfig, Inv
<1>3. ASSUME NEW s \in Stage, Demote(s) PROVE Inv'
  <2>1. cfg \in CfgRow /\ boot.pc = "up" /\ cfg' = [cfg EXCEPT !.stage = s]
    BY <1>3 DEF Demote, SetConfig, Up, Inv, CfgInv
  <2>2. /\ cfg' \in CfgRow /\ cfg'.halted = cfg.halted /\ cfg'.auto = cfg.auto
        /\ cfg'.full = cfg.full /\ cfg'.phase = cfg.phase
    BY <2>1 DEF CfgRow
  <2>3. CfgStep
    BY <2>1, <2>2 DEF CfgStep, Inv, CfgInv, HaltEndsAutonomy, AutonomyHasProof, Proof
  <2> QED BY <1>3, <2>3, ConfigOnly DEF Demote, SetConfig, Inv
<1>4. ASSUME BeginPass PROVE Inv'
  <2>1. recon' \in ReconRow
    BY <1>4 DEF BeginPass, ReconRow, Clerk
  <2>2. CfgStep
    BY <1>4, HaltOrKeep DEF BeginPass
  <2> QED BY <1>4, <2>1, <2>2, ConfigOnly DEF BeginPass
<1>5. ASSUME NEW status \in {"clean", "failed"}, EndPass(status) PROVE Inv'
  <2>1. recon' \in ReconRow
    BY <1>5, ClosingRow DEF EndPass, Inv
  <2>2. CfgStep
    BY <1>5, VerdictStep DEF EndPass
  <2> QED BY <1>5, <2>1, <2>2, ConfigOnly DEF EndPass
<1>6. ASSUME NEW k \in Key, NEW answer \in OrderState, Poll(k, answer) PROVE Inv'
  <2>1. order \in [Key -> OrderState] /\ order[k] = "pending" /\ answer \in Sent
        /\ order' = [order EXCEPT ![k] = answer]
    BY <1>6, AnswersSent DEF Poll, Inv, OrderInv
  <2>2. Asked
    BY <2>1 DEF Asked, InFlight
  <2>3. OrderInv' /\ AdvInv'
    BY <1>6, <2>2, AskedKeeps DEF Poll
  <2>4. CfgStep
    BY <1>6, HaltOrKeep DEF Poll
  <2>5. RunsKept
    BY <1>6 DEF Poll, RunsKept
  <2>6. CfgInv' /\ OpInv'
    BY <1>6, <2>4, <2>5, CfgKeeps, OpKeeps DEF Poll, Inv
  <2>7. BootInv' /\ RunInv'
    BY <1>6, <2>4, BootKeeps DEF Poll, Inv, RunInv, OneOpenRun, Open
  <2> QED BY <1>6, <2>3, <2>6, <2>7 DEF Poll, Inv
<1> QED BY <1>1, <1>2, <1>3, <1>4, <1>5, <1>6 DEF ControlStep

\* A ceremony's step leaves runs, advance() and boot alone; it runs only while
\* the network is up.
LEMMA CeremonyKeeps ==
  ASSUME Inv, CfgStep, recon' \in ReconRow, OpInv',
         Asked \/ UNCHANGED order, boot.pc = "up",
         UNCHANGED <<run, adv, boot, crashes>>
  PROVE  Inv'
<1>1. RunsKept
  BY DEF RunsKept
<1>2. CfgInv'
  BY <1>1, CfgKeeps
<1>3. OrderInv' /\ AdvInv'
  <2>1. CASE Asked
    BY <2>1, AskedKeeps
  <2>2. CASE UNCHANGED order
    BY <2>2 DEF Inv, OrderInv, OneSale, AdvInv
  <2> QED BY <2>1, <2>2
<1>4. RunInv' /\ BootInv'
  BY BootUp DEF Inv, RunInv, OneOpenRun, Open
<1> QED BY <1>2, <1>3, <1>4 DEF Inv

LEMMA BeginOp ==
  ASSUME Inv, NEW a \in Op, NEW kind \in Kind,
         NEW pc \in {"recover", "preflight"}, NEW m \in Mode, NEW s \in Stage,
         NEW exit \in BOOLEAN, Begin(a, kind, pc, m, s, exit), kind = "enable" => Proof
  PROVE  Inv'
<1> DEFINE x == [kind |-> kind, pc |-> pc, mode |-> m, stage |-> s, exit |-> exit]
<1>1. x \in OpRow /\ x.kind = kind
  BY DEF OpRow
<1>2. op' = [op EXCEPT ![a] = x] /\ boot.pc = "up"
  BY DEF Begin, Up
<1> HIDE DEF x
<1>3. OpInv'
  BY <1>1, <1>2 DEF Inv, OpInv, Proof, Begin
<1>4. CfgStep
  BY HaltOrKeep DEF Begin
<1> QED BY <1>2, <1>3, <1>4, CeremonyKeeps DEF Begin, Inv

LEMMA OpEnds ==
  ASSUME Inv, NEW a \in Op, End(a), UNCHANGED run PROVE OpInv'
<1>1. Idle \in OpRow /\ Idle.pc = "idle"
  BY TopAssumption DEF Idle, OpRow, Kind, Mode, Stage
<1> QED BY <1>1 DEF Inv, OpInv, End, Proof

LEMMA OpSteps ==
  ASSUME Inv, NEW a \in Op, NEW pc \in {"reconcile", "preflight", "act"},
         Step(a, pc), UNCHANGED run, op[a].pc # "idle"
  PROVE  OpInv'
<1>1. op[a] \in OpRow
  BY DEF Inv, OpInv
<1> DEFINE x == [op[a] EXCEPT !.pc = pc]
<1>2. x \in OpRow /\ x.kind = op[a].kind
  BY <1>1 DEF OpRow
<1>3. op' = [op EXCEPT ![a] = x]
  BY DEF Step
<1>4. RunsKept
  BY DEF RunsKept
<1> HIDE DEF x
<1> QED BY <1>2, <1>3, <1>4, OpMoves DEF Inv

\* A request that is under way keeps the network up (no boot is running).
LEMMA OpUp ==
  ASSUME Inv, NEW a \in Op, op[a].pc # "idle" PROVE boot.pc = "up"
BY DEF Inv, BootInv

LEMMA CeremonyBegins ==
  ASSUME Inv, NEW a \in Op,
         \/ \E m \in Real, s \in Stage : ArmBegin(a, m, s)
         \/ \E s \in Stage : PromoteBegin(a, s)
         \/ ShadowBegin(a) \/ EnableBegin(a) \/ MarketBegin(a)
  PROVE  Inv'
<1> USE TopAssumption DEF Kind
<1>0. cfg.mode \in Mode /\ cfg.stage \in Stage
  BY DEF Inv, CfgInv, CfgRow
<1>1. ASSUME NEW m \in Real, NEW s \in Stage, ArmBegin(a, m, s) PROVE Inv'
  <2> DEFINE x == /\ m = "canary" /\ s = 1 /\ cfg.halted
                  /\ cfg.mode = "canary" /\ cfg.stage = 1 /\ ~cfg.auto
                  /\ \E r \in Run : Candidate(r)
  <2>1. x \in BOOLEAN /\ m \in Mode
    BY DEF Real, Mode
  <2>2. Begin(a, "arm", "recover", m, s, x)
    BY <1>1 DEF ArmBegin
  <2> HIDE DEF x
  <2> QED BY <2>1, <2>2, BeginOp
<1>2. ASSUME NEW s \in Stage, PromoteBegin(a, s) PROVE Inv'
  BY <1>0, <1>2, BeginOp DEF PromoteBegin
<1>3. ASSUME ShadowBegin(a) PROVE Inv'
  <2>1. "shadow" \in Mode
    BY DEF Mode
  <2> QED BY <1>0, <1>3, <2>1, BeginOp DEF ShadowBegin
<1>4. ASSUME EnableBegin(a) PROVE Inv'
  <2>1. "canary" \in Mode /\ 1 \in Stage
    BY DEF Mode, Stage
  <2> QED BY <1>4, <2>1, BeginOp DEF EnableBegin
<1>5. ASSUME MarketBegin(a) PROVE Inv'
  <2>1. "canary" \in Mode
    BY DEF Mode
  <2> QED BY <1>0, <1>5, <2>1, BeginOp DEF MarketBegin
<1> QED BY <1>1, <1>2, <1>3, <1>4, <1>5

LEMMA RecoverInv ==
  ASSUME Inv, NEW a \in Op, NEW news \in News, NEW threw \in BOOLEAN,
         GateRecover(a, news, threw)
  PROVE  Inv'
<1>1. op[a].pc # "idle" /\ UNCHANGED run
  BY DEF GateRecover
<1>2. boot.pc = "up"
  BY <1>1, OpUp
<1>3. Asked
  BY RecoveredAsks DEF GateRecover
<1>4. cfg \in CfgRow /\ HaltEndsAutonomy
  BY DEF Inv, CfgInv
<1>5. CASE Ambiguous(news, threw)
  <2>1. CfgStep
    BY <1>5, HaltOrKeep DEF GateRecover
  <2>2. OpInv'
    BY <1>1, <1>5, OpEnds DEF GateRecover
  <2> QED BY <1>2, <1>3, <1>5, <2>1, <2>2, CeremonyKeeps DEF GateRecover, Inv
<1>6. CASE ~Ambiguous(news, threw) /\ op[a].kind = "shadow"
  <2> DEFINE c == InMode(cfg, "shadow")
  <2>1. c \in CfgRow /\ c.auto = FALSE /\ c.full = FALSE /\ c.phase # "autonomous_canary"
    BY <1>4, InModeRow DEF Mode
  <2>2. cfg' = [c EXCEPT !.halted = FALSE]
    BY <1>6 DEF GateRecover
  <2> HIDE DEF c
  <2>3. CfgStep
    BY <1>2, <2>1, <2>2 DEF CfgStep, HaltEndsAutonomy, CfgRow
  <2>4. OpInv'
    BY <1>1, <1>6, OpEnds DEF GateRecover
  <2> QED BY <1>2, <1>3, <1>6, <2>3, <2>4, CeremonyKeeps DEF GateRecover, Inv
<1>7. CASE ~Ambiguous(news, threw) /\ op[a].kind # "shadow"
  <2>1. CfgStep
    BY <1>7, HaltOrKeep DEF GateRecover
  <2>2. OpInv'
    BY <1>1, <1>7, OpSteps DEF GateRecover
  <2>3. recon' \in ReconRow
    BY <1>7 DEF GateRecover, ReconRow, Clerk
  <2> QED BY <1>2, <1>3, <1>7, <2>1, <2>2, <2>3, CeremonyKeeps DEF GateRecover
<1> QED BY <1>5, <1>6, <1>7

LEMMA ReconcileInv ==
  ASSUME Inv, NEW a \in Op, NEW status \in {"clean", "failed"}, GateReconcile(a, status)
  PROVE  Inv'
<1>1. op[a].pc # "idle" /\ UNCHANGED run
  BY DEF GateReconcile
<1>2. recon' \in ReconRow
  BY ClosingRow DEF GateReconcile, Inv
<1>3. CfgStep
  BY VerdictStep DEF GateReconcile
<1>4. OpInv'
  BY <1>1, OpSteps, OpEnds DEF GateReconcile
<1> QED BY <1>1, <1>2, <1>3, <1>4, OpUp, CeremonyKeeps DEF GateReconcile

LEMMA PreflightInv == ASSUME Inv, NEW a \in Op, GatePreflight(a) PROVE Inv'
<1>1. op[a].pc # "idle" /\ UNCHANGED run /\ op[a] \in OpRow
  BY DEF GatePreflight, Inv, OpInv
<1>2. cfg.mode \in Mode /\ cfg.stage \in Stage
  BY DEF Inv, CfgInv, CfgRow
<1>3. RunsKept
  BY <1>1 DEF RunsKept
<1>4. OpInv'
  <2> DEFINE x == IF op[a].kind = "market"
                  THEN [op[a] EXCEPT !.pc = "act", !.mode = cfg.mode, !.stage = cfg.stage]
                  ELSE [op[a] EXCEPT !.pc = "act"]
  <2>1. ASSUME op[a].kind = "market" PROVE x \in OpRow /\ x.kind = op[a].kind
    <3> DEFINE x1 == [op[a] EXCEPT !.pc = "act"]
               x2 == [x1 EXCEPT !.mode = cfg.mode]
    <3>1. x1 \in OpRow /\ x1.kind = op[a].kind
      BY <1>1 DEF OpRow
    <3> HIDE DEF x1
    <3>2. x2 \in OpRow /\ x2.kind = op[a].kind
      BY <1>2, <3>1 DEF OpRow
    <3> HIDE DEF x2
    <3>3. /\ [x2 EXCEPT !.stage = cfg.stage] \in OpRow
          /\ [x2 EXCEPT !.stage = cfg.stage].kind = op[a].kind
      BY <1>2, <3>2 DEF OpRow
    <3>4. x = [x2 EXCEPT !.stage = cfg.stage]
      BY <2>1, Zenon DEF x1, x2
    <3> QED BY <3>3, <3>4
  <2>2. ASSUME op[a].kind # "market" PROVE x \in OpRow /\ x.kind = op[a].kind
    BY <1>1, <2>2 DEF OpRow
  <2>3. x \in OpRow /\ x.kind = op[a].kind
    BY <2>1, <2>2
  <2>4. op' = [op EXCEPT ![a] = x]
    BY Zenon DEF GatePreflight
  <2> HIDE DEF x
  <2> QED BY <1>1, <1>3, <2>3, <2>4, OpMoves DEF Inv
<1>5. CfgStep
  BY HaltOrKeep DEF GatePreflight
<1> QED BY <1>1, <1>4, <1>5, OpUp, CeremonyKeeps DEF GatePreflight, Inv

LEMMA GiveUpInv == ASSUME Inv, NEW a \in Op, GiveUp(a) PROVE Inv'
<1>1. OpInv' /\ CfgStep
  BY OpEnds, HaltOrKeep DEF GiveUp
<1> QED BY <1>1, OpUp, CeremonyKeeps DEF GiveUp, Inv

LEMMA ActsInv ==
  ASSUME Inv, NEW a \in Op, NEW kind, NEW c, Acts(a, kind, c), CfgStep
  PROVE  Inv'
<1>1. op[a].pc # "idle" /\ UNCHANGED run
  BY DEF Acts
<1>2. OpInv'
  BY <1>1, OpEnds DEF Acts
<1> QED BY <1>1, <1>2, OpUp, CeremonyKeeps DEF Acts, Inv

LEMMA ArmInv == ASSUME Inv, NEW a \in Op, Arm(a) PROVE Inv'
<1> DEFINE i == InMode(cfg, op[a].mode)
           c == [i EXCEPT !.stage = op[a].stage, !.halted = FALSE]
           e == [c EXCEPT !.phase = "canary_exit_recovery"]
           d == IF op[a].exit THEN e ELSE c
<1>1. op[a] \in OpRow /\ cfg \in CfgRow
  BY DEF Inv, OpInv, CfgInv
<1>2. i \in CfgRow /\ i.phase # "autonomous_canary" /\ op[a].stage \in Stage
  BY <1>1, InModeRow DEF OpRow
<1>3. Acts(a, "arm", d)
  BY Zenon DEF Arm
<1>4. boot.pc = "up"
  BY <1>3, OpUp DEF Acts
<1>5. c \in CfgRow /\ c.halted = FALSE /\ c.phase # "autonomous_canary"
  <2> HIDE DEF i
  <2> DEFINE j == [i EXCEPT !.stage = op[a].stage]
  <2>1. j \in CfgRow /\ j.phase = i.phase
    BY <1>2 DEF CfgRow
  <2>2. c = [j EXCEPT !.halted = FALSE]
    BY Zenon DEF j
  <2> HIDE DEF j, c
  <2> QED BY <1>2, <2>1, <2>2 DEF CfgRow
<1> HIDE DEF c
<1>6. e \in CfgRow /\ e.halted = FALSE /\ e.phase # "autonomous_canary"
  BY <1>5 DEF CfgRow, Phase
<1> HIDE DEF e
<1>7. d \in CfgRow /\ d.halted = FALSE /\ d.phase # "autonomous_canary"
  BY <1>5, <1>6
<1> HIDE DEF d
<1>8. CfgStep
  BY <1>3, <1>4, <1>7 DEF Acts, CfgStep, HaltEndsAutonomy
<1> QED BY <1>3, <1>8, ActsInv

LEMMA PromoteInv == ASSUME Inv, NEW a \in Op, Promote(a) PROVE Inv'
<1>1. op[a] \in OpRow /\ cfg \in CfgRow
  BY DEF Inv, OpInv, CfgInv
<1>2. boot.pc = "up"
  BY OpUp DEF Promote, Acts
<1>3. cfg' = [cfg EXCEPT !.stage = op[a].stage]
  BY DEF Promote, Acts
<1>4. /\ cfg' \in CfgRow /\ cfg'.halted = cfg.halted /\ cfg'.auto = cfg.auto
      /\ cfg'.full = cfg.full /\ cfg'.phase = cfg.phase
  BY <1>1, <1>3 DEF CfgRow, OpRow
<1>5. CfgStep
  BY <1>2, <1>4 DEF CfgStep, Inv, CfgInv, HaltEndsAutonomy, AutonomyHasProof, Proof
<1> QED BY <1>5, ActsInv DEF Promote

LEMMA EnableInv == ASSUME Inv, NEW a \in Op, Enable(a) PROVE Inv'
<1>1. cfg \in CfgRow /\ ~cfg.halted
  BY DEF Inv, CfgInv, Enable, EnableGuard
<1>2. boot.pc = "up" /\ Proof
  BY OpUp DEF Enable, Acts, Inv, OpInv
<1>3. cfg' = [cfg EXCEPT !.phase = "autonomous_canary", !.auto = TRUE]
  BY DEF Enable, Acts
<1>4. cfg' \in CfgRow /\ cfg'.halted = cfg.halted
  <2> DEFINE c == [cfg EXCEPT !.phase = "autonomous_canary"]
  <2>1. c \in CfgRow /\ c.halted = cfg.halted
    BY <1>1 DEF CfgRow, Phase
  <2>2. cfg' = [c EXCEPT !.auto = TRUE]
    BY <1>3, Zenon
  <2> HIDE DEF c
  <2> QED BY <2>1, <2>2 DEF CfgRow
<1>5. CfgStep
  BY <1>1, <1>2, <1>4 DEF CfgStep, HaltEndsAutonomy
<1> QED BY <1>5, ActsInv DEF Enable

LEMMA MarketInv == ASSUME Inv, NEW a \in Op, OpenMarket(a) PROVE Inv'
<1>1. cfg \in CfgRow /\ Proof
  BY DEF Inv, CfgInv, OpenMarket, MarketReady
<1>2. boot.pc = "up"
  BY OpUp DEF OpenMarket, Acts
<1> DEFINE c1 == [cfg EXCEPT !.full = TRUE]
           c2 == [c1 EXCEPT !.auto = TRUE]
           c3 == [c2 EXCEPT !.phase = "autonomous_canary"]
<1>3. cfg' = [c3 EXCEPT !.halted = FALSE]
  BY Zenon DEF OpenMarket, Acts
<1>4. c1 \in CfgRow
  BY <1>1 DEF CfgRow
<1> HIDE DEF c1
<1>5. c2 \in CfgRow
  BY <1>4 DEF CfgRow
<1> HIDE DEF c2
<1>6. c3 \in CfgRow
  BY <1>5 DEF CfgRow, Phase
<1> HIDE DEF c3
<1>7. cfg' \in CfgRow /\ cfg'.halted = FALSE
  BY <1>3, <1>6 DEF CfgRow
<1>8. CfgStep
  BY <1>1, <1>2, <1>7 DEF CfgStep, HaltEndsAutonomy
<1> QED BY <1>8, ActsInv DEF OpenMarket

LEMMA CeremonyInv == ASSUME Inv, NEW a \in Op, OpStep(a) PROVE Inv'
BY CeremonyBegins, RecoverInv, ReconcileInv, PreflightInv, GiveUpInv, ArmInv,
   PromoteInv, EnableInv, MarketInv DEF OpStep
-----------------------------------------------------------------------------
(* The round trip.                                                          *)

LEMMA RunFrame ==
  ASSUME Inv, CfgStep, RunInv', OrderInv', AdvInv', RunsKept, recon' \in ReconRow,
         boot.pc = "up", UNCHANGED <<op, boot, crashes>>
  PROVE  Inv'
BY CfgKeeps, OpKeeps, BootUp DEF Inv

\* Only an open run moves, or a closed one when none is open.
LEMMA OneMoves ==
  ASSUME Inv, NEW r \in Run, NEW s \in RunState, run' = [run EXCEPT ![r] = s],
         run[r] # "completed", r \in Open \/ Open = {}
  PROVE  RunInv' /\ RunsKept
<1>1. run \in [Run -> RunState] /\ \A q \in Open : \A t \in Open : q = t
  BY DEF Inv, RunInv, OneOpenRun
<1>2. Open' \subseteq {r} \cup Open
  BY <1>1 DEF Open
<1>3. \A q \in Open' : q = r
  BY <1>1, <1>2
<1>4. RunInv'
  BY <1>1, <1>3 DEF RunInv, OneOpenRun
<1> QED BY <1>1, <1>4 DEF RunsKept

LEMMA AdvOpen == ASSUME Inv, adv.pc # "idle" PROVE adv.run \in Open /\ boot.pc = "up"
<1>1. adv \in AdvRow /\ adv.run \in Run
  BY DEF Inv, AdvInv
<1>2. run[adv.run] \in {"created", "buy_confirmed", "reconciling"}
  BY <1>1 DEF Inv, AdvInv, AdvRow
<1> QED BY <1>1, <1>2 DEF Inv, BootInv, Open, Closed

LEMMA AdvStays ==
  ASSUME Inv, adv.pc = "idle", UNCHANGED adv PROVE AdvInv'
BY DEF Inv, AdvInv

LEMMA AdvRests == ASSUME adv' = AdvIdle PROVE AdvInv'
BY DEF AdvInv, AdvIdle, AdvRow, Side, Phase

LEMMA OtherSale ==
  ASSUME NEW q \in Run, OneSale(q), run'[q] = run[q],
         \A s \in Side : order'[<<q, s>>] = order[<<q, s>>]
  PROVE  OneSale(q)'
BY DEF OneSale, Side

\* No order changes; the run of r goes to s.
LEMMA SalesKept ==
  ASSUME Inv, NEW r \in Run, NEW s \in RunState, run' = [run EXCEPT ![r] = s],
         UNCHANGED order,
         s \in {"none", "created"} => run[r] \in {"none", "created"},
         s = "reconciling" => \/ order[<<r, "sell">>] = "filled"
                              \/ order[<<r, "exit">>] = "filled"
  PROVE  OrderInv'
<1>1. run \in [Run -> RunState]
  BY DEF Inv, RunInv
<1>2. ASSUME NEW q \in Run PROVE OneSale(q)'
  <2>1. OneSale(q)
    BY DEF Inv, OrderInv
  <2>2. CASE q = r
    BY <1>1, <2>1, <2>2 DEF OneSale
  <2>3. CASE q # r
    BY <1>1, <2>1, <2>3 DEF OneSale
  <2> QED BY <2>2, <2>3
<1> QED BY <1>2 DEF Inv, OrderInv

\* One order of r changes as well.
LEMMA OneOrder ==
  ASSUME Inv, NEW r \in Run, NEW t \in Side, NEW x \in OrderState,
         order' = [order EXCEPT ![<<r, t>>] = x],
         run \in [Run -> RunState],
         \A q \in Run : q # r => run'[q] = run[q],
         OneSale(r)'
  PROVE  OrderInv'
<1>1. order \in [Key -> OrderState] /\ <<r, t>> \in Key
  BY DEF Inv, OrderInv, Key
<1>2. ASSUME NEW q \in Run, q # r PROVE OneSale(q)'
  <2>1. \A s \in Side : <<q, s>> \in Key /\ <<q, s>> # <<r, t>>
    BY <1>2 DEF Key
  <2>2. \A s \in Side : order'[<<q, s>>] = order[<<q, s>>]
    BY <1>1, <2>1
  <2>3. OneSale(q)
    BY DEF Inv, OrderInv
  <2> QED BY <1>2, <2>2, <2>3, OtherSale
<1>3. order' \in [Key -> OrderState]
  BY <1>1
<1> QED BY <1>2, <1>3 DEF OrderInv

LEMMA SeenRun ==
  ASSUME Inv, NEW r \in Open
  PROVE  /\ Seen(r) \in RunState \ Closed
         /\ Seen(r) = "created" => run[r] = "created"
         /\ Seen(r) = "reconciling" =>
               \/ order[<<r, "sell">>] = "filled" \/ order[<<r, "exit">>] = "filled"
<1>1. r \in Run /\ run[r] \in RunState \ Closed
  BY DEF Open, Inv, RunInv
<1>2. SellKey(r) = <<r, "sell">> \/ SellKey(r) = <<r, "exit">>
  BY DEF SellKey
<1>3. run[r] = "reconciling" =>
        order[<<r, "sell">>] = "filled" \/ order[<<r, "exit">>] = "filled"
  BY <1>1 DEF Inv, OrderInv, OneSale
<1> QED BY <1>1, <1>2, <1>3 DEF Seen, RunState, Closed

LEMMA StartInv == ASSUME Inv, NEW r \in Run, Start(r) \/ StartRecovery(r) PROVE Inv'
<1> DEFINE s == IF Start(r) THEN "created" ELSE "buy_confirmed"
<1>1. /\ Open = {} /\ boot.pc = "up" /\ s \in RunState
      /\ run' = [run EXCEPT ![r] = s] /\ run[r] # "completed"
      /\ s = "created" => run[r] = "none"
  BY DEF Start, StartRecovery, StartGuard, Up, Candidate, RunState
<1>2. UNCHANGED <<cfg, recon, order, adv, op, boot, crashes>>
  BY DEF Start, StartRecovery
<1>3. s \notin {"none", "reconciling"}
  OBVIOUS
<1> HIDE DEF s
<1>4. RunInv' /\ RunsKept
  BY <1>1, OneMoves
<1>5. OrderInv'
  BY <1>1, <1>2, <1>3, SalesKept
<1>6. AdvInv'
  BY <1>1, <1>2, AdvOpen, AdvStays
<1>7. CfgStep
  BY <1>2, HaltOrKeep
<1> QED BY <1>1, <1>2, <1>4, <1>5, <1>6, <1>7, RunFrame DEF Inv

LEMMA AdvancingFacts ==
  ASSUME Inv, NEW r \in Run, Advancing(r)
  PROVE  r \in Open /\ adv.pc = "idle" /\ boot.pc = "up" /\ run[r] # "completed"
BY DEF Advancing, Open, Closed, Up

\* The run of r ends or waits; no order changes and advance() is done.
LEMMA RunGoes ==
  ASSUME Inv, NEW r \in Open, NEW s \in RunState \ {"none", "created", "reconciling"},
         run' = [run EXCEPT ![r] = s], CfgStep, recon' \in ReconRow, boot.pc = "up",
         AdvInv', UNCHANGED <<order, op, boot, crashes>>
  PROVE  Inv'
<1>1. r \in Run /\ run[r] # "completed"
  BY DEF Open, Closed
<1>2. RunInv' /\ RunsKept
  BY <1>1, OneMoves
<1>3. OrderInv'
  BY <1>1, SalesKept
<1> QED BY <1>2, <1>3, RunFrame

LEMMA EndedInv == ASSUME Inv, NEW r \in Run, OrderEnded(r) PROVE Inv'
<1>1. r \in Open /\ adv.pc = "idle" /\ boot.pc = "up"
  BY AdvancingFacts DEF OrderEnded
<1>2. CfgStep
  BY HaltOrKeep DEF OrderEnded, Fail
<1>3. AdvInv'
  <2>1. UNCHANGED adv
    BY DEF OrderEnded
  <2> QED BY <1>1, <2>1, AdvStays
<1>4. "failed" \in RunState \ {"none", "created", "reconciling"}
  BY DEF RunState
<1>5. run' = [run EXCEPT ![r] = "failed"] /\ UNCHANGED <<recon, order, op, boot, crashes>>
  BY DEF OrderEnded, Fail
<1> QED BY <1>1, <1>2, <1>3, <1>4, <1>5, RunGoes DEF Inv

LEMMA BeforeInv == ASSUME Inv, NEW r \in Run, PlacedBefore(r) PROVE Inv'
<1> DEFINE s == IF order[NextKey(r)] \in {"pending", "filled"} THEN Waits(r) ELSE "failed"
<1>1. r \in Open /\ adv.pc = "idle" /\ boot.pc = "up"
  BY AdvancingFacts DEF PlacedBefore, Places
<1>2. CfgStep
  BY HaltOrKeep DEF PlacedBefore, Fail
<1>3. AdvInv'
  <2>1. UNCHANGED adv
    BY DEF PlacedBefore
  <2> QED BY <1>1, <2>1, AdvStays
<1>4. s \in RunState \ {"none", "created", "reconciling"}
  BY DEF RunState, Waits
<1>5. run' = [run EXCEPT ![r] = s] /\ UNCHANGED <<recon, order, op, boot, crashes>>
  BY DEF PlacedBefore, Fail
<1> HIDE DEF s
<1> QED BY <1>1, <1>2, <1>3, <1>4, <1>5, RunGoes DEF Inv

LEMMA ProofBeginInv == ASSUME Inv, NEW r \in Run, BeginProof(r) PROVE Inv'
<1>1. /\ r \in Open /\ boot.pc = "up" /\ run[r] # "completed"
      /\ cfg \in CfgRow /\ run \in [Run -> RunState]
  BY AdvancingFacts DEF BeginProof, Inv, CfgInv, RunInv
<1>2. /\ run' = [run EXCEPT ![r] = "reconciling"]
      /\ UNCHANGED <<cfg, order, op, boot, crashes>>
      /\ adv' = [pc |-> "reconciling", run |-> r, side |-> "sell", phase |-> cfg.phase]
      /\ recon' = [by |-> "canary", status |-> "running"]
  BY DEF BeginProof
<1>3. order[<<r, "sell">>] = "filled" \/ order[<<r, "exit">>] = "filled"
  BY <1>1, SeenRun DEF BeginProof
<1>4. RunInv' /\ RunsKept
  BY <1>1, <1>2, OneMoves DEF RunState
<1>5. OrderInv'
  BY <1>2, <1>3, SalesKept DEF RunState
<1>6. AdvInv'
  <2>1. adv' \in AdvRow
    BY <1>1, <1>2 DEF AdvRow, Side, CfgRow
  <2>2. adv'.run = r /\ adv'.pc = "reconciling" /\ run'[r] = "reconciling"
    BY <1>1, <1>2
  <2> QED BY <2>1, <2>2 DEF AdvInv
<1>7. CfgStep
  BY <1>2, HaltOrKeep
<1>8. recon' \in ReconRow
  BY <1>2 DEF ReconRow, Clerk
<1> QED BY <1>1, <1>2, <1>4, <1>5, <1>6, <1>7, <1>8, RunFrame

LEMMA ProofEndInv ==
  ASSUME Inv, NEW status \in {"clean", "failed"}, EndProof(status) PROVE Inv'
<1> DEFINE r == adv.run
           s == IF status = "clean" /\ Flat THEN "completed" ELSE "failed"
           c == [cfg EXCEPT !.phase = "canary_probe"]
<1>1. r \in Open /\ boot.pc = "up" /\ cfg \in CfgRow
  BY AdvOpen DEF EndProof, Inv, CfgInv
<1>2. /\ run' = [run EXCEPT ![r] = s] /\ UNCHANGED <<order, op, boot, crashes>>
      /\ recon' = Closing("canary", status) /\ adv' = AdvIdle
      /\ cfg' = Halted(cfg) \/ cfg' = cfg \/ cfg' = Halted(c)
  BY DEF EndProof, Fail
<1>3. c \in CfgRow /\ c.phase = "canary_probe"
  BY <1>1 DEF CfgRow, Phase
<1> HIDE DEF c
<1>4. CfgStep
  <2>1. CASE cfg' = Halted(c)
    BY <1>3, <2>1, HaltedRow DEF CfgStep, HaltEndsAutonomy
  <2> QED BY <1>2, <2>1, HaltOrKeep
<1>5. s \in RunState \ {"none", "created", "reconciling"}
  BY DEF RunState
<1>6. AdvInv' /\ recon' \in ReconRow
  BY <1>2, AdvRests, ClosingRow DEF Inv
<1> HIDE DEF s, r
<1> QED BY <1>1, <1>2, <1>4, <1>5, <1>6, RunGoes

\* What an order that is about to be placed finds (SellKey, mirrorTrade's lot).
LEMMA NextSale ==
  ASSUME Inv, NEW r \in Run, Places(r), order[NextKey(r)] = "none"
  PROVE  \E t \in Side :
           /\ NextKey(r) = <<r, t>> /\ NextKey(r)[2] = t
           /\ \/ /\ t = "buy" /\ Seen(r) = "created" /\ run[r] = "created"
                 /\ order[<<r, "sell">>] = "none" /\ order[<<r, "exit">>] = "none"
              \/ /\ t = "sell" /\ Seen(r) = "buy_confirmed"
                 /\ order[<<r, "exit">>] = "none"
              \/ /\ t = "exit" /\ Seen(r) = "buy_confirmed"
                 /\ order[<<r, "sell">>] = "min_size"
<1> USE DEF Side
<1>1. r \in Open /\ OneSale(r)
  BY AdvancingFacts DEF Places, Inv, OrderInv
<1>2. CASE Seen(r) = "created"
  <2>1. NextKey(r) = <<r, "buy">> /\ NextKey(r)[2] = "buy"
    BY <1>2 DEF NextKey
  <2> WITNESS "buy" \in Side
  <2> QED BY <1>1, <1>2, <2>1, SeenRun DEF OneSale
<1>3. CASE Seen(r) = "buy_confirmed" /\ order[<<r, "sell">>] = "min_size"
  <2>1. NextKey(r) = <<r, "exit">> /\ NextKey(r)[2] = "exit"
    BY <1>3 DEF NextKey, SellKey
  <2> WITNESS "exit" \in Side
  <2> QED BY <1>3, <2>1
<1>4. CASE Seen(r) = "buy_confirmed" /\ order[<<r, "sell">>] # "min_size"
  <2>1. NextKey(r) = <<r, "sell">> /\ NextKey(r)[2] = "sell"
    BY <1>4 DEF NextKey, SellKey
  <2> WITNESS "sell" \in Side
  <2> QED BY <1>1, <1>4, <2>1 DEF OneSale
<1> QED BY <1>2, <1>3, <1>4 DEF Places

LEMMA PlaceInv == ASSUME Inv, NEW r \in Run, Place(r) PROVE Inv'
<1>1. PICK t \in Side :
        /\ NextKey(r) = <<r, t>> /\ NextKey(r)[2] = t
        /\ \/ /\ t = "buy" /\ Seen(r) = "created" /\ run[r] = "created"
              /\ order[<<r, "sell">>] = "none" /\ order[<<r, "exit">>] = "none"
           \/ /\ t = "sell" /\ Seen(r) = "buy_confirmed" /\ order[<<r, "exit">>] = "none"
           \/ /\ t = "exit" /\ Seen(r) = "buy_confirmed"
              /\ order[<<r, "sell">>] = "min_size"
  BY NextSale DEF Place
<1> DEFINE s == Seen(r)
<1>2. /\ r \in Open /\ boot.pc = "up" /\ run[r] # "completed" /\ cfg \in CfgRow
      /\ run \in [Run -> RunState] /\ order \in [Key -> OrderState]
  BY AdvancingFacts DEF Place, Places, Inv, CfgInv, RunInv, OrderInv
<1>3. t # "buy" => order[<<r, "buy">>] = "filled"
  BY <1>1 DEF Place, MayPlace, Held
<1>4. /\ run' = [run EXCEPT ![r] = s]
      /\ order' = [order EXCEPT ![<<r, t>>] = "submitting"]
      /\ adv' = [pc |-> "placing", run |-> r, side |-> t, phase |-> cfg.phase]
      /\ cfg' = cfg \/ cfg' = Halted(cfg)
      /\ UNCHANGED <<recon, op, boot, crashes>>
  BY <1>1 DEF Place
<1>5. s \in RunState
  BY <1>2, SeenRun
<1>6. s = Seen(r)
  OBVIOUS
<1> HIDE DEF s
<1>7. RunInv' /\ RunsKept
  BY <1>2, <1>4, <1>5, OneMoves
<1>8. \A u \in Side : /\ <<r, u>> \in Key
                     /\ order'[<<r, u>>] = IF u = t THEN "submitting" ELSE order[<<r, u>>]
  BY <1>2, <1>4 DEF Key
<1>9. OneSale(r)'
  BY <1>2, <1>1, <1>3, <1>4, <1>8, <1>6 DEF OneSale, Side, Sent
<1>10. OrderInv'
  <2>1. "submitting" \in OrderState
    BY DEF OrderState
  <2>2. \A q \in Run : q # r => run'[q] = run[q]
    BY <1>2, <1>4
  <2> QED BY <1>2, <1>4, <1>9, <2>1, <2>2, OneOrder
<1>11. AdvInv'
  <2>1. adv' \in AdvRow
    BY <1>2, <1>4 DEF AdvRow, CfgRow
  <2>2. adv'.pc = "placing" /\ adv'.run = r /\ adv'.side = t
    BY <1>4
  <2>3. order'[<<r, t>>] \in Sent
    BY <1>8 DEF Sent
  <2>4. run'[r] = IF t = "buy" THEN "created" ELSE "buy_confirmed"
    BY <1>2, <1>1, <1>4, <1>6
  <2> QED BY <2>1, <2>2, <2>3, <2>4 DEF AdvInv
<1>12. CfgStep
  BY <1>4, HaltOrKeep
<1> QED BY <1>2, <1>4, <1>7, <1>10, <1>11, <1>12, RunFrame DEF Inv

LEMMA RefusedInv == ASSUME Inv, NEW r \in Run, PlaceRefused(r) PROVE Inv'
<1>1. /\ r \in Open /\ boot.pc = "up" /\ adv.pc = "idle" /\ run[r] # "completed"
      /\ run \in [Run -> RunState] /\ order \in [Key -> OrderState] /\ OneSale(r)
  BY AdvancingFacts DEF PlaceRefused, Places, Inv, RunInv, OrderInv
<1>2. PICK t \in Side :
        /\ NextKey(r) = <<r, t>>
        /\ \/ /\ t = "buy" /\ order[<<r, "sell">>] = "none"
              /\ order[<<r, "exit">>] = "none"
           \/ /\ t = "sell" /\ order[<<r, "exit">>] = "none"
           \/ /\ t = "exit" /\ order[<<r, "sell">>] = "min_size"
  BY NextSale DEF PlaceRefused
<1>3. order[<<r, t>>] = "none"
  BY <1>2 DEF PlaceRefused
<1>4. PICK x \in {"rejected", "none"} : order' = [order EXCEPT ![<<r, t>>] = x]
  <2>1. order = [order EXCEPT ![<<r, t>>] = "none"]
    BY <1>1, <1>3 DEF Key
  <2> QED BY <1>2, <2>1 DEF PlaceRefused
<1>5. /\ run' = [run EXCEPT ![r] = "failed"] /\ cfg' = Halted(cfg)
      /\ UNCHANGED <<recon, adv, op, boot, crashes>>
  BY DEF PlaceRefused, Fail
<1>6. RunInv' /\ RunsKept
  BY <1>1, <1>5, OneMoves DEF RunState
<1>7. \A u \in Side : /\ <<r, u>> \in Key
                     /\ order'[<<r, u>>] = IF u = t THEN x ELSE order[<<r, u>>]
  BY <1>1, <1>3, <1>4 DEF Key
<1>8. OneSale(r)'
  BY <1>1, <1>2, <1>3, <1>5, <1>7 DEF OneSale, Side, Sent
<1>9. OrderInv'
  <2>1. x \in OrderState
    BY DEF OrderState
  <2>2. \A q \in Run : q # r => run'[q] = run[q]
    BY <1>1, <1>5
  <2> QED BY <1>1, <1>3, <1>4, <1>8, <2>1, <2>2, OneOrder
<1>10. AdvInv'
  BY <1>1, <1>5, AdvStays
<1>11. CfgStep
  BY <1>5, HaltOrKeep
<1> QED BY <1>1, <1>5, <1>6, <1>9, <1>10, <1>11, RunFrame DEF Inv

LEMMA PlacedInv == ASSUME Inv, NEW accepted \in BOOLEAN, Placed(accepted) PROVE Inv'
<1>0. PICK r \in Run, t \in Side : r = adv.run /\ t = adv.side
  BY DEF Placed, Inv, AdvInv, AdvRow
<1> DEFINE x == IF accepted THEN "pending" ELSE "failed"
           s == IF ~accepted THEN "failed" ELSE IF t = "buy" THEN "buy_pending"
                ELSE "sell_pending"
<1>1. /\ r \in Open /\ boot.pc = "up" /\ OneSale(r)
      /\ run \in [Run -> RunState] /\ order \in [Key -> OrderState]
  BY <1>0, AdvOpen DEF Placed, Inv, RunInv, OrderInv
<1>2. /\ order[<<r, t>>] \in Sent
      /\ run[r] = IF t = "buy" THEN "created" ELSE "buy_confirmed"
  BY <1>0 DEF Placed, Inv, AdvInv
<1>3. /\ run' = [run EXCEPT ![r] = s] /\ order' = [order EXCEPT ![<<r, t>>] = x]
      /\ adv' = AdvIdle
      /\ cfg' = cfg \/ cfg' = Halted(cfg)
      /\ UNCHANGED <<recon, op, boot, crashes>>
  BY <1>0 DEF Placed, Fail
<1>4. /\ s \in RunState \ {"none", "created", "reconciling"}
      /\ x \in OrderState /\ x \in Sent
  BY DEF RunState, OrderState, Sent
<1> HIDE DEF x, s
<1>5. RunInv' /\ RunsKept
  BY <1>1, <1>2, <1>3, <1>4, OneMoves
<1>6. \A u \in Side : /\ <<r, u>> \in Key
                     /\ order'[<<r, u>>] = IF u = t THEN x ELSE order[<<r, u>>]
  BY <1>1, <1>3 DEF Key
<1>7. run'[r] = s
  BY <1>1, <1>3
<1>8. OneSale(r)'
  <2>1. CASE t = "buy"
    BY <1>1, <1>2, <1>4, <1>6, <1>7, <2>1 DEF OneSale, Side, Sent
  <2>2. CASE t = "sell"
    BY <1>1, <1>2, <1>4, <1>6, <1>7, <2>2 DEF OneSale, Side, Sent
  <2>3. CASE t = "exit"
    BY <1>1, <1>2, <1>4, <1>6, <1>7, <2>3 DEF OneSale, Side, Sent
  <2> QED BY <1>1, <2>1, <2>2, <2>3 DEF Side
<1>9. OrderInv'
  <2>1. \A q \in Run : q # r => run'[q] = run[q]
    BY <1>1, <1>3
  <2> QED BY <1>1, <1>3, <1>4, <1>8, <2>1, OneOrder
<1>10. CfgStep
  BY <1>3, HaltOrKeep
<1>11. AdvInv' /\ recon' \in ReconRow
  BY <1>3, AdvRests DEF Inv
<1> QED BY <1>1, <1>3, <1>5, <1>9, <1>10, <1>11, RunFrame

LEMMA RunStepInv == ASSUME Inv, RunStep PROVE Inv'
BY StartInv, PlaceInv, RefusedInv, BeforeInv, EndedInv, ProofBeginInv, PlacedInv,
   ProofEndInv DEF RunStep
-----------------------------------------------------------------------------
(* Restart.                                                                 *)

LEMMA CrashInv == ASSUME Inv, Crash PROVE Inv'
<1>1. /\ crashes < MaxCrash /\ crashes' = crashes + 1 /\ adv' = AdvIdle
      /\ op' = [a \in Op |-> Idle]
      /\ boot' = [pc |-> "recover", halted |-> cfg.halted, bad |-> FALSE]
      /\ recon' = [recon EXCEPT !.by = Nobody]
      /\ UNCHANGED <<cfg, run, order>>
  BY DEF Crash
<1>2. RunsKept /\ cfg \in CfgRow
  BY <1>1 DEF RunsKept, Inv, CfgInv
<1>3. CfgInv'
  BY <1>1, <1>2, HaltOrKeep, CfgKeeps
<1>4. Idle \in OpRow /\ Idle.pc = "idle"
  BY TopAssumption DEF Idle, OpRow, Kind, Mode, Stage
<1>5. OpInv'
  BY <1>1, <1>4 DEF OpInv
<1>6. BootInv'
  <2>1. boot' \in BootRow
    BY <1>1, <1>2 DEF BootRow, CfgRow
  <2>2. boot'.halted = cfg.halted /\ adv'.pc = "idle" /\ \A a \in Op : op'[a].pc = "idle"
    BY <1>1, <1>4 DEF AdvIdle
  <2> QED BY <1>1, <2>1, <2>2 DEF BootInv
<1>7. AdvInv'
  BY <1>1, AdvRests
<1>8. RunInv' /\ OrderInv'
  BY <1>1 DEF Inv, RunInv, OneOpenRun, Open, OrderInv, OneSale
<1>9. recon' \in ReconRow
  BY <1>1 DEF Inv, ReconRow
<1>10. crashes' \in 0 .. MaxCrash
  BY <1>1, BoundAssumption DEF Inv
<1> QED BY <1>3, <1>5, <1>6, <1>7, <1>8, <1>9, <1>10 DEF Inv

\* A step of boot keeps what halted was when it began.
LEMMA BootKept ==
  ASSUME Inv, CfgStep, recon' \in ReconRow, boot.pc # "up",
         Asked \/ UNCHANGED order, boot' \in BootRow,
         boot'.halted = boot.halted \/ boot'.pc = "up",
         UNCHANGED <<run, adv, op, crashes>>
  PROVE  Inv'
<1>1. RunsKept
  BY DEF RunsKept
<1>2. CfgInv' /\ OpInv'
  BY <1>1, CfgKeeps, OpKeeps DEF Inv
<1>3. OrderInv' /\ AdvInv'
  <2>1. CASE Asked
    BY <2>1, AskedKeeps
  <2>2. CASE UNCHANGED order
    BY <2>2 DEF Inv, OrderInv, OneSale, AdvInv
  <2> QED BY <2>1, <2>2
<1>4. BootInv'
  BY DEF Inv, BootInv, CfgStep
<1>5. RunInv'
  BY DEF Inv, RunInv, OneOpenRun, Open
<1> QED BY <1>2, <1>3, <1>4, <1>5 DEF Inv

LEMMA BootStepInv == ASSUME Inv, BootStep PROVE Inv'
<1>0. boot \in BootRow
  BY DEF Inv, BootInv
<1>1. ASSUME NEW news \in News, NEW threw \in BOOLEAN, BootRecover(news, threw)
      PROVE  Inv'
  <2> DEFINE b == Ambiguous(news, threw)
             x == [boot EXCEPT !.pc = "reconcile"]
  <2>1. b \in BOOLEAN
    BY DEF Ambiguous
  <2>2. boot' = [x EXCEPT !.bad = b]
    BY <1>1, Zenon DEF BootRecover
  <2> HIDE DEF b
  <2>3. x \in BootRow /\ x.halted = boot.halted
    BY <1>0 DEF BootRow
  <2> HIDE DEF x
  <2>4. boot' \in BootRow /\ boot'.halted = boot.halted
    BY <2>1, <2>2, <2>3 DEF BootRow
  <2>5. CfgStep
    BY <1>1, HaltOrKeep DEF BootRecover
  <2>6. Asked
    BY <1>1, RecoveredAsks DEF BootRecover
  <2> QED BY <1>1, <2>4, <2>5, <2>6, BootKept DEF BootRecover, Inv
<1>2. ASSUME NEW status \in {"clean", "failed"}, BootReconcile(status) PROVE Inv'
  <2> DEFINE x == [boot EXCEPT !.pc = "judge"]
             b == boot.bad \/ status # "clean"
  <2>1. boot' = [x EXCEPT !.bad = b]
    <3>1. boot' = [boot EXCEPT !.pc = "judge", !.bad = @ \/ status # "clean"]
      BY <1>2 DEF BootReconcile
    <3> QED BY <3>1, <1>0, Zenon DEF BootRow
  <2>2. b \in BOOLEAN
    OBVIOUS
  <2> HIDE DEF b
  <2>3. x \in BootRow /\ x.halted = boot.halted
    BY <1>0 DEF BootRow
  <2> HIDE DEF x
  <2>4. boot' \in BootRow /\ boot'.halted = boot.halted
    BY <2>1, <2>2, <2>3 DEF BootRow
  <2>5. CfgStep
    BY <1>2, HaltOrKeep, VerdictStep DEF BootReconcile
  <2>6. recon' \in ReconRow
    BY <1>2 DEF BootReconcile, Inv, ReconRow
  <2> QED BY <1>2, <2>4, <2>5, <2>6, BootKept DEF BootReconcile
<1>3. ASSUME NEW bad \in BOOLEAN, BootJudge(bad) PROVE Inv'
  <2>1. CfgStep
    BY <1>3, HaltOrKeep DEF BootJudge
  <2>2. boot' \in BootRow /\ boot'.pc = "up"
    BY <1>3 DEF BootJudge, BootRow
  <2> QED BY <1>3, <2>1, <2>2, BootKept DEF BootJudge, Inv
<1> QED BY <1>1, <1>2, <1>3, CrashInv DEF BootStep

LEMMA StutterInv == ASSUME Inv, UNCHANGED vars PROVE Inv'
<1>1. CfgStep
  BY HaltOrKeep DEF vars
<1> QED BY <1>1, ConfigOnly DEF vars, Inv

LEMMA StepInv == ASSUME Inv, [Next]_vars PROVE Inv'
BY RunStepInv, CeremonyInv, BootStepInv, ControlInv, StutterInv DEF Next

LEMMA Invariance == Spec => []Inv
<1>1. Init => Inv
  BY InitInv
<1>2. Inv /\ [Next]_vars => Inv'
  BY StepInv
<1> QED BY <1>1, <1>2, PTL DEF Spec
-----------------------------------------------------------------------------
(* The theorems.                                                            *)

\* The rows and the program counters keep their types.
THEOREM TypeCorrect == Spec => []TypeOK
<1>1. Inv => TypeOK
  BY InvType
<1> QED BY <1>1, Invariance, PTL

\* Whatever was under way when a halt came, no autonomy flag is up while the
\* network is halted (haltNetwork, setLiveMode, arm, enableCanaryAutonomy,
\* enableFullMarketAutonomy).
THEOREM HaltTheorem == Spec => []HaltEndsAutonomy
<1>1. Inv => HaltEndsAutonomy
  BY InvSafety
<1> QED BY <1>1, Invariance, PTL

\* The autonomous phase is never entered, nor kept, without a completed round
\* trip (completedCanaryExperiment; boot's own check included).
THEOREM ProofTheorem == Spec => []AutonomyHasProof
<1>1. Inv => AutonomyHasProof
  BY InvSafety
<1> QED BY <1>1, Invariance, PTL

\* Two round trips are never open together (start's look for an active run).
THEOREM OneRunTheorem == Spec => []OneOpenRun
<1>1. Inv => OneOpenRun
  BY InvSafety
<1> QED BY <1>1, Invariance, PTL

\* A position is sold under at most one key, and only after it was bought.
THEOREM SoldOnceTheorem == Spec => []SoldOnce
<1>1. Inv => SoldOnce
  BY InvSafety
<1> QED BY <1>1, Invariance, PTL

LEMMA CompletionExact == ASSUME Inv, Inv', [Next]_vars PROVE
  \A r \in Run : run[r] # "completed" /\ run'[r] = "completed" =>
       /\ order[<<r, "buy">>] = "filled"
       /\ (order[<<r, "sell">>] = "filled") # (order[<<r, "exit">>] = "filled")
       /\ \A q \in Run : order[<<q, "buy">>] = "filled" =>
            \E t \in {"sell", "exit"} : order[<<q, t>>] = "filled"
<1> SUFFICES ASSUME NEW r \in Run, run[r] # "completed", run'[r] = "completed"
             PROVE  /\ order[<<r, "buy">>] = "filled"
                    /\ (order[<<r, "sell">>] = "filled") # (order[<<r, "exit">>] = "filled")
                    /\ \A q \in Run : order[<<q, "buy">>] = "filled" =>
                         \E t \in {"sell", "exit"} : order[<<q, t>>] = "filled"
  OBVIOUS
<1>1. run \in [Run -> RunState]
  BY DEF Inv, RunInv
<1>2. \E status \in {"clean", "failed"} : EndProof(status)
  <2>1. CASE UNCHANGED run
    BY <2>1
  <2>2. ASSUME NEW q \in Run, NEW s \in RunState \ {"completed"}, run' = [run EXCEPT ![q] = s]
        PROVE  FALSE
    BY <1>1, <2>2
  <2>3. \A q \in Run : ~(Start(q) \/ StartRecovery(q) \/ PlaceRefused(q) \/ OrderEnded(q)
                         \/ BeginProof(q))
    BY <2>2 DEF Start, StartRecovery, PlaceRefused, OrderEnded, BeginProof, Fail, RunState
  <2>4. ASSUME NEW q \in Run, Place(q) PROVE FALSE
    <3>1. q \in Open
      BY <2>4, AdvancingFacts DEF Place, Places
    <3>2. Seen(q) \in RunState \ {"completed"}
      BY <3>1, SeenRun DEF Closed
    <3> QED BY <2>2, <2>4, <3>2 DEF Place
  <2>5. ASSUME NEW q \in Run, PlacedBefore(q) PROVE FALSE
    BY <2>2, <2>5 DEF PlacedBefore, Fail, RunState, Waits
  <2>6. ASSUME NEW accepted \in BOOLEAN, Placed(accepted) PROVE FALSE
    <3>1. adv.run \in Run
      BY <2>6, AdvOpen DEF Open, Placed
    <3> QED BY <2>2, <2>6, <3>1 DEF Placed, Fail, RunState
  <2>7. ControlStep \/ (\E a \in Op : OpStep(a)) \/ BootStep \/ UNCHANGED vars => UNCHANGED run
    BY DEF ControlStep, HaltNetwork, SetMode, Demote, SetConfig, BeginPass, EndPass, Poll,
           OpStep, ArmBegin, PromoteBegin, ShadowBegin, EnableBegin, MarketBegin, Begin,
           GateRecover, GateReconcile, GatePreflight, GiveUp, Arm, Promote, Enable,
           OpenMarket, Acts, BootStep, Crash, BootRecover, BootReconcile, BootJudge, vars
  <2> QED BY <2>1, <2>3, <2>4, <2>5, <2>6, <2>7 DEF Next, RunStep
<1>3. PICK status \in {"clean", "failed"} : EndProof(status)
  BY <1>2
<1>4. r = adv.run /\ Flat
  BY <1>1, <1>3 DEF EndProof, Fail
<1>5. run[r] = "reconciling" /\ OneSale(r)
  BY <1>3, <1>4 DEF EndProof, Inv, AdvInv, OrderInv
<1>6. order[<<r, "buy">>] = "filled"
  BY <1>5 DEF OneSale, Sent
<1>7. (order[<<r, "sell">>] = "filled") # (order[<<r, "exit">>] = "filled")
  BY <1>5 DEF OneSale
<1>8. ASSUME NEW q \in Run, order[<<q, "buy">>] = "filled"
      PROVE  \E t \in {"sell", "exit"} : order[<<q, t>>] = "filled"
  BY <1>4, <1>8 DEF Flat, Held
<1> QED BY <1>6, <1>7, <1>8

\* A completed run is one purchase and one sale, and leaves the account flat.
THEOREM ProofExactTheorem == Spec => ProofIsExact
<1>1. Inv /\ Inv' /\ [Next]_vars =>
        [\A r \in Run : run[r] # "completed" /\ run'[r] = "completed" =>
           /\ order[<<r, "buy">>] = "filled"
           /\ (order[<<r, "sell">>] = "filled") # (order[<<r, "exit">>] = "filled")
           /\ \A q \in Run : order[<<q, "buy">>] = "filled" =>
                \E t \in {"sell", "exit"} : order[<<q, t>>] = "filled"]_vars
  BY CompletionExact
<1> QED BY <1>1, Invariance, PTL DEF Spec, ProofIsExact

\* A boot whose checks failed ends with the network halted, because whatever was
\* halted before it cannot have been resumed in between (boot).
THEOREM BootTheorem == Spec => BootFailsClosed
<1>1. Inv /\ [Next]_vars =>
        [boot.pc # "up" /\ boot'.pc = "up" /\ boot'.bad => cfg'.halted]_vars
  <2> SUFFICES ASSUME Inv, Next, boot.pc # "up", boot'.pc = "up", boot'.bad
               PROVE  cfg'.halted
    BY DEF vars
  <2>1. adv.pc = "idle" /\ (\A a \in Op : op[a].pc = "idle")
        /\ (boot.halted => cfg.halted) /\ boot \in BootRow /\ cfg \in CfgRow
    BY DEF Inv, BootInv, CfgInv
  <2>2. \E bad \in BOOLEAN : BootJudge(bad)
    <3>1. ~ UNCHANGED boot
      OBVIOUS
    <3>2. ~ Crash
      BY DEF Crash
    <3>3. \A news \in News, threw \in BOOLEAN : ~ BootRecover(news, threw)
      BY <2>1 DEF BootRecover, BootRow
    <3>4. \A status \in {"clean", "failed"} : ~ BootReconcile(status)
      BY <2>1 DEF BootReconcile, BootRow
    <3>5. ControlStep \/ (\E a \in Op : OpStep(a)) \/ RunStep => UNCHANGED boot
      BY DEF ControlStep, HaltNetwork, SetMode, Demote, SetConfig, BeginPass, EndPass,
             Poll, OpStep, ArmBegin, PromoteBegin, ShadowBegin, EnableBegin, MarketBegin,
             Begin, GateRecover, GateReconcile, GatePreflight, GiveUp, Arm, Promote,
             Enable, OpenMarket, Acts, RunStep, Start, StartRecovery, Place,
             PlaceRefused, PlacedBefore, OrderEnded, BeginProof, Placed, EndProof
    <3> QED BY <3>1, <3>2, <3>3, <3>4, <3>5 DEF Next, BootStep
  <2>3. PICK bad \in BOOLEAN : BootJudge(bad)
    BY <2>2
  <2>4. bad /\ cfg' = IF Judge(bad) THEN Halted(cfg) ELSE cfg
    BY <2>3 DEF BootJudge
  <2>5. CASE Judge(bad)
    BY <2>1, <2>4, <2>5, HaltedRow
  <2>6. CASE ~Judge(bad)
    BY <2>1, <2>4, <2>6 DEF Judge
  <2> QED BY <2>5, <2>6
<1> QED BY <1>1, Invariance, PTL DEF Spec, BootFailsClosed
=============================================================================
