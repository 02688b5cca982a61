---------------------------------- MODULE Desk ----------------------------------
(***************************************************************************)
(* What the agents say and what it may cost (toolkit/forum.ts,             *)
(* research/discussion.ts, research/budget.ts): answers to a human's post, *)
(* the heartbeat, remarks on events, scheduled sessions and huddles over a *)
(* trade, each turn one billed request to the model.                       *)
(*                                                                         *)
(* Nothing but a cooldown keeps two jobs apart, of one kind or of two: a   *)
(* request may outlast it, and any number of jobs be under way together.   *)
(* An action is the code between two awaits, the awaits being the model's  *)
(* answers.  Money is counted in the reserve of one request, the most one  *)
(* costs; who speaks and what is said are left out.  Rate limits are their *)
(* cooldown alone: the counts per day are far above what fits the bounds.  *)
(***************************************************************************)
EXTENDS Naturals, FiniteSets, FiniteSetsExt

CONSTANTS Human,          \* people whose posts may be answered at once
          Session,        \* kinds of session, the huddle being one: a cooldown each
          Cap,            \* a month's budget, of chat and of sessions each
          Turns,          \* requests of one post's answers, or of one session
          MaxJobs,        \* bound: jobs under way together
          MaxSession,     \* bound: sessions
          MaxMonth        \* bound: months that end

\* What the crons and the events start beside the sessions.
Crons == {"heartbeat", "autopost"}

ASSUME DeskAssumption ==
  /\ {Cap, Turns, MaxJobs, MaxSession, MaxMonth} \subseteq Nat
  /\ Session \cap (Human \cup Crons) = {}

Voices == Human \cup Crons \cup Session
Jobs == 1 .. MaxJobs

VARIABLES spent,      \* llm_budget of this month, by scope
          cooldown,   \* agent_rate_limits: the keys that are cooling down
          demo,       \* forum_demo
          job,        \* each job under way: its kind, and the turns it has left
          sessions,   \* research_sessions: rows begun and rows ended
          months,
          crowd       \* ghost: the most jobs of a scope together, this month

deskVars == <<spent, cooldown, demo, job, sessions, months, crowd>>

Scopes == {"chat", "shared"}
Quiet == [pc |-> "quiet", kind |-> "none", left |-> 0]

DeskTypeOK ==
  /\ spent \in [Scopes -> Nat]
  /\ cooldown \subseteq Voices \cup {"everyone"}
  /\ demo \in {"unopened", "open", "over", "closed"}
  /\ job \in [Jobs -> {Quiet} \cup [pc : {"asked"}, kind : Voices, left : 0 .. Turns]]
  /\ sessions \in [{"begun", "ended"} -> Nat]
  /\ months \in 0 .. MaxMonth
  /\ crowd \in [Scopes -> 0 .. MaxJobs]

DeskInit ==
  /\ spent = [s \in Scopes |-> 0]
  /\ cooldown = {} /\ demo = "unopened" /\ months = 0
  /\ job = [j \in Jobs |-> Quiet]
  /\ sessions = [x \in {"begun", "ended"} |-> 0]
  /\ crowd = [s \in Scopes |-> 0]
-----------------------------------------------------------------------------
Scope(k) == IF k \in Session THEN "shared" ELSE "chat"

\* The jobs whose requests are paid from a scope.
Busy(s) == {j \in Jobs : job[j].pc = "asked" /\ Scope(job[j].kind) = s}

Crowded ==
  crowd' = [s \in Scopes |-> IF Cardinality(Busy(s)') > crowd[s]
                             THEN Cardinality(Busy(s)') ELSE crowd[s]]

\* Mutant of MaySpend: a post is checked once, for all its answers.
MaySpendOnce(k, money, first) ==
  first => IF k \in Session THEN money["shared"] < Cap ELSE money["chat"] + 1 <= Cap

\* spendGuard: a session asks it once, a chat request reserves its worst case.
MaySpend(k, money, first) ==
  IF k \in Session THEN first => money["shared"] < Cap ELSE money["chat"] + 1 <= Cap

Ask(j, k, left) == job' = [job EXCEPT ![j] = [pc |-> "asked", kind |-> k, left |-> left]]

Hush(j) == job' = [job EXCEPT ![j] = Quiet]

\* The first place of the model that no job has.
Free(j) == job[j].pc = "quiet" /\ \A i \in Jobs : i < j => job[i].pc # "quiet"

\* A job that may spend asks for the first of up to n turns: who has no facts to
\* speak from is passed over.
Speak(j, k, n) ==
  /\ IF MaySpend(k, spent, TRUE)
     THEN job' = job \/ \E left \in 0 .. n - 1 : Ask(j, k, left)
     ELSE UNCHANGED job
  /\ Crowded

\* humanPost takes the person's slot and everyone's, whichever refuses.
HumanPost(h, j) ==
  /\ Free(j)
  /\ cooldown' = cooldown \cup {h, "everyone"}
  /\ IF cooldown \cap {h, "everyone"} = {} THEN Speak(j, h, Turns) ELSE UNCHANGED <<job, crowd>>
  /\ UNCHANGED <<spent, demo, sessions, months>>

\* forumHeartbeat: a window that is over is closed by the first who looks.
Heartbeat(j) ==
  /\ Free(j)
  /\ IF demo \in {"over", "closed"}
     THEN demo' = "closed" /\ UNCHANGED <<cooldown, job, crowd>>
     ELSE /\ "heartbeat" \notin cooldown /\ cooldown' = cooldown \cup {"heartbeat"}
          /\ Speak(j, "heartbeat", 1)
          /\ UNCHANGED demo
  /\ UNCHANGED <<spent, sessions, months>>

\* maybeAutoPost.
AutoPost(j) ==
  /\ Free(j)
  /\ "autopost" \notin cooldown /\ cooldown' = cooldown \cup {"autopost"}
  /\ Speak(j, "autopost", 1)
  /\ UNCHANGED <<spent, demo, sessions, months>>

\* runSession and runTradeHuddle, which an order starts and does not await: one
\* check, then a row if there is a topic, then every turn.
StartSession(k, j) ==
  /\ Free(j) /\ sessions["begun"] < MaxSession
  /\ k \notin cooldown /\ cooldown' = cooldown \cup {k}
  /\ Speak(j, k, Turns)
  /\ sessions' \in IF job' # job THEN {[sessions EXCEPT !["begun"] = @ + 1]}
                  ELSE IF ~ MaySpend(k, spent, TRUE) THEN {sessions}
                  ELSE {sessions, [x \in DOMAIN sessions |-> sessions[x] + 1]}
  /\ UNCHANGED <<spent, demo, months>>

\* The model answers, for a whole reserve or less, or the call throws: what was
\* used is recorded after it, and the next turn is asked for at once.
Answered(j) ==
  /\ job[j].pc = "asked"
  /\ \E cost \in {0, 1} :
       spent' = [spent EXCEPT ![Scope(job[j].kind)] = @ + cost]
  /\ IF job[j].left > 0 /\ MaySpend(job[j].kind, spent', FALSE)
     THEN Ask(j, job[j].kind, job[j].left - 1) /\ UNCHANGED sessions
     ELSE /\ Hush(j)
          /\ sessions' = IF job[j].kind \in Session THEN [sessions EXCEPT !["ended"] = @ + 1]
                        ELSE sessions
  /\ demo' \in IF job[j].kind # "heartbeat" THEN {demo}
               ELSE {demo, IF demo = "unopened" THEN "open"
                           ELSE IF demo = "over" THEN "closed" ELSE demo}
  /\ UNCHANGED <<cooldown, months, crowd>>

CoolsDown(k) ==
  /\ k \in cooldown /\ cooldown' = cooldown \ {k}
  /\ UNCHANGED <<spent, demo, job, sessions, months, crowd>>

DemoElapses ==
  /\ demo = "open" /\ demo' = "over"
  /\ UNCHANGED <<spent, cooldown, job, sessions, months, crowd>>

\* The next month's budget is new; what was asked for is recorded in it.
MonthEnds ==
  /\ months < MaxMonth /\ months' = months + 1
  /\ spent' = [s \in Scopes |-> 0]
  /\ crowd' = [s \in Scopes |-> Cardinality(Busy(s))]
  /\ UNCHANGED <<cooldown, demo, job, sessions>>

\* A restart forgets what was asked; limits, budget and window are in the tables.
DeskRestarts ==
  /\ \E j \in Jobs : job[j].pc = "asked"
  /\ job' = [j \in Jobs |-> Quiet]
  /\ UNCHANGED <<spent, cooldown, demo, sessions, months, crowd>>

DeskNext ==
  \/ DemoElapses \/ MonthEnds \/ DeskRestarts
  \/ \E j \in Jobs :
       \/ Heartbeat(j) \/ AutoPost(j) \/ Answered(j)
       \/ \E h \in Human : HumanPost(h, j)
       \/ \E k \in Session : StartSession(k, j)
  \/ \E k \in Voices \cup {"everyone"} : CoolsDown(k)

DeskSpec == DeskInit /\ [][DeskNext]_deskVars
-----------------------------------------------------------------------------
(* Properties.                                                              *)

\* The requests a session may still make.
ToGo == [j \in Jobs |-> IF j \in Busy("shared") THEN job[j].left + 1 ELSE 0]

\* The check is before a request and the record after it, so jobs that overlap
\* may pass the cap: chat by one request for each job but one of the most that
\* were under way together, however many answers a post gets; sessions, which
\* look once, by all the turns of as many.  Requests not yet answered count.
OverspendBounded ==
  /\ spent["chat"] + Cardinality(Busy("chat"))
       <= IF crowd["chat"] = 0 THEN 0 ELSE Cap + crowd["chat"] - 1
  /\ spent["shared"] + SumFunctionOnSet(ToGo, Jobs)
       <= IF crowd["shared"] = 0 THEN 0 ELSE Cap - 1 + crowd["shared"] * Turns
=============================================================================
