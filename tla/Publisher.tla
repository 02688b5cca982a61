------------------------------- MODULE Publisher -------------------------------
(***************************************************************************)
(* The intern (intern/intern.ts over the adapter of apiXAdapter.ts, with   *)
(* api/routes/intern.ts and the rate limit of research/budget.ts): a cycle *)
(* reads X, drafts, screens and logs a candidate, and in live mode posts   *)
(* it; an operator may post a screened thread; any doubt halts for good.   *)
(*                                                                         *)
(* An action is the code between two awaits.  Callers overlap: the cron,   *)
(* two admin requests, and the article script, a process of its own over   *)
(* the same tables (Script).  Texts are left out: what screen() says of a  *)
(* draft, and whether the month's budget allows it, is free.  The provider *)
(* is the real one (api).                                                  *)
(***************************************************************************)
EXTENDS Naturals, SequencesExt

CONSTANTS Caller, Script,
          DailyCap,    \* max_posts_per_day
          MaxPost,     \* bound: candidates
          MaxTurn      \* bound: windows and cooldowns that end, mode changes

ASSUME PublisherAssumption ==
  /\ IsFiniteSet(Caller) /\ Script \subseteq Caller
  /\ {DailyCap, MaxPost, MaxTurn} \subseteq Nat

VARIABLES mode,        \* intern_config
          halted,      \* intern_quota
          post,        \* intern_posts
          evidence,    \* reviewed, approved and fresh enough for the launch
          cooling,     \* agent_rate_limits, intern:cycle
          slots,       \* intern:publish, in the window
          taken,       \* slots ever taken (ghost)
          posts,       \* calls of X's publish (ghost)
          caller,      \* where each caller stands
          turns

publisherVars ==
  <<mode, halted, post, evidence, cooling, slots, taken, posts, caller, turns>>

Posts == 1 .. MaxPost
PostRow == [verdict : {"none", "blocked", "shadow", "published"},
            publish : {"not_attempted", "publishing", "published", "failed"}]
NoCaller == [pc |-> "idle", live |-> FALSE, thread |-> FALSE, rows |-> <<>>]
CallerRow == [pc : {"idle", "ready", "read", "draft", "media", "posting"},
              live : BOOLEAN, thread : BOOLEAN, rows : Seq(Posts)]

PublisherTypeOK ==
  /\ mode \in {"off", "shadow", "live"}
  /\ halted \in BOOLEAN /\ cooling \in BOOLEAN
  /\ post \in [Posts -> PostRow]
  /\ evidence \subseteq Posts
  /\ slots \in 0 .. DailyCap
  /\ {taken, posts, turns} \subseteq Nat
  /\ caller \in [Caller -> CallerRow]

PublisherInit ==
  /\ mode = "shadow" /\ halted = FALSE /\ cooling = FALSE
  /\ post = [p \in Posts |-> [verdict |-> "none", publish |-> "not_attempted"]]
  /\ evidence = {}
  /\ slots = 0 /\ taken = 0 /\ posts = 0 /\ turns = 0
  /\ caller = [c \in Caller |-> NoCaller]
-----------------------------------------------------------------------------
(* What both paths use.                                                     *)

\* reconcileInternPublishing: a row that nobody settled.
Reconciled == \A p \in Posts : post[p].publish # "publishing"

\* A candidate that nobody tried to post.
Preview == [verdict |-> "shadow", publish |-> "not_attempted"]

Logged == {p \in Posts : post[p].verdict # "none"}
NextPost == Cardinality(Logged) + 1

\* The latest three candidates were all blocked.
ThreeBlocked(n) ==
  n >= 3 /\ \A p \in n - 2 .. n : post'[p].verdict = "blocked"

\* The only function that crosses the public write boundary: the row is marked,
\* then X is called.
PublishCandidate(c, rows, log) ==
  /\ log[Head(rows)].publish = "not_attempted"
  /\ post' = [log EXCEPT ![Head(rows)].publish = "publishing"]
  /\ posts' = posts + 1
  /\ caller' = [caller EXCEPT ![c].pc = "posting", ![c].rows = rows]

Idle(c) == caller' = [caller EXCEPT ![c] = NoCaller]

HaltIdle(c) == halted' = TRUE /\ Idle(c)

Await(c, pc) == caller' = [caller EXCEPT ![c].pc = pc]
-----------------------------------------------------------------------------
(* The operator.                                                            *)

\* POST /api/intern/mode: live takes evidence, after the wait for X's answer.
SetMode ==
  /\ turns < MaxTurn /\ turns' = turns + 1
  /\ \/ \E m \in {"off", "shadow"} :
          /\ mode' = m
          /\ evidence' = IF m = "shadow" THEN {} ELSE evidence
     \/ /\ \E p \in evidence : post[p] = Preview
        /\ mode' = "live" /\ UNCHANGED evidence
  /\ UNCHANGED <<halted, post, cooling, slots, taken, posts, caller>>

\* POST /api/admin/intern/review.
ReviewPost(p) ==
  /\ post[p] = Preview
  /\ \E approved \in BOOLEAN :
       evidence' = IF approved THEN evidence \cup {p} ELSE evidence \ {p}
  /\ UNCHANGED <<mode, halted, post, cooling, slots, taken, posts, caller, turns>>
-----------------------------------------------------------------------------
(* A cycle and a thread, up to the draft.                                   *)

BeginCycle(c) ==
  /\ caller[c].pc = "idle" /\ c \notin Script
  /\ mode # "off" /\ ~halted
  /\ IF ~Reconciled THEN HaltIdle(c) /\ UNCHANGED cooling
     ELSE /\ \/ /\ mode = "live"
                /\ caller' = [caller EXCEPT ![c] =
                     [NoCaller EXCEPT !.pc = "ready", !.live = TRUE]]
                /\ UNCHANGED cooling
             \/ /\ mode = "shadow" /\ ~cooling /\ cooling' = TRUE
                /\ caller' = [caller EXCEPT ![c] = [NoCaller EXCEPT !.pc = "read"]]
          /\ UNCHANGED halted
  /\ UNCHANGED <<mode, post, evidence, slots, taken, posts, turns>>

\* publishInternThread; it neither waits for the cooldown nor starts one.
BeginThread(c) ==
  /\ caller[c].pc = "idle"
  /\ mode = "live" /\ ~halted
  /\ IF ~Reconciled THEN HaltIdle(c)
     ELSE /\ caller' = [caller EXCEPT ![c] =
               [NoCaller EXCEPT !.pc = "ready", !.live = TRUE, !.thread = TRUE]]
          /\ UNCHANGED halted
  /\ UNCHANGED <<mode, post, evidence, cooling, slots, taken, posts, turns>>

\* isReady: a cycle halts on a no, a thread is refused.
Ready(c) ==
  /\ caller[c].pc = "ready"
  /\ \/ caller[c].thread /\ (Await(c, "read") \/ Idle(c)) /\ UNCHANGED <<halted, cooling>>
     \/ ~caller[c].thread /\ HaltIdle(c) /\ UNCHANGED cooling
     \/ ~caller[c].thread /\ cooling /\ Idle(c) /\ UNCHANGED <<halted, cooling>>
     \/ ~caller[c].thread /\ ~cooling /\ cooling' = TRUE /\ Await(c, "read") /\ UNCHANGED halted
  /\ UNCHANGED <<mode, post, evidence, slots, taken, posts, turns>>

\* The read throws, or a live caller gets no sources, or the budget is spent.
ReadFails(c) ==
  /\ caller[c].pc = "read"
  /\ \/ HaltIdle(c)
     \/ Idle(c) /\ UNCHANGED halted
  /\ UNCHANGED <<mode, post, evidence, cooling, slots, taken, posts, turns>>

\* takeRateLimit, n times in one transaction.
TakeSlots(n) ==
  /\ slots + n <= DailyCap
  /\ slots' = slots + n /\ taken' = taken + n

\* A live cycle takes its slot before the draft is made.
ReadDone(c) ==
  /\ caller[c].pc = "read" /\ ~caller[c].thread
  /\ \/ ~caller[c].live /\ Await(c, "draft") /\ UNCHANGED <<slots, taken>>
     \/ caller[c].live /\ TakeSlots(1) /\ Await(c, "draft")
     \/ caller[c].live /\ slots = DailyCap /\ Idle(c) /\ UNCHANGED <<slots, taken>>
  /\ UNCHANGED <<mode, halted, post, evidence, cooling, posts, turns>>
-----------------------------------------------------------------------------
(* From the draft to X.                                                     *)

DraftFails(c) ==
  /\ caller[c].pc = "draft"
  /\ Idle(c)
  /\ UNCHANGED <<mode, halted, post, evidence, cooling, slots, taken, posts, turns>>

LogAs(verdict) == [post EXCEPT ![NextPost].verdict = verdict]

DraftBlocked(c) ==
  /\ caller[c].pc = "draft" /\ NextPost \in Posts
  /\ post' = LogAs("blocked")
  /\ halted' = (halted \/ ThreeBlocked(NextPost))
  /\ Idle(c)
  /\ UNCHANGED <<mode, evidence, cooling, slots, taken, posts, turns>>

\* Mutant of GoesOut: the mode is read again.
GoesOutNow(c) == mode = "live"

\* What the cycle was begun as decides.
GoesOut(c) == caller[c].live

DraftPasses(c) ==
  /\ caller[c].pc = "draft" /\ NextPost \in Posts
  /\ \/ GoesOut(c) /\ PublishCandidate(c, <<NextPost>>, LogAs("shadow"))
     \/ ~GoesOut(c) /\ post' = LogAs("shadow") /\ Idle(c) /\ UNCHANGED posts
  /\ UNCHANGED <<mode, halted, evidence, cooling, slots, taken, turns>>

\* A thread of two is screened whole: one bad post blocks both.
ThreadBlocked(c) ==
  /\ caller[c].pc = "read" /\ caller[c].thread /\ NextPost + 1 \in Posts
  /\ post' = [post EXCEPT ![NextPost].verdict = "blocked", ![NextPost + 1].verdict = "blocked"]
  /\ Idle(c)
  /\ UNCHANGED <<mode, halted, evidence, cooling, slots, taken, posts, turns>>

\* Every slot is reserved before the first call, images uploaded first.
ThreadPasses(c) ==
  /\ caller[c].pc = "read" /\ caller[c].thread /\ NextPost + 1 \in Posts
  /\ TakeSlots(2)
  /\ LET rows == <<NextPost, NextPost + 1>>
         log  == [p \in Posts |->
                    IF p \in {rows[1], rows[2]} THEN [post[p] EXCEPT !.verdict = "shadow"]
                    ELSE post[p]]
     IN  \/ PublishCandidate(c, rows, log)
         \/ /\ c \in Script
            /\ post' = log /\ UNCHANGED posts
            /\ caller' = [caller EXCEPT ![c].pc = "media", ![c].rows = rows]
  /\ UNCHANGED <<mode, halted, evidence, cooling, turns>>

MediaUploaded(c) ==
  /\ caller[c].pc = "media"
  /\ PublishCandidate(c, caller[c].rows, post)
  /\ UNCHANGED <<mode, halted, evidence, cooling, slots, taken, turns>>

\* The rows that were not posted are given up.
Failed(rows) ==
  post' = [p \in Posts |-> IF p \in rows THEN [verdict |-> "blocked", publish |-> "failed"]
                           ELSE post[p]]

MediaFails(c) ==
  /\ caller[c].pc = "media"
  /\ Failed(ToSet(caller[c].rows))
  /\ HaltIdle(c)
  /\ UNCHANGED <<mode, evidence, cooling, slots, taken, posts, turns>>
-----------------------------------------------------------------------------
(* X's answer.                                                              *)

Settled(p) == [post EXCEPT ![p] = [verdict |-> "published", publish |-> "published"]]

\* A thread goes on with its next post, whatever the mode and the halt say now.
Posted(c) ==
  /\ caller[c].pc = "posting"
  /\ LET rows == caller[c].rows IN
        IF Len(rows) > 1 THEN PublishCandidate(c, Tail(rows), Settled(Head(rows)))
        ELSE post' = Settled(Head(rows)) /\ Idle(c) /\ UNCHANGED posts
  /\ UNCHANGED <<mode, halted, evidence, cooling, slots, taken, turns>>

PostFails(c) ==
  /\ caller[c].pc = "posting"
  /\ Failed({Head(caller[c].rows)})
  /\ HaltIdle(c)
  /\ UNCHANGED <<mode, evidence, cooling, slots, taken, posts, turns>>

\* X accepted it and the row could not be written: it stays publishing.
Unrecorded(c) ==
  /\ caller[c].pc = "posting"
  /\ HaltIdle(c)
  /\ UNCHANGED <<mode, post, evidence, cooling, slots, taken, posts, turns>>
-----------------------------------------------------------------------------
(* Time and crashes.                                                        *)

\* Two hours, a day of slots, the day in which a review counts.
TimePasses ==
  /\ turns < MaxTurn /\ turns' = turns + 1
  /\ cooling' = FALSE
  /\ slots' \in {0, slots}
  /\ evidence' \in {{}, evidence}
  /\ UNCHANGED <<mode, halted, post, taken, posts, caller>>

\* The server, or the script, dies.
PublisherDies ==
  /\ \E dead \in {Script, Caller \ Script} :
       /\ \E c \in dead : caller[c].pc # "idle"
       /\ caller' = [c \in Caller |-> IF c \in dead THEN NoCaller ELSE caller[c]]
  /\ UNCHANGED <<mode, halted, post, evidence, cooling, slots, taken, posts, turns>>

PublisherNext ==
  \/ SetMode \/ TimePasses \/ PublisherDies
  \/ \E p \in Posts : ReviewPost(p)
  \/ \E c \in Caller :
       \/ BeginCycle(c) \/ BeginThread(c) \/ Ready(c) \/ ReadFails(c) \/ ReadDone(c)
       \/ DraftFails(c) \/ DraftBlocked(c) \/ DraftPasses(c)
       \/ ThreadBlocked(c) \/ ThreadPasses(c) \/ MediaUploaded(c) \/ MediaFails(c)
       \/ Posted(c) \/ PostFails(c) \/ Unrecorded(c)

PublisherSpec == PublisherInit /\ [][PublisherNext]_publisherVars
-----------------------------------------------------------------------------
(* Properties.                                                              *)

\* Every call that reaches the public account had a slot of the daily cap: a
\* preview made in shadow never goes out, even if the mode turns live under it,
\* and a thread never spends more than it reserved.
PostsHaveSlots == posts <= taken
=============================================================================
