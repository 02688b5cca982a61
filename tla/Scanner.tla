-------------------------------- MODULE Scanner --------------------------------
(***************************************************************************)
(* The scanners (live/opportunityEngine.ts) over the bars the candle store *)
(* aggregates from minutes (feeds/candles.ts) and the tokens that trend    *)
(* (feeds/memeFeed.ts): a pass every twenty seconds writes each new idea   *)
(* once, judges its edge (live/edge.ts), and stakes a claim on the best.   *)
(*                                                                         *)
(* An idea is known by its key, a closed bar or a token in a bucket of     *)
(* time, in a memory of the process that forgets its older half when it is *)
(* full.  Time is in minutes.  A minute's candle comes when it comes, whole *)
(* or in part, or never: the clock does not wait for it.  One major, the   *)
(* interval a backfill stores too (1h) and one scanner stand for the       *)
(* majors: a bar is calm, or a signal with an edge.                        *)
(***************************************************************************)
EXTENDS Integers, SequencesExt, FiniteSetsExt

CONSTANTS Launch,    \* pump.fun tokens
          Trend,     \* tokens that may trend
          Full,      \* 4000: more keys than this are not remembered
          Keep,      \* 2000: the keys kept then
          BarLife,   \* minutes in a bar
          Bucket,    \* minutes in a token's bucket of time
          Day,       \* minutes an idea's row is kept
          MaxNow,    \* bound: time
          MaxLife    \* bound: boots

ASSUME ScannerAssumption ==
  /\ Keep \in Nat \ {0} /\ Full \in Nat /\ Keep <= Full
  /\ BarLife \in Nat \ {0} /\ Bucket \in Nat \ {0} /\ Day \in Nat
  /\ MaxNow \in Nat /\ MaxLife \in Nat \ {0}
  /\ IsFiniteSet(Launch) /\ IsFiniteSet(Trend) /\ "major" \notin Launch \cup Trend

VARIABLES now,       \* Date.now(), in minutes
          minutes,   \* the major's 1m rows of candles
          bars,      \* and those of its interval
          heard,     \* the newest minute that was ingested or backfilled
          boot,      \* when this process started, until its backfill ends
          forming,   \* the bars whose row is a backfill's, of a bar not over (ghost)
          trending,  \* MemeFeed.trending: the tokens that rise
          seen,      \* the keys remembered, oldest first
          ideas,     \* opportunities, with the process that wrote them (ghost)
          staked,    \* claims opened: the bar, and the process
          life       \* the boots so far (ghost)

feedVars == <<now, minutes, bars, heard, boot, forming>>
scannerVars == <<feedVars, trending, seen, ideas, staked, life>>

Minutes == 0 .. MaxNow
Bars == 0 .. MaxNow \div BarLife
BarOf(m) == m \div BarLife
Up == -1
Mood == {"calm", "edge"}
BarRow == [whole : BOOLEAN, mood : Mood]
NoBar == [whole |-> FALSE, mood |-> "none"]
MajorKey(b) == <<"major", b>>
TokenKey(t) == <<t, now \div Bucket>>

ScannerTypeOK ==
  /\ now \in Minutes
  /\ minutes \in [Minutes -> {"none", "part", "whole"}]
  /\ bars \in [Bars -> BarRow \cup {NoBar}]
  /\ heard \in -1 .. now - 1
  /\ boot \in 0 .. now \cup {Up}
  /\ forming \subseteq Bars
  /\ trending \subseteq Trend
  /\ Len(seen) <= Full
  /\ \A i \in DOMAIN ideas :
       ideas[i].at \in 0 .. now /\ ideas[i].life \in 1 .. life
  /\ staked \subseteq [bar : Bars, life : 1 .. MaxLife]
  /\ life \in 1 .. MaxLife

ScannerInit ==
  /\ now = 0
  /\ minutes = [m \in Minutes |-> "none"]
  /\ bars = [b \in Bars |-> NoBar]
  /\ heard = -1 /\ boot = 0
  /\ forming = {}
  /\ trending = {}
  /\ seen = <<>> /\ ideas = <<>> /\ staked = {}
  /\ life = 1
-----------------------------------------------------------------------------
(* What is scanned.                                                         *)

Forming(b) == (b + 1) * BarLife > now

\* A row for each minute of the bar, with all its trades.
AllCame(b) == \A m \in Minutes : BarOf(m) = b => minutes[m] = "whole"

\* Mutant of EndsBar: the minute before the last ends it too.
EndsBarEarly(m) == m % BarLife >= BarLife - 2

EndsBar(m) == m % BarLife = BarLife - 1

MinuteEnds ==
  /\ now < MaxNow /\ now' = now + 1
  /\ UNCHANGED <<minutes, bars, heard, boot, forming, trending, seen, ideas, staked, life>>

\* ingest1m and tryAggregate: a minute's candle comes some time after it; the
\* last of a bar rolls up whatever rows there are.
MinuteComes(m, row, mood) ==
  /\ boot = Up /\ heard < m /\ m < now
  /\ heard' = m
  /\ minutes' = [minutes EXCEPT ![m] = row]
  /\ IF EndsBar(m)
     THEN /\ bars' = [bars EXCEPT ![BarOf(m)] = [whole |-> AllCame(BarOf(m))', mood |-> mood]]
          /\ forming' = forming \ {BarOf(m)}
     ELSE UNCHANGED <<bars, forming>>
  /\ UNCHANGED <<now, boot, trending, seen, ideas, staked, life>>

\* The feed's last rows as of some minute since the boot, the ones that are
\* forming too.  The feed starts after.
Backfilled(at, mood, part) ==
  /\ boot # Up /\ boot <= at /\ at <= now
  /\ boot' = Up
  /\ heard' = at - 1
  /\ minutes' = [m \in Minutes |-> IF m < at THEN "whole" ELSE IF m = at THEN "part" ELSE minutes[m]]
  /\ bars' = [b \in Bars |->
       IF b > BarOf(at) THEN bars[b]
       ELSE IF b = BarOf(at) THEN [whole |-> FALSE, mood |-> part]
       ELSE IF bars[b].whole THEN bars[b] ELSE [whole |-> TRUE, mood |-> mood]]
  /\ forming' = (forming \ {b \in Bars : b < BarOf(at)}) \cup {BarOf(at)}
  /\ UNCHANGED <<now, trending, seen, ideas, staked, life>>

\* A request of the backfill fails, and the feed starts all the same.
BackfillFails ==
  /\ boot # Up /\ boot' = Up
  /\ UNCHANGED <<now, minutes, bars, heard, forming, trending, seen, ideas, staked, life>>

\* MemeFeed.poll; one that fails leaves the tokens it had.
Polls(tokens) ==
  /\ trending' = tokens
  /\ UNCHANGED <<feedVars, seen, ideas, staked, life>>
-----------------------------------------------------------------------------
(* A pass.                                                                  *)

\* Mutant of Remembered: the oldest keys are kept.
RememberedOldest(keys) == IF Len(keys) > Full THEN SubSeq(keys, 1, Keep) ELSE keys

Remembered(keys) ==
  IF Len(keys) > Full THEN SubSeq(keys, Len(keys) - Keep + 1, Len(keys)) ELSE keys

\* fresh: a key that is remembered is passed over.
Unseen(acc, idea) ==
  IF Contains(acc.seen, idea.key) THEN acc
  ELSE [seen |-> Remembered(Append(acc.seen, idea.key)),
        found |-> Append(acc.found, idea)]

\* Mutant of Judged: the last row is judged, if it is closed or not.
JudgedLast == {b \in Bars : bars[b] # NoBar /\ \A c \in Bars : c > b => bars[c] = NoBar}

\* The newest bar that is stored and not forming, by the clock.
Judged ==
  {b \in Bars : /\ bars[b] # NoBar /\ ~Forming(b)
                /\ \A c \in Bars : c > b => bars[c] = NoBar \/ Forming(c)}

\* A row's state is high_confidence, or it is a signal or rejected.
Idea(key, high) == [key |-> key, high |-> high, at |-> now, life |-> life]

\* edgeForUniverse: a share of the excursion, less the venue's costs, in basis
\* points.
Cost == [majors |-> 40, pumpfun |-> 600, multichain |-> 180]
Viable(universe, gross) == gross - Cost[universe] > 0
Gross == [calm |-> 0, edge |-> 50]

\* scanMajors: the regime of the minute decides if a signal is a confident one.
Majors(sure) ==
  {Idea(MajorKey(b), sure /\ Viable("majors", Gross[bars[b].mood])) :
     b \in {c \in Judged : bars[c].mood # "calm"}}

\* scanPumpFun: of the excursions it assumes, 12% and 9%, half is taken.
Launches(busy) == {Idea(TokenKey(t), Viable("pumpfun", 600)) : t \in busy}

\* scanMultichain: its confidence ends at 75.
Trends == {Idea(TokenKey(t), FALSE) : t \in trending}

\* The ideas of a list that are new, and the memory after it.
Sifted(list) ==
  LET after[n \in 0 .. Len(list)] ==
        IF n = 0 THEN [seen |-> seen, found |-> <<>>]
        ELSE Unseen(after[n - 1], list[n])
  IN after[Len(list)]

\* Ideas come in the order of the universes.
Found(busy, sure) ==
  Sifted(SetToSeq(Majors(sure)) \o SetToSeq(Launches(busy)) \o SetToSeq(Trends))

\* emitPredictions: a confident idea on a major stakes a claim on direction.
Stakes(found) ==
  {[bar |-> found[i].key[2], life |-> life] :
     i \in {j \in DOMAIN found : found[j].high /\ found[j].key[1] = "major"}}

\* Rows older than a day go: rows are in the order of their times.
Kept(rows) ==
  LET old == {i \in DOMAIN rows : rows[i].at < now - Day}
  IN SubSeq(rows, Cardinality(old) + 1, Len(rows))

RunPass(busy, sure) ==
  LET pass == Found(busy, sure) IN
  /\ seen' = pass.seen
  /\ ideas' = Kept(ideas \o pass.found)
  /\ staked' = staked \cup Stakes(pass.found)
  /\ UNCHANGED <<feedVars, trending, life>>
-----------------------------------------------------------------------------
\* The process dies, and the next remembers no key and no token; it scans before
\* its backfill ends.
Reboot ==
  /\ life < MaxLife
  /\ life' = life + 1
  /\ boot' = now
  /\ seen' = <<>>
  /\ trending' = {}
  /\ UNCHANGED <<now, minutes, bars, heard, forming, ideas, staked>>

ScannerNext ==
  \/ MinuteEnds \/ BackfillFails \/ Reboot
  \/ \E m \in Minutes, row \in {"part", "whole"}, mood \in Mood : MinuteComes(m, row, mood)
  \/ \E at \in Minutes, mood, part \in Mood : Backfilled(at, mood, part)
  \/ \E tokens \in SUBSET Trend : Polls(tokens)
  \/ \E busy \in SUBSET Launch, sure \in BOOLEAN : RunPass(busy, sure)

ScannerSpec == ScannerInit /\ [][ScannerNext]_scannerVars
-----------------------------------------------------------------------------
(* Properties.                                                              *)

\* "An idea already emitted must not repeat on every 20s pass": one process
\* repeats an idea only after as many newer ones as it keeps.
NoEarlyRepeat ==
  \A i, j \in DOMAIN ideas :
    i < j /\ ideas[i].key = ideas[j].key /\ ideas[i].life = ideas[j].life =>
      j - i > Keep

\* A minute of the bar is missing, with later ones there, or was heard in part.
Gap(b) == \E m \in Minutes : BarOf(m) = b /\ m <= heard /\ minutes[m] # "whole"

\* "Drop a still-forming final bar": an idea comes after its bar's end by the
\* clock.  What a pass judges then is the whole bar, but for two cases: it has a gap,
\* or a backfill stored it while it was forming and the minute that ends it has
\* not come.
JudgedClosed ==
  /\ \A i \in DOMAIN ideas :
       ideas[i].key[1] = "major" => (ideas[i].key[2] + 1) * BarLife <= ideas[i].at
  /\ \A b \in Judged : bars[b].whole \/ Gap(b) \/ b \in forming

\* What the scanners say, they say once, and of bars that are over.
IdeasSound == NoEarlyRepeat /\ JudgedClosed
=================================================================================
