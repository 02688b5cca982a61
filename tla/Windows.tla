-------------------------------- MODULE Windows --------------------------------
(***************************************************************************)
(* The research window (research/window.ts): a bounded time of looser      *)
(* limits, opened by an operator and closed by a cron or early, which puts *)
(* back the limits it found.                                               *)
(*                                                                         *)
(* Everything here is synchronous; what interleaves are the operator, the  *)
(* cron, time and a crash between two statements.  Limits are one number:  *)
(* how loose they are.                                                     *)
(***************************************************************************)
EXTENDS Naturals

CONSTANTS MaxWindow,   \* bound: windows ever opened
          MaxLoose     \* updateLimits clamps what is asked for to this

ASSUME WindowAssumption == {MaxWindow, MaxLoose} \subseteq Nat

VARIABLES limits,      \* live_config.limits_json
          window,      \* research_window
          base         \* the limits last in force with no window (ghost)

windowVars == <<limits, window, base>>

WindowIds == 1 .. MaxWindow
WindowRow == [state : {"none", "open", "elapsed", "closed"},
              restore : 0 .. MaxLoose]

WindowTypeOK ==
  /\ limits \in 0 .. MaxLoose /\ base \in 0 .. MaxLoose
  /\ window \in [WindowIds -> WindowRow]

WindowInit ==
  /\ limits = 0 /\ base = 0
  /\ window = [i \in WindowIds |-> [state |-> "none", restore |-> 0]]
-----------------------------------------------------------------------------
Unclosed == {i \in WindowIds : window[i].state \in {"open", "elapsed"}}

\* Mutant of Current: the oldest comes first.
CurrentOldest(i) == i \in Unclosed /\ \A j \in Unclosed : i <= j

\* currentWindow, closeIfElapsed: the newest row that is not closed.
Current(i) == i \in Unclosed /\ \A j \in Unclosed : j <= i

Clamped(n) == IF n > MaxLoose THEN MaxLoose ELSE n

\* The operator's own change of the limits.
SetLimits ==
  /\ limits' \in 0 .. MaxLoose
  /\ base' = IF Unclosed = {} THEN limits' ELSE base
  /\ UNCHANGED window

\* The row, with the limits it found, is written before they change; a window
\* that has elapsed and is not closed yet does not stand in the way.
OpenWindow ==
  /\ \A i \in WindowIds : Current(i) => window[i].state = "elapsed"
  /\ \E i \in WindowIds, n \in 0 .. MaxLoose + 1 :
       /\ window[i].state = "none" /\ \A j \in 1 .. i - 1 : window[j].state # "none"
       /\ window' = [window EXCEPT ![i] =
            [state |-> "open", restore |-> limits]]
       /\ limits' \in {Clamped(n), limits}   \* limits: it crashed in between
  /\ UNCHANGED base

WindowElapses(i) ==
  /\ window[i].state = "open"
  /\ window' = [window EXCEPT ![i].state = "elapsed"]
  /\ UNCHANGED <<limits, base>>

\* closeIfElapsed: the limits are put back, then the row is marked.
CloseIfElapsed(i) ==
  /\ Current(i) /\ window[i].state = "elapsed"
  /\ limits' = window[i].restore
  /\ window' \in {[window EXCEPT ![i].state = "closed"], window}   \* window: it crashed
  /\ UNCHANGED base

\* closeNow moves every unclosed row's end, and closes the newest.
CloseNow(i) ==
  /\ Current(i)
  /\ limits' = window[i].restore
  /\ window' = [j \in WindowIds |->
       IF j = i THEN [window[j] EXCEPT !.state = "closed"]
       ELSE IF j \in Unclosed THEN [window[j] EXCEPT !.state = "elapsed"] ELSE window[j]]
  /\ UNCHANGED base

WindowNext ==
  \/ SetLimits \/ OpenWindow
  \/ \E i \in WindowIds : WindowElapses(i) \/ CloseIfElapsed(i) \/ CloseNow(i)

WindowSpec == WindowInit /\ [][WindowNext]_windowVars
-----------------------------------------------------------------------------
(* Properties.                                                              *)

\* The way back is never lost: with no window left, the limits are those that
\* were in force before the windows, also when one opened over another that
\* had elapsed, and when a close had to be done twice.
LimitsReturn == Unclosed = {} => limits = base
=============================================================================
