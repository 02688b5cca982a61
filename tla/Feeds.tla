-------------------------------- MODULE Feeds --------------------------------
(***************************************************************************)
(* The connection of a market data feed: the socket, its reconnect timer   *)
(* and the watchdog (feeds/feed.ts, feeds/binanceFeed.ts,                  *)
(* feeds/coinbaseFeed.ts), the pump.fun feed, which has no watchdog        *)
(* (feeds/pumpPortalFeed.ts), and what the engine is told (index.ts).      *)
(*                                                                         *)
(* A connection may die silently: it stays open and nothing arrives.  What *)
(* the messages say is left out, and so is the length of the backoff.      *)
(***************************************************************************)
EXTENDS Naturals

CONSTANTS MaxAttempt  \* bound: the attempts the backoff still counts

ASSUME FeedAssumption == MaxAttempt \in Nat \ {0}

VARIABLES source,   \* the feed
          socket,   \* ws
          due,      \* the reconnect timer is set
          attempt,  \* reconnectAttempt
          aged,     \* the last message is older than the watchdog allows
          told      \* status events: what the engine and preflight know

feedVars == <<source, socket, due, attempt, aged, told>>

FeedTypeOK ==
  /\ source \in {"binance", "coinbase", "pump"}
  /\ socket \in {"none", "dialing", "open", "silent", "closing", "closed"}
  /\ {due, aged} \subseteq BOOLEAN
  /\ attempt \in 0 .. MaxAttempt
  /\ told \in [connected : BOOLEAN, stale : BOOLEAN]

FeedInit ==
  /\ source \in {"binance", "coinbase", "pump"}
  /\ socket = "none"
  /\ due = FALSE
  /\ attempt = 0
  /\ aged = TRUE
  /\ told = [connected |-> FALSE, stale |-> FALSE]

FeedStart ==
  /\ socket = "none"
  /\ socket' = "dialing"
  /\ UNCHANGED <<source, due, attempt, aged, told>>

Opens ==
  /\ socket = "dialing"
  /\ socket' = "open"
  /\ attempt' = 0
  /\ aged' = FALSE
  /\ told' = [connected |-> TRUE, stale |-> FALSE]
  /\ UNCHANGED <<source, due>>

\* The dial fails, or the other side ends the connection: error and close.
Breaks ==
  /\ socket \in {"dialing", "open", "silent"}
  /\ socket' = "closing"
  /\ UNCHANGED <<source, due, attempt, aged, told>>

GoesSilent ==
  /\ socket = "open"
  /\ socket' = "silent"
  /\ UNCHANGED <<source, due, attempt, aged, told>>

\* A message: also one that arrives after the feed was called stale.
Arrives ==
  /\ socket \in {"open", "silent"}
  /\ socket' = "open"
  /\ aged' = FALSE
  /\ UNCHANGED <<source, due, attempt, told>>

Ages ==
  /\ socket = "silent" /\ ~aged
  /\ aged' = TRUE
  /\ UNCHANGED <<source, socket, due, attempt, told>>

\* A mutant: the watchdog reports and leaves the socket to itself.
WatchdogReports ==
  /\ source # "pump"
  /\ told.connected /\ aged
  /\ socket \in {"open", "silent"}
  /\ told' = [connected |-> TRUE, stale |-> TRUE]
  /\ UNCHANGED <<source, socket, due, attempt, aged>>

\* startWatchdog: connected and nothing for too long; the socket is ended.
Watchdog ==
  /\ source # "pump"
  /\ told.connected /\ aged
  /\ socket \in {"open", "silent"}
  /\ told' = [connected |-> TRUE, stale |-> TRUE]
  /\ socket' = "closing"
  /\ UNCHANGED <<source, due, attempt, aged>>

\* The close handler of this socket sets one timer, with a growing backoff.
Closes ==
  /\ socket = "closing"
  /\ socket' = "closed"
  /\ told' = [connected |-> FALSE, stale |-> TRUE]
  /\ due' = TRUE
  /\ attempt' = IF attempt = MaxAttempt THEN attempt ELSE attempt + 1
  /\ UNCHANGED <<source, aged>>

Redials ==
  /\ due
  /\ due' = FALSE
  /\ socket' = "dialing"
  /\ UNCHANGED <<source, attempt, aged, told>>

Settles == Opens \/ (socket = "dialing" /\ Breaks)

FeedNext ==
  \/ FeedStart \/ Opens \/ Breaks \/ GoesSilent \/ Arrives \/ Ages
  \/ Watchdog \/ Closes \/ Redials

\* Timers fire, a closed socket reports it, and silence grows old; an
\* exchange that is dialed again and again answers at last.
FeedFairness ==
  /\ WF_feedVars(Ages) /\ WF_feedVars(Watchdog)
  /\ WF_feedVars(Closes) /\ WF_feedVars(Redials)
  /\ WF_feedVars(Settles)
  /\ SF_feedVars(Opens)

FeedSpec == FeedInit /\ [][FeedNext]_feedVars /\ FeedFairness
-----------------------------------------------------------------------------
(* Properties.                                                              *)

\* A feed of the majors that lost its connection, or whose connection died
\* without a word, is connected again in the end.
FeedRecovers ==
  (source # "pump" /\ socket \in {"silent", "closing", "closed"}) ~> (socket = "open")
=============================================================================
