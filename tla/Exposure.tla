-------------------------------- MODULE Exposure --------------------------------
(***************************************************************************)
(* What the bots may have at risk in the one real Trader wallet:           *)
(* evaluateIntent and snapshotPortfolio (live/riskEngine.ts), the USDG     *)
(* check of the council's swaps (live/swapIntent.ts), the Manager's        *)
(* allocations (live/managerRebalancer.ts, live/accounts.ts), the capital  *)
(* stages and the launch of full-market autonomy                           *)
(* (live/fullMarketController.ts).                                         *)
(*                                                                         *)
(* Amounts are whole units.  A gate and the order it approves are one      *)
(* synchronous step; what a price, a score, a fill's quality or a receipt  *)
(* says is free, and so is what the chain says of an order's transactions. *)
(***************************************************************************)
EXTENDS Integers, FiniteSetsExt

CONSTANTS Bots,         \* 1 .. n, in the order of their ids
          Caps,         \* the capital of each stage
          TradePct,     \* limits.maxPerTradePct
          ReservePct,   \* limits.minCashReservePct
          MaxPositions, \* limits.maxSimultaneousPositions
          MaxDraw,      \* the drawdown that halts, in units
          Shares,       \* amounts an allocation may take
          MaxOrders     \* bound: orders

Stages == DOMAIN Caps

ASSUME ExposureAssumption ==
  /\ Bots \subseteq Nat \ {0}
  /\ 1 \in Stages
  /\ \A s \in Stages : s \in Nat /\ Caps[s] \in Nat
  /\ \A s, t \in Stages : s <= t => Caps[s] <= Caps[t]
  /\ {TradePct, ReservePct} \subseteq 0 .. 100
  /\ {MaxPositions, MaxDraw, MaxOrders} \subseteq Nat
  /\ Shares \subseteq Nat

VARIABLES book,      \* live_orders
          cash,      \* USDG by the custody ledger
          stage,     \* live_config.capital_stage
          stopped,   \* live_config.halted
          armed,     \* live_config.full_market_autonomy
          auth,      \* live_config.authorized_capital_usdg, 0 when it is not set
          alloc,     \* manager_capital_allocations
          pnl, peak, \* what live_ledger has realised, and its highest value
          blind      \* an order was in doubt at a launch (ghost)

configVars == <<stage, stopped, armed, auth, blind>>
ledgerVars == <<cash, pnl, peak>>
exposureVars == <<book, configVars, ledgerVars, alloc>>

Ids == 1 .. MaxOrders

\* A council's swap is "approved" (risk_approved) until it is broadcast, and the
\* reserve it was judged by is its floor (ghost).
BookRow == [bot : Bots \cup {0}, by : {"none", "bot", "council"}, size : Nat, floor : Int,
            state : {"none", "approved", "open", "unknown", "failed", "rejected",
                     "held", "selling", "sold"}]
NoOrder == [bot |-> 0, by |-> "none", size |-> 0, floor |-> 0, state |-> "none"]

ExposureTypeOK ==
  /\ book \in [Ids -> BookRow]
  /\ cash \in Int
  /\ stage \in Stages
  /\ {stopped, armed, blind} \subseteq BOOLEAN
  /\ auth \in Nat
  /\ alloc \in [Bots -> Shares]
  /\ pnl \in Int /\ peak \in Nat

ExposureInit ==
  /\ book = [o \in Ids |-> NoOrder]
  /\ cash = Caps[1]
  /\ stage = 1 /\ stopped = FALSE /\ armed = FALSE /\ auth = 0 /\ blind = FALSE
  /\ alloc \in [Bots -> Shares]
  /\ SumFunctionOnSet(alloc, Bots) <= Caps[1]
  /\ pnl = 0 /\ peak = 0

Reserve(capital) == (capital * ReservePct) \div 100
Ceiling(capital) == (capital * TradePct) \div 100
ReserveAt(s) == Reserve(Caps[s])

\* effectiveCapital: a promotion does not raise what a launch authorised.
Effective == Min({auth, Caps[stage]})

Worth(set) == SumFunctionOnSet([o \in Ids |-> book[o].size], set)
InState(states) == {o \in Ids : book[o].state \in states}
Entries == {o \in Ids : book[o].by = "bot"}
Swaps == {o \in Ids : book[o].by = "council"}
Of(b) == {o \in Ids : book[o].bot = b}
Buying == {"approved", "open"}
Drawdown == peak - pnl

\* Open orders and lots still held; an exit counts as both while it runs.
Deployed(set) == Worth(set \cap InState(Buying \cup {"held", "selling"}))
                 + Worth(set \cap InState({"selling"}))
-----------------------------------------------------------------------------
\* Mutant of Committed: buys that have not settled are not counted.
CommittedNothing(set) == Worth(set \cap {})

\* Approved and unsettled buys.  One that became unknown no longer counts; it
\* halts the network.
Committed(set) == Worth(set \cap InState(Buying))

Fresh(o) == book[o].state = "none" /\ \A p \in 1 .. o - 1 : book[p].state # "none"

\* haltNetwork ends full-market autonomy too.
HaltNetwork(yes) == stopped' = (stopped \/ yes) /\ armed' = (armed /\ ~yes)

\* evaluateIntent passes an entry of bot b, and mirrorTrade submits it.
Enter(o, b, size) ==
  /\ Fresh(o)
  /\ ~stopped
  /\ Drawdown < MaxDraw
  /\ size <= Ceiling(Caps[stage])
  /\ Cardinality(InState(Buying \cup {"held", "selling"})) < MaxPositions
  /\ Deployed(Ids) + size <= Caps[stage] - ReserveAt(stage)
  /\ size <= cash - Committed(Ids) - ReserveAt(stage)
  /\ Deployed(Of(b)) + size <= alloc[b]
  /\ book' = [book EXCEPT ![o] = [bot |-> b, by |-> "bot", size |-> size,
                                  floor |-> ReserveAt(stage), state |-> "open"]]
  /\ UNCHANGED <<configVars, ledgerVars, alloc>>

\* Any evaluation past the drawdown halts, whatever it decides; and the cycle of
\* the full market halts for what it reads of values, exits and policies.
Breaker ==
  /\ Drawdown >= MaxDraw \/ armed
  /\ ~stopped
  /\ HaltNetwork(TRUE)
  /\ UNCHANGED <<book, ledgerVars, stage, auth, alloc, blind>>

\* buildSwapIntentFromCouncil sells USDG for the bot that has the most: it knows
\* the commitments of earlier swaps, and not those of the bots' orders, which
\* carry no sell_symbol.  What it buys may be held, which no limit of positions
\* refuses.
SwapIn(o, b, size) ==
  /\ Fresh(o)
  /\ ~stopped /\ armed /\ auth > 0
  /\ alloc[b] > 0 /\ \A c \in Bots : alloc[c] <= alloc[b]
  /\ Drawdown < MaxDraw
  /\ size <= Ceiling(Effective)
  /\ cash - Committed(Swaps) - size >= Reserve(Effective)
  /\ book' = [book EXCEPT ![o] = [bot |-> b, by |-> "council", size |-> size,
                                  floor |-> Reserve(Effective), state |-> "approved"]]
  /\ UNCHANGED <<configVars, ledgerVars, alloc>>

\* An exit is bound by no entry gate.
Leave(o) ==
  /\ book[o].state = "held"
  /\ ~stopped
  /\ book' = [book EXCEPT ![o].state = "selling"]
  /\ HaltNetwork(Drawdown >= MaxDraw)
  /\ UNCHANGED <<ledgerVars, stage, auth, alloc, blind>>
-----------------------------------------------------------------------------
(* What becomes of an order.                                                *)

\* A swap is broadcast; one whose cycle died before stays approved for good.
Broadcast(o) ==
  /\ book[o].state = "approved"
  /\ book' = [book EXCEPT ![o].state = "open"]
  /\ UNCHANGED <<configVars, ledgerVars, alloc>>

\* A swap is refused before it was signed; the network halts if an approval was
\* signed for it.
Declined(o) ==
  /\ book[o].state = "approved"
  /\ book' = [book EXCEPT ![o].state = "rejected"]
  /\ \E child \in BOOLEAN : HaltNetwork(child)
  /\ UNCHANGED <<ledgerVars, stage, auth, alloc, blind>>

BuySettles(o) ==
  /\ book[o].state \in {"open", "unknown"}
  /\ book' = [book EXCEPT ![o].state = "held"]
  /\ cash' = cash - book[o].size
  /\ UNCHANGED <<configVars, pnl, peak, alloc>>

\* Refused before anything was signed, reverted, or given up.
Missed(o) ==
  /\ book[o].state \in {"open", "unknown"}
  /\ book' = [book EXCEPT ![o].state = "failed"]
  /\ \E signed \in BOOLEAN : HaltNetwork(signed)
  /\ UNCHANGED <<ledgerVars, stage, auth, alloc, blind>>

\* Nobody can say: reconciling, or rejected over a transaction that has no
\* outcome, and the network halts.
Doubtful(o) ==
  /\ book[o].state \in Buying
  /\ book' = [book EXCEPT ![o].state = "unknown"]
  /\ HaltNetwork(TRUE)
  /\ UNCHANGED <<ledgerVars, stage, auth, alloc, blind>>

ExitSettles(o, gain) ==
  /\ book[o].state = "selling"
  /\ book' = [book EXCEPT ![o].state = "sold"]
  /\ cash' = cash + book[o].size + gain
  /\ pnl' = pnl + gain
  /\ peak' = Max({peak, pnl'})
  /\ UNCHANGED <<configVars, alloc>>
-----------------------------------------------------------------------------
(* The Manager and the operator.                                            *)

\* Arming passes the gate only when no order is in doubt, and ends full-market
\* autonomy.
Resume ==
  /\ stopped
  /\ InState({"unknown"}) = {}
  /\ stopped' = FALSE /\ armed' = FALSE
  /\ UNCHANGED <<book, ledgerVars, stage, auth, alloc, blind>>

\* enableFullMarketAutonomy lifts a halt.  It looks at transactions and not at
\* orders: one in doubt whose transaction is confirmed is no obstacle.
EnableFullMarket ==
  /\ stage = 1
  /\ cash >= Caps[1]
  /\ auth' = cash /\ armed' = TRUE /\ stopped' = FALSE
  /\ blind' = (blind \/ InState({"unknown"}) # {})
  /\ UNCHANGED <<book, ledgerVars, stage, alloc>>

\* Mutant of Promotable: the capital of the higher stage need not be there.
PromotableUnfunded(s) ==
  /\ 2 * Drawdown <= MaxDraw
  /\ InState({"failed", "unknown", "open", "selling"}) = {}

\* A failed order stays an obstacle for good; an approved one is none.
Promotable(s) ==
  /\ cash >= Caps[s]
  /\ 2 * Drawdown <= MaxDraw
  /\ InState({"failed", "unknown", "open", "selling"}) = {}

SetStage(s) ==
  /\ s \in Stages
  /\ s > stage => s = stage + 1 /\ Promotable(s)
  /\ stage' = s
  /\ UNCHANGED <<book, ledgerVars, stopped, armed, auth, alloc, blind>>

Deposit(n) ==
  /\ cash + n <= Caps[Max(Stages)]
  /\ cash' = cash + n
  /\ UNCHANGED <<book, configVars, pnl, peak, alloc>>

\* setBotAllocation, in the order of the bots' ids, each write against what
\* the others have by then; one refusal takes the whole rebalance back.
Refuses(new, b, capital) ==
  SumFunctionOnSet([c \in Bots |-> IF c <= b THEN new[c] ELSE alloc[c]], Bots) > capital

\* No allocation grows by more than a tenth of the capital, and all of them
\* stay within what the reserve leaves; capital is the lower of the authorised
\* amount and the wallet's value.
Rebalance(capital, new) ==
  /\ ~stopped
  /\ \A b \in Bots : new[b] <= alloc[b] + capital \div 10
  /\ SumFunctionOnSet(new, Bots) <= capital - (capital * 3) \div 10
  /\ \A b \in Bots : ~Refuses(new, b, capital)
  /\ alloc' = new
  /\ UNCHANGED <<book, configVars, ledgerVars>>

ExposureNext ==
  \/ \E o \in Ids, b \in Bots :
       \/ \E size \in 1 .. Ceiling(Caps[stage]) : Enter(o, b, size)
       \/ \E size \in 1 .. Ceiling(Effective) : SwapIn(o, b, size)
  \/ \E o \in Ids :
       \/ Leave(o) \/ Broadcast(o) \/ Declined(o)
       \/ BuySettles(o) \/ Missed(o) \/ Doubtful(o)
       \/ \E gain \in {-1, 1} : ExitSettles(o, gain)
  \/ Breaker \/ Resume \/ EnableFullMarket
  \/ \E s \in Stages : SetStage(s)
  \/ Deposit(Caps[1])
  \/ \E capital \in {Caps[stage], Caps[stage] \div 2}, new \in [Bots -> Shares] :
       Rebalance(capital, new)

ExposureSpec == ExposureInit /\ [][ExposureNext]_exposureVars
-----------------------------------------------------------------------------
Newest(o) == o \in Swaps /\ \A p \in Swaps : p <= o

\* Whichever of its buys settle, and in which order, the wallet keeps a cash
\* reserve across fills, losses, promotions and halts (live/riskEngine.ts:413-424,
\* live/swapIntent.ts:82-95).  Of the bots' orders alone it is the stage's.  Of the
\* council's swaps alone it is the one the newest was judged by: a promotion
\* counts no swap that is only approved, and raises no authorised amount.  Nothing is
\* kept of the two together, because the second does not count the first, nor
\* after a launch that lifted the halt of an order in doubt.
ReserveKept ==
  \/ blind
  \/ /\ Swaps = {} => cash - Committed(Ids) >= ReserveAt(stage)
     /\ Entries = {} =>
          \A o \in Ids : Newest(o) => cash - Committed(Ids) >= book[o].floor
==============================================================================
