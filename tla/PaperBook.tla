------------------------------ MODULE PaperBook ------------------------------
(***************************************************************************)
(* The paper trading engine: one bot over one symbol, from a closed candle *)
(* to the booked fill and its tax (engine/engine.ts, engine/accounting.ts, *)
(* execution/paperExecutor.ts, billing/ledger.ts), the owner's routes      *)
(* (api/routes/bots.ts), and the backtester that promises the same fills   *)
(* (backtest/backtester.ts).                                               *)
(*                                                                         *)
(* A candle is handled without an await, so one bar is one step.  What a   *)
(* strategy wants of a bar is free within what its code can ask for: the   *)
(* strategies send market orders only.  A bot that holds nothing may buy,  *)
(* one that holds may sell all; the grid may also add and sell a part, and *)
(* a sniper sells what it held too long: a house bot here may do both.  An *)
(* order is for one unit, the slippage is in the price and a fee is Fee;   *)
(* money is whole, and the average price of what is held is rounded to it. *)
(***************************************************************************)
EXTENDS Integers

CONSTANTS Price,     \* fill prices
          Fee,       \* the paper fee of a fill
          Capital,   \* initial_balance_micro
          Tax,       \* the trade tax
          Creation,  \* FEES.creationUsd
          Credits,   \* demo credits of the owner
          MaxFill,   \* bound: fills
          MaxStart,  \* bound: starts by the owner or an admin
          MaxDeath   \* bound: process deaths

ASSUME PaperAssumption ==
  /\ Price \subseteq Nat \ {0}
  /\ {Fee, Capital, Tax, Creation, Credits, MaxFill, MaxStart, MaxDeath} \subseteq Nat

VARIABLES kind,     \* bots: a quant bot (dsl) or a house bot (grid)
          botRow,   \* bots.status
          loaded,   \* Engine.bots: the status of the row in memory
          stale,    \* feedStale
          mark,     \* PaperExecutor.marks, 0 before the first price
          account,  \* bot_accounts, positions and the sums of trades
          replay,   \* the backtester's account over the same candles
          inStep,   \* the bot did so far all its strategy asked for
          credits,  \* the owner's ledger balance
          unpaid,   \* buys booked without their tax
          distils,  \* a persona request waits for its model
          fills, starts, deaths

paperVars == <<kind, botRow, loaded, stale, mark, account, replay, inStep, credits,
               unpaid, distils, fills, starts, deaths>>

Opening == [cash |-> Capital, qty |-> 0, avg |-> 0, realized |-> 0, fees |-> 0]
MaxQty == 2   \* rungs of the grid

PaperInit ==
  /\ kind \in {"quant", "house"}
  /\ botRow = IF kind = "house" THEN "running" ELSE "none"
  /\ loaded = IF kind = "house" THEN "running" ELSE "absent"
  /\ stale = FALSE
  /\ mark = 0
  /\ account = Opening
  /\ replay = Opening
  /\ inStep = TRUE
  /\ credits = Credits
  /\ unpaid = 0
  /\ distils = FALSE
  /\ fills = 0 /\ starts = 0 /\ deaths = 0
-----------------------------------------------------------------------------
(* The rows of the bot and its copy in memory.                              *)

\* loadBots: a bot that is loaded keeps the row it was loaded with.
Reloaded(memory, row) ==
  IF row \notin {"running", "paused"} THEN "absent"
  ELSE IF memory = "absent" THEN row ELSE memory

Deploy ==
  /\ botRow = "none"
  /\ credits >= Creation
  /\ credits' = credits - Creation
  /\ botRow' = "running"
  /\ loaded' = Reloaded(loaded, "running")
  /\ UNCHANGED <<kind, stale, mark, account, replay, inStep, unpaid, distils, fills, starts, deaths>>

\* Another user clones the bot and pays its creator.
CloneSold ==
  /\ botRow # "none" /\ kind = "quant"
  /\ credits < Credits
  /\ credits' = credits + 1
  /\ UNCHANGED <<kind, botRow, loaded, stale, mark, account, replay, inStep, unpaid,
                 distils, fills, starts, deaths>>

\* botToggle: its owner's, or an admin's for any bot.
Start ==
  /\ botRow # "none"
  /\ starts < MaxStart
  /\ starts' = starts + 1
  /\ botRow' = "running"
  /\ loaded' = Reloaded(loaded, "running")
  /\ UNCHANGED <<kind, stale, mark, account, replay, inStep, credits, unpaid, distils, fills, deaths>>

Stop ==
  /\ botRow \in {"running", "paused"}
  /\ botRow' = "stopped"
  /\ loaded' = Reloaded(loaded, "stopped")
  /\ inStep' = FALSE
  /\ replay' = Opening
  /\ UNCHANGED <<kind, stale, mark, account, credits, unpaid, distils, fills, starts, deaths>>

\* A persona is distilled by a model; the bot is then rebuilt from its row.
AskPersona ==
  /\ botRow # "none" /\ kind = "quant" /\ ~distils
  /\ distils' = TRUE
  /\ UNCHANGED <<kind, botRow, loaded, stale, mark, account, replay, inStep, credits,
                 unpaid, fills, starts, deaths>>

PersonaSaved ==
  /\ distils
  /\ distils' = FALSE
  /\ loaded' = Reloaded("absent", botRow)
  /\ UNCHANGED <<kind, botRow, stale, mark, account, replay, inStep, credits, unpaid,
                 fills, starts, deaths>>

FeedStatus ==
  /\ stale' = ~stale
  /\ UNCHANGED <<kind, botRow, loaded, mark, account, replay, inStep, credits, unpaid,
                 distils, fills, starts, deaths>>

\* A tick of the feed; no order rests in the book for it to fill.
Tick(p) ==
  /\ mark' = p
  /\ UNCHANGED <<kind, botRow, loaded, stale, account, replay, inStep, credits, unpaid,
                 distils, fills, starts, deaths>>

Restarted(row) ==
  /\ deaths < MaxDeath
  /\ deaths' = deaths + 1
  /\ loaded' = Reloaded("absent", row)
  /\ stale' = FALSE
  /\ distils' = FALSE

PaperDies ==
  /\ Restarted(botRow)
  /\ mark' = 0
  /\ UNCHANGED <<kind, botRow, account, replay, inStep, credits, unpaid, fills, starts>>
-----------------------------------------------------------------------------
(* Orders and fills.                                                        *)

\* A DSL strategy enters when it is flat and sells all it holds.
RuleWants == IF account.qty = 0 THEN {"buy"} ELSE {"sell"}

\* The grid moves to the rung the price asks for.
RungWants ==
  (IF account.qty < MaxQty THEN {"buy"} ELSE {}) \cup
  (IF account.qty > 0 THEN {"sell", "part"} ELSE {})

\* What the bot's strategy may want of a bar.
Wanted == {"nothing"} \cup IF kind = "quant" THEN RuleWants ELSE RungWants

SellQty(b, want) == IF want = "part" THEN 1 ELSE b.qty

\* The average price of q held at avg and one more at p.
Averaged(avg, q, p) == IF q = 0 THEN p ELSE (avg * q + p) \div (q + 1)

\* applyFill: average cost, the fee on both sides.
Bought(b, p) ==
  [b EXCEPT !.cash = @ - p - Fee, !.qty = @ + 1, !.avg = Averaged(@, b.qty, p), !.fees = @ + Fee]

Sold(b, p, k) ==
  [b EXCEPT !.cash = @ + k * p - Fee, !.qty = @ - k, !.avg = IF k = b.qty THEN 0 ELSE @,
            !.realized = @ + k * (p - b.avg) - Fee]

\* A mutant: a partial sale takes the cost of all that is held.
SoldWhole(b, p, k) ==
  [b EXCEPT !.cash = @ + k * p - Fee, !.qty = @ - k, !.avg = IF k = b.qty THEN 0 ELSE @,
            !.realized = @ + k * p - b.qty * b.avg - Fee]

Filled(b, want, p) == IF want = "buy" THEN Bought(b, p) ELSE Sold(b, p, SellQty(b, want))

\* execute: a paused bot only exits, and a buy needs its notional in cash.
Executes(want, p) ==
  /\ want # "nothing"
  /\ want = "buy" => loaded # "paused" /\ p <= account.cash

\* applyIntent of the backtester.
Replayed(want, p) ==
  IF want = "nothing" \/ (want = "buy" /\ p > replay.cash) THEN replay
  ELSE IF want = "buy"
    THEN [replay EXCEPT !.cash = @ - (p + Fee), !.qty = @ + 1,
            !.avg = IF replay.qty = 0 THEN p ELSE (@ * replay.qty + p) \div (replay.qty + 1),
            !.fees = @ + Fee]
  ELSE LET k == SellQty(replay, want)
       IN [replay EXCEPT !.cash = @ + (k * p - Fee), !.qty = @ - k,
             !.avg = IF replay.qty - k = 0 THEN 0 ELSE @,
             !.realized = @ + (k * (p - replay.avg) - Fee)]

Taxed == kind = "quant"
Pays == ~Taxed \/ credits >= Tax

\* A mutant: only the table is told.
PausedRow(paid) ==
  IF paid THEN UNCHANGED <<botRow, loaded>> ELSE botRow' = "paused" /\ UNCHANGED loaded

\* handleFill, after the booking: who cannot pay is paused, in the table and
\* in memory.
Paused(paid) ==
  IF paid THEN UNCHANGED <<botRow, loaded>> ELSE botRow' = "paused" /\ loaded' = "paused"

\* The booking, in one transaction with the tax.
Books(want, p) ==
  /\ fills < MaxFill
  /\ fills' = fills + 1
  /\ account' = Filled(account, want, p)
  /\ credits' = IF Taxed /\ Pays THEN credits - Tax ELSE credits
  /\ unpaid' = IF Pays \/ want # "buy" THEN unpaid ELSE unpaid + 1

\* The backtester follows as long as the bot was let do as its strategy says.
Follows(free, want, p) ==
  /\ inStep' = (inStep /\ free)
  /\ replay' = IF inStep' THEN Replayed(want, p) ELSE Opening

\* A closed candle for a bot that is loaded, on a feed that is not stale.
Bar(p, want) ==
  /\ loaded # "absent" /\ ~stale
  /\ mark' = p
  /\ Follows(loaded = "running", want, p)
  /\ IF Executes(want, p)
       THEN Books(want, p) /\ Paused(Pays)
       ELSE UNCHANGED <<botRow, loaded, account, credits, unpaid, fills>>
  /\ UNCHANGED <<kind, stale, distils, starts, deaths>>

\* onTimer of the strategies that hold no longer than they said.
HeldTooLong ==
  /\ loaded # "absent" /\ mark # 0
  /\ kind = "house" /\ account.qty > 0
  /\ Books("sell", mark)
  /\ Follows(FALSE, "sell", mark)
  /\ Paused(Pays)
  /\ UNCHANGED <<kind, stale, mark, distils, starts, deaths>>

\* The process dies with the fill booked and the bot not paused yet.
DiesUnpaused(p, want) ==
  /\ loaded # "absent" /\ ~stale
  /\ Executes(want, p) /\ ~Pays
  /\ Books(want, p)
  /\ Restarted(botRow)
  /\ Follows(loaded = "running", want, p)
  /\ mark' = 0
  /\ UNCHANGED <<kind, botRow, starts>>

PaperNext ==
  \/ Deploy \/ CloneSold \/ Start \/ Stop \/ AskPersona \/ PersonaSaved
  \/ FeedStatus \/ PaperDies \/ HeldTooLong
  \/ \E p \in Price : Tick(p)
  \/ \E p \in Price, want \in Wanted : Bar(p, want) \/ DiesUnpaused(p, want)

PaperSpec == PaperInit /\ [][PaperNext]_paperVars
-----------------------------------------------------------------------------
(* Properties.                                                              *)

PaperTypeOK ==
  /\ kind \in {"quant", "house"}
  /\ botRow \in {"none", "running", "paused", "stopped"}
  /\ loaded \in {"absent", "running", "paused"}
  /\ {stale, inStep, distils} \subseteq BOOLEAN
  /\ mark \in Price \cup {0}
  /\ {account, replay} \subseteq [cash : Int, qty : 0 .. MaxQty, avg : Nat,
                               realized : Int, fees : Nat]
  /\ credits \in 0 .. Credits
  /\ unpaid \in 0 .. MaxFill /\ fills \in 0 .. MaxFill
  /\ starts \in 0 .. MaxStart /\ deaths \in 0 .. MaxDeath

\* Cash, the cost of what is held, the realized profit and the fees of the
\* buys account for each other, whatever was bought, added to and sold in part:
\* all that is ever missing is what the average of each buy was rounded by.
BooksBalance ==
  Capital + account.realized - (account.cash + account.qty * account.avg + account.fees)
    \in 0 .. fills

\* The backtester reaches the account the engine books for the same candles
\* and wishes.
BacktestMirrors == inStep => replay = account

\* An owner without credits gets one entry for nothing, and one more for each
\* time he starts the bot or the process dies before the pause is written.
UnpaidEntries == unpaid <= 1 + starts + deaths

PaperSound == BooksBalance /\ BacktestMirrors /\ UnpaidEntries
=============================================================================
