-------------------------------- MODULE Markets --------------------------------
(***************************************************************************)
(* The parts of the server around the markets: what they trade (Universe), *)
(* full-market autonomy and its council (FullMarket), the limits every     *)
(* entry passes (Exposure), paper trading and its replay (PaperBook), and  *)
(* what comes from outside and may come late or twice: prices (Feeds),     *)
(* Stripe's events (Webhooks) and the mails Resend answers (Reminders);    *)
(* and a directed swap on its way to the chain (Swap).                     *)
(*                                                                         *)
(* As in Services, a behaviour is one of a single part, and the others     *)
(* rest.                                                                   *)
(***************************************************************************)
EXTENDS FullMarket, Exposure, Universe, PaperBook, Feeds, Webhooks, Reminders,
        Swap

VARIABLE part

Part == {"fullmarket", "exposure", "universe", "paper", "feeds", "webhooks",
         "reminders", "swap"}

MCCaps == [s \in 0 .. 2 |-> 10 * s]

\* Where a part may start in several ways, the others see one of them.
MarketsInit ==
  /\ part \in Part
  /\ MarketInit /\ ExposureInit /\ UniverseInit /\ PaperInit /\ FeedInit
  /\ WebhookInit /\ ReminderInit /\ SwapInit
  /\ part = "exposure" \/ \A b \in Bots : alloc[b] = 0
  /\ part = "paper" \/ kind = "quant"
  /\ part = "feeds" \/ source = "binance"
  /\ part = "reminders" \/ about = "renewal_5d"

\* The step is p's, and the parts beside it rest.
Only(p) ==
  /\ part = p /\ UNCHANGED part
  /\ IF p = "fullmarket" THEN TRUE ELSE UNCHANGED marketVars
  /\ IF p = "exposure" THEN TRUE ELSE UNCHANGED exposureVars
  /\ IF p = "universe" THEN TRUE ELSE UNCHANGED universeVars
  /\ IF p = "paper" THEN TRUE ELSE UNCHANGED paperVars
  /\ IF p = "feeds" THEN TRUE ELSE UNCHANGED feedVars
  /\ IF p = "webhooks" THEN TRUE ELSE UNCHANGED webhookVars
  /\ IF p = "reminders" THEN TRUE ELSE UNCHANGED reminderVars
  /\ IF p = "swap" THEN TRUE ELSE UNCHANGED swapVars

MarketsNext ==
  \/ Only("fullmarket") /\ FullMarketNext
  \/ Only("exposure") /\ ExposureNext
  \/ Only("universe") /\ UniverseNext
  \/ Only("paper") /\ PaperNext
  \/ Only("feeds") /\ FeedNext
  \/ Only("webhooks") /\ WebhookNext
  \/ Only("reminders") /\ ReminderNext
  \/ Only("swap") /\ SwapNext

marketsVars ==
  <<part, marketVars, exposureVars, universeVars, paperVars, feedVars,
    webhookVars, reminderVars, swapVars>>

\* Each fairness is the one its module justifies; none of its actions is
\* enabled in a part that rests.
MarketsSpec ==
  /\ MarketsInit /\ [][MarketsNext]_marketsVars
  /\ FeedFairness /\ WebhookFairness /\ ReminderFairness
=============================================================================
