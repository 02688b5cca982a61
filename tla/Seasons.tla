--------------------------------- MODULE Seasons ---------------------------------
(***************************************************************************)
(* Seasons and the experience they pay (social/seasons.ts, social/xp.ts,   *)
(* social/badges.ts): a cron closes a season that is over, ranks the bots, *)
(* rewards their owners and starts the next one.                           *)
(*                                                                         *)
(* All of it is synchronous, in several commits: a crash may fall between  *)
(* any two.  Equity is left out, so the standings are free; trades pay     *)
(* until the day's cap.                                                    *)
(***************************************************************************)
EXTENDS Naturals, Sequences, FiniteSets

CONSTANTS Bot, Quant, House,
          OwnerOf,      \* whose bot it is; a house bot ranks and earns nothing
          TopN,         \* the ranks that are rewarded
          TradeXp, TradeCap,
          MaxSeason, MaxTrades, MaxDays   \* bounds

ASSUME SeasonAssumption ==
  /\ OwnerOf \in [Bot -> Quant \cup {House}] /\ House \notin Quant
  /\ IsFiniteSet(Bot)
  /\ {TopN, TradeCap, MaxTrades, MaxDays} \subseteq Nat
  /\ {TradeXp, MaxSeason} \subseteq Nat \ {0}

VARIABLES season,     \* seasons
          standing,   \* season_results, best first
          finish,     \* xp_events of type season_finish
          topBadge,   \* user_badges season_top10
          tradeXp,    \* xp_events of type trade: today's, by owner
          tenBadge,   \* user_badges for the number of trades
          up, trades, days

seasonVars ==
  <<season, standing, finish, topBadge, tradeXp, tenBadge, up, trades, days>>

SeasonIds == 1 .. MaxSeason
Standings == {s \in [1 .. Cardinality(Bot) -> Bot] :
                \A i, j \in DOMAIN s : i # j => s[i] # s[j]}

SeasonTypeOK ==
  /\ season \in [SeasonIds -> {"none", "active", "over", "closed"}]
  /\ standing \in [SeasonIds -> Standings \cup {<<>>}]
  /\ finish \subseteq Quant \X SeasonIds \X Nat
  /\ topBadge \subseteq Quant \X SeasonIds
  /\ tradeXp \in [Quant -> Nat] /\ tenBadge \subseteq Quant
  /\ up \in BOOLEAN /\ trades \in 0 .. MaxTrades /\ days \in 0 .. MaxDays

SeasonInit ==
  /\ season = [s \in SeasonIds |-> IF s = 1 THEN "active" ELSE "none"]
  /\ standing = [s \in SeasonIds |-> <<>>]
  /\ finish = {} /\ topBadge = {} /\ tenBadge = {}
  /\ tradeXp = [o \in Quant |-> 0]
  /\ up = TRUE /\ trades = 0 /\ days = 0
-----------------------------------------------------------------------------
\* ensureActiveSeason, in a table of seasons.
EnsureActive(table) ==
  IF \E s \in SeasonIds : table[s] \in {"active", "over"} THEN table
  ELSE [s \in SeasonIds |->
          IF table[s] = "none" /\ \A r \in 1 .. s - 1 : table[r] # "none"
          THEN "active" ELSE table[s]]

\* Of the first, the top three, the rest.
Prize(rank) == IF rank = 1 THEN 500 ELSE IF rank <= 3 THEN 250 ELSE 100

\* Mutant of Places: every bot of an owner's is paid.
PlacesEach(table, k) ==
  {<<OwnerOf[table[i]], Prize(i)>> : i \in {j \in 1 .. k : OwnerOf[table[j]] # House}}

\* awardXp, best rank first: unique in the owner and the season, so an owner's
\* second bot is paid nothing.
Places(table, k) ==
  {<<OwnerOf[table[i]], Prize(i)>> :
     i \in {j \in 1 .. k : /\ OwnerOf[table[j]] # House
                           /\ \A l \in 1 .. j - 1 : OwnerOf[table[l]] # OwnerOf[table[j]]}}

Rewarded == IF TopN < Cardinality(Bot) THEN TopN ELSE Cardinality(Bot)

\* closeDueSeasons: the results and the close are one transaction, each reward a
\* commit; it dies after the k-th, or goes on to the next season.
CloseSeason(s) ==
  /\ up /\ season[s] = "over"
  /\ \E table \in Standings, k \in 0 .. Rewarded :
       /\ standing' = [standing EXCEPT ![s] = table]
       /\ finish' = finish \cup {<<p[1], s, p[2]>> : p \in Places(table, k)}
       /\ topBadge' = topBadge \cup {<<p[1], s>> : p \in Places(table, k)}
       /\ LET closed == [season EXCEPT ![s] = "closed"] IN
            \/ season' = closed /\ up' = FALSE
            \/ k = Rewarded /\ season' = EnsureActive(closed) /\ UNCHANGED up
  /\ UNCHANGED <<tradeXp, tenBadge, trades, days>>

SeasonEnds(s) ==
  /\ season[s] = "active" /\ s < MaxSeason
  /\ season' = [season EXCEPT ![s] = "over"]
  /\ UNCHANGED <<standing, finish, topBadge, tradeXp, tenBadge, up, trades, days>>

\* index.ts's trade listener: experience, then the badges for many trades.
TradeDone(b) ==
  /\ up /\ trades < MaxTrades /\ trades' = trades + 1
  /\ IF OwnerOf[b] = House THEN UNCHANGED <<tradeXp, tenBadge>>
     ELSE /\ tradeXp' = [tradeXp EXCEPT ![OwnerOf[b]] =
                           IF @ >= TradeCap THEN @ ELSE @ + TradeXp]
          /\ tenBadge' \in {tenBadge, tenBadge \cup {OwnerOf[b]}}
  /\ UNCHANGED <<season, standing, finish, topBadge, up, days>>

SeasonDayEnds ==
  /\ days < MaxDays /\ days' = days + 1
  /\ tradeXp' = [o \in Quant |-> 0]
  /\ UNCHANGED <<season, standing, finish, topBadge, tenBadge, up, trades>>

SeasonServerDies ==
  /\ up /\ up' = FALSE
  /\ UNCHANGED <<season, standing, finish, topBadge, tradeXp, tenBadge, trades, days>>

\* Boot makes sure that a season runs; rewards that were not written stay so.
SeasonBoot ==
  /\ ~up /\ up' = TRUE
  /\ season' = EnsureActive(season)
  /\ UNCHANGED <<standing, finish, topBadge, tradeXp, tenBadge, trades, days>>

SeasonNext ==
  \/ SeasonDayEnds \/ SeasonServerDies \/ SeasonBoot
  \/ \E s \in SeasonIds : CloseSeason(s) \/ SeasonEnds(s)
  \/ \E b \in Bot : TradeDone(b)

SeasonSpec == SeasonInit /\ [][SeasonNext]_seasonVars
-----------------------------------------------------------------------------
(* Properties.                                                              *)

BestRank(o, s) ==
  CHOOSE i \in DOMAIN standing[s] :
    OwnerOf[standing[s][i]] = o /\
    \A j \in 1 .. i - 1 : OwnerOf[standing[s][j]] # o

\* A season pays an owner once, for the best of his bots, whatever crashes fall
\* between the rewards; a running server has one season that is not closed; and
\* a day's trades pay no more than the cap and the trade that reaches it.
SeasonsPayOnce ==
  /\ \A f \in finish : /\ season[f[2]] = "closed"
                       /\ f[3] = Prize(BestRank(f[1], f[2]))
  /\ up => Cardinality({s \in SeasonIds : season[s] \in {"active", "over"}}) = 1
  /\ \A o \in Quant : tradeXp[o] < TradeCap + TradeXp
=============================================================================
