------------------------------- MODULE Universe -------------------------------
(***************************************************************************)
(* The tokens the machine may trade: the registry refreshed from           *)
(* Robinhood's API and verified against the chain                          *)
(* (robinhood/assetRegistry.ts), the corporate actions that pause a token  *)
(* (robinhood/corporateActions.ts), the pinned universe made from it       *)
(* (robinhood/universe.ts) and the signer policy generated for that        *)
(* universe, applied by hand in Privy and read back                        *)
(* (live/signing/universePolicy.ts).                                       *)
(*                                                                         *)
(* Refreshes are not guarded against each other: a slow one overlaps the   *)
(* next.  What the API lists is free and may be wrong; the chain is right  *)
(* but a read of it may fail.  A value is TRUE when it is the chain's.     *)
(***************************************************************************)
EXTENDS Naturals, SequencesExt

CONSTANTS Asset,      \* the contracts a universe must hold, all of them
          Refresher,  \* refreshes in flight at one time
          MaxRefresh, \* bound: refreshes
          MaxPinned,  \* bound: snapshots
          MaxPolicy   \* bound: policy bundles

ASSUME UniverseAssumption ==
  /\ Asset # {} /\ IsFiniteSet(Asset) /\ Refresher # {}
  /\ {MaxRefresh, MaxPinned, MaxPolicy} \subseteq Nat

VARIABLES registry,   \* rh_assets
          refresh,    \* refreshRegistry, by refresh
          clean,      \* ok of the newest rh_registry_runs row
          corporate,  \* rh_corporate_actions: does one pause the token
          pinned,     \* rh_universe_snapshots with their assets
          policy,     \* live_config: the universe and policy it binds
          bundles,    \* how many bundles were generated
          privy,      \* the bundle Privy enforces
          readBack,   \* a request that awaits Privy's policy bodies
          refreshes

universeVars == <<registry, refresh, clean, corporate, pinned, policy, bundles,
                  privy, readBack, refreshes>>

Row == [listed : BOOLEAN, symbol : BOOLEAN, decimals : BOOLEAN,
        tradable : BOOLEAN, verified : BOOLEAN]
Unlisted == [listed |-> FALSE, symbol |-> FALSE, decimals |-> FALSE,
             tradable |-> FALSE, verified |-> FALSE]
Resting == [at |-> "idle", due |-> <<>>, rejected |-> FALSE]
Nothing == [for |-> "nothing", on |-> 0, hash |-> 0, bodies |-> 0]
Disarmed(p) == [p EXCEPT !.halted = TRUE, !.armed = FALSE]

UniverseTypeOK ==
  /\ registry \in [Asset -> Row]
  /\ refresh \in [Refresher ->
       [at : {"idle", "fetch", "verify"},
        due : Seq([asset : Asset, symbol : BOOLEAN, decimals : BOOLEAN]),
        rejected : BOOLEAN]]
  /\ clean \in BOOLEAN
  /\ corporate \in [Asset -> {"none", "pauses", "over"}]
  /\ pinned \in Seq([terms : [Asset -> [symbol : BOOLEAN, decimals : BOOLEAN]],
                     state : {"draft", "active", "retired"}, now : BOOLEAN,
                     policy : 0 .. MaxPolicy, applied : BOOLEAN])
  /\ policy \in [universe : 0 .. MaxPinned, expected : 0 .. MaxPolicy,
                 observed : 0 .. MaxPolicy, halted : BOOLEAN, armed : BOOLEAN]
  /\ {bundles, privy} \subseteq 0 .. MaxPolicy
  /\ readBack \in [for : {"nothing", "confirm", "enable"}, on : 0 .. MaxPinned,
                   hash : 0 .. MaxPolicy, bodies : 0 .. MaxPolicy]
  /\ refreshes \in 0 .. MaxRefresh

UniverseInit ==
  /\ registry = [a \in Asset |-> Unlisted]
  /\ refresh = [r \in Refresher |-> Resting]
  /\ clean = FALSE
  /\ corporate = [a \in Asset |-> "none"]
  /\ pinned = <<>>
  /\ policy = [universe |-> 0, expected |-> 0, observed |-> 0,
               halted |-> TRUE, armed |-> FALSE]
  /\ bundles = 0
  /\ privy = 0
  /\ readBack = Nothing
  /\ refreshes = 0
-----------------------------------------------------------------------------
(* refreshRegistry.                                                         *)

RefreshStarts(r) ==
  /\ refresh[r].at = "idle"
  /\ refreshes < MaxRefresh
  /\ refreshes' = refreshes + 1
  /\ refresh' = [refresh EXCEPT ![r] = [Resting EXCEPT !.at = "fetch"]]
  /\ UNCHANGED <<registry, clean, corporate, pinned, policy, bundles, privy, readBack>>

\* The API did not answer: the registry stays as it is.
FetchFails(r) ==
  /\ refresh[r].at = "fetch"
  /\ clean' = FALSE
  /\ refresh' = [refresh EXCEPT ![r] = Resting]
  /\ UNCHANGED <<registry, corporate, pinned, policy, bundles, privy, readBack, refreshes>>

\* A mutant: the decimals are upserted as well.
UpsertedWhole(row, api) ==
  [row EXCEPT !.listed = TRUE, !.symbol = api.symbol, !.tradable = api.tradable,
              !.decimals = api.decimals]

\* The upsert of one asset: a row that exists keeps its decimals, and what
\* an earlier verification said.
Upserted(row, api) ==
  [row EXCEPT !.listed = TRUE, !.symbol = api.symbol, !.tradable = api.tradable,
              !.decimals = IF row.listed THEN @ ELSE api.decimals]

\* A snapshot made now has a content of its own once a row or the time of a
\* verification changed.
Outdated == [i \in DOMAIN pinned |-> [pinned[i] EXCEPT !.now = FALSE]]

\* The API's list, then the rows to verify, read before the first await.
Listed(r) ==
  /\ refresh[r].at = "fetch"
  /\ \E api \in [Asset -> [symbol : BOOLEAN, decimals : BOOLEAN, tradable : BOOLEAN]],
        order \in SetToSeqs(Asset) :
       LET new == [a \in Asset |-> Upserted(registry[a], api[a])]
       IN /\ registry' = new
          /\ refresh' = [refresh EXCEPT ![r].at = "verify",
               ![r].due = [i \in DOMAIN order |->
                 [asset |-> order[i], symbol |-> new[order[i]].symbol,
                  decimals |-> new[order[i]].decimals]]]
          /\ pinned' = IF new = registry THEN pinned ELSE Outdated
  /\ UNCHANGED <<clean, corporate, policy, bundles, privy, readBack, refreshes>>

\* What the chain tells and the row as it was read must agree.
VerifyAsset(row, symbolRead, decimalsRead) ==
  symbolRead /\ row.symbol /\ decimalsRead /\ row.decimals

\* The decimals the chain gave are kept whatever the verdict.
Verified(r) ==
  /\ refresh[r].at = "verify"
  /\ refresh[r].due # <<>>
  /\ \E symbolRead, decimalsRead \in BOOLEAN :
       LET row == Head(refresh[r].due)
           ok == VerifyAsset(row, symbolRead, decimalsRead)
       IN /\ registry' = [registry EXCEPT ![row.asset].verified = ok,
                                          ![row.asset].decimals = @ \/ decimalsRead]
          /\ refresh' = [refresh EXCEPT ![r].due = Tail(@), ![r].rejected = @ \/ ~ok]
  /\ pinned' = Outdated
  /\ UNCHANGED <<clean, corporate, policy, bundles, privy, readBack, refreshes>>
-----------------------------------------------------------------------------
(* createUniverseSnapshot, activateUniverseSnapshot, ensureCryptoCoreUniverse. *)

Active == {i \in DOMAIN pinned : pinned[i].state = "active"}

\* A registry whose newest run was clean, and every contract in it verified.
Pinnable(ok) ==
  ok /\ \A a \in Asset : registry[a].listed /\ registry[a].verified /\ registry[a].tradable

\* An identical snapshot is used again.
WithSnapshot(seq) ==
  IF \E i \in DOMAIN seq : seq[i].now THEN seq
  ELSE Append(seq, [terms |-> [a \in Asset |-> [symbol |-> registry[a].symbol,
                                                 decimals |-> registry[a].decimals]],
                    state |-> "draft", now |-> TRUE, policy |-> 0, applied |-> FALSE])

Activated(seq, i) ==
  [j \in DOMAIN seq |-> [seq[j] EXCEPT !.state =
     IF j = i THEN "active" ELSE IF @ = "active" THEN "retired" ELSE @]]

\* The end of a refresh; refreshRh then makes sure a universe is active.
RefreshEnds(r) ==
  /\ refresh[r].at = "verify"
  /\ refresh[r].due = <<>>
  /\ refresh' = [refresh EXCEPT ![r] = Resting]
  /\ clean' = ~refresh[r].rejected
  /\ LET new == WithSnapshot(pinned)
         i == CHOOSE j \in DOMAIN new : new[j].now
     IN IF Active # {} \/ ~Pinnable(clean') \/ Len(new) > MaxPinned
          THEN UNCHANGED <<pinned, policy>>
          ELSE /\ pinned' = Activated(new, i)
               /\ policy' = [Disarmed(policy) EXCEPT !.universe = i]
  /\ UNCHANGED <<registry, corporate, bundles, privy, readBack, refreshes>>

AdminPins ==
  /\ Pinnable(clean)
  /\ Len(WithSnapshot(pinned)) <= MaxPinned
  /\ pinned' = WithSnapshot(pinned)
  /\ UNCHANGED <<registry, refresh, clean, corporate, policy, bundles, privy, readBack, refreshes>>

AdminActivates(i) ==
  /\ pinned' = Activated(pinned, i)
  /\ policy' = [Disarmed(policy) EXCEPT !.universe = i]
  /\ UNCHANGED <<registry, refresh, clean, corporate, bundles, privy, readBack, refreshes>>

\* refreshCorporateActions: an action the API no longer lists stays as it was.
CorporateRead(a, now) ==
  /\ corporate' = [corporate EXCEPT ![a] = now]
  /\ UNCHANGED <<registry, refresh, clean, pinned, policy, bundles, privy, readBack, refreshes>>
-----------------------------------------------------------------------------
(* The signer policy of the active universe.                                *)

\* A mutant: what was observed before is left in place.
GenerateAgain ==
  /\ bundles < MaxPolicy
  /\ bundles' = bundles + 1
  /\ \E i \in Active :
       /\ pinned' = [pinned EXCEPT ![i].policy = bundles + 1]
       /\ policy' = [Disarmed(policy) EXCEPT !.expected = bundles + 1]
  /\ UNCHANGED <<registry, refresh, clean, corporate, privy, readBack, refreshes>>

\* generateUniversePolicyBundle: halts until the bundle is read back.
Generate ==
  /\ bundles < MaxPolicy
  /\ bundles' = bundles + 1
  /\ \E i \in Active :
       /\ pinned' = [pinned EXCEPT ![i].policy = bundles + 1]
       /\ policy' = [Disarmed(policy) EXCEPT !.expected = bundles + 1, !.observed = 0]
  /\ UNCHANGED <<registry, refresh, clean, corporate, privy, readBack, refreshes>>

\* An operator changes what Privy enforces.
OperatorApplies(p) ==
  /\ privy' = p
  /\ UNCHANGED <<registry, refresh, clean, corporate, pinned, policy, bundles, readBack, refreshes>>

\* policy/confirm: the hash comes with the request.
AskConfirm(p) ==
  /\ readBack = Nothing
  /\ readBack' = [Nothing EXCEPT !.for = "confirm", !.hash = p]
  /\ UNCHANGED <<registry, refresh, clean, corporate, pinned, policy, bundles, privy, refreshes>>

\* fullMarketReadiness, up to its wait for the policy bodies.
AskEnableUniverse ==
  /\ readBack = Nothing
  /\ \E i \in Active :
       /\ pinned[i].policy # 0 /\ pinned[i].applied
       /\ policy.universe = i
       /\ policy.expected = pinned[i].policy /\ policy.observed = pinned[i].policy
       /\ readBack' = [Nothing EXCEPT !.for = "enable", !.on = i, !.hash = pinned[i].policy]
  /\ UNCHANGED <<registry, refresh, clean, corporate, pinned, policy, bundles, privy, refreshes>>

BodiesRead ==
  /\ readBack.for # "nothing" /\ readBack.bodies = 0 /\ privy # 0
  /\ readBack' = [readBack EXCEPT !.bodies = privy]
  /\ UNCHANGED <<registry, refresh, clean, corporate, pinned, policy, bundles, privy, refreshes>>

\* recordAppliedUniversePolicy: the bundle must still be the active one's.
RecordApplied ==
  /\ readBack.for = "confirm"
  /\ readBack.bodies = readBack.hash
  /\ \E i \in Active :
       /\ pinned[i].policy = readBack.hash
       /\ pinned' = [pinned EXCEPT ![i].applied = TRUE]
  /\ policy' = [Disarmed(policy) EXCEPT !.observed = readBack.hash]
  /\ readBack' = Nothing
  /\ UNCHANGED <<registry, refresh, clean, corporate, bundles, privy, refreshes>>

\* The rest of the readiness and the update: nothing read before the wait is
\* read again.
EnableUniverse ==
  /\ readBack.for = "enable"
  /\ readBack.bodies = readBack.hash
  /\ policy' = [policy EXCEPT !.halted = FALSE, !.armed = TRUE]
  /\ readBack' = Nothing
  /\ UNCHANGED <<registry, refresh, clean, corporate, pinned, bundles, privy, refreshes>>

\* Any other check fails, or Privy does not answer.
ReadBackFails ==
  /\ readBack.for # "nothing"
  /\ readBack' = Nothing
  /\ UNCHANGED <<registry, refresh, clean, corporate, pinned, policy, bundles, privy, refreshes>>

UniverseNext ==
  \/ \E r \in Refresher : \/ RefreshStarts(r) \/ FetchFails(r) \/ Listed(r)
                          \/ Verified(r) \/ RefreshEnds(r)
  \/ AdminPins
  \/ \E i \in DOMAIN pinned : AdminActivates(i)
  \/ \E a \in Asset, now \in {"pauses", "over"} : CorporateRead(a, now)
  \/ Generate \/ BodiesRead \/ AskEnableUniverse
  \/ \E p \in 1 .. bundles : OperatorApplies(p) \/ AskConfirm(p)
  \/ RecordApplied \/ EnableUniverse \/ ReadBackFails

UniverseSpec == UniverseInit /\ [][UniverseNext]_universeVars
-----------------------------------------------------------------------------
(* Properties.                                                              *)

\* runtimeAssetGate, without the price and the market's session.
Passes(i, a) ==
  /\ registry[a].verified /\ registry[a].tradable
  /\ pinned[i].terms[a] = [symbol |-> registry[a].symbol, decimals |-> registry[a].decimals]
  /\ corporate[a] # "pauses"

\* Whatever the API said and however refreshes overlapped, a token that may
\* trade is sized by the decimals its contract has: the upsert of a later
\* refresh never brings the API's own back under an old verification.
SizedByChain == \A i \in Active, a \in Asset : Passes(i, a) => pinned[i].terms[a].decimals

\* The policy live_config holds as observed is one that Privy's rules were
\* read back to equal, and that some universe still expects.
ObservedWasRead ==
  policy.observed # 0 =>
    \E i \in DOMAIN pinned : pinned[i].policy = policy.observed /\ pinned[i].applied

\* Both: what trades is what the chain and Privy were read to say.
UniverseSound == SizedByChain /\ ObservedWasRead
=============================================================================
