------------------------------ MODULE Delegation ------------------------------
(***************************************************************************)
(* A user lets a bot trade their wallet: the life of a grant               *)
(* (live/delegation/grants.ts, api/routes/delegation.ts), the in-process   *)
(* cache of grants that may not spend (revocationCache.ts), and the two    *)
(* gates a delegated buy passes (delegationPolicy.ts, executionRouter.ts). *)
(*                                                                         *)
(* An action is the code between two awaits.  A request may be refused for *)
(* reasons kept outside (membership, origin, tier, the provider's answer,  *)
(* sanctions): GiveUp, or an action not taken.  Left out: the caps and the *)
(* usage ledger, exits (both gates let them pass), the wallet row's state  *)
(* for display, and venue cancels, which no adapter offers.                *)
(***************************************************************************)
EXTENDS Naturals

CONSTANTS Grant,
          Op,        \* requests and timer passes that may overlap
          Nobody,
          MaxCrash   \* bound: restarts

ASSUME CrashAssumption == MaxCrash \in Nat

VARIABLES grant,     \* delegation_grants and the wallet's execution account
          recon,     \* the newest reconciliation_runs row of that account
          refused,   \* revocationCache: the ids it holds
          hydrated,  \* and whether it has read the database
          op,        \* where each request stands
          spend,     \* a delegated buy between its two gates
          crashes

vars == <<grant, recon, refused, hydrated, op, spend, crashes>>

Live   == {"pending", "active", "paused"}
Final  == {"revoked", "expired"}
\* wallet: provider_wallet_id is known.  listed: the account is active, so the
\* timer reconciles it.  due: expires_at has passed.
GrantRow == [status : Live \cup Final \cup {"none"}, privy : BOOLEAN,
             wallet : BOOLEAN, signer : BOOLEAN, funded : BOOLEAN,
             listed : BOOLEAN, due : BOOLEAN]

ReconRow == [by : Op \cup {Nobody},
             status : {"none", "running", "clean", "aged", "failed"}]
OpRow == [pc : {"idle", "bind", "decode", "reconcile", "screen", "verify"},
          grant : Grant]

TypeOK ==
  /\ grant \in [Grant -> GrantRow]
  /\ recon \in [Grant -> ReconRow]
  /\ refused \in SUBSET Grant
  /\ hydrated \in BOOLEAN
  /\ op \in [Op -> OpRow]
  /\ spend \in [Grant -> {"none", "approved", "sent"}]
  /\ crashes \in 0 .. MaxCrash

Absent == [status |-> "none", privy |-> FALSE, wallet |-> FALSE,
           signer |-> FALSE, funded |-> FALSE, listed |-> FALSE, due |-> FALSE]

Init ==
  /\ grant = [g \in Grant |-> Absent]
  /\ recon = [g \in Grant |-> [by |-> Nobody, status |-> "none"]]
  /\ refused = {}
  /\ hydrated = FALSE
  /\ op \in [Op -> [pc : {"idle"}, grant : Grant]]
  /\ spend = [g \in Grant |-> "none"]
  /\ crashes = 0
-----------------------------------------------------------------------------
(* Decisions over what is stored.                                           *)

\* isRevoked, which executionRouter.execute asks; a cold cache refuses all.
Refused(g) == ~hydrated \/ g \in refused

\* Mutant of MayApprove: the signer's own check is dropped.
ApproveUnbound(r) == r.status = "active" /\ ~r.due

\* evaluateDelegation, for a buy within its caps.
MayApprove(r) == r.status = "active" /\ ~r.due /\ r.signer

\* Mutant of Fit: any finished pass will do.
FitOnce(g) == grant[g].privy /\ grant[g].funded
              /\ recon[g].status \in {"clean", "failed"}

\* What activateGrant reads after the signer is verified.
Fit(g) == grant[g].privy /\ grant[g].funded /\ recon[g].status = "clean"

\* Mutant of MayResume: not paused is not asked.
ResumeAny(g) ==
  grant[g].privy => grant[g].signer /\ recon[g].status = "clean"

\* setGrantPaused(false).
MayResume(g) ==
  /\ grant[g].status = "paused"
  /\ ~grant[g].due
  /\ grant[g].privy => grant[g].signer /\ recon[g].status = "clean"

\* Mutant of Lapsed: a paused grant keeps.
LapsedRunning(r) == r.due /\ r.status \in {"pending", "active"}

\* expireDueGrants.
Lapsed(r) == r.due /\ r.status \in Live

Expired(r) == [r EXCEPT !.status = "expired"]

\* containFailure.
Contained(r) == [r EXCEPT !.status = IF @ = "active" THEN "paused" ELSE @,
                          !.listed = FALSE]

\* Mutant of Unspendable: paused grants are left out.
UnspendableFinal(rows) == {g \in Grant : rows[g].status \in Final}

\* hydrate.
Unspendable(rows) == {g \in Grant : rows[g].status \in Final \cup {"paused"}}
-----------------------------------------------------------------------------
(* The owner's requests that do not wait.                                   *)

\* The server listens once boot is over.
Up == hydrated

SetGrant(g, r) == grant' = [grant EXCEPT ![g] = r]

\* createGrant; without the provider there is no account and no wallet row.
Create(g) ==
  /\ Up /\ grant[g].status = "none"
  /\ \E privy \in BOOLEAN :
       SetGrant(g, [Absent EXCEPT !.status = "pending", !.privy = privy])
  /\ refused' = refused \cup {g}
  /\ UNCHANGED <<recon, hydrated, op, spend, crashes>>

\* revokeGrant, whole: nothing after its first await changes the grant.
Revoke(g) ==
  /\ Up /\ grant[g].status # "none"
  /\ SetGrant(g, IF grant[g].status = "revoked" THEN grant[g]
                 ELSE [grant[g] EXCEPT !.status = "revoked", !.listed = FALSE])
  /\ refused' = refused \cup {g}
  /\ UNCHANGED <<recon, hydrated, op, spend, crashes>>

Pause(g) ==
  /\ Up /\ grant[g].status \in Live
  /\ SetGrant(g, [grant[g] EXCEPT !.status = "paused"])
  /\ refused' = refused \cup {g}
  /\ UNCHANGED <<recon, hydrated, op, spend, crashes>>

Resume(g) ==
  /\ Up /\ MayResume(g)
  /\ SetGrant(g, [grant[g] EXCEPT !.status = "active",
                                  !.listed = @ \/ grant[g].privy])
  /\ refused' = refused \ {g}
  /\ UNCHANGED <<recon, hydrated, op, spend, crashes>>

\* The hourly cron, and every listing of a user's grants.
Expire(g) ==
  /\ Up /\ Lapsed(grant[g])
  /\ SetGrant(g, Expired(grant[g]))
  /\ refused' = refused \cup {g}
  /\ UNCHANGED <<recon, hydrated, op, spend, crashes>>
-----------------------------------------------------------------------------
(* Requests that wait.                                                      *)

Busy(a, pc) == op[a].pc = pc
Free(a) == Up /\ Busy(a, "idle")

\* Request a leaves off at pc, with the rows it writes before that.
MoveTo(a, pc, g) == op' = [op EXCEPT ![a] = [pc |-> pc, grant |-> g]]

GiveUp(a) ==
  /\ op[a].pc \notin {"idle", "reconcile"}
  /\ MoveTo(a, "idle", op[a].grant)
  /\ UNCHANGED <<grant, recon, refused, hydrated, spend, crashes>>

\* POST provider-wallet: looks at the status, then asks Privy and the screen.
Bind(a, g) ==
  /\ Free(a) /\ grant[g].status = "pending"
  /\ MoveTo(a, "bind", g)
  /\ UNCHANGED <<grant, recon, refused, hydrated, spend, crashes>>

Bound(a) ==
  /\ Busy(a, "bind")
  /\ SetGrant(op[a].grant, [grant[op[a].grant] EXCEPT !.wallet = TRUE])
  /\ MoveTo(a, "idle", op[a].grant)
  /\ UNCHANGED <<recon, refused, hydrated, spend, crashes>>

\* POST funding/import: decodes the transaction, books it, and reconciles.
Import(a, g) ==
  /\ Free(a) /\ grant[g].wallet /\ grant[g].privy
  /\ MoveTo(a, "decode", g)
  /\ UNCHANGED <<grant, recon, refused, hydrated, spend, crashes>>

BeginPass(a, g) ==
  /\ recon' = [recon EXCEPT ![g] = [by |-> a, status |-> "running"]]
  /\ MoveTo(a, "reconcile", g)

Imported(a) ==
  /\ Busy(a, "decode")
  /\ SetGrant(op[a].grant, [grant[op[a].grant] EXCEPT !.funded = TRUE])
  /\ BeginPass(a, op[a].grant)
  /\ UNCHANGED <<refused, hydrated, spend, crashes>>

\* The owner's reconcile and withdrawal-check, and the timer's pass over the
\* accounts that are listed.
Reconcile(a, g) ==
  /\ Free(a) /\ grant[g].privy
  /\ BeginPass(a, g)
  /\ UNCHANGED <<grant, refused, hydrated, spend, crashes>>

\* reconcileAccount closes its own row, which need not be the newest.
Close(a, status) ==
  recon' = [g \in Grant |-> IF g = op[a].grant /\ recon[g].by = a
                            THEN [recon[g] EXCEPT !.status = status]
                            ELSE recon[g]]

Matched(a) ==
  /\ Busy(a, "reconcile")
  /\ Close(a, "clean")
  /\ MoveTo(a, "idle", op[a].grant)
  /\ UNCHANGED <<grant, refused, hydrated, spend, crashes>>

Drifted(a) ==
  /\ Busy(a, "reconcile")
  /\ Close(a, "failed")
  /\ SetGrant(op[a].grant, Contained(grant[op[a].grant]))
  /\ refused' = refused \cup {op[a].grant}
  /\ MoveTo(a, "idle", op[a].grant)
  /\ UNCHANGED <<hydrated, spend, crashes>>

\* POST activate: the screen first.
Activate(a, g) ==
  /\ Free(a) /\ grant[g].wallet
  /\ MoveTo(a, "screen", g)
  /\ UNCHANGED <<grant, recon, refused, hydrated, spend, crashes>>

\* activateGrant looks at the status, then runs the preflight and asks the
\* provider about the signer.
Screened(a) ==
  /\ Busy(a, "screen") /\ grant[op[a].grant].status = "pending"
  /\ MoveTo(a, "verify", op[a].grant)
  /\ UNCHANGED <<grant, recon, refused, hydrated, spend, crashes>>

\* The status is not looked at again.
Activated(a) ==
  LET g == op[a].grant IN
  /\ Busy(a, "verify") /\ Fit(g)
  /\ SetGrant(g, [grant[g] EXCEPT !.status = "active", !.signer = TRUE,
                                  !.listed = TRUE])
  /\ refused' = refused \ {g}
  /\ MoveTo(a, "idle", g)
  /\ UNCHANGED <<recon, hydrated, spend, crashes>>
-----------------------------------------------------------------------------
(* A delegated buy.                                                         *)

Approve(g) ==
  /\ Up /\ spend[g] # "approved" /\ MayApprove(grant[g])
  /\ spend' = [spend EXCEPT ![g] = "approved"]
  /\ UNCHANGED <<grant, recon, refused, hydrated, op, crashes>>

Route(g) ==
  /\ spend[g] = "approved"
  /\ spend' = [spend EXCEPT ![g] = IF Refused(g) THEN "none" ELSE "sent"]
  /\ UNCHANGED <<grant, recon, refused, hydrated, op, crashes>>
-----------------------------------------------------------------------------
(* Time and restarts.                                                       *)

\* Ten minutes pass since the clean pass.
Age(g) ==
  /\ recon[g].status = "clean"
  /\ recon' = [recon EXCEPT ![g].status = "aged"]
  /\ UNCHANGED <<grant, refused, hydrated, op, spend, crashes>>

FallDue(g) ==
  /\ grant[g].status # "none" /\ ~grant[g].due
  /\ SetGrant(g, [grant[g] EXCEPT !.due = TRUE])
  /\ UNCHANGED <<recon, refused, hydrated, op, spend, crashes>>

Crash ==
  /\ Up /\ crashes < MaxCrash
  /\ refused' = {} /\ hydrated' = FALSE
  /\ op' = [a \in Op |-> [op[a] EXCEPT !.pc = "idle"]]
  /\ spend' = [g \in Grant |-> IF spend[g] = "approved" THEN "none"
                               ELSE spend[g]]
  /\ crashes' = crashes + 1
  /\ UNCHANGED <<grant, recon>>

\* supervisor.boot: hydrate, then expire.
Boot ==
  /\ ~hydrated
  /\ hydrated' = TRUE
  /\ grant' = [g \in Grant |-> IF Lapsed(grant[g]) THEN Expired(grant[g])
                               ELSE grant[g]]
  /\ refused' = Unspendable(grant')
  /\ UNCHANGED <<recon, op, spend, crashes>>

Owner(g) == Create(g) \/ Revoke(g) \/ Pause(g) \/ Resume(g)
Ask(a, g) == Bind(a, g) \/ Import(a, g) \/ Reconcile(a, g) \/ Activate(a, g)
Answer(a) == \/ GiveUp(a) \/ Bound(a) \/ Imported(a) \/ Matched(a)
             \/ Drifted(a) \/ Screened(a) \/ Activated(a)

Next ==
  \/ \E g \in Grant : \/ Owner(g) \/ Expire(g) \/ Approve(g) \/ Route(g)
                      \/ Age(g) \/ FallDue(g)
  \/ \E a \in Op : Answer(a) \/ \E g \in Grant : Ask(a, g)
  \/ Crash \/ Boot

Spec == Init /\ [][Next]_vars

\* The cron runs every hour, and a process that died is started again.
Fairness == WF_vars(Boot) /\ \A g \in Grant : WF_vars(Expire(g))
FairSpec == Spec /\ Fairness
-----------------------------------------------------------------------------
(* Properties.                                                              *)

\* However a grant came to a stop, by its owner, by expiry or by a drift found
\* on its wallet, and over restarts, the router's cache refuses it.
CacheCovers ==
  hydrated => \A g \in Grant :
    grant[g].status \in {"paused", "revoked", "expired"} => g \in refused

\* An active grant of the provider's has its signer, money booked to it, an
\* account the timer reconciles, and no failed pass as the newest, whichever of
\* activation, resumption and overlapping passes came last.
ActiveIsFit ==
  \A g \in Grant : grant[g].status = "active" /\ grant[g].privy =>
    /\ grant[g].signer /\ grant[g].funded /\ grant[g].listed
    /\ recon[g].status # "failed"

\* A buy passes the router only while its grant is active and bound, whatever
\* happened to the grant since the risk engine approved it.
SpendOnlyActive ==
  [][\A g \in Grant : spend'[g] = "sent" /\ spend[g] # "sent" =>
       grant[g].status = "active" /\ grant[g].signer]_vars

Verifying(g) == \E a \in Op : Busy(a, "verify") /\ op[a].grant = g

\* A revoked or expired grant stays so, unless an activation of it had read its
\* status before.
FinalStays ==
  [][\A g \in Grant : grant[g].status \in Final /\ ~Verifying(g) =>
       grant'[g].status \in Final]_vars

\* A grant past its expiry stops without anyone acting (expireDueGrants).
DueStops ==
  \A g \in Grant : grant[g].due /\ grant[g].status \in Live
                     ~> grant[g].status \in Final

\* "The owner withdraws authority over their own wallet and that is the end of
\* it" (api/routes/delegation.ts:429).
RevokedIsFinal ==
  [][\A g \in Grant : grant[g].status = "revoked" =>
       grant'[g].status = "revoked"]_vars
=============================================================================
