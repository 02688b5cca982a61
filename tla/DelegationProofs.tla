--------------------------- MODULE DelegationProofs ---------------------------
(* The safety properties of Delegation, for any grants, requests, restarts. *)
EXTENDS Delegation, TLAPS

\* A signer is bound only to a wallet that has been funded.
SignerFunded == \A g \in Grant : grant[g].signer => grant[g].funded

\* What was approved had a signer, and has been active.
ApprovedBound ==
  \A g \in Grant : spend[g] = "approved" =>
    grant[g].signer /\ grant[g].status \in Final \cup {"active", "paused"}

\* Requests are lost with the process, and none begins before boot is over.
Quiet == ~Up => /\ \A a \in Op : Busy(a, "idle")
                /\ \A g \in Grant : spend[g] # "approved"

Inv == /\ TypeOK /\ CacheCovers /\ ActiveIsFit
       /\ SignerFunded /\ ApprovedBound /\ Quiet

\* What a row has to say for itself beside its newest pass rec.
Sound(g, r, rec) ==
  /\ r.signer => r.funded
  /\ spend[g] = "approved" =>
       r.signer /\ r.status \in Final \cup {"active", "paused"}
  /\ r.status = "active" /\ r.privy =>
       r.signer /\ r.funded /\ r.listed /\ rec.status # "failed"

\* A step that writes the rows of one grant keeps the invariant if the new rows
\* are sound and the cache refuses the grant wherever its status asks for it.
LEMMA Put ==
  ASSUME Inv, NEW g \in Grant, NEW r \in GrantRow, SetGrant(g, r),
         NEW rec \in ReconRow, recon' = [recon EXCEPT ![g] = rec],
         Sound(g, r, rec), refused' \in SUBSET Grant, refused \ {g} \subseteq refused',
         r.status \in Final \cup {"paused"} => g \in refused' \/ ~hydrated,
         op' \in [Op -> OpRow], UNCHANGED <<hydrated, spend, crashes>>,
         ~Up => UNCHANGED op
  PROVE  Inv'
<1>1. /\ grant' \in [Grant -> GrantRow] /\ grant'[g] = r
      /\ \A x \in Grant : x # g => grant'[x] = grant[x]
  BY DEF Inv, TypeOK, SetGrant
<1>2. /\ recon' \in [Grant -> ReconRow] /\ recon'[g] = rec
      /\ \A x \in Grant : x # g => recon'[x] = recon[x]
  BY DEF Inv, TypeOK
<1>3. TypeOK'
  BY <1>1, <1>2 DEF Inv, TypeOK
<1>4. CacheCovers'
  BY <1>1 DEF Inv, CacheCovers, Final
<1>5. ActiveIsFit'
  BY <1>1, <1>2 DEF Inv, ActiveIsFit, Sound
<1>6. SignerFunded'
  BY <1>1 DEF Inv, SignerFunded, Sound
<1>7. ApprovedBound'
  BY <1>1 DEF Inv, ApprovedBound, Sound
<1>8. Quiet'
  BY DEF Inv, Quiet, Up, Busy
<1> QED BY <1>3, <1>4, <1>5, <1>6, <1>7, <1>8 DEF Inv

\* In particular a step that leaves the grants and the passes alone.
LEMMA Keep ==
  ASSUME Inv, UNCHANGED <<grant, recon, refused, hydrated, spend, crashes>>,
         op' \in [Op -> OpRow], ~Up => UNCHANGED op
  PROVE  Inv'
  BY DEF Inv, TypeOK, CacheCovers, Final, ActiveIsFit, SignerFunded,
         ApprovedBound, Quiet, Up, Busy

\* What every row satisfies already.
LEMMA RowSound ==
  ASSUME Inv, NEW g \in Grant
  PROVE  /\ grant[g] \in GrantRow /\ recon[g] \in ReconRow
         /\ Sound(g, grant[g], recon[g])
         /\ recon = [recon EXCEPT ![g] = recon[g]]
         /\ grant = [grant EXCEPT ![g] = grant[g]]
  BY DEF Inv, TypeOK, Sound, SignerFunded, ApprovedBound, ActiveIsFit

\* Where a request stands after MoveTo, and that the server is up meanwhile.
LEMMA Moves ==
  ASSUME Inv, NEW a \in Op, NEW g \in Grant,
         NEW pc \in {"idle", "bind", "decode", "reconcile", "screen", "verify"},
         MoveTo(a, pc, g)
  PROVE  op' \in [Op -> OpRow]
  BY DEF Inv, TypeOK, OpRow, MoveTo

LEMMA BusyUp ==
  ASSUME Inv, NEW a \in Op, op[a].pc # "idle" \/ Free(a)
  PROVE  Up /\ op[a].grant \in Grant
  BY DEF Inv, TypeOK, OpRow, Quiet, Busy, Free
-----------------------------------------------------------------------------
(* One lemma per operation.                                                 *)

LEMMA CreateKeeps ==
  ASSUME Inv, NEW g \in Grant, Create(g)
  PROVE  Inv'
<1>1. PICK p \in BOOLEAN : SetGrant(g, [Absent EXCEPT !.status = "pending",
                                                      !.privy = p])
  BY DEF Create
<1> DEFINE r == [Absent EXCEPT !.status = "pending", !.privy = p]
<1>2. /\ r \in GrantRow /\ r.status = "pending" /\ ~r.signer
  BY DEF Absent, GrantRow, Live
<1>3. spend[g] # "approved"
  BY DEF Create, Inv, ApprovedBound, Final
<1>4. Sound(g, r, recon[g])
  BY <1>2, <1>3 DEF Sound
<1>5. SetGrant(g, r)
  BY <1>1
<1> HIDE DEF r
<1>6. op' \in [Op -> OpRow] /\ refused' \in SUBSET Grant
  BY DEF Create, Inv, TypeOK
<1> QED BY <1>2, <1>4, <1>5, <1>6, RowSound, Put DEF Create, Final

LEMMA RevokeKeeps ==
  ASSUME Inv, NEW g \in Grant, Revoke(g)
  PROVE  Inv'
<1> DEFINE r == IF grant[g].status = "revoked" THEN grant[g]
                ELSE [grant[g] EXCEPT !.status = "revoked", !.listed = FALSE]
<1>1. grant[g] \in GrantRow /\ Sound(g, grant[g], recon[g])
  BY RowSound
<1>2. /\ r \in GrantRow /\ r.status = "revoked"
      /\ r.signer = grant[g].signer /\ r.funded = grant[g].funded
  BY <1>1 DEF GrantRow, Final
<1>3. SetGrant(g, r)
  BY DEF Revoke
<1> HIDE DEF r
<1>4. Sound(g, r, recon[g])
  BY <1>1, <1>2 DEF Sound, Final
<1>5. op' \in [Op -> OpRow] /\ refused' \in SUBSET Grant
  BY DEF Revoke, Inv, TypeOK
<1> QED BY <1>2, <1>3, <1>4, <1>5, RowSound, Put DEF Revoke

LEMMA PauseKeeps ==
  ASSUME Inv, NEW g \in Grant, Pause(g)
  PROVE  Inv'
<1> DEFINE r == [grant[g] EXCEPT !.status = "paused"]
<1>1. grant[g] \in GrantRow /\ Sound(g, grant[g], recon[g])
  BY RowSound
<1>2. /\ r \in GrantRow /\ r.status = "paused"
      /\ r.signer = grant[g].signer /\ r.funded = grant[g].funded
  BY <1>1 DEF GrantRow, Live
<1>3. SetGrant(g, r)
  BY DEF Pause
<1> HIDE DEF r
<1>4. Sound(g, r, recon[g])
  BY <1>1, <1>2 DEF Sound
<1>5. op' \in [Op -> OpRow] /\ refused' \in SUBSET Grant
  BY DEF Pause, Inv, TypeOK
<1> QED BY <1>2, <1>3, <1>4, <1>5, RowSound, Put DEF Pause

LEMMA ResumeKeeps ==
  ASSUME Inv, NEW g \in Grant, Resume(g)
  PROVE  Inv'
<1> DEFINE r == [grant[g] EXCEPT !.status = "active",
                                 !.listed = @ \/ grant[g].privy]
<1>1. grant[g] \in GrantRow /\ Sound(g, grant[g], recon[g])
  BY RowSound
<1>2. grant[g].privy => grant[g].signer /\ recon[g].status = "clean"
  BY DEF Resume, MayResume
<1>3. r \in GrantRow
  BY <1>1, Zenon DEF GrantRow, Live
<1>4. r.status = "active"
  BY <1>1 DEF GrantRow
<1>5. r.listed = (grant[g].listed \/ grant[g].privy)
  BY <1>1, Zenon DEF GrantRow
<1>6. r.privy = grant[g].privy /\ r.signer = grant[g].signer
      /\ r.funded = grant[g].funded
  BY <1>1 DEF GrantRow
<1>7. SetGrant(g, r)
  BY DEF Resume
<1> HIDE DEF r
<1>8. Sound(g, r, recon[g])
  <2>1. r.signer => r.funded
    BY <1>1, <1>6 DEF Sound
  <2>2. spend[g] = "approved" => r.signer
    BY <1>1, <1>6 DEF Sound
  <2>3. r.privy => r.signer /\ r.listed /\ recon[g].status # "failed"
    BY <1>2, <1>5, <1>6
  <2> QED BY <1>4, <2>1, <2>2, <2>3 DEF Sound
<1>9. op' \in [Op -> OpRow] /\ refused' \in SUBSET Grant
  BY DEF Resume, Inv, TypeOK
<1> QED BY <1>3, <1>4, <1>7, <1>8, <1>9, RowSound, Put DEF Resume, Final

\* Expiry, by the cron or at boot, leaves a row sound.
LEMMA ExpiredSound ==
  ASSUME Inv, NEW g \in Grant
  PROVE  /\ Expired(grant[g]) \in GrantRow
         /\ Expired(grant[g]).status = "expired"
         /\ Sound(g, Expired(grant[g]), recon[g])
<1>1. grant[g] \in GrantRow /\ Sound(g, grant[g], recon[g])
  BY RowSound
<1> QED BY <1>1 DEF Expired, GrantRow, Final, Sound

LEMMA ExpireKeeps ==
  ASSUME Inv, NEW g \in Grant, Expire(g)
  PROVE  Inv'
<1>1. op' \in [Op -> OpRow] /\ refused' \in SUBSET Grant
  BY DEF Expire, Inv, TypeOK
<1> QED BY <1>1, ExpiredSound, RowSound, Put DEF Expire

LEMMA FallDueKeeps ==
  ASSUME Inv, NEW g \in Grant, FallDue(g)
  PROVE  Inv'
<1> DEFINE r == [grant[g] EXCEPT !.due = TRUE]
<1>1. grant[g] \in GrantRow /\ Sound(g, grant[g], recon[g])
  BY RowSound
<1>2. /\ r \in GrantRow /\ r.status = grant[g].status
  BY <1>1 DEF GrantRow
<1>3. /\ r.signer = grant[g].signer /\ r.funded = grant[g].funded
      /\ r.listed = grant[g].listed /\ r.privy = grant[g].privy
  BY <1>1 DEF GrantRow
<1>4. SetGrant(g, r)
  BY DEF FallDue
<1> HIDE DEF r
<1>5. Sound(g, r, recon[g])
  BY <1>1, <1>2, <1>3 DEF Sound
<1>6. op' \in [Op -> OpRow] /\ refused' \in SUBSET Grant
  BY DEF FallDue, Inv, TypeOK
<1>7. r.status \in Final \cup {"paused"} => g \in refused' \/ ~hydrated
  BY <1>2 DEF FallDue, Inv, CacheCovers, Final
<1> QED BY <1>2, <1>4, <1>5, <1>6, <1>7, RowSound, Put DEF FallDue

LEMMA BoundKeeps ==
  ASSUME Inv, NEW a \in Op, Bound(a)
  PROVE  Inv'
<1> DEFINE g == op[a].grant
           r == [grant[g] EXCEPT !.wallet = TRUE]
<1>1. Up /\ g \in Grant
  BY BusyUp DEF Bound, Busy
<1>2. grant[g] \in GrantRow /\ Sound(g, grant[g], recon[g])
  BY <1>1, RowSound
<1>3. /\ r \in GrantRow /\ r.status = grant[g].status
  BY <1>2 DEF GrantRow
<1>4. /\ r.signer = grant[g].signer /\ r.funded = grant[g].funded
      /\ r.listed = grant[g].listed /\ r.privy = grant[g].privy
  BY <1>2 DEF GrantRow
<1>5. SetGrant(g, r) /\ MoveTo(a, "idle", g)
  BY DEF Bound
<1> HIDE DEF r, g
<1>6. Sound(g, r, recon[g])
  BY <1>2, <1>3, <1>4 DEF Sound
<1>7. op' \in [Op -> OpRow] /\ refused' \in SUBSET Grant
  BY <1>1, <1>5, Moves DEF Bound, Inv, TypeOK
<1>8. r.status \in Final \cup {"paused"} => g \in refused' \/ ~hydrated
  BY <1>1, <1>3 DEF Bound, Inv, CacheCovers, Final
<1> QED BY <1>1, <1>3, <1>5, <1>6, <1>7, <1>8, RowSound, Put DEF Bound

LEMMA ImportedKeeps ==
  ASSUME Inv, NEW a \in Op, Imported(a)
  PROVE  Inv'
<1> DEFINE g == op[a].grant
           r == [grant[g] EXCEPT !.funded = TRUE]
           c == [by |-> a, status |-> "running"]
<1>1. Up /\ g \in Grant
  BY BusyUp DEF Imported, Busy
<1>2. grant[g] \in GrantRow /\ Sound(g, grant[g], recon[g])
  BY <1>1, RowSound
<1>3. /\ r \in GrantRow /\ r.status = grant[g].status
  BY <1>2 DEF GrantRow
<1>4. /\ r.signer = grant[g].signer /\ r.funded = TRUE
      /\ r.listed = grant[g].listed /\ r.privy = grant[g].privy
  BY <1>2 DEF GrantRow
<1>5. /\ SetGrant(g, r) /\ MoveTo(a, "reconcile", g)
      /\ recon' = [recon EXCEPT ![g] = c]
  BY DEF Imported, BeginPass
<1>6. c \in ReconRow /\ c.status = "running"
  BY DEF ReconRow
<1> HIDE DEF r, g, c
<1>7. Sound(g, r, c)
  BY <1>2, <1>3, <1>4, <1>6 DEF Sound
<1>8. op' \in [Op -> OpRow] /\ refused' \in SUBSET Grant
  BY <1>1, <1>5, Moves DEF Imported, Inv, TypeOK
<1>9. r.status \in Final \cup {"paused"} => g \in refused' \/ ~hydrated
  BY <1>1, <1>3 DEF Imported, Inv, CacheCovers, Final
<1> QED BY <1>1, <1>3, <1>5, <1>6, <1>7, <1>8, <1>9, Put DEF Imported

LEMMA ReconcileKeeps ==
  ASSUME Inv, NEW a \in Op, NEW g \in Grant, Reconcile(a, g)
  PROVE  Inv'
<1> DEFINE c == [by |-> a, status |-> "running"]
<1>1. Up
  BY BusyUp DEF Reconcile
<1>2. /\ MoveTo(a, "reconcile", g) /\ recon' = [recon EXCEPT ![g] = c]
  BY DEF Reconcile, BeginPass
<1>3. c \in ReconRow /\ c.status = "running"
  BY DEF ReconRow
<1>4. SetGrant(g, grant[g])
  BY RowSound DEF Reconcile, SetGrant
<1> HIDE DEF c
<1>5. Sound(g, grant[g], c)
  BY <1>3, RowSound DEF Sound
<1>6. op' \in [Op -> OpRow] /\ refused' \in SUBSET Grant
  BY <1>2, Moves DEF Reconcile, Inv, TypeOK
<1>7. grant[g].status \in Final \cup {"paused"} => g \in refused' \/ ~hydrated
  BY DEF Reconcile, Inv, CacheCovers, Final
<1> QED BY <1>1, <1>2, <1>3, <1>4, <1>5, <1>6, <1>7, RowSound, Put DEF Reconcile

\* A pass that ends writes at most the row of its own account.
LEMMA CloseRow ==
  ASSUME Inv, NEW a \in Op, op[a].grant \in Grant,
         NEW st \in {"clean", "failed"}, Close(a, st)
  PROVE  \E rec \in ReconRow :
           /\ recon' = [recon EXCEPT ![op[a].grant] = rec]
           /\ rec.status \in {st, recon[op[a].grant].status}
<1> DEFINE g == op[a].grant
           rec == IF recon[g].by = a THEN [recon[g] EXCEPT !.status = st]
                  ELSE recon[g]
<1>1. recon[g] \in ReconRow
  BY DEF Inv, TypeOK
<1>2. rec \in ReconRow /\ rec.status \in {st, recon[g].status}
  BY <1>1 DEF ReconRow
<1>3. recon' = [recon EXCEPT ![g] = rec]
  BY DEF Close, Inv, TypeOK
<1> QED BY <1>2, <1>3

LEMMA MatchedKeeps ==
  ASSUME Inv, NEW a \in Op, Matched(a)
  PROVE  Inv'
<1> DEFINE g == op[a].grant
<1>1. Up /\ g \in Grant
  BY BusyUp DEF Matched, Busy
<1>2. PICK rec \in ReconRow : /\ recon' = [recon EXCEPT ![g] = rec]
                              /\ rec.status \in {"clean", recon[g].status}
  BY <1>1, CloseRow DEF Matched
<1>3. SetGrant(g, grant[g]) /\ MoveTo(a, "idle", g)
  BY <1>1, RowSound DEF Matched, SetGrant
<1> HIDE DEF g
<1>4. Sound(g, grant[g], rec)
  BY <1>1, <1>2, RowSound DEF Sound
<1>5. op' \in [Op -> OpRow] /\ refused' \in SUBSET Grant
  BY <1>1, <1>3, Moves DEF Matched, Inv, TypeOK
<1>6. grant[g].status \in Final \cup {"paused"} => g \in refused' \/ ~hydrated
  BY <1>1 DEF Matched, Inv, CacheCovers, Final
<1> QED BY <1>1, <1>2, <1>3, <1>4, <1>5, <1>6, RowSound, Put DEF Matched

LEMMA DriftedKeeps ==
  ASSUME Inv, NEW a \in Op, Drifted(a)
  PROVE  Inv'
<1> DEFINE g == op[a].grant
           r == Contained(grant[g])
<1>1. Up /\ g \in Grant
  BY BusyUp DEF Drifted, Busy
<1>2. grant[g] \in GrantRow /\ Sound(g, grant[g], recon[g])
  BY <1>1, RowSound
<1>3. PICK rec \in ReconRow : recon' = [recon EXCEPT ![g] = rec]
  BY <1>1, CloseRow DEF Drifted
<1>4. /\ r \in GrantRow /\ r.status # "active"
      /\ r.status \in {"paused", grant[g].status}
      /\ grant[g].status # "active" => r.status = grant[g].status
  BY <1>2 DEF Contained, GrantRow, Live
<1>5. r.signer = grant[g].signer /\ r.funded = grant[g].funded
  BY <1>2 DEF Contained, GrantRow
<1>6. SetGrant(g, r) /\ MoveTo(a, "idle", g) /\ refused' = refused \cup {g}
  BY DEF Drifted
<1> HIDE DEF r, g
<1>7. Sound(g, r, rec)
  BY <1>2, <1>4, <1>5 DEF Sound
<1>8. op' \in [Op -> OpRow] /\ refused' \in SUBSET Grant
  BY <1>1, <1>6, Moves DEF Inv, TypeOK
<1> QED BY <1>1, <1>3, <1>4, <1>6, <1>7, <1>8, Put DEF Drifted

LEMMA ActivatedKeeps ==
  ASSUME Inv, NEW a \in Op, Activated(a)
  PROVE  Inv'
<1> DEFINE g == op[a].grant
           r == [grant[g] EXCEPT !.status = "active", !.signer = TRUE,
                                 !.listed = TRUE]
<1>1. Up /\ g \in Grant
  BY BusyUp DEF Activated, Busy
<1>2. grant[g] \in GrantRow /\ Sound(g, grant[g], recon[g])
  BY <1>1, RowSound
<1>3. grant[g].funded /\ recon[g].status = "clean"
  BY DEF Activated, Fit
<1>4. r \in GrantRow /\ r.status = "active"
  BY <1>2 DEF GrantRow, Live
<1>5. r.signer = TRUE /\ r.listed = TRUE /\ r.funded = grant[g].funded
  BY <1>2 DEF GrantRow
<1>6. SetGrant(g, r) /\ MoveTo(a, "idle", g)
      /\ refused' = refused \ {g}
  BY DEF Activated
<1> HIDE DEF r, g
<1>7. Sound(g, r, recon[g])
  BY <1>3, <1>4, <1>5 DEF Sound
<1>8. op' \in [Op -> OpRow] /\ refused' \in SUBSET Grant
  BY <1>1, <1>6, Moves DEF Inv, TypeOK
<1> QED BY <1>1, <1>4, <1>6, <1>7, <1>8, RowSound, Put DEF Activated, Final

LEMMA AgeKeeps ==
  ASSUME Inv, NEW g \in Grant, Age(g)
  PROVE  Inv'
<1> DEFINE c == [recon[g] EXCEPT !.status = "aged"]
<1>1. c \in ReconRow /\ c.status = "aged"
  BY RowSound DEF ReconRow
<1>2. recon' = [recon EXCEPT ![g] = c]
  BY DEF Age
<1> HIDE DEF c
<1>3. Sound(g, grant[g], c) /\ SetGrant(g, grant[g])
  BY <1>1, RowSound DEF Sound, SetGrant, Age
<1>4. grant[g].status \in Final \cup {"paused"} => g \in refused' \/ ~hydrated
  BY DEF Age, Inv, CacheCovers, Final
<1>5. op' \in [Op -> OpRow] /\ refused' \in SUBSET Grant
  BY DEF Age, Inv, TypeOK
<1> QED BY <1>1, <1>2, <1>3, <1>4, <1>5, RowSound, Put DEF Age

\* Requests that begin, give up, or go from the screen to the provider.
LEMMA MovesKeep ==
  ASSUME Inv, NEW a \in Op, NEW g \in Grant,
         Bind(a, g) \/ Import(a, g) \/ Activate(a, g)
         \/ GiveUp(a) \/ Screened(a)
  PROVE  Inv'
<1>1. Up /\ op[a].grant \in Grant
  BY BusyUp DEF Bind, Import, Activate, GiveUp, Screened, Busy
<1>2. op' \in [Op -> OpRow]
  BY <1>1, Moves DEF Bind, Import, Activate, GiveUp, Screened
<1>3. UNCHANGED <<grant, recon, refused, hydrated, spend, crashes>>
  BY DEF Bind, Import, Activate, GiveUp, Screened
<1> QED BY <1>1, <1>2, <1>3, Keep

LEMMA SpendKeeps ==
  ASSUME Inv, NEW g \in Grant, Approve(g) \/ Route(g)
  PROVE  Inv'
<1>1. Up
  BY DEF Approve, Route, Inv, Quiet
<1>2. /\ spend' \in [Grant -> {"none", "approved", "sent"}]
      /\ \A x \in Grant : x # g => spend'[x] = spend[x]
      /\ spend'[g] = "approved" => Approve(g)
  BY DEF Approve, Route, Inv, TypeOK
<1>3. UNCHANGED <<grant, recon, refused, hydrated, op, crashes>>
  BY DEF Approve, Route
<1>4. ApprovedBound'
  BY <1>2, <1>3 DEF Inv, ApprovedBound, Approve, MayApprove
<1> QED BY <1>1, <1>2, <1>3, <1>4 DEF Inv, TypeOK, CacheCovers, Final,
          ActiveIsFit, SignerFunded, Quiet, Up, Busy

LEMMA CrashKeeps ==
  ASSUME Inv, Crash
  PROVE  Inv'
<1>1. op' \in [Op -> OpRow] /\ \A a \in Op : op'[a].pc = "idle"
  BY DEF Crash, Inv, TypeOK, OpRow
<1>2. /\ spend' \in [Grant -> {"none", "approved", "sent"}]
      /\ \A g \in Grant : spend'[g] # "approved"
  BY DEF Crash, Inv, TypeOK
<1>3. crashes' \in 0 .. MaxCrash
  BY CrashAssumption DEF Crash, Inv, TypeOK
<1> QED BY <1>1, <1>2, <1>3 DEF Crash, Inv, TypeOK, CacheCovers, ActiveIsFit,
          SignerFunded, ApprovedBound, Quiet, Busy

LEMMA BootKeeps ==
  ASSUME Inv, Boot
  PROVE  Inv'
<1>1. \A g \in Grant : /\ grant'[g] \in GrantRow
                       /\ Sound(g, grant'[g], recon[g])
  BY ExpiredSound, RowSound DEF Boot
<1>2. grant' \in [Grant -> GrantRow] /\ refused' \in SUBSET Grant
  BY <1>1 DEF Boot, Unspendable
<1>3. UNCHANGED <<recon, op, spend, crashes>> /\ hydrated'
  BY DEF Boot
<1>4. TypeOK'
  BY <1>2, <1>3 DEF Inv, TypeOK
<1>5. CacheCovers'
  BY <1>2 DEF Boot, CacheCovers, Unspendable, Final
<1>6. ActiveIsFit' /\ SignerFunded' /\ ApprovedBound'
  BY <1>1, <1>3 DEF Sound, ActiveIsFit, SignerFunded, ApprovedBound
<1>7. Quiet'
  BY <1>3 DEF Quiet, Up
<1> QED BY <1>4, <1>5, <1>6, <1>7 DEF Inv

LEMMA Invariance == Spec => []Inv
<1>1. Init => Inv
  <2> SUFFICES ASSUME Init PROVE Inv
    OBVIOUS
  <2>1. /\ grant \in [Grant -> GrantRow]
        /\ \A g \in Grant : grant[g].status = "none" /\ ~grant[g].signer
    BY DEF Init, Absent, GrantRow
  <2>2. recon \in [Grant -> ReconRow]
    BY DEF Init, ReconRow
  <2>3. op \in [Op -> OpRow] /\ \A a \in Op : op[a].pc = "idle"
    BY DEF Init, OpRow
  <2>4. crashes \in 0 .. MaxCrash
    BY CrashAssumption DEF Init
  <2>5. /\ refused \in SUBSET Grant /\ hydrated = FALSE
        /\ spend \in [Grant -> {"none", "approved", "sent"}]
        /\ \A g \in Grant : spend[g] = "none"
    BY DEF Init
  <2> QED BY <2>1, <2>2, <2>3, <2>4, <2>5
          DEF Inv, TypeOK, CacheCovers, ActiveIsFit, SignerFunded,
              ApprovedBound, Quiet, Busy
<1>2. Inv /\ [Next]_vars => Inv'
  <2> SUFFICES ASSUME Inv, [Next]_vars PROVE Inv'
    OBVIOUS
  <2>1. CASE \E g \in Grant : Owner(g)
    BY <2>1, CreateKeeps, RevokeKeeps, PauseKeeps, ResumeKeeps DEF Owner
  <2>2. CASE \E g \in Grant : Expire(g) \/ Age(g) \/ FallDue(g)
    BY <2>2, ExpireKeeps, AgeKeeps, FallDueKeeps
  <2>3. CASE \E g \in Grant : Approve(g) \/ Route(g)
    BY <2>3, SpendKeeps
  <2>4. CASE \E a \in Op, g \in Grant : Ask(a, g)
    BY <2>4, MovesKeep, ReconcileKeeps DEF Ask
  <2>5. ASSUME NEW a \in Op, Answer(a) PROVE Inv'
    <3>1. op[a].pc # "idle"
      BY <2>5 DEF Answer, GiveUp, Bound, Imported, Matched, Drifted, Screened,
              Activated, Busy
    <3>2. op[a].grant \in Grant
      BY <3>1, BusyUp
    <3> QED BY <2>5, <3>2, MovesKeep, BoundKeeps, ImportedKeeps, MatchedKeeps,
               DriftedKeeps, ActivatedKeeps DEF Answer
  <2>6. CASE Crash \/ Boot
    BY <2>6, CrashKeeps, BootKeeps
  <2>7. CASE UNCHANGED vars
    BY <2>7, Keep DEF vars, Inv, TypeOK
  <2> QED BY <2>1, <2>2, <2>3, <2>4, <2>5, <2>6, <2>7 DEF Next
<1> QED BY <1>1, <1>2, PTL DEF Spec
-----------------------------------------------------------------------------
(* The theorems.                                                            *)

\* Type correctness.
THEOREM TypeCorrect == Spec => []TypeOK
<1>1. Inv => TypeOK
  BY DEF Inv
<1> QED BY <1>1, Invariance, PTL

\* The router's cache refuses every grant that has come to a stop.
THEOREM CacheTheorem == Spec => []CacheCovers
<1>1. Inv => CacheCovers
  BY DEF Inv
<1> QED BY <1>1, Invariance, PTL

\* What an active grant can count on (activateGrant, setGrantPaused and
\* containFailure together).
THEOREM FitTheorem == Spec => []ActiveIsFit
<1>1. Inv => ActiveIsFit
  BY DEF Inv
<1> QED BY <1>1, Invariance, PTL

\* A buy passes the router only while its grant is active and bound.
THEOREM SpendTheorem == Spec => SpendOnlyActive
<1> DEFINE P == \A g \in Grant : spend'[g] = "sent" /\ spend[g] # "sent" =>
                  grant[g].status = "active" /\ grant[g].signer
<1>1. Inv /\ [Next]_vars => [P]_vars
  <2> SUFFICES ASSUME Inv, Next, NEW g \in Grant,
                      spend'[g] = "sent", spend[g] # "sent"
               PROVE  grant[g].status = "active" /\ grant[g].signer
    BY DEF vars
  <2>1. spend \in [Grant -> {"none", "approved", "sent"}]
    BY DEF Inv, TypeOK
  <2>2. \E x \in Grant : Route(x)
    <3>1. ASSUME NEW x \in Grant, Approve(x) PROVE FALSE
      BY <2>1, <3>1 DEF Approve
    <3>2. CASE Crash
      BY <2>1, <3>2 DEF Crash
    <3>3. spend' # spend
      BY <2>1
    <3> QED BY <3>1, <3>2, <3>3 DEF Next, Owner, Create, Revoke, Pause, Resume,
               Expire, Age, FallDue, Ask, Bind, Import, Reconcile, Activate,
               Answer, GiveUp, Bound, Imported, Matched, Drifted, Screened,
               Activated, Boot
  <2>3. spend[g] = "approved" /\ ~Refused(g)
    BY <2>1, <2>2 DEF Route
  <2>4. grant[g].signer /\ grant[g].status \in Final \cup {"active", "paused"}
    BY <2>3 DEF Inv, ApprovedBound
  <2>5. grant[g].status \notin Final \cup {"paused"}
    BY <2>3 DEF Refused, Inv, CacheCovers, Final
  <2> QED BY <2>4, <2>5
<1> QED BY <1>1, Invariance, PTL DEF Spec, SpendOnlyActive

\* Only an activation that had looked before brings a stopped grant back.
THEOREM FinalTheorem == Spec => FinalStays
<1> DEFINE P == \A g \in Grant : grant[g].status \in Final /\ ~Verifying(g) =>
                  grant'[g].status \in Final
<1>1. Inv /\ [Next]_vars => [P]_vars
  <2> SUFFICES ASSUME Inv, Next, NEW g \in Grant,
                      grant[g].status \in Final, ~Verifying(g)
               PROVE  grant'[g].status \in Final
    BY DEF vars
  <2>1. grant \in [Grant -> GrantRow] /\ grant[g] \in GrantRow
    BY DEF Inv, TypeOK
  <2>2. ASSUME NEW x \in Grant, NEW r, SetGrant(x, r),
               x = g => r.status \in Final
        PROVE  grant'[g].status \in Final
    BY <2>1, <2>2 DEF SetGrant
  <2>3. ASSUME NEW x \in Grant, Owner(x) PROVE grant'[g].status \in Final
    <3>1. CASE Create(x)
      BY <2>2, <3>1 DEF Create, Final
    <3>2. CASE Revoke(x)
      <4>1. [grant[g] EXCEPT !.status = "revoked",
                             !.listed = FALSE].status = "revoked"
        BY <2>1 DEF GrantRow
      <4> QED BY <2>2, <3>2, <4>1 DEF Revoke, Final
    <3>3. CASE Pause(x)
      BY <2>2, <3>3 DEF Pause, Final, Live
    <3>4. CASE Resume(x)
      BY <2>2, <3>4 DEF Resume, MayResume, Final
    <3> QED BY <2>3, <3>1, <3>2, <3>3, <3>4 DEF Owner
  <2>4. ASSUME NEW x \in Grant, Expire(x) PROVE grant'[g].status \in Final
    BY <2>2, <2>4 DEF Expire, Lapsed, Final, Live
  <2>5. ASSUME NEW x \in Grant, FallDue(x) PROVE grant'[g].status \in Final
    <3>1. [grant[g] EXCEPT !.due = TRUE].status = grant[g].status
      BY <2>1 DEF GrantRow
    <3> QED BY <2>2, <2>5, <3>1 DEF FallDue
  <2>6. ASSUME NEW a \in Op, Answer(a) PROVE grant'[g].status \in Final
    <3>1. op[a].grant \in Grant
      BY BusyUp, <2>6 DEF Answer, GiveUp, Bound, Imported, Matched, Drifted,
         Screened, Activated, Busy
    <3>2. /\ [grant[g] EXCEPT !.wallet = TRUE].status = grant[g].status
          /\ [grant[g] EXCEPT !.funded = TRUE].status = grant[g].status
          /\ Contained(grant[g]).status = grant[g].status
      BY <2>1 DEF GrantRow, Contained, Final
    <3>3. CASE Bound(a)
      BY <2>2, <3>1, <3>2, <3>3 DEF Bound
    <3>4. CASE Imported(a)
      BY <2>2, <3>1, <3>2, <3>4 DEF Imported
    <3>5. CASE Drifted(a)
      BY <2>2, <3>1, <3>2, <3>5 DEF Drifted
    <3>6. CASE Activated(a)
      <4>1. op[a].grant # g
        BY <3>6 DEF Activated, Verifying
      <4> QED BY <2>2, <3>1, <3>6, <4>1 DEF Activated
    <3> QED BY <2>6, <3>3, <3>4, <3>5, <3>6 DEF Answer, GiveUp, Matched, Screened
  <2>7. CASE Boot
    BY <2>7 DEF Boot, Lapsed, Final, Live
  <2> QED BY <2>3, <2>4, <2>5, <2>6, <2>7 DEF Next, Approve, Route, Age, Ask,
          Bind, Import, Reconcile, Activate, Crash
<1> QED BY <1>1, Invariance, PTL DEF Spec, FinalStays
=============================================================================
