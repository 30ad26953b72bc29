----------------------------- MODULE FipRequests -----------------------------
(***************************************************************************)
(* The FIP requests of FipLifecycle as the server really runs them: one    *)
(* thread per request, each with a SQLAlchemy session of its own.  A       *)
(* handler loads rows (autocommitted SELECTs), decides on what it loaded,  *)
(* and commits: one SQLite transaction that issues                         *)
(*   - for a changed object, an UPDATE of the columns whose value differs  *)
(*     from the loaded one -- refused (StaleDataError) if the row is gone, *)
(*   - for a deleted object, a DELETE, which may find nothing,             *)
(*   - the rows of the dashboard projection, written by the before_commit  *)
(*     hook from the objects the session holds, touched or changed.        *)
(* Between the steps of one request those of others happen.                *)
(*                                                                         *)
(* A row of FipLifecycle gets two more columns here: its answers and       *)
(* updated_at.  The projection of a FIP is what its fip_facets row was     *)
(* computed from.  Questionnaires change only through account deletion.    *)
(* Answers that an earlier version stored may hold DMP evidence in its     *)
(* form; no body brings that form, and the FIPs of the start may have it.  *)
(***************************************************************************)
EXTENDS FipLifecycle, FiniteSets

CONSTANTS
    Requests,     \* bound on the requests in progress at once
    Answers,      \* the values of the answers column
    Stored,       \* those that FIPs of the start may have
    FirstBodies,  \* the POST bodies sent: [visibility, answers]
    PatchBodies,  \* the PATCH bodies sent: visibility and answers, None if left out, and
                  \* what the related DMPs of the body or the FIP make of old answers
    Overlap,      \* FALSE: at most one request is in progress at a time
    MaxClock      \* bound on the writes of updated_at

Calls == {"create", "patch", "claim", "migrate", "delete", "delete_session", "backfill"}

ASSUME RequestsAssumption ==
    /\ Stored \subseteq Answers
    /\ FirstBodies \subseteq [visibility : Visibilities, answers : Answers]
    /\ PatchBodies \subseteq [visibility : Visibilities \cup {None}, answers : Answers \cup {None},
                             normal : [Answers -> Answers]]
    /\ Overlap \in BOOLEAN
    /\ MaxClock \in Nat
    /\ None \notin Answers /\ None \notin Visibilities

VARIABLES
    answers,    \* fips.answers
    updated,    \* fips.updated_at
    facets,     \* fip_facets: what each FIP's projection was computed from
    requests,   \* the requests in progress, None for a free slot
    used,       \* the FIP ids that ever had a row: ids are random
    clock       \* the time of the last write of updated_at

rvars == <<accounts, kms, sessions, fips, answers, updated, facets, requests, used, clock>>

View    == [row : Fip, answers : Answers, updated : 0..MaxClock]
Facets  == [ref : Refs, answers : Answers, updated : 0..MaxClock]

RInit ==
    /\ Init
    /\ answers \in [DOMAIN fips -> Stored]
    /\ updated = [f \in DOMAIN fips |-> 0]
    /\ facets = [f \in DOMAIN fips |-> [ref |-> fips[f].ref, answers |-> answers[f], updated |-> 0]]
    /\ requests = [r \in Requests |-> None]
    /\ used = DOMAIN fips
    /\ clock = 0

Idle(r) == requests[r] = None

InProgress == {r \in Requests : ~Idle(r)}

(* Room for one more write of updated_at. *)
MayTick == clock + Cardinality(InProgress) < MaxClock

MayStart(r) == Idle(r) /\ MayTick /\ (Overlap \/ InProgress = {})

MayRunAtOnce == Overlap \/ InProgress = {}

-----------------------------------------------------------------------------
(* Load: db.get of the FIP, or the query for the FIPs of a session           *)

Loaded(ids) ==
    [f \in ids |-> [row |-> fips[f], answers |-> answers[f], updated |-> updated[f]]]

Load(r, call, u, token, ids, args) ==
    /\ MayStart(r)
    /\ requests' = [requests EXCEPT ![r] =
          [step |-> "loaded", call |-> call, user |-> u, token |-> token,
           seen |-> Loaded(ids), args |-> args]]
    /\ UNCHANGED <<accounts, kms, sessions, fips, answers, updated, facets, used, clock>>

LoadFip(r, u, f, token) ==
    /\ f \in DOMAIN fips
    /\ \/ \E body \in PatchBodies : Load(r, "patch", u, token, {f}, body)
       \/ Load(r, "delete", u, token, {f}, None)
       \/ u # None /\ Load(r, "claim", u, token, {f}, None)
       \/ \E to \in Versions, result \in Answers :
             Load(r, "migrate", u, token, {f}, [to |-> to, answers |-> result])

(* POST /fips reads the session and the questionnaire; the id is random.     *)
LoadCreate(r, u, f, s, ref, body) ==
    /\ f \notin used
    /\ \A q \in InProgress : f \notin DOMAIN requests[q].seen
    /\ MayCreate(u, s, body.visibility, ref)
    /\ MayStart(r)
    /\ requests' = [requests EXCEPT ![r] =
          [step |-> "decided", call |-> "create", user |-> u, token |-> FALSE,
           seen |-> [g \in {f} |-> [row |-> NewFip(u, s, body.visibility, ref),
                                    answers |-> body.answers, updated |-> 0]],
           args |-> None]]
    /\ UNCHANGED <<accounts, kms, sessions, fips, answers, updated, facets, used, clock>>

LoadSession(r, u, s) ==
    /\ OwnedSession(s, u)
    /\ Load(r, "delete_session", u, FALSE, {f \in DOMAIN fips : fips[f].session = s}, s)

(* `fipm backfill-declarations` and `check-declarations --fix`.               *)
LoadBackfill(r, f) ==
    /\ f \in DOMAIN fips
    /\ Load(r, "backfill", None, FALSE, {f}, None)

-----------------------------------------------------------------------------
(* Decide: the guards of the handler, on the loaded row and on the session   *)
(* and questionnaire as they are now.  A refusal ends the request.           *)

Allowed(q) ==
    \A f \in DOMAIN q.seen : LET row == q.seen[f].row IN
        CASE q.call = "patch"   -> MayPatch(row, q.user, q.token, q.args.visibility)
          [] q.call = "delete"  -> AuthorizedWrite(row, q.user, q.token)
          [] q.call = "claim"   -> MayClaim(row, q.user, q.token)
          [] q.call = "migrate" -> MayMigrate(row, q.user, q.token, q.args.to)
          [] OTHER              -> TRUE

Decide(r) ==
    /\ ~Idle(r) /\ requests[r].step = "loaded"
    /\ requests' = [requests EXCEPT ![r] =
          IF Allowed(requests[r]) THEN [requests[r] EXCEPT !.step = "decided"] ELSE None]
    /\ UNCHANGED <<accounts, kms, sessions, fips, answers, updated, facets, used, clock>>

-----------------------------------------------------------------------------
(* Commit: the unit of work of the request's SQLAlchemy session              *)

(* Mutant: a deleted session leaves all its FIPs behind, unclaimed ones too. *)
DeletedNoneOfSession(q) == IF q.call = "delete" THEN DOMAIN q.seen ELSE {}

Deleted(q) ==
    CASE q.call = "delete"         -> DOMAIN q.seen
      [] q.call = "delete_session" -> {f \in DOMAIN q.seen : q.seen[f].row.owner = None}
      [] OTHER                     -> {}

(* The objects the handler assigns to, and the values it leaves in them.  A  *)
(* PATCH without answers assigns those it found all the same, with the DMP   *)
(* evidence of earlier versions rewritten (normalise_legacy_dmp_evidence).   *)
Touched(q) == DOMAIN q.seen \ Deleted(q)

Assigned(q, f) ==
    LET old == q.seen[f] IN
    CASE q.call = "patch" ->
           [row |-> IF q.args.visibility = None THEN old.row
                    ELSE [old.row EXCEPT !.visibility = q.args.visibility],
            answers |-> IF q.args.answers = None THEN q.args.normal[old.answers]
                        ELSE q.args.answers]
      [] q.call = "claim" -> [row |-> ClaimedBy(old.row, q.user), answers |-> old.answers]
      [] q.call = "migrate" -> [row |-> Migrated(old.row, q.args.to), answers |-> q.args.answers]
      [] q.call = "delete_session" ->
           [row |-> [old.row EXCEPT !.session = None], answers |-> old.answers]
      [] OTHER -> [row |-> old.row, answers |-> old.answers]

Changed(q) ==
    {f \in Touched(q) : \/ q.call = "create"
                        \/ Assigned(q, f).row # q.seen[f].row
                        \/ Assigned(q, f).answers # q.seen[f].answers}

(* Mutant: the whole object is written back, not the changed columns. *)
WrittenWhole(current, old, new) == new

Written(current, old, new) == IF new = old THEN current ELSE new

(* Mutant: the same for the columns of the row. *)
WrittenRowWhole(current, old, new) == new

WrittenRow(current, old, new) ==
    [c \in DOMAIN current |-> Written(current[c], old[c], new[c])]

FipsAfter(q) ==
    [f \in (DOMAIN fips \cup Changed(q)) \ Deleted(q) |->
        IF f \notin Changed(q) THEN fips[f]
        ELSE IF f \in DOMAIN fips THEN WrittenRow(fips[f], q.seen[f].row, Assigned(q, f).row)
        ELSE Assigned(q, f).row]

SessionsAfter(q) ==
    IF q.call = "delete_session" THEN Drop(sessions, {q.args}) ELSE sessions

(* Mutant: PRAGMA foreign_keys is not switched on. *)
ForeignKeysOff(q) == TRUE

ForeignKeysHold(q) ==
    \A f \in DOMAIN FipsAfter(q) :
        /\ FipsAfter(q)[f].owner \in accounts \cup {None}
        /\ FipsAfter(q)[f].session \in DOMAIN SessionsAfter(q) \cup {None}
        /\ FipsAfter(q)[f].ref \in DOMAIN kms

(* An UPDATE that finds no row raises StaleDataError; a missing foreign key  *)
(* raises IntegrityError.  Either rolls everything back.                     *)
Flushes(q) ==
    /\ q.call # "create" => Changed(q) \subseteq DOMAIN fips
    /\ ForeignKeysHold(q)

(* Mutant: the hook looks at dirty objects only, never at new ones. *)
ProjectedDirtyOnly(q) == IF q.call = "create" THEN {} ELSE Touched(q)

(* The hook reprojects new and dirty objects; assigning to an attribute      *)
(* makes an object dirty even if no column changes.                          *)
Projected(q) == Touched(q)

Projection(q, f) ==
    [ref     |-> Assigned(q, f).row.ref,
     answers |-> Assigned(q, f).answers,
     updated |-> IF f \in Changed(q) THEN clock + 1 ELSE q.seen[f].updated]

FacetsAfter(q) ==
    [f \in (DOMAIN facets \ Deleted(q)) \cup Projected(q) |->
        IF f \in Projected(q) THEN Projection(q, f) ELSE facets[f]]

Succeed(q) ==
    /\ fips' = FipsAfter(q)
    /\ answers' = [f \in DOMAIN fips' |->
          IF f \notin Changed(q) THEN answers[f]
          ELSE IF f \in DOMAIN fips
               THEN Written(answers[f], q.seen[f].answers, Assigned(q, f).answers)
               ELSE Assigned(q, f).answers]
    /\ updated' = [f \in DOMAIN fips' |-> IF f \in Changed(q) THEN clock + 1 ELSE updated[f]]
    /\ facets' = FacetsAfter(q)
    /\ sessions' = SessionsAfter(q)
    /\ used' = used \cup DOMAIN fips'
    /\ clock' = IF Changed(q) = {} THEN clock ELSE clock + 1
    /\ UNCHANGED <<accounts, kms>>

Commit(r) ==
    /\ ~Idle(r) /\ requests[r].step = "decided"
    /\ Flushes(requests[r])
    /\ Succeed(requests[r])
    /\ requests' = [requests EXCEPT ![r] = None]

Rollback(r) ==
    /\ ~Idle(r) /\ requests[r].step = "decided"
    /\ ~Flushes(requests[r])
    /\ requests' = [requests EXCEPT ![r] = None]
    /\ UNCHANGED <<accounts, kms, sessions, fips, answers, updated, facets, used, clock>>

-----------------------------------------------------------------------------
(* Requests that are one transaction from the first row they write           *)

SessionWrite ==
    /\ MayRunAtOnce
    /\ \E u \in accounts, s \in SessionIds :
          \/ \E refs \in RefLists : CreateSession(u, s, refs)
          \/ \E status \in {"open", "closed"} :
                s \in DOMAIN sessions /\ PatchSession(u, s, status, sessions[s].refs)
    /\ UNCHANGED <<answers, updated, facets, requests, used, clock>>

AccountWrite ==
    /\ MayRunAtOnce
    /\ \E u \in Users : Register(u)
    /\ UNCHANGED <<answers, updated, facets, requests, used, clock>>

(* delete_me writes in bulk, past the projection hook: the projection of a   *)
(* FIP it deletes stays, and updated_at moves on for the FIPs it keeps.      *)
AccountDeletion ==
    /\ MayRunAtOnce
    /\ \E u \in accounts : DeleteMe(u)
    /\ answers' = [f \in DOMAIN fips' |-> answers[f]]
    /\ updated' = [f \in DOMAIN fips' |-> IF fips'[f] # fips[f] THEN clock + 1 ELSE updated[f]]
    /\ clock' = IF \E f \in DOMAIN fips' : fips'[f] # fips[f] THEN clock + 1 ELSE clock
    /\ clock' + Cardinality(InProgress) <= MaxClock
    /\ UNCHANGED <<facets, requests, used>>

(* `fipm purge-standalone-fips` unprojects the ids it selected and then      *)
(* deletes those that still qualify: one claimed in between stays.           *)
Purge(ids, old) ==
    /\ MayRunAtOnce
    /\ PurgeStandaloneFips(old)
    /\ old \subseteq ids /\ \A f \in ids : fips[f].session = None
    /\ Overlap \/ ids = old
    /\ facets' = Drop(facets, ids)
    /\ answers' = [f \in DOMAIN fips' |-> answers[f]]
    /\ updated' = [f \in DOMAIN fips' |-> updated[f]]
    /\ UNCHANGED <<requests, used, clock>>

RNext ==
    \/ \E r \in Requests, u \in accounts \cup {None}, f \in FipIds :
          \/ \E token \in BOOLEAN : LoadFip(r, u, f, token)
          \/ \E s \in SessionIds \cup {None}, ref \in DOMAIN kms, body \in FirstBodies :
                LoadCreate(r, u, f, s, ref, body)
    \/ \E r \in Requests, u \in accounts, s \in SessionIds : LoadSession(r, u, s)
    \/ \E r \in Requests, f \in FipIds : LoadBackfill(r, f)
    \/ \E r \in Requests : Decide(r)
    \/ \E r \in Requests : Commit(r)
    \/ \E r \in Requests : Rollback(r)
    \/ SessionWrite
    \/ AccountWrite
    \/ AccountDeletion
    \/ \E ids \in SUBSET DOMAIN fips : \E old \in SUBSET ids : Purge(ids, old)

RSpec == RInit /\ [][RNext]_rvars

-----------------------------------------------------------------------------
(* Properties *)

(* The answers a PATCH found hold evidence of an earlier version, and it     *)
(* carries none: it writes them in today's form.                             *)
Rewrites(q, f, new) ==
    /\ q.call = "patch" /\ q.args.answers = None
    /\ new = q.args.normal[q.seen[f].answers] /\ new # q.seen[f].answers

(* Only a request that carries answers, or a migration, changes the answers  *)
(* of a FIP, however many other requests loaded the row before they were     *)
(* saved: a late visibility PATCH does not bring old answers back -- unless  *)
(* it found them with evidence of an earlier version, which it rewrites,     *)
(* over whatever was saved in the meantime.                                  *)
OnlyAnswersWriteAnswers ==
    [][\A f \in DOMAIN fips \cap DOMAIN fips' : answers'[f] # answers[f] =>
          \E r \in InProgress :
             /\ Idle(r)' /\ f \in DOMAIN requests[r].seen
             /\ \/ /\ requests[r].call \in {"patch", "migrate"}
                   /\ requests[r].args.answers = answers'[f]
                \/ Rewrites(requests[r], f, answers'[f])]_rvars

(* A claim is not undone by a request that loaded the FIP before it: the     *)
(* FIP loses its owner only with the owner's account.                        *)
ClaimNotUndone ==
    [][\A f \in DOMAIN fips \cap DOMAIN fips' :
          fips[f].owner # None /\ fips'[f].owner = None => fips[f].owner \notin accounts']_rvars

(* Requests that do not overlap are exactly the requests of FipLifecycle.    *)
SerialRequestsRefineLifecycle == Init /\ [][Next]_vars

(* What the dashboard shows of a FIP was computed from its answers and its   *)
(* questionnaire: the hook covers every write path (D3).                     *)
ProjectionExact ==
    \A f \in DOMAIN fips :
        f \in DOMAIN facets /\ facets[f].ref = fips[f].ref /\ facets[f].answers = answers[f]

-----------------------------------------------------------------------------
(* What the documents say and the code does not do; see README *)

(* spec 01: claiming a FIP that is already owned is refused with 409.        *)
ClaimedOnce ==
    [][\A f \in DOMAIN fips \cap DOMAIN fips' :
          fips[f].owner # None => fips'[f].owner \in {fips[f].owner, None}]_rvars

(* models.py: a projection that is behind its FIP shows an older             *)
(* fip_updated_at (or is missing), so backfill --only-stale finds it.        *)
Stale(f) == f \notin DOMAIN facets \/ updated[f] > facets[f].updated

StaleProjectionDetected ==
    \A f \in DOMAIN fips :
        ~Stale(f) => facets[f].ref = fips[f].ref /\ facets[f].answers = answers[f]

(* check-declarations, invariant 2: no fip_facets row without a fips row.    *)
NoOrphanProjection == DOMAIN facets \subseteq DOMAIN fips
=============================================================================
