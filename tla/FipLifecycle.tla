---------------------------- MODULE FipLifecycle ----------------------------
(***************************************************************************)
(* The life of a FAIR Implementation Profile (FIP): who owns it, which     *)
(* workshop session it belongs to, whether an edit token still opens it,   *)
(* who may see it and which questionnaire version it answers -- together   *)
(* with the rows these columns point at: user accounts, workshop sessions  *)
(* and knowledge models (the questionnaires).                              *)
(*                                                                         *)
(* One action is one HTTP request (or one CLI command) run to its commit;  *)
(* a refused request changes nothing and is no step.  FipRequests splits   *)
(* the same handlers into their read and their commit.  A table is a       *)
(* function whose DOMAIN is the set of primary keys present.               *)
(*                                                                         *)
(* Left out here: the answers (FipRequests, Migration), join codes and     *)
(* rate limits (both only refuse), system questionnaires (no request       *)
(* changes more than their visibility), and "link" as a visibility of a    *)
(* knowledge model (every check treats it as "public").                    *)
(***************************************************************************)
EXTENDS Integers, Sequences

CONSTANTS
    Users,          \* bound on the accounts alive at once
    Admins,         \* those with role "admin"
    Unverified,     \* those the e-mail verification gate holds back
    Models,         \* knowledge-model ids
    Versions,       \* their versions, numbered in semver order; 1 is "1.0.0"
    SessionIds,     \* bound on the workshop sessions alive at once
    FipIds,         \* bound on the FIPs alive at once
    RefLists,       \* the questionnaire lists a facilitator may offer
    AnonymousFips,  \* Settings.anonymous_fips
    InitialKms,     \* the knowledge models in the database at the start
    InitialFips,    \* the fips tables it may have at the start, written by earlier versions
    Authors,        \* users who send knowledge-model requests (a bound)
    None            \* SQL NULL, and the caller who is not signed in

Refs         == Models \X Versions
Visibilities == {"private", "link", "public"}
Readers      == {"private", "public"}
Owners       == Users \cup {None}

Km      == [status : {"draft", "published"}, owner : Owners, visibility : Readers]
Session == [owner : Owners, status : {"open", "closed"}, refs : RefLists]
Fip     == [owner : Owners, session : SessionIds \cup {None}, token : BOOLEAN,
            visibility : Visibilities, ref : Refs]

ASSUME ConstantsAssumption ==
    /\ Admins \subseteq Users /\ Unverified \subseteq Users /\ Authors \subseteq Users
    /\ None \notin Users /\ None \notin SessionIds
    /\ Versions \subseteq Nat \ {0} /\ 1 \in Versions
    /\ AnonymousFips \in BOOLEAN
    /\ \A refs \in RefLists : refs \in Seq(Refs) /\ refs # <<>>
    /\ DOMAIN InitialKms \subseteq Refs
    /\ \A k \in DOMAIN InitialKms : InitialKms[k] \in Km

(* There is no session at the start, and every other column is in order. *)
ASSUME InitialFipsAssumption ==
    \A table \in InitialFips :
        /\ DOMAIN table \subseteq FipIds /\ table \in [DOMAIN table -> Fip]
        /\ \A f \in DOMAIN table :
              /\ table[f].session = None
              /\ table[f].ref \in DOMAIN InitialKms
              /\ InitialKms[table[f].ref].status = "published"
              /\ table[f].owner # None => ~table[f].token
              /\ table[f].owner = None => table[f].visibility # "private"

VARIABLES
    accounts,   \* users.id of the accounts not deleted
    kms,        \* knowledge_models, keyed by <<id, version>>
    sessions,   \* workshop_sessions
    fips        \* fips

vars == <<accounts, kms, sessions, fips>>

-----------------------------------------------------------------------------
(* Tables *)

Put(table, key, row) ==
    [k \in DOMAIN table \cup {key} |-> IF k = key THEN row ELSE table[k]]

Drop(table, keys) == [k \in DOMAIN table \ keys |-> table[k]]

Members(refs) == {refs[i] : i \in DOMAIN refs}

Primary(s) == sessions[s].refs[1]

Init ==
    /\ accounts = Users
    /\ kms = InitialKms
    /\ sessions = [s \in {} |-> None]
    /\ fips \in InitialFips

-----------------------------------------------------------------------------
(* Authorisation: authz.py and the guards of routers/fips.py *)

CanRead(owner, visibility, u) ==
    \/ u \in Admins
    \/ u # None /\ owner = u
    \/ visibility \in {"public", "link"}

CanWriteOwned(owner, u) == u # None /\ (u \in Admins \/ owner = u)

PassesEmailGate(u, visibility) == visibility = "public" => u \notin Unverified

ReadablePublishedKm(k, u) ==
    /\ k \in DOMAIN kms
    /\ kms[k].status = "published"
    /\ CanRead(kms[k].owner, kms[k].visibility, u)

SessionOwnerHasAccess(row, u) ==
    /\ u # None
    /\ row.session \in DOMAIN sessions
    /\ sessions[row.session].owner = u

InClosedSession(row) ==
    /\ row.session \in DOMAIN sessions
    /\ sessions[row.session].status = "closed"

(* Mutant: a claimed FIP is no longer frozen by its closed session. *)
AuthorizedWriteClaimedNotFrozen(row, u, token) ==
    \/ u \in Admins
    \/ SessionOwnerHasAccess(row, u)
    \/ /\ row.owner # None
       /\ CanWriteOwned(row.owner, u)
    \/ /\ row.owner = None
       /\ token /\ row.token
       /\ ~InClosedSession(row)

(* An owner, or the holder of the edit token of an ownerless FIP, is frozen *)
(* out while the FIP's session is closed; admins and the facilitator are    *)
(* not.                                                                     *)
AuthorizedWrite(row, u, token) ==
    \/ u \in Admins
    \/ SessionOwnerHasAccess(row, u)
    \/ /\ row.owner # None
       /\ CanWriteOwned(row.owner, u)
       /\ ~InClosedSession(row)
    \/ /\ row.owner = None
       /\ token /\ row.token
       /\ ~InClosedSession(row)

OwnedSession(s, u) ==
    s \in DOMAIN sessions /\ u # None /\ (sessions[s].owner = u \/ u \in Admins)

OwnedKm(k, u) ==
    /\ k \in DOMAIN kms
    /\ CanRead(kms[k].owner, kms[k].visibility, u)
    /\ CanWriteOwned(kms[k].owner, u)

-----------------------------------------------------------------------------
(* FIPs: routers/fips.py *)

(* The ladder of POST /fips: session participant, signed-in user, anonymous. *)
MayCreateWith(u, s, visibility) ==
    \/ s # None
    \/ s = None /\ u # None /\ PassesEmailGate(u, visibility)
    \/ s = None /\ u = None /\ AnonymousFips /\ visibility # "private"

NewFip(u, s, visibility, ref) ==
    [owner |-> IF s = None THEN u ELSE None, session |-> s,
     token |-> s # None \/ u = None, visibility |-> visibility, ref |-> ref]

Joinable(s, ref) ==
    /\ s \in DOMAIN sessions
    /\ sessions[s].status = "open"
    /\ ref \in Members(sessions[s].refs)

MayCreate(u, s, visibility, ref) ==
    /\ s # None => Joinable(s, ref)
    /\ ReadablePublishedKm(ref, u)
    /\ MayCreateWith(u, s, visibility)

CreateFip(u, f, s, visibility, ref) ==
    /\ f \notin DOMAIN fips
    /\ MayCreate(u, s, visibility, ref)
    /\ fips' = Put(fips, f, NewFip(u, s, visibility, ref))
    /\ UNCHANGED <<accounts, kms, sessions>>

ImportFip(u, f, visibility, ref) ==
    /\ f \notin DOMAIN fips
    /\ u # None
    /\ ReadablePublishedKm(ref, u)
    /\ PassesEmailGate(u, visibility)
    /\ fips' = Put(fips, f, NewFip(u, None, visibility, ref))
    /\ UNCHANGED <<accounts, kms, sessions>>

MayPatch(row, u, token, visibility) ==
    /\ AuthorizedWrite(row, u, token)
    /\ PassesEmailGate(u, visibility)
    /\ visibility = "private" => row.owner # None

PatchFip(u, f, token, visibility) ==
    /\ f \in DOMAIN fips
    /\ MayPatch(fips[f], u, token, visibility)
    /\ fips' = [fips EXCEPT ![f].visibility = visibility]
    /\ UNCHANGED <<accounts, kms, sessions>>

DeleteFip(u, f, token) ==
    /\ f \in DOMAIN fips
    /\ AuthorizedWrite(fips[f], u, token)
    /\ fips' = Drop(fips, {f})
    /\ UNCHANGED <<accounts, kms, sessions>>

(* Mutant: the already_owned check is missing, and an admin needs no token. *)
MayClaimAnyone(row, u, token) ==
    /\ u # None
    /\ (token /\ row.token) \/ u \in Admins
    /\ ~InClosedSession(row)

MayClaim(row, u, token) ==
    /\ u # None
    /\ row.owner = None
    /\ token /\ row.token
    /\ ~InClosedSession(row)

(* Mutant: a claim keeps the edit token. *)
ClaimedByKeepToken(row, u) == [row EXCEPT !.owner = u]

ClaimedBy(row, u) == [row EXCEPT !.owner = u, !.token = FALSE]

ClaimFip(u, f, token) ==
    /\ f \in DOMAIN fips
    /\ MayClaim(fips[f], u, token)
    /\ fips' = [fips EXCEPT ![f] = ClaimedBy(fips[f], u)]
    /\ UNCHANGED <<accounts, kms, sessions>>

(* The pin compares `to` with the version of the session's first            *)
(* questionnaire only, whichever of its questionnaires the FIP answers.     *)
MayMigrate(row, u, token, to) ==
    /\ AuthorizedWrite(row, u, token)
    /\ row.session \in DOMAIN sessions => to = Primary(row.session)[2]
    /\ ReadablePublishedKm(<<row.ref[1], to>>, u)
    /\ to > row.ref[2]

(* Mutant: the columns id and version are written the wrong way round. *)
MigratedSwapped(row, to) == [row EXCEPT !.ref = <<to, row.ref[1]>>]

Migrated(row, to) == [row EXCEPT !.ref = <<row.ref[1], to>>]

MigrateFip(u, f, token, to) ==
    /\ f \in DOMAIN fips
    /\ MayMigrate(fips[f], u, token, to)
    /\ fips' = [fips EXCEPT ![f] = Migrated(fips[f], to)]
    /\ UNCHANGED <<accounts, kms, sessions>>

(* `fipm purge-standalone-fips`: age is left open, so any set of standalone *)
(* FIPs may be old enough.                                                  *)
PurgeStandaloneFips(old) ==
    /\ old # {}
    /\ \A f \in old : fips[f].owner = None /\ fips[f].session = None
    /\ fips' = Drop(fips, old)
    /\ UNCHANGED <<accounts, kms, sessions>>

-----------------------------------------------------------------------------
(* Workshop sessions: routers/sessions.py *)

Offerable(refs, u) == \A k \in Members(refs) : ReadablePublishedKm(k, u)

CreateSession(u, s, refs) ==
    /\ s \notin DOMAIN sessions /\ u # None
    /\ Offerable(refs, u)
    /\ sessions' = Put(sessions, s, [owner |-> u, status |-> "open", refs |-> refs])
    /\ UNCHANGED <<accounts, kms, fips>>

(* Mutant: the session_has_fips check is missing. *)
PatchSessionAnyTime(u, s, status, refs) ==
    /\ OwnedSession(s, u)
    /\ refs # sessions[s].refs => Offerable(refs, u)
    /\ sessions' = [sessions EXCEPT ![s].status = status, ![s].refs = refs]
    /\ UNCHANGED <<accounts, kms, fips>>

(* A closed session may be opened again.  Its questionnaire list may be     *)
(* replaced only while no FIP belongs to it; `refs` unchanged stands for a  *)
(* request that leaves the list alone.                                      *)
PatchSession(u, s, status, refs) ==
    /\ OwnedSession(s, u)
    /\ refs # sessions[s].refs =>
         /\ \A f \in DOMAIN fips : fips[f].session # s
         /\ Offerable(refs, u)
    /\ sessions' = [sessions EXCEPT ![s].status = status, ![s].refs = refs]
    /\ UNCHANGED <<accounts, kms, fips>>

(* Mutant: claimed FIPs are not detached from the deleted session. *)
DeleteSessionNoDetach(u, s) ==
    /\ OwnedSession(s, u)
    /\ fips' = Drop(fips, {f \in DOMAIN fips : fips[f].session = s /\ fips[f].owner = None})
    /\ sessions' = Drop(sessions, {s})
    /\ UNCHANGED <<accounts, kms>>

(* Anonymous FIPs go with their session, claimed ones are detached from it. *)
DeleteSession(u, s) ==
    /\ OwnedSession(s, u)
    /\ LET orphans == {f \in DOMAIN fips : fips[f].session = s /\ fips[f].owner = None}
       IN  fips' = [f \in DOMAIN fips \ orphans |->
                       IF fips[f].session = s THEN [fips[f] EXCEPT !.session = None]
                                              ELSE fips[f]]
    /\ sessions' = Drop(sessions, {s})
    /\ UNCHANGED <<accounts, kms>>

-----------------------------------------------------------------------------
(* Accounts: routers/auth.py register and delete_me *)

(* The account row of a user or, through the CLI, of an admin.  Nothing      *)
(* refers to a user id that was deleted, so a new account may take its place. *)
Register(u) ==
    /\ u \notin accounts
    /\ accounts' = accounts \cup {u}
    /\ UNCHANGED <<kms, sessions, fips>>

(* Mutant: a private session FIP is anonymised but stays private, and a     *)
(* private FIP without a session is kept.                                   *)
DeleteMeKeepPrivate(u) ==
    /\ u # None
    /\ accounts' = accounts \ {u}
    /\ sessions' = [s \in DOMAIN sessions |->
          IF sessions[s].owner = u
          THEN [sessions[s] EXCEPT !.owner = None, !.status = "closed"] ELSE sessions[s]]
    /\ kms' = [k \in {j \in DOMAIN kms : ~(kms[j].owner = u /\ kms[j].status = "draft")} |->
          IF kms[k].owner = u
          THEN [kms[k] EXCEPT !.owner = None, !.visibility = "public"] ELSE kms[k]]
    /\ fips' = [f \in DOMAIN fips |->
          IF fips[f].owner = u THEN [fips[f] EXCEPT !.owner = None] ELSE fips[f]]

(* The facilitator's sessions are closed and anonymised, their drafts       *)
(* deleted, their published models given to the public; a private FIP with  *)
(* no session is deleted, one inside a session becomes readable by link.    *)
DeleteMe(u) ==
    /\ u # None
    /\ accounts' = accounts \ {u}
    /\ sessions' = [s \in DOMAIN sessions |->
          IF sessions[s].owner = u
          THEN [sessions[s] EXCEPT !.owner = None, !.status = "closed"] ELSE sessions[s]]
    /\ kms' = [k \in {j \in DOMAIN kms : ~(kms[j].owner = u /\ kms[j].status = "draft")} |->
          IF kms[k].owner = u
          THEN [kms[k] EXCEPT !.owner = None, !.visibility = "public"] ELSE kms[k]]
    /\ LET mine == {f \in DOMAIN fips : fips[f].owner = u}
           lost == {f \in mine : fips[f].visibility = "private" /\ fips[f].session = None}
       IN  fips' = [f \in DOMAIN fips \ lost |->
              IF f \in mine
              THEN [fips[f] EXCEPT !.owner = None,
                                   !.visibility = IF @ = "private" THEN "link" ELSE @]
              ELSE fips[f]]

-----------------------------------------------------------------------------
(* Knowledge models: routers/knowledge_models.py, as far as FIPs see them *)

(* _get_owned_km_or_404 lets an admin write an unowned row and, in a commit *)
(* of its own, makes the admin its owner whatever becomes of the request.   *)
Claimed(k, u) == [kms EXCEPT ![k].owner = IF @ = None THEN u ELSE @]

CreateKm(u, m) ==
    /\ u # None
    /\ \A k \in DOMAIN kms : k[1] # m
    /\ kms' = Put(kms, <<m, 1>>, [status |-> "draft", owner |-> u, visibility |-> "private"])
    /\ UNCHANGED <<accounts, sessions, fips>>

(* A content edit, or any owner's request refused after the claim. *)
TouchKm(u, k) ==
    /\ OwnedKm(k, u)
    /\ kms' = Claimed(k, u)
    /\ UNCHANGED <<accounts, sessions, fips>>

PatchKm(u, k, visibility) ==
    /\ OwnedKm(k, u)
    /\ PassesEmailGate(u, visibility)
    /\ kms' = [Claimed(k, u) EXCEPT ![k].visibility = visibility]
    /\ UNCHANGED <<accounts, sessions, fips>>

PublishKm(u, k) ==
    /\ OwnedKm(k, u)
    /\ kms[k].status = "draft"
    /\ kms' = [Claimed(k, u) EXCEPT ![k].status = "published"]
    /\ UNCHANGED <<accounts, sessions, fips>>

NewVersion(u, k, v) ==
    /\ OwnedKm(k, u)
    /\ kms[k].status = "published"
    /\ \A j \in DOMAIN kms : j[1] = k[1] => kms[j].status # "draft" /\ j[2] # v
    /\ v > k[2]
    /\ kms' = Put(Claimed(k, u), <<k[1], v>>, [Claimed(k, u)[k] EXCEPT !.status = "draft"])
    /\ UNCHANGED <<accounts, sessions, fips>>

(* Mutant: only FIPs, not sessions, keep a published version. *)
InUseByFip(k) == \E f \in DOMAIN fips : fips[f].ref = k

(* A session keeps its first questionnaire only: the others live in a JSON  *)
(* column the query does not look into.                                     *)
InUse(k) ==
    \/ \E f \in DOMAIN fips : fips[f].ref = k
    \/ \E s \in DOMAIN sessions : Primary(s) = k

DeleteKm(u, k) ==
    /\ OwnedKm(k, u)
    /\ kms[k].status = "published" => ~InUse(k)
    /\ kms' = Drop(kms, {k})
    /\ UNCHANGED <<accounts, sessions, fips>>

-----------------------------------------------------------------------------
FipRequest(u) == \E f \in FipIds, token \in BOOLEAN :
    \/ \E s \in SessionIds \cup {None}, visibility \in Visibilities, ref \in DOMAIN kms :
          CreateFip(u, f, s, visibility, ref)
    \/ \E visibility \in Visibilities, ref \in DOMAIN kms : ImportFip(u, f, visibility, ref)
    \/ \E visibility \in Visibilities : PatchFip(u, f, token, visibility)
    \/ DeleteFip(u, f, token)
    \/ ClaimFip(u, f, token)
    \/ \E to \in Versions : MigrateFip(u, f, token, to)

SessionRequest(u) == \E s \in SessionIds :
    \/ \E refs \in RefLists : CreateSession(u, s, refs)
    \/ \E status \in {"open", "closed"}, refs \in RefLists : PatchSession(u, s, status, refs)
    \/ DeleteSession(u, s)

KmRequest(u) ==
    \/ \E m \in Models : CreateKm(u, m)
    \/ \E k \in DOMAIN kms :
          \/ TouchKm(u, k)
          \/ \E visibility \in Readers : PatchKm(u, k, visibility)
          \/ PublishKm(u, k)
          \/ \E v \in Versions : NewVersion(u, k, v)
          \/ DeleteKm(u, k)

Next ==
    \/ \E u \in accounts \cup {None} : FipRequest(u)
    \/ \E u \in accounts : SessionRequest(u)
    \/ \E u \in accounts \cap Authors : KmRequest(u)
    \/ \E u \in Users : Register(u)
    \/ \E u \in accounts : DeleteMe(u)
    \/ \E old \in SUBSET DOMAIN fips : PurgeStandaloneFips(old)

Spec == Init /\ [][Next]_vars

-----------------------------------------------------------------------------
(* Properties *)

(* Every row has the columns its table declares (models.py). *)
TypeOK ==
    /\ accounts \subseteq Users
    /\ DOMAIN kms \subseteq Refs /\ \A k \in DOMAIN kms : kms[k] \in Km
    /\ DOMAIN sessions \subseteq SessionIds /\ \A s \in DOMAIN sessions : sessions[s] \in Session
    /\ DOMAIN fips \subseteq FipIds /\ \A f \in DOMAIN fips : fips[f] \in Fip

(* Every FIP's owner, session and questionnaire exist, and the questionnaire *)
(* is published: account, session and model deletion each take care of the   *)
(* FIPs that point at what they delete.                                      *)
FipRowsResolve ==
    \A f \in DOMAIN fips :
        /\ fips[f].owner \in accounts \cup {None}
        /\ fips[f].session \in DOMAIN sessions \cup {None}
        /\ fips[f].ref \in DOMAIN kms /\ kms[fips[f].ref].status = "published"

(* A session's owner and its first questionnaire exist, so the join page     *)
(* always has a published questionnaire to show.                             *)
SessionPrimaryResolves ==
    \A s \in DOMAIN sessions :
        /\ sessions[s].owner \in accounts \cup {None}
        /\ Primary(s) \in DOMAIN kms /\ kms[Primary(s)].status = "published"

(* No edit token opens a FIP that somebody owns: claiming revokes it, owned  *)
(* FIPs are created without one, and nothing issues one later.               *)
OwnedFipHasNoToken ==
    \A f \in DOMAIN fips : fips[f].owner # None => ~fips[f].token

(* A private FIP is never dead data: it has an owner, or it is in a session  *)
(* and its edit token still opens it.                                        *)
PrivateFipHasAReader ==
    \A f \in DOMAIN fips :
        fips[f].visibility = "private" /\ fips[f].owner = None =>
            fips[f].token /\ fips[f].session # None

(* In a session that offers one questionnaire every FIP answers exactly      *)
(* that version, so the matrix and the session export stay aligned.          *)
SingleRefSessionPinned ==
    \A f \in DOMAIN fips : \A s \in DOMAIN sessions :
        fips[f].session = s /\ Len(sessions[s].refs) = 1 => fips[f].ref = Primary(s)

(* A FIP gets an owner only from nobody, and loses one only when that owner  *)
(* deletes the account: no request moves a FIP from one user to another.     *)
OwnershipNeverTransferred ==
    [][\A f \in DOMAIN fips \cap DOMAIN fips' :
          fips'[f].owner # fips[f].owner =>
              \/ fips[f].owner = None /\ fips[f].token
              \/ fips'[f].owner = None /\ fips[f].owner \notin accounts']_vars

(* While a session is closed its FIPs change or go only by an admin's or the *)
(* facilitator's request, or because an account is deleted.                  *)
ClosedSessionFrozen ==
    [][\A f \in DOMAIN fips :
          InClosedSession(fips[f]) /\ ~(f \in DOMAIN fips' /\ fips'[f] = fips[f]) =>
              \/ \E u \in accounts :
                    /\ u \in Admins \/ SessionOwnerHasAccess(fips[f], u)
                    /\ FipRequest(u) \/ SessionRequest(u)
              \/ accounts' # accounts]_vars

(* A FIP stays with its questionnaire and moves only to a later version.     *)
MigrationOnlyForward ==
    [][\A f \in DOMAIN fips \cap DOMAIN fips' :
          /\ fips'[f].ref[1] = fips[f].ref[1]
          /\ fips'[f].ref[2] >= fips[f].ref[2]]_vars

-----------------------------------------------------------------------------
(* What the documents say and the code does not do; see README *)

(* spec 09 section 6 and patch_fip's comment: no ownerless FIP is private,   *)
(* neither by POST nor by PATCH, standalone or session-anonymous.            *)
NoOwnerlessPrivateFip ==
    \A f \in DOMAIN fips : fips[f].owner = None => fips[f].visibility # "private"

(* spec 07 section 4: session FIPs are pinned, so that every FIP of a room   *)
(* answers a questionnaire the room offers.                                  *)
SessionFipsPinned ==
    \A f \in DOMAIN fips : \A s \in DOMAIN sessions :
        fips[f].session = s => fips[f].ref \in Members(sessions[s].refs)
=============================================================================
