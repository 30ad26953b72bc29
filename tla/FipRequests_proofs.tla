------------------------- MODULE FipRequests_proofs -------------------------
(***************************************************************************)
(* Proofs about FipRequests, for any number of requests in progress, FIPs, *)
(* sessions, users, questionnaires and answers: whatever the threads       *)
(* interleave, FIPs resolve, answers are written by those who send them    *)
(* and a claim stays; and requests that do not overlap are the requests of *)
(* FipLifecycle, with an exact projection.                                 *)
(***************************************************************************)
EXTENDS FipRequests, TLAPS

Published(k) == k \in DOMAIN kms /\ kms[k].status = "published"

(* What a request in progress may look like, whatever it is. *)
IsRequest(q) ==
    /\ q = [step |-> q.step, call |-> q.call, user |-> q.user, token |-> q.token,
            seen |-> q.seen, args |-> q.args]
    /\ q.call \in Calls
    /\ \A f \in DOMAIN q.seen : f \in FipIds /\ q.seen[f].row \in Fip
    /\ q.call = "claim" => q.user \in Users
    /\ q.call = "patch" => q.args.visibility \in Visibilities \cup {None}
    /\ q.call = "migrate" => q.args.to \in Versions

(* The questionnaire that a request is about to write is published. *)
WillResolve(q) ==
    /\ q.call = "create" => \A f \in DOMAIN q.seen : Published(q.seen[f].row.ref)
    /\ q.call = "migrate" /\ q.step = "decided" =>
           \A f \in DOMAIN q.seen : Published(<<q.seen[f].row.ref[1], q.args.to>>)

Slots ==
    /\ requests = [r \in Requests |-> requests[r]]
    /\ \A r \in Requests : ~Idle(r) => IsRequest(requests[r]) /\ WillResolve(requests[r])

(* The inductive invariant of overlapping requests. *)
RInv == TypeOK /\ FipRowsResolve /\ Slots

LEMMA RInvInit == RInit => RInv
  BY ConstantsAssumption, InitialFipsAssumption
     DEF RInit, Init, RInv, TypeOK, FipRowsResolve, Slots, Idle, Fip, Owners

-----------------------------------------------------------------------------
(* One slot changes and published questionnaires stay published. *)
LEMMA SlotWritten ==
    ASSUME Slots, NEW r \in Requests, NEW q,
           requests' = [requests EXCEPT ![r] = q],
           \A k : Published(k) => Published(k)',
           q # None => IsRequest(q) /\ WillResolve(q)'
    PROVE  Slots'
<1>1. \A i \in Requests : requests'[i] = IF i = r THEN q ELSE requests[i]
  BY DEF Slots
<1>2. ASSUME NEW i \in Requests, ~Idle(i)' PROVE (IsRequest(requests[i]) /\ WillResolve(requests[i]))'
  <2>1. CASE i = r
    <3>1. requests'[i] = q /\ q # None
      BY <1>1, <1>2, <2>1 DEF Idle
    <3>2. QED
      BY <3>1 DEF IsRequest, WillResolve
  <2>2. CASE i # r
    <3>1. requests'[i] = requests[i] /\ IsRequest(requests[i]) /\ WillResolve(requests[i])
      BY <1>1, <1>2, <2>2 DEF Idle, Slots
    <3>2. QED
      BY <3>1 DEF IsRequest, WillResolve
  <2>3. QED
    BY <2>1, <2>2
<1>3. requests' = [i \in Requests |-> requests'[i]]
  BY DEF Slots
<1>4. QED
  BY <1>2, <1>3 DEF Slots

(* No slot changes and published questionnaires stay published. *)
LEMMA SlotsKept ==
    ASSUME Slots, requests' = requests, \A k : Published(k) => Published(k)'
    PROVE  Slots'
  BY DEF Slots, Idle, WillResolve, IsRequest

-----------------------------------------------------------------------------
(* What a handler assigns, by the call *)

LEMMA AssignedByPatch ==
    ASSUME NEW q, NEW f, q.call = "patch"
    PROVE  Assigned(q, f) =
             [row |-> IF q.args.visibility = None THEN q.seen[f].row
                      ELSE [q.seen[f].row EXCEPT !.visibility = q.args.visibility],
              answers |-> IF q.args.answers = None THEN q.args.normal[q.seen[f].answers]
                          ELSE q.args.answers]
  BY Zenon DEF Assigned

LEMMA AssignedByClaim ==
    ASSUME NEW q, NEW f, q.call = "claim"
    PROVE  Assigned(q, f) = [row |-> ClaimedBy(q.seen[f].row, q.user),
                             answers |-> q.seen[f].answers]
  BY Zenon DEF Assigned

LEMMA AssignedByMigrate ==
    ASSUME NEW q, NEW f, q.call = "migrate"
    PROVE  Assigned(q, f) = [row |-> Migrated(q.seen[f].row, q.args.to),
                             answers |-> q.args.answers]
  BY Zenon DEF Assigned

LEMMA AssignedByDeleteSession ==
    ASSUME NEW q, NEW f, q.call = "delete_session"
    PROVE  Assigned(q, f) = [row |-> [q.seen[f].row EXCEPT !.session = None],
                             answers |-> q.seen[f].answers]
  BY Zenon DEF Assigned

LEMMA AssignedByOthers ==
    ASSUME NEW q, NEW f, q.call \in {"create", "delete", "backfill"}
    PROVE  Assigned(q, f) = [row |-> q.seen[f].row, answers |-> q.seen[f].answers]
  BY Zenon DEF Assigned

LEMMA DeletedByDelete ==
    ASSUME NEW q, q.call = "delete" PROVE Deleted(q) = DOMAIN q.seen
  BY Zenon DEF Deleted

LEMMA DeletedByDeleteSession ==
    ASSUME NEW q, q.call = "delete_session"
    PROVE  Deleted(q) = {f \in DOMAIN q.seen : q.seen[f].row.owner = None}
  BY Zenon DEF Deleted

LEMMA DeletedByOthers ==
    ASSUME NEW q, q.call \in {"create", "patch", "claim", "migrate", "backfill"}
    PROVE  Deleted(q) = {}
  BY Zenon DEF Deleted

(* Whatever the call, the row it leaves is a row; only a migration changes   *)
(* the questionnaire, and only a claim the owner.                            *)
LEMMA AssignedRow ==
    ASSUME NEW q, IsRequest(q), NEW f \in DOMAIN q.seen
    PROVE  /\ Assigned(q, f).row \in Fip
           /\ Assigned(q, f).row.ref = IF q.call = "migrate"
                                       THEN <<q.seen[f].row.ref[1], q.args.to>>
                                       ELSE q.seen[f].row.ref
           /\ Assigned(q, f).row.owner = IF q.call = "claim" THEN q.user ELSE q.seen[f].row.owner
<1> DEFINE old == q.seen[f].row
<1>1. old \in Fip
  BY DEF IsRequest
<1>2. CASE q.call = "patch"
  <2>1. Assigned(q, f).row = IF q.args.visibility = None THEN old
                             ELSE [old EXCEPT !.visibility = q.args.visibility]
    BY <1>2, AssignedByPatch
  <2>2. q.args.visibility # None => q.args.visibility \in Visibilities
    BY <1>2 DEF IsRequest
  <2>3. QED
    BY <1>1, <1>2, <2>1, <2>2 DEF Fip
<1>3. CASE q.call = "claim"
  <2>1. Assigned(q, f).row = [old EXCEPT !.owner = q.user, !.token = FALSE]
    <3>1. Assigned(q, f).row = ClaimedBy(old, q.user)
      BY <1>3, AssignedByClaim
    <3>2. QED
      BY <3>1 DEF ClaimedBy
  <2>2. q.user \in Owners
    BY <1>3 DEF IsRequest, Owners
  <2>3. QED
    BY <1>1, <1>3, <2>1, <2>2 DEF Fip
<1>4. CASE q.call = "migrate"
  <2>1. Assigned(q, f).row = [old EXCEPT !.ref = <<old.ref[1], q.args.to>>]
    BY <1>4, AssignedByMigrate DEF Migrated
  <2>2. <<old.ref[1], q.args.to>> \in Refs
    BY <1>1, <1>4 DEF IsRequest, Fip, Refs
  <2>3. QED
    BY <1>1, <1>4, <2>1, <2>2 DEF Fip
<1>5. CASE q.call = "delete_session"
  <2>1. Assigned(q, f).row = [old EXCEPT !.session = None]
    BY <1>5, AssignedByDeleteSession
  <2>2. QED
    BY <1>1, <1>5, <2>1 DEF Fip
<1>6. CASE q.call \in {"create", "delete", "backfill"}
  <2>1. Assigned(q, f).row = old
    BY <1>6, AssignedByOthers
  <2>2. QED
    BY <1>1, <1>6, <2>1
<1>7. QED
  BY <1>2, <1>3, <1>4, <1>5, <1>6 DEF IsRequest, Calls

(* The columns of a merged row are each of one of the two rows. *)
LEMMA MergedRow ==
    ASSUME NEW now \in Fip, NEW old \in Fip, NEW new \in Fip
    PROVE  /\ WrittenRow(now, old, new) \in Fip
           /\ WrittenRow(now, old, new).ref = Written(now.ref, old.ref, new.ref)
           /\ WrittenRow(now, old, new).owner = Written(now.owner, old.owner, new.owner)
           /\ WrittenRow(now, old, new).session = Written(now.session, old.session, new.session)
           /\ WrittenRow(now, old, new).visibility =
                  Written(now.visibility, old.visibility, new.visibility)
           /\ WrittenRow(now, old, new).token = Written(now.token, old.token, new.token)
  BY DEF WrittenRow, Written, Fip

(* A FIP after the commit of a request: as it was, merged, or new. *)
LEMMA FipAfter ==
    ASSUME NEW q, NEW f \in DOMAIN FipsAfter(q)
    PROVE  /\ f \in DOMAIN fips \cup DOMAIN q.seen
           /\ \/ f \in DOMAIN fips /\ f \notin Changed(q) /\ FipsAfter(q)[f] = fips[f]
              \/ /\ f \in DOMAIN fips \cap DOMAIN q.seen
                 /\ FipsAfter(q)[f] = WrittenRow(fips[f], q.seen[f].row, Assigned(q, f).row)
              \/ f \in DOMAIN q.seen /\ FipsAfter(q)[f] = Assigned(q, f).row
  BY DEF FipsAfter, Changed, Touched

LEMMA CommitKeepsRInv ==
    ASSUME RInv, NEW r \in Requests, Commit(r) PROVE RInv'
<1> SUFFICES ASSUME NEW q, q = requests[r] PROVE RInv'
  OBVIOUS
<1>1. /\ IsRequest(q) /\ WillResolve(q) /\ q.step = "decided"
      /\ fips' = FipsAfter(q) /\ sessions' = SessionsAfter(q)
      /\ UNCHANGED <<accounts, kms>>
      /\ requests' = [requests EXCEPT ![r] = None]
      /\ ForeignKeysHold(q)
  BY DEF Commit, RInv, Slots, Succeed, Flushes
<1>2. \A f \in DOMAIN fips' : f \in FipIds /\ fips'[f] \in Fip
  <2> SUFFICES ASSUME NEW f \in DOMAIN FipsAfter(q) PROVE f \in FipIds /\ FipsAfter(q)[f] \in Fip
    BY <1>1
  <2>1. \A g \in DOMAIN q.seen : g \in FipIds /\ q.seen[g].row \in Fip /\ Assigned(q, g).row \in Fip
    BY <1>1, AssignedRow DEF IsRequest
  <2>2. \A g \in DOMAIN fips : g \in FipIds /\ fips[g] \in Fip
    BY DEF RInv, TypeOK
  <2>3. QED
    BY <2>1, <2>2, FipAfter, MergedRow
<1>3. TypeOK'
  <2>1. DOMAIN sessions' \subseteq DOMAIN sessions /\ \A s \in DOMAIN sessions' : sessions'[s] = sessions[s]
    BY <1>1 DEF SessionsAfter, Drop
  <2>2. QED
    BY <1>1, <1>2, <2>1 DEF RInv, TypeOK
<1>4. \A f \in DOMAIN fips' : kms[fips'[f].ref].status = "published"
  <2> SUFFICES ASSUME NEW f \in DOMAIN FipsAfter(q)
               PROVE  kms[FipsAfter(q)[f].ref].status = "published"
    BY <1>1
  <2>1. CASE f \in DOMAIN fips /\ f \notin Changed(q) /\ FipsAfter(q)[f] = fips[f]
    BY <2>1 DEF RInv, FipRowsResolve
  <2>2. CASE /\ f \in DOMAIN fips \cap DOMAIN q.seen
             /\ FipsAfter(q)[f] = WrittenRow(fips[f], q.seen[f].row, Assigned(q, f).row)
    <3>0. fips[f] \in Fip /\ q.seen[f].row \in Fip /\ Assigned(q, f).row \in Fip
      BY <1>1, <2>2, AssignedRow DEF RInv, TypeOK, IsRequest
    <3>1. FipsAfter(q)[f].ref = Written(fips[f].ref, q.seen[f].row.ref, Assigned(q, f).row.ref)
      BY <2>2, <3>0, MergedRow
    <3>2. Published(fips[f].ref)
      BY <2>2 DEF RInv, FipRowsResolve, Published
    <3>3. Assigned(q, f).row.ref = q.seen[f].row.ref \/ Published(Assigned(q, f).row.ref)
      BY <1>1, <2>2, AssignedRow DEF WillResolve
    <3>4. QED
      BY <3>1, <3>2, <3>3 DEF Written, Published
  <2>3. CASE f \notin DOMAIN fips /\ f \in DOMAIN q.seen /\ FipsAfter(q)[f] = Assigned(q, f).row
    <3>1. f \in Changed(q)
      BY <2>3 DEF FipsAfter
    <3>2. q.call = "create"
      BY <1>1, <2>3, <3>1 DEF Commit, Flushes
    <3>3. Published(q.seen[f].row.ref) /\ Assigned(q, f).row.ref = q.seen[f].row.ref
      BY <1>1, <2>3, <3>2, AssignedRow DEF WillResolve
    <3>4. QED
      BY <2>3, <3>3 DEF Published
  <2>4. QED
    BY <2>1, <2>2, <2>3 DEF FipsAfter, Changed, Touched
<1>5. FipRowsResolve'
  BY <1>1, <1>4 DEF FipRowsResolve, ForeignKeysHold
<1>6. Slots'
  <2>1. \A k : Published(k) => Published(k)'
    BY <1>1 DEF Published
  <2>2. QED
    BY <1>1, <2>1, SlotWritten DEF RInv
<1>7. QED
  BY <1>3, <1>5, <1>6 DEF RInv

-----------------------------------------------------------------------------
(* The steps before the commit, and the requests that are one transaction *)

LEMMA LoadKeepsRInv ==
    ASSUME RInv, NEW r \in Requests, NEW call \in Calls \ {"create"}, NEW u, NEW token,
           NEW ids, NEW args, Load(r, call, u, token, ids, args),
           ids \subseteq DOMAIN fips,
           call = "claim" => u \in Users,
           call = "patch" => args.visibility \in Visibilities \cup {None},
           call = "migrate" => args.to \in Versions
    PROVE  RInv'
<1> DEFINE new == [step |-> "loaded", call |-> call, user |-> u, token |-> token,
                   seen |-> Loaded(ids), args |-> args]
<1>1. requests' = [requests EXCEPT ![r] = new] /\ UNCHANGED <<accounts, kms, sessions, fips>>
  BY DEF Load
<1>2. TypeOK' /\ FipRowsResolve'
  BY <1>1 DEF RInv, TypeOK, FipRowsResolve
<1>3. PICK q : q = new
  OBVIOUS
<1>4. q.seen = [f \in ids |-> [row |-> fips[f], answers |-> answers[f], updated |-> updated[f]]]
  BY <1>3 DEF Loaded
<1>5. IsRequest(q)
  <2>1. \A f \in DOMAIN q.seen : f \in FipIds /\ q.seen[f].row \in Fip
    BY <1>4 DEF RInv, TypeOK
  <2>2. QED
    BY <1>3, <2>1 DEF IsRequest
<1>6. WillResolve(q)'
  BY <1>3 DEF WillResolve
<1>7. \A k : Published(k) => Published(k)'
  BY <1>1 DEF Published
<1>8. Slots'
  BY <1>1, <1>3, <1>5, <1>6, <1>7, SlotWritten DEF RInv
<1>9. QED
  BY <1>2, <1>8 DEF RInv

LEMMA LoadFipKeepsRInv ==
    ASSUME RInv, NEW r \in Requests, NEW u \in accounts \cup {None}, NEW f \in FipIds,
           NEW token \in BOOLEAN, LoadFip(r, u, f, token)
    PROVE  RInv'
<1>1. f \in DOMAIN fips /\ (u # None => u \in Users)
  BY DEF LoadFip, RInv, TypeOK
<1>2. {f} \subseteq DOMAIN fips /\ {"patch", "delete", "claim", "migrate"} \subseteq Calls \ {"create"}
  BY <1>1 DEF Calls
<1>3. CASE \E body \in PatchBodies : Load(r, "patch", u, token, {f}, body)
  <2>1. PICK body \in PatchBodies : Load(r, "patch", u, token, {f}, body)
    BY <1>3
  <2>2. body.visibility \in Visibilities \cup {None}
    BY RequestsAssumption
  <2>3. QED
    BY <1>2, <2>1, <2>2, LoadKeepsRInv
<1>4. CASE Load(r, "delete", u, token, {f}, None)
  BY <1>2, <1>4, LoadKeepsRInv
<1>5. CASE u # None /\ Load(r, "claim", u, token, {f}, None)
  BY <1>1, <1>2, <1>5, LoadKeepsRInv
<1>6. CASE \E to \in Versions, result \in Answers :
               Load(r, "migrate", u, token, {f}, [to |-> to, answers |-> result])
  <2>1. PICK to \in Versions, result \in Answers :
            Load(r, "migrate", u, token, {f}, [to |-> to, answers |-> result])
    BY <1>6
  <2>2. [to |-> to, answers |-> result].to \in Versions
    OBVIOUS
  <2>3. QED
    BY <1>2, <2>1, <2>2, LoadKeepsRInv
<1>7. QED
  BY <1>3, <1>4, <1>5, <1>6 DEF LoadFip

LEMMA LoadCreateKeepsRInv ==
    ASSUME RInv, NEW r \in Requests, NEW u \in accounts \cup {None}, NEW f \in FipIds,
           NEW s \in SessionIds \cup {None}, NEW ref \in DOMAIN kms, NEW body \in FirstBodies,
           LoadCreate(r, u, f, s, ref, body)
    PROVE  RInv'
<1> DEFINE row == NewFip(u, s, body.visibility, ref)
           new == [step |-> "decided", call |-> "create", user |-> u, token |-> FALSE,
                   seen |-> [g \in {f} |-> [row |-> row, answers |-> body.answers, updated |-> 0]],
                   args |-> None]
<1>1. /\ requests' = [requests EXCEPT ![r] = new]
      /\ UNCHANGED <<accounts, kms, sessions, fips>>
      /\ MayCreate(u, s, body.visibility, ref)
  BY DEF LoadCreate
<1>2. TypeOK' /\ FipRowsResolve'
  BY <1>1 DEF RInv, TypeOK, FipRowsResolve
<1>3. row \in Fip /\ row.ref = ref
  <2>1. body.visibility \in Visibilities /\ ref \in Refs /\ u \in Owners
    BY RequestsAssumption DEF RInv, TypeOK, Owners
  <2>2. (IF s = None THEN u ELSE None) \in Owners /\ (s # None \/ u = None) \in BOOLEAN
    BY <2>1 DEF Owners
  <2>3. QED
    BY <2>1, <2>2 DEF NewFip, Fip
<1>4. Published(ref)
  BY <1>1 DEF MayCreate, ReadablePublishedKm, Published
<1>5. PICK q : q = new
  OBVIOUS
<1>6. DOMAIN q.seen = {f} /\ q.seen[f].row = row /\ q.call = "create"
  BY <1>5
<1>7. IsRequest(q)
  <2> HIDE DEF row
  <2>1. q = [step |-> q.step, call |-> q.call, user |-> q.user, token |-> q.token,
             seen |-> q.seen, args |-> q.args]
    BY <1>5
  <2>2. QED
    BY <1>3, <1>6, <2>1 DEF IsRequest, Calls
<1>8. \A k : Published(k) => Published(k)'
  BY <1>1 DEF Published
<1>9. WillResolve(q)'
  BY <1>3, <1>4, <1>6, <1>8 DEF WillResolve
<1>10. Slots'
  <2> HIDE DEF row
  <2>1. QED
    BY <1>1, <1>5, <1>7, <1>8, <1>9, SlotWritten DEF RInv
<1>11. QED
  BY <1>2, <1>10 DEF RInv

(* A migration that is decided on writes a questionnaire that is published. *)
LEMMA DecideKeepsRInv ==
    ASSUME RInv, NEW r \in Requests, Decide(r) PROVE RInv'
<1>1. IsRequest(requests[r]) /\ WillResolve(requests[r]) /\ UNCHANGED <<accounts, kms, sessions, fips>>
  BY DEF RInv, Slots, Decide
<1>2. TypeOK' /\ FipRowsResolve'
  BY <1>1 DEF RInv, TypeOK, FipRowsResolve
<1>3. PICK old : old = requests[r]
  OBVIOUS
<1>4. PICK q : q = IF Allowed(old) THEN [old EXCEPT !.step = "decided"] ELSE None
  OBVIOUS
<1>5. requests' = [requests EXCEPT ![r] = q]
  BY <1>3, <1>4 DEF Decide
<1>6. \A k : Published(k) => Published(k)'
  BY <1>1 DEF Published
<1>7. ASSUME q # None PROVE IsRequest(q) /\ WillResolve(q)'
  <2>1. Allowed(old) /\ q = [old EXCEPT !.step = "decided"] /\ IsRequest(old) /\ WillResolve(old)
    BY <1>1, <1>3, <1>4, <1>7
  <2>2. /\ q.step = "decided" /\ q.call = old.call /\ q.user = old.user /\ q.token = old.token
        /\ q.seen = old.seen /\ q.args = old.args
    BY <2>1 DEF IsRequest
  <2>3. IsRequest(q)
    <3>1. q = [step |-> q.step, call |-> q.call, user |-> q.user, token |-> q.token,
               seen |-> q.seen, args |-> q.args]
      BY <2>1 DEF IsRequest
    <3>2. QED
      BY <2>1, <2>2, <3>1 DEF IsRequest
  <2>4. ASSUME q.call = "migrate", NEW f \in DOMAIN q.seen
        PROVE  Published(<<q.seen[f].row.ref[1], q.args.to>>)
    <3>1. MayMigrate(old.seen[f].row, old.user, old.token, old.args.to)
      BY <2>1, <2>2, <2>4, Zenon DEF Allowed
    <3>2. QED
      BY <2>2, <3>1 DEF MayMigrate, ReadablePublishedKm, Published
  <2>5. QED
    BY <1>6, <2>1, <2>2, <2>3, <2>4 DEF WillResolve
<1>8. Slots'
  BY <1>5, <1>6, <1>7, SlotWritten DEF RInv
<1>9. QED
  BY <1>2, <1>8 DEF RInv

LEMMA RollbackKeepsRInv ==
    ASSUME RInv, NEW r \in Requests, Rollback(r) PROVE RInv'
<1>1. requests' = [requests EXCEPT ![r] = None] /\ UNCHANGED <<accounts, kms, sessions, fips>>
  BY DEF Rollback
<1>2. TypeOK' /\ FipRowsResolve'
  BY <1>1 DEF RInv, TypeOK, FipRowsResolve
<1>3. \A k : Published(k) => Published(k)'
  BY <1>1 DEF Published
<1>4. Slots'
  BY <1>1, <1>3, SlotWritten DEF RInv
<1>5. QED
  BY <1>2, <1>4 DEF RInv

LEMMA SessionWriteKeepsRInv ==
    ASSUME RInv, SessionWrite PROVE RInv'
<1>1. UNCHANGED <<accounts, kms, fips, requests>>
  BY DEF SessionWrite, CreateSession, PatchSession
<1>2. /\ DOMAIN sessions \subseteq DOMAIN sessions' /\ DOMAIN sessions' \subseteq SessionIds
      /\ \A s \in DOMAIN sessions' : sessions'[s] \in Session
  <2>1. PICK u \in accounts, s \in SessionIds :
            \/ \E refs \in RefLists : CreateSession(u, s, refs)
            \/ \E status \in {"open", "closed"} :
                  s \in DOMAIN sessions /\ PatchSession(u, s, status, sessions[s].refs)
    BY DEF SessionWrite
  <2>2. u \in Owners
    BY DEF RInv, TypeOK, Owners
  <2>3. CASE \E refs \in RefLists : CreateSession(u, s, refs)
    <3>1. PICK refs \in RefLists : CreateSession(u, s, refs)
      BY <2>3
    <3>2. sessions' = [t \in DOMAIN sessions \cup {s} |->
                          IF t = s THEN [owner |-> u, status |-> "open", refs |-> refs] ELSE sessions[t]]
      BY <3>1 DEF CreateSession, Put
    <3>3. QED
      BY <2>2, <3>2 DEF RInv, TypeOK, Session
  <2>4. CASE \E status \in {"open", "closed"} :
                 s \in DOMAIN sessions /\ PatchSession(u, s, status, sessions[s].refs)
    <3>1. PICK status \in {"open", "closed"} :
              s \in DOMAIN sessions /\ PatchSession(u, s, status, sessions[s].refs)
      BY <2>4
    <3>2. sessions[s] \in Session
      BY <3>1 DEF RInv, TypeOK
    <3>3. PICK old : old = sessions[s]
      OBVIOUS
    <3>4. sessions' = [sessions EXCEPT ![s] = [old EXCEPT !.status = status, !.refs = old.refs]]
      BY <3>1, <3>3 DEF PatchSession
    <3>5. [old EXCEPT !.status = status, !.refs = old.refs] \in Session
      BY <3>2, <3>3 DEF Session
    <3>6. QED
      BY <3>1, <3>4, <3>5 DEF RInv, TypeOK
  <2>5. QED
    BY <2>1, <2>3, <2>4
<1>3. TypeOK' /\ FipRowsResolve'
  BY <1>1, <1>2 DEF RInv, TypeOK, FipRowsResolve
<1>4. Slots'
  BY <1>1, SlotsKept DEF RInv, Published
<1>5. QED
  BY <1>3, <1>4 DEF RInv

LEMMA AccountWriteKeepsRInv ==
    ASSUME RInv, AccountWrite PROVE RInv'
<1>1. /\ accounts \subseteq accounts' /\ accounts' \subseteq Users
      /\ UNCHANGED <<kms, sessions, fips, requests>>
  BY DEF AccountWrite, Register, RInv, TypeOK
<1>2. TypeOK' /\ FipRowsResolve'
  BY <1>1 DEF RInv, TypeOK, FipRowsResolve
<1>3. Slots'
  BY <1>1, SlotsKept DEF RInv, Published
<1>4. QED
  BY <1>2, <1>3 DEF RInv

(* The rows that deleting an account leaves. *)
LEMMA DeletedAccount ==
    ASSUME TypeOK, NEW u \in accounts, DeleteMe(u)
    PROVE  /\ TypeOK'
           /\ accounts' = accounts \ {u}
           /\ DOMAIN sessions' = DOMAIN sessions
           /\ DOMAIN fips' \subseteq DOMAIN fips
           /\ \A f \in DOMAIN fips' : /\ fips'[f].session = fips[f].session
                                      /\ fips'[f].ref = fips[f].ref
                                      /\ fips'[f].owner = IF fips[f].owner = u THEN None
                                                          ELSE fips[f].owner
           /\ \A k : Published(k) => Published(k)'
<1>1. accounts' = accounts \ {u} /\ accounts' \subseteq Users
  BY DEF DeleteMe, TypeOK
<1>2. /\ DOMAIN sessions' = DOMAIN sessions
      /\ \A s \in DOMAIN sessions' : sessions'[s] =
             IF sessions[s].owner = u THEN [sessions[s] EXCEPT !.owner = None, !.status = "closed"]
             ELSE sessions[s]
  BY DEF DeleteMe
<1>3. \A s \in DOMAIN sessions' : sessions'[s] \in Session
  BY <1>2 DEF TypeOK, Session, Owners
<1>4. /\ DOMAIN kms' = {j \in DOMAIN kms : ~(kms[j].owner = u /\ kms[j].status = "draft")}
      /\ \A k \in DOMAIN kms' : kms'[k] =
             IF kms[k].owner = u THEN [kms[k] EXCEPT !.owner = None, !.visibility = "public"]
             ELSE kms[k]
  BY DEF DeleteMe
<1>5. \A k \in DOMAIN kms' : kms'[k] \in Km /\ kms'[k].status = kms[k].status
  BY <1>4 DEF TypeOK, Km, Owners, Readers
<1>6. /\ DOMAIN fips' \subseteq DOMAIN fips
      /\ \A f \in DOMAIN fips' : fips'[f] =
             IF fips[f].owner = u
             THEN [fips[f] EXCEPT !.owner = None, !.visibility = IF @ = "private" THEN "link" ELSE @]
             ELSE fips[f]
  BY DEF DeleteMe
<1>7. ASSUME NEW f \in DOMAIN fips'
      PROVE  /\ fips'[f] \in Fip /\ fips'[f].session = fips[f].session /\ fips'[f].ref = fips[f].ref
             /\ fips'[f].owner = IF fips[f].owner = u THEN None ELSE fips[f].owner
  <2>1. fips[f] \in Fip
    BY <1>6 DEF TypeOK
  <2>2. CASE fips[f].owner = u
    <3>1. PICK v : v = IF fips[f].visibility = "private" THEN "link" ELSE fips[f].visibility
      OBVIOUS
    <3>2. fips'[f] = [fips[f] EXCEPT !.owner = None, !.visibility = v]
      BY <1>6, <1>7, <2>1, <2>2, <3>1 DEF Fip
    <3>3. v \in Visibilities
      BY <2>1, <3>1 DEF Fip, Visibilities
    <3>4. QED
      BY <2>1, <2>2, <3>2, <3>3 DEF Fip, Owners
  <2>3. CASE fips[f].owner # u
    BY <1>6, <1>7, <2>1, <2>3
  <2>4. QED
    BY <2>2, <2>3
<1>8. TypeOK'
  BY <1>1, <1>2, <1>3, <1>4, <1>5, <1>6, <1>7 DEF TypeOK
<1>9. \A k : Published(k) => Published(k)'
  <2>1. \A k \in DOMAIN kms : kms[k].status = "published" => k \in DOMAIN kms'
    BY <1>4
  <2>2. QED
    BY <1>5, <2>1 DEF Published
<1>10. QED
  BY <1>1, <1>2, <1>6, <1>7, <1>8, <1>9

LEMMA AccountDeletionKeepsRInv ==
    ASSUME RInv, AccountDeletion PROVE RInv'
<1>1. PICK u \in accounts : DeleteMe(u)
  BY DEF AccountDeletion
<1>2. requests' = requests
  BY DEF AccountDeletion
<1>3. TypeOK
  BY DEF RInv
<1>4. /\ TypeOK'
      /\ accounts' = accounts \ {u}
      /\ DOMAIN sessions' = DOMAIN sessions
      /\ DOMAIN fips' \subseteq DOMAIN fips
      /\ \A f \in DOMAIN fips' : /\ fips'[f].session = fips[f].session
                                 /\ fips'[f].ref = fips[f].ref
                                 /\ fips'[f].owner = IF fips[f].owner = u THEN None
                                                     ELSE fips[f].owner
      /\ \A k : Published(k) => Published(k)'
  BY <1>1, <1>3, DeletedAccount
<1>5. FipRowsResolve'
  BY <1>4 DEF RInv, FipRowsResolve, Published
<1>6. Slots'
  BY <1>2, <1>4, SlotsKept DEF RInv
<1>7. QED
  BY <1>4, <1>5, <1>6 DEF RInv

LEMMA PurgeKeepsRInv ==
    ASSUME RInv, NEW ids \in SUBSET DOMAIN fips, NEW old \in SUBSET ids, Purge(ids, old)
    PROVE  RInv'
<1>1. /\ UNCHANGED <<accounts, kms, sessions, requests>>
      /\ DOMAIN fips' \subseteq DOMAIN fips /\ \A f \in DOMAIN fips' : fips'[f] = fips[f]
  BY DEF Purge, PurgeStandaloneFips, Drop
<1>2. TypeOK' /\ FipRowsResolve'
  BY <1>1 DEF RInv, TypeOK, FipRowsResolve
<1>3. Slots'
  BY <1>1, SlotsKept DEF RInv, Published
<1>4. QED
  BY <1>2, <1>3 DEF RInv

LEMMA RInvStep == RInv /\ [RNext]_rvars => RInv'
<1> SUFFICES ASSUME RInv, [RNext]_rvars PROVE RInv'
  OBVIOUS
<1>1. ASSUME NEW r \in Requests, NEW u \in accounts \cup {None}, NEW f \in FipIds,
             \/ \E token \in BOOLEAN : LoadFip(r, u, f, token)
             \/ \E s \in SessionIds \cup {None}, ref \in DOMAIN kms, body \in FirstBodies :
                   LoadCreate(r, u, f, s, ref, body)
      PROVE  RInv'
  BY <1>1, LoadFipKeepsRInv, LoadCreateKeepsRInv
<1>2. ASSUME NEW r \in Requests, NEW u \in accounts, NEW s \in SessionIds, LoadSession(r, u, s)
      PROVE  RInv'
  <2>1. Load(r, "delete_session", u, FALSE, {f \in DOMAIN fips : fips[f].session = s}, s)
    BY <1>2 DEF LoadSession
  <2>2. "delete_session" \in Calls \ {"create"}
    BY DEF Calls
  <2>3. {f \in DOMAIN fips : fips[f].session = s} \subseteq DOMAIN fips
    OBVIOUS
  <2>4. QED
    BY <2>1, <2>2, <2>3, LoadKeepsRInv
<1>3. ASSUME NEW r \in Requests, NEW f \in FipIds, LoadBackfill(r, f) PROVE RInv'
  <2>1. {f} \subseteq DOMAIN fips /\ Load(r, "backfill", None, FALSE, {f}, None)
    BY <1>3 DEF LoadBackfill
  <2>2. "backfill" \in Calls \ {"create"}
    BY DEF Calls
  <2>3. QED
    BY <2>1, <2>2, LoadKeepsRInv
<1>4. ASSUME NEW r \in Requests, Decide(r) \/ Commit(r) \/ Rollback(r) PROVE RInv'
  BY <1>4, DecideKeepsRInv, CommitKeepsRInv, RollbackKeepsRInv
<1>5. ASSUME NEW ids \in SUBSET DOMAIN fips, NEW old \in SUBSET ids, Purge(ids, old) PROVE RInv'
  BY <1>5, PurgeKeepsRInv
<1>6. ASSUME UNCHANGED rvars PROVE RInv'
  <2>1. TypeOK' /\ FipRowsResolve'
    BY <1>6 DEF rvars, RInv, TypeOK, FipRowsResolve
  <2>2. Slots'
    BY <1>6, SlotsKept DEF rvars, RInv, Published
  <2>3. QED
    BY <2>1, <2>2 DEF RInv
<1>7. QED
  BY <1>1, <1>2, <1>3, <1>4, <1>5, <1>6, SessionWriteKeepsRInv, AccountWriteKeepsRInv,
     AccountDeletionKeepsRInv DEF RNext

(* However requests overlap, every FIP's owner, session and questionnaire   *)
(* exist, and the questionnaire is published: what a handler decided on may *)
(* be gone when it commits, and the foreign keys then refuse it.            *)
THEOREM RSpec_FipRowsResolve == RSpec => []FipRowsResolve
<1>1. RInv => FipRowsResolve
  BY DEF RInv
<1>2. QED
  BY <1>1, RInvInit, RInvStep, PTL DEF RSpec

-----------------------------------------------------------------------------
(* What a step may not do *)

(* The answers a commit leaves in a FIP it found are those that were there, *)
(* those the request carried, or rewritten ones.                            *)
LEMMA CommittedAnswers ==
    ASSUME RInv, NEW r \in Requests, Commit(r), NEW f \in DOMAIN fips \cap DOMAIN fips',
           answers'[f] # answers[f]
    PROVE  /\ f \in DOMAIN requests[r].seen
           /\ \/ /\ requests[r].call \in {"patch", "migrate"}
                 /\ requests[r].args.answers = answers'[f]
              \/ Rewrites(requests[r], f, answers'[f])
<1> DEFINE q == requests[r]
<1>1. IsRequest(q) /\ Succeed(q)
  BY DEF RInv, Slots, Commit
<1>2. f \in Changed(q)
  BY <1>1 DEF Succeed
<1>3. f \in DOMAIN q.seen
  BY <1>2 DEF Changed, Touched
<1>4. answers'[f] = Written(answers[f], q.seen[f].answers, Assigned(q, f).answers)
  BY <1>1, <1>2 DEF Succeed
<1>5. Assigned(q, f).answers # q.seen[f].answers /\ answers'[f] = Assigned(q, f).answers
  BY <1>4 DEF Written
<1>6. q.call \notin {"create", "delete", "backfill", "claim", "delete_session"}
  BY <1>5, AssignedByOthers, AssignedByClaim, AssignedByDeleteSession
<1>7. q.call \in {"patch", "migrate"}
  BY <1>1, <1>6 DEF IsRequest, Calls
<1>8. q.args.answers = answers'[f] \/ Rewrites(q, f, answers'[f])
  <2>1. CASE q.call = "patch"
    <3>1. Assigned(q, f).answers = IF q.args.answers = None THEN q.args.normal[q.seen[f].answers]
                                   ELSE q.args.answers
      BY <2>1, AssignedByPatch
    <3>2. QED
      BY <1>5, <2>1, <3>1 DEF Rewrites
  <2>2. CASE q.call = "migrate"
    BY <1>5, <2>2, AssignedByMigrate
  <2>3. QED
    BY <1>7, <2>1, <2>2
<1>9. QED
  BY <1>3, <1>5, <1>7, <1>8

(* A commit takes the owner from no FIP. *)
LEMMA CommittedOwner ==
    ASSUME RInv, NEW r \in Requests, Commit(r), NEW f \in DOMAIN fips \cap DOMAIN fips',
           fips'[f].owner = None
    PROVE  fips[f].owner = None
<1> DEFINE q == requests[r]
<1>1. IsRequest(q) /\ fips' = FipsAfter(q)
  BY DEF RInv, Slots, Commit, Succeed
<1>2. CASE f \notin Changed(q)
  BY <1>1, <1>2 DEF FipsAfter
<1>3. CASE f \in Changed(q)
  <2>1. f \in DOMAIN q.seen /\ fips'[f] = WrittenRow(fips[f], q.seen[f].row, Assigned(q, f).row)
    BY <1>1, <1>3 DEF FipsAfter, Changed, Touched
  <2>2. fips[f] \in Fip /\ q.seen[f].row \in Fip /\ Assigned(q, f).row \in Fip
    BY <1>1, <2>1, AssignedRow DEF RInv, TypeOK, IsRequest
  <2>3. fips'[f].owner = Written(fips[f].owner, q.seen[f].row.owner, Assigned(q, f).row.owner)
    BY <2>1, <2>2, MergedRow
  <2>4. Assigned(q, f).row.owner # q.seen[f].row.owner => Assigned(q, f).row.owner # None
    BY <1>1, <2>1, AssignedRow, ConstantsAssumption DEF IsRequest
  <2>5. QED
    BY <2>3, <2>4 DEF Written
<1>4. QED
  BY <1>2, <1>3

(* The steps other than commits and account deletions leave the owner and   *)
(* the answers of every FIP they keep.                                      *)
LEMMA OtherSteps ==
    ASSUME RNext, \A r \in Requests : ~Commit(r), ~AccountDeletion,
           NEW f \in DOMAIN fips \cap DOMAIN fips'
    PROVE  answers'[f] = answers[f] /\ fips'[f] = fips[f]
<1>1. ASSUME NEW r \in Requests, NEW u, NEW g, NEW token, LoadFip(r, u, g, token)
      PROVE  UNCHANGED <<fips, answers>>
  BY <1>1 DEF LoadFip, Load
<1>2. ASSUME NEW r \in Requests, NEW u, NEW g, NEW s, NEW ref, NEW body, LoadCreate(r, u, g, s, ref, body)
      PROVE  UNCHANGED <<fips, answers>>
  BY <1>2 DEF LoadCreate
<1>3. ASSUME NEW r \in Requests, NEW u, NEW s, LoadSession(r, u, s) PROVE UNCHANGED <<fips, answers>>
  BY <1>3 DEF LoadSession, Load
<1>4. ASSUME NEW r \in Requests, NEW g, LoadBackfill(r, g) PROVE UNCHANGED <<fips, answers>>
  BY <1>4 DEF LoadBackfill, Load
<1>5. ASSUME NEW r \in Requests, Decide(r) \/ Rollback(r) PROVE UNCHANGED <<fips, answers>>
  BY <1>5 DEF Decide, Rollback
<1>6. SessionWrite \/ AccountWrite => UNCHANGED <<fips, answers>>
  BY DEF SessionWrite, CreateSession, PatchSession, AccountWrite, Register
<1>7. ASSUME NEW ids, NEW old, Purge(ids, old) PROVE answers'[f] = answers[f] /\ fips'[f] = fips[f]
  BY <1>7 DEF Purge, PurgeStandaloneFips, Drop
<1>8. QED
  BY <1>1, <1>2, <1>3, <1>4, <1>5, <1>6, <1>7 DEF RNext

(* Only a request that carries answers, or a migration, changes the answers *)
(* of a FIP, however long before it loaded the row; a PATCH without answers *)
(* only if it found evidence of an earlier version, which it rewrites.      *)
THEOREM RSpec_OnlyAnswersWriteAnswers == RSpec => OnlyAnswersWriteAnswers
<1>1. ASSUME RInv, RNext, NEW f \in DOMAIN fips \cap DOMAIN fips', answers'[f] # answers[f]
      PROVE  \E r \in InProgress :
                /\ Idle(r)' /\ f \in DOMAIN requests[r].seen
                /\ \/ /\ requests[r].call \in {"patch", "migrate"}
                      /\ requests[r].args.answers = answers'[f]
                   \/ Rewrites(requests[r], f, answers'[f])
  <2>1. CASE \E r \in Requests : Commit(r)
    <3>1. PICK r \in Requests : Commit(r)
      BY <2>1
    <3>2. r \in InProgress
      BY <3>1 DEF Commit, InProgress
    <3>3. Idle(r)'
      <4>1. requests' = [requests EXCEPT ![r] = None] /\ r \in DOMAIN requests
        BY <1>1, <3>1 DEF Commit, RInv, Slots
      <4>2. QED
        BY <4>1 DEF Idle
    <3>4. QED
      BY <1>1, <3>1, <3>2, <3>3, CommittedAnswers
  <2>2. CASE AccountDeletion
    BY <1>1, <2>2 DEF AccountDeletion
  <2>3. QED
    BY <1>1, <2>1, <2>2, OtherSteps
<1>2. RInv /\ [RNext]_rvars =>
        [\A f \in DOMAIN fips \cap DOMAIN fips' : answers'[f] # answers[f] =>
            \E r \in InProgress :
               /\ Idle(r)' /\ f \in DOMAIN requests[r].seen
               /\ \/ /\ requests[r].call \in {"patch", "migrate"}
                     /\ requests[r].args.answers = answers'[f]
                  \/ Rewrites(requests[r], f, answers'[f])]_rvars
  BY <1>1
<1>3. QED
  BY <1>2, RInvInit, RInvStep, PTL DEF RSpec, OnlyAnswersWriteAnswers

(* A claim is not undone by a request that loaded the FIP before it: the    *)
(* FIP loses its owner only with the owner's account.                       *)
THEOREM RSpec_ClaimNotUndone == RSpec => ClaimNotUndone
<1>1. ASSUME RInv, RNext, NEW f \in DOMAIN fips \cap DOMAIN fips',
             fips[f].owner # None, fips'[f].owner = None
      PROVE  fips[f].owner \notin accounts'
  <2>1. CASE \E r \in Requests : Commit(r)
    BY <1>1, <2>1, CommittedOwner
  <2>2. CASE AccountDeletion
    <3>1. PICK u \in accounts : DeleteMe(u)
      BY <2>2 DEF AccountDeletion
    <3>2. TypeOK
      BY <1>1 DEF RInv
    <3>3. fips[f].owner = u /\ accounts' = accounts \ {u}
      BY <1>1, <3>1, <3>2, DeletedAccount
    <3>4. QED
      BY <3>3
  <2>3. QED
    BY <1>1, <2>1, <2>2, OtherSteps
<1>2. RInv /\ [RNext]_rvars =>
        [\A f \in DOMAIN fips \cap DOMAIN fips' :
            fips[f].owner # None /\ fips'[f].owner = None => fips[f].owner \notin accounts']_rvars
  BY <1>1
<1>3. QED
  BY <1>2, RInvInit, RInvStep, PTL DEF RSpec, ClaimNotUndone

-----------------------------------------------------------------------------
(* Requests that do not overlap *)

(* What the handler of a request in progress has found out is still so. *)
Current(q) ==
    \A f \in DOMAIN q.seen :
        f \in DOMAIN fips /\ q.seen[f].row = fips[f] /\ q.seen[f].answers = answers[f]

Permitted(q) ==
    \A f \in DOMAIN q.seen : LET row == q.seen[f].row IN
        /\ q.call = "patch" => MayPatch(row, q.user, q.token, q.args.visibility)
        /\ q.call = "delete" => AuthorizedWrite(row, q.user, q.token)
        /\ q.call = "claim" => MayClaim(row, q.user, q.token)
        /\ q.call = "migrate" => MayMigrate(row, q.user, q.token, q.args.to)

Creates(q) ==
    \E f \in FipIds \ DOMAIN fips, s \in SessionIds \cup {None}, visibility \in Visibilities,
       ref \in DOMAIN kms :
        /\ DOMAIN q.seen = {f} /\ q.seen[f].row = NewFip(q.user, s, visibility, ref)
        /\ MayCreate(q.user, s, visibility, ref)

DeletesSession(q) ==
    /\ q.args \in SessionIds /\ q.user \in accounts /\ OwnedSession(q.args, q.user)
    /\ DOMAIN q.seen = {f \in DOMAIN fips : fips[f].session = q.args}

UpToDate(q) ==
    /\ q.user \in accounts \cup {None} /\ q.token \in BOOLEAN
    /\ q.step = "decided" => Permitted(q)
    /\ q.call # "create" => Current(q)
    /\ q.call = "create" => Creates(q)
    /\ q.call = "delete_session" => DeletesSession(q)
    /\ q.call \in {"patch", "delete", "claim", "migrate"} => \E f \in FipIds : DOMAIN q.seen = {f}

(* The inductive invariant of requests that do not overlap. *)
SInv ==
    /\ RInv
    /\ \A i, j \in Requests : ~Idle(i) /\ ~Idle(j) => i = j
    /\ \A r \in Requests : ~Idle(r) => UpToDate(requests[r])
    /\ fips = [f \in DOMAIN fips |-> fips[f]] /\ DOMAIN fips \subseteq used
    /\ ProjectionExact

LEMMA SInvInit == RInit => SInv
<1>1. RInit => RInv
  BY RInvInit
<1>2. RInit => \A r \in Requests : Idle(r)
  BY DEF RInit, Idle
<1>3. RInit => /\ fips = [f \in DOMAIN fips |-> fips[f]] /\ DOMAIN fips \subseteq used
               /\ ProjectionExact
  BY InitialFipsAssumption DEF RInit, Init, ProjectionExact
<1>4. QED
  BY <1>1, <1>2, <1>3 DEF SInv, ProjectionExact

LEMMA AllowedPermits ==
    ASSUME NEW q, Allowed(q) PROVE Permitted(q)
<1> SUFFICES ASSUME NEW f \in DOMAIN q.seen
             PROVE  /\ q.call = "patch" => MayPatch(q.seen[f].row, q.user, q.token, q.args.visibility)
                    /\ q.call = "delete" => AuthorizedWrite(q.seen[f].row, q.user, q.token)
                    /\ q.call = "claim" => MayClaim(q.seen[f].row, q.user, q.token)
                    /\ q.call = "migrate" => MayMigrate(q.seen[f].row, q.user, q.token, q.args.to)
  BY DEF Permitted
<1>1. q.call = "patch" => MayPatch(q.seen[f].row, q.user, q.token, q.args.visibility)
  BY Zenon DEF Allowed
<1>2. q.call = "delete" => AuthorizedWrite(q.seen[f].row, q.user, q.token)
  BY Zenon DEF Allowed
<1>3. q.call = "claim" => MayClaim(q.seen[f].row, q.user, q.token)
  BY Zenon DEF Allowed
<1>4. q.call = "migrate" => MayMigrate(q.seen[f].row, q.user, q.token, q.args.to)
  BY Zenon DEF Allowed
<1>5. QED
  BY <1>1, <1>2, <1>3, <1>4

(* The guards read sessions and questionnaires, and the row they are given. *)
LEMMA GuardsKept ==
    ASSUME NEW row, NEW u, NEW token, NEW x, UNCHANGED <<accounts, kms, sessions, fips>>
    PROVE  /\ AuthorizedWrite(row, u, token) => AuthorizedWrite(row, u, token)'
           /\ MayPatch(row, u, token, x) => MayPatch(row, u, token, x)'
           /\ MayClaim(row, u, token) => MayClaim(row, u, token)'
           /\ MayMigrate(row, u, token, x) => MayMigrate(row, u, token, x)'
<1>1. AuthorizedWrite(row, u, token) => AuthorizedWrite(row, u, token)'
  BY DEF AuthorizedWrite, SessionOwnerHasAccess, InClosedSession
<1>2. MayPatch(row, u, token, x) => MayPatch(row, u, token, x)'
  BY <1>1 DEF MayPatch
<1>3. MayClaim(row, u, token) => MayClaim(row, u, token)'
  BY DEF MayClaim, InClosedSession
<1>4. MayMigrate(row, u, token, x) => MayMigrate(row, u, token, x)'
  BY <1>1 DEF MayMigrate, Primary, ReadablePublishedKm
<1>5. QED
  BY <1>1, <1>2, <1>3, <1>4

LEMMA UpToDateKept ==
    ASSUME NEW q, UpToDate(q), UNCHANGED <<accounts, kms, sessions, fips, answers>>
    PROVE  UpToDate(q)'
<1>1. Permitted(q) => Permitted(q)'
  BY GuardsKept DEF Permitted
<1>2. Creates(q) => Creates(q)'
  BY DEF Creates, MayCreate, Joinable, ReadablePublishedKm
<1>3. DeletesSession(q) => DeletesSession(q)'
  BY DEF DeletesSession, OwnedSession
<1>4. Current(q) => Current(q)'
  BY DEF Current
<1>5. QED
  BY <1>1, <1>2, <1>3, <1>4 DEF UpToDate

(* A request is loaded into a server that is doing nothing else. *)
LEMMA LoadedAlone ==
    ASSUME SInv, NEW r \in Requests, NEW q, InProgress = {}, RInv',
           requests' = [requests EXCEPT ![r] = q], UpToDate(q),
           UNCHANGED <<accounts, kms, sessions, fips, answers, facets, used>>
    PROVE  SInv'
<1>1. \A i \in Requests : Idle(i)' \/ (i = r /\ requests'[i] = q)
  BY DEF InProgress, Idle, SInv, RInv, Slots
<1>2. UpToDate(q)'
  BY UpToDateKept
<1>3. \A i \in Requests : (~Idle(i) => UpToDate(requests[i]))'
  BY <1>1, <1>2 DEF UpToDate, Current, Creates, DeletesSession
<1>4. QED
  BY <1>1, <1>3 DEF SInv, ProjectionExact

(* A write that is a request of its own. *)
LEMMA WrittenAlone ==
    ASSUME SInv, InProgress = {}, RInv', requests' = requests,
           fips' = [f \in DOMAIN fips' |-> fips'[f]], DOMAIN fips' \subseteq used', ProjectionExact'
    PROVE  SInv'
  BY DEF SInv, InProgress, Idle

(* A merge into the row that was read is the row the handler assigned. *)
LEMMA MergeIntoRead ==
    ASSUME NEW old \in Fip, NEW new \in Fip PROVE WrittenRow(old, old, new) = new
<1>1. DOMAIN old = DOMAIN new /\ new = [c \in DOMAIN new |-> new[c]]
  BY DEF Fip
<1>2. \A c \in DOMAIN old : Written(old[c], old[c], new[c]) = new[c]
  BY DEF Written
<1>3. QED
  BY <1>1, <1>2 DEF WrittenRow

(* A commit that no other request overlaps leaves in every FIP it touched   *)
(* what the handler assigned, and projects that.                            *)
LEMMA SerialCommit ==
    ASSUME SInv, NEW r \in Requests, Commit(r), NEW q, q = requests[r]
    PROVE  /\ DOMAIN fips' = (DOMAIN fips \cup (IF q.call = "create" THEN DOMAIN q.seen ELSE {}))
                              \ Deleted(q)
           /\ \A f \in DOMAIN fips' :
                 IF f \in Touched(q)
                 THEN /\ fips'[f] = Assigned(q, f).row /\ answers'[f] = Assigned(q, f).answers
                      /\ f \in DOMAIN facets' /\ facets'[f].ref = Assigned(q, f).row.ref
                      /\ facets'[f].answers = Assigned(q, f).answers
                 ELSE /\ f \in DOMAIN fips /\ fips'[f] = fips[f] /\ answers'[f] = answers[f]
                      /\ f \in DOMAIN facets /\ f \in DOMAIN facets' /\ facets'[f] = facets[f]
<1>1. /\ IsRequest(q) /\ UpToDate(q) /\ Succeed(q)
      /\ q.call # "create" => Changed(q) \subseteq DOMAIN fips
  BY DEF SInv, RInv, Slots, Commit, Flushes
<1>2. fips' = FipsAfter(q) /\ facets' = FacetsAfter(q)
  BY <1>1 DEF Succeed
<1>3. q.call = "create" => Changed(q) = DOMAIN q.seen /\ Deleted(q) = {}
                           /\ \A f \in DOMAIN q.seen : f \notin DOMAIN fips
  <2> HAVE q.call = "create"
  <2>1. Deleted(q) = {}
    BY DeletedByOthers
  <2>2. \A f \in DOMAIN q.seen : f \notin DOMAIN fips
    BY <1>1 DEF UpToDate, Creates
  <2>3. QED
    BY <2>1, <2>2 DEF Changed, Touched
<1>4. DOMAIN fips' = (DOMAIN fips \cup (IF q.call = "create" THEN DOMAIN q.seen ELSE {})) \ Deleted(q)
  BY <1>1, <1>2, <1>3 DEF FipsAfter
<1>5. ASSUME NEW f \in DOMAIN fips', f \in Touched(q)
      PROVE  fips'[f] = Assigned(q, f).row /\ answers'[f] = Assigned(q, f).answers
  <2>1. f \in DOMAIN q.seen
    BY <1>5 DEF Touched
  <2>2. CASE q.call = "create"
    <3>1. f \in Changed(q) /\ f \notin DOMAIN fips
      BY <1>3, <2>1, <2>2
    <3>2. QED
      BY <1>1, <1>2, <1>5, <3>1 DEF Succeed, FipsAfter
  <2>3. CASE q.call # "create"
    <3>1. f \in DOMAIN fips /\ q.seen[f].row = fips[f] /\ q.seen[f].answers = answers[f]
      BY <1>1, <2>1, <2>3 DEF UpToDate, Current
    <3>2. fips[f] \in Fip /\ Assigned(q, f).row \in Fip
      BY <1>1, <2>1, <3>1, AssignedRow DEF SInv, RInv, TypeOK
    <3>3. CASE f \in Changed(q)
      <4>1. fips'[f] = WrittenRow(fips[f], fips[f], Assigned(q, f).row)
        BY <1>2, <1>5, <3>1, <3>3 DEF FipsAfter
      <4>2. answers'[f] = Written(answers[f], answers[f], Assigned(q, f).answers)
        BY <1>1, <1>5, <3>1, <3>3 DEF Succeed
      <4>3. QED
        BY <3>2, <4>1, <4>2, MergeIntoRead DEF Written
    <3>4. CASE f \notin Changed(q)
      <4>1. Assigned(q, f).row = fips[f] /\ Assigned(q, f).answers = answers[f]
        BY <1>5, <3>1, <3>4 DEF Changed
      <4>2. fips'[f] = fips[f] /\ answers'[f] = answers[f]
        BY <1>1, <1>2, <1>5, <3>4 DEF Succeed, FipsAfter
      <4>3. QED
        BY <4>1, <4>2
    <3>5. QED
      BY <3>3, <3>4
  <2>4. QED
    BY <2>2, <2>3
<1>6. ASSUME NEW f \in DOMAIN fips', f \in Touched(q)
      PROVE  /\ f \in DOMAIN facets' /\ facets'[f].ref = Assigned(q, f).row.ref
             /\ facets'[f].answers = Assigned(q, f).answers
  BY <1>2, <1>6 DEF FacetsAfter, Projected, Projection
<1>7. ASSUME NEW f \in DOMAIN fips', f \notin Touched(q)
      PROVE  /\ f \in DOMAIN fips /\ fips'[f] = fips[f] /\ answers'[f] = answers[f]
             /\ f \in DOMAIN facets /\ f \in DOMAIN facets' /\ facets'[f] = facets[f]
  <2>1. f \notin Changed(q) /\ f \notin Deleted(q) /\ f \in DOMAIN fips
    BY <1>2, <1>7 DEF Changed, FipsAfter
  <2>2. fips'[f] = fips[f] /\ answers'[f] = answers[f]
    BY <1>1, <1>2, <1>7, <2>1 DEF Succeed, FipsAfter
  <2>3. f \in DOMAIN facets
    BY <2>1 DEF SInv, ProjectionExact
  <2>4. QED
    BY <1>2, <1>7, <2>1, <2>2, <2>3 DEF FacetsAfter, Projected
<1>8. QED
  BY <1>4, <1>5, <1>6, <1>7

LEMMA CommitKeepsSInv ==
    ASSUME SInv, NEW r \in Requests, Commit(r) PROVE SInv'
<1> SUFFICES ASSUME NEW q, q = requests[r] PROVE SInv'
  OBVIOUS
<1>1. RInv'
  BY CommitKeepsRInv DEF SInv
<1>2. \A i \in Requests : Idle(i)'
  BY DEF SInv, RInv, Slots, Commit, Idle
<1>3. fips' = [f \in DOMAIN fips' |-> fips'[f]] /\ DOMAIN fips' \subseteq used'
  BY DEF Commit, Succeed, FipsAfter
<1>4. ProjectionExact'
  <2>1. \A f \in DOMAIN fips \cap DOMAIN facets : f \in DOMAIN fips =>
            facets[f].ref = fips[f].ref /\ facets[f].answers = answers[f]
    BY DEF SInv, ProjectionExact
  <2>2. ASSUME NEW f \in DOMAIN fips'
        PROVE  f \in DOMAIN facets' /\ facets'[f].ref = fips'[f].ref /\ facets'[f].answers = answers'[f]
    <3>1. CASE f \in Touched(q)
      BY <2>2, <3>1, SerialCommit
    <3>2. CASE f \notin Touched(q)
      <4>1. /\ f \in DOMAIN fips /\ fips'[f] = fips[f] /\ answers'[f] = answers[f]
            /\ f \in DOMAIN facets /\ f \in DOMAIN facets' /\ facets'[f] = facets[f]
        BY <2>2, <3>2, SerialCommit
      <4>2. QED
        BY <2>1, <4>1
    <3>3. QED
      BY <3>1, <3>2
  <2>3. QED
    BY <2>2 DEF ProjectionExact
<1>5. QED
  BY <1>1, <1>2, <1>3, <1>4 DEF SInv

LEMMA LoadKeepsSInv ==
    ASSUME ~Overlap, SInv, RInv', NEW r \in Requests, NEW call \in Calls \ {"create"},
           NEW u \in accounts \cup {None}, NEW token \in BOOLEAN, NEW ids \in SUBSET DOMAIN fips,
           NEW args, Load(r, call, u, token, ids, args),
           call = "delete_session" =>
               /\ args \in SessionIds /\ u \in accounts /\ OwnedSession(args, u)
               /\ ids = {f \in DOMAIN fips : fips[f].session = args},
           call \in {"patch", "delete", "claim", "migrate"} => \E f \in FipIds : ids = {f}
    PROVE  SInv'
<1>1. PICK q : q = [step |-> "loaded", call |-> call, user |-> u, token |-> token,
                    seen |-> Loaded(ids), args |-> args]
  OBVIOUS
<1>2. /\ requests' = [requests EXCEPT ![r] = q] /\ InProgress = {}
      /\ UNCHANGED <<accounts, kms, sessions, fips, answers, facets, used>>
  BY <1>1 DEF Load, MayStart
<1>3. /\ q.step = "loaded" /\ q.call = call /\ q.user = u /\ q.token = token /\ q.args = args
      /\ q.seen = [f \in ids |-> [row |-> fips[f], answers |-> answers[f], updated |-> updated[f]]]
  BY <1>1 DEF Loaded
<1>4. Current(q)
  BY <1>3 DEF Current
<1>5. DeletesSession(q) \/ q.call # "delete_session"
  BY <1>3 DEF DeletesSession
<1>6. q.call \in {"patch", "delete", "claim", "migrate"} => \E f \in FipIds : DOMAIN q.seen = {f}
  BY <1>3
<1>7. UpToDate(q)
  BY <1>3, <1>4, <1>5, <1>6 DEF UpToDate
<1>8. QED
  BY <1>2, <1>7, LoadedAlone

LEMMA LoadFipKeepsSInv ==
    ASSUME ~Overlap, SInv, RInv', NEW r \in Requests, NEW u \in accounts \cup {None},
           NEW f \in FipIds, NEW token \in BOOLEAN, LoadFip(r, u, f, token)
    PROVE  SInv'
<1>1. {f} \in SUBSET DOMAIN fips /\ {"patch", "delete", "claim", "migrate"} \subseteq Calls \ {"create"}
  BY DEF LoadFip, Calls
<1>2. \E call \in {"patch", "delete", "claim", "migrate"} : \E args :
          Load(r, call, u, token, {f}, args)
  <2>1. ASSUME NEW body \in PatchBodies, Load(r, "patch", u, token, {f}, body)
        PROVE  \E call \in {"patch", "delete", "claim", "migrate"} : \E args :
                   Load(r, call, u, token, {f}, args)
    BY <2>1
  <2>2. ASSUME NEW to, NEW result, Load(r, "migrate", u, token, {f}, [to |-> to, answers |-> result])
        PROVE  \E call \in {"patch", "delete", "claim", "migrate"} : \E args :
                   Load(r, call, u, token, {f}, args)
    BY <2>2
  <2>3. QED
    BY <2>1, <2>2 DEF LoadFip
<1>3. PICK call \in {"patch", "delete", "claim", "migrate"} : \E args :
          Load(r, call, u, token, {f}, args)
  BY <1>2
<1>4. PICK args : Load(r, call, u, token, {f}, args)
  BY <1>3
<1>5. \E g \in FipIds : {f} = {g}
  OBVIOUS
<1>6. QED
  BY <1>1, <1>4, <1>5, LoadKeepsSInv

LEMMA LoadSessionKeepsSInv ==
    ASSUME ~Overlap, SInv, RInv', NEW r \in Requests, NEW u \in accounts, NEW s \in SessionIds,
           LoadSession(r, u, s)
    PROVE  SInv'
<1> DEFINE ids == {f \in DOMAIN fips : fips[f].session = s}
<1>1. Load(r, "delete_session", u, FALSE, ids, s) /\ OwnedSession(s, u)
  BY DEF LoadSession
<1>2. ids \in SUBSET DOMAIN fips /\ "delete_session" \in Calls \ {"create"}
  BY DEF Calls
<1>3. QED
  BY <1>1, <1>2, LoadKeepsSInv

LEMMA LoadBackfillKeepsSInv ==
    ASSUME ~Overlap, SInv, RInv', NEW r \in Requests, NEW f \in FipIds, LoadBackfill(r, f)
    PROVE  SInv'
<1>1. {f} \in SUBSET DOMAIN fips /\ Load(r, "backfill", None, FALSE, {f}, None)
  BY DEF LoadBackfill
<1>2. "backfill" \in Calls \ {"create"}
  BY DEF Calls
<1>3. QED
  BY <1>1, <1>2, LoadKeepsSInv

LEMMA LoadCreateKeepsSInv ==
    ASSUME ~Overlap, SInv, RInv', NEW r \in Requests, NEW u \in accounts \cup {None},
           NEW f \in FipIds, NEW s \in SessionIds \cup {None}, NEW ref \in DOMAIN kms,
           NEW body \in FirstBodies, LoadCreate(r, u, f, s, ref, body)
    PROVE  SInv'
<1> DEFINE row == NewFip(u, s, body.visibility, ref)
<1>1. PICK q : q = [step |-> "decided", call |-> "create", user |-> u, token |-> FALSE,
                    seen |-> [g \in {f} |-> [row |-> row, answers |-> body.answers, updated |-> 0]],
                    args |-> None]
  OBVIOUS
<1>2. /\ requests' = [requests EXCEPT ![r] = q] /\ InProgress = {}
      /\ UNCHANGED <<accounts, kms, sessions, fips, answers, facets, used>>
      /\ f \notin DOMAIN fips /\ MayCreate(u, s, body.visibility, ref)
  BY <1>1 DEF LoadCreate, MayStart, SInv
<1>3. body.visibility \in Visibilities
  BY RequestsAssumption
<1> HIDE DEF row
<1>4. /\ q.step = "decided" /\ q.call = "create" /\ q.user = u /\ q.token = FALSE
      /\ DOMAIN q.seen = {f} /\ q.seen[f].row = row
  BY <1>1
<1>5. Creates(q)
  BY <1>2, <1>3, <1>4 DEF Creates, row
<1>6. Permitted(q)
  BY <1>4 DEF Permitted
<1>7. UpToDate(q)
  BY <1>4, <1>5, <1>6 DEF UpToDate
<1>8. QED
  BY <1>2, <1>7, LoadedAlone

LEMMA DecideKeepsSInv ==
    ASSUME SInv, RInv', NEW r \in Requests, Decide(r) PROVE SInv'
<1>1. PICK old : old = requests[r]
  OBVIOUS
<1>2. PICK q : q = IF Allowed(old) THEN [old EXCEPT !.step = "decided"] ELSE None
  OBVIOUS
<1>3. /\ requests' = [requests EXCEPT ![r] = q] /\ ~Idle(r) /\ IsRequest(old) /\ UpToDate(old)
      /\ UNCHANGED <<accounts, kms, sessions, fips, answers, facets, used>>
  BY <1>1, <1>2 DEF Decide, SInv, RInv, Slots
<1>4. \A i \in Requests : Idle(i)' \/ (i = r /\ requests'[i] = q /\ q # None)
  BY <1>3 DEF SInv, RInv, Slots, Idle
<1>5. ASSUME q # None PROVE UpToDate(q)'
  <2>1. Allowed(old) /\ q = [old EXCEPT !.step = "decided"]
    BY <1>2, <1>5
  <2>2. /\ q.call = old.call /\ q.user = old.user /\ q.token = old.token
        /\ q.seen = old.seen /\ q.args = old.args
    BY <1>3, <2>1 DEF IsRequest
  <2>3. Permitted(old)
    BY <2>1, AllowedPermits
  <2>4. Permitted(q)
    BY <2>2, <2>3 DEF Permitted
  <2>5. UpToDate(q)
    BY <1>3, <2>2, <2>4 DEF UpToDate, Current, Creates, DeletesSession
  <2>6. QED
    BY <1>3, <2>5, UpToDateKept
<1>6. \A i \in Requests : (~Idle(i) => UpToDate(requests[i]))'
  BY <1>4, <1>5 DEF UpToDate, Current, Creates, DeletesSession
<1>7. QED
  BY <1>3, <1>4, <1>6 DEF SInv, ProjectionExact

LEMMA RollbackKeepsSInv ==
    ASSUME SInv, RInv', NEW r \in Requests, Rollback(r) PROVE SInv'
<1>1. /\ requests' = [requests EXCEPT ![r] = None]
      /\ UNCHANGED <<accounts, kms, sessions, fips, answers, facets, used>>
      /\ ~Idle(r)
  BY DEF Rollback
<1>2. \A i \in Requests : Idle(i)'
  BY <1>1 DEF SInv, RInv, Slots, Idle
<1>3. QED
  BY <1>1, <1>2 DEF SInv, ProjectionExact

LEMMA SingleWritesKeepSInv ==
    ASSUME ~Overlap, SInv, RInv', SessionWrite \/ AccountWrite PROVE SInv'
<1>1. InProgress = {} /\ UNCHANGED <<fips, answers, facets, requests, used>>
  BY DEF SessionWrite, AccountWrite, MayRunAtOnce, CreateSession, PatchSession, Register
<1>2. /\ ProjectionExact' /\ DOMAIN fips' \subseteq used'
      /\ fips' = [f \in DOMAIN fips' |-> fips'[f]]
  BY <1>1 DEF SInv, ProjectionExact
<1>3. QED
  BY <1>1, <1>2, WrittenAlone

LEMMA AccountDeletionKeepsSInv ==
    ASSUME ~Overlap, SInv, RInv', AccountDeletion PROVE SInv'
<1>1. PICK u \in accounts : DeleteMe(u)
  BY DEF AccountDeletion
<1>2. InProgress = {} /\ UNCHANGED <<facets, requests, used>>
      /\ answers' = [f \in DOMAIN fips' |-> answers[f]]
  BY DEF AccountDeletion, MayRunAtOnce
<1>3. TypeOK
  BY DEF SInv, RInv
<1>4. DOMAIN fips' \subseteq DOMAIN fips /\ \A f \in DOMAIN fips' : fips'[f].ref = fips[f].ref
  BY <1>1, <1>3, DeletedAccount
<1>5. ProjectionExact' /\ DOMAIN fips' \subseteq used'
  BY <1>2, <1>4 DEF SInv, ProjectionExact
<1>6. fips' = [f \in DOMAIN fips' |-> fips'[f]]
  BY <1>1 DEF DeleteMe
<1>7. QED
  BY <1>2, <1>5, <1>6, WrittenAlone

LEMMA PurgeKeepsSInv ==
    ASSUME ~Overlap, SInv, RInv', NEW ids \in SUBSET DOMAIN fips, NEW old \in SUBSET ids,
           Purge(ids, old)
    PROVE  SInv'
<1>1. /\ InProgress = {} /\ UNCHANGED <<requests, used>>
      /\ fips' = Drop(fips, old) /\ facets' = Drop(facets, old)
      /\ answers' = [f \in DOMAIN fips' |-> answers[f]]
  BY DEF Purge, PurgeStandaloneFips, MayRunAtOnce
<1>2. /\ ProjectionExact' /\ DOMAIN fips' \subseteq used'
      /\ fips' = [f \in DOMAIN fips' |-> fips'[f]]
  BY <1>1 DEF SInv, ProjectionExact, Drop
<1>3. QED
  BY <1>1, <1>2, WrittenAlone

LEMMA SInvStep ==
    ASSUME ~Overlap PROVE SInv /\ [RNext]_rvars => SInv'
<1> SUFFICES ASSUME SInv, [RNext]_rvars PROVE SInv'
  OBVIOUS
<1>1. RInv'
  BY RInvStep DEF SInv
<1>2. ASSUME NEW r \in Requests, NEW u \in accounts \cup {None}, NEW f \in FipIds,
             \/ \E token \in BOOLEAN : LoadFip(r, u, f, token)
             \/ \E s \in SessionIds \cup {None}, ref \in DOMAIN kms, body \in FirstBodies :
                   LoadCreate(r, u, f, s, ref, body)
      PROVE  SInv'
  BY <1>1, <1>2, LoadFipKeepsSInv, LoadCreateKeepsSInv
<1>3. ASSUME NEW r \in Requests, NEW u \in accounts, NEW s \in SessionIds, LoadSession(r, u, s)
      PROVE  SInv'
  BY <1>1, <1>3, LoadSessionKeepsSInv
<1>4. ASSUME NEW r \in Requests, NEW f \in FipIds, LoadBackfill(r, f) PROVE SInv'
  BY <1>1, <1>4, LoadBackfillKeepsSInv
<1>5. ASSUME NEW r \in Requests, Decide(r) \/ Commit(r) \/ Rollback(r) PROVE SInv'
  BY <1>1, <1>5, DecideKeepsSInv, CommitKeepsSInv, RollbackKeepsSInv
<1>6. ASSUME NEW ids \in SUBSET DOMAIN fips, NEW old \in SUBSET ids, Purge(ids, old) PROVE SInv'
  BY <1>1, <1>6, PurgeKeepsSInv
<1>7. ASSUME UNCHANGED rvars PROVE SInv'
  <2>1. \A i \in Requests : Idle(i)' <=> Idle(i)
    BY <1>7 DEF rvars, Idle
  <2>2. \A i \in Requests : UpToDate(requests[i]) => UpToDate(requests[i])'
    <3>1. ASSUME NEW i \in Requests, UpToDate(requests[i]) PROVE UpToDate(requests[i])'
      <4>1. PICK q : q = requests[i]
        OBVIOUS
      <4>2. UpToDate(q)'
        BY <1>7, <3>1, <4>1, UpToDateKept DEF rvars
      <4>3. QED
        BY <1>7, <4>1, <4>2 DEF rvars
    <3>2. QED
      BY <3>1
  <2>3. QED
    BY <1>1, <1>7, <2>1, <2>2 DEF rvars, SInv, ProjectionExact
<1>8. QED
  BY <1>1, <1>2, <1>3, <1>4, <1>5, <1>6, <1>7, SingleWritesKeepSInv, AccountDeletionKeepsSInv
     DEF RNext

(* Without overlap, what the dashboard shows of every FIP was computed from *)
(* its answers and its questionnaire: no write path escapes the hook.       *)
THEOREM RSpec_ProjectionExact ==
    ASSUME ~Overlap PROVE RSpec => []ProjectionExact
<1>1. SInv => ProjectionExact
  BY DEF SInv
<1>2. QED
  BY <1>1, SInvInit, SInvStep, PTL DEF RSpec

-----------------------------------------------------------------------------
(* Requests that do not overlap are those of FipLifecycle *)

LEMMA CommitOfOneFip ==
    ASSUME SInv, NEW r \in Requests, Commit(r), NEW q, q = requests[r],
           q.call \in {"patch", "claim", "migrate"}
    PROVE  \E f \in FipIds : /\ f \in DOMAIN q.seen /\ f \in DOMAIN fips /\ q.seen[f].row = fips[f]
                             /\ fips' = [fips EXCEPT ![f] = Assigned(q, f).row]
<1>1. UpToDate(q) /\ IsRequest(q)
  BY DEF SInv, RInv, Slots, Commit
<1>2. PICK f \in FipIds : DOMAIN q.seen = {f}
  BY <1>1 DEF UpToDate
<1>3. f \in DOMAIN fips /\ q.seen[f].row = fips[f]
  BY <1>1, <1>2 DEF UpToDate, Current
<1>4. Deleted(q) = {} /\ Touched(q) = {f}
  BY <1>2, DeletedByOthers DEF Touched
<1>5. DOMAIN fips' = DOMAIN fips
  BY <1>4, SerialCommit
<1>6. fips'[f] = Assigned(q, f).row
  BY <1>3, <1>4, <1>5, SerialCommit
<1>7. \A g \in DOMAIN fips \ {f} : fips'[g] = fips[g]
  BY <1>4, <1>5, SerialCommit
<1>8. fips' = [g \in DOMAIN fips' |-> fips'[g]]
  BY CommitKeepsSInv DEF SInv
<1>9. QED
  BY <1>2, <1>3, <1>5, <1>6, <1>7, <1>8

(* The commit of a request is its action of FipLifecycle, or changes nothing. *)
LEMMA CommitRefines ==
    ASSUME SInv, NEW r \in Requests, Commit(r) PROVE [Next]_vars
<1> SUFFICES ASSUME NEW q, q = requests[r] PROVE [Next]_vars
  OBVIOUS
<1>1. /\ UpToDate(q) /\ IsRequest(q) /\ Permitted(q)
      /\ UNCHANGED <<accounts, kms>> /\ sessions' = SessionsAfter(q)
  BY DEF SInv, RInv, Slots, Commit, UpToDate, Succeed
<1>2. q.user \in accounts \cup {None} /\ q.token \in BOOLEAN
  BY <1>1 DEF UpToDate
<1>3. q.call # "delete_session" => UNCHANGED sessions
  BY <1>1 DEF SessionsAfter
<1>4. \A f \in DOMAIN fips : fips[f] \in Fip
  BY DEF SInv, RInv, TypeOK
<1>5. fips = [f \in DOMAIN fips |-> fips[f]] /\ fips' = [f \in DOMAIN fips' |-> fips'[f]]
  BY CommitKeepsSInv DEF SInv
<1>6. CASE q.call = "patch"
  <2>1. PICK f \in FipIds : /\ f \in DOMAIN q.seen /\ f \in DOMAIN fips /\ q.seen[f].row = fips[f]
                            /\ fips' = [fips EXCEPT ![f] = Assigned(q, f).row]
    BY <1>6, CommitOfOneFip
  <2>2. Assigned(q, f).row = IF q.args.visibility = None THEN fips[f]
                             ELSE [fips[f] EXCEPT !.visibility = q.args.visibility]
    BY <1>6, <2>1, AssignedByPatch
  <2>3. CASE q.args.visibility = None
    <3>1. fips' = fips
      BY <1>5, <2>1, <2>2, <2>3
    <3>2. QED
      BY <1>1, <1>3, <1>6, <3>1 DEF vars
  <2>4. CASE q.args.visibility # None
    <3>1. fips' = [fips EXCEPT ![f].visibility = q.args.visibility]
      BY <2>1, <2>2, <2>4
    <3>2. MayPatch(fips[f], q.user, q.token, q.args.visibility)
      BY <1>1, <1>6, <2>1 DEF Permitted
    <3>3. PatchFip(q.user, f, q.token, q.args.visibility)
      BY <1>1, <1>3, <1>6, <2>1, <3>1, <3>2 DEF PatchFip
    <3>4. q.args.visibility \in Visibilities
      BY <1>1, <1>6, <2>4 DEF IsRequest
    <3>5. QED
      BY <1>2, <3>3, <3>4 DEF Next, FipRequest
  <2>5. QED
    BY <2>3, <2>4
<1>7. CASE q.call = "claim"
  <2>1. PICK f \in FipIds : /\ f \in DOMAIN q.seen /\ f \in DOMAIN fips /\ q.seen[f].row = fips[f]
                            /\ fips' = [fips EXCEPT ![f] = Assigned(q, f).row]
    BY <1>7, CommitOfOneFip
  <2>2. Assigned(q, f).row = ClaimedBy(fips[f], q.user)
    BY <1>7, <2>1, AssignedByClaim
  <2>3. MayClaim(fips[f], q.user, q.token)
    BY <1>1, <1>7, <2>1 DEF Permitted
  <2>4. ClaimFip(q.user, f, q.token)
    BY <1>1, <1>3, <1>7, <2>1, <2>2, <2>3 DEF ClaimFip
  <2>5. QED
    BY <1>2, <2>4 DEF Next, FipRequest
<1>8. CASE q.call = "migrate"
  <2>1. PICK f \in FipIds : /\ f \in DOMAIN q.seen /\ f \in DOMAIN fips /\ q.seen[f].row = fips[f]
                            /\ fips' = [fips EXCEPT ![f] = Assigned(q, f).row]
    BY <1>8, CommitOfOneFip
  <2>2. Assigned(q, f).row = Migrated(fips[f], q.args.to)
    BY <1>8, <2>1, AssignedByMigrate
  <2>3. MayMigrate(fips[f], q.user, q.token, q.args.to) /\ q.args.to \in Versions
    BY <1>1, <1>8, <2>1 DEF Permitted, IsRequest
  <2>4. MigrateFip(q.user, f, q.token, q.args.to)
    BY <1>1, <1>3, <1>8, <2>1, <2>2, <2>3 DEF MigrateFip
  <2>5. QED
    BY <1>2, <2>3, <2>4 DEF Next, FipRequest
<1>9. CASE q.call = "delete"
  <2>1. PICK f \in FipIds : DOMAIN q.seen = {f}
    BY <1>1, <1>9 DEF UpToDate
  <2>2. f \in DOMAIN fips /\ q.seen[f].row = fips[f]
    BY <1>1, <1>9, <2>1 DEF UpToDate, Current
  <2>3. Deleted(q) = {f} /\ Touched(q) = {}
    BY <1>9, <2>1, DeletedByDelete DEF Touched
  <2>4. DOMAIN fips' = DOMAIN fips \ {f}
    BY <1>9, <2>3, SerialCommit
  <2>5. \A g \in DOMAIN fips' : fips'[g] = fips[g]
    BY <2>3, SerialCommit
  <2>6. fips' = Drop(fips, {f})
    BY <1>5, <2>4, <2>5 DEF Drop
  <2>7. AuthorizedWrite(fips[f], q.user, q.token)
    BY <1>1, <1>9, <2>1, <2>2 DEF Permitted
  <2>8. DeleteFip(q.user, f, q.token)
    BY <1>1, <1>3, <1>9, <2>2, <2>6, <2>7 DEF DeleteFip
  <2>9. QED
    BY <1>2, <2>8 DEF Next, FipRequest
<1>10. CASE q.call = "delete_session"
  <2> DEFINE orphans == {f \in DOMAIN fips : fips[f].session = q.args /\ fips[f].owner = None}
  <2>1. DeletesSession(q) /\ Current(q)
    BY <1>1, <1>10 DEF UpToDate
  <2>2. Deleted(q) = orphans
    BY <1>10, <2>1, DeletedByDeleteSession DEF DeletesSession, Current
  <2>3. Touched(q) = {f \in DOMAIN fips : fips[f].session = q.args} \ orphans
    BY <2>1, <2>2 DEF Touched, DeletesSession
  <2>4. DOMAIN fips' = DOMAIN fips \ orphans
    BY <1>10, <2>2, SerialCommit
  <2>5. ASSUME NEW f \in DOMAIN fips'
        PROVE  fips'[f] = IF fips[f].session = q.args THEN [fips[f] EXCEPT !.session = None]
                          ELSE fips[f]
    <3>1. CASE f \in Touched(q)
      <4>1. fips'[f] = Assigned(q, f).row
        BY <2>5, <3>1, SerialCommit
      <4>2. Assigned(q, f).row = [fips[f] EXCEPT !.session = None]
        BY <1>10, <2>1, <3>1, AssignedByDeleteSession DEF Touched, Current
      <4>3. QED
        BY <2>3, <3>1, <4>1, <4>2
    <3>2. CASE f \notin Touched(q)
      <4>1. fips'[f] = fips[f]
        BY <2>5, <3>2, SerialCommit
      <4>2. QED
        BY <2>3, <2>4, <2>5, <3>2, <4>1
    <3>3. QED
      BY <3>1, <3>2
  <2>6. fips' = [f \in DOMAIN fips \ orphans |->
                    IF fips[f].session = q.args THEN [fips[f] EXCEPT !.session = None] ELSE fips[f]]
    BY <1>5, <2>4, <2>5
  <2>7. sessions' = Drop(sessions, {q.args})
    BY <1>1, <1>10 DEF SessionsAfter
  <2>8. DeleteSession(q.user, q.args)
    BY <1>1, <2>1, <2>6, <2>7 DEF DeleteSession, DeletesSession
  <2>9. QED
    BY <2>1, <2>8 DEF DeletesSession, Next, SessionRequest
<1>11. CASE q.call = "create"
  <2>1. PICK f \in FipIds \ DOMAIN fips, s \in SessionIds \cup {None}, visibility \in Visibilities,
             ref \in DOMAIN kms :
          /\ DOMAIN q.seen = {f} /\ q.seen[f].row = NewFip(q.user, s, visibility, ref)
          /\ MayCreate(q.user, s, visibility, ref)
    BY <1>1, <1>11 DEF UpToDate, Creates
  <2>2. Deleted(q) = {} /\ Touched(q) = {f}
    BY <1>11, <2>1, DeletedByOthers DEF Touched
  <2>3. DOMAIN fips' = DOMAIN fips \cup {f}
    BY <1>11, <2>1, <2>2, SerialCommit
  <2>4. fips'[f] = NewFip(q.user, s, visibility, ref)
    BY <1>11, <2>1, <2>2, <2>3, SerialCommit, AssignedByOthers
  <2>5. \A g \in DOMAIN fips : fips'[g] = fips[g]
    BY <2>1, <2>2, <2>3, SerialCommit
  <2>6. fips' = Put(fips, f, NewFip(q.user, s, visibility, ref))
    BY <1>5, <2>3, <2>4, <2>5 DEF Put
  <2>7. CreateFip(q.user, f, s, visibility, ref)
    BY <1>1, <1>3, <1>11, <2>1, <2>6 DEF CreateFip
  <2>8. QED
    BY <1>2, <2>1, <2>7 DEF Next, FipRequest
<1>12. CASE q.call = "backfill"
  <2>1. Deleted(q) = {} /\ Touched(q) = DOMAIN q.seen
    BY <1>12, DeletedByOthers DEF Touched
  <2>2. DOMAIN fips' = DOMAIN fips
    BY <1>12, <2>1, SerialCommit
  <2>3. \A f \in DOMAIN q.seen : Assigned(q, f).row = fips[f]
    BY <1>1, <1>12, AssignedByOthers DEF UpToDate, Current
  <2>4. \A f \in DOMAIN fips : fips'[f] = fips[f]
    BY <2>1, <2>2, <2>3, SerialCommit
  <2>5. fips' = fips
    BY <1>5, <2>2, <2>4
  <2>6. QED
    BY <1>1, <1>3, <1>12, <2>5 DEF vars
<1>13. QED
  BY <1>1, <1>6, <1>7, <1>8, <1>9, <1>10, <1>11, <1>12 DEF IsRequest, Calls

LEMMA StepRefines ==
    ASSUME ~Overlap PROVE SInv /\ [RNext]_rvars => [Next]_vars
<1> SUFFICES ASSUME SInv, [RNext]_rvars PROVE [Next]_vars
  OBVIOUS
<1>1. ASSUME NEW r \in Requests, NEW u, NEW f, NEW token, LoadFip(r, u, f, token) PROVE UNCHANGED vars
  BY <1>1 DEF LoadFip, Load, vars
<1>2. ASSUME NEW r \in Requests, NEW u, NEW f, NEW s, NEW ref, NEW body, LoadCreate(r, u, f, s, ref, body)
      PROVE  UNCHANGED vars
  BY <1>2 DEF LoadCreate, vars
<1>3. ASSUME NEW r \in Requests, NEW u, NEW s, LoadSession(r, u, s) PROVE UNCHANGED vars
  BY <1>3 DEF LoadSession, Load, vars
<1>4. ASSUME NEW r \in Requests, NEW f, LoadBackfill(r, f) PROVE UNCHANGED vars
  BY <1>4 DEF LoadBackfill, Load, vars
<1>5. ASSUME NEW r \in Requests, Decide(r) \/ Rollback(r) PROVE UNCHANGED vars
  BY <1>5 DEF Decide, Rollback, vars
<1>6. ASSUME SessionWrite PROVE Next
  <2>1. PICK u \in accounts, s \in SessionIds :
            \/ \E refs \in RefLists : CreateSession(u, s, refs)
            \/ \E status \in {"open", "closed"} :
                  s \in DOMAIN sessions /\ PatchSession(u, s, status, sessions[s].refs)
    BY <1>6 DEF SessionWrite
  <2>2. s \in DOMAIN sessions => sessions[s].refs \in RefLists
    BY DEF SInv, RInv, TypeOK, Session
  <2>3. SessionRequest(u)
    BY <2>1, <2>2 DEF SessionRequest
  <2>4. QED
    BY <2>3 DEF Next
<1>7. AccountWrite => Next
  BY DEF AccountWrite, Next
<1>8. AccountDeletion => Next
  BY DEF AccountDeletion, Next
<1>9. ASSUME NEW ids \in SUBSET DOMAIN fips, NEW old \in SUBSET ids, Purge(ids, old) PROVE Next
  BY <1>9 DEF Purge, Next
<1>10. UNCHANGED rvars => UNCHANGED vars
  BY DEF rvars, vars
<1>11. QED
  BY <1>1, <1>2, <1>3, <1>4, <1>5, <1>6, <1>7, <1>8, <1>9, <1>10, CommitRefines DEF RNext

(* Without overlap, the server does what FipLifecycle says: each request is *)
(* one of its actions, at its commit, or changes nothing.                   *)
THEOREM RSpec_SerialRequestsRefineLifecycle ==
    ASSUME ~Overlap PROVE RSpec => SerialRequestsRefineLifecycle
<1>1. RInit => Init
  BY DEF RInit
<1>2. QED
  BY <1>1, SInvInit, SInvStep, StepRefines, PTL DEF RSpec, SerialRequestsRefineLifecycle

=============================================================================
