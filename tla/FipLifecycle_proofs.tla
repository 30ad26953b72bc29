------------------------ MODULE FipLifecycle_proofs ------------------------
(***************************************************************************)
(* Proofs about FipLifecycle, for any number of users, sessions, FIPs,     *)
(* questionnaires and versions.                                            *)
(***************************************************************************)
EXTENDS FipLifecycle, TLAPS

(* What the invariants of FipLifecycle say of one row.                      *)
SessionOK(row) ==
    /\ row.owner \in accounts \cup {None}
    /\ row.refs[1] \in DOMAIN kms
    /\ kms[row.refs[1]].status = "published"

FipOK(row) ==
    /\ row.owner \in accounts \cup {None}
    /\ row.session \in DOMAIN sessions \cup {None}
    /\ row.ref \in DOMAIN kms
    /\ kms[row.ref].status = "published"
    /\ row.owner # None => ~row.token
    /\ row.visibility = "private" /\ row.owner = None => row.token /\ row.session # None
    /\ row.session \in DOMAIN sessions /\ Len(sessions[row.session].refs) = 1 =>
          row.ref = sessions[row.session].refs[1]

(* The inductive invariant: the rows are well typed and each one is sound.  *)
(* The invariants need each other: a deletion keeps the rows that others    *)
(* point at only because those others resolve.                              *)
IInv ==
    /\ TypeOK
    /\ \A s \in DOMAIN sessions : SessionOK(sessions[s])
    /\ \A f \in DOMAIN fips : FipOK(fips[f])

LEMMA InitIInv == Init => IInv
<1> SUFFICES ASSUME Init PROVE IInv
  OBVIOUS
<1>1. TypeOK
  BY ConstantsAssumption, InitialFipsAssumption DEF Init, TypeOK
<1>2. \A f \in DOMAIN fips : FipOK(fips[f])
  <2> SUFFICES ASSUME NEW f \in DOMAIN fips PROVE FipOK(fips[f])
    OBVIOUS
  <2>1. /\ fips[f] \in Fip /\ fips[f].session = None
        /\ fips[f].ref \in DOMAIN kms /\ kms[fips[f].ref].status = "published"
        /\ fips[f].owner # None => ~fips[f].token
        /\ fips[f].owner = None => fips[f].visibility # "private"
    BY InitialFipsAssumption DEF Init
  <2>2. fips[f].owner \in accounts \cup {None} /\ DOMAIN sessions = {}
    BY <2>1 DEF Init, Fip, Owners
  <2>3. QED
    BY <2>1, <2>2 DEF FipOK
<1>3. QED
  BY <1>1, <1>2 DEF Init, IInv

-----------------------------------------------------------------------------
(* One FIP row is added or rewritten and nothing else changes.              *)
LEMMA WriteFip ==
  ASSUME IInv, NEW f \in FipIds,
         UNCHANGED <<accounts, kms, sessions>>,
         DOMAIN fips' = DOMAIN fips \cup {f},
         \A g \in DOMAIN fips \ {f} : fips'[g] = fips[g],
         fips'[f] \in Fip, FipOK(fips'[f])
  PROVE  IInv'
  <1>1. TypeOK'
    BY DEF IInv, TypeOK
  <1>2. \A s \in DOMAIN sessions' : SessionOK(sessions[s])'
    BY DEF IInv, SessionOK
  <1>3. \A g \in DOMAIN fips' : FipOK(fips[g])'
    <2> SUFFICES ASSUME NEW g \in DOMAIN fips' PROVE FipOK(fips[g])'
      OBVIOUS
    <2>1. FipOK(fips'[g])
      BY DEF IInv
    <2> QED
      BY <2>1 DEF FipOK
  <1> QED
    BY <1>1, <1>2, <1>3 DEF IInv

(* FIP rows are removed and nothing else changes.                           *)
LEMMA RemoveFips ==
  ASSUME IInv, NEW gone, UNCHANGED <<accounts, kms, sessions>>,
         fips' = Drop(fips, gone)
  PROVE  IInv'
  BY DEF IInv, TypeOK, SessionOK, FipOK, Drop

LEMMA CreateFipKeepsIInv ==
  ASSUME IInv, NEW u \in accounts \cup {None}, NEW f \in FipIds,
         NEW s \in SessionIds \cup {None}, NEW visibility \in Visibilities,
         NEW ref \in DOMAIN kms, CreateFip(u, f, s, visibility, ref)
  PROVE  IInv'
  <1> DEFINE row == NewFip(u, s, visibility, ref)
  <1>1. row \in Fip
    BY ConstantsAssumption DEF IInv, TypeOK, NewFip, Fip, Owners
  <1>2. FipOK(row)
    <2>1. kms[ref].status = "published"
      BY DEF CreateFip, MayCreate, ReadablePublishedKm
    <2>2. ASSUME s # None
          PROVE  s \in DOMAIN sessions /\ \E i \in DOMAIN sessions[s].refs : ref = sessions[s].refs[i]
      BY <2>2 DEF CreateFip, MayCreate, Joinable, Members
    <2>3. ASSUME s \in DOMAIN sessions, Len(sessions[s].refs) = 1
          PROVE  ref = sessions[s].refs[1]
      <3>1. s # None
        BY <2>3, ConstantsAssumption DEF IInv, TypeOK
      <3>2. sessions[s].refs \in Seq(Refs)
        BY <2>3, ConstantsAssumption DEF IInv, TypeOK, Session
      <3>3. DOMAIN sessions[s].refs = 1..1
        BY <2>3, <3>2
      <3> QED
        BY <2>2, <3>1, <3>3
    <2>4. /\ row.owner \in accounts \cup {None}
          /\ row.owner # None => ~row.token
          /\ row.visibility = "private" /\ row.owner = None => row.token /\ row.session # None
      BY ConstantsAssumption DEF NewFip, CreateFip, MayCreate, MayCreateWith
    <2> QED
      BY <2>1, <2>2, <2>3, <2>4 DEF FipOK, NewFip
  <1>3. DOMAIN fips' = DOMAIN fips \cup {f} /\ fips'[f] = row
        /\ \A g \in DOMAIN fips \ {f} : fips'[g] = fips[g]
    BY DEF CreateFip, Put
  <1> QED
    BY <1>1, <1>2, <1>3, WriteFip DEF CreateFip

LEMMA ImportFipKeepsIInv ==
  ASSUME IInv, NEW u \in accounts \cup {None}, NEW f \in FipIds,
         NEW visibility \in Visibilities, NEW ref \in DOMAIN kms,
         ImportFip(u, f, visibility, ref)
  PROVE  IInv'
  <1> DEFINE row == NewFip(u, None, visibility, ref)
  <1>1. row \in Fip
    BY ConstantsAssumption DEF IInv, TypeOK, NewFip, Fip, Owners
  <1>2. FipOK(row)
    BY ConstantsAssumption DEF IInv, TypeOK, FipOK, NewFip, ImportFip, ReadablePublishedKm
  <1>3. DOMAIN fips' = DOMAIN fips \cup {f} /\ fips'[f] = row
        /\ \A g \in DOMAIN fips \ {f} : fips'[g] = fips[g]
    BY DEF ImportFip, Put
  <1> QED
    BY <1>1, <1>2, <1>3, WriteFip DEF ImportFip

LEMMA PatchFipKeepsIInv ==
  ASSUME IInv, NEW u \in accounts \cup {None}, NEW f \in FipIds, NEW token \in BOOLEAN,
         NEW visibility \in Visibilities, PatchFip(u, f, token, visibility)
  PROVE  IInv'
  <1>1. f \in DOMAIN fips /\ fips[f] \in Fip /\ FipOK(fips[f])
    BY DEF IInv, TypeOK, PatchFip
  <1>2. fips' = [fips EXCEPT ![f] = [fips[f] EXCEPT !.visibility = visibility]]
    BY DEF PatchFip
  <1>3. fips'[f] \in Fip
    BY <1>1, <1>2 DEF Fip
  <1>4. FipOK(fips'[f])
    BY <1>1, <1>2 DEF Fip, FipOK, PatchFip, MayPatch
  <1> QED
    BY <1>1, <1>2, <1>3, <1>4, WriteFip DEF PatchFip

LEMMA ClaimFipKeepsIInv ==
  ASSUME IInv, NEW u \in accounts \cup {None}, NEW f \in FipIds, NEW token \in BOOLEAN,
         ClaimFip(u, f, token)
  PROVE  IInv'
  <1>1. f \in DOMAIN fips /\ fips[f] \in Fip /\ FipOK(fips[f])
    BY DEF IInv, TypeOK, ClaimFip
  <1>2. /\ DOMAIN fips' = DOMAIN fips
        /\ fips'[f] = [fips[f] EXCEPT !.owner = u, !.token = FALSE]
        /\ \A g \in DOMAIN fips \ {f} : fips'[g] = fips[g]
    BY <1>1 DEF ClaimFip, ClaimedBy
  <1>3. fips'[f] \in Fip
    BY <1>1, <1>2 DEF Fip, IInv, TypeOK, Owners
  <1>4. FipOK(fips'[f])
    <2>1. fips[f].owner = None /\ u # None
      BY DEF ClaimFip, MayClaim
    <2> QED
      BY <1>1, <1>2, <2>1 DEF Fip, FipOK
  <1> QED
    BY <1>1, <1>2, <1>3, <1>4, WriteFip DEF ClaimFip

LEMMA MigrateFipKeepsIInv ==
  ASSUME IInv, NEW u \in accounts \cup {None}, NEW f \in FipIds, NEW token \in BOOLEAN,
         NEW to \in Versions, MigrateFip(u, f, token, to)
  PROVE  IInv'
  <1> DEFINE target == <<fips[f].ref[1], to>>
  <1>1. f \in DOMAIN fips /\ fips[f] \in Fip /\ FipOK(fips[f])
    BY DEF IInv, TypeOK, MigrateFip
  <1>2. fips' = [fips EXCEPT ![f] = [fips[f] EXCEPT !.ref = target]]
    BY DEF MigrateFip, Migrated
  <1>3. target \in Refs /\ target \in DOMAIN kms /\ kms[target].status = "published"
    BY <1>1 DEF Fip, Refs, MigrateFip, MayMigrate, ReadablePublishedKm
  <1>4. fips'[f] \in Fip
    BY <1>1, <1>2, <1>3 DEF Fip
  <1>5. ASSUME NEW s \in DOMAIN sessions, fips[f].session = s, Len(sessions[s].refs) = 1
        PROVE  target = sessions[s].refs[1]
    <2>1. fips[f].ref = sessions[s].refs[1] /\ to = sessions[s].refs[1][2]
      BY <1>1, <1>5 DEF FipOK, MigrateFip, MayMigrate, Primary
    <2>2. fips[f].ref \in Refs
      BY <1>1 DEF Fip
    <2> QED
      BY <2>1, <2>2 DEF Refs
  <1>6. FipOK(fips'[f])
    BY <1>1, <1>2, <1>3, <1>5 DEF Fip, FipOK
  <1> QED
    BY <1>1, <1>2, <1>4, <1>6, WriteFip DEF MigrateFip

-----------------------------------------------------------------------------
(* One session row is added or rewritten; a list of questionnaires may      *)
(* replace another one only when no FIP belongs to the session.             *)
LEMMA WriteSession ==
  ASSUME IInv, NEW s \in SessionIds, UNCHANGED <<accounts, kms, fips>>,
         DOMAIN sessions' = DOMAIN sessions \cup {s},
         \A t \in DOMAIN sessions \ {s} : sessions'[t] = sessions[t],
         sessions'[s] \in Session, SessionOK(sessions'[s]),
         \A f \in DOMAIN fips : fips[f].session = s =>
            s \in DOMAIN sessions /\ sessions'[s].refs = sessions[s].refs
  PROVE  IInv'
  <1>1. TypeOK'
    BY DEF IInv, TypeOK
  <1>2. \A t \in DOMAIN sessions' : SessionOK(sessions[t])'
    <2> SUFFICES ASSUME NEW t \in DOMAIN sessions' PROVE SessionOK(sessions[t])'
      OBVIOUS
    <2>1. SessionOK(sessions'[t])
      BY DEF IInv
    <2> QED
      BY <2>1 DEF SessionOK
  <1>3. \A f \in DOMAIN fips' : FipOK(fips[f])'
    <2> SUFFICES ASSUME NEW f \in DOMAIN fips PROVE FipOK(fips[f])'
      OBVIOUS
    <2>1. FipOK(fips[f])
      BY DEF IInv
    <2>2. CASE fips[f].session = s
      BY <2>1, <2>2 DEF FipOK
    <2>3. CASE fips[f].session # s
      BY <2>1, <2>3 DEF FipOK
    <2> QED
      BY <2>2, <2>3
  <1> QED
    BY <1>1, <1>2, <1>3 DEF IInv

(* The questionnaires of an offered list exist and are published.           *)
LEMMA FirstRefOffered ==
  ASSUME NEW u, NEW refs \in RefLists, Offerable(refs, u)
  PROVE  refs[1] \in DOMAIN kms /\ kms[refs[1]].status = "published"
  <1>1. refs \in Seq(Refs) /\ refs # <<>>
    BY ConstantsAssumption
  <1>2. 1 \in DOMAIN refs
    BY <1>1
  <1> QED
    BY <1>2 DEF Offerable, Members, ReadablePublishedKm

LEMMA CreateSessionKeepsIInv ==
  ASSUME IInv, NEW u \in accounts, NEW s \in SessionIds, NEW refs \in RefLists,
         CreateSession(u, s, refs)
  PROVE  IInv'
  <1>1. /\ DOMAIN sessions' = DOMAIN sessions \cup {s}
        /\ sessions'[s] = [owner |-> u, status |-> "open", refs |-> refs]
        /\ \A t \in DOMAIN sessions \ {s} : sessions'[t] = sessions[t]
    BY DEF CreateSession, Put
  <1>2. sessions'[s] \in Session
    <2>1. u \in Owners
      BY DEF IInv, TypeOK, Owners
    <2> QED
      BY <1>1, <2>1 DEF Session
  <1>3. SessionOK(sessions'[s])
    BY <1>1, FirstRefOffered DEF SessionOK, CreateSession
  <1>4. \A f \in DOMAIN fips : fips[f].session # s
    BY ConstantsAssumption DEF IInv, FipOK, CreateSession
  <1> QED
    BY <1>1, <1>2, <1>3, <1>4, WriteSession DEF CreateSession

LEMMA PatchSessionKeepsIInv ==
  ASSUME IInv, NEW u \in accounts, NEW s \in SessionIds, NEW status \in {"open", "closed"},
         NEW refs \in RefLists, PatchSession(u, s, status, refs)
  PROVE  IInv'
  <1>1. s \in DOMAIN sessions /\ sessions[s] \in Session /\ SessionOK(sessions[s])
    BY DEF IInv, TypeOK, PatchSession, OwnedSession
  <1>2. /\ DOMAIN sessions' = DOMAIN sessions
        /\ sessions'[s] = [sessions[s] EXCEPT !.status = status, !.refs = refs]
        /\ \A t \in DOMAIN sessions \ {s} : sessions'[t] = sessions[t]
    BY <1>1 DEF PatchSession
  <1>3. sessions'[s] \in Session
    BY <1>1, <1>2 DEF Session
  <1>4. refs[1] \in DOMAIN kms /\ kms[refs[1]].status = "published"
    <2>1. CASE refs = sessions[s].refs
      BY <1>1, <2>1 DEF SessionOK
    <2>2. CASE refs # sessions[s].refs
      BY <2>2, FirstRefOffered DEF PatchSession
    <2> QED
      BY <2>1, <2>2
  <1>5. SessionOK(sessions'[s])
    BY <1>1, <1>2, <1>4 DEF SessionOK, Session
  <1>6. \A f \in DOMAIN fips : fips[f].session = s => sessions'[s].refs = sessions[s].refs
    BY <1>1, <1>2 DEF PatchSession, Session
  <1> QED
    BY <1>1, <1>2, <1>3, <1>5, <1>6, WriteSession DEF PatchSession

LEMMA DeleteSessionKeepsIInv ==
  ASSUME IInv, NEW u \in accounts, NEW s \in SessionIds, DeleteSession(u, s)
  PROVE  IInv'
  <1>1. /\ UNCHANGED <<accounts, kms>>
        /\ DOMAIN sessions' = DOMAIN sessions \ {s}
        /\ \A t \in DOMAIN sessions' : sessions'[t] = sessions[t]
    BY DEF DeleteSession, Drop
  <1>2. /\ DOMAIN fips' \subseteq DOMAIN fips
        /\ \A f \in DOMAIN fips' :
              /\ fips[f].session = s => fips[f].owner # None
              /\ fips'[f] = IF fips[f].session = s THEN [fips[f] EXCEPT !.session = None]
                                                   ELSE fips[f]
    BY DEF DeleteSession
  <1>3. \A f \in DOMAIN fips' : fips'[f] \in Fip
    BY <1>2 DEF IInv, TypeOK, Fip
  <1>4. TypeOK'
    BY <1>1, <1>2, <1>3 DEF IInv, TypeOK
  <1>5. \A t \in DOMAIN sessions' : SessionOK(sessions[t])'
    BY <1>1 DEF IInv, SessionOK
  <1>6. ASSUME NEW f \in DOMAIN fips' PROVE FipOK(fips[f])'
    <2>1. f \in DOMAIN fips /\ FipOK(fips[f]) /\ fips[f] \in Fip
      BY <1>2, <1>6 DEF IInv, TypeOK
    <2>2. CASE fips[f].session = s
      <3>1. fips'[f] = [fips[f] EXCEPT !.session = None] /\ fips[f].owner # None
        BY <1>2, <2>2
      <3>2. None \notin DOMAIN sessions'
        BY <1>1, ConstantsAssumption DEF IInv, TypeOK
      <3> QED
        BY <1>1, <2>1, <3>1, <3>2 DEF FipOK, Fip
    <2>3. CASE fips[f].session # s
      <3>1. fips'[f] = fips[f]
        BY <1>2, <2>3
      <3> QED
        BY <1>1, <2>1, <2>3, <3>1 DEF FipOK
    <2> QED
      BY <2>2, <2>3
  <1> QED
    BY <1>4, <1>5, <1>6 DEF IInv

-----------------------------------------------------------------------------
(* Knowledge models change without losing a published one that is in use.   *)
LEMMA WriteKms ==
  ASSUME IInv, UNCHANGED <<accounts, sessions, fips>>,
         DOMAIN kms' \subseteq Refs, \A k \in DOMAIN kms' : kms'[k] \in Km,
         \A k \in DOMAIN kms : kms[k].status = "published" /\ InUse(k) =>
            k \in DOMAIN kms' /\ kms'[k].status = "published"
  PROVE  IInv'
  <1>1. TypeOK'
    BY DEF IInv, TypeOK
  <1>2. ASSUME NEW s \in DOMAIN sessions' PROVE SessionOK(sessions[s])'
    <2>1. SessionOK(sessions[s]) /\ InUse(sessions[s].refs[1])
      BY <1>2 DEF IInv, InUse, Primary
    <2> QED
      BY <2>1 DEF SessionOK
  <1>3. ASSUME NEW f \in DOMAIN fips' PROVE FipOK(fips[f])'
    <2>1. FipOK(fips[f]) /\ InUse(fips[f].ref)
      BY <1>3 DEF IInv, InUse
    <2> QED
      BY <2>1 DEF FipOK
  <1> QED
    BY <1>1, <1>2, <1>3 DEF IInv

(* The claim of an unowned model changes its owner and nothing else.        *)
LEMMA ClaimedRow ==
  ASSUME IInv, NEW u \in accounts, NEW k \in DOMAIN kms
  PROVE  /\ DOMAIN Claimed(k, u) = DOMAIN kms
         /\ \A j \in DOMAIN kms : Claimed(k, u)[j] \in Km
                                /\ Claimed(k, u)[j].status = kms[j].status
  <1>1. \A j \in DOMAIN kms : kms[j] \in Km
    BY DEF IInv, TypeOK
  <1>2. u \in Owners
    BY DEF IInv, TypeOK, Owners
  <1> QED
    BY <1>1, <1>2 DEF Claimed, Km

LEMMA KmRequestKeepsIInv ==
  ASSUME IInv, NEW u \in accounts, KmRequest(u)
  PROVE  IInv'
  <1>1. ASSUME NEW m \in Models, CreateKm(u, m) PROVE IInv'
    <2> DEFINE new == [status |-> "draft", owner |-> u, visibility |-> "private"]
    <2>0. <<m, 1>> \in Refs /\ u \in Owners
      BY ConstantsAssumption DEF IInv, TypeOK, Refs, Owners
    <2>a. <<m, 1>> \notin DOMAIN kms
      BY <1>1 DEF CreateKm
    <2>1. <<m, 1>> \in Refs /\ <<m, 1>> \notin DOMAIN kms /\ new \in Km
      BY <2>0, <2>a DEF Km, Readers
    <2>2. /\ DOMAIN kms' = DOMAIN kms \cup {<<m, 1>>}
          /\ kms'[<<m, 1>>] = new
          /\ \A k \in DOMAIN kms : kms'[k] = kms[k]
      BY <1>1, <2>1 DEF CreateKm, Put
    <2> QED
      BY <1>1, <2>1, <2>2, WriteKms DEF CreateKm, IInv, TypeOK
  <1>2. ASSUME NEW k \in DOMAIN kms, TouchKm(u, k) PROVE IInv'
    BY <1>2, ClaimedRow, WriteKms DEF TouchKm, IInv, TypeOK
  <1>3. ASSUME NEW k \in DOMAIN kms, NEW visibility \in Readers, PatchKm(u, k, visibility)
        PROVE  IInv'
    <2>1. kms' = [Claimed(k, u) EXCEPT ![k].visibility = visibility]
      BY <1>3 DEF PatchKm
    <2>2. \A j \in DOMAIN kms : kms'[j] \in Km /\ kms'[j].status = kms[j].status
      BY <2>1, <1>3, ClaimedRow DEF Km
    <2>3. DOMAIN kms' = DOMAIN kms
      BY <2>1, <1>3, ClaimedRow
    <2> QED
      BY <1>3, <2>2, <2>3, WriteKms DEF PatchKm, IInv, TypeOK
  <1>4. ASSUME NEW k \in DOMAIN kms, PublishKm(u, k) PROVE IInv'
    <2>1. kms' = [Claimed(k, u) EXCEPT ![k].status = "published"]
      BY <1>4 DEF PublishKm
    <2>2. \A j \in DOMAIN kms : kms'[j] \in Km
                             /\ (kms[j].status = "published" => kms'[j].status = "published")
      BY <2>1, <1>4, ClaimedRow DEF Km
    <2>3. DOMAIN kms' = DOMAIN kms
      BY <2>1, <1>4, ClaimedRow
    <2> QED
      BY <1>4, <2>2, <2>3, WriteKms DEF PublishKm, IInv, TypeOK
  <1>5. ASSUME NEW k \in DOMAIN kms, NEW v \in Versions, NewVersion(u, k, v) PROVE IInv'
    <2> DEFINE new == [Claimed(k, u)[k] EXCEPT !.status = "draft"]
               at == <<k[1], v>>
    <2>0. k \in Refs
      BY DEF IInv, TypeOK
    <2>a. \A j \in DOMAIN kms : j[1] = k[1] => j[2] # v
      BY <1>5 DEF NewVersion
    <2>b. at[1] = k[1] /\ at[2] = v
      OBVIOUS
    <2>1. at \in Refs /\ at \notin DOMAIN kms
      BY <2>0, <2>a, <2>b DEF Refs
    <2>2. new \in Km
      BY <1>5, ClaimedRow DEF Km
    <2>3. kms' = Put(Claimed(k, u), at, new)
      BY <1>5 DEF NewVersion
    <2>4. /\ DOMAIN kms' = DOMAIN kms \cup {at}
          /\ kms'[at] = new
          /\ \A j \in DOMAIN kms : kms'[j] = Claimed(k, u)[j]
      BY <2>1, <2>3, ClaimedRow, <1>5 DEF Put
    <2>5. \A j \in DOMAIN kms' : kms'[j] \in Km
      BY <2>2, <2>4, ClaimedRow, <1>5
    <2>6. \A j \in DOMAIN kms : j \in DOMAIN kms' /\ kms'[j].status = kms[j].status
      BY <2>4, ClaimedRow, <1>5
    <2>7. DOMAIN kms' \subseteq Refs /\ UNCHANGED <<accounts, sessions, fips>>
      BY <1>5, <2>1, <2>4 DEF NewVersion, IInv, TypeOK
    <2> QED
      BY <2>5, <2>6, <2>7, WriteKms
  <1>6. ASSUME NEW k \in DOMAIN kms, DeleteKm(u, k) PROVE IInv'
    BY <1>6, WriteKms DEF DeleteKm, Drop, IInv, TypeOK
  <1> QED
    BY <1>1, <1>2, <1>3, <1>4, <1>5, <1>6 DEF KmRequest

-----------------------------------------------------------------------------
LEMMA RegisterKeepsIInv ==
  ASSUME IInv, NEW u \in Users, Register(u)
  PROVE  IInv'
  <1>1. TypeOK'
    BY DEF IInv, TypeOK, Register
  <1>2. \A s \in DOMAIN sessions' : SessionOK(sessions[s])'
    BY DEF IInv, SessionOK, Register
  <1>3. \A f \in DOMAIN fips' : FipOK(fips[f])'
    BY DEF IInv, FipOK, Register
  <1> QED
    BY <1>1, <1>2, <1>3 DEF IInv

(* What account deletion makes of each table: a row of somebody else is     *)
(* left alone, a row of the account's is anonymised if it is kept.          *)
AnonymisedSessions(u) ==
    /\ DOMAIN sessions' = DOMAIN sessions
    /\ \A s \in DOMAIN sessions :
          \/ sessions'[s] = sessions[s] /\ sessions[s].owner # u
          \/ sessions'[s] = [sessions[s] EXCEPT !.owner = None, !.status = "closed"]

AnonymisedKms ==
    /\ DOMAIN kms' \subseteq DOMAIN kms
    /\ \A k \in DOMAIN kms : kms[k].status = "published" => k \in DOMAIN kms'
    /\ \A k \in DOMAIN kms' :
          \/ kms'[k] = kms[k]
          \/ kms'[k] = [kms[k] EXCEPT !.owner = None, !.visibility = "public"]

AnonymisedFips(u) ==
    /\ DOMAIN fips' \subseteq DOMAIN fips
    /\ \A f \in DOMAIN fips' :
          \/ fips'[f] = fips[f] /\ fips[f].owner # u
          \/ fips'[f] = [fips[f] EXCEPT !.owner = None,
                              !.visibility = IF @ = "private" THEN "link" ELSE @]

LEMMA DeleteMeRows ==
  ASSUME NEW u, DeleteMe(u)
  PROVE  accounts' = accounts \ {u} /\ AnonymisedSessions(u) /\ AnonymisedKms /\ AnonymisedFips(u)
  <1>1. accounts' = accounts \ {u} /\ AnonymisedSessions(u)
    BY DEF DeleteMe, AnonymisedSessions
  <1>2. AnonymisedKms
    BY DEF DeleteMe, AnonymisedKms
  <1>3. AnonymisedFips(u)
    BY DEF DeleteMe, AnonymisedFips
  <1> QED
    BY <1>1, <1>2, <1>3

LEMMA DeleteMeKeepsIInv ==
  ASSUME IInv, NEW u \in accounts, DeleteMe(u)
  PROVE  IInv'
  <1>1. accounts' = accounts \ {u} /\ AnonymisedSessions(u) /\ AnonymisedKms /\ AnonymisedFips(u)
    BY DeleteMeRows
  <1>2. TypeOK'
    <2>1. ASSUME NEW s \in DOMAIN sessions' PROVE sessions'[s] \in Session
      <3>1. sessions[s] \in Session
        BY <1>1 DEF AnonymisedSessions, IInv, TypeOK
      <3>2. \/ sessions'[s] = sessions[s]
            \/ sessions'[s] = [sessions[s] EXCEPT !.owner = None, !.status = "closed"]
        BY <1>1 DEF AnonymisedSessions
      <3> QED
        BY <3>1, <3>2 DEF Session, Owners
    <2>2. \A k \in DOMAIN kms' : kms'[k] \in Km
      BY <1>1 DEF AnonymisedKms, IInv, TypeOK, Km, Owners, Readers
    <2>3. ASSUME NEW f \in DOMAIN fips' PROVE fips'[f] \in Fip
      <3>1. fips[f] \in Fip
        BY <1>1 DEF AnonymisedFips, IInv, TypeOK
      <3>2. \/ fips'[f] = fips[f]
            \/ fips'[f] = [fips[f] EXCEPT !.owner = None,
                                !.visibility = IF @ = "private" THEN "link" ELSE @]
        BY <1>1 DEF AnonymisedFips
      <3> QED
        BY <3>1, <3>2 DEF Fip, Owners, Visibilities
    <2> QED
      BY <1>1, <2>1, <2>2, <2>3
         DEF AnonymisedSessions, AnonymisedKms, AnonymisedFips, IInv, TypeOK
  <1>3. \A k \in DOMAIN kms : kms[k].status = "published" =>
            k \in DOMAIN kms' /\ kms'[k].status = "published"
    BY <1>1 DEF AnonymisedKms, IInv, TypeOK, Km
  <1>4. \A s \in DOMAIN sessions : sessions'[s].refs = sessions[s].refs
    BY <1>1 DEF AnonymisedSessions, IInv, TypeOK, Session
  <1>5. ASSUME NEW s \in DOMAIN sessions' PROVE SessionOK(sessions[s])'
    <2>1. s \in DOMAIN sessions /\ SessionOK(sessions[s]) /\ sessions[s] \in Session
      BY <1>1, <1>5 DEF AnonymisedSessions, IInv, TypeOK
    <2>2. sessions'[s].owner \in accounts' \cup {None}
      BY <1>1, <2>1 DEF AnonymisedSessions, SessionOK, Session
    <2> QED
      BY <1>3, <1>4, <2>1, <2>2 DEF SessionOK
  <1>6. ASSUME NEW f \in DOMAIN fips' PROVE FipOK(fips[f])'
    <2>1. f \in DOMAIN fips /\ FipOK(fips[f]) /\ fips[f] \in Fip
      BY <1>1, <1>6 DEF AnonymisedFips, IInv, TypeOK
    <2>a. DOMAIN sessions' = DOMAIN sessions
      BY <1>1 DEF AnonymisedSessions
    <2>b. /\ fips[f].session \in DOMAIN sessions' \cup {None}
          /\ fips[f].ref \in DOMAIN kms' /\ kms'[fips[f].ref].status = "published"
          /\ fips[f].session \in DOMAIN sessions' /\ Len(sessions'[fips[f].session].refs) = 1 =>
                fips[f].ref = sessions'[fips[f].session].refs[1]
      BY <1>3, <1>4, <2>1, <2>a DEF FipOK
    <2>2. CASE fips'[f] = fips[f] /\ fips[f].owner # u
      <3>1. fips[f].owner \in accounts' \cup {None}
        BY <1>1, <2>1, <2>2 DEF FipOK
      <3> QED
        BY <2>1, <2>2, <2>b, <3>1 DEF FipOK
    <2>3. CASE fips'[f] = [fips[f] EXCEPT !.owner = None,
                              !.visibility = IF @ = "private" THEN "link" ELSE @]
      <3>1. /\ fips'[f].owner = None /\ fips'[f].visibility # "private"
            /\ fips'[f].session = fips[f].session /\ fips'[f].ref = fips[f].ref
        BY <2>1, <2>3 DEF Fip
      <3> QED
        BY <2>b, <3>1 DEF FipOK
    <2> QED
      BY <1>1, <1>6, <2>2, <2>3 DEF AnonymisedFips
  <1> QED
    BY <1>2, <1>5, <1>6 DEF IInv

LEMMA FipRequestKeepsIInv ==
  ASSUME IInv, NEW u \in accounts \cup {None}, FipRequest(u)
  PROVE  IInv'
  <1>1. PICK f \in FipIds, token \in BOOLEAN :
            \/ \E s \in SessionIds \cup {None}, visibility \in Visibilities, ref \in DOMAIN kms :
                  CreateFip(u, f, s, visibility, ref)
            \/ \E visibility \in Visibilities, ref \in DOMAIN kms : ImportFip(u, f, visibility, ref)
            \/ \E visibility \in Visibilities : PatchFip(u, f, token, visibility)
            \/ DeleteFip(u, f, token)
            \/ ClaimFip(u, f, token)
            \/ \E to \in Versions : MigrateFip(u, f, token, to)
    BY DEF FipRequest
  <1>2. CASE \E s \in SessionIds \cup {None}, visibility \in Visibilities, ref \in DOMAIN kms :
                CreateFip(u, f, s, visibility, ref)
    BY <1>2, CreateFipKeepsIInv
  <1>3. CASE \E visibility \in Visibilities, ref \in DOMAIN kms : ImportFip(u, f, visibility, ref)
    BY <1>3, ImportFipKeepsIInv
  <1>4. CASE \E visibility \in Visibilities : PatchFip(u, f, token, visibility)
    BY <1>4, PatchFipKeepsIInv
  <1>5. CASE DeleteFip(u, f, token)
    BY <1>5, RemoveFips DEF DeleteFip
  <1>6. CASE ClaimFip(u, f, token)
    BY <1>6, ClaimFipKeepsIInv
  <1>7. CASE \E to \in Versions : MigrateFip(u, f, token, to)
    BY <1>7, MigrateFipKeepsIInv
  <1> QED
    BY <1>1, <1>2, <1>3, <1>4, <1>5, <1>6, <1>7

LEMMA SessionRequestKeepsIInv ==
  ASSUME IInv, NEW u \in accounts, SessionRequest(u)
  PROVE  IInv'
  BY CreateSessionKeepsIInv, PatchSessionKeepsIInv, DeleteSessionKeepsIInv DEF SessionRequest

LEMMA NextKeepsIInv == IInv /\ [Next]_vars => IInv'
  <1> SUFFICES ASSUME IInv, [Next]_vars PROVE IInv'
    OBVIOUS
  <1>1. CASE UNCHANGED vars
    BY <1>1 DEF vars, IInv, TypeOK, SessionOK, FipOK
  <1>2. CASE \E u \in accounts \cup {None} : FipRequest(u)
    BY <1>2, FipRequestKeepsIInv
  <1>3. CASE \E u \in accounts : SessionRequest(u)
    BY <1>3, SessionRequestKeepsIInv
  <1>4. CASE \E u \in accounts \cap Authors : KmRequest(u)
    BY <1>4, KmRequestKeepsIInv
  <1>5. CASE \E u \in Users : Register(u)
    BY <1>5, RegisterKeepsIInv
  <1>6. CASE \E u \in accounts : DeleteMe(u)
    BY <1>6, DeleteMeKeepsIInv
  <1>7. CASE \E old \in SUBSET DOMAIN fips : PurgeStandaloneFips(old)
    BY <1>7, RemoveFips DEF PurgeStandaloneFips
  <1> QED
    BY <1>1, <1>2, <1>3, <1>4, <1>5, <1>6, <1>7 DEF Next

-----------------------------------------------------------------------------
(* The rows are typed and sound in every state: no request of routers/fips,  *)
(* sessions, auth or knowledge_models leaves a row behind that breaks IInv.  *)
THEOREM InductiveInvariant == Spec => []IInv
  <1>1. Init => IInv
    BY InitIInv
  <1>2. IInv /\ [Next]_vars => IInv'
    BY NextKeepsIInv
  <1> QED
    BY <1>1, <1>2, PTL DEF Spec

(* Every column keeps the type models.py declares for it.                    *)
THEOREM TypeCorrect == Spec => []TypeOK
  <1>1. IInv => TypeOK
    BY DEF IInv
  <1> QED
    BY <1>1, InductiveInvariant, PTL

(* No FIP points at an account, a session or a questionnaire that has been   *)
(* deleted: delete_me, delete_session and delete_knowledge_model see to it.  *)
THEOREM FipRowsAlwaysResolve == Spec => []FipRowsResolve
  <1>1. IInv => FipRowsResolve
    BY DEF IInv, FipOK, FipRowsResolve
  <1> QED
    BY <1>1, InductiveInvariant, PTL

(* A workshop session always has an existing facilitator or none, and a      *)
(* published first questionnaire: delete_knowledge_model refuses its deletion.*)
THEOREM SessionPrimaryAlwaysResolves == Spec => []SessionPrimaryResolves
  <1>1. IInv => SessionPrimaryResolves
    BY DEF IInv, SessionOK, SessionPrimaryResolves, Primary
  <1> QED
    BY <1>1, InductiveInvariant, PTL

(* claim_fip revokes the edit token it consumes and nothing reissues one.    *)
THEOREM OwnedFipNeverHasToken == Spec => []OwnedFipHasNoToken
  <1>1. IInv => OwnedFipHasNoToken
    BY DEF IInv, FipOK, OwnedFipHasNoToken
  <1> QED
    BY <1>1, InductiveInvariant, PTL

(* A FIP nobody owns can be private only inside a session and with its edit  *)
(* token: delete_session and delete_me remove or expose the others.          *)
THEOREM PrivateFipAlwaysHasAReader == Spec => []PrivateFipHasAReader
  <1>1. IInv => PrivateFipHasAReader
    BY DEF IInv, FipOK, PrivateFipHasAReader
  <1> QED
    BY <1>1, InductiveInvariant, PTL

(* The session_has_fips refusal of patch_session and the session pin of      *)
(* migrate_fip keep all FIPs of a one-questionnaire session on its version.  *)
THEOREM SingleRefSessionAlwaysPinned == Spec => []SingleRefSessionPinned
  <1>1. IInv => SingleRefSessionPinned
    BY DEF IInv, FipOK, SingleRefSessionPinned, Primary
  <1> QED
    BY <1>1, InductiveInvariant, PTL

-----------------------------------------------------------------------------
(* What one step may do to a FIP row that survives it.                      *)
SameOwner(f)    == fips'[f].owner = fips[f].owner
ClaimedNow(f)   == fips[f].owner = None /\ fips[f].token
Anonymised(f)   == fips'[f].owner = None /\ fips[f].owner \notin accounts'
OwnerStep(f)    == SameOwner(f) \/ ClaimedNow(f) \/ Anonymised(f)
ForwardStep(f)  == /\ fips'[f].ref[1] = fips[f].ref[1]
                   /\ fips'[f].ref[2] >= fips[f].ref[2]

LEMMA StepOfFip ==
  ASSUME TypeOK, [Next]_vars, NEW f \in DOMAIN fips \cap DOMAIN fips'
  PROVE  OwnerStep(f) /\ ForwardStep(f)
  <1>0. fips[f] \in Fip /\ fips[f].ref \in Refs /\ fips[f].ref[2] \in Nat
    BY ConstantsAssumption DEF TypeOK, Fip, Refs
  <1>1. fips'[f] = fips[f] => OwnerStep(f) /\ ForwardStep(f)
    BY <1>0 DEF OwnerStep, SameOwner, ForwardStep
  <1>2. CASE UNCHANGED fips
    BY <1>1, <1>2
  <1>3. ASSUME NEW u \in accounts \cup {None}, FipRequest(u)
        PROVE  OwnerStep(f) /\ ForwardStep(f)
    <2>1. PICK g \in FipIds, token \in BOOLEAN :
            \/ \E s \in SessionIds \cup {None}, visibility \in Visibilities, ref \in DOMAIN kms :
                  CreateFip(u, g, s, visibility, ref)
            \/ \E visibility \in Visibilities, ref \in DOMAIN kms : ImportFip(u, g, visibility, ref)
            \/ \E visibility \in Visibilities : PatchFip(u, g, token, visibility)
            \/ DeleteFip(u, g, token)
            \/ ClaimFip(u, g, token)
            \/ \E to \in Versions : MigrateFip(u, g, token, to)
      BY <1>3 DEF FipRequest
    <2>2. CASE \E s \in SessionIds \cup {None}, visibility \in Visibilities, ref \in DOMAIN kms :
                  CreateFip(u, g, s, visibility, ref)
      BY <1>1, <2>2 DEF CreateFip, Put
    <2>3. CASE \E visibility \in Visibilities, ref \in DOMAIN kms : ImportFip(u, g, visibility, ref)
      BY <1>1, <2>3 DEF ImportFip, Put
    <2>4. CASE \E visibility \in Visibilities : PatchFip(u, g, token, visibility)
      <3>1. fips'[f].owner = fips[f].owner /\ fips'[f].ref = fips[f].ref
        BY <1>0, <2>4 DEF PatchFip, Fip
      <3> QED
        BY <1>0, <3>1 DEF OwnerStep, SameOwner, ForwardStep
    <2>5. CASE DeleteFip(u, g, token)
      BY <1>1, <2>5 DEF DeleteFip, Drop
    <2>6. CASE ClaimFip(u, g, token)
      <3>1. fips'[f].ref = fips[f].ref /\ (fips'[f].owner = fips[f].owner \/ ClaimedNow(f))
        BY <1>0, <2>6 DEF ClaimFip, MayClaim, ClaimedBy, Fip, ClaimedNow
      <3> QED
        BY <1>0, <3>1 DEF OwnerStep, SameOwner, ForwardStep
    <2>7. CASE \E to \in Versions : MigrateFip(u, g, token, to)
      <3>1. PICK to \in Versions : MigrateFip(u, g, token, to)
        BY <2>7
      <3>2. to \in Nat /\ to > fips[g].ref[2]
        BY <3>1, ConstantsAssumption DEF MigrateFip, MayMigrate
      <3>3. CASE f # g
        BY <1>1, <3>1, <3>3 DEF MigrateFip
      <3>4. CASE f = g
        <4>1. fips'[f] = [fips[f] EXCEPT !.ref = <<fips[f].ref[1], to>>]
          BY <3>1, <3>4 DEF MigrateFip, Migrated
        <4>2. fips'[f].owner = fips[f].owner /\ fips'[f].ref = <<fips[f].ref[1], to>>
          BY <1>0, <4>1 DEF Fip
        <4> QED
          BY <1>0, <3>2, <3>4, <4>2 DEF OwnerStep, SameOwner, ForwardStep
      <3> QED
        BY <3>3, <3>4
    <2> QED
      BY <2>1, <2>2, <2>3, <2>4, <2>5, <2>6, <2>7
  <1>4. ASSUME NEW u \in accounts, SessionRequest(u)
        PROVE  OwnerStep(f) /\ ForwardStep(f)
    <2>1. CASE UNCHANGED fips
      BY <1>2, <2>1
    <2>2. ASSUME NEW s \in SessionIds, DeleteSession(u, s)
          PROVE  OwnerStep(f) /\ ForwardStep(f)
      <3>1. fips'[f] = fips[f] \/ fips'[f] = [fips[f] EXCEPT !.session = None]
        BY <2>2 DEF DeleteSession
      <3>2. fips'[f].owner = fips[f].owner /\ fips'[f].ref = fips[f].ref
        BY <1>0, <3>1 DEF Fip
      <3> QED
        BY <1>0, <3>2 DEF OwnerStep, SameOwner, ForwardStep
    <2> QED
      BY <1>4, <2>1, <2>2 DEF SessionRequest, CreateSession, PatchSession
  <1>5. ASSUME NEW u \in accounts, KmRequest(u)
        PROVE  UNCHANGED fips
    BY <1>5 DEF KmRequest, CreateKm, TouchKm, PatchKm, PublishKm, NewVersion, DeleteKm
  <1>6. ASSUME NEW u \in accounts, DeleteMe(u)
        PROVE  OwnerStep(f) /\ ForwardStep(f)
    <2>1. accounts' = accounts \ {u}
      BY <1>6 DEF DeleteMe
    <2>2. CASE fips[f].owner # u
      <3>1. fips'[f] = fips[f]
        BY <1>6, <2>2 DEF DeleteMe
      <3> QED
        BY <1>1, <3>1
    <2>3. CASE fips[f].owner = u
      <3>1. fips'[f] = [fips[f] EXCEPT !.owner = None,
                              !.visibility = IF @ = "private" THEN "link" ELSE @]
        BY <1>6, <2>3 DEF DeleteMe
      <3>2. fips'[f].owner = None /\ fips'[f].ref = fips[f].ref
        BY <1>0, <3>1 DEF Fip
      <3> QED
        BY <1>0, <2>1, <2>3, <3>2 DEF OwnerStep, Anonymised, ForwardStep
    <2> QED
      BY <2>2, <2>3
  <1>7. ASSUME NEW old, PurgeStandaloneFips(old)
        PROVE  fips'[f] = fips[f]
    BY <1>7 DEF PurgeStandaloneFips, Drop
  <1>8. ASSUME NEW u, Register(u) PROVE UNCHANGED fips
    BY <1>8 DEF Register
  <1> QED
    BY <1>1, <1>2, <1>3, <1>4, <1>5, <1>6, <1>7, <1>8 DEF Next, vars

(* A FIP gets an owner only by a claim, and loses it only with the account:  *)
(* no handler moves a FIP from one user to another.                          *)
THEOREM OwnershipIsNeverTransferred == Spec => OwnershipNeverTransferred
  <1> DEFINE Step == \A f \in DOMAIN fips \cap DOMAIN fips' :
          fips'[f].owner # fips[f].owner =>
              \/ fips[f].owner = None /\ fips[f].token
              \/ fips'[f].owner = None /\ fips[f].owner \notin accounts'
  <1>1. TypeOK /\ [Next]_vars => [Step]_vars
    BY StepOfFip DEF OwnerStep, SameOwner, ClaimedNow, Anonymised
  <1>2. OwnershipNeverTransferred <=> [][Step]_vars
    BY DEF OwnershipNeverTransferred
  <1> QED
    BY <1>1, <1>2, TypeCorrect, PTL DEF Spec

(* migrate_fip is the only handler that changes the questionnaire of a FIP,  *)
(* and only to a later version of the same one.                              *)
THEOREM MigrationIsOnlyForward == Spec => MigrationOnlyForward
  <1> DEFINE Step == \A f \in DOMAIN fips \cap DOMAIN fips' :
          /\ fips'[f].ref[1] = fips[f].ref[1]
          /\ fips'[f].ref[2] >= fips[f].ref[2]
  <1>1. TypeOK /\ [Next]_vars => [Step]_vars
    BY StepOfFip DEF ForwardStep
  <1>2. MigrationOnlyForward <=> [][Step]_vars
    BY DEF MigrationOnlyForward
  <1> QED
    BY <1>1, <1>2, TypeCorrect, PTL DEF Spec

-----------------------------------------------------------------------------
(* What a step does to a FIP whose session is closed                        *)
Kept(f) == f \in DOMAIN fips' /\ fips'[f] = fips[f]

Privileged(f) ==
    \E u \in accounts : /\ u \in Admins \/ SessionOwnerHasAccess(fips[f], u)
                        /\ FipRequest(u) \/ SessionRequest(u)

LEMMA ClosedStep ==
  ASSUME TypeOK, [Next]_vars, NEW f \in DOMAIN fips, InClosedSession(fips[f])
  PROVE  Kept(f) \/ Privileged(f) \/ accounts' # accounts
  <1>1. ASSUME NEW u \in accounts \cup {None}, FipRequest(u)
        PROVE  Kept(f) \/ Privileged(f)
    <2>1. PICK g \in FipIds, token \in BOOLEAN :
            \/ \E s \in SessionIds \cup {None}, visibility \in Visibilities, ref \in DOMAIN kms :
                  CreateFip(u, g, s, visibility, ref)
            \/ \E visibility \in Visibilities, ref \in DOMAIN kms : ImportFip(u, g, visibility, ref)
            \/ \E visibility \in Visibilities : PatchFip(u, g, token, visibility)
            \/ DeleteFip(u, g, token)
            \/ ClaimFip(u, g, token)
            \/ \E to \in Versions : MigrateFip(u, g, token, to)
      BY <1>1 DEF FipRequest
    <2>2. g = f /\ AuthorizedWrite(fips[f], u, token) => Privileged(f)
      <3>1. SUFFICES ASSUME AuthorizedWrite(fips[f], u, token) PROVE Privileged(f)
        OBVIOUS
      <3>2. u \in Admins \/ SessionOwnerHasAccess(fips[f], u)
        BY <3>1 DEF AuthorizedWrite
      <3>3. u \in accounts
        BY <3>2, ConstantsAssumption DEF SessionOwnerHasAccess
      <3>4. QED
        BY <1>1, <3>2, <3>3 DEF Privileged
    <2>3. CASE \E s \in SessionIds \cup {None}, visibility \in Visibilities, ref \in DOMAIN kms :
                  CreateFip(u, g, s, visibility, ref)
      BY <2>3 DEF CreateFip, Put, Kept
    <2>4. CASE \E visibility \in Visibilities, ref \in DOMAIN kms : ImportFip(u, g, visibility, ref)
      BY <2>4 DEF ImportFip, Put, Kept
    <2>5. CASE \E visibility \in Visibilities : PatchFip(u, g, token, visibility)
      BY <2>2, <2>5 DEF PatchFip, MayPatch, Kept
    <2>6. CASE DeleteFip(u, g, token)
      BY <2>2, <2>6 DEF DeleteFip, Drop, Kept
    <2>7. CASE ClaimFip(u, g, token)
      BY <2>7 DEF ClaimFip, MayClaim, Kept
    <2>8. CASE \E to \in Versions : MigrateFip(u, g, token, to)
      BY <2>2, <2>8 DEF MigrateFip, MayMigrate, Kept
    <2> QED
      BY <2>1, <2>3, <2>4, <2>5, <2>6, <2>7, <2>8
  <1>2. ASSUME NEW u \in accounts, SessionRequest(u)
        PROVE  Kept(f) \/ Privileged(f)
    <2>1. CASE UNCHANGED fips
      BY <2>1 DEF Kept
    <2>2. ASSUME NEW s \in SessionIds, DeleteSession(u, s)
          PROVE  Kept(f) \/ Privileged(f)
      <3>1. CASE fips[f].session = s
        BY <1>2, <2>2, <3>1 DEF DeleteSession, OwnedSession, Privileged, SessionOwnerHasAccess
      <3>2. CASE fips[f].session # s
        BY <2>2, <3>2 DEF DeleteSession, Kept
      <3> QED
        BY <3>1, <3>2
    <2> QED
      BY <1>2, <2>1, <2>2 DEF SessionRequest, CreateSession, PatchSession
  <1>3. ASSUME NEW u \in accounts, KmRequest(u) PROVE Kept(f)
    BY <1>3 DEF KmRequest, CreateKm, TouchKm, PatchKm, PublishKm, NewVersion, DeleteKm, Kept
  <1>4. ASSUME NEW u, Register(u) PROVE Kept(f)
    BY <1>4 DEF Register, Kept
  <1>5. ASSUME NEW u \in accounts, DeleteMe(u) PROVE accounts' # accounts
    BY <1>5 DEF DeleteMe
  <1>6. ASSUME NEW old \in SUBSET DOMAIN fips, PurgeStandaloneFips(old) PROVE Kept(f)
    <2>1. f \notin old
      BY <1>6, ConstantsAssumption DEF PurgeStandaloneFips, InClosedSession, TypeOK
    <2> QED
      BY <1>6, <2>1 DEF PurgeStandaloneFips, Drop, Kept
  <1>7. CASE UNCHANGED vars
    BY <1>7 DEF vars, Kept
  <1> QED
    BY <1>1, <1>2, <1>3, <1>4, <1>5, <1>6, <1>7 DEF Next

(* While a session is closed only an admin, its facilitator or the deletion *)
(* of an account changes one of its FIPs: _authorized_write, claim and the  *)
(* purge all leave them alone.                                              *)
THEOREM ClosedSessionIsFrozen == Spec => ClosedSessionFrozen
  <1> DEFINE Step == \A f \in DOMAIN fips :
          InClosedSession(fips[f]) /\ ~(f \in DOMAIN fips' /\ fips'[f] = fips[f]) =>
              \/ \E u \in accounts :
                    /\ u \in Admins \/ SessionOwnerHasAccess(fips[f], u)
                    /\ FipRequest(u) \/ SessionRequest(u)
              \/ accounts' # accounts
  <1>1. TypeOK /\ [Next]_vars => [Step]_vars
    BY ClosedStep DEF Kept, Privileged
  <1>2. ClosedSessionFrozen <=> [][Step]_vars
    BY DEF ClosedSessionFrozen
  <1> QED
    BY <1>1, <1>2, TypeCorrect, PTL DEF Spec

=============================================================================
