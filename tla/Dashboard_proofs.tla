-------------------------- MODULE Dashboard_proofs --------------------------
(***************************************************************************)
(* Proofs about the populations of the dashboard and the rows that are     *)
(* stored for them, for every choice of FIPs, viewers and specifications.  *)
(***************************************************************************)
EXTENDS DashboardSnapshots, FiniteSetTheorems, WellFoundedInduction, TLAPS

(* The security predicate lies inside the predicate "readable one by one". *)
LEMMA PermittedIsReadable ==
    ASSUME NEW fip, NEW viewer, Permitted(fip, viewer)
    PROVE  ReadableIndividually(fip, viewer)
  BY DEF Permitted, ReadableIndividually

(* Nobody counts, in any population, a FIP he could not open by itself:    *)
(* resolve_population's security predicate implies _readable_individually_ *)
(* expr, whatever the terms, the dates and the rows.                       *)
THEOREM MembersAreReadable ==
    ASSUME NEW spec, NEW viewer, NEW rows
    PROVE  Hidden(spec, viewer, rows) = {}
  BY PermittedIsReadable DEF Hidden, LocalMembers, Matches

(* check_k_anonymity therefore never refuses: the 403 population_too_small *)
(* of the endpoints is out of reach.                                       *)
THEOREM NeverTooSmall ==
    ASSUME NEW spec, NEW viewer, NEW rows, NEW shadows
    PROVE  ~TooSmall(spec, viewer, rows, shadows)
  BY MembersAreReadable DEF TooSmall

(* In every state the server reaches, no population a viewer may ask for   *)
(* hides a member from him.                                                *)
THEOREM SSpec_NobodyHidden == SSpec => []NobodyHidden
<1>1. NobodyHidden
  BY MembersAreReadable DEF NobodyHidden
<1>2. QED
  BY <1>1, PTL
-----------------------------------------------------------------------------
(* The scope of a stored row *)

PublicTerms(spec) ==
    \A t \in spec.include \cup spec.exclude : t.kind \in {"public", "network"}

(* A population of public terms only means the same to everybody, except   *)
(* that it is the security predicate that decides ... and public FIPs pass *)
(* it for everyone.                                                        *)
LEMMA PublicMeansTheSame ==
    ASSUME NEW spec, NEW v, NEW w, NEW rows, NEW shadows, PublicTerms(spec)
    PROVE  Members(spec, v, rows, shadows) = Members(spec, w, rows, shadows)
<1>1. ASSUME NEW x, NEW y, NEW f \in DOMAIN rows, Matches(spec, rows[f], x)
      PROVE  Matches(spec, rows[f], y)
  <2>1. PICK t \in spec.include : Names(t, rows[f], x)
    BY <1>1 DEF Matches
  <2>2. t.kind \in {"public", "network"}
    BY DEF PublicTerms
  <2>3. rows[f].visibility = "public" /\ Names(t, rows[f], y)
    BY <2>1, <2>2 DEF Names
  <2>4. Permitted(rows[f], y)
    BY <2>3 DEF Permitted
  <2>5. ASSUME NEW e \in spec.exclude PROVE ~Excludes(e, rows[f], y)
    BY DEF Excludes, PublicTerms
  <2>6. InWindow(spec, rows[f])
    BY <1>1 DEF Matches
  <2>7. QED
    BY <2>3, <2>4, <2>5, <2>6 DEF Matches
<1>2. LocalMembers(spec, v, rows) = LocalMembers(spec, w, rows)
  BY <1>1 DEF LocalMembers
<1>3. QED
  BY <1>2 DEF Members

(* Two viewers that share a stored row, because auth_scope_for gives them  *)
(* one scope, ask for the same FIPs: no one is ever served another's view. *)
THEOREM ScopeSeparates ==
    ASSUME NEW spec, NEW v \in Viewers, NEW w \in Viewers, NEW rows, NEW shadows,
           AuthScope(spec, v) = AuthScope(spec, w)
    PROVE  Members(spec, v, rows, shadows) = Members(spec, w, rows, shadows)
<1>1. CASE PublicTerms(spec)
  BY <1>1, PublicMeansTheSame
<1>2. CASE ~PublicTerms(spec)
  <2>1. AuthScope(spec, v) = (IF v # None THEN v ELSE "anon")
    BY <1>2 DEF AuthScope, PublicTerms
  <2>2. AuthScope(spec, w) = (IF w # None THEN w ELSE "anon")
    BY <1>2 DEF AuthScope, PublicTerms
  <2>3. (IF v # None THEN v ELSE "anon") = (IF w # None THEN w ELSE "anon")
    BY <2>1, <2>2
  <2>4. "anon" \notin Users
    BY PopulationsAssumption
  <2>5. v = w
    BY <2>3, <2>4 DEF Viewers
  <2>6. QED
    BY <2>5
<1>3. QED
  BY <1>1, <1>2
-----------------------------------------------------------------------------
(* Forgetting deleted FIPs *)

(* A FIP a stored cluster or map may name, and one a computation may have. *)
Nameable == Existing \cup scrubs \cup excused \cup NetworkIds

Resolvable == Existing \cup excused \cup NetworkIds

JobShape(x) ==
    x = [kind |-> x.kind, spec |-> x.spec, viewer |-> x.viewer, params |-> x.params,
         views |-> x.views, marked |-> x.marked, pop |-> x.pop, payload |-> x.payload]

PopShape(x) == x = [ids |-> x.ids, max |-> x.max, epoch |-> x.epoch, stale |-> x.stale]

RowShape(x) ==
    x = [status |-> x.status, payload |-> x.payload, count |-> x.count, max |-> x.max,
         epoch |-> x.epoch, stale |-> x.stale, expired |-> x.expired]

(* What a computation may carry: a payload comes from what it resolved. *)
JobRefers(x, ids) ==
    /\ JobShape(x)
    /\ x.pop # None => x.pop.ids \subseteq ids
    /\ x.payload # None => x.pop # None /\ \A c \in x.payload : c[1] \in x.pop.ids

RowRefers(k, x, ids) ==
    /\ RowShape(x)
    /\ k[3] \in PairViews /\ x.payload # None => \A c \in x.payload : c[1] \in ids

(* The strengthening: what a computation has resolved, and what it is      *)
(* about to store, is bounded as well, and more strictly: the scrub that   *)
(* is still due only reaches rows, not computations.                       *)
Forgotten ==
    /\ jobs = [j \in Jobs |-> jobs[j]]
    /\ \A j \in Jobs : jobs[j] # None => JobRefers(jobs[j], Resolvable)
    /\ snapshots = [k \in Stored |-> snapshots[k]]
    /\ \A k \in Stored : RowRefers(k, snapshots[k], Nameable)
    /\ DOMAIN network \subseteq NetworkIds

(* If nothing leaves the bounds, what lies within them stays there. *)
LEMMA BoundsGrow ==
    ASSUME Forgotten, UNCHANGED <<jobs, snapshots>>,
           Resolvable \subseteq Resolvable', Nameable \subseteq Nameable',
           DOMAIN network' \subseteq NetworkIds
    PROVE  Forgotten'
  BY DEF Forgotten, JobRefers, RowRefers, Stored

LEMMA ForgottenInit == SInit => Forgotten
  BY SnapshotsAssumption DEF SInit, Forgotten, Stored

(* What a population resolves to lies within the bounds. *)
LEMMA ResolvedRefers ==
    ASSUME Forgotten, NEW spec, NEW viewer
    PROVE  /\ PopShape(Resolved(spec, viewer))
           /\ Resolved(spec, viewer).ids \subseteq Existing
<1>1. MembersNow(spec, viewer) \subseteq Existing
  BY DEF MembersNow, Members, LocalMembers, NetworkMembers, Existing
<1>2. QED
  BY <1>1 DEF Resolved, PopShape

(* The payload of a view names only FIPs of the population. *)
LEMMA PayloadRefers ==
    ASSUME NEW view, NEW pop, NEW c \in Payload(view, pop)
    PROVE  c[1] \in pop.ids
  BY DEF Payload, Shown, Content

(* A deletion: the FIP leaves, and is accounted for. *)
LEMMA RemoveForgets ==
    ASSUME Forgotten, NEW f, Remove(f),
           InUse(f) => f \in excused',
           f \in scrubs' \cup excused', scrubs \subseteq scrubs', excused \subseteq excused'
    PROVE  Forgotten'
<1>1. Existing \subseteq Existing' \cup {f} /\ network' = network
  BY DEF Remove, Existing
<1>2. Nameable \subseteq Nameable'
  BY <1>1 DEF Nameable
<1>3. UNCHANGED <<jobs, snapshots>>
  BY DEF Remove
<1>4. ASSUME NEW j \in Jobs, jobs[j] # None PROVE JobRefers(jobs[j], Resolvable')
  <2>1. JobRefers(jobs[j], Resolvable)
    BY <1>4 DEF Forgotten
  <2>2. CASE f \in excused'
    BY <1>1, <2>1, <2>2 DEF JobRefers, Resolvable
  <2>3. CASE f \notin excused'
    <3>1. jobs[j].pop # None => f \notin jobs[j].pop.ids
      BY <1>4, <2>3 DEF InUse
    <3>2. QED
      BY <1>1, <2>1, <3>1 DEF JobRefers, Resolvable
  <2>4. QED
    BY <2>2, <2>3
<1>5. jobs' = [j \in Jobs |-> jobs'[j]] /\ snapshots' = [k \in Stored' |-> snapshots'[k]]
  BY <1>3 DEF Forgotten, Stored
<1>6. \A k \in Stored' : RowRefers(k, snapshots'[k], Nameable')
  BY <1>2, <1>3 DEF Forgotten, RowRefers, Stored
<1>7. \A j \in Jobs : jobs'[j] # None => JobRefers(jobs'[j], Resolvable')
  BY <1>3, <1>4
<1>8. QED
  BY <1>1, <1>5, <1>6, <1>7 DEF Forgotten

(* A step that changes one computation leaves the others and the bounds. *)
LEMMA JobStep ==
    ASSUME Forgotten, NEW j \in Jobs, NEW x, jobs' = [jobs EXCEPT ![j] = x],
           x # None => JobRefers(x, Resolvable),
           UNCHANGED <<snapshots, fips, network, scrubs, excused>>
    PROVE  Forgotten'
<1>1. UNCHANGED <<Existing, Nameable, Resolvable, Stored>>
  BY DEF Existing, Nameable, Resolvable, Stored
<1>2. \A i \in Jobs : jobs'[i] # None => JobRefers(jobs'[i], Resolvable)
  BY DEF Forgotten
<1>3. jobs' = [i \in Jobs |-> jobs'[i]]
  BY DEF Forgotten
<1>4. \A k \in Stored : RowRefers(k, snapshots[k], Nameable)
  BY DEF Forgotten
<1>5. snapshots' = [k \in Stored' |-> snapshots'[k]] /\ DOMAIN network' \subseteq NetworkIds
  BY <1>1 DEF Forgotten
<1>6. \A i \in Jobs : jobs'[i] # None => JobRefers(jobs'[i], Resolvable')
  BY <1>1, <1>2
<1>7. \A k \in Stored' : RowRefers(k, snapshots'[k], Nameable')
  BY <1>1, <1>4
<1>8. QED
  BY <1>3, <1>5, <1>6, <1>7 DEF Forgotten

(* A step that writes rows within the bounds, and may change a computation. *)
LEMMA RowStep ==
    ASSUME Forgotten, snapshots' = [k \in Stored' |-> snapshots'[k]],
           \A k \in Stored' : RowRefers(k, snapshots'[k], Nameable),
           jobs' = [i \in Jobs |-> jobs'[i]],
           \A i \in Jobs : jobs'[i] # None => JobRefers(jobs'[i], Resolvable),
           UNCHANGED <<fips, network, scrubs, excused>>
    PROVE  Forgotten'
<1>1. UNCHANGED <<Existing, Nameable, Resolvable>>
  BY DEF Existing, Nameable, Resolvable
<1>2. QED
  BY <1>1 DEF Forgotten

LEMMA BeginForgets ==
    ASSUME Forgotten, NEW j \in Jobs, NEW kind, NEW spec, NEW viewer, NEW params, NEW views,
           NEW pop, Begin(j, kind, spec, viewer, params, views, pop),
           pop # None => pop.ids \subseteq Existing
    PROVE  Forgotten'
<1> DEFINE x == [kind |-> kind, spec |-> spec, viewer |-> viewer, params |-> params,
                 views |-> views, marked |-> 0, pop |-> pop, payload |-> None]
<1>1. jobs' = [jobs EXCEPT ![j] = x] /\ UNCHANGED <<snapshots, fips, network, scrubs, excused>>
  BY DEF Begin, database
<1>2. JobRefers(x, Resolvable)
  BY DEF JobRefers, JobShape, Resolvable
<1>3. QED
  BY <1>1, <1>2, JobStep

LEMMA EndedRefers ==
    ASSUME NEW x, NEW ids, JobRefers(x, ids), Ended(x) # None
    PROVE  JobRefers(Ended(x), ids)
<1>1. Ended(x) = [x EXCEPT !.views = Tail(@), !.pop = None, !.payload = None]
  BY DEF Ended
<1>2. Ended(x) = [kind |-> x.kind, spec |-> x.spec, viewer |-> x.viewer, params |-> x.params,
                  views |-> Tail(x.views), marked |-> x.marked, pop |-> None, payload |-> None]
  BY <1>1 DEF JobRefers, JobShape
<1>3. QED
  BY <1>2 DEF JobRefers, JobShape

LEMMA StatusRefers ==
    ASSUME NEW k, NEW row, NEW ids, RowRefers(k, row, ids)
    PROVE  RowRefers(k, [row EXCEPT !.status = "computing"], ids)
<1>1. [row EXCEPT !.status = "computing"] =
          [status |-> "computing", payload |-> row.payload, count |-> row.count,
           max |-> row.max, epoch |-> row.epoch, stale |-> row.stale, expired |-> row.expired]
  BY DEF RowRefers, RowShape
<1>2. QED
  BY <1>1 DEF RowRefers, RowShape

LEMMA ExpiredRefers ==
    ASSUME NEW k, NEW row, NEW ids, NEW b, RowRefers(k, row, ids)
    PROVE  RowRefers(k, [row EXCEPT !.expired = b], ids)
<1>1. [row EXCEPT !.expired = b] =
          [status |-> row.status, payload |-> row.payload, count |-> row.count,
           max |-> row.max, epoch |-> row.epoch, stale |-> row.stale, expired |-> b]
  BY DEF RowRefers, RowShape
<1>2. QED
  BY <1>1 DEF RowRefers, RowShape

(* One step of a computation or of the refresh that begins it. *)
LEMMA ComputationForgets ==
    ASSUME Forgotten, NEW j \in Jobs, MarkComputing(j) \/ BeginTask(j) \/ Computation(j)
    PROVE  Forgotten'
<1> DEFINE job == jobs[j]
<1>0. job # None /\ JobRefers(job, Resolvable)
  BY DEF MarkComputing, BeginTask, Computation, Resolve, Compute, GiveUp, Store, Runs, Forgotten
<1>1. CASE BeginTask(j)
  <2> DEFINE v == IF job.viewer # None /\ job.viewer \notin accounts THEN None ELSE job.viewer
             x == [kind |-> "task", spec |-> job.spec, viewer |-> v, params |-> job.params,
                   views |-> job.views, marked |-> job.marked, pop |-> job.pop,
                   payload |-> job.payload]
  <2>1. [job EXCEPT !.kind = "task", !.viewer = v] = x
    <3> DEFINE e == [job EXCEPT !.kind = "task", !.viewer = v]
    <3> HIDE DEF e
    <3>1. e = [f \in DOMAIN job |-> IF f = "viewer" THEN v ELSE IF f = "kind" THEN "task"
                                    ELSE job[f]]
      BY DEF e
    <3>2. e = x
      BY <1>0, <3>1 DEF JobRefers, JobShape
    <3>3. QED
      BY <3>2 DEF e
  <2>2. jobs' = [jobs EXCEPT ![j] = x] /\ UNCHANGED <<snapshots, fips, network, scrubs, excused>>
    BY <1>1, <2>1 DEF BeginTask, database
  <2>3. JobRefers(x, Resolvable)
    BY <1>0 DEF JobRefers, JobShape
  <2>4. QED
    BY <2>2, <2>3, JobStep
<1>2. CASE Resolve(j)
  <2> DEFINE r == Resolved(job.spec, job.viewer)
             x == [kind |-> job.kind, spec |-> job.spec, viewer |-> job.viewer,
                   params |-> job.params, views |-> job.views, marked |-> job.marked,
                   pop |-> r, payload |-> job.payload]
  <2>1. jobs[j].pop = None /\ jobs' = [jobs EXCEPT ![j].pop = r]
    BY <1>2 DEF Resolve
  <2>2. [job EXCEPT !.pop = r] = x
    BY <1>0 DEF JobRefers, JobShape
  <2>3. jobs' = [jobs EXCEPT ![j] = x] /\ UNCHANGED <<snapshots, fips, network, scrubs, excused>>
    BY <1>2, <2>1, <2>2 DEF Resolve, database
  <2>4. r.ids \subseteq Resolvable
    BY ResolvedRefers DEF Resolvable
  <2>5. job.payload = None
    BY <1>0, <2>1 DEF JobRefers
  <2>6. JobRefers(x, Resolvable)
    BY <2>4, <2>5 DEF JobRefers, JobShape
  <2>7. QED
    BY <2>3, <2>6, JobStep
<1>3. CASE Compute(j)
  <2> DEFINE p == Payload(Head(job.views), job.pop)
             x == [kind |-> job.kind, spec |-> job.spec, viewer |-> job.viewer,
                   params |-> job.params, views |-> job.views, marked |-> job.marked,
                   pop |-> job.pop, payload |-> p]
  <2>1. jobs[j].pop # None /\ jobs' = [jobs EXCEPT ![j].payload = p]
    BY <1>3 DEF Compute
  <2>2. [job EXCEPT !.payload = p] = x
    BY <1>0 DEF JobRefers, JobShape
  <2>3. jobs' = [jobs EXCEPT ![j] = x] /\ UNCHANGED <<snapshots, fips, network, scrubs, excused>>
    BY <1>3, <2>1, <2>2 DEF Compute, database
  <2>4. \A c \in p : c[1] \in job.pop.ids
    BY PayloadRefers
  <2>5. JobRefers(x, Resolvable)
    BY <1>0, <2>1, <2>4 DEF JobRefers, JobShape
  <2>6. QED
    BY <2>3, <2>5, JobStep
<1>4. CASE GiveUp(j)
  <2> DEFINE x == IF job.kind \in {"get", "sync"} THEN None ELSE Ended(job)
  <2>1. jobs' = [jobs EXCEPT ![j] = x] /\ UNCHANGED <<snapshots, fips, network, scrubs, excused>>
    BY <1>4 DEF GiveUp, database
  <2>2. x # None => JobRefers(x, Resolvable)
    BY <1>0, EndedRefers
  <2>3. QED
    BY <2>1, <2>2, JobStep
<1>5. CASE MarkComputing(j)
  <2>1. snapshots' = [k \in Stored' |-> snapshots'[k]]
    BY <1>5 DEF MarkComputing, Stored
  <2> DEFINE key == Key(job.spec, job.viewer, job.views[job.marked + 1], "default")
             new == Row("computing", None,
                        [ids |-> {}, max |-> None, epoch |-> 0, stale |-> FALSE], TRUE)
             kind == IF job.marked + 1 = Len(job.views) THEN "due" ELSE job.kind
             x == [kind |-> kind, spec |-> job.spec, viewer |-> job.viewer,
                   params |-> job.params, views |-> job.views, marked |-> job.marked + 1,
                   pop |-> job.pop, payload |-> job.payload]
  <2>2. ASSUME NEW k \in Stored' PROVE RowRefers(k, snapshots'[k], Nameable)
    <3>1. CASE k # key
      <4>1. k \in Stored /\ snapshots'[k] = snapshots[k]
        BY <1>5, <3>1 DEF MarkComputing, Stored
      <4>2. QED
        BY <4>1 DEF Forgotten
    <3>2. CASE k = key /\ k \in Stored
      <4>1. snapshots'[k] = [snapshots[k] EXCEPT !.status = "computing"]
        BY <1>5, <3>2 DEF MarkComputing
      <4>2. RowRefers(k, snapshots[k], Nameable)
        BY <3>2 DEF Forgotten
      <4>3. QED
        BY <4>1, <4>2, StatusRefers
    <3>3. CASE k = key /\ k \notin Stored
      <4>1. snapshots'[k] = new
        BY <1>5, <3>3 DEF MarkComputing
      <4>2. QED
        BY <4>1 DEF Row, RowRefers, RowShape
    <3>4. QED
      BY <3>1, <3>2, <3>3
  <2>3. [job EXCEPT !.marked = job.marked + 1, !.kind = kind] = x
    <3> DEFINE e == [job EXCEPT !.marked = job.marked + 1, !.kind = kind]
    <3> HIDE DEF e
    <3>1. e = [f \in DOMAIN job |-> IF f = "kind" THEN kind
                                    ELSE IF f = "marked" THEN job.marked + 1 ELSE job[f]]
      BY DEF e
    <3>2. e = x
      BY <1>0, <3>1 DEF JobRefers, JobShape
    <3>3. QED
      BY <3>2 DEF e
  <2>4. jobs' = [jobs EXCEPT ![j] = x] /\ UNCHANGED <<fips, network, scrubs, excused>>
    BY <1>5, <2>3 DEF MarkComputing, database
  <2>5. JobRefers(x, Resolvable)
    BY <1>0 DEF JobRefers, JobShape
  <2>6. \A i \in Jobs : jobs'[i] # None => JobRefers(jobs'[i], Resolvable)
    BY <2>4, <2>5 DEF Forgotten
  <2>7. jobs' = [i \in Jobs |-> jobs'[i]]
    BY <2>4 DEF Forgotten
  <2>8. QED
    BY <2>1, <2>2, <2>4, <2>6, <2>7, RowStep
<1>6. CASE Store(j)
  <2>1. snapshots' = [k \in Stored' |-> snapshots'[k]]
    BY <1>6 DEF Store, Stored
  <2>2. ASSUME NEW k \in Stored' PROVE RowRefers(k, snapshots'[k], Nameable)
    <3>1. CASE k # JobKey(job)
      <4>1. k \in Stored /\ snapshots'[k] = snapshots[k]
        BY <1>6, <3>1 DEF Store, Stored
      <4>2. QED
        BY <4>1 DEF Forgotten
    <3>2. CASE k = JobKey(job)
      <4>1. snapshots'[k] = Row("fresh", job.payload, Stamp(job), FALSE)
        BY <1>6, <3>2 DEF Store
      <4>2. \A c \in job.payload : c[1] \in Resolvable
        BY <1>0, <1>6 DEF Store, JobRefers
      <4>3. QED
        BY <4>1, <4>2 DEF Row, RowRefers, RowShape, Resolvable, Nameable
    <3>3. QED
      BY <3>1, <3>2
  <2>3. jobs' = [jobs EXCEPT ![j] = Ended(job)] /\ UNCHANGED <<fips, network, scrubs, excused>>
    BY <1>6 DEF Store, database
  <2>4. Ended(job) # None => JobRefers(Ended(job), Resolvable)
    BY <1>0, EndedRefers
  <2>5. \A i \in Jobs : jobs'[i] # None => JobRefers(jobs'[i], Resolvable)
    BY <2>3, <2>4 DEF Forgotten
  <2>6. jobs' = [i \in Jobs |-> jobs'[i]]
    BY <2>3 DEF Forgotten
  <2>7. QED
    BY <2>1, <2>2, <2>3, <2>5, <2>6, RowStep
<1>7. QED
  BY <1>1, <1>2, <1>3, <1>4, <1>5, <1>6 DEF Computation

(* Every step keeps the strengthening: one case per action. *)
LEMMA ForgottenStep == Forgotten /\ [SNext]_svars => Forgotten'
<1> SUFFICES ASSUME Forgotten, [SNext]_svars PROVE Forgotten'
  OBVIOUS
<1>1. ASSUME NEW f, NEW row, BeginWrite(f, row) PROVE Forgotten'
  BY <1>1, BoundsGrow DEF BeginWrite, Forgotten, Resolvable, Nameable, Existing
<1>2. ASSUME NEW w, CommitWrite(w) PROVE Forgotten'
  BY <1>2, BoundsGrow DEF CommitWrite, Forgotten, Resolvable, Nameable, Existing
<1>3. ASSUME NEW f, DeleteFip(f) PROVE Forgotten'
  BY <1>3, RemoveForgets DEF DeleteFip
<1>4. ASSUME NEW f, DeleteWithOwner(f) PROVE Forgotten'
  BY <1>4, RemoveForgets DEF DeleteWithOwner
<1>5. ASSUME NEW f, Scrub(f) PROVE Forgotten'
  <2>1. snapshots' = [k \in {k \in Stored : k[3] \notin PairViews} |-> snapshots[k]]
    BY <1>5 DEF Scrub
  <2>2. \A k \in Stored' : k \in Stored /\ k[3] \notin PairViews /\ snapshots'[k] = snapshots[k]
    BY <2>1 DEF Stored
  <2>3. UNCHANGED <<Existing, Resolvable, jobs, network>>
    BY <1>5 DEF Scrub, database, Existing, Resolvable
  <2>4. \A k \in Stored' : RowRefers(k, snapshots'[k], Nameable')
    BY <2>2 DEF Forgotten, RowRefers
  <2>5. snapshots' = [k \in Stored' |-> snapshots'[k]]
    BY <2>1 DEF Stored
  <2>6. QED
    BY <2>3, <2>4, <2>5 DEF Forgotten
<1>6. ASSUME NEW n \in NetworkIds, IngestCommunity(n) PROVE Forgotten'
  BY <1>6, BoundsGrow DEF IngestCommunity, Forgotten, Resolvable, Nameable, Existing
<1>18. CASE BeginIngest
  BY <1>18, BoundsGrow DEF BeginIngest, Forgotten, Resolvable, Nameable, Existing
<1>7. CASE EditModel
  BY <1>7, BoundsGrow DEF EditModel, Forgotten, Resolvable, Nameable, Existing
<1>8. CASE Backfill
  BY <1>8, BoundsGrow DEF Backfill, Forgotten, Resolvable, Nameable, Existing
<1>9. ASSUME NEW u, DeleteAccount(u) PROVE Forgotten'
  BY <1>9, BoundsGrow DEF DeleteAccount, Forgotten, Resolvable, Nameable, Existing
<1>10. CASE Restart
  <2>1. /\ UNCHANGED <<Existing, network, snapshots, Stored>>
        /\ jobs' = [j \in Jobs |-> None] /\ excused \cup scrubs \subseteq excused'
    BY <1>10 DEF Restart, Existing, Stored
  <2>2. Nameable \subseteq Nameable'
    BY <2>1 DEF Nameable
  <2>3. \A k \in Stored' : RowRefers(k, snapshots'[k], Nameable')
    BY <2>1, <2>2 DEF Forgotten, RowRefers
  <2>4. QED
    BY <2>1, <2>3 DEF Forgotten
<1>11. ASSUME NEW j \in Jobs, NEW spec, NEW viewer, NEW view, Get(j, spec, viewer, view)
       PROVE  Forgotten'
  BY <1>11, BeginForgets, ResolvedRefers DEF Get
<1>12. ASSUME NEW j \in Jobs, NEW spec, NEW viewer, NEW views, Refresh(j, spec, viewer, views)
       PROVE  Forgotten'
  BY <1>12, BeginForgets DEF Refresh
<1>13. ASSUME NEW j \in Jobs, NEW spec, RefreshCommand(j, spec) PROVE Forgotten'
  BY <1>13, BeginForgets DEF RefreshCommand
<1>14. ASSUME NEW j \in Jobs, MarkComputing(j) \/ BeginTask(j) \/ Computation(j)
       PROVE  Forgotten'
  BY <1>14, ComputationForgets
<1>15. ASSUME NEW k, Drain(k) PROVE Forgotten'
  <2>1. snapshots' = [x \in Stored \ {k} |-> snapshots[x]]
    BY <1>15 DEF Drain
  <2>2. UNCHANGED <<jobs, fips, network, scrubs, excused>>
    BY <1>15 DEF Drain, database
  <2>3. QED
    BY <2>1, <2>2, RowStep DEF Forgotten, Stored
<1>16. ASSUME NEW k, Expire(k) PROVE Forgotten'
  <2>1. k \in Stored /\ snapshots' = [snapshots EXCEPT ![k].expired = TRUE]
    BY <1>16 DEF Expire
  <2>2. UNCHANGED <<jobs, fips, network, scrubs, excused>>
    BY <1>16 DEF Expire, database
  <2>3. Stored' = Stored /\ snapshots' = [x \in Stored' |-> snapshots'[x]]
    BY <2>1 DEF Stored, Forgotten
  <2>4. \A x \in Stored : RowRefers(x, snapshots[x], Nameable)
    BY DEF Forgotten
  <2>5. \A x \in Stored : x # k => snapshots'[x] = snapshots[x]
    BY <2>1 DEF Stored
  <2>6. snapshots'[k] = [snapshots[k] EXCEPT !.expired = TRUE]
    BY <2>1 DEF Stored
  <2>7. RowRefers(k, snapshots'[k], Nameable)
    <3>1. RowRefers(k, snapshots[k], Nameable)
      BY <2>1, <2>4
    <3>2. RowRefers(k, [snapshots[k] EXCEPT !.expired = TRUE], Nameable)
      BY <3>1, ExpiredRefers, Zenon
    <3>3. QED
      BY <2>6, <3>2
  <2>8. \A x \in Stored' : RowRefers(x, snapshots'[x], Nameable)
    BY <2>3, <2>4, <2>5, <2>7
  <2>9. QED
    BY <2>2, <2>3, <2>8, RowStep DEF Forgotten
<1>17. CASE UNCHANGED svars
  BY <1>17, BoundsGrow DEF svars, database, Forgotten, Resolvable, Nameable, Existing
<1>19. QED
  BY <1>1, <1>2, <1>3, <1>4, <1>5, <1>6, <1>7, <1>8, <1>9, <1>10, <1>11, <1>12, <1>13,
     <1>14, <1>15, <1>16, <1>17, <1>18 DEF SNext

(* No stored cluster or map names a deleted FIP once its deletion has been *)
(* scrubbed -- except the FIPs that the code leaves out of the scrub: those *)
(* deleted with their session or owner, those whose scrub a restart took,  *)
(* and those a computation had resolved before.                            *)
THEOREM SSpec_DeletedIsForgotten == SSpec => []DeletedIsForgotten
<1>1. Forgotten => DeletedIsForgotten
  BY DEF Forgotten, DeletedIsForgotten, RowRefers, Nameable
<1>2. QED
  BY <1>1, ForgottenInit, ForgottenStep, PTL DEF SSpec

-----------------------------------------------------------------------------
(* Serving what is current *)

(* The times on rows, and those that wait for the lock or for an ingestion *)
(* to go on, are not after the clock, nor are those in stamps.             *)
Times ==
    /\ clock \in Nat /\ stamped \in 0..clock
    /\ DOMAIN fips \subseteq FipIds /\ DOMAIN network \subseteq NetworkIds
    /\ \A f \in Existing : Updated(f) \in 0..clock
    /\ \A w \in writes : w.fip \in FipIds /\ w.row.updated \in 0..clock
    /\ ingestion # None => ingestion \in 0..clock

(* A time that a stamp may bear *)
Past(t) == t \in 0..stamped

(* The FIPs of a population that have not moved since the stamp t, with    *)
(* their contents.                                                         *)
Still(spec, viewer, t) ==
    {<<f, Updated(f)>> : f \in {g \in MembersNow(spec, viewer) \ late : Updated(g) <= t}}

(* What a step does to a stamp: its time stays in the past, and only FIPs  *)
(* that have not moved count as such.                                      *)
Steady(spec, viewer, t) ==
    Past(t)' /\ Still(spec, viewer, t)' \subseteq Still(spec, viewer, t)

LEMMA MemberOfRow ==
    ASSUME NEW spec, NEW viewer, NEW f
    PROVE  f \in MembersNow(spec, viewer) <=>
               \/ f \in DOMAIN fips /\ Matches(SpecOf[spec], fips[f], viewer)
               \/ f \in DOMAIN network /\ \E t \in SpecOf[spec].include : t.kind = "network"
  BY DEF MembersNow, Members, LocalMembers, NetworkMembers

LEMMA MembersExist ==
    ASSUME NEW spec, NEW viewer PROVE MembersNow(spec, viewer) \subseteq Existing
  BY MemberOfRow DEF Existing

LEMMA TimesInit == SInit => Times
<1> SUFFICES ASSUME SInit PROVE Times
  OBVIOUS
<1>1. /\ fips = [f \in DOMAIN InitialRows |-> DatedRow(InitialRows[f], 0)]
      /\ network = [n \in InitialNetwork |-> 0]
      /\ writes = {} /\ clock = 0 /\ stamped = 0 /\ ingestion = None
  BY DEF SInit
<1>2. DOMAIN fips \subseteq FipIds /\ DOMAIN network \subseteq NetworkIds
  BY <1>1, SnapshotsAssumption
<1>3. \A f \in Existing : Updated(f) = 0
  BY <1>1, <1>2, PopulationsAssumption DEF Existing, Updated, DatedRow
<1>4. QED
  BY <1>1, <1>2, <1>3 DEF Times

(* A step that writes no row leaves all stamps as they are. *)
LEMMA NoWriteSteady ==
    ASSUME Times, UNCHANGED <<fips, network, writes, ingestion, clock, late>>,
           stamped' \in stamped..clock
    PROVE  /\ Times'
           /\ \A spec, viewer, t : Past(t) => Steady(spec, viewer, t)
           /\ \A spec, viewer, t : Still(spec, viewer, t)' = Still(spec, viewer, t)
<1>1. Existing' = Existing /\ \A f : Updated(f)' = Updated(f)
  BY DEF Existing, Updated
<1>2. \A t : Past(t) => Past(t)'
  BY DEF Past, Times
<1>3. \A spec, viewer, t : Still(spec, viewer, t)' = Still(spec, viewer, t)
  BY <1>1 DEF Still, MembersNow
<1>4. Times'
  BY <1>1 DEF Times
<1>5. QED
  BY <1>2, <1>3, <1>4 DEF Steady

(* ... nor does one that only moves the clock or chooses a time. *)
LEMMA ClockSteady ==
    ASSUME Times, UNCHANGED <<fips, network, stamped, late>>,
           clock' \in Nat, clock <= clock',
           \A w \in writes' : w.fip \in FipIds /\ w.row.updated \in 0..clock',
           ingestion' # None => ingestion' \in 0..clock'
    PROVE  Times' /\ \A spec, viewer, t : Past(t) => Steady(spec, viewer, t)
<1>1. Existing' = Existing /\ \A f : Updated(f)' = Updated(f)
  BY DEF Existing, Updated
<1>2. \A t : Past(t)' = Past(t)
  BY DEF Past
<1>3. \A spec, viewer, t : Still(spec, viewer, t)' = Still(spec, viewer, t)
  BY <1>1 DEF Still, MembersNow
<1>4. stamped' \in 0..clock' /\ \A f \in Existing' : Updated(f)' \in 0..clock'
  BY <1>1 DEF Times
<1>5. Times'
  BY <1>4 DEF Times
<1>6. QED
  BY <1>2, <1>3, <1>5 DEF Steady

LEMMA BeginWriteSteady ==
    ASSUME Times, NEW f \in FipIds, NEW row, BeginWrite(f, row)
    PROVE  Times' /\ \A spec, viewer, t : Past(t) => Steady(spec, viewer, t)
<1> DEFINE new == [fip |-> f, row |-> DatedRow(row, clock + 1)]
<1>1. /\ clock' = clock + 1 /\ writes' = writes \cup {new}
      /\ UNCHANGED <<fips, network, ingestion, stamped, late>>
  BY DEF BeginWrite
<1>2. new.fip = f /\ new.row.updated = clock + 1
  BY DEF DatedRow
<1> HIDE DEF new
<1>3. \A w \in writes' : w.fip \in FipIds /\ w.row.updated \in 0..clock'
  BY <1>1, <1>2 DEF Times
<1>4. clock' \in Nat /\ clock <= clock' /\ (ingestion' # None => ingestion' \in 0..clock')
  BY <1>1 DEF Times
<1>5. QED
  BY <1>1, <1>3, <1>4, ClockSteady

LEMMA BeginIngestSteady ==
    ASSUME Times, BeginIngest
    PROVE  Times' /\ \A spec, viewer, t : Past(t) => Steady(spec, viewer, t)
<1>1. /\ clock' = clock + 1 /\ ingestion' = clock + 1
      /\ UNCHANGED <<fips, network, writes, stamped, late>>
  BY DEF BeginIngest
<1>2. /\ clock' \in Nat /\ clock <= clock' /\ (ingestion' # None => ingestion' \in 0..clock')
      /\ \A w \in writes' : w.fip \in FipIds /\ w.row.updated \in 0..clock'
  BY <1>1 DEF Times
<1>3. QED
  BY <1>1, <1>2, ClockSteady

(* A row that is committed has a time after every stamp, or is late. *)
LEMMA CommitSteady ==
    ASSUME Times, NEW f, NEW time \in 0..clock,
           Existing' = Existing \cup {f}, Updated(f)' = time,
           \A g \in Existing : g # f => Updated(g)' = Updated(g),
           late' = LateIf(f, time), stamped' = stamped,
           \A spec, viewer : \A g \in MembersNow(spec, viewer)' :
               g # f => g \in MembersNow(spec, viewer)
    PROVE  \A spec, viewer, t : Past(t) => Steady(spec, viewer, t)
<1> SUFFICES ASSUME NEW spec, NEW viewer, NEW t, Past(t) PROVE Steady(spec, viewer, t)
  OBVIOUS
<1>1. Past(t)' /\ t \in Nat /\ t <= stamped /\ stamped \in Nat
  BY DEF Past, Times
<1>2. f \in late' \/ ~ (time <= t)
  BY <1>1 DEF LateIf
<1>3. ASSUME NEW g, g \in MembersNow(spec, viewer)', g \notin late', Updated(g)' <= t
      PROVE  g \in MembersNow(spec, viewer) \ late /\ Updated(g)' = Updated(g)
  <2>1. g # f
    BY <1>2, <1>3
  <2>2. g \in MembersNow(spec, viewer) /\ g \notin late
    BY <1>3, <2>1 DEF LateIf
  <2>3. g \in Existing
    BY <2>2, MembersExist
  <2>4. QED
    BY <2>1, <2>2, <2>3
<1>4. QED
  BY <1>1, <1>3 DEF Still, Steady

LEMMA CommitWriteSteady ==
    ASSUME Times, NEW w \in writes, CommitWrite(w)
    PROVE  Times' /\ \A spec, viewer, t : Past(t) => Steady(spec, viewer, t)
<1> SUFFICES ASSUME NEW f, f = w.fip, NEW time, time = w.row.updated
             PROVE  Times' /\ \A spec, viewer, t : Past(t) => Steady(spec, viewer, t)
  OBVIOUS
<1>1. /\ writes' = writes \ {w}
      /\ fips' = [g \in DOMAIN fips \cup {f} |-> IF g = f THEN w.row ELSE fips[g]]
      /\ late' = LateIf(f, time)
      /\ UNCHANGED <<network, ingestion, clock, stamped>>
  BY DEF CommitWrite
<1>2. f \in FipIds /\ f \notin NetworkIds /\ time \in 0..clock
  BY PopulationsAssumption DEF Times
<1>3. Existing' = Existing \cup {f}
  BY <1>1 DEF Existing
<1>4. Updated(f)' = time
  BY <1>1, <1>2 DEF Updated
<1>5. \A g \in Existing : g # f => Updated(g)' = Updated(g)
  BY <1>1 DEF Updated, Existing, Times
<1>6. ASSUME NEW spec, NEW viewer, NEW g, g \in MembersNow(spec, viewer)', g # f
      PROVE  g \in MembersNow(spec, viewer)
  <2>1. \/ g \in DOMAIN fips' /\ Matches(SpecOf[spec], fips'[g], viewer)
        \/ g \in DOMAIN network' /\ \E x \in SpecOf[spec].include : x.kind = "network"
    BY <1>6 DEF MembersNow, Members, LocalMembers, NetworkMembers
  <2>2. g \in DOMAIN fips' => g \in DOMAIN fips /\ fips'[g] = fips[g]
    BY <1>1, <1>6
  <2>3. QED
    BY <1>1, <2>1, <2>2, MemberOfRow
<1>7. Times'
  <2>1. \A g \in Existing' : Updated(g)' \in 0..clock'
    BY <1>1, <1>2, <1>3, <1>4, <1>5 DEF Times
  <2>2. QED
    BY <1>1, <1>2, <2>1 DEF Times
<1>8. QED
  BY <1>1, <1>2, <1>3, <1>4, <1>5, <1>6, <1>7, CommitSteady

LEMMA IngestSteady ==
    ASSUME Times, NEW n \in NetworkIds, IngestCommunity(n)
    PROVE  Times' /\ \A spec, viewer, t : Past(t) => Steady(spec, viewer, t)
<1>1. /\ network' = [m \in DOMAIN network \cup {n} |-> IF m = n THEN ingestion ELSE network[m]]
      /\ late' = LateIf(n, ingestion)
      /\ UNCHANGED <<fips, writes, ingestion, clock, stamped>>
  BY DEF IngestCommunity
<1>2. ingestion \in 0..clock
  BY DEF IngestCommunity, Times
<1>3. Existing' = Existing \cup {n} /\ Updated(n)' = ingestion
  BY <1>1 DEF Existing, Updated
<1>4. \A g \in Existing : g # n => Updated(g)' = Updated(g)
  <2>1. SUFFICES ASSUME NEW g \in Existing, g # n PROVE Updated(g)' = Updated(g)
    OBVIOUS
  <2>2. CASE g \in NetworkIds
    <3>1. g \in DOMAIN network
      BY <2>2, PopulationsAssumption DEF Existing, Times
    <3>2. QED
      BY <1>1, <2>1, <2>2, <3>1 DEF Updated
  <2>3. CASE g \notin NetworkIds
    BY <1>1, <2>3 DEF Updated
  <2>4. QED
    BY <2>2, <2>3
<1>5. ASSUME NEW spec, NEW viewer, NEW g, g \in MembersNow(spec, viewer)', g # n
      PROVE  g \in MembersNow(spec, viewer)
  <2>1. \/ g \in DOMAIN fips' /\ Matches(SpecOf[spec], fips'[g], viewer)
        \/ g \in DOMAIN network' /\ \E x \in SpecOf[spec].include : x.kind = "network"
    BY <1>5 DEF MembersNow, Members, LocalMembers, NetworkMembers
  <2>2. QED
    BY <1>1, <1>5, <2>1, MemberOfRow
<1>6. Times'
  <2>1. \A g \in Existing' : Updated(g)' \in 0..clock'
    BY <1>1, <1>2, <1>3, <1>4 DEF Times
  <2>2. QED
    BY <1>1, <2>1 DEF Times
<1>7. QED
  BY <1>1, <1>2, <1>3, <1>4, <1>5, <1>6, CommitSteady

LEMMA RemoveSteady ==
    ASSUME Times, NEW f \in FipIds, Remove(f)
    PROVE  Times' /\ \A spec, viewer, t : Past(t) => Steady(spec, viewer, t)
<1>1. /\ fips' = [g \in DOMAIN fips \ {f} |-> fips[g]]
      /\ writes' = {w \in writes : w.fip # f} /\ late' = late \ {f}
      /\ UNCHANGED <<network, ingestion, clock, stamped>>
  BY DEF Remove
<1>2. Existing' \subseteq Existing /\ f \notin Existing'
  BY <1>1, PopulationsAssumption DEF Existing, Times
<1>3. \A g \in Existing' : Updated(g)' = Updated(g)
  BY <1>1 DEF Updated, Existing, Times
<1>4. Times'
  BY <1>1, <1>2, <1>3 DEF Times
<1>5. ASSUME NEW spec, NEW viewer, NEW t, Past(t) PROVE Steady(spec, viewer, t)
  <2>1. Past(t)'
    BY <1>1, <1>5 DEF Past
  <2>2. ASSUME NEW g, g \in MembersNow(spec, viewer)', g \notin late'
        PROVE  g \in MembersNow(spec, viewer) \ late /\ Updated(g)' = Updated(g)
    <3>1. \/ g \in DOMAIN fips' /\ Matches(SpecOf[spec], fips'[g], viewer)
          \/ g \in DOMAIN network' /\ \E x \in SpecOf[spec].include : x.kind = "network"
      BY <2>2 DEF MembersNow, Members, LocalMembers, NetworkMembers
    <3>2. g \in MembersNow(spec, viewer)
      BY <1>1, <3>1, MemberOfRow
    <3>3. g \in Existing'
      BY <3>1 DEF Existing
    <3>4. QED
      BY <1>1, <1>2, <1>3, <2>2, <3>2, <3>3
  <2>3. QED
    BY <2>1, <2>2 DEF Still, Steady
<1>6. QED
  BY <1>4, <1>5

(* A restart loses the writes that wait. *)
LEMMA RestartSteady ==
    ASSUME Times, Restart
    PROVE  Times' /\ \A spec, viewer, t : Past(t) => Steady(spec, viewer, t)
<1>1. writes' = {} /\ UNCHANGED <<fips, network, ingestion, clock, stamped, late>>
  BY DEF Restart
<1>2. /\ clock' \in Nat /\ clock <= clock' /\ (ingestion' # None => ingestion' \in 0..clock')
      /\ \A w \in writes' : w.fip \in FipIds /\ w.row.updated \in 0..clock'
  BY <1>1 DEF Times
<1>3. QED
  BY <1>1, <1>2, ClockSteady
-----------------------------------------------------------------------------
(* The latest time of a population *)

LEMMA GreatestExists ==
    ASSUME NEW n \in Nat, NEW T, T \subseteq 0..n, T # {}
    PROVE  \E t \in T : \A s \in T : s <= t
<1> DEFINE Less == {ss \in Nat \X Nat : ss[1] < ss[2]}
           D == {n - t : t \in T}
<1>1. IsWellFoundedOn(Less, Nat)
  BY NatLessThanWellFounded DEF OpToRel
<1>0. \A t \in T : n - t \in Nat /\ t \in Nat
  OBVIOUS
<1>2. D \subseteq Nat /\ D # {}
  <2>1. \A d \in D : d \in Nat
    <3>1. SUFFICES ASSUME NEW d \in D PROVE d \in Nat
      OBVIOUS
    <3>2. PICK t \in T : d = n - t
      OBVIOUS
    <3>3. QED
      BY <1>0, <3>2
  <2>2. QED
    BY <2>1
<1>3. PICK d \in D : \A e \in D : ~ (<<e, d>> \in Less)
  <2> HIDE DEF Less, D
  <2>1. QED
    BY <1>1, <1>2, WFMin
<1>4. \A e \in D : d <= e
  <2>1. SUFFICES ASSUME NEW e \in D PROVE ~ (e < d)
    BY <1>2
  <2>2. ~ (<<e, d>> \in Less) /\ e \in Nat /\ d \in Nat
    BY <1>2, <1>3
  <2>3. QED
    BY <2>2
<1>5. PICK t \in T : d = n - t
  BY <1>3
<1>6. ASSUME NEW s \in T PROVE s <= t
  <2>1. d <= n - s
    BY <1>4
  <2>2. QED
    BY <1>5, <2>1
<1>7. QED
  BY <1>6

LEMMA LatestBounds ==
    ASSUME Times, NEW ids, ids \subseteq Existing, ids # {}
    PROVE  /\ Latest(ids) \in {Updated(f) : f \in ids}
           /\ \A f \in ids : Updated(f) <= Latest(ids)
<1> DEFINE T == {Updated(f) : f \in ids}
<1>1. T \subseteq 0..clock /\ T # {} /\ clock \in Nat
  BY DEF Times
<1>2. PICK t \in T : \A s \in T : s <= t
  <2> HIDE DEF T
  <2>1. QED
    BY <1>1, GreatestExists
<1>3. Latest(ids) = CHOOSE x \in {Updated(f) : f \in ids} : \A f \in ids : Updated(f) <= x
  BY DEF Latest
<1>4. \E x \in {Updated(f) : f \in ids} : \A f \in ids : Updated(f) <= x
  BY <1>2
<1>5. QED
  BY <1>3, <1>4

LEMMA ExistingFinite == ASSUME Times PROVE IsFiniteSet(Existing)
<1>1. IsFiniteSet(FipIds \cup NetworkIds)
  BY SnapshotsAssumption, FS_Union
<1>2. QED
  BY <1>1, FS_Subset DEF Times, Existing

(* A content has one entry for each FIP. *)
LEMMA ContentSize ==
    ASSUME NEW ids, IsFiniteSet(ids)
    PROVE  /\ IsFiniteSet(Content(ids)) /\ Cardinality(Content(ids)) <= Cardinality(ids)
           /\ ids \subseteq Existing => Cardinality(Content(ids)) = Cardinality(ids)
<1> DEFINE here == ids \cap Existing
           g == [f \in here |-> <<f, Updated(f)>>]
<1>1. IsFiniteSet(here) /\ Cardinality(here) <= Cardinality(ids)
  BY FS_Subset
<1>2. g \in Bijection(here, Content(ids))
  BY DEF Bijection, Injection, Surjection, IsInjective, Content
<1>3. IsFiniteSet(Content(ids)) /\ Cardinality(Content(ids)) = Cardinality(here)
  BY <1>1, <1>2, FS_Bijection DEF ExistsBijection
<1>4. QED
  BY <1>1, <1>3

-----------------------------------------------------------------------------
(* The strengthening of ServedIsCurrent *)

(* A payload of some members, against those that have not moved since the  *)
(* stamp t: it is not larger, and shows all of them.                       *)
Shows(payload, members, spec, viewer, t) ==
    /\ IsFiniteSet(payload) /\ Cardinality(payload) <= Cardinality(members)
    /\ \A c \in Still(spec, viewer, t) : c[1] \in members => c \in payload

(* The members that were resolved include all that have not moved since. *)
Covers(ids, spec, viewer, t) ==
    IsFiniteSet(ids) /\ \A c \in Still(spec, viewer, t) : c[1] \in ids

JobCurrent(x) ==
    /\ x.viewer \in Viewers
    /\ x.pop # None =>
        /\ x.kind \in {"get", "sync", "task", "command"}
        /\ IsFiniteSet(x.pop.ids)
        /\ x.pop.ids # {} =>
              Past(x.pop.max) /\ Covers(x.pop.ids, x.spec, x.viewer, x.pop.max)
    /\ x.payload # None =>
        /\ x.pop # None
        /\ x.pop.ids # {} =>
              Shows(x.payload, Shown(Head(x.views), x.pop, x.pop.ids),
                    x.spec, x.viewer, x.pop.max)

(* A row was made from a population of as many members as it says. *)
Backed(row, view, spec, viewer, ids) ==
    /\ Cardinality(ids) = row.count
    /\ Covers(ids, spec, viewer, row.max)
    /\ Shows(row.payload, Shown(view, row, ids), spec, viewer, row.max)

RowCurrent(k, row) ==
    \A spec \in Specs, viewer \in Viewers, view \in Views :
        k = Key(spec, viewer, view, "default") /\ row.count > LiveMax =>
            Past(row.max) /\ \E ids : Backed(row, view, spec, viewer, ids)

(* (x and row name a value that a step may change.) *)
Current ==
    /\ Forgotten /\ Times
    /\ \A j \in Jobs : \A x : x = jobs[j] /\ x # None => JobCurrent(x)
    /\ \A k \in Stored : \A row : row = snapshots[k] => RowCurrent(k, row)

LEMMA ShowsStays ==
    ASSUME NEW payload, NEW members, NEW spec, NEW viewer, NEW t,
           Shows(payload, members, spec, viewer, t), Steady(spec, viewer, t)
    PROVE  Shows(payload, members, spec, viewer, t)'
  BY DEF Shows, Steady

LEMMA CoversStays ==
    ASSUME NEW ids, NEW spec, NEW viewer, NEW t,
           Covers(ids, spec, viewer, t), Steady(spec, viewer, t)
    PROVE  Covers(ids, spec, viewer, t)'
  BY DEF Covers, Steady

LEMMA JobStays ==
    ASSUME NEW x, JobCurrent(x), \A spec, viewer, t : Past(t) => Steady(spec, viewer, t)
    PROVE  JobCurrent(x)'
<1> SUFFICES ASSUME NEW pop, pop = x.pop, NEW shown, shown = Shown(Head(x.views), pop, pop.ids)
             PROVE  JobCurrent(x)'
  OBVIOUS
<1>1. ASSUME pop # None, pop.ids # {}
      PROVE  Past(pop.max)' /\ Covers(pop.ids, x.spec, x.viewer, pop.max)'
  <2>1. Past(pop.max) /\ Covers(pop.ids, x.spec, x.viewer, pop.max)
    BY <1>1 DEF JobCurrent
  <2>2. Steady(x.spec, x.viewer, pop.max)
    BY <2>1
  <2>3. QED
    BY <2>1, <2>2, CoversStays DEF Steady
<1>2. ASSUME x.payload # None, pop.ids # {}
      PROVE  Shows(x.payload, shown, x.spec, x.viewer, pop.max)'
  <2>1. Past(pop.max) /\ Shows(x.payload, shown, x.spec, x.viewer, pop.max)
    BY <1>2 DEF JobCurrent
  <2>2. Steady(x.spec, x.viewer, pop.max)
    BY <2>1
  <2>3. QED
    BY <2>1, <2>2, ShowsStays
<1>3. QED
  BY <1>1, <1>2 DEF JobCurrent

LEMMA RowStays ==
    ASSUME NEW k, NEW row, RowCurrent(k, row),
           \A spec, viewer, t : Past(t) => Steady(spec, viewer, t)
    PROVE  RowCurrent(k, row)'
<1>1. SUFFICES ASSUME NEW spec \in Specs, NEW viewer \in Viewers, NEW view \in Views,
                      k = Key(spec, viewer, view, "default"), row.count > LiveMax
               PROVE  Past(row.max)' /\ \E ids : Backed(row, view, spec, viewer, ids)'
  BY DEF RowCurrent, Key
<1>2. Past(row.max) /\ \E ids : Backed(row, view, spec, viewer, ids)
  BY <1>1 DEF RowCurrent
<1>3. PICK ids : Backed(row, view, spec, viewer, ids)
  BY <1>2
<1>4. Steady(spec, viewer, row.max)
  BY <1>2
<1>5. Backed(row, view, spec, viewer, ids)'
  BY <1>3, <1>4, ShowsStays, CoversStays DEF Backed
<1>6. QED
  BY <1>4, <1>5 DEF Steady

(* A step that writes no row of the cache and begins no computation *)
LEMMA DatabaseStep ==
    ASSUME Current, Forgotten', Times', UNCHANGED <<jobs, snapshots>>,
           \A spec, viewer, t : Past(t) => Steady(spec, viewer, t)
    PROVE  Current'
<1>1. \A j \in Jobs : \A x : x = jobs'[j] /\ x # None => JobCurrent(x)'
  BY JobStays DEF Current
<1>2. \A k \in Stored' : \A row : row = snapshots'[k] => RowCurrent(k, row)'
  BY RowStays DEF Current, Stored
<1>3. QED
  BY <1>1, <1>2 DEF Current

(* ... and one that does, and leaves the database alone *)
LEMMA CacheStep ==
    ASSUME Current, Forgotten',
           UNCHANGED <<fips, network, writes, ingestion, clock, stamped, late>>,
           \A j \in Jobs : \A x : x = jobs'[j] /\ x # None => JobCurrent(x),
           \A k \in Stored' : \A row : row = snapshots'[k] => RowCurrent(k, row)
    PROVE  Current'
<1>1. Times' /\ \A spec, viewer, t : Past(t) => Steady(spec, viewer, t)
  <2>1. Times /\ stamped' \in stamped..clock
    BY DEF Current, Times
  <2>2. QED
    BY <2>1, NoWriteSteady
<1>2. \A j \in Jobs : \A x : x = jobs'[j] /\ x # None => JobCurrent(x)'
  BY <1>1, JobStays
<1>3. \A k \in Stored' : \A row : row = snapshots'[k] => RowCurrent(k, row)'
  BY <1>1, RowStays
<1>4. QED
  BY <1>1, <1>2, <1>3 DEF Current

(* ... and of these, one that changes a single computation *)
LEMMA OneJobStep ==
    ASSUME Current, Forgotten',
           UNCHANGED <<fips, network, writes, ingestion, clock, stamped, late, snapshots>>,
           NEW j \in Jobs, NEW y, jobs' = [jobs EXCEPT ![j] = y], y # None => JobCurrent(y)
    PROVE  Current'
<1>1. \A i \in Jobs : \A x : x = jobs'[i] /\ x # None => JobCurrent(x)
  BY DEF Current, Forgotten
<1>2. \A k \in Stored' : \A row : row = snapshots'[k] => RowCurrent(k, row)
  BY DEF Current, Stored
<1>3. QED
  BY <1>1, <1>2, CacheStep

(* What is resolved is current at that moment. *)
LEMMA ResolvedCurrent ==
    ASSUME Times, NEW spec, NEW viewer, NEW pop, pop = Resolved(spec, viewer)
    PROVE  /\ IsFiniteSet(pop.ids) /\ Covers(pop.ids, spec, viewer, pop.max)
           /\ pop.ids # {} => pop.max \in 0..clock
<1>1. pop.ids = MembersNow(spec, viewer) /\ pop.max = Latest(pop.ids)
  BY DEF Resolved
<1>2. pop.ids \subseteq Existing
  BY <1>1, MembersExist
<1>3. IsFiniteSet(pop.ids)
  BY <1>2, ExistingFinite, FS_Subset
<1>4. \A c \in Still(spec, viewer, pop.max) : c[1] \in pop.ids
  BY <1>1 DEF Still
<1>5. pop.ids # {} => pop.max \in 0..clock
  BY <1>1, <1>2, LatestBounds DEF Times
<1>6. QED
  BY <1>3, <1>4, <1>5 DEF Covers

(* A step that takes a stamp: from then on, its time is past. *)
LEMMA NoteStep ==
    ASSUME Current, Forgotten',
           UNCHANGED <<fips, network, writes, ingestion, clock, late, snapshots>>,
           NEW j \in Jobs, NEW y, jobs' = [jobs EXCEPT ![j] = y],
           NEW spec, NEW viewer \in Viewers, NEW pop, Note(pop),
           y.pop = pop, y.spec = spec, y.viewer = viewer, y.payload = None,
           pop # None => /\ pop = Resolved(spec, viewer)
                         /\ y.kind \in {"get", "sync", "task", "command"}
    PROVE  Current'
<1>1. pop # None => /\ IsFiniteSet(pop.ids) /\ Covers(pop.ids, spec, viewer, pop.max)
                    /\ pop.ids # {} => pop.max \in 0..clock
  BY ResolvedCurrent DEF Current
<1>2. stamped' \in stamped..clock /\ Times
  BY <1>1 DEF Note, Current, Times
<1>3. /\ Times'
      /\ \A s, v, t : Past(t) => Steady(s, v, t)
      /\ \A s, v, t : Still(s, v, t)' = Still(s, v, t)
  BY <1>2, NoWriteSteady
<1>4. pop # None /\ pop.ids # {} => Past(pop.max)'
  BY <1>1, <1>2 DEF Note, Past, Times
<1>5. pop # None => Covers(pop.ids, spec, viewer, pop.max)'
  BY <1>1, <1>3 DEF Covers
<1>6. JobCurrent(y)'
  BY <1>1, <1>4, <1>5 DEF JobCurrent
<1>7. \A i \in Jobs : \A x : x = jobs'[i] /\ x # None => JobCurrent(x)'
  <2>1. SUFFICES ASSUME NEW i \in Jobs, NEW x, x = jobs'[i], x # None PROVE JobCurrent(x)'
    OBVIOUS
  <2>2. CASE i = j
    BY <1>6, <2>1, <2>2 DEF Current, Forgotten
  <2>3. CASE i # j
    <3>1. JobCurrent(x)
      BY <2>1, <2>3 DEF Current, Forgotten
    <3>2. QED
      BY <1>3, <3>1, JobStays
  <2>4. QED
    BY <2>2, <2>3
<1>8. \A k \in Stored' : \A row : row = snapshots'[k] => RowCurrent(k, row)'
  BY <1>3, RowStays DEF Current, Stored
<1>9. QED
  BY <1>3, <1>7, <1>8 DEF Current

LEMMA BeginCurrent ==
    ASSUME Current, Forgotten', NEW j \in Jobs, NEW kind, NEW spec, NEW viewer \in Viewers,
           NEW params, NEW views, NEW pop, Begin(j, kind, spec, viewer, params, views, pop),
           pop # None => pop = Resolved(spec, viewer) /\ kind = "get"
    PROVE  Current'
<1> DEFINE x == [kind |-> kind, spec |-> spec, viewer |-> viewer, params |-> params,
                 views |-> views, marked |-> 0, pop |-> pop, payload |-> None]
<1>1. jobs' = [jobs EXCEPT ![j] = x] /\ Note(pop)
      /\ UNCHANGED <<fips, network, writes, ingestion, clock, late, snapshots>>
  BY DEF Begin, database
<1>2. x.payload = None /\ x.pop = pop /\ x.kind = kind /\ x.spec = spec /\ x.viewer = viewer
  OBVIOUS
<1> HIDE DEF x
<1>3. QED
  BY <1>1, <1>2, NoteStep

LEMMA EndedCurrent ==
    ASSUME NEW x, JobShape(x), JobCurrent(x), Ended(x) # None
    PROVE  JobCurrent(Ended(x))
<1> DEFINE y == [kind |-> x.kind, spec |-> x.spec, viewer |-> x.viewer, params |-> x.params,
                 views |-> Tail(x.views), marked |-> x.marked, pop |-> None, payload |-> None]
<1>1. Ended(x) = [x EXCEPT !.views = Tail(@), !.pop = None, !.payload = None]
  BY DEF Ended
<1>2. Ended(x) = y
  BY <1>1 DEF JobShape
<1>3. y.pop = None /\ y.payload = None /\ y.viewer \in Viewers
  BY DEF JobCurrent
<1> HIDE DEF y
<1>4. JobCurrent(y)
  BY <1>3 DEF JobCurrent
<1>5. QED
  BY <1>2, <1>4

LEMMA PayloadCurrent ==
    ASSUME NEW spec, NEW viewer, NEW pop, NEW view, NEW payload,
           payload = Payload(view, pop), IsFiniteSet(pop.ids)
    PROVE  Shows(payload, Shown(view, pop, pop.ids), spec, viewer, pop.max)
<1> SUFFICES ASSUME NEW shown, shown = Shown(view, pop, pop.ids)
             PROVE  Shows(payload, shown, spec, viewer, pop.max)
  OBVIOUS
<1>1. payload = Content(shown) /\ IsFiniteSet(shown)
  BY FS_Subset DEF Payload, Shown
<1>2. IsFiniteSet(payload) /\ Cardinality(payload) <= Cardinality(shown)
  BY <1>1, ContentSize
<1>3. ASSUME NEW c \in Still(spec, viewer, pop.max), c[1] \in shown PROVE c \in payload
  <2>1. PICK f \in MembersNow(spec, viewer) : c = <<f, Updated(f)>>
    BY DEF Still
  <2>2. f \in shown /\ f \in Existing
    BY <1>3, <2>1, MembersExist
  <2>3. QED
    BY <1>1, <2>1, <2>2 DEF Content
<1>4. QED
  BY <1>2, <1>3 DEF Shows

(* One step of a computation *)
LEMMA ComputationCurrent ==
    ASSUME Current, NEW j \in Jobs, Resolve(j) \/ Compute(j) \/ GiveUp(j) \/ BeginTask(j)
    PROVE  Current'
<1>0. Forgotten'
  BY ComputationForgets DEF Current, Computation
<1> SUFFICES ASSUME NEW job, job = jobs[j] PROVE Current'
  OBVIOUS
<1>1. job # None /\ JobShape(job) /\ JobCurrent(job)
  BY DEF Resolve, Compute, GiveUp, BeginTask, Runs, Current, Forgotten, JobRefers
<1>2. CASE Resolve(j)
  <2> SUFFICES ASSUME NEW r, r = Resolved(job.spec, job.viewer) PROVE Current'
    OBVIOUS
  <2> DEFINE x == [kind |-> job.kind, spec |-> job.spec, viewer |-> job.viewer,
                   params |-> job.params, views |-> job.views, marked |-> job.marked,
                   pop |-> r, payload |-> job.payload]
  <2>1. jobs[j].pop = None /\ jobs' = [jobs EXCEPT ![j].pop = r]
        /\ job.kind \in {"get", "sync", "task", "command"}
    BY <1>2 DEF Resolve, Runs
  <2>2. [job EXCEPT !.pop = r] = x
    BY <1>1 DEF JobShape
  <2>3. jobs' = [jobs EXCEPT ![j] = x] /\ Note(r)
        /\ UNCHANGED <<fips, network, writes, ingestion, clock, late, snapshots>>
    BY <1>2, <2>1, <2>2 DEF Resolve, database
  <2>4. /\ x.pop = r /\ x.spec = job.spec /\ x.viewer = job.viewer /\ x.kind = job.kind
        /\ x.payload = None /\ job.viewer \in Viewers
    BY <1>1, <2>1 DEF JobCurrent
  <2> HIDE DEF x
  <2>5. QED
    BY <1>0, <2>1, <2>3, <2>4, NoteStep
<1>3. CASE Compute(j)
  <2> SUFFICES ASSUME NEW p, p = Payload(Head(job.views), job.pop) PROVE Current'
    OBVIOUS
  <2> DEFINE x == [kind |-> job.kind, spec |-> job.spec, viewer |-> job.viewer,
                   params |-> job.params, views |-> job.views, marked |-> job.marked,
                   pop |-> job.pop, payload |-> p]
  <2>1. job.pop # None /\ jobs' = [jobs EXCEPT ![j].payload = p]
    BY <1>3 DEF Compute
  <2>2. [job EXCEPT !.payload = p] = x
    BY <1>1 DEF JobShape
  <2>3. jobs' = [jobs EXCEPT ![j] = x]
        /\ UNCHANGED <<fips, network, writes, ingestion, clock, stamped, late, snapshots>>
    BY <1>3, <2>1, <2>2 DEF Compute, database
  <2>4. /\ x.pop = job.pop /\ x.spec = job.spec /\ x.viewer = job.viewer /\ x.kind = job.kind
        /\ x.payload = p /\ x.views = job.views
    OBVIOUS
  <2> HIDE DEF x
  <2>5. Shows(p, Shown(Head(job.views), job.pop, job.pop.ids), job.spec, job.viewer, job.pop.max)
    BY <1>1, <2>1, PayloadCurrent DEF JobCurrent
  <2>6. JobCurrent(x)
    BY <1>1, <2>1, <2>4, <2>5 DEF JobCurrent
  <2>7. QED
    BY <1>0, <2>3, <2>6, OneJobStep
<1>4. CASE GiveUp(j)
  <2> SUFFICES ASSUME NEW x, x = IF job.kind \in {"get", "sync"} THEN None ELSE Ended(job)
               PROVE  Current'
    OBVIOUS
  <2>1. jobs' = [jobs EXCEPT ![j] = x]
        /\ UNCHANGED <<fips, network, writes, ingestion, clock, stamped, late, snapshots>>
    BY <1>4 DEF GiveUp, database
  <2>2. x # None => JobCurrent(x)
    BY <1>1, EndedCurrent
  <2>3. QED
    BY <1>0, <2>1, <2>2, OneJobStep
<1>5. CASE BeginTask(j)
  <2> SUFFICES ASSUME NEW v, v = IF job.viewer # None /\ job.viewer \notin accounts THEN None
                                 ELSE job.viewer
               PROVE  Current'
    OBVIOUS
  <2> DEFINE x == [kind |-> "task", spec |-> job.spec, viewer |-> v, params |-> job.params,
                   views |-> job.views, marked |-> job.marked, pop |-> job.pop,
                   payload |-> job.payload]
  <2>1. [job EXCEPT !.kind = "task", !.viewer = v] = x
    <3> DEFINE e == [job EXCEPT !.kind = "task", !.viewer = v]
    <3> HIDE DEF e
    <3>1. e = [f \in DOMAIN job |-> IF f = "viewer" THEN v ELSE IF f = "kind" THEN "task"
                                    ELSE job[f]]
      BY DEF e
    <3>2. e = x
      BY <1>1, <3>1 DEF JobShape
    <3>3. QED
      BY <3>2 DEF e
  <2>2. jobs' = [jobs EXCEPT ![j] = x]
        /\ UNCHANGED <<fips, network, writes, ingestion, clock, stamped, late, snapshots>>
    BY <1>5, <2>1 DEF BeginTask, database
  <2>3. job.kind = "due" /\ v \in Viewers
    BY <1>1, <1>5 DEF BeginTask, JobCurrent, Viewers
  <2>4. x.viewer = v /\ x.pop = job.pop /\ x.payload = job.payload
    OBVIOUS
  <2> HIDE DEF x
  <2>5. JobCurrent(x)
    <3>1. job.pop = None /\ job.payload = None
      BY <1>1, <2>3 DEF JobCurrent
    <3>2. QED
      BY <2>3, <2>4, <3>1 DEF JobCurrent
  <2>6. QED
    BY <1>0, <2>2, <2>5, OneJobStep
<1>6. QED
  BY <1>2, <1>3, <1>4, <1>5

(* A row that is written: it holds for every viewer who shares its scope.  *)
LEMMA StoredCurrent ==
    ASSUME NEW x, JobCurrent(x), x.payload # None, NEW row,
           row = Row("fresh", x.payload, Stamp(x), FALSE)
    PROVE  RowCurrent(JobKey(x), row)
<1>1. /\ row.count = Cardinality(x.pop.ids) /\ row.max = x.pop.max /\ row.payload = x.payload
      /\ row.stale = x.pop.stale
  BY DEF Row, Stamp
<1>2. SUFFICES ASSUME NEW spec \in Specs, NEW viewer \in Viewers, NEW view \in Views,
                      JobKey(x) = Key(spec, viewer, view, "default"), row.count > LiveMax
               PROVE  Past(row.max) /\ Backed(row, view, spec, viewer, x.pop.ids)
  BY DEF RowCurrent
<1>3. /\ x.spec = spec /\ AuthScope(SpecOf[spec], x.viewer) = AuthScope(SpecOf[spec], viewer)
      /\ Head(x.views) = view
  BY <1>2 DEF JobKey, Key
<1>4. MembersNow(spec, x.viewer) = MembersNow(spec, viewer)
  BY <1>3, ScopeSeparates DEF JobCurrent, MembersNow
<1>5. Still(x.spec, x.viewer, row.max) = Still(spec, viewer, row.max)
  BY <1>3, <1>4 DEF Still
<1>6. x.pop # None /\ x.pop.ids # {}
  <2>1. x.pop # None /\ IsFiniteSet(x.pop.ids)
    BY DEF JobCurrent
  <2>2. Cardinality(x.pop.ids) > LiveMax
    BY <1>1, <1>2
  <2>3. LiveMax \in Nat /\ Cardinality({}) = 0
    BY FS_EmptySet, SnapshotsAssumption, Zenon
  <2>4. ~(0 > LiveMax)
    BY <2>3
  <2>5. x.pop.ids # {}
    BY <2>2, <2>3, <2>4, Zenon
  <2>6. QED
    BY <2>1, <2>5
<1>7. Shown(view, row, x.pop.ids) = Shown(Head(x.views), x.pop, x.pop.ids)
  BY <1>1, <1>3 DEF Shown, Degraded
<1>8. Past(row.max) /\ Covers(x.pop.ids, spec, viewer, row.max)
  BY <1>1, <1>5, <1>6 DEF JobCurrent, Covers
<1>9. Shows(row.payload, Shown(view, row, x.pop.ids), spec, viewer, row.max)
  BY <1>1, <1>5, <1>6, <1>7 DEF JobCurrent, Shows
<1>10. QED
  BY <1>1, <1>8, <1>9 DEF Backed

LEMMA StoreCurrent == ASSUME Current, NEW j \in Jobs, Store(j) PROVE Current'
<1>0. Forgotten'
  BY ComputationForgets DEF Current, Computation
<1> SUFFICES ASSUME NEW job, job = jobs[j] PROVE Current'
  OBVIOUS
<1>1. job # None /\ JobShape(job) /\ JobCurrent(job) /\ job.payload # None
  BY DEF Store, Runs, Current, Forgotten, JobRefers
<1>2. jobs' = [jobs EXCEPT ![j] = Ended(job)]
      /\ UNCHANGED <<fips, network, writes, ingestion, clock, stamped, late>>
  BY DEF Store, database
<1>3. \A i \in Jobs : \A x : x = jobs'[i] /\ x # None => JobCurrent(x)
  BY <1>1, <1>2, EndedCurrent DEF Current, Forgotten
<1>4. \A k \in Stored' : \A row : row = snapshots'[k] => RowCurrent(k, row)
  <2>1. SUFFICES ASSUME NEW k \in Stored', NEW row, row = snapshots'[k] PROVE RowCurrent(k, row)
    OBVIOUS
  <2>2. CASE k = JobKey(job)
    <3>1. row = Row("fresh", job.payload, Stamp(job), FALSE)
      BY <2>1, <2>2 DEF Store, Stored
    <3>2. QED
      BY <1>1, <2>2, <3>1, StoredCurrent
  <2>3. CASE k # JobKey(job)
    <3>1. k \in Stored /\ snapshots'[k] = snapshots[k]
      BY <2>1, <2>3 DEF Store, Stored
    <3>2. QED
      BY <2>1, <3>1 DEF Current
  <2>4. QED
    BY <2>2, <2>3
<1>5. QED
  BY <1>0, <1>2, <1>3, <1>4, CacheStep

(* What counts of a row is its payload and its stamp. *)
LEMMA RowAlike ==
    ASSUME NEW k, NEW row, NEW old, RowCurrent(k, old),
           row.payload = old.payload, row.count = old.count, row.max = old.max,
           row.stale = old.stale
    PROVE  RowCurrent(k, row)
<1>1. \A view, ids : Shown(view, row, ids) = Shown(view, old, ids)
  BY DEF Shown, Degraded
<1>2. ASSUME NEW view, NEW spec, NEW viewer, NEW ids, Backed(old, view, spec, viewer, ids)
      PROVE  Backed(row, view, spec, viewer, ids)
  BY <1>1, <1>2 DEF Backed
<1>3. QED
  BY <1>2 DEF RowCurrent

(* mark_computing touches no column that a stamp or a payload is in. *)
LEMMA MarkCurrent == ASSUME Current, NEW j \in Jobs, MarkComputing(j) PROVE Current'
<1>0. Forgotten'
  BY ComputationForgets DEF Current
<1> SUFFICES ASSUME NEW job, job = jobs[j] PROVE Current'
  OBVIOUS
<1>1. job # None /\ JobShape(job) /\ JobCurrent(job) /\ job.kind = "marking"
  BY DEF MarkComputing, Current, Forgotten, JobRefers
<1> SUFFICES ASSUME NEW kind, kind = IF job.marked + 1 = Len(job.views) THEN "due" ELSE job.kind
             PROVE  Current'
  OBVIOUS
<1> DEFINE key == Key(job.spec, job.viewer, job.views[job.marked + 1], "default")
           x == [kind |-> kind, spec |-> job.spec, viewer |-> job.viewer,
                 params |-> job.params, views |-> job.views, marked |-> job.marked + 1,
                 pop |-> job.pop, payload |-> job.payload]
<1>2. [job EXCEPT !.marked = job.marked + 1, !.kind = kind] = x
  <2> DEFINE e == [job EXCEPT !.marked = job.marked + 1, !.kind = kind]
  <2> HIDE DEF e
  <2>1. e = [f \in DOMAIN job |-> IF f = "kind" THEN kind
                                  ELSE IF f = "marked" THEN job.marked + 1 ELSE job[f]]
    BY DEF e
  <2>2. e = x
    BY <1>1, <2>1 DEF JobShape
  <2>3. QED
    BY <2>2 DEF e
<1>3. jobs' = [jobs EXCEPT ![j] = x]
      /\ UNCHANGED <<fips, network, writes, ingestion, clock, stamped, late>>
  BY <1>2 DEF MarkComputing, database
<1>4. x.viewer = job.viewer /\ x.pop = job.pop /\ x.payload = job.payload
  OBVIOUS
<1>5. JobCurrent(x)
  <2>1. job.pop = None /\ job.payload = None /\ job.viewer \in Viewers
    BY <1>1 DEF JobCurrent
  <2> HIDE DEF x
  <2>2. QED
    BY <1>4, <2>1 DEF JobCurrent
<1>6. \A i \in Jobs : \A y : y = jobs'[i] /\ y # None => JobCurrent(y)
  <2> HIDE DEF x
  <2>1. QED
    BY <1>3, <1>5 DEF Current, Forgotten
<1>7. \A k \in Stored' : \A row : row = snapshots'[k] => RowCurrent(k, row)
  <2>1. SUFFICES ASSUME NEW k \in Stored', NEW row, row = snapshots'[k] PROVE RowCurrent(k, row)
    OBVIOUS
  <2>2. CASE k # key
    <3>1. k \in Stored /\ snapshots'[k] = snapshots[k]
      BY <2>1, <2>2 DEF MarkComputing, Stored
    <3>2. QED
      BY <2>1, <3>1 DEF Current
  <2>3. CASE k = key /\ k \in Stored
    <3>1. row = [snapshots[k] EXCEPT !.status = "computing"]
      BY <2>1, <2>3 DEF MarkComputing, Stored
    <3>2. SUFFICES ASSUME NEW old, old = snapshots[k] PROVE RowCurrent(k, row)
      OBVIOUS
    <3>3. RowShape(old) /\ RowCurrent(k, old)
      BY <2>3, <3>2 DEF Current, Forgotten, RowRefers
    <3>4. row = [status |-> "computing", payload |-> old.payload, count |-> old.count,
                 max |-> old.max, epoch |-> old.epoch, stale |-> old.stale,
                 expired |-> old.expired]
      BY <3>1, <3>2, <3>3 DEF RowShape
    <3>5. row.payload = old.payload /\ row.count = old.count /\ row.max = old.max
          /\ row.stale = old.stale
      BY <3>4
    <3>6. QED
      BY <3>3, <3>5, RowAlike
  <2>4. CASE k = key /\ k \notin Stored
    <3>1. row = Row("computing", None,
                    [ids |-> {}, max |-> None, epoch |-> 0, stale |-> FALSE], TRUE)
      BY <2>1, <2>4 DEF MarkComputing, Stored
    <3>2. row.count = Cardinality({})
      BY <3>1 DEF Row
    <3>3. ~ (row.count > LiveMax)
      BY <3>2, FS_EmptySet, SnapshotsAssumption
    <3>4. QED
      BY <3>3 DEF RowCurrent
  <2>5. QED
    BY <2>2, <2>3, <2>4
<1>8. QED
  BY <1>0, <1>3, <1>6, <1>7, CacheStep

(* Rows that stay are the rows that were, but for their expiry. *)
LEMMA ThinnedCurrent ==
    ASSUME Current, Forgotten',
           UNCHANGED <<jobs, fips, network, writes, ingestion, clock, stamped, late>>,
           \A k \in Stored' :
               /\ k \in Stored
               /\ snapshots'[k].payload = snapshots[k].payload
               /\ snapshots'[k].count = snapshots[k].count
               /\ snapshots'[k].max = snapshots[k].max
               /\ snapshots'[k].stale = snapshots[k].stale
    PROVE  Current'
<1>1. ASSUME NEW k \in Stored', NEW row, row = snapshots'[k] PROVE RowCurrent(k, row)
  <2>1. PICK old : old = snapshots[k]
    OBVIOUS
  <2>2. RowCurrent(k, old) /\ row.payload = old.payload /\ row.count = old.count
        /\ row.max = old.max /\ row.stale = old.stale
    BY <1>1, <2>1 DEF Current
  <2>3. QED
    BY <2>2, RowAlike
<1>2. \A j \in Jobs : \A x : x = jobs'[j] /\ x # None => JobCurrent(x)
  BY DEF Current
<1>3. QED
  BY <1>1, <1>2, CacheStep

LEMMA CurrentInit == SInit => Current
<1> SUFFICES ASSUME SInit PROVE Current
  OBVIOUS
<1>1. Forgotten /\ Times
  BY ForgottenInit, TimesInit
<1>2. (\A j \in Jobs : jobs[j] = None) /\ Stored = {}
  BY DEF SInit, Stored
<1>3. QED
  BY <1>1, <1>2 DEF Current

LEMMA CurrentStep == Current /\ [SNext]_svars => Current'
<1> SUFFICES ASSUME Current, [SNext]_svars PROVE Current'
  OBVIOUS
<1>0. Forgotten' /\ Forgotten /\ Times
  BY ForgottenStep DEF Current
<1>1. ASSUME NEW f \in FipIds, NEW row, BeginWrite(f, row) PROVE Current'
  BY <1>0, <1>1, BeginWriteSteady, DatabaseStep DEF BeginWrite
<1>2. ASSUME NEW w \in writes, CommitWrite(w) PROVE Current'
  BY <1>0, <1>2, CommitWriteSteady, DatabaseStep DEF CommitWrite
<1>3. ASSUME NEW f \in FipIds, DeleteFip(f) \/ DeleteWithOwner(f) PROVE Current'
  BY <1>0, <1>3, RemoveSteady, DatabaseStep DEF DeleteFip, DeleteWithOwner, Remove
<1>4. ASSUME NEW f, Scrub(f) PROVE Current'
  <2>1. UNCHANGED <<jobs, fips, network, writes, ingestion, clock, stamped, late>>
    BY <1>4 DEF Scrub, database
  <2>2. \A k \in Stored' : k \in Stored /\ snapshots'[k] = snapshots[k]
    BY <1>4 DEF Scrub, Stored
  <2>3. QED
    BY <1>0, <2>1, <2>2, ThinnedCurrent
<1>5. ASSUME NEW n \in NetworkIds, IngestCommunity(n) PROVE Current'
  BY <1>0, <1>5, IngestSteady, DatabaseStep DEF IngestCommunity
<1>15. CASE BeginIngest
  BY <1>0, <1>15, BeginIngestSteady, DatabaseStep DEF BeginIngest
<1>6. CASE EditModel \/ Backfill \/ UNCHANGED svars
  <2>1. UNCHANGED <<jobs, snapshots, fips, network, writes, ingestion, clock, stamped, late>>
    BY <1>6 DEF EditModel, Backfill, svars, database
  <2>2. stamped' \in stamped..clock
    BY <1>0, <2>1 DEF Times
  <2>3. QED
    BY <1>0, <2>1, <2>2, NoWriteSteady, DatabaseStep
<1>7. ASSUME NEW u, DeleteAccount(u) PROVE Current'
  <2>1. UNCHANGED <<jobs, snapshots, fips, network, writes, ingestion, clock, stamped, late>>
    BY <1>7 DEF DeleteAccount
  <2>2. stamped' \in stamped..clock
    BY <1>0, <2>1 DEF Times
  <2>3. QED
    BY <1>0, <2>1, <2>2, NoWriteSteady, DatabaseStep
<1>8. CASE Restart
  <2>1. Times' /\ \A spec, viewer, t : Past(t) => Steady(spec, viewer, t)
    BY <1>0, <1>8, RestartSteady
  <2>2. \A j \in Jobs : \A x : x = jobs'[j] /\ x # None => JobCurrent(x)'
    BY <1>8 DEF Restart
  <2>3. \A k \in Stored' : \A row : row = snapshots'[k] => RowCurrent(k, row)'
    BY <1>8, <2>1, RowStays DEF Restart, Current, Stored
  <2>4. QED
    BY <1>0, <2>1, <2>2, <2>3 DEF Current
<1>9. ASSUME NEW j \in Jobs, NEW spec, NEW viewer \in Viewers, NEW view, Get(j, spec, viewer, view)
      PROVE  Current'
  BY <1>0, <1>9, BeginCurrent DEF Get
<1>10. ASSUME NEW j \in Jobs, NEW spec, NEW viewer \in Viewers, NEW views,
              Refresh(j, spec, viewer, views)
       PROVE  Current'
  BY <1>0, <1>10, BeginCurrent DEF Refresh
<1>11. ASSUME NEW j \in Jobs, NEW spec, RefreshCommand(j, spec) PROVE Current'
  <2>1. None \in Viewers
    BY DEF Viewers
  <2>2. QED
    BY <1>0, <1>11, <2>1, BeginCurrent DEF RefreshCommand
<1>12. ASSUME NEW j \in Jobs, MarkComputing(j) \/ BeginTask(j) \/ Computation(j)
       PROVE  Current'
  BY <1>12, MarkCurrent, ComputationCurrent, StoreCurrent DEF Computation
<1>13. ASSUME NEW k, Drain(k) PROVE Current'
  <2>1. UNCHANGED <<jobs, fips, network, writes, ingestion, clock, stamped, late>>
    BY <1>13 DEF Drain, database
  <2>2. \A x \in Stored' : x \in Stored /\ snapshots'[x] = snapshots[x]
    BY <1>13 DEF Drain, Stored
  <2>3. QED
    BY <1>0, <2>1, <2>2, ThinnedCurrent
<1>14. ASSUME NEW k, Expire(k) PROVE Current'
  <2>1. UNCHANGED <<jobs, fips, network, writes, ingestion, clock, stamped, late>>
    BY <1>14 DEF Expire, database
  <2>2. snapshots' = [snapshots EXCEPT ![k].expired = TRUE] /\ k \in Stored
    BY <1>14 DEF Expire
  <2>3. Stored' = Stored /\ \A x \in Stored : x # k => snapshots'[x] = snapshots[x]
    BY <1>0, <2>2 DEF Stored, Forgotten
  <2>4. /\ snapshots'[k].payload = snapshots[k].payload
        /\ snapshots'[k].count = snapshots[k].count
        /\ snapshots'[k].max = snapshots[k].max
        /\ snapshots'[k].stale = snapshots[k].stale
    <3>1. snapshots'[k] = [snapshots[k] EXCEPT !.expired = TRUE]
      BY <2>2 DEF Stored
    <3>2. PICK old : old = snapshots[k]
      OBVIOUS
    <3>3. RowShape(old)
      BY <1>0, <2>2, <3>2 DEF Forgotten, RowRefers
    <3>4. snapshots'[k] = [status |-> old.status, payload |-> old.payload, count |-> old.count,
                           max |-> old.max, epoch |-> old.epoch, stale |-> old.stale,
                           expired |-> TRUE]
      BY <3>1, <3>2, <3>3 DEF RowShape
    <3>5. QED
      BY <3>2, <3>4
  <2>5. QED
    BY <1>0, <2>1, <2>3, <2>4, ThinnedCurrent
<1>16. QED
  BY <1>1, <1>2, <1>3, <1>4, <1>5, <1>6, <1>7, <1>8, <1>9, <1>10, <1>11, <1>12, <1>13,
     <1>14, <1>15 DEF SNext

(* A row is served only if its stamp is that of the population now: none   *)
(* that is not late has moved since, so all were resolved; and if none is  *)
(* late, the number says that no other was.                                *)
LEMMA CurrentServed == Current => ServedIsCurrent
<1> SUFFICES ASSUME Current, NEW spec \in Specs, NEW viewer \in Viewers, NEW view \in Views,
                    Served(Key(spec, viewer, view, "default"), spec, viewer)
             PROVE  LET k == Key(spec, viewer, view, "default")
                        now == MembersNow(spec, viewer)
                        shown == Shown(view, snapshots[k], now)
                    IN
                    /\ Content(shown \ late) \subseteq snapshots[k].payload
                    /\ now \cap late = {} => snapshots[k].payload = Content(shown)
  BY Zenon DEF ServedIsCurrent
<1> SUFFICES ASSUME NEW k, k = Key(spec, viewer, view, "default"),
                    NEW row, row = snapshots[k],
                    NEW now, now = MembersNow(spec, viewer),
                    NEW shown, shown = Shown(view, row, now)
             PROVE  /\ Content(shown \ late) \subseteq row.payload
                    /\ now \cap late = {} => row.payload = Content(shown)
  BY Zenon
<1>1. /\ k \in Stored /\ Cardinality(now) > LiveMax
      /\ row.count = Cardinality(now) /\ row.max = Latest(now)
  BY DEF Served, IsStale, Resolved
<1>2. Times /\ RowCurrent(k, row)
  BY <1>1 DEF Current
<1>3. now \subseteq Existing /\ IsFiniteSet(now)
  BY <1>2, MembersExist, ExistingFinite, FS_Subset
<1>4. now # {}
  <2>1. LiveMax \in Nat
    BY SnapshotsAssumption
  <2>2. Cardinality({}) = 0
    BY FS_EmptySet
  <2>3. QED
    BY <1>1, <2>1, <2>2
<1>5. \A f \in now : Updated(f) <= row.max
  BY <1>1, <1>2, <1>3, <1>4, LatestBounds
<1>6. \E ids : Backed(row, view, spec, viewer, ids)
  BY <1>1, <1>2 DEF RowCurrent
<1>7. PICK ids : Backed(row, view, spec, viewer, ids)
  BY <1>6
<1>8. \A f \in now \ late : <<f, Updated(f)>> \in Still(spec, viewer, row.max)
  BY <1>5 DEF Still
<1>9. now \ late \subseteq ids
  BY <1>7, <1>8 DEF Backed, Covers
<1>10. shown \ late \subseteq Shown(view, row, ids) /\ shown \subseteq now
  BY <1>9 DEF Shown
<1>11. Content(shown \ late) \subseteq row.payload
  BY <1>7, <1>8, <1>10 DEF Backed, Shows, Content
<1>12. ASSUME now \cap late = {} PROVE row.payload = Content(shown)
  <2>1. now = ids
    <3>1. now \subseteq ids
      BY <1>9, <1>12
    <3>2. IsFiniteSet(ids) /\ Cardinality(ids) = Cardinality(now)
      BY <1>1, <1>7 DEF Backed, Covers
    <3>3. QED
      BY <3>1, <3>2, FS_Subset
  <2>2. /\ IsFiniteSet(row.payload) /\ Cardinality(row.payload) <= Cardinality(shown)
        /\ IsFiniteSet(shown)
    BY <1>3, <1>7, <1>10, <2>1, FS_Subset DEF Backed, Shows
  <2>3. shown \ late = shown
    BY <1>10, <1>12
  <2>4. Content(shown) \subseteq row.payload
    BY <1>11, <2>3
  <2>5. Cardinality(Content(shown)) = Cardinality(shown)
    BY <1>3, <1>10, <2>2, ContentSize
  <2>6. Cardinality(Content(shown)) <= Cardinality(row.payload)
    BY <2>2, <2>4, FS_Subset
  <2>7. Cardinality(row.payload) \in Nat /\ Cardinality(shown) \in Nat
    BY <2>2, FS_CardinalityType
  <2>8. Cardinality(Content(shown)) = Cardinality(row.payload)
    BY <2>2, <2>5, <2>6, <2>7
  <2>9. QED
    BY <2>2, <2>4, <2>8, FS_Subset
<1>13. QED
  BY <1>11, <1>12

(* A stored result that is served as current shows, for whoever asks, the  *)
(* population he would get if it were computed now, with current contents, *)
(* whatever was written, ingested, deleted, recomputed or restarted in     *)
(* between.  Exempt are FIPs committed with a time that a stamp had        *)
(* reached before, and what a result leaves out that was computed while a  *)
(* projection was behind.                                                  *)
THEOREM SSpec_ServedIsCurrent == SSpec => []ServedIsCurrent
<1>1. SInit /\ [][SNext]_svars => []Current
  BY CurrentInit, CurrentStep, PTL
<1>2. QED
  BY <1>1, CurrentServed, PTL DEF SSpec

=============================================================================
