------------------------- MODULE DashboardSnapshots -------------------------
(***************************************************************************)
(* The cache of dashboard results (dashboard/snapshots.py, the refresh     *)
(* endpoint and command): when a stored result is served, who computes a   *)
(* new one, and what the deletion of a FIP leaves in the cache.            *)
(*                                                                         *)
(* A computation resolves its population, computes, and stores, each at a  *)
(* moment of its own; the stamp it stores (number of members, latest       *)
(* updated_at, projection epoch) is that of the resolution.  Results that  *)
(* are small enough are computed live and never touch the cache.           *)
(*                                                                         *)
(* The content of a FIP is represented by its updated_at, a payload by the *)
(* set of members it was computed from with their contents.  The FIP rows  *)
(* change by writes of any other component.  A write chooses its           *)
(* updated_at before it holds the database's write lock, and an ingestion  *)
(* one time for all the communities that it commits one by one.            *)
(***************************************************************************)
EXTENDS DashboardPopulations, Sequences, Functions

CONSTANTS
    InitialRows,    \* the FIPs of an earlier run
    InitialNetwork, \* and the shadow rows it ingested
    FipRows,        \* the rows a write may produce, without updated_at
    Specs, SpecOf,  \* the populations asked for, and what each is
    SavedBy,        \* who saved each population
    Views, PairViews, \* the views, and those never computed by a GET
    LiveMax, SyncMax, FallbackMax, \* the limits, as numbers of FIPs
    Jobs,           \* bound on the computations in progress at once
    RefreshLists,   \* the lists of views sent to POST /refresh
    MaxClock,       \* bound on the writes of updated_at
    MaxStarted,     \* bound on the computations
    MaxEvents       \* bound on deletions, model edits, expiries and restarts

ASSUME SnapshotsAssumption ==
    /\ SpecOf \in [Specs -> PopulationSpecs]
    /\ SavedBy \in [Specs -> Users]
    /\ PairViews \subseteq Views
    /\ LiveMax \in Nat /\ SyncMax \in Nat /\ FallbackMax \in Nat
    /\ None \notin Views
    /\ IsFiniteSet(FipIds) /\ IsFiniteSet(NetworkIds)
    /\ DOMAIN InitialRows \subseteq FipIds /\ InitialRows \in [DOMAIN InitialRows -> FipRows]
    /\ InitialNetwork \subseteq NetworkIds

VARIABLES
    fips,       \* fips: the columns of a population, by id
    network,    \* network_fips: fetched_at
    behind,     \* the rows projected before the current epoch
    writes,     \* the writes waiting for the lock: [fip, row]
    ingestion,  \* the time of the last ingestion, None before the first
    accounts,   \* the accounts that still exist
    epoch,      \* dashboard_meta: projection_epoch
    clock,      \* the time of the last updated_at
    snapshots,  \* dashboard_snapshots
    jobs,       \* the computations in progress, None for a free slot
    scrubs,     \* the deletions whose scrub is still to be committed
    started, events, \* so far
    stamped,    \* history: the latest time in a stamp
    late,       \* history: the FIPs whose last write committed with a time that a
                \* stamp had reached before
    lost,       \* history: the keys whose refresh failed or was lost
    excused     \* history: the deleted FIPs that no scrub is bound to reach

database == <<fips, network, behind, writes, ingestion, accounts, epoch, clock>>

svars == <<database, snapshots, jobs, scrubs, started, events, stamped, late, lost, excused>>

(* Parameters: those of the view's plain URL, or the none of the command. *)
Params == {"default", "none"}

Scopes == Users \cup {"pub", "anon"}

Keys == Specs \X Scopes \X Views \X Params

Key(spec, viewer, view, params) == <<spec, AuthScope(SpecOf[spec], viewer), view, params>>

Updated(f) == IF f \in NetworkIds THEN network[f] ELSE fips[f].updated

Existing == DOMAIN fips \cup DOMAIN network

MembersNow(spec, viewer) == Members(SpecOf[spec], viewer, fips, network)

Latest(ids) == IF ids = {} THEN None
               ELSE CHOOSE t \in {Updated(f) : f \in ids} :
                        \A f \in ids : Updated(f) <= t

(* ResolvedPopulation; an empty one does not read the epoch *)
Resolved(spec, viewer) ==
    LET ids == MembersNow(spec, viewer) IN
    [ids |-> ids, max |-> Latest(ids), epoch |-> IF ids = {} THEN 0 ELSE epoch,
     stale |-> ids \cap behind # {}]

Content(ids) == {<<f, Updated(f)>> : f \in ids \cap Existing}

(* What a view makes of a population: the four base views fall back to the *)
(* answers of the local FIPs if the projection is behind, or give up.      *)
Degraded(view, pop) == view \notin PairViews /\ pop.stale

GivesUp(view, pop) == Degraded(view, pop) /\ Cardinality(pop.ids) > FallbackMax

Shown(view, pop, ids) == IF Degraded(view, pop) THEN ids \ NetworkIds ELSE ids

Payload(view, pop) == Content(Shown(view, pop, pop.ids))

(* (stale is history: nothing in the row tells that it was degraded.) *)
Row(status, payload, pop, expired) ==
    [status |-> status, payload |-> payload, count |-> Cardinality(pop.ids),
     max |-> pop.max, epoch |-> pop.epoch, stale |-> pop.stale, expired |-> expired]

Stored == DOMAIN snapshots

DatedRow(row, time) ==
    [visibility |-> row.visibility, owner |-> row.owner, session |-> row.session,
     ref |-> row.ref, updated |-> time]

(* The server may start with the FIPs and communities of an earlier run. *)
SInit ==
    /\ fips = [f \in DOMAIN InitialRows |-> DatedRow(InitialRows[f], 0)]
    /\ network = [n \in InitialNetwork |-> 0]
    /\ behind = {} /\ writes = {} /\ ingestion = None /\ accounts = Users
    /\ epoch = 0 /\ clock = 0
    /\ snapshots = [k \in {} |-> None]
    /\ jobs = [j \in Jobs |-> None]
    /\ scrubs = {} /\ started = 0 /\ events = 0
    /\ stamped = 0 /\ late = {} /\ lost = {} /\ excused = {}

-----------------------------------------------------------------------------
(* The other components: FIPs, shadow rows, questionnaires, accounts *)

(* A request computes its UPDATE or INSERT, with the time of now, ... *)
BeginWrite(f, row) ==
    /\ clock < MaxClock
    /\ f \notin scrubs \cup excused
    /\ ~\E w \in writes : w.fip = f
    /\ clock' = clock + 1
    /\ writes' = writes \cup {[fip |-> f, row |-> DatedRow(row, clock + 1)]}
    /\ UNCHANGED <<fips, network, behind, ingestion, accounts, epoch, snapshots, jobs, scrubs,
                   started, events, late, stamped, lost, excused>>

(* History: the FIP is late if a stamp taken before has reached its time. *)
LateIf(f, time) == IF time <= stamped THEN late \cup {f} ELSE late \ {f}

(* ... and commits it, with its projection, when it gets the lock. *)
CommitWrite(w) ==
    /\ writes' = writes \ {w}
    /\ fips' = [f \in DOMAIN fips \cup {w.fip} |->
                   IF f = w.fip THEN w.row ELSE fips[f]]
    /\ behind' = behind \ {w.fip}
    /\ late' = LateIf(w.fip, w.row.updated)
    /\ UNCHANGED <<network, ingestion, accounts, epoch, clock, snapshots, jobs, scrubs,
                   started, events, stamped, lost, excused>>

(* The bound on what disturbs the cache. *)
Event == events < MaxEvents /\ events' = events + 1

(* A row that is deleted is not written again: its id was random, and an   *)
(* UPDATE that waited finds no row.                                        *)
Remove(f) ==
    /\ Event
    /\ f \in DOMAIN fips
    /\ fips' = [g \in DOMAIN fips \ {f} |-> fips[g]]
    /\ writes' = {w \in writes : w.fip # f}
    /\ behind' = behind \ {f}
    /\ late' = late \ {f}
    /\ UNCHANGED <<network, ingestion, accounts, epoch, clock, snapshots, jobs, started,
                   stamped, lost>>

(* A computation that may have seen the FIP. *)
InUse(f) ==
    \E j \in Jobs : jobs[j] # None /\ jobs[j].pop # None /\ f \in jobs[j].pop.ids

(* DELETE /api/fips/{id}; the scrub is a commit of its own. *)
DeleteFip(f) ==
    /\ Remove(f)
    /\ scrubs' = scrubs \cup {f}
    /\ excused' = IF InUse(f) THEN excused \cup {f} ELSE excused

(* The deletion of its session or of its owner's account scrubs nothing. *)
DeleteWithOwner(f) ==
    /\ Remove(f)
    /\ excused' = excused \cup {f}
    /\ UNCHANGED scrubs

(* Mutant: the time of the last write is taken for that of the deletion. *)
ScrubOlder(f) ==
    /\ f \in scrubs
    /\ scrubs' = scrubs \ {f}
    /\ snapshots' = [k \in {k \in Stored : k[3] \notin PairViews \/ snapshots[k].max = clock}
                         |-> snapshots[k]]
    /\ UNCHANGED <<database, jobs, started, events, late, stamped, lost, excused>>

(* scrub_snapshots_for_deleted_fip: the time of the deletion lies after    *)
(* every updated_at.                                                       *)
Scrub(f) ==
    /\ f \in scrubs
    /\ scrubs' = scrubs \ {f}
    /\ snapshots' = [k \in {k \in Stored : k[3] \notin PairViews} |-> snapshots[k]]
    /\ UNCHANGED <<database, jobs, started, events, late, stamped, lost, excused>>

(* ingest-network-fips up to its loop: the time that all its communities   *)
(* will bear.  One that was interrupted leaves the rest as they are.       *)
BeginIngest ==
    /\ clock < MaxClock
    /\ clock' = clock + 1
    /\ ingestion' = clock + 1
    /\ UNCHANGED <<fips, network, behind, writes, accounts, epoch, snapshots, jobs, scrubs,
                   started, events, late, stamped, lost, excused>>

(* One community: fetched, projected, and committed by itself.  Some are   *)
(* skipped, or fail.                                                       *)
IngestCommunity(n) ==
    /\ ingestion # None
    /\ n \in DOMAIN network => network[n] # ingestion
    /\ network' = [m \in DOMAIN network \cup {n} |->
                      IF m = n THEN ingestion ELSE network[m]]
    /\ behind' = behind \ {n}
    /\ late' = LateIf(n, ingestion)
    /\ UNCHANGED <<fips, writes, ingestion, accounts, epoch, clock, snapshots, jobs, scrubs,
                   started, events, stamped, lost, excused>>

(* An edit of a model's content bumps the epoch and reprojects nothing. *)
EditModel ==
    /\ Event
    /\ epoch' = epoch + 1
    /\ behind' = Existing
    /\ UNCHANGED <<fips, network, writes, ingestion, accounts, clock, snapshots, jobs, scrubs,
                   started, late, stamped, lost, excused>>

(* backfill-declarations --only-stale knows the local FIPs only. *)
Backfill ==
    /\ behind \cap FipIds # {}
    /\ behind' = behind \ FipIds
    /\ UNCHANGED <<fips, network, writes, ingestion, accounts, epoch, clock, snapshots, jobs, scrubs,
                   started, events, late, stamped, lost, excused>>

DeleteAccount(u) ==
    /\ Event
    /\ u \in accounts
    /\ accounts' = accounts \ {u}
    /\ UNCHANGED <<fips, network, behind, writes, ingestion, epoch, clock, snapshots, jobs, scrubs,
                   started, late, stamped, lost, excused>>

-----------------------------------------------------------------------------
(* Serving *)

(* _row_is_stale *)
IsStale(row, pop) ==
    \/ row.expired
    \/ row.epoch # pop.epoch
    \/ row.count # Cardinality(pop.ids)
    \/ row.max # pop.max

Asks(viewer) == viewer = None \/ viewer \in accounts

(* The row is served as it is, without a computation. *)
Served(k, spec, viewer) ==
    /\ k \in Stored
    /\ Cardinality(MembersNow(spec, viewer)) > LiveMax
    /\ snapshots[k].status = "fresh"
    /\ ~IsStale(snapshots[k], Resolved(spec, viewer))

(* The slot of the next computation: the slots are alike, and a bound      *)
(* limits the number of computations.                                      *)
Slot(j) ==
    /\ started < MaxStarted
    /\ \E i \in Jobs : jobs[i] = None
    /\ j = CHOOSE i \in Jobs : jobs[i] = None

(* History: the stamp of a population was taken. *)
Note(pop) ==
    stamped' = IF pop # None /\ pop.ids # {} /\ pop.max > stamped THEN pop.max ELSE stamped

(* A request or a command that computes *)
Begin(j, kind, spec, viewer, params, views, pop) ==
    /\ started' = started + 1
    /\ jobs' = [jobs EXCEPT ![j] =
           [kind |-> kind, spec |-> spec, viewer |-> viewer, params |-> params,
            views |-> views, marked |-> 0, pop |-> pop, payload |-> None]]
    /\ Note(pop)
    /\ UNCHANGED <<database, snapshots, scrubs, events, late, lost, excused>>

(* get_or_compute when it computes; otherwise the answer is live, a stored *)
(* row, or "computing", and nothing changes.                               *)
Get(j, spec, viewer, view) ==
    LET k == Key(spec, viewer, view, "default")
        count == Cardinality(MembersNow(spec, viewer))
    IN
    /\ Slot(j) /\ Asks(viewer)
    /\ ~TooSmall(SpecOf[spec], viewer, fips, network)
    /\ count > LiveMax /\ count <= SyncMax
    /\ ~Served(k, spec, viewer)
    /\ k \in Stored => snapshots[k].status # "computing"
    /\ view \notin PairViews
    /\ Begin(j, "get", spec, viewer, "default", <<view>>, Resolved(spec, viewer))

-----------------------------------------------------------------------------
(* Refreshing: POST /api/dashboard/refresh and refresh-dashboard *)

MayRefresh(viewer, spec) == viewer \in accounts /\ (viewer \in Admins \/ viewer = SavedBy[spec])

Refresh(j, spec, viewer, views) ==
    /\ Slot(j) /\ MayRefresh(viewer, spec)
    /\ \A v \in Range(views) : LET k == Key(spec, viewer, v, "default") IN
           k \in Stored => snapshots[k].status # "computing"
    /\ ~TooSmall(SpecOf[spec], viewer, fips, network)
    /\ Begin(j, IF Cardinality(MembersNow(spec, viewer)) <= SyncMax THEN "sync" ELSE "marking",
             spec, viewer, "default", views, None)

(* mark_computing, once per view; then the background task is due. *)
MarkComputing(j) ==
    LET job == jobs[j]
        k == Key(job.spec, job.viewer, job.views[job.marked + 1], "default")
        new == Row("computing", None, [ids |-> {}, max |-> None, epoch |-> 0, stale |-> FALSE],
                   TRUE)
    IN
    /\ job # None /\ job.kind = "marking"
    /\ snapshots' = [x \in Stored \cup {k} |->
           IF x # k THEN snapshots[x]
           ELSE IF k \in Stored THEN [snapshots[k] EXCEPT !.status = "computing"] ELSE new]
    /\ jobs' = [jobs EXCEPT ![j] = [job EXCEPT !.marked = @ + 1,
           !.kind = IF job.marked + 1 = Len(job.views) THEN "due" ELSE @]]
    /\ UNCHANGED <<database, scrubs, started, events, late, stamped, lost, excused>>

(* _background_refresh looks its user up again; without an account it is   *)
(* an anonymous viewer, with another key.                                  *)
BeginTask(j) ==
    LET job == jobs[j]
        gone == job.viewer # None /\ job.viewer \notin accounts
    IN
    /\ job # None /\ job.kind = "due"
    /\ jobs' = [jobs EXCEPT ![j] = [job EXCEPT !.kind = "task",
                                               !.viewer = IF gone THEN None ELSE @]]
    /\ lost' = lost \cup
           (IF gone THEN {Key(job.spec, job.viewer, v, "default") : v \in Range(job.views)}
            ELSE {})
    /\ UNCHANGED <<database, snapshots, scrubs, started, events, late, stamped, excused>>

(* refresh-dashboard: it looks as nobody, and stores where no GET looks. *)
RefreshCommand(j, spec) ==
    /\ Slot(j)
    /\ \E view \in Views : Begin(j, "command", spec, None, "none", <<view>>, None)

(* drain_expired, at the end of the command: rows that expired a week ago. *)
Drain(k) ==
    /\ k \in Stored /\ snapshots[k].expired
    /\ \A j \in Jobs : jobs[j] = None
    /\ snapshots' = [x \in Stored \ {k} |-> snapshots[x]]
    /\ UNCHANGED <<database, jobs, scrubs, started, events, late, stamped, lost, excused>>

-----------------------------------------------------------------------------
(* A computation *)

Runs(j) == jobs[j] # None /\ jobs[j].kind \in {"get", "sync", "task", "command"}

JobKey(job) == Key(job.spec, job.viewer, Head(job.views), job.params)

(* Mutant: the first view ends the task. *)
EndedAtOnce(job) == None

(* The computation of one view is over: the next one, or the end. *)
Ended(job) ==
    IF Len(job.views) = 1 THEN None
    ELSE [job EXCEPT !.views = Tail(@), !.pop = None, !.payload = None]

Resolve(j) ==
    /\ Runs(j) /\ jobs[j].pop = None
    /\ LET pop == Resolved(jobs[j].spec, jobs[j].viewer) IN
       jobs' = [jobs EXCEPT ![j].pop = pop] /\ Note(pop)
    /\ UNCHANGED <<database, snapshots, scrubs, started, events, late, lost, excused>>

Compute(j) ==
    /\ Runs(j) /\ jobs[j].pop # None /\ jobs[j].payload = None
    /\ ~GivesUp(Head(jobs[j].views), jobs[j].pop)
    /\ jobs' = [jobs EXCEPT ![j].payload = Payload(Head(jobs[j].views), jobs[j].pop)]
    /\ UNCHANGED <<database, snapshots, scrubs, started, events, late, stamped, lost, excused>>

(* 409 projection_stale: the request ends, a task goes on with the next    *)
(* view and leaves this one as it was marked.                              *)
GiveUp(j) ==
    LET job == jobs[j] IN
    /\ Runs(j) /\ job.pop # None /\ job.payload = None
    /\ GivesUp(Head(job.views), job.pop)
    /\ jobs' = [jobs EXCEPT ![j] = IF job.kind \in {"get", "sync"} THEN None ELSE Ended(job)]
    /\ lost' = lost \cup {JobKey(job)}
    /\ UNCHANGED <<database, snapshots, scrubs, started, events, late, stamped, excused>>

(* Mutant: the stamp is taken when the row is written. *)
StampNow(job) == Resolved(job.spec, job.viewer)

(* The stamp of a stored row: that of the population it was given. *)
Stamp(job) == job.pop

(* _compute_and_store *)
Store(j) ==
    LET job == jobs[j] IN
    /\ Runs(j) /\ job.payload # None
    /\ snapshots' = [k \in Stored \cup {JobKey(job)} |->
           IF k = JobKey(job) THEN Row("fresh", job.payload, Stamp(job), FALSE)
           ELSE snapshots[k]]
    /\ lost' = lost \ {JobKey(job)}
    /\ jobs' = [jobs EXCEPT ![j] = Ended(job)]
    /\ UNCHANGED <<database, scrubs, started, events, late, stamped, excused>>

-----------------------------------------------------------------------------
Expire(k) ==
    /\ Event
    /\ k \in Stored /\ ~snapshots[k].expired
    /\ snapshots' = [snapshots EXCEPT ![k].expired = TRUE]
    /\ UNCHANGED <<database, jobs, scrubs, started, late, stamped, lost, excused>>

(* Requests, tasks and pending scrubs are gone; the tables remain. *)
Restart ==
    /\ Event
    /\ lost' = lost \cup {k \in Stored : snapshots[k].status = "computing"}
    /\ excused' = excused \cup scrubs
    /\ jobs' = [j \in Jobs |-> None]
    /\ scrubs' = {} /\ writes' = {}
    /\ UNCHANGED <<fips, network, behind, ingestion, accounts, epoch, clock, snapshots, started,
                   late, stamped>>

Computation(j) == Resolve(j) \/ Compute(j) \/ GiveUp(j) \/ Store(j)

SNext ==
    \/ \E f \in FipIds, row \in FipRows : BeginWrite(f, row)
    \/ \E w \in writes : CommitWrite(w)
    \/ \E f \in FipIds : DeleteFip(f) \/ DeleteWithOwner(f) \/ Scrub(f)
    \/ BeginIngest \/ (\E n \in NetworkIds : IngestCommunity(n))
    \/ EditModel \/ Backfill \/ Restart
    \/ \E u \in Users : DeleteAccount(u)
    \/ \E j \in Jobs, spec \in Specs, viewer \in Viewers :
           \/ \E view \in Views : Get(j, spec, viewer, view)
           \/ \E views \in RefreshLists : Refresh(j, spec, viewer, views)
    \/ \E j \in Jobs, spec \in Specs : RefreshCommand(j, spec)
    \/ \E j \in Jobs : MarkComputing(j) \/ BeginTask(j) \/ Computation(j)
    \/ \E k \in Stored : Drain(k) \/ Expire(k)

(* The server runs the requests and background tasks it has begun. *)
SFairness ==
    \A j \in Jobs : WF_svars(MarkComputing(j) \/ BeginTask(j) \/ Computation(j))

SSpec == SInit /\ [][SNext]_svars /\ SFairness

-----------------------------------------------------------------------------
(* Properties *)

(* A stored result that is served as current holds, for the viewer it is   *)
(* served to, exactly the population he would get if it were computed now, *)
(* with current contents: the key separates viewers of different rights    *)
(* and the stamp sees every change since the resolution, whatever happened *)
(* in between.  Exempt are FIPs whose last write was committed with a time *)
(* that a stamp had reached before (a write that overtook it to the lock,  *)
(* or another community of the same ingestion): the FIP may be missing or  *)
(* shown as it was, or take the place of one that has left (the number of  *)
(* members is the same again).  And a result computed while a projection   *)
(* was behind shows the local FIPs only, and is served as any other, also  *)
(* when the projection has caught up.                                      *)
ServedIsCurrent ==
    \A spec \in Specs, viewer \in Viewers, view \in Views :
        LET k == Key(spec, viewer, view, "default")
            now == MembersNow(spec, viewer)
            shown == Shown(view, snapshots[k], now)
        IN
        Served(k, spec, viewer) =>
            /\ Content(shown \ late) \subseteq snapshots[k].payload
            /\ now \cap late = {} => snapshots[k].payload = Content(shown)

(* Whatever is counted in a population can be read by the viewer one by    *)
(* one, so that the refusal of small populations with hidden members       *)
(* (check_k_anonymity) never strikes: two predicates written apart agree.  *)
NobodyHidden ==
    \A spec \in Specs, viewer \in Viewers : Hidden(SpecOf[spec], viewer, fips) = {}

(* A deleted FIP is gone from the stored clusters and maps once its        *)
(* deletion has been scrubbed -- unless it went with its session or owner, *)
(* a restart took the scrub, or a computation had resolved it before.      *)
DeletedIsForgotten ==
    \A k \in Stored : k[3] \in PairViews /\ snapshots[k].payload # None =>
        \A c \in snapshots[k].payload :
            c[1] \in Existing \cup scrubs \cup excused \cup NetworkIds

(* The promise of scrub_snapshots_for_deleted_fip as it is written: no id  *)
(* of a deleted FIP stays in a stored payload.                             *)
DeletionPromise ==
    \A k \in Stored : k[3] \in PairViews /\ snapshots[k].payload # None =>
        \A c \in snapshots[k].payload : c[1] \in Existing \cup scrubs

(* A row that is being computed does not stay so, and refreshes are not    *)
(* refused for ever, unless its task failed, lost its user or was lost in  *)
(* a restart.  (Refreshes are bounded here, so that it is enough that no   *)
(* row is being computed again and again.)                                 *)
Settled == \A k \in Stored : snapshots[k].status = "computing" => k \in lost

RefreshSettles == []<>Settled

=============================================================================
