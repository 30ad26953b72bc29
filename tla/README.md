# FIPManager: a TLA+ development

FIPManager lets communities declare which FAIR-enabling resources (FERs) they use,
in *FAIR Implementation Profiles* (FIPs): answers to a versioned questionnaire (a
*knowledge model*). It is a FastAPI/SQLAlchemy/SQLite server (`src/backend/fipm`)
and a Vue/Pinia front end (`src/frontend/src`). Its core logic is who may change
which row, what happens to rows that refer to one another, what overlapping
requests do to one row, what an autosaving editor does to the user's edits, how
answers move to another version of a questionnaire, what a dashboard may show to
whom, and whether its numbers are right. Those are the subject here.

## 1. Inventory

| Component (source) | State it keeps | Operations | Hard about it | Correct when | Modules |
|---|---|---|---|---|---|
| FIPs (`routers/fips.py`, `authz.py`) | `fips`: owner, session, edit token, visibility, questionnaire ref, answers | create, import, patch, delete, claim, migrate | four kinds of callers; token, ownership and closed session interact; no row lock | rows resolve; a claim is final; closed sessions freeze | `FipLifecycle`, `FipRequests` |
| Workshop sessions (`routers/sessions.py`) | owner, status, list of questionnaires | create, patch, delete | deletion detaches or deletes FIPs; the list may change | its FIPs answer what it offers | `FipLifecycle`, `FipRequests` |
| Migration (`migration.py`) | none of its own | diff, preview, apply | splits, removals, decisions; lists that answer a question twice; overlap with PATCH | no held answer is lost, none is doubled; the preview tells what happens | `MigrationDiff`, `FipMigration` |
| Accounts (`auth.py`, `routers/auth.py`) | `users`, `auth_sessions`, `email_tokens`, failed logins in memory | register, login, change, reset, verify, delete | several commits per request, crashes between them, overlap | links work once; old credentials die | `EmailLinks`, `AccountSecurity` |
| Knowledge models (`routers/knowledge_models.py`, `km_content.py`) | status, owner, visibility, content, ETag | create, save, publish, fork, new version, delete | in-use test; ETag against a loaded row; staged FERs | a questionnaire in use stays; published is frozen; drafts stay savable | `FipLifecycle`, `KmContent`, `KmCatalogue` |
| Catalogue of FERs (`routers/fers.py`, `routers/admin.py`, `importer.py`) | `fers`: source, owner | create, promote, merge, import | a merge rewrites every model | what models suggest exists | `KmCatalogue` |
| Projection (`projection.py`, `cli.py`, `network_ingest.py`) | `fip_facets`, `fip_cells`, `fip_declarations`, signatures, `fer_key_df`, backlog, epoch | write hook, backfill, check, ingest | writes the hook cannot see; models edited under it | what is stored is what the answers say, or is known not to be | `FipProjection`, `DashboardData`, `FipRequests` |
| Populations (`dashboard/populations.py`) | `dashboard_populations` | resolve, canonicalise | two security predicates | nobody is counted whom the viewer may not read | `DashboardPopulations` |
| Snapshots (`dashboard/snapshots.py`, `routers/dashboard.py`) | `dashboard_snapshots` | serve, compute, refresh, scrub, expire | background work, restarts, stale stamps | served as current is current; deleted FIPs vanish; no row stuck | `DashboardSnapshots` |
| Views and similarity (`dashboard/views.py`, `similarity_views.py`, `similarity.py`) | `lsh_hot_buckets` | aggregate, neighbours, clusters, map | every number computed in two ways; bounded searches | the numbers are those of the answers; what is cut off is disclosed | `DashboardViews`, `Similarity`, `SimilarityViews`, `DashboardData` |
| FIP editor (`stores/fipEditor.ts`, `views/FipEditor.vue`) | FIP on screen, dirty, in flight, timers, error | edit, autosave, retry, flush, load, visibility, claim | callbacks, lost answers, navigation | no edit misplaced; saved means saved | `FipEditor` |
| Draft editor, exporters, RDF, nanopublications, network client, DMP links, mail texts, feedback, other views, scripts | little or none | rendering, parsing, serialisation | | | not modelled, section 6 |

They meet in the tables: requests of all components load rows, decide and commit;
the write hook of the projection runs inside every commit that touches a FIP; the
dashboard reads the projection and caches what it computed. `PROJECT.json` lists
every component with its status, and the hazards at their lines.

## 2. Modules

Throughout, a table is a function from primary keys to rows, cut down to the columns
that the properties tell apart. SQLAlchemy and SQLite are external and modelled by
what the handlers rely on: a request reads committed rows when it loads them, writes
the columns whose value it changed when it commits, and a commit is atomic.
`*_proofs` modules hold theorems, `MC*` modules and cfg files the instances.

### FipLifecycle

Users, models, sessions and FIPs. One action is one HTTP request or CLI command
run to its commit; a refused request is no step. The guards are the code's early
returns: `AuthorizedWrite` is `_authorize_fip_write`, `MayCreateWith` the create
ladder, `MayMigrate` the checks of `migrate_fip`. The caller `u` is an account or
`None`; `token` says whether the request carries the FIP's edit token. Two details are
kept that are easy to miss: an admin who touches an unowned model becomes its owner
in a commit of its own (`Claimed`), even if the request is then refused (`TouchKm`);
and a session's FIPs are tested against the session's *first* questionnaire (`Primary`).
The database may be new or hold FIPs of an earlier version of the program (`InitialFips`).

### FipRequests (detailed) implements FipLifecycle

The same handlers as threads: load, decide, commit. It EXTENDS FipLifecycle and uses
its guards and row operators on the row *as loaded*. `Succeed` is the transaction:
changed columns are written (`Written`), an UPDATE of a missing row or a missing
referenced row makes it fail (`Flushes`), and the hook rewrites the projection of
the objects the session touched from the values *it* holds (`Projection`).
A PATCH always assigns the answers (`Assigned`): those it brings, or else those it found,
with DMP evidence of earlier versions rewritten (`normal`); FIPs of the start may have such
evidence (`Stored`), and the rewriting is a write like any other (`Rewrites`).
`AccountDeletion` and `Purge` are the bulk paths past the hook.
`SerialRequestsRefineLifecycle` is `Init /\ [][Next]_vars` of FipLifecycle over the
shared tables (the mapping is the identity; answers, projection and requests in
progress are hidden): requests that do not overlap are exactly those of FipLifecycle.

### EmailLinks (abstract) and AccountSecurity (detailed)

EmailLinks is the promise of a mailed link: live when issued, redeemed at most once
and only while live, withdrawn for good, and effective at most once. AccountSecurity
has every account route as a *plan* of commits (`Plan`) that it performs one by one
(`Proceed`, `Commit`), so that two requests interleave between commits and an
exception or a crash cuts one short (`Fail`, `Restart`). `Begin` loads the account;
a write overwrites the columns that differ from the loaded ones; `lost` remembers that one
overwrote a password chosen after the load (`Rehashed` is the login that does so). The refinement is
`INSTANCE EmailLinks WITH live <- the links not used, ...` and
`LinksKeepTheirPromise == Promise!Spec`; reading a link's state and claiming it by the
conditional UPDATE are separate steps of the detailed module.

### MigrationDiff and FipMigration

MigrationDiff is `migration.py` as operators: a content maps question ids to FER type
and visibility; stored answers are a list, which may answer a question more than once, as
nothing refuses that: an entry carries how many later ones answer its question too
(`Entry`), `Held` are the last ones, which a migration goes by, and `Masked` the questions
answered by an earlier entry only. `Diff` has the two passes of `compute_diff` (`KeptItems`,
`AddedItems`, `SplitItems`, `RemovedItems`), `Accepted` the refusals of
`apply_migration`, `NewAnswers` and `NewOrphans` its results, `CountKept` and
`CountOrphaned` the preview's own rules. FipMigration is one FIP under overlapping
PATCHes and migrations with any decisions; a PATCH stores the list it brings, or the one it
found, with old evidence rewritten (`Normalised`); `drifted` records that a write overtook another.

### KmContent and KmCatalogue

KmContent is `validate_content`, as the predicate that it returns no error (`ContentOK`;
which errors it lists, and after how many it stops, is left out), and the rewriting of
suggestions by a merge (`Repoint`). KmCatalogue has the models, the FERs and the requests
that overlap. An admin reads and writes every model, whoever owns it (`CanRead`, `CanOwn`),
and becomes the owner of one that has none (`TakenBy`). An editor holds a content and its
ETag (`Open`), and a `Save` compares it with the row as loaded; publication puts each staged FER into the catalogue in a
commit of its own (`PromoteStaged`) before the model (`CommitPublish`); a merge writes
all models that suggested the FER from what it loaded (`CommitMerge`), and fails if one of
them is gone. Any request may fail between commits (`Abort`). History variables name what
the code gives up: `late` (rows written from an overtaken load, and versions made from
them), `excused` (FERs merged while another request was about to write them), `clashing`
(FERs put into the catalogue by hand while staged by a model, found there by the
publication of one, or private to the admin or the owner of a model that the other writes
them into: `Private`).

### DashboardPopulations and DashboardSnapshots

DashboardPopulations is the population language and its WHERE clause; `Permitted`
is the predicate of `resolve_population`, `ReadableIndividually` the one that
`check_k_anonymity` compares with, written apart in the code and here.
DashboardSnapshots EXTENDS it with the cache. A computation is a sequence of steps
(`Resolve`, `Compute`, `Stamp`, `Store`) of a request, of a background task or of
the command, between which FIPs are written and deleted. A payload is the set of
members with their contents, a content is its `updated_at`. A write takes its time before it
has the lock; an ingestion takes one time (`BeginIngest`) and commits each community by
itself with it (`IngestCommunity`). `Shown` is what a view makes of a population: without
the network if a projection is behind. The server starts with the FIPs and communities of an
earlier run. History: `lost` records tasks that failed, lost their user or died in a restart,
`stamped` the latest time in a stamp, `late` the FIPs whose last write was committed with a
time that a stamp had reached, and `stale`, in a stored row, that it was computed degraded.

### FipProjection, DashboardViews, Similarity, SimilarityViews, DashboardData

Four modules of functions and one that moves. FipProjection is `project_answers`,
the signature, `bump_fer_key_df` and the comparison of `check-declarations`.
DashboardViews has every aggregate twice, by GROUP BY over the rows (`GapsLive`) and
by the Python fallback (`GapsDegraded`). Similarity is `score_pair` and the union-find;
SimilarityViews the neighbours (key budget, posting cap, candidate cap), the hot
buckets, the clusters and the map's colours and bars. DashboardData runs FIPs
through writes with the hook, writes without it, writes that a late commit left wrong
(`LateWrite`, the outcome FipRequests shows), deletions, edits of a model (epoch and
backlog), backfill, repair and ingestion. Its `ProjectAnswers` is the one function the
views, the hook, the network and the check share, as in the code. Shares are counted
in parts of `Unit` so that every quotient of the instance is exact.

### FipEditor

The Pinia store of one browser tab with its two timers, its autosave and its
visibility or claim requests under way, and the server as the set of edits kept
per FIP. Each handler runs to its next `await`, so it is one action. `revived` is history:
the answer of a visibility change or claim has put edits back on the screen that a later
save had taken off the server. `Received` is
what reaches the tab: an answer may be lost after the write was done. The store
outlives navigation, so `Navigate`, `Load` and `Loaded` are separate steps.

## 3. Runs

| Run | Asks | Instance, and why it is enough |
|---|---|---|
| `lifecycle` | do rows that refer to one another stay consistent and owned? | an admin, a facilitator, an unverified user; one FIP, one session, one model with two versions, three questionnaire lists. Any two kinds of rows meet; ids are taken again after deletion |
| `requests` | what do two overlapping requests preserve? | two slots, one FIP (stored at the start with old evidence, or not), one session, two users, three answer values, three writes (`MaxClock`): load, load, commit, commit after a create |
| `requests_serial` | do the handlers implement FipLifecycle; is the projection exact? | one slot, two FIPs, so that a session deletion meets a claimed and an unclaimed one |
| `editor` | are edits saved, once, to their FIP? | two FIPs, two edits, one outage, one visibility change or claim, one navigation |
| `accounts` | do links, passwords, cookies and the limit survive overlap and crashes? | one account, two overlapping requests, two cookies, two links, three passwords, one crash, limit 1 |
| `migration` | is any answer lost, doubled or misplaced? | four questions, one that splits into two; three models in every order over three versions; six lists, stored or sent, with blank answers, an answer that comes back later, and a question answered twice (two texts, one of them old evidence; a blank after a text); eight sets of decisions; three requests, two at once |
| `knowledge` | do models and catalogue fit together? | two users (one admin, who also writes the other's models), two models of two versions, one shipped and two other FERs, four documents, three requests, two at once, two other events |
| `dashboard` | is what is served current, readable, forgotten and settled? | one facilitator and the public, two populations, one local FIP and two communities, one of each there at the start, two views, two computations at once and in all, one other event, one later time: that of an ingestion or of a write. A community committed behind a stamp occurs; a local write behind one needs two times, and is left to the theorem |
| `statistics` | do views, neighbours, scores and clusters say what the answers say? | three local FIPs and one of the network, two versions of a model (one edited), five documents with duplicates, plans, texts, "not applicable"; three events; caps of 2 to 5 so that each one cuts |
| three `violation` runs | section 5 | |

Bounds are constants, named where they are declared (`Max*`, the id sets). Symmetry is
used in `requests`, `requests_serial` and `accounts` over slots and random ids; no liveness is
checked there. Deadlock is checked in the runs of FipLifecycle, FipRequests and
AccountSecurity; the others stop when their bounds are spent (or, in `editor`,
when the tab has nothing left to do).

Properties, by what could go wrong:

- references: `FipRowsResolve` (under overlap it rests on the foreign keys), `SessionPrimaryResolves`, `SuggestedExists`.
- access: `OwnedFipHasNoToken`, `PrivateFipHasAReader`, `OwnershipNeverTransferred`, `ClosedSessionFrozen`, `NobodyHidden`.
- questionnaires: `SingleRefSessionPinned`, `AnswersFitTheirVersion`, `PublishedIsFrozen`, `DraftStaysSavable`.
- overlap: `OnlyAnswersWriteAnswers`, `ClaimNotUndone`, `TemporaryIsFlagged`, `AttemptsBounded`, `ChangeLocksOut`, `LinksKeepTheirPromise`, `OneLiveLink`.
- migration: `MigrationAnswersOnce`, `NothingVanishes`, `PreviewIsRight`.
- projection and numbers: `ProjectionExact`, `ViewsCountTheAnswers` (against the answers themselves, with definitions of their own), `CleanMeansRight`, `DfCountsRows`, `NeighboursComplete`, `ScoreIsAMeasure`, `ClustersAreComponents` (against connected components by closed sets).
- cache: `ServedIsCurrent`, `DeletedIsForgotten`, and the liveness `RefreshSettles`.
- editor: `AtMostOneSave`, `NoForeignEdits`, `SavedIsOnServer`, and the liveness `UnsavedIsSettled`.
- types: `TypeOK` (the ground of the proofs), `ATypeOK` (also that no cookie or link outlives its account).

Where a property exempts a case, its comment names the case, and section 5 or the
hazard's note says what the code does there. Every property has a mutant: an operator
just above the one it replaces, differing by a plausible bug.

Fairness. FipEditor: timers that are set fire, requests under way are handled and
answered or fail, an outage ends; nothing is assumed of the user, of navigation or of
the loss of access. DashboardSnapshots (`SFairness`): the server goes on with a
computation it has begun (starlette runs background tasks after the response); nothing
is assumed of new requests or of restarts. The other specifications are safety only.

## 4. Proofs

TLAPS checks these for all values of the constants allowed by the modules' assumptions
(sizes are natural numbers; ids are disjoint from `None`; the ids of requests, questions and
FIPs are finite sets, where a property counts them; what is shipped is valid content).
Induction over data is by finite or well-founded sets (`SetInduction`,
`WellFoundedInduction` on subsets of the naturals): the sets are defined by the fact to be shown.

`FipLifecycle_proofs`: `TypeCorrect`, `FipRowsAlwaysResolve`,
`SessionPrimaryAlwaysResolves`, `OwnedFipNeverHasToken`, `PrivateFipAlwaysHasAReader`,
`SingleRefSessionAlwaysPinned`, `OwnershipIsNeverTransferred`, `MigrationIsOnlyForward`,
`ClosedSessionIsFrozen` (every action keeps the FIPs of closed sessions, but for the callers it names).
None of the invariants is inductive alone: deleting a model keeps FIPs resolved only if
the in-use test sees them; migrating keeps a FIP published and pinned only if its
session and that session's first questionnaire exist; an account deletion leaves a private
FIP readable only if owned FIPs carry no token. `IInv` joins types with one predicate
per session row (`SessionOK`) and per FIP row (`FipOK`). Lemmas about the shape of a
change (`WriteFip`, `RemoveFips`, `WriteSession`, `WriteKms`) reduce each action to the row
it writes; there is one lemma per action, and `NextKeepsIInv` collects them.

`FipRequests_proofs`, for any number of overlapping requests: `RSpec_FipRowsResolve`,
`RSpec_OnlyAnswersWriteAnswers`, `RSpec_ClaimNotUndone`. `RInv` adds to the first what each
slot holds: a request with its loaded rows, whose insert or changed columns will resolve
unless a foreign key refuses them (`WillResolve`). For the second,
what a commit makes of the answers is what the request brings or its rewriting of what it
found (`CommittedAnswers`). Under `~Overlap`, the case of the run
`requests_serial`: `RSpec_ProjectionExact` and `RSpec_SerialRequestsRefineLifecycle`.
`SInv` says that at most one request is in progress, and that what it loaded and decided
is what the tables and the guards of FipLifecycle still say (`UpToDate`); a commit is then
the atomic action, every other step stutters.

`FipEditor_proofs`: `AtMostOneSaveHolds`, `NoForeignEditsHolds`, `SavedIsOnServerHolds`. `EInv`
says of every edit, on screen, under way or stored, on which FIP it was made
(`EditsAtHome`), and that a save the server has answered is what the database has, so that
the screen without a save to come is stored (`ShownIsStored`).

`Dashboard_proofs`: `MembersAreReadable` and `NeverTooSmall` are about the two predicates
of DashboardPopulations for any rows, sessions, viewers and specifications, by cases over
the kind of viewer; `ScopeSeparates` says that viewers with the same scope in the
cache key see the same members. `SSpec_NobodyHidden` lifts the first to every reachable
state. `SSpec_DeletedIsForgotten` needs an inductive invariant over the computations
under way as well: what a job has resolved or computed names only FIPs that exist, are
still to be scrubbed or are excused, or else its job is recorded as having resolved before.
`SSpec_ServedIsCurrent`, for any limits, needs `Current`. Whatever stamp was taken, a row committed
later has a time after all stamps, or is `late` (`CommitSteady`, from `Times`: no stamp is
ahead of the clock). So of the members not written since the time of a stamp, and not late,
the payload under that stamp has all that its view shows (`Past`, `Still`, `JobCurrent`,
`RowCurrent`); if the stamp is that of now they are all members, and without late members the
count leaves room for no others.

`FipMigration_proofs`: `MSpec_MigrationAnswersOnce` and `MSpec_NothingVanishes`, for
all contents, lists of answers and decisions. `MInv` says of each request in progress that a
migration will write one answer per question and keeps what it loaded (`RequestOK`), and that
the stored list is in order, whatever it repeats (one last entry per question). The two lemmas at the core are that accepted decisions
never put two answers on one target (`NewAnswersOneEach`), and that the cases of the
diff leave no answered question out. A commit then only has to find the row it loaded.
`MSpec_AnswersFitTheirVersion` (`FInv`: what a request will write fits the version it will
write, `RequestFits`) and `MSpec_PreviewIsRight`, where the preview's counting rules and the
migration's are matched question by question.

`AccountSecurity_proofs`: `LinksKeepTheirPromiseHolds` is the refinement of EmailLinks and
`OneLiveLinkHolds` the uniqueness of a live link, for any accounts, links, requests
and crashes. `LInv` says that a link not yet claimed was never redeemed
(`Accounts`), that a request which claimed its link and has not yet acted on it is the
only one to do so (`Owing`, `Debts`), and what can be left of a plan (`PlanOK`: an
effect comes right after its claim, so no request acts twice on one claim). Each step is then
mapped: `IssueIsIssue`, `ClaimIsRedeem`, `EffectIsApply`, `LossIsWithdrawal`.

In the same module, of what opens an account: `ATypeOKHolds`, `TemporaryIsFlaggedHolds`, `AttemptsBoundedHolds` and
`ChangeLocksOutHolds`. `AInv` adds to `LInv` the types of the tables and of what can be left
of each plan (`Shapes`), that the passwords still to be chosen fit the bound (`Chosen`), that a
request which knows the current password knows its flag too (`Knows`, in `Flagged`), that the
failures recorded and still to be recorded leave the limit at most by the other requests
(`Tried`, by counting), and, for each step of the three commits of a change, which
cookies and links are gone by then (`Locked`).

`KmCatalogue_proofs`: `KSpec_SuggestedExists`, `KSpec_PublishedIsFrozen`,
`KSpec_DraftStaysSavable`, for any documents, users and overlapping requests. `KInv` says
of each stored model that what it suggests exists (`Existing`), stages nothing that
collides for an admin (`Cool`, as an admin may write any model), and fits its
owner (`Fits`); of each request that what it will write is the same (`Sound`), has the
shape of its call (`Shape`), and for a merge that the models it will leave alone do not
need the FER that goes (`Spared`). A step that takes no FER from a document keeps all this
of it (`Harmless`, `Spares`), so that each action has to show it only for the document it
writes. `RepointedDocument` says what a merge does to a document: the recursive
function is shown to exist and to keep its elements by `SetInduction`.

`DashboardData_proofs`: `DSpec_DfCountsRows`, `DSpec_ScoreIsAMeasure`, `DSpec_NeighboursComplete`,
`DSpec_ClustersAreComponents`, `DSpec_CleanMeansRight`, `DSpec_ViewsCountTheAnswers`,
for any documents, models, payloads, caps and number of events. `DfInv` is the count of
`fer_key_df` with the finiteness of what is counted. A backfill folds decrements over its
FIPs, then increments; the library's fold is unwound once, for any step function
(`FoldExists`), and each prefix of the two folds counts right (`UnprojectedAll`, `ProjectedAgain`).
`RowsInv` says that every projection is finite, whatever was edited, backfilled
or ingested; of two finite rows, sums and means are bounded by their terms (`SumBounds`,
`MeanBounds`), which gives the range, the zero and the full score at once, and the symmetry
comes question by question (`MeasureSymmetric`). For the neighbours, what a cut-off list
keeps is some of it, and all of it if it is short, for each of the four orders (`Kept`); what is found
then shares a key (`FoundShare`), and a key whose list is whole leads to all that share it
(`SharersAreFound`), where `DfCountsRows` makes the flag mean what it says.
For the clusters, a parent function along which ranks grow has one root function (`RootsAre`),
and union by rank keeps it such a forest (`UnionJoins`); the fold over the edges then gives
nodes one root exactly if no set closed under the edges separates them (`UnionLinks`), so
the classes are the minimal closed sets (`ClustersAreMinimal`). With fewer nodes and edges
a component lies inside one (`ComponentsOfFewer`), a node without an edge is alone
(`ComponentsOfTheEnds`), and a pair list that was not cut holds every pair that shares
a bucket (`PairsAreKept`). That equal signatures share one needs a first band: the
assumption K, BandRows > 0 and BandRows divides K (`config.py:194`: 32 bands of 4 rows in a
signature of 128; `check_dashboard_safety` checks the product).
For `check-declarations`, as many cells as questions and the same states leave one cell for
every question asked (`CleanCells`), so the sums of the view count what is said
(`CoverageMatched`, by a matching of the two); equal tokens leave the same resources in
use (`SameTokens`), and a key is of one resource, hence has one line (`OneResource`).
`SelectSeq` and `@@` have no meaning to the provers: the answers read from the network are
picked by a recursive function (`Picked`), the visible questions are a set of positions,
and rows are written as records.

For the views, `ViewsInv` says that a row which is in time, of the current epoch and not
`late` shows what its FIP says (`Shows`). An edited model changes what every row should
show, and only the epoch tells, so the invariant also bounds the epochs of the rows. So what a view is given,
live or degraded, is what the answers project to (`SeenAsAnswered`), and each aggregate is
matched with the answers on its own: cells with what is said to the questions asked
(`CoverageIsRight`, `GapsAreRight`), rows with what is declared (`AreRows`, for adoption,
evolution and convergence). The proof needs what `validate_content` grants, unique ids of
questions and known principles, and that a principle, its letter and "Other" are not `None`:
a question could otherwise be in two lines of one coverage, or in none.

Only model-checked: liveness (`UnsavedIsSettled`, `RefreshSettles`), which is out of the
prover's reach.

## 5. Where code and documents disagree

Shown by runs:

| Run | Property | In short |
|---|---|---|
| `requests_stale` | `StaleProjectionDetected` | overlapping PATCHes leave a wrong projection that looks current (`projection.py:453`, `models.py:331`) |
| `editor_lost` | `NoEditLost` | an edit made during an autosave vanishes with its response (`fipEditor.ts:202`, spec 02) |
| `migration_defaults` | `DefaultsAreValid` | an empty stored answer to a question that is split makes a migration by defaults fail (`migration.py:423`, spec 07) |

Stated in the modules but without a run of their own; put the property in the place of
the INVARIANT or PROPERTY of the named cfg to see the behaviour:

| cfg | Property | In short |
|---|---|---|
| `FipLifecycle.cfg` | `NoOwnerlessPrivateFip` | POST into a session accepts "private" (`fips.py:270`) although spec 09 (lines 92-94) says POST and PATCH alike refuse it |
| `FipLifecycle.cfg` (with two questionnaires) | `SessionFipsPinned` | the pin of session FIPs compares with the first questionnaire only (`fips.py:1087`; spec 07, line 97) |
| `FipRequests_serial.cfg` | `NoOrphanProjection` | `delete_me` leaves the projections of the FIPs it deletes (`auth.py:398`; invariant 2 at `cli.py:376`) |
| `FipRequests.cfg` | `ClaimedOnce` | two simultaneous claims both succeed (`fips.py:935`; spec 01, line 159: "Already-owned -> 409") |
| `AccountSecurity.cfg` | `ResetIsOneTransaction` | a confirmed reset is four commits (`auth.py:296`: "one transaction"); a crash spends the link without effect |
| `DashboardSnapshots.cfg` | `DeletionPromise` | sessions and accounts are deleted without a scrub, and a computation under way stores the id again (`snapshots.py:402`) |

Exempted by a property, with the name of the exemption:

- A PUT or PATCH of a draft that overlaps its publication changes the published version, or the draft of whoever took the id since (`late` in KmCatalogue; spec 04, line 43).
- An admin may save another user's draft suggesting a private FER of the admin's, after which the owner's save of the same content is refused as `unknown_suggested_fer`; and may stage an id that is a private FER of the owner (`Private`, hence `clashing`, in KmCatalogue; `knowledge_models.py:126`, `authz.py:57`).
- A PATCH without answers that finds DMP evidence of an earlier version writes all the answers it found, rewritten, over what was saved since it loaded them (`Rewrites` in FipRequests; `fips.py:885`).
- A login that re-hashes an old password overwrites a change made meanwhile (`lost` in AccountSecurity).
- `updated_at` is chosen before the write lock is held, and all communities of one ingestion bear the time at which it began (`network_ingest.py:261`), so that a write or a community may go unseen by the stamp of a snapshot (`late` in DashboardSnapshots).
- What was computed while a projection was behind, without the network, is stored and served as any other, with `degraded: False`, until the stamp changes (`Shown` in DashboardSnapshots; `views.py:125`, `snapshots.py:290`).
- FERs of the network are in the pickers, and models that suggest them are refused; publishing a model that stages the id of another user's private FER leaves it private (`DraftStaysSavable`).
- A degraded population (Python fallback) drops network members, groups adoption by area with stale facets and splits rows by FER type (`views.py`; `ViewsCountTheAnswers`).
- An answer to a question the source version lacks and the target has counts as added, and is neither kept nor orphaned (`Reappears` in FipMigration).
- PATCH, POST and import store a list that answers a question repeatedly. A migration goes by the last entry (`migration.py:385`), so that the earlier ones are neither kept nor orphaned (`Held` in `NothingVanishes`); the preview counts the question as answered if any entry is, so that it is wrong where a blank one follows (`Masked` in `PreviewIsRight`).

Met while modelling, and outside the properties: `pair_view` refuses a FIP that its
session's owner is shown as a neighbour (`_readable` lacks the clause the docstring
names); the similarity views never look at staleness; FIPs without answers share one
signature, and their bucket is reported as alike; the candidate cap of the neighbours is
not disclosed; `check-declarations` does not compare status, scope or successor of a
declaration; `df_public` is decremented by the visibility of now and read by nobody; network
rows stay behind after an epoch bump until the next ingestion; `refresh-dashboard` computes
rows under keys that no GET asks for.

Found by proving: properties that the runs had passed only because of their bounds, now
stated as they hold. In the editor, a late answer to a visibility change brings back on screen
what a later save removed (`revived`). A login that re-hashes and one that overlaps it can
lose a change twice (`lost` is kept for good). A FIP committed late may take the place of one
that has left, and the stamp sees neither (`ServedIsCurrent`). A shipped
document imported while a merge is under way keeps the FER that goes; the owner of a
draft may find staged an id that an admin created, who then takes the draft over; a second
claim of an unowned model replaces the first; a new version of an overtaken row
is as doubtful as that row; a merge fails if a model it rewrites was deleted (`excused`,
`clashing`, `late` in KmCatalogue). The cap on a posting list is one of declaration rows
(`similarity_views.py:429`), and the flag (`:438`) compares it with `fer_key_df`, which counts FIPs: a key that FIPs
repeat at one question is cut without the disclosure that spec 13 (lines 908-911) promises
(`CutByRepeats` in DashboardData). `check-declarations` compares signatures (`cli.py:323`) and not
the status of a declaration, so it can find nothing to say of a row whose tokens differ if
MinHash gives them one signature (`Confused`).

## 6. Not modelled

- The draft editor (`stores/kmEditor.ts`): what its saves can do to a draft is in KmCatalogue, where an editor may hold any earlier content and ETag; its timers are those of FipEditor.
- Exporters, RDF, nanopublications, DMP links, mail texts, guides, feedback, the import of workshop documents: text in, text out, nothing stored or a single insert.
- The network client: HTTP and parsing. What its results do to the database is in DashboardData.
- Of the views: labels, order and pages of rows, CSV, typeahead, `pair_view`, the side-by-side comparison, the limits of the clusters shown, the trimming of payloads that are too large (they say `truncated`).
- Join codes, rate limits other than that on failed logins, cookie expiry, request validation: they only refuse.
- The page-hide request and DELETE of the FIP editor, declarations without a FER.
- Waiting for SQLite's write lock (`busy_timeout`): a commit is atomic and happens when it happens.
- Two ingestions at the same time; the order of the answers to different questions in a list.
- The commits of one backfill, one by one (FipRequests has one of them against requests).

## 7. Plan

1. A model of the draft editor with its conflict dialogue, composed with KmCatalogue.
2. The rewriting of FIPs' declarations by `merge_fer`, composed with FipRequests.
