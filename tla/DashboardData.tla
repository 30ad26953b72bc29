---------------------------- MODULE DashboardData ----------------------------
(***************************************************************************)
(* The FIPs, their projection, the frequencies of the keys and the hot     *)
(* buckets over time, and what the views make of them.  Requests are       *)
(* serial here; what overlapping requests can do to a projection           *)
(* (FipRequests) is the action LateWrite.                                  *)
(*                                                                         *)
(* A document is what the projection looks at of a row of fips: answers,   *)
(* questionnaire version and the version it was migrated from.             *)
(***************************************************************************)
EXTENDS DashboardViews, SimilarityViews

CONSTANTS
    FipIds, NetworkIds,  \* numbers, in the order of the ids
    Contents,            \* for each questionnaire version, the contents it may have
    Documents,           \* what may be stored in a FIP
    Payloads,            \* what may be read from the network
    Initial,             \* FIPs to begin with
    NetworkRef,          \* gofair-fip-mini, the model of the network
    FallbackMax,         \* dashboard_fallback_max_fips
    Populations,         \* sets of FIPs to look at
    MaxEvents

VARIABLES
    fips,       \* the documents of the FIPs that exist
    gone,       \* ids of deleted FIPs: they are not used again
    content,    \* of each knowledge model
    epoch, backlog,
    rows,       \* the projections, local and of the network
    network,    \* what was last ingested of each FIP of the network
    df,         \* fer_key_df
    hot,        \* lsh_hot_buckets
    late,       \* FIPs whose projection an overlapping request left wrong
    events

dvars == <<fips, gone, content, epoch, backlog, rows, network, df, hot, late, events>>

Refs == DOMAIN Contents

(* What is read from a JSON column, or the network, is made of lists. *)
IsList(list) == list \in Seq(Range(list))

WellFormed(answers) ==
    IsList(answers) /\ \A i \in DOMAIN answers : IsList(answers[i].declarations)

(* validate_content refuses two questions of one id, and a principle that  *)
(* does not exist.                                                         *)
IsContent(c) ==
    /\ IsList(c)
    /\ \A i, j \in DOMAIN c : c[i].id = c[j].id => i = j
    /\ \A i \in DOMAIN c : c[i].sub \in {None} \cup DOMAIN PrincipleOf

ASSUME DataAssumption ==
    /\ FipIds \subseteq Nat /\ NetworkIds \subseteq Nat /\ FipIds \cap NetworkIds = {}
    /\ NetworkRef \in Refs
    /\ \A p \in Populations : p \subseteq FipIds \cup NetworkIds
    /\ \A i \in Initial : /\ DOMAIN i \subseteq FipIds /\ IsFiniteSet(DOMAIN i)
                           /\ \A f \in DOMAIN i : i[f] \in Documents
    /\ \A r \in Refs : Contents[r] # {} /\ \A c \in Contents[r] : c = None \/ IsContent(c)
    /\ \A d \in Documents : d.ref \in Refs /\ WellFormed(d.answers)
    /\ \A p \in Payloads : WellFormed(p)

Within(bound) == events < bound /\ events' = events + 1

Projected(doc, contents) == ProjectAnswers(contents[doc.ref], doc.answers)

RowOf(doc) == Row("local", doc.ref, doc.migratedFrom, Projected(doc, content), epoch)

(* Mutant: what the FIP declared before remains counted. *)
UnprojectedDfForgets(f) == df

(* unproject_fip: what fer_key_df is left with *)
UnprojectedDf(f) ==
    IF f \in DOMAIN rows THEN BumpFerKeyDf(df, rows[f].declarations, -1) ELSE df

(* reproject_fip: delete, then insert *)
Reproject(f, row) ==
    /\ rows' = [x \in DOMAIN rows \cup {f} |-> IF x = f THEN row ELSE rows[x]]
    /\ df' = BumpFerKeyDf(UnprojectedDf(f), row.declarations, 1)

Unproject(f) ==
    /\ rows' = [x \in DOMAIN rows \ {f} |-> rows[x]]
    /\ df' = UnprojectedDf(f)

Stored(f, doc) ==
    /\ f \in DOMAIN fips \/ f \notin gone
    /\ f \in DOMAIN fips => fips[f] # doc
    /\ fips' = [x \in DOMAIN fips \cup {f} |-> IF x = f THEN doc ELSE fips[x]]

DInit ==
    /\ fips \in Initial
    /\ gone = {} /\ epoch = 0 /\ backlog = {} /\ hot = {} /\ late = {} /\ events = 0
    /\ content = [r \in Refs |-> CHOOSE c \in Contents[r] : TRUE]
    /\ network = [n \in {} |-> None]
    /\ rows = [f \in DOMAIN fips |-> RowOf(fips[f])]
    /\ df = LET declaring(p) == {f \in DOMAIN fips : p \in CurrentPairs(rows[f].declarations)} IN
            [p \in UNION {CurrentPairs(rows[f].declarations) : f \in DOMAIN fips} |->
                Cardinality(declaring(p))]

(* The write hook: POST, PUT, PATCH, migration and import of a FIP. *)
Write(f, doc) ==
    /\ Within(MaxEvents)
    /\ Stored(f, doc)
    /\ Reproject(f, RowOf(doc))
    /\ late' = late \ {f}
    /\ UNCHANGED <<gone, content, epoch, backlog, network, hot>>

(* The same while the hook is off: FIPM_DASHBOARD_ENABLED is false, or a   *)
(* program suspends it.                                                    *)
WriteUnprojected(f, doc) ==
    /\ Within(MaxEvents)
    /\ Stored(f, doc)
    /\ rows' = [x \in DOMAIN rows |-> IF x = f THEN [rows[x] EXCEPT !.inTime = FALSE] ELSE rows[x]]
    /\ UNCHANGED <<gone, content, epoch, backlog, network, df, hot, late>>

(* A PATCH of the answers, and one of the title that loaded the FIP before *)
(* and commits after it: the row is computed from the old answers, and     *)
(* carries the time of the new.                                            *)
LateWrite(f, doc) ==
    /\ Within(MaxEvents)
    /\ f \in DOMAIN fips /\ fips[f] # doc /\ fips[f].ref = doc.ref
    /\ fips' = [fips EXCEPT ![f] = doc]
    /\ Reproject(f, RowOf(fips[f]))
    /\ late' = late \cup {f}
    /\ UNCHANGED <<gone, content, epoch, backlog, network, hot>>

(* DELETE of a FIP, deletion with its session, and the purge *)
Delete(f) ==
    /\ Within(MaxEvents)
    /\ f \in DOMAIN fips
    /\ fips' = [x \in DOMAIN fips \ {f} |-> fips[x]]
    /\ gone' = gone \cup {f}
    /\ Unproject(f)
    /\ late' = late \ {f}
    /\ UNCHANGED <<content, epoch, backlog, network, hot>>

(* delete_me: one DELETE statement, which goes past the hook *)
DeletePastTheHook(f) ==
    /\ Within(MaxEvents)
    /\ f \in DOMAIN fips
    /\ fips' = [x \in DOMAIN fips \ {f} |-> fips[x]]
    /\ gone' = gone \cup {f}
    /\ late' = late \ {f}
    /\ UNCHANGED <<content, epoch, backlog, rows, network, df, hot>>

(* an edit of the content of a model: every projection is behind now *)
EditContent(r, c) ==
    /\ Within(MaxEvents)
    /\ c # content[r]
    /\ content' = [content EXCEPT ![r] = c]
    /\ epoch' = epoch + 1
    /\ backlog' = backlog \cup {r}
    /\ UNCHANGED <<fips, gone, rows, network, df, hot, late>>

(* stale_fip_ids *)
StaleFips ==
    {f \in DOMAIN fips :
        \/ f \notin DOMAIN rows
        \/ ~rows[f].inTime
        \/ rows[f].epoch < epoch
        \/ fips[f].ref \in backlog}

ReprojectAll(F) ==
    /\ rows' = [x \in DOMAIN rows \cup F |-> IF x \in F THEN RowOf(fips[x]) ELSE rows[x]]
    /\ df' = LET without == FoldSet(LAMBDA f, d : IF f \in DOMAIN rows
                                THEN BumpFerKeyDf(d, rows[f].declarations, -1) ELSE d, df, F)
             IN  FoldSet(LAMBDA f, d : BumpFerKeyDf(d, RowOf(fips[f]).declarations, 1), without, F)
    /\ late' = late \ F

(* backfill-declarations; --only-stale takes what it did off the backlog *)
Backfill(onlyStale) ==
    LET F == IF onlyStale THEN StaleFips ELSE DOMAIN fips IN
    /\ Within(MaxEvents)
    /\ ReprojectAll(F)
    /\ backlog' = IF onlyStale THEN backlog \ {fips[f].ref : f \in F} ELSE backlog
    /\ UNCHANGED <<fips, gone, content, epoch, network, hot>>

(* run_check_declarations, over all the FIPs: those with something to say  *)
Problems ==
    {f \in DOMAIN fips : f \notin DOMAIN rows \/ Differs(rows[f], Projected(fips[f], content), epoch)}
        \cup {f \in DOMAIN rows : rows[f].source = "local" /\ f \notin DOMAIN fips}

(* check-declarations --fix: what exists is projected again *)
Fix ==
    /\ Within(MaxEvents)
    /\ Problems \cap DOMAIN fips # {}
    /\ ReprojectAll(Problems \cap DOMAIN fips)
    /\ UNCHANGED <<fips, gone, content, epoch, backlog, network, hot>>

(* _answers_from_payload: a declaration of nothing is kept for its reason  *)
Usable(d) == IF d.status = "none" THEN d.considerations # None ELSE d.status # None /\ d.resource # None

FromNetwork(d) ==
    [ferId |-> IF d.status = "none" THEN None ELSE d.resource,
     text |-> IF d.status = "none" THEN d.considerations ELSE None,
     status |-> d.status, successorId |-> None, successorText |-> None]

(* The elements of a list at certain positions, appended one by one *)
Picked(list, positions) ==
    LET out[n \in 0..Len(list)] ==
            IF n = 0 THEN <<>>
            ELSE IF n \in positions THEN Append(out[n - 1], list[n]) ELSE out[n - 1]
    IN  out[Len(list)]

DeclarationsFromPayload(decls) ==
    Picked([i \in 1..Len(decls) |-> FromNetwork(decls[i])], {i \in 1..Len(decls) : Usable(decls[i])})

AnswersFromPayload(payload) ==
    LET answers == [i \in 1..Len(payload) |->
                       [question |-> payload[i].question, notApplicable |-> FALSE,
                        declarations |-> DeclarationsFromPayload(payload[i].declarations)]]
    IN  Picked(answers, {i \in 1..Len(payload) : answers[i].declarations # <<>>})

(* ingest_network_fips, for one community; a failure to read it changes    *)
(* nothing                                                                 *)
IngestNetwork(n, payload) ==
    LET answers == AnswersFromPayload(payload)
        row == Row("network", NetworkRef, None, ProjectAnswers(content[NetworkRef], answers), epoch)
    IN  /\ Within(MaxEvents)
        /\ content[NetworkRef] # None
        /\ n \in DOMAIN network => network[n] # answers \/ rows[n] # row
        /\ Reproject(n, row)
        /\ network' = [x \in DOMAIN network \cup {n} |-> IF x = n THEN answers ELSE network[x]]
        /\ UNCHANGED <<fips, gone, content, epoch, backlog, hot, late>>

Refresh ==
    /\ Within(MaxEvents)
    /\ hot # RefreshHotBuckets(rows)
    /\ hot' = RefreshHotBuckets(rows)
    /\ UNCHANGED <<fips, gone, content, epoch, backlog, rows, network, df, late>>

DNext ==
    \/ \E f \in FipIds, doc \in Documents :
          Write(f, doc) \/ WriteUnprojected(f, doc) \/ LateWrite(f, doc)
    \/ \E f \in FipIds : Delete(f) \/ DeletePastTheHook(f)
    \/ \E r \in Refs : \E c \in Contents[r] : EditContent(r, c)
    \/ \E onlyStale \in BOOLEAN : Backfill(onlyStale)
    \/ Fix
    \/ \E n \in NetworkIds, payload \in Payloads : IngestNetwork(n, payload)
    \/ Refresh

DSpec == DInit /\ [][DNext]_dvars

----------------------------------------------------------------------------
(* What the views are given *)

MembersOf(population) == population \cap (DOMAIN fips \cup DOMAIN network)

Resolved == {MembersOf(population) : population \in Populations}

(* the stale_ids of a population *)
Behind(M) == {f \in M : f \notin DOMAIN rows \/ ~rows[f].inTime \/ rows[f].epoch < epoch}

Tier(M) == TierOf(Cardinality(M), Behind(M), FallbackMax)

(* _project_population_python; a FIP of the network has no answers here *)
Recomputed(M) == [f \in M \cap DOMAIN fips |-> Projected(fips[f], content)]

CellsSeen(M) ==
    IF Tier(M) = "live" THEN [f \in M |-> rows[f].cells]
    ELSE [f \in DOMAIN Recomputed(M) |-> Recomputed(M)[f].cells]

DeclarationsSeen(M) ==
    IF Tier(M) = "live" THEN [f \in M |-> rows[f].declarations]
    ELSE [f \in DOMAIN Recomputed(M) |-> Recomputed(M)[f].declarations]

(* the area is always that of the projection, even if it is behind *)
AreasSeen(M) == [f \in M |-> IF f \in DOMAIN rows THEN rows[f].area ELSE None]

Adoption(M, level, status, catalogued) ==
    IF Tier(M) = "live"
    THEN AdoptionLive(DeclarationsSeen(M), AreasSeen(M), level, status, catalogued)
    ELSE AdoptionDegraded(DeclarationsSeen(M), AreasSeen(M), level, status, catalogued)

Gaps(M, percent) ==
    OverThreshold(IF Tier(M) = "live" THEN GapsLive(CellsSeen(M)) ELSE GapsDegraded(CellsSeen(M)),
                  percent)

Migrations(M) ==
    IF Tier(M) = "live"
    THEN EvolutionMigrations([f \in M |-> rows[f].area], [f \in M |-> rows[f].migratedFrom])
    ELSE LET local == M \cap DOMAIN fips IN
         EvolutionMigrations([f \in local |-> fips[f].ref], [f \in local |-> fips[f].migratedFrom])

----------------------------------------------------------------------------
(* What they should say, in terms of the answers *)

TextOf(f) ==
    IF f \in DOMAIN fips THEN fips[f]
    ELSE [answers |-> network[f], ref |-> NetworkRef, migratedFrom |-> None]

Asked(f) ==
    LET c == content[TextOf(f).ref] IN
    IF c = None THEN {} ELSE {q \in {c[i] : i \in DOMAIN c} : ~q.hidden}

AskedOf(M) == UNION {{<<f, q>> : q \in Asked(f)} : f \in M}

Declared(f, q) ==
    LET d == AnswerTo(TextOf(f).answers, q.id).declarations IN {d[i] : i \in DOMAIN d}

KeyOf(d) == ConvergenceKey(d.ferId, d.text, d.status)

Uses(f, q, key, status) == \E d \in Declared(f, q) : KeyOf(d) = key /\ d.status = status

InUse(f, q) == \E d \in Declared(f, q) : d.status = "current"

Plans(f, q) == \E d \in Declared(f, q) : d.status \in PlannedStatuses

Says(f, q, state) ==
    CASE state = "current" -> InUse(f, q)
      [] state = "planned" -> Plans(f, q) /\ ~InUse(f, q)
      [] state = "none" -> Declared(f, q) # {} /\ ~InUse(f, q) /\ ~Plans(f, q)
      [] state = "not-applicable" ->
             Declared(f, q) = {} /\ AnswerTo(TextOf(f).answers, q.id).notApplicable
      [] state = "unanswered" ->
             Declared(f, q) = {} /\ ~AnswerTo(TextOf(f).answers, q.id).notApplicable
      [] state = "absent" -> FALSE

(* what each FIP says to each question it is asked *)
SaidIn(M) ==
    {<<x[1], x[2], CHOOSE s \in CellStateNames : Says(x[1], x[2], s)>> : x \in AskedOf(M)}

LineOf(q, level) ==
    IF level = "group" THEN <<"p", IF q.sub = None THEN "Other" ELSE LetterOf[q.sub]>>
    ELSE IF level = "question" \/ q.sub = None THEN <<"q", q.id>>
    ELSE <<"p", IF level = "principle" THEN PrincipleOf[q.sub] ELSE q.sub>>

CoverageRight(M, level, said) ==
    LET view  == Coverage(CellsSeen(M), level, "any", Cardinality(M))
    IN  /\ DOMAIN view.rows = {LineOf(x[2], level) : x \in said}
        /\ view.cells = Cardinality(said)
        /\ \A line \in DOMAIN view.rows :
              LET here   == {x \in said : LineOf(x[2], level) = line}
                  counts == view.rows[line].counts
              IN  \A state \in CellStateNames :
                      counts[state] = Cardinality({x \in here : x[3] = state})

GroupOf(f, q, key, level) ==
    CASE level = "fer" -> key
      [] level = "ferType" -> q.ferType
      [] level = "question" -> q.id
      [] level = "area" -> TextOf(f).ref

(* One line for every resource and status, in its group, with the FIPs     *)
(* that declare it.  Where the lines are split by the type that a question *)
(* asks for, for the resources that one type of question asks for.         *)
AdoptionRight(M, level, statuses) ==
    LET view  == Adoption(M, level, "any", "any")
        asked == AskedOf(M)
        byType == Tier(M) = "degraded" \/ level \in {"ferType", "question"}
        group(x, key) == GroupOf(x[1], x[2], key, level)
        declared == UNION {{<<group(x, KeyOf(d)), KeyOf(d), d.status>> : d \in Declared(x[1], x[2])} :
                              x \in asked}
        using(k) == {x \in asked : group(x, k[2]) = k[1] /\ Uses(x[1], x[2], k[2], k[3])}
    IN  \A k \in declared : k[3] \in statuses =>
            LET lines == {l \in DOMAIN view : l.group = k[1] /\ l.key = k[2] /\ l.status = k[3]} IN
            \/ byType /\ Cardinality({x[2].ferType : x \in using(k)}) > 1
            \/ /\ Cardinality(lines) = 1
               /\ \A l \in lines : view[l].fips = Cardinality({x[1] : x \in using(k)})

GapsRight(M, said) ==
    LET view == Gaps(M, 0)
        live == Tier(M) = "live"
        at(id) == {k \in DOMAIN view : IF live THEN k.question = id ELSE k = id}
        sum(id, column) == SumFunctionOnSet([k \in DOMAIN view |-> view[k][column]], at(id))
        with(id, state) == Cardinality({x \in said : x[2].id = id /\ x[3] = state})
    IN  \A id \in {x[2].id : x \in said} :
          /\ sum(id, "unanswered") = with(id, "unanswered")
          /\ sum(id, "noneOnly") = with(id, "none")
          /\ sum(id, "plannedOnly") = with(id, "planned")
          /\ sum(id, "notApplicable") = with(id, "not-applicable")

EvolutionRight(M) ==
    LET view == EvolutionPlanned(DeclarationsSeen(M))
        plan(f, k) == \E q \in Asked(f) : \E d \in Declared(f, q) :
                         /\ d.status \in PlannedStatuses
                         /\ k = [sub |-> q.sub, question |-> q.id, status |-> d.status,
                                 key |-> KeyOf(d), successor |-> SuccessorKey(d)]
        steps == Migrations(M)
    IN  /\ \A k \in DOMAIN view : view[k] = Cardinality({f \in M : plan(f, k)})
        /\ \A f \in M : (\E q \in Asked(f) : Plans(f, q)) => \E k \in DOMAIN view : plan(f, k)
        /\ \A k \in DOMAIN steps :
              steps[k] = Cardinality({f \in M : TextOf(f).ref = k.to /\ TextOf(f).migratedFrom = k.from})

ConvergenceRight(M) ==
    LET view  == Convergence(CellsSeen(M), DeclarationsSeen(M))
        using(id) == {x \in AskedOf(M) : x[2].id = id /\ InUse(x[1], x[2])}
        inUse(id) == {d \in UNION {Declared(x[1], x[2]) : x \in using(id)} : d.status = "current"}
    IN  \A id \in DOMAIN view :
          view[id].agreed <=>
              /\ \E x, y \in using(id) : x[1] # y[1]
              /\ \A d, e \in inUse(id) : KeyOf(d) = KeyOf(e)

----------------------------------------------------------------------------
(* PROPERTIES *)

(* Coverage, adoption, gaps, evolution and convergence count what the      *)
(* answers of the FIPs say, in whichever of the two ways they were         *)
(* computed: views.py has the promise that "the two can never disagree".   *)
(* Not where an overlapping request left a projection wrong, and not where *)
(* the population is degraded and holds FIPs of the network, which the     *)
(* fallback does not see.                                                  *)
ViewsCountTheAnswers ==
    \A M \in Resolved :
        LET said == SaidIn(M) IN
        \/ M = {} \/ Tier(M) = "refused" \/ M \cap late # {}
        \/ Tier(M) = "degraded" /\ M \cap NetworkIds # {}
        \/ /\ \A level \in Levels : CoverageRight(M, level, said)
           /\ \A level \in {"fer", "question"} \cup (IF Tier(M) = "live" THEN {"area"} ELSE {}) :
                 AdoptionRight(M, level, {"current", "none"} \cup PlannedStatuses)
           /\ GapsRight(M, said)
           /\ EvolutionRight(M)
           /\ ConvergenceRight(M)

(* Two sets of tokens may have one signature.                              *)
Confused(f) ==
    LET projected == Projected(fips[f], content) IN
    /\ rows[f].signature = SignatureOf(projected)
    /\ Tokens(rows[f].cells, rows[f].declarations) # Tokens(projected.cells, projected.declarations)

(* check-declarations (cli.py): where it finds nothing to say of the local *)
(* FIPs of a population, coverage is right, and so is the adoption of what *)
(* is in use unless MinHash confused two sets of tokens: whatever went on  *)
(* before, overlapping requests included.  And it says nothing of a FIP    *)
(* whose projection is what it should be.                                  *)
CleanMeansRight ==
    /\ \A M \in {N \cap FipIds : N \in Resolved} :
          \/ M = {} \/ M \cap Problems # {}
          \/ /\ CoverageRight(M, "question", SaidIn(M))
             /\ (\E f \in M : Confused(f)) \/ AdoptionRight(M, "fer", {"current"})
    /\ \A f \in DOMAIN fips \cap DOMAIN rows : rows[f] = RowOf(fips[f]) => f \notin Problems

(* fer_key_df counts, for every key, the projections in which it is in     *)
(* use, whatever sequence of writes, deletions past the hook, backfills    *)
(* and ingestions led there.                                               *)
DfCountsRows ==
    \A p \in DOMAIN df \cup UNION {CurrentPairs(rows[f].declarations) : f \in DOMAIN rows} :
        p \in DOMAIN df /\ df[p] = Cardinality({f \in DOMAIN rows : p \in CurrentPairs(rows[f].declarations)})

(* The cap on a posting list is one of rows, and fer_key_df counts FIPs:   *)
(* where FIPs repeat a key at one question, the list of a key that few     *)
(* FIPs declare is cut too.                                                *)
CutByRepeats(M, f) ==
    \E d \in SubjectKeys(rows, f) :
        /\ Cardinality(PostingList(rows, M, f, d)) > PostingCap
        /\ Cardinality({g \in DOMAIN rows :
                <<d.question, d.key>> \in CurrentPairs(rows[g].declarations)}) <= PostingCap

Sharing(M, f) ==
    {g \in M \ {f} : CurrentPairs(FetchFipData(rows, f).declarations)
                        \cap CurrentPairs(FetchFipData(rows, g).declarations) # {}}

(* The neighbours of a FIP all share a resource with it, and nobody who    *)
(* does is missing, unless the response says that it cut its search short  *)
(* or there are more of them than it scores or lists, or repeated          *)
(* declarations filled the list of a key.  What the response says hangs on *)
(* fer_key_df, which counts FIPs outside the population, and those that no *)
(* longer exist.                                                           *)
NeighboursComplete ==
    \A M \in Resolved :
        \A f \in M :
            LET view  == Neighbours(rows, df, M, f, "question", "current", 0)
                named == {n.fip : n \in view.neighbours}
            IN  /\ named \subseteq Sharing(M, f)
                /\ \/ view.candidateBudgetExhausted \/ view.postingTruncated
                   \/ view.skippedPopularKeys # {} \/ CutByRepeats(M, f)
                   \/ Cardinality(Sharing(M, f)) > Min({CandidateCap, NeighbourLimit})
                   \/ named = Sharing(M, f)

SameSubs(a, b) ==
    \A c \in a.cells, e \in b.cells : c.question = e.question => c.sub = e.sub

(* Of what two FIPs say: the similarity is within its range, the same in   *)
(* both directions if the models agree on what the questions are about,    *)
(* nothing if no question has a common answer, and full if every common    *)
(* question is answered alike.                                             *)
MeasureOK(a, b, statuses) ==
    LET sa == QuestionSets(a, statuses)
        sb == QuestionSets(b, statuses)
        common == DOMAIN sa \cap DOMAIN sb
        score  == ScorePair(a, b, statuses).overall
    IN  /\ \A w \in DOMAIN score : score[w] \in 0..Unit
        /\ SameSubs(a, b) => score = ScorePair(b, a, statuses).overall
        /\ (\A q \in common : sa[q] \cap sb[q] = {}) => \A w \in DOMAIN score : score[w] = 0
        /\ (\A q \in common : sa[q] = sb[q]) /\ (\E q \in common : sa[q] # {} /\ SubOf(a, q) # None)
              => \A w \in DOMAIN score : score[w] = Unit

(* The similarity of the FIPs projected, as score_pair computes it for     *)
(* every view and export, is a measure.                                    *)
ScoreIsAMeasure ==
    \A f, g \in DOMAIN rows, statuses \in {"current", "currentPlanned"} :
        f <= g => MeasureOK(Data(rows[f]), Data(rows[g]), statuses)

AlikeIn(M) ==
    LET data == [f \in M |-> FetchFipData(rows, f)] IN
    {x \in PairsOf(M) : ScorePair(data[x[1]], data[x[2]], "current").overall["principle"] >= MinSim}

(* The components: no pair leaves one, and none falls into two.            *)
Closed(alike, m) == \A x \in alike : x[1] \in m <=> x[2] \in m

Components(M, alike) ==
    LET closed == {m \in SUBSET M : m # {} /\ Closed(alike, m)} IN
    {m \in closed : \A n \in closed : n \subseteq m => n = m}

(* The clusters of a population are disjoint.  Of a small one they are     *)
(* exactly the connected components of similarity; of a large one each     *)
(* lies inside one, and two FIPs that are alike and have the same tokens   *)
(* are together, unless the search was cut off or a bucket of theirs was   *)
(* found too large.  The map view shows the same clusters, and gives two   *)
(* nodes the same colour if they are in one.                               *)
ClustersAreComponents ==
    \A M \in Resolved :
        LET view  == Clusters(rows, hot, M)
            plain == {c.members : c \in {c \in view.clusters : ~c.hot}}
            alike == AlikeIn(M)
            components == Components(M, alike)
            map == Map(rows, hot, M, 2, "principle")
            together(x, y) == \E m \in plain : {x, y} \subseteq m
            hotTogether(x) == \E h \in hot : BandOf(rows[x], h.band) = h.hash
        IN  /\ \A m, n \in plain : m = n \/ m \cap n = {}
            /\ \A m \in plain : \E n \in components : m \subseteq n
            /\ Exact(M) => plain = {m \in components : Cardinality(m) >= 2}
            /\ {c.members : c \in {c \in map.topClusters : ~c.hot}} = plain
            /\ {m \in map.colours : Cardinality(m) >= 2} = plain
            /\ ~Exact(M) /\ ~view.truncated =>
                  \A x \in alike :
                      /\ {x[1], x[2]} \subseteq DOMAIN rows
                      /\ rows[x[1]].signature = rows[x[2]].signature
                      => together(x[1], x[2]) \/ hotTogether(x[1])

=============================================================================
