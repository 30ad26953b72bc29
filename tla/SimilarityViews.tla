--------------------------- MODULE SimilarityViews ---------------------------
(***************************************************************************)
(* The views that name FIPs (dashboard/similarity_views.py): the           *)
(* neighbours of one, and the clusters of a population.  They read the     *)
(* projection as it is.  Which FIPs are compared is a question of cost:    *)
(* the neighbours are looked for behind the rare keys of the FIP, and the  *)
(* pairs of a large population come from equal bands of the signatures,    *)
(* except in the buckets that the refresh job found too large ("hot").     *)
(* What two FIPs then score is always computed from their rows.            *)
(*                                                                         *)
(* FIPs are numbered, in the order of their ids.  Every member of a        *)
(* population is readable by the viewer (MembersAreReadable), so that the  *)
(* filters on unreadable members are left out.                             *)
(***************************************************************************)
EXTENDS Similarity

CONSTANTS
    SkipPercent, MinKeys,        \* dashboard_df_skip_share, _df_min_keys
    PostingBudget, PostingCap,   \* rows of declarations looked at: in all, by key
    CandidateCap, NeighbourLimit,
    ExactPairsMax,               \* dashboard_exact_pairs_max_fips
    PairCap, BucketMax,          \* dashboard_lsh_pair_cap, _lsh_bucket_max
    MinSim                       \* dashboard_cluster_min_sim, in parts of Unit

ASSUME SimilarityViewsAssumption ==
    /\ {SkipPercent, MinKeys, PostingBudget, PostingCap, CandidateCap, NeighbourLimit,
        ExactPairsMax, PairCap, BucketMax, MinSim} \subseteq Nat
    /\ PostingCap > 0

(* ORDER BY ... LIMIT n, the order being Before; ties fall anyhow *)
FirstOf(S, n, Before(_, _)) ==
    IF Cardinality(S) <= n THEN S
    ELSE CHOOSE T \in kSubset(n, S) : \A t \in T, u \in S \ T : ~Before(u, t)

PairsOf(S) == UNION {{<<x, y>> : y \in {y \in S : x < y}} : x \in S}
EndsOf(pairs) == UNION {{x[1], x[2]} : x \in pairs}

Data(row) == [cells |-> row.cells, declarations |-> row.declarations]

(* what the projection says of a FIP; of one without a row, nothing *)
FetchFipData(rows, f) ==
    IF f \in DOMAIN rows THEN Data(rows[f]) ELSE [cells |-> {}, declarations |-> {}]

----------------------------------------------------------------------------
(* Neighbours *)

DfOf(df, d) == IF <<d.question, d.key>> \in DOMAIN df THEN df[<<d.question, d.key>>] ELSE 0

(* The keys in use of the FIP: one for each of its declarations. *)
SubjectKeys(rows, f) == {d \in FetchFipData(rows, f).declarations : d.status = "current"}

(* _selected_keys_for_neighbours: the popular ones are skipped, unless too *)
(* few would be left                                                       *)
SelectedKeys(keys, df, count) ==
    LET kept == {d \in keys : DfOf(df, d) * 100 <= SkipPercent * count}
        rarer(d, e) == DfOf(df, d) < DfOf(df, e)
    IN  IF count = 0 THEN {}
        ELSE IF Cardinality(kept) < MinKeys THEN FirstOf(keys, MinKeys, rarer) ELSE kept

(* Each key is charged a full posting list. *)
KeysUsed(selected, df) ==
    LET rarer(d, e) == DfOf(df, d) < DfOf(df, e)
    IN  FirstOf(selected, (PostingBudget + PostingCap - 1) \div PostingCap, rarer)

(* the declarations of the same key, by other members, up to the cap *)
PostingList(rows, population, f, d) ==
    UNION {{<<g, e.decl>> : e \in {e \in SubjectKeys(rows, g) :
               e.question = d.question /\ e.key = d.key}} : g \in population \ {f}}

Postings(rows, population, f, d) ==
    LET before(x, y) == x[1] < y[1]
    IN  FirstOf(PostingList(rows, population, f, d), PostingCap, before)

(* Mutant: a list cut off at the cap goes unmentioned. *)
PostingTruncatedBeyond(used, df) == \E d \in used : DfOf(df, d) > PostingCap + 1

PostingTruncated(used, df) == \E d \in used : DfOf(df, d) > PostingCap

(* neighbours_view, for a FIP of the population *)
Neighbours(rows, df, population, f, weighting, statuses, minSimilarity) ==
    LET keys     == SubjectKeys(rows, f)
        selected == SelectedKeys(keys, df, Cardinality(population))
        used     == KeysUsed(selected, df)
        hits(g)  == SumFunction([d \in used |->
                        Cardinality({x \in Postings(rows, population, f, d) : x[1] = g})])
        found    == UNION {{x[1] : x \in Postings(rows, population, f, d)} : d \in used}
        more(g, h) == hits(g) > hits(h) \/ (hits(g) = hits(h) /\ g < h)
        ranked   == FirstOf(found, CandidateCap, more)
        score(g) == ScorePair(FetchFipData(rows, f), FetchFipData(rows, g), statuses)
        similar  == {[fip |-> g, similarity |-> score(g).overall[weighting],
                      sharedKeys |-> score(g).sharedKeys] :
                        g \in {g \in ranked : score(g).overall[weighting] >= minSimilarity}}
        closer(r, s) == r.similarity > s.similarity \/ (r.similarity = s.similarity /\ r.fip < s.fip)
    IN  [neighbours |-> FirstOf(similar, NeighbourLimit, closer),
         candidateBudgetExhausted |-> Cardinality(used) < Cardinality(selected),
         postingTruncated |-> PostingTruncated(used, df),
         skippedPopularKeys |-> {d.key : d \in {d \in keys : \A e \in selected :
                                    <<d.question, d.key>> # <<e.question, e.key>>}},
         candidatesScored |-> Cardinality(ranked)]

----------------------------------------------------------------------------
(* Buckets *)

BandOf(row, b) == Band(row.signature, b)

(* refresh_hot_buckets, over every row of fip_signature_bands *)
RefreshHotBuckets(rows) ==
    LET inBucket(b, h) == {f \in DOMAIN rows : BandOf(rows[f], b) = h}
        buckets == {<<b, BandOf(rows[f], b)>> : b \in BandIndexes, f \in DOMAIN rows}
    IN  {[band |-> x[1], hash |-> x[2], representative |-> Min(inBucket(x[1], x[2]))] :
            x \in {x \in buckets : Cardinality(inBucket(x[1], x[2])) > BucketMax}}

InBucket(rows, population, h) ==
    {f \in population \cap DOMAIN rows : BandOf(rows[f], h.band) = h.hash}

(* _scoped_hot_groups: one bucket for each representative in the population *)
ScopedHotGroups(rows, population, hot) ==
    LET here == {h \in hot : h.representative \in population}
        bucketOf(r) == CHOOSE h \in here : h.representative = r
        size(r) == Cardinality(InBucket(rows, population, bucketOf(r)))
    IN  {[representative |-> r, size |-> size(r)] :
            r \in {r \in {h.representative : h \in here} : size(r) >= 2}}

ShareABand(rows, hot, x, y) ==
    \E b \in BandIndexes :
        /\ BandOf(rows[x], b) = BandOf(rows[y], b)
        /\ \A h \in hot : <<h.band, h.hash>> # <<b, BandOf(rows[x], b)>>

(* _lsh_candidate_pairs *)
LshCandidatePairs(rows, population, hot) ==
    LET members == population \cap DOMAIN rows
        pairs == {x \in PairsOf(members) : ShareABand(rows, hot, x[1], x[2])}
        anyhow(x, y) == FALSE
    IN  FirstOf(pairs, PairCap, anyhow)

----------------------------------------------------------------------------
(* Clusters *)

Exact(population) == Cardinality(population) <= ExactPairsMax

PairsToScore(rows, population, hot) ==
    IF Exact(population)
    THEN PairsOf(population)
    ELSE LshCandidatePairs(rows, population, hot)

(* _score_edges *)
ScoreEdges(rows, pairs, weighting, minSim) ==
    LET score(x) == ScorePair(FetchFipData(rows, x[1]), FetchFipData(rows, x[2]), "current")
    IN  {e \in {[ends |-> x, score |-> score(x).overall[weighting],
                  perPrinciple |-> score(x).perPrinciple] : x \in pairs} : e.score >= minSim}

(* the mean of the scores of the edges of a FIP inside a cluster *)
MeanWithin(edges, members, f) ==
    LET own == {e \in edges : f \in {e.ends[1], e.ends[2]} /\ {e.ends[1], e.ends[2]} \subseteq members}
    IN  IF own = {} THEN 0 ELSE SumFunction([e \in own |-> e.score]) \div Cardinality(own)

(* the representative is the FIP nearest to the others *)
ClusterOf(edges, m) ==
    LET mean == [f \in m |-> MeanWithin(edges, m, f)]
        nearest == CHOOSE f \in m : \A g \in m \ {f} :
                       mean[g] < mean[f] \/ (mean[g] = mean[f] /\ g < f)
        within  == {e \in edges : {e.ends[1], e.ends[2]} \subseteq m}
        with(p) == {e \in within : p \in DOMAIN e.perPrinciple}
        sum(p)  == SumFunction([e \in with(p) |-> e.perPrinciple[p]])
        shared  == {p \in UNION {DOMAIN e.perPrinciple : e \in within} :
                        2 * sum(p) >= Unit * Cardinality(with(p))}
    IN  [hot |-> FALSE, size |-> Cardinality(m), representative |-> nearest, members |-> m,
         principles |-> shared,
         meanSimilarity |-> SumFunction([e \in within |-> e.score]) \div Cardinality(within)]

HotClusterOf(g) ==
    [hot |-> TRUE, size |-> g.size, representative |-> g.representative,
     members |-> {g.representative}, principles |-> {}, meanSimilarity |-> Unit]

(* _build_clusters *)
BuildClusters(nodes, edges, hotGroups) ==
    {ClusterOf(edges, m) : m \in {m \in ClusterEdges(nodes, {e.ends : e \in edges}) : Cardinality(m) >= 2}}
        \cup {HotClusterOf(g) : g \in hotGroups}

(* clusters_view *)
Clusters(rows, hot, population) ==
    LET pairs  == PairsToScore(rows, population, hot)
        groups == IF Exact(population) THEN {} ELSE ScopedHotGroups(rows, population, hot)
        nodes  == IF Exact(population) THEN population
                  ELSE EndsOf(pairs) \cup {g.representative : g \in groups}
    IN  [clusters |-> BuildClusters(nodes, ScoreEdges(rows, pairs, "principle", MinSim), groups),
         truncated |-> ~Exact(population) /\ Cardinality(pairs) >= PairCap]

(* map_view: the distribution of all the scores, the clusters of those     *)
(* above the threshold, and the cluster of each node.  Here the hot        *)
(* buckets are shown of a small population too.                            *)
BarOf(share, bars) == Min({(share * bars) \div Unit, bars - 1})

Map(rows, hot, population, bars, weighting) ==
    LET pairs  == PairsToScore(rows, population, hot)
        groups == ScopedHotGroups(rows, population, hot)
        nodes  == IF Exact(population) THEN population
                  ELSE EndsOf(pairs) \cup {g.representative : g \in groups}
        scores == ScoreEdges(rows, pairs, weighting, 0)
        near   == {e \in scores : e.score >= MinSim}
        of(p)  == {e \in scores : p \in DOMAIN e.perPrinciple}
    IN  [histogram |-> [i \in 0..(bars - 1) |->
                           Cardinality({e \in scores : BarOf(e.score, bars) = i})],
         principleBuckets |-> [p \in UNION {DOMAIN e.perPrinciple : e \in scores} |->
                           [i \in 0..(bars - 1) |->
                               Cardinality({e \in of(p) : BarOf(e.perPrinciple[p], bars) = i})]],
         topClusters |-> BuildClusters(nodes, near, groups),
         hotBuckets |-> groups,
         colours |-> ClusterEdges(population, {e.ends : e \in near}),
         edges |-> {<<e.ends, e.score>> : e \in near}]

=============================================================================
