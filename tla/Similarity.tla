----------------------------- MODULE Similarity -----------------------------
(***************************************************************************)
(* The similarity of two FIPs and the clustering of many (similarity.py).  *)
(* A FIP is given by its cells and its declarations.  A share is counted   *)
(* in parts of Unit, which the quotients of small instances divide; every  *)
(* division below is meant to be exact.                                    *)
(***************************************************************************)
EXTENDS FipProjection, Functions

CONSTANT Unit

ASSUME SimilarityAssumption == Unit \in Nat \ {0}

(* the status parameter of the measure *)
StatusesOf(statuses) ==
    {"current"} \cup (IF statuses = "currentPlanned" THEN PlannedStatuses ELSE {})

(* _question_sets: what a FIP says of each of its own questions *)
QuestionSets(x, statuses) ==
    LET asked  == {c.question : c \in x.cells}
        na(q)  == \E c \in x.cells : c.question = q /\ c.notApplicable
        keys(q) == {d.key : d \in {d \in x.declarations :
                                      d.question = q /\ d.status \in StatusesOf(statuses)}}
    IN  [q \in asked |-> keys(q) \cup (IF na(q) THEN {NA} ELSE {})]

MeanOver(f, S) ==
    IF S = {} THEN 0 ELSE SumFunctionOnSet(f, S) \div Cardinality(S)

Jaccard(a, b) == (Unit * Cardinality(a \cap b)) \div Cardinality(a \cup b)

(* the sub-principle of a question is that of the first FIP *)
SubOf(x, q) == (CHOOSE c \in x.cells : c.question = q).sub

(* Mutant: a question neither answered counts as a difference. *)
IncludedAll(sa, sb) == DOMAIN sa \cap DOMAIN sb

(* A question of both questionnaires, unless neither FIP says anything. *)
Included(sa, sb) == {q \in DOMAIN sa \cap DOMAIN sb : sa[q] \cup sb[q] # {}}

(* score_pair: the mean of the questions of a sub-principle, the mean of   *)
(* the sub-principles, and the mean of the letters                         *)
ScorePair(a, b, statuses) ==
    LET sa == QuestionSets(a, statuses)
        sb == QuestionSets(b, statuses)
        included   == Included(sa, sb)
        jaccard    == [q \in included |-> IF sa[q] \cup sb[q] = {} THEN 0 ELSE Jaccard(sa[q], sb[q])]
        sub        == [q \in included |-> SubOf(a, q)]
        principles == {sub[q] : q \in included} \ {None}
        perPrinciple == [p \in principles |->
                            MeanOver(jaccard, {q \in included : sub[q] = p})]
        letters    == {LetterOf[p] : p \in principles}
        perLetter  == [l \in letters |->
                            MeanOver(perPrinciple, {p \in principles : LetterOf[p] = l})]
    IN  [overall |-> [question |-> MeanOver(jaccard, included),
                      principle |-> MeanOver(perPrinciple, principles),
                      letter |-> MeanOver(perLetter, letters)],
         perPrinciple |-> perPrinciple,
         sharedKeys |-> SumFunction([q \in included |-> Cardinality(sa[q] \cap sb[q])])]

----------------------------------------------------------------------------
(* UnionFind, by rank; the paths it compresses keep their root *)

Singletons(nodes) ==
    [parent |-> [n \in nodes |-> n], rank |-> [n \in nodes |-> 0]]

Root(uf, x) ==
    LET root[n \in DOMAIN uf.parent] == IF uf.parent[n] = n THEN n ELSE root[uf.parent[n]]
    IN  root[x]

(* Mutant: the node, not its root, is hung below the other tree. *)
UnionNodes(uf, x, y) ==
    IF Root(uf, x) = Root(uf, y) THEN uf
    ELSE [uf EXCEPT !.parent[y] = Root(uf, x)]

Union(uf, x, y) ==
    LET rx == Root(uf, x)
        ry == Root(uf, y)
        high == IF uf.rank[rx] < uf.rank[ry] THEN ry ELSE rx
        low  == IF uf.rank[rx] < uf.rank[ry] THEN rx ELSE ry
    IN  IF rx = ry THEN uf
        ELSE [parent |-> [uf.parent EXCEPT ![low] = high],
              rank |-> [uf.rank EXCEPT ![high] = IF uf.rank[rx] = uf.rank[ry] THEN @ + 1 ELSE @]]

(* cluster_edges: an edge brings its nodes with it *)
ClusterEdges(nodes, edges) ==
    LET all == nodes \cup {e[1] : e \in edges} \cup {e[2] : e \in edges}
        uf  == FoldSet(LAMBDA e, u : Union(u, e[1], e[2]), Singletons(all), edges)
    IN  {{n \in all : Root(uf, n) = r} : r \in {Root(uf, n) : n \in all}}

=============================================================================
