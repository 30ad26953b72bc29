--------------------------- MODULE DashboardViews ---------------------------
(***************************************************************************)
(* The aggregates of the dashboard (dashboard/views.py): coverage,         *)
(* adoption, gaps and evolution.  Each is computed in one of two ways: by  *)
(* one SQL statement over the projection, or, for a small population some  *)
(* of whose projections are behind, in Python from the answers (degraded). *)
(*                                                                         *)
(* The rows of a view are functions from what the row is of to what it     *)
(* counts.  `cells` and `decls` give the cells and the declarations of     *)
(* each FIP that is looked at; `Tally` is the GROUP BY.  Labels, shares,   *)
(* the order of the rows and the page of them are left out.                *)
(***************************************************************************)
EXTENDS FipProjection, Functions

Levels == {"question", "subPrinciple", "principle", "group"}

(* _stale_error, _check_staleness: a large population that is behind is    *)
(* refused.                                                                *)
TierOf(count, behind, fallbackMax) ==
    IF behind = {} THEN "live" ELSE IF count <= fallbackMax THEN "degraded" ELSE "refused"

(* GROUP BY Key(x), COUNT( * ), over the things x of each FIP *)
Tally(things, Key(_)) ==
    LET all == UNION {{<<f, x>> : x \in things[f]} : f \in DOMAIN things} IN
    [k \in {Key(fx[2]) : fx \in all} |-> Cardinality({fx \in all : Key(fx[2]) = k})]

(* COUNT(DISTINCT fip_id) in the group k *)
FipsWith(things, Key(_), k) ==
    Cardinality({f \in DOMAIN things : \E x \in things[f] : Key(x) = k})

----------------------------------------------------------------------------
(* Coverage *)

CoverageColumns(c) ==
    [sub |-> c.sub, principle |-> c.principle, group |-> c.group, question |-> c.question,
     index |-> c.index, scope |-> c.scope, ferType |-> c.ferType, state |-> c.state]

(* _coverage_row_key: a question without a principle stands for itself *)
CoverageKey(row, level) ==
    LET key(x) == IF x # None THEN <<"p", x>> ELSE <<"q", row.question>> IN
    CASE level = "question"     -> key(None)
      [] level = "principle"    -> key(row.principle)
      [] level = "group"        -> key(row.group)
      [] level = "subPrinciple" -> key(row.sub)

CellStateNames == {"current", "planned", "none", "not-applicable", "unanswered", "absent"}

(* _rollup_counts, over the groups of _coverage_aggregate_rows *)
RollupCounts(tally, level) ==
    LET bucket(key)   == {k \in DOMAIN tally : CoverageKey(k, level) = key}
        counted(key, state) == {k \in bucket(key) : k.state = state}
    IN  [key \in {CoverageKey(k, level) : k \in DOMAIN tally} |->
            [questions |-> {k.question : k \in bucket(key)},
             ferTypes |-> {k.ferType : k \in bucket(key)} \ {None},
             counts |-> [s \in CellStateNames |-> SumFunctionOnSet(tally, counted(key, s))],
             first |-> Min({k.index : k \in bucket(key)})]]

InScope(cells, scope) ==
    [f \in DOMAIN cells |-> {c \in cells[f] : scope \in {"metadata", "data"} => c.scope = scope}]

(* coverage_view: the totals count every member of the population *)
Coverage(cells, level, scope, count) ==
    LET rows == RollupCounts(Tally(InScope(cells, scope), CoverageColumns), level) IN
    [rows |-> rows, fips |-> count,
     cells |-> SumFunction([key \in DOMAIN rows |-> SumFunction(rows[key].counts)])]

----------------------------------------------------------------------------
(* Adoption of resources *)

Wanted(d, status, catalogued) ==
    /\ status # "any" => d.status = status
    /\ catalogued = "only" => d.ferId # None
    /\ catalogued = "exclude" => d.ferId = None

AdoptionKey(d, area, level, byType) ==
    [group |-> CASE level = "ferType" -> d.ferType
                 [] level = "question" -> d.question
                 [] level = "area" -> area
                 [] level = "fer" -> d.key,
     key |-> d.key, ferId |-> d.ferId, status |-> d.status,
     ferType |-> IF byType THEN d.ferType ELSE None]

AdoptionRows(decls, areas, level, status, catalogued, byType) ==
    LET keyed == [f \in DOMAIN decls |->
                    {<<AdoptionKey(d, areas[f], level, byType), d>> :
                        d \in {d \in decls[f] : Wanted(d, status, catalogued)}}]
        key(x) == x[1]
        tally  == Tally(keyed, key)
    IN  [k \in DOMAIN tally |-> [fips |-> FipsWith(keyed, key, k), declarations |-> tally[k]]]

(* _adoption_aggregate_rows: the type expected by the question is a column *)
(* of the group only where it is asked for.                                *)
AdoptionLive(decls, areas, level, status, catalogued) ==
    AdoptionRows(decls, areas, level, status, catalogued, level \in {"ferType", "question"})

(* _adoption_degraded_rows: here it always is *)
AdoptionDegraded(decls, areas, level, status, catalogued) ==
    AdoptionRows(decls, areas, level, status, catalogued, TRUE)

----------------------------------------------------------------------------
(* Gaps *)

GapCounts(cells) ==
    LET in(state) == Cardinality({fc \in cells : fc[2].state = state}) IN
    [fips |-> Cardinality(cells), unanswered |-> in("unanswered"), noneOnly |-> in("none"),
     notApplicable |-> in("not-applicable"), plannedOnly |-> in("planned")]

GapRows(cells, Key(_)) ==
    LET all == UNION {{<<f, c>> : c \in cells[f]} : f \in DOMAIN cells} IN
    [k \in {Key(fc[2]) : fc \in all} |-> GapCounts({fc \in all : Key(fc[2]) = k})]

(* _gaps_aggregate_rows *)
GapColumns(c) ==
    [question |-> c.question, index |-> c.index, sub |-> c.sub, group |-> c.group,
     ferType |-> c.ferType]

GapsLive(cells) == GapRows(cells, GapColumns)

(* _gaps_degraded_rows: by the question alone *)
GapsDegraded(cells) ==
    LET question(c) == c.question IN GapRows(cells, question)

(* gaps_view: where the share of the FIPs that have nothing is large enough *)
OverThreshold(rows, percent) ==
    LET gap(k) == (rows[k].unanswered + rows[k].noneOnly) * 100 IN
    [k \in {k \in DOMAIN rows : gap(k) >= percent * rows[k].fips} |-> rows[k]]

----------------------------------------------------------------------------
(* Evolution *)

PlannedColumns(d) ==
    [sub |-> d.sub, question |-> d.question, status |-> d.status, key |-> d.key,
     successor |-> d.successor]

(* Mutant: a FIP that plans the same thing twice counts twice. *)
EvolutionPlannedRepeated(decls) ==
    Tally([f \in DOMAIN decls |-> {d \in decls[f] : d.status \in PlannedStatuses}], PlannedColumns)

(* _evolution_planned_rows *)
EvolutionPlanned(decls) ==
    LET planned == [f \in DOMAIN decls |-> {d \in decls[f] : d.status \in PlannedStatuses}]
    IN  [k \in DOMAIN Tally(planned, PlannedColumns) |-> FipsWith(planned, PlannedColumns, k)]

(* _evolution_migration_rows: (to, from) of the FIPs that were migrated *)
EvolutionMigrations(refs, migratedFrom) ==
    LET migrated == {f \in DOMAIN refs : migratedFrom[f] # None}
        step(f)  == [to |-> refs[f], from |-> migratedFrom[f]]
    IN  [k \in {step(f) : f \in migrated} |-> Cardinality({f \in migrated : step(f) = k})]

----------------------------------------------------------------------------
(* Convergence, the part of the map view that is an aggregate *)

CurrentAt(decls, q) ==
    UNION {{<<f, d.key, d.decl>> : d \in {d \in decls[f] : d.question = q /\ d.status = "current"}} :
              f \in DOMAIN decls}

NotApplicableAt(cells, q) ==
    {f \in DOMAIN cells : \E c \in cells[f] : c.question = q /\ c.notApplicable}

Agreed(declaring, keys) == Cardinality(declaring) >= 2 /\ Cardinality(keys) = 1

Convergence(cells, decls) ==
    LET asked == {c.question : c \in UNION {cells[f] : f \in DOMAIN cells}}
        declaring(q) == {x[1] : x \in CurrentAt(decls, q)}
        keys(q)      == {x[2] : x \in CurrentAt(decls, q)}
        uses(q, key) == Cardinality({x \in CurrentAt(decls, q) : x[2] = key})
    IN  [q \in {q \in asked : CurrentAt(decls, q) # {} \/ NotApplicableAt(cells, q) # {}} |->
            [declaring |-> Cardinality(declaring(q)), distinct |-> Cardinality(keys(q)),
             topCount |-> Max({0} \cup {uses(q, key) : key \in keys(q)}),
             agreed |-> Agreed(declaring(q), keys(q)),
             notApplicable |-> Cardinality(NotApplicableAt(cells, q))]]

=============================================================================
