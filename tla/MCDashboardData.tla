--------------------------- MODULE MCDashboardData ---------------------------
(* Three local FIPs and one of the network; two versions of a model, the   *)
(* first of which may be edited; five documents.                           *)
EXTENDS DashboardData

CONSTANTS q1, q2, q3, X, Y, t, u, V1, V2

MCPrincipleOf == "F1" :> "F1" @@ "A1.1" :> "A1"

MCLetterOf == "F1" :> "F" @@ "A1.1" :> "A"

MCNormal == t :> t @@ u :> t

(* Tokens come in a fixed order; each permutation shifts it. *)
Order(token) ==
    LET key == token[2] IN
    (CASE token[1] = q1 -> 0 [] token[1] = q2 -> 4 [] token[1] = q3 -> 8)
        + (CASE key = NA -> 0 [] key = <<"fer", X>> -> 1 [] key = <<"fer", Y>> -> 2
             [] key = <<"text", t>> -> 3)

MCHash(i, token) == (Order(token) + 5 * i) % 13

Question(id, hidden, sub, type) ==
    [id |-> id, hidden |-> hidden, sub |-> sub, scope |-> "data", ferType |-> type]

MCContents ==
    V1 :> {<<Question(q1, FALSE, "F1", "id"), Question(q2, FALSE, "A1.1", "protocol"),
             Question(q3, FALSE, None, "id")>>,
           <<Question(q2, FALSE, "F1", "protocol"), Question(q3, TRUE, None, "id"),
             Question(q1, FALSE, "F1", "id")>>}
    @@ V2 :> {<<Question(q1, FALSE, "F1", "id"), Question(q2, FALSE, "A1.1", "id")>>}

Use(ferId, text, status) ==
    [ferId |-> ferId, text |-> text, status |-> status, successorId |-> None, successorText |-> None]

Answer(q, decls) == [question |-> q, notApplicable |-> FALSE, declarations |-> decls]

NotApplicable(q) == [question |-> q, notApplicable |-> TRUE, declarations |-> <<>>]

Doc(answers, ref, from) == [answers |-> answers, ref |-> ref, migratedFrom |-> from]

Plan == [Use(X, None, "planned-replacement") EXCEPT !.successorText = u]

MCUsesX == Doc(<<Answer(q1, <<Use(X, None, "current"), Use(X, None, "current"), Use(Y, None, "planned")>>),
                 NotApplicable(q2), Answer(q3, <<Use(X, None, "current")>>)>>, V1, None)
MCUsesY == Doc(<<Answer(q1, <<Use(X, None, "planned"), Use(Y, None, "current")>>),
                 NotApplicable(q2)>>, V1, None)
MCTexts == Doc(<<Answer(q1, <<Use(None, u, "current"), Plan>>),
                 Answer(q2, <<Use(None, t, "none")>>)>>, V1, None)
MCMoved == Doc(<<Answer(q1, <<Use(X, None, "current")>>),
                 Answer(q2, <<Use(X, None, "current"), Use(None, t, "current"), Plan, Plan>>)>>, V2, V1)
MCSooner == Doc(<<Answer(q1, <<Use(X, None, "planned-development"), Use(Y, None, "current")>>),
                  NotApplicable(q2)>>, V1, None)

MCDocuments == {MCUsesX, MCUsesY, MCTexts, MCMoved, MCSooner}

MCInitial == {1 :> MCUsesX @@ 2 :> MCMoved @@ 4 :> MCUsesX, 1 :> MCTexts @@ 2 :> MCUsesX}

Read(status, resource, considerations) ==
    [status |-> status, resource |-> resource, considerations |-> considerations]

MCPayloads ==
    {<<[question |-> q1, declarations |-> <<Read("current", X, None), Read("none", None, None)>>],
       [question |-> q2, declarations |-> <<Read(None, Y, None), Read("current", None, None)>>]>>,
     <<[question |-> q1, declarations |-> <<Read("planned", Y, None)>>],
       [question |-> q2, declarations |-> <<Read("none", None, t)>>]>>}

MCPopulations == {{1, 2, 3, 4}, {1, 2, 4}}
==============================================================================
