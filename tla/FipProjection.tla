---------------------------- MODULE FipProjection ----------------------------
(***************************************************************************)
(* What the dashboard keeps of one FIP (projection.py, and the tokens and  *)
(* signatures of similarity.py): from the content of its knowledge model   *)
(* and its answers, one cell for every visible question, one row for every *)
(* declaration, and the bands of a MinHash signature.  Everything here is  *)
(* a function of its arguments: the write hook, the fallback of the views, *)
(* the ingestion of the network and check-declarations all use it.         *)
(*                                                                         *)
(* The content of a model is the sequence of its questions, the sections   *)
(* strung together.  The hash of a band is the band: no two collide.       *)
(***************************************************************************)
EXTENDS Integers, Sequences, FiniteSetsExt, TLC

CONSTANTS
    None,
    PrincipleOf, LetterOf,  \* of each sub-principle: A1.1 is of A1 and of A
    KnownPrinciples,        \* rdf.KNOWN_PRINCIPLE_IDS
    Normal,                 \* the normal form of each free text
    K, BandRows,            \* length of a signature, and of one of its bands
    Hash(_, _)              \* the i-th permutation, at a token

ASSUME ProjectionAssumption ==
    /\ {K, BandRows} \subseteq Nat \ {0} /\ K % BandRows = 0
    /\ DOMAIN LetterOf = DOMAIN PrincipleOf
    /\ None \notin DOMAIN PrincipleOf \cup DOMAIN Normal \cup {"Other"}
    /\ \A sub \in DOMAIN PrincipleOf : None \notin {PrincipleOf[sub], LetterOf[sub]}

PlannedStatuses == {"planned", "planned-development", "planned-replacement"}

(* convergence_key: THE identity of a resource *)
ConvergenceKey(ferId, text, status) ==
    IF ferId # None THEN <<"fer", ferId>>
    ELSE IF text # None THEN <<"text", Normal[text]>>
    ELSE <<"none", status>>

SuccessorKey(decl) ==
    IF decl.successorId = None /\ decl.successorText = None THEN None
    ELSE ConvergenceKey(decl.successorId, decl.successorText, decl.status)

(* _iter_questions: hidden questions are skipped, and not counted *)
Visible(content) == {i \in DOMAIN content : ~content[i].hidden}

QuestionColumns(content, i) ==
    LET q == content[i] IN
    [question |-> q.id, index |-> Cardinality({j \in Visible(content) : j < i}), sub |-> q.sub,
     principle |-> IF q.sub = None THEN None ELSE PrincipleOf[q.sub],
     group |-> IF q.sub = None THEN "Other" ELSE LetterOf[q.sub],
     known |-> q.sub \in KnownPrinciples,
     scope |-> q.scope, ferType |-> q.ferType]

(* Of two answers to one question the later one counts. *)
AnswerTo(answers, question) ==
    LET at == {i \in 1..Len(answers) : answers[i].question = question} IN
    IF at = {} THEN [question |-> question, notApplicable |-> FALSE, declarations |-> <<>>]
    ELSE answers[Max(at)]

DeclarationsOf(answer) == answer.declarations

CountOf(decls, statuses) == Cardinality({i \in 1..Len(decls) : decls[i].status \in statuses})

CellState(decls, notApplicable) ==
    IF CountOf(decls, {"current"}) > 0 THEN "current"
    ELSE IF CountOf(decls, PlannedStatuses) > 0 THEN "planned"
    ELSE IF decls # <<>> THEN "none"
    ELSE IF notApplicable THEN "not-applicable"
    ELSE "unanswered"

Cell(columns, answer) ==
    LET decls == DeclarationsOf(answer) IN
    [question |-> columns.question, index |-> columns.index, sub |-> columns.sub,
     principle |-> columns.principle, group |-> columns.group, known |-> columns.known,
     scope |-> columns.scope, ferType |-> columns.ferType,
     state |-> CellState(decls, answer.notApplicable),
     declCount |-> Len(decls),
     currentCount |-> CountOf(decls, {"current"}),
     plannedCount |-> CountOf(decls, PlannedStatuses),
     noneCount |-> CountOf(decls, {"none"}),
     notApplicable |-> answer.notApplicable]

Declaration(columns, i, decl) ==
    [question |-> columns.question, index |-> columns.index, sub |-> columns.sub,
     principle |-> columns.principle, group |-> columns.group, known |-> columns.known,
     scope |-> columns.scope, ferType |-> columns.ferType,
     decl |-> i, key |-> ConvergenceKey(decl.ferId, decl.text, decl.status),
     ferId |-> decl.ferId, status |-> decl.status,
     successor |-> SuccessorKey(decl)]

(* current_fer_key_pairs *)
CurrentPairs(declarations) ==
    {<<d.question, d.key>> : d \in {d \in declarations : d.status = "current"}}

(* the sentinel of a question that does not apply *)
NA == <<"NA">>

(* similarity.tokens *)
Tokens(cells, declarations) ==
    CurrentPairs(declarations) \cup {<<c.question, NA>> : c \in {c \in cells : c.notApplicable}}

CellsOf(content, answers) ==
    {Cell(QuestionColumns(content, i), AnswerTo(answers, content[i].id)) : i \in Visible(content)}

DeclarationRowsOf(content, answers) ==
    LET decls(i) == DeclarationsOf(AnswerTo(answers, content[i].id))
    IN  UNION {{Declaration(QuestionColumns(content, i), j, decls(i)[j]) :
                   j \in 1..Len(decls(i))} : i \in Visible(content)}

(* project_answers; a model that does not exist has no question *)
ProjectAnswers(content, answers) ==
    LET of    == IF content = None THEN <<>> ELSE content
        cells == CellsOf(of, answers)
        decls == DeclarationRowsOf(of, answers)
    IN  [cells |-> cells, declarations |-> decls,
         questionCount |-> Cardinality(cells),
         answered |-> Cardinality({c \in cells : c.state # "unanswered"}),
         notApplicable |-> Cardinality({c \in cells : c.state = "not-applicable"}),
         declarationCount |-> Cardinality(decls),
         currentDeclarations |-> Cardinality({d \in decls : d.status = "current"}),
         tokenCount |-> Cardinality(CurrentPairs(decls))
                            + Cardinality({c \in cells : c.state = "not-applicable"})]

(* similarity.minhash; the signature of no token at all is the sentinel *)
MinHash(tokens) ==
    [i \in 1..K |-> IF tokens = {} THEN None ELSE Min({Hash(i, t) : t \in tokens})]

(* similarity.bands *)
BandIndexes == 1..(K \div BandRows)

Band(signature, b) == SubSeq(signature, (b - 1) * BandRows + 1, b * BandRows)

(* write_signature_rows *)
SignatureOf(projected) == MinHash(Tokens(projected.cells, projected.declarations))

(* The projection of one FIP: fip_facets, fip_cells, fip_declarations,     *)
(* fip_signatures and its bands.  `inTime` says that fip_updated_at is the *)
(* updated_at of the FIP.                                                  *)
Row(source, ref, migratedFrom, projected, epoch) ==
    [source |-> source, area |-> ref, migratedFrom |-> migratedFrom,
     cells |-> projected.cells, declarations |-> projected.declarations,
     questionCount |-> projected.questionCount, answered |-> projected.answered,
     notApplicable |-> projected.notApplicable, declarationCount |-> projected.declarationCount,
     currentDeclarations |-> projected.currentDeclarations, tokenCount |-> projected.tokenCount,
     signature |-> SignatureOf(projected), epoch |-> epoch, inTime |-> TRUE]

(* bump_fer_key_df, df_all only: nothing reads df_public *)
BumpFerKeyDf(df, declarations, sign) ==
    LET pairs == CurrentPairs(declarations)
        old(p) == IF p \in DOMAIN df THEN df[p] ELSE 0
    IN  [p \in DOMAIN df \cup (IF sign > 0 THEN pairs ELSE {}) |->
            IF p \in pairs THEN Max({0, old(p) + sign}) ELSE old(p)]

(* Does the row say of this FIP what its answers say?  _check_one_fip: the *)
(* state of every cell and the key of every declaration, not its status.   *)
CellStates(cells) == {<<c.question, c.state>> : c \in cells}

DeclarationKeys(declarations) == {<<d.question, d.decl, d.key>> : d \in declarations}

(* Mutant: the rows are counted, and not looked at. *)
DiffersInNumber(row, projected, epoch) ==
    \/ Cardinality(row.cells) # projected.questionCount
    \/ Cardinality(row.declarations) # projected.declarationCount
    \/ row.questionCount # projected.questionCount
    \/ row.declarationCount # projected.declarationCount
    \/ ~row.inTime
    \/ row.epoch # epoch

Differs(row, projected, epoch) ==
    \/ Cardinality(row.cells) # projected.questionCount
    \/ Cardinality(row.declarations) # projected.declarationCount
    \/ CellStates(row.cells) # CellStates(projected.cells)
    \/ DeclarationKeys(row.declarations) # DeclarationKeys(projected.declarations)
    \/ row.questionCount # projected.questionCount
    \/ row.declarationCount # projected.declarationCount
    \/ ~row.inTime
    \/ row.epoch # epoch
    \/ row.signature # SignatureOf(projected)

=============================================================================
