---------------------------- MODULE MigrationDiff ----------------------------
(***************************************************************************)
(* Migrating the answers of a FIP from one version of its model to another *)
(* (migration.py): the diff of two contents, the decisions it asks for,    *)
(* and the answers and orphans they lead to.                               *)
(*                                                                         *)
(* A content maps the ids of its questions to what the diff looks at, the  *)
(* FER type and whether the question is hidden.  The answers of a FIP are  *)
(* a list, in which nothing forbids a question to come twice: an entry     *)
(* carries the number of entries of the same question that come later.     *)
(* (How entries of different questions are ordered is left out.)  An entry *)
(* without declarations, comment or "not applicable" is Blank, and is      *)
(* stored all the same.                                                    *)
(***************************************************************************)
EXTENDS Integers, FiniteSets

CONSTANTS
    Questions,  \* question ids
    Halves,     \* <id>-metadata and <id>-data, where both are ids
    FerTypes, Texts, Blank, None

ASSUME DiffAssumption ==
    /\ IsFiniteSet(Questions)
    /\ Halves \in [Questions -> SUBSET Questions]
    /\ Blank \notin Texts /\ None \notin FerTypes

Contents == UNION {[qs -> [fer : FerTypes \cup {None}, hidden : BOOLEAN]] : qs \in SUBSET Questions}

Entry(q, later, text) == [q |-> q, later |-> later, text |-> text]

Entries == [q : Questions, later : Nat, text : Texts \cup {Blank}]

Ordered(answers) == \A a, b \in answers : a.q = b.q /\ a.later = b.later => a = b

OneEach(answers) == \A a, b \in answers : a.q = b.q => a = b

(* answers_by_id: the last entry of each question *)
Held(answers) == {a \in answers : a.later = 0}

(* _build_answered_index *)
Answered(answers) == {a.q : a \in {b \in answers : b.text # Blank}}

Named(answers) == {a.q : a \in answers}

(* The questions that count as answered by an entry that is not the last. *)
Masked(answers) == Answered(answers) \ Answered(Held(answers))

IsSplit(old, new, q) ==
    /\ q \in DOMAIN old \ DOMAIN new
    /\ Halves[q] # {} /\ Halves[q] \subseteq DOMAIN new \ DOMAIN old

Consumed(old, new) == UNION {Halves[q] : q \in {s \in DOMAIN old : IsSplit(old, new, s)}}

(* Where the declarations of a question that is gone may go. *)
Options(old, new, answers, q) ==
    LET free == {n \in DOMAIN new : ~new[n].hidden /\ n \notin Answered(answers)}
        typed == {n \in free : q \in DOMAIN old /\ old[q].fer # None /\ new[n].fer = old[q].fer}
    IN IF typed # {} THEN typed ELSE free

Item(status, q, answered, options, decision) ==
    [status |-> status, q |-> q, answered |-> answered, options |-> options,
     decision |-> decision]

KeptItems(old, new, answers) ==
    {Item(IF new[q].hidden THEN "hidden" ELSE "unchanged", q, q \in Answered(answers), {}, None)
        : q \in DOMAIN old \cap DOMAIN new}

AddedItems(old, new) ==
    {Item("added", q, FALSE, {}, None)
        : q \in DOMAIN new \ (DOMAIN old \cup Consumed(old, new))}

(* Only an answered question asks for a decision. *)
SplitItems(old, new, answers) ==
    {Item("split", q, q \in Answered(answers), Halves[q],
          IF q \in Answered(answers) THEN "splitCopies" ELSE None)
        : q \in {s \in DOMAIN old : IsSplit(old, new, s)}}

(* Mutant: the leftovers are looked for in the old content alone. *)
LeftoversOfSource(old, new, answers) ==
    {q \in Answered(answers) : q \in DOMAIN old \ DOMAIN new /\ ~IsSplit(old, new, q)}

(* The answered questions that are gone from the target, whether or not    *)
(* the source still had them.                                              *)
Leftovers(old, new, answers) ==
    {q \in Answered(answers) : q \notin DOMAIN new /\ ~IsSplit(old, new, q)}

RemovedItems(old, new, answers) ==
    {Item("removed", q, TRUE, Options(old, new, answers, q), "orphanReassign")
        : q \in Leftovers(old, new, answers)}

(* compute_diff *)
Diff(old, new, answers) ==
    KeptItems(old, new, answers) \cup AddedItems(old, new)
        \cup SplitItems(old, new, answers) \cup RemovedItems(old, new, answers)

(* Mutant: the split questions are not counted. *)
CountKeptUnsplit(diff) ==
    Cardinality({i \in diff : i.answered /\ i.status \in {"unchanged", "hidden"}})

(* _compute_counts: what the preview promises for the defaults *)
CountKept(diff) ==
    Cardinality({i \in diff : i.answered /\ i.status \in {"unchanged", "hidden", "split"}})

CountOrphaned(diff) == Cardinality({i \in diff : i.status = "removed"})

-----------------------------------------------------------------------------
(* apply_migration.  The decisions of a request: for some questions, where *)
(* to copy a split answer to, or to whom to reassign a removed one.        *)

Decisions ==
    [copies : UNION {[qs -> SUBSET Questions] : qs \in SUBSET Questions},
     reassign : UNION {[qs -> Questions] : qs \in SUBSET Questions}]

NoDecisions == [copies |-> [q \in {} |-> {}], reassign |-> [q \in {} |-> None]]

Deciding(diff, kind) == {i.q : i \in {j \in diff : j.decision = kind}}

(* Otherwise: 400 unknown_decision *)
KnownDecisions(diff, d) ==
    /\ DOMAIN d.copies \subseteq Deciding(diff, "splitCopies")
    /\ DOMAIN d.reassign \subseteq Deciding(diff, "orphanReassign")

(* The items that hold an answer, if only a blank one *)
Holding(diff, answers) ==
    {i \in diff : i.status # "added" /\ i.q \in Named(answers)}

(* Reading the default of the decision an item does not ask for raises a   *)
(* TypeError, and the request fails with a 500.                            *)
Breaks(diff, answers) ==
    \E i \in Holding(diff, answers) : i.status = "split" /\ i.decision = None

Targets(i, d) ==
    CASE i.status \in {"unchanged", "hidden"} -> {i.q}
      [] i.status = "split"   -> IF i.q \in DOMAIN d.copies THEN d.copies[i.q] ELSE i.options
      [] i.status = "removed" -> IF i.q \in DOMAIN d.reassign THEN {d.reassign[i.q]} ELSE {}
      [] OTHER -> {}

(* Mutant: any question may be named. *)
AnyTargets(diff, answers, d) == TRUE

(* Otherwise: 400 invalid_decision *)
AllowedTargets(diff, answers, d) ==
    \A i \in Holding(diff, answers) :
        i.status \in {"split", "removed"} => Targets(i, d) \subseteq i.options

(* Mutant: two answers may be put on one question. *)
ClaimsAnything(diff, answers, d) == TRUE

NoDoubleClaim(diff, answers, d) ==
    \A i, j \in Holding(diff, answers) : i # j => Targets(i, d) \cap Targets(j, d) = {}

Accepted(diff, answers, d) ==
    /\ KnownDecisions(diff, d)
    /\ ~Breaks(diff, answers)
    /\ AllowedTargets(diff, answers, d)
    /\ NoDoubleClaim(diff, answers, d)

NewAnswers(diff, answers, d) ==
    UNION {{Entry(t, 0, a.text) : t \in UNION {Targets(i, d) : i \in {j \in diff : j.q = a.q}}}
              : a \in Held(answers)}

(* A reassigned answer is recorded as an orphan as well. *)
NewOrphans(diff, answers, d) ==
    {a \in Held(answers) : \E i \in diff :
        /\ i.q = a.q
        /\ i.status = "removed" \/ (i.status = "split" /\ Targets(i, d) = {})}

=============================================================================
