------------------------------- MODULE KmContent -------------------------------
(***************************************************************************)
(* The content of a knowledge model and its validation (km_content.py):    *)
(* sections of questions, the FERs a question suggests, and the FERs the   *)
(* model itself stages ("inline") until it is published.                   *)
(*                                                                         *)
(* A text in several languages is represented by what the rules look at:   *)
(* "ok", "no_english", "bad_entry", "empty" or "absent"; an id by a model  *)
(* value, or None if it is missing or malformed.  The other single-field   *)
(* rules (types of fields, lengths, taxonomies, phrases) are one flag of a *)
(* question, wellTyped.                                                    *)
(***************************************************************************)
EXTENDS Integers, FiniteSets, SequencesExt

CONSTANTS
    None,
    Ids, Fers,      \* ids of sections and questions; ids of FERs
    MaxInline, MaxSections, MaxQuestions, MaxSuggested

ASSUME ContentAssumption ==
    /\ {MaxInline, MaxSections, MaxQuestions, MaxSuggested} \subseteq Nat \ {0}
    /\ None \notin Fers

LangMaps == {"ok", "no_english", "bad_entry", "empty", "absent"}

Question ==
    [id : Ids \cup {None}, text : LangMaps, wellTyped : BOOLEAN,
     suggested : Seq(Fers \cup {None}), hidden : BOOLEAN, freeText : BOOLEAN]

Section == [id : Ids \cup {None}, title : LangMaps, questions : Seq(Question)]

Content ==
    [title : LangMaps, edition : Nat,
     inline : Seq([id : Fers \cup {None}, label : LangMaps]), sections : Seq(Section)]

(* _check_langmap without an error: a text may be absent if it is not      *)
(* required, and lack English if that is not.                              *)
LangMapOK(text, required, needs_english) ==
    \/ text = "ok"
    \/ text = "absent" /\ ~required
    \/ text = "no_english" /\ ~needs_english

(* What the catalogue knows of FERs: the known ids, and those of them that *)
(* an earlier publication put there.                                       *)
Snapshot(known, promoted) == [known |-> known, promoted |-> promoted]

(* Mutant: what an earlier publication put there collides too. *)
CollidesAlways(fer, catalogue) == fer \in catalogue.known

(* _validate_inline_fers: an id of the catalogue may not be staged again,  *)
(* unless it got there by a publication.                                   *)
Collides(fer, catalogue) == fer \in catalogue.known \ catalogue.promoted

(* The ids that suggestions may refer to *)
InlineIds(doc) == {doc.inline[i].id : i \in DOMAIN doc.inline} \ {None}

InlineOK(doc, catalogue) ==
    /\ Len(doc.inline) <= MaxInline
    /\ \A i, j \in DOMAIN doc.inline : doc.inline[i].id = doc.inline[j].id => i = j
    /\ \A i \in DOMAIN doc.inline :
           /\ doc.inline[i].id # None /\ ~Collides(doc.inline[i].id, catalogue)
           /\ LangMapOK(doc.inline[i].label, TRUE, FALSE)

Resolvable(doc, catalogue) == InlineIds(doc) \cup catalogue.known

(* _validate_suggested_fer_ids *)
SuggestionsOK(list, resolvable) ==
    /\ Len(list) <= MaxSuggested
    /\ None \notin ToSet(list) /\ IsInjective(list)
    /\ ToSet(list) \subseteq resolvable

HasAnswerPath(question) == question.freeText \/ question.suggested # <<>>

QuestionOK(question, resolvable, publishing) ==
    /\ question.id # None
    /\ LangMapOK(question.text, TRUE, TRUE)
    /\ question.wellTyped
    /\ SuggestionsOK(question.suggested, resolvable)
    /\ publishing /\ ~question.hidden => HasAnswerPath(question)

(* The questions of a document and where they stand *)
Places(doc) ==
    UNION {{i} \X DOMAIN doc.sections[i].questions : i \in DOMAIN doc.sections}

QuestionAt(doc, place) == doc.sections[place[1]].questions[place[2]]

(* validate_content returns no error.  (The errors it collects, and where  *)
(* it stops to collect them, are left out.)                                *)
ContentOK(doc, catalogue, publishing) ==
    /\ LangMapOK(doc.title, TRUE, TRUE)
    /\ InlineOK(doc, catalogue)
    /\ Len(doc.sections) <= MaxSections
    /\ \A i, j \in DOMAIN doc.sections : doc.sections[i].id = doc.sections[j].id => i = j
    /\ \A i \in DOMAIN doc.sections :
           doc.sections[i].id # None /\ LangMapOK(doc.sections[i].title, TRUE, TRUE)
    /\ Cardinality(Places(doc)) <= MaxQuestions
    /\ \A p, q \in Places(doc) : QuestionAt(doc, p).id = QuestionAt(doc, q).id => p = q
    /\ \A p \in Places(doc) :
           QuestionOK(QuestionAt(doc, p), Resolvable(doc, catalogue), publishing)
    /\ publishing => \E p \in Places(doc) : ~QuestionAt(doc, p).hidden

-----------------------------------------------------------------------------
SuggestedIn(doc) == UNION {ToSet(QuestionAt(doc, p).suggested) : p \in Places(doc)}

(* _repoint_suggested_fer_ids for one list: in order, without repetition *)
RepointList(list, from, to) ==
    LET renamed(i) == IF list[i] = from THEN to ELSE list[i]
        kept[n \in 0..Len(list)] ==
            IF n = 0 THEN <<>>
            ELSE IF renamed(n) \in ToSet(kept[n - 1]) THEN kept[n - 1]
            ELSE Append(kept[n - 1], renamed(n))
    IN IF from \in ToSet(list) THEN kept[Len(list)] ELSE list

RepointQuestion(question, from, to) ==
    [question EXCEPT !.suggested = RepointList(@, from, to)]

RepointSection(section, from, to) ==
    [section EXCEPT !.questions =
        [j \in DOMAIN section.questions |-> RepointQuestion(section.questions[j], from, to)]]

Repoint(doc, from, to) ==
    [doc EXCEPT !.sections =
        [i \in DOMAIN doc.sections |-> RepointSection(doc.sections[i], from, to)]]

=============================================================================
