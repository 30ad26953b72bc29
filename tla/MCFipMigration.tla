--------------------------- MODULE MCFipMigration ---------------------------
(* Instances of FipMigration for TLC. *)
EXTENDS FipMigration, TLC

MCHalves == [q \in Questions |-> IF q = "F2" THEN {"F2m", "F2d"} ELSE {}]

MCQuestion(fer) == [fer |-> fer, hidden |-> FALSE]

MCHidden == [fer |-> None, hidden |-> TRUE]

(* A question that may be split, its halves, one that comes and goes, and  *)
(* one that may be hidden.                                                 *)
MCWhole == "F2" :> MCQuestion("id") @@ "A2" :> MCQuestion("repo")
MCSplit == "F2m" :> MCQuestion("id") @@ "F2d" :> MCQuestion("id") @@ "A2" :> MCHidden
MCShort == "F2m" :> MCQuestion("id") @@ "F2" :> MCQuestion("repo")
MCModels == {MCWhole, MCSplit, MCShort}

MCAnswers(texts) == {Entry(q, 0, texts[q]) : q \in DOMAIN texts}

(* Every question once, and twice for one of them: two texts, one of them  *)
(* with evidence in the old form, or a blank entry that follows a text.    *)
MCLists == {MCAnswers("F2" :> "s" @@ "A2" :> "t"), MCAnswers("F2" :> Blank @@ "A2" :> "t"),
            MCAnswers("F2m" :> "s" @@ "F2" :> "t"), MCAnswers("F2m" :> "s" @@ "A2" :> Blank),
            MCAnswers("F2" :> "t" @@ "A2" :> "t") \cup {Entry("F2", 1, "old")},
            MCAnswers("F2m" :> Blank) \cup {Entry("F2m", 1, "s")}}
MCNormals == {[t \in Texts |-> IF t = "old" THEN n ELSE t] : n \in {"s", "t"}}

MCCopies == {"F2" :> {}, "F2" :> {"F2m"}, "F2" :> {"A2"}}
MCReassign == {"A2" :> "F2m", "A2" :> "F2", "A2" :> "F2d", "F2" :> "F2m"}
MCOffers ==
    {NoDecisions}
        \cup {[copies |-> c, reassign |-> NoDecisions.reassign] : c \in MCCopies}
        \cup {[copies |-> NoDecisions.copies, reassign |-> r] : r \in MCReassign}
=============================================================================
