------------------------- MODULE FipMigration_proofs -------------------------
(***************************************************************************)
(* Proofs about the migration of answers, for all contents, lists of       *)
(* answers and decisions: what the last entry of a question answers is not *)
(* lost, and no question is given two answers.                             *)
(***************************************************************************)
EXTENDS FipMigration, FiniteSetTheorems, FunctionTheorems, TLAPS

LEMMA HeldOneEach ==
    ASSUME NEW answers, Ordered(answers)
    PROVE  OneEach(Held(answers)) /\ Held(answers) \subseteq answers
BY DEF OneEach, Ordered, Held

(* A list with one entry per question has no two at the same place. *)
LEMMA OneEachOrdered ==
    ASSUME NEW answers, OneEach(answers)
    PROVE  Ordered(answers)
BY DEF OneEach, Ordered

(* The accepted decisions never put two answers on one question. *)
LEMMA NewAnswersOneEach ==
    ASSUME NEW diff, NEW answers, NEW d, Ordered(answers), NoDoubleClaim(diff, answers, d)
    PROVE  OneEach(NewAnswers(diff, answers, d))
<1> SUFFICES ASSUME NEW x \in NewAnswers(diff, answers, d),
                    NEW y \in NewAnswers(diff, answers, d), x.q = y.q
             PROVE  x = y
  BY DEF OneEach
<1>0. OneEach(Held(answers)) /\ Held(answers) \subseteq answers
  BY HeldOneEach
<1>1. PICK a \in Held(answers), i \in diff :
          i.q = a.q /\ x = Entry(x.q, 0, a.text) /\ x.q \in Targets(i, d)
  <2>1. PICK a \in Held(answers) : \E t \in UNION {Targets(i, d) : i \in {j \in diff : j.q = a.q}} :
                                 x = Entry(t, 0, a.text)
    BY DEF NewAnswers
  <2>2. QED
    BY <2>1 DEF Entry
<1>2. PICK b \in Held(answers), j \in diff :
          j.q = b.q /\ y = Entry(y.q, 0, b.text) /\ y.q \in Targets(j, d)
  <2>1. PICK b \in Held(answers) : \E t \in UNION {Targets(k, d) : k \in {m \in diff : m.q = b.q}} :
                                 y = Entry(t, 0, b.text)
    BY DEF NewAnswers
  <2>2. QED
    BY <2>1 DEF Entry
<1>3. i \in Holding(diff, answers) /\ j \in Holding(diff, answers)
  BY <1>0, <1>1, <1>2 DEF Holding, Named, Targets
<1>4. i = j
  BY <1>1, <1>2, <1>3 DEF NoDoubleClaim
<1>5. a = b
  BY <1>0, <1>1, <1>2, <1>4 DEF OneEach
<1>6. QED
  BY <1>1, <1>2, <1>5

(* An answered question has an item in the diff, unless it reappears, and  *)
(* the item keeps its text or makes it an orphan.                          *)
LEMMA AnswerKeptOrOrphaned ==
    ASSUME NEW old, NEW new, NEW answers, NEW d, NEW a \in Held(answers), a.text # Blank,
           a.q \notin DOMAIN new \ DOMAIN old
    PROVE  \/ a \in NewOrphans(Diff(old, new, answers), answers, d)
           \/ \E b \in NewAnswers(Diff(old, new, answers), answers, d) : b.text = a.text
<1> DEFINE diff == Diff(old, new, answers)
<1>0. a.q \in Answered(answers)
  BY DEF Answered, Held
<1>1. ASSUME NEW i \in diff, i.q = a.q, NEW t \in Targets(i, d)
      PROVE  \E b \in NewAnswers(diff, answers, d) : b.text = a.text
  <2>1. Entry(t, 0, a.text) \in NewAnswers(diff, answers, d)
    BY <1>1 DEF NewAnswers
  <2>2. QED
    BY <2>1 DEF Entry
<1>2. CASE a.q \in DOMAIN new
  <2> DEFINE i == Item(IF new[a.q].hidden THEN "hidden" ELSE "unchanged", a.q,
                       a.q \in Answered(answers), {}, None)
  <2>1. i \in diff
    BY <1>2 DEF Diff, KeptItems
  <2>2. i.q = a.q /\ i.status \in {"unchanged", "hidden"}
    BY DEF Item
  <2>3. a.q \in Targets(i, d)
    BY <2>2 DEF Targets
  <2>4. QED
    BY <1>1, <2>1, <2>2, <2>3
<1>3. CASE a.q \notin DOMAIN new /\ IsSplit(old, new, a.q)
  <2> DEFINE i == Item("split", a.q, a.q \in Answered(answers), Halves[a.q],
                       IF a.q \in Answered(answers) THEN "splitCopies" ELSE None)
  <2>1. i \in diff
    BY <1>3 DEF Diff, SplitItems, IsSplit
  <2>2. i.q = a.q /\ i.status = "split"
    BY DEF Item
  <2>3. CASE Targets(i, d) = {}
    BY <2>1, <2>2, <2>3 DEF NewOrphans
  <2>4. CASE Targets(i, d) # {}
    BY <1>1, <2>1, <2>2, <2>4
  <2>5. QED
    BY <2>3, <2>4
<1>4. CASE a.q \notin DOMAIN new /\ ~IsSplit(old, new, a.q)
  <2> DEFINE i == Item("removed", a.q, TRUE, Options(old, new, answers, a.q), "orphanReassign")
  <2>1. i \in diff
    BY <1>0, <1>4 DEF Diff, RemovedItems, Leftovers
  <2>2. i.q = a.q /\ i.status = "removed"
    BY DEF Item
  <2>3. QED
    BY <2>1, <2>2 DEF NewOrphans
<1>5. QED
  BY <1>2, <1>3, <1>4

-----------------------------------------------------------------------------
(* The strengthening: lists are lists, the one a migration will write has  *)
(* one entry per question and keeps what the request loaded.               *)
RequestOK(req) ==
    /\ req = [kind |-> req.kind, loaded |-> req.loaded, new |-> req.new]
    /\ req.new = [version |-> req.new.version, answers |-> req.new.answers,
                  orphans |-> req.new.orphans]
    /\ Ordered(req.new.answers)
    /\ req.kind = "migrate" => OneEach(req.new.answers) /\ Kept(req.loaded, req.new)

MInv ==
    /\ requests = [r \in Requests |-> requests[r]]
    /\ \A r \in Requests : requests[r] # None => RequestOK(requests[r])
    /\ Ordered(fip.answers)

LEMMA MInvInit == MInit => MInv
<1> SUFFICES ASSUME MInit PROVE MInv
  OBVIOUS
<1>1. PICK v \in Versions, answers \in Lists :
          fip = [version |-> v, answers |-> answers, orphans |-> {}]
  BY DEF MInit
<1>2. Ordered(answers)
  BY MigrationAssumption
<1>3. QED
  BY <1>1, <1>2 DEF MInit, MInv

LEMMA BeginOK ==
    ASSUME MInv, NEW r \in Requests, NEW kind, NEW version, NEW answers, NEW orphans,
           Begin(r, kind, version, answers, orphans), Ordered(answers),
           kind = "migrate" =>
               OneEach(answers) /\ Kept(fip, [version |-> version, answers |-> answers, orphans |-> orphans])
    PROVE  MInv'
<1> DEFINE new == [version |-> version, answers |-> answers, orphans |-> orphans]
           req == [kind |-> kind, loaded |-> fip, new |-> new]
<1>1. requests' = [requests EXCEPT ![r] = req] /\ UNCHANGED <<fip, content>>
  BY DEF Begin
<1>2. RequestOK(req)
  BY DEF RequestOK
<1>3. \A i \in Requests : requests'[i] # None => RequestOK(requests'[i])
  BY <1>1, <1>2 DEF MInv
<1>4. requests' = [i \in Requests |-> requests'[i]]
  BY <1>1 DEF MInv
<1>5. (\A i \in Requests : requests[i] # None => RequestOK(requests[i]))'
  BY <1>1, <1>3 DEF RequestOK, Ordered, OneEach, Kept, Held, Reappears
<1>6. QED
  BY <1>1, <1>4, <1>5 DEF MInv

LEMMA NormalisedOrdered ==
    ASSUME NEW answers, NEW normal, Ordered(answers)
    PROVE  Ordered(Normalised(answers, normal))
<1> SUFFICES ASSUME NEW x \in Normalised(answers, normal), NEW y \in Normalised(answers, normal),
                    x.q = y.q, x.later = y.later
             PROVE  x = y
  BY DEF Ordered
<1> DEFINE text(a) == IF a.text = Blank THEN Blank ELSE normal[a.text]
<1>1. PICK a \in answers : x = Entry(a.q, a.later, text(a))
  BY DEF Normalised
<1>2. PICK b \in answers : y = Entry(b.q, b.later, text(b))
  BY DEF Normalised
<1>3. a = b
  <2> HIDE DEF text
  <2>1. a.q = b.q /\ a.later = b.later
    BY <1>1, <1>2 DEF Entry
  <2>2. QED
    BY <2>1 DEF Ordered
<1>4. QED
  BY <1>1, <1>2, <1>3

LEMMA NormalisedNames ==
    ASSUME NEW answers, NEW normal
    PROVE  Named(Normalised(answers, normal)) = Named(answers)
<1> DEFINE to(a) == Entry(a.q, a.later, IF a.text = Blank THEN Blank ELSE normal[a.text])
<1>1. \A a \in answers : to(a).q = a.q
  BY DEF Entry
<1>2. Normalised(answers, normal) = {to(a) : a \in answers}
  BY DEF Normalised
<1> HIDE DEF to
<1>3. QED
  BY <1>1, <1>2 DEF Named

LEMMA PatchOK ==
    ASSUME MInv, NEW r \in Requests, NEW sent \in Lists \cup {None}, NEW normal,
           BeginPatch(r, sent, normal)
    PROVE  MInv'
<1> DEFINE answers == IF sent = None THEN fip.answers ELSE sent
<1>1. Ordered(answers)
  BY MigrationAssumption DEF MInv
<1>2. Begin(r, "patch", fip.version, Normalised(answers, normal), fip.orphans)
  BY DEF BeginPatch
<1> HIDE DEF answers
<1>3. QED
  BY <1>1, <1>2, NormalisedOrdered, BeginOK

LEMMA MigrateOK ==
    ASSUME MInv, NEW r \in Requests, NEW to, NEW d, BeginMigrate(r, to, d)
    PROVE  MInv'
<1> DEFINE diff == DiffTo(to)
           answers == NewAnswers(diff, fip.answers, d)
           moved == NewOrphans(diff, fip.answers, d)
           orphans == fip.orphans \cup {Orphan(a, fip.version) : a \in moved}
           new == [version |-> to, answers |-> answers, orphans |-> orphans]
<1>1. Accepted(diff, fip.answers, d) /\ Begin(r, "migrate", to, answers, orphans)
  BY DEF BeginMigrate
<1>2. OneEach(answers)
  BY <1>1, NewAnswersOneEach DEF Accepted, MInv
<1>3. ASSUME NEW a \in Held(fip.answers), a.text # Blank, ~Reappears(a.q, fip, new)
      PROVE  \/ \E b \in answers : b.text = a.text
             \/ Orphan(a, fip.version) \in orphans
  <2>1. a.q \notin DOMAIN content[to] \ DOMAIN content[fip.version]
    BY <1>3 DEF Reappears
  <2>2. a \in moved \/ \E b \in answers : b.text = a.text
    BY <1>3, <2>1, AnswerKeptOrOrphaned DEF DiffTo
  <2>3. QED
    BY <2>2
<1>4. Kept(fip, new)
  BY <1>3 DEF Kept
<1>5. QED
  BY <1>1, <1>2, <1>4, OneEachOrdered, BeginOK

LEMMA CommitOK ==
    ASSUME MInv, NEW r \in Requests, Commit(r)
    PROVE  MInv'
<1>1. requests[r] # None /\ RequestOK(requests[r])
  BY DEF Commit, MInv
<1>2. requests' = [requests EXCEPT ![r] = None] /\ fip' = Written(requests[r])
      /\ content' = content
  BY DEF Commit
<1>3. Ordered(fip'.answers)
  BY <1>1, <1>2 DEF Written, Column, RequestOK, MInv
<1>4. \A i \in Requests : requests'[i] # None => RequestOK(requests'[i])
  BY <1>2 DEF MInv
<1>5. requests' = [i \in Requests |-> requests'[i]]
  BY <1>2 DEF MInv
<1>6. (\A i \in Requests : requests[i] # None => RequestOK(requests[i]))'
  BY <1>2, <1>4 DEF RequestOK, Ordered, OneEach, Kept, Held, Reappears
<1>7. Ordered(fip.answers)'
  BY <1>3 DEF Ordered
<1>8. QED
  BY <1>5, <1>6, <1>7 DEF MInv

LEMMA MInvStep == MInv /\ [MNext]_mvars => MInv'
<1> SUFFICES ASSUME MInv, [MNext]_mvars PROVE MInv'
  OBVIOUS
<1>1. ASSUME NEW r \in Requests, Abort(r) PROVE MInv'
  BY <1>1 DEF Abort, MInv, RequestOK, Ordered, OneEach, Kept, Held, Reappears
<1>2. CASE UNCHANGED mvars
  BY <1>2 DEF mvars, MInv, RequestOK, Ordered, OneEach, Kept, Held, Reappears
<1>3. QED
  BY <1>1, <1>2, PatchOK, MigrateOK, CommitOK DEF MNext

(* A migration never writes two answers to one question, whatever lists    *)
(* are stored and sent, whatever its decisions and however requests        *)
(* overlap.                                                                *)
THEOREM MSpec_MigrationAnswersOnce == MSpec => MigrationAnswersOnce
<1> DEFINE Once(r) == /\ requests[r] # None /\ requests[r].kind = "migrate" /\ Commit(r)
                      /\ fip'.answers = requests[r].new.answers
                      => OneEach(fip'.answers)
<1>1. MInv /\ [MNext]_mvars => [\A r \in Requests : Once(r)]_mvars
  BY DEF MInv, RequestOK
<1>2. QED
  BY <1>1, MInvInit, MInvStep, PTL DEF MSpec, MigrationAnswersOnce

(* A migration that no other write overtook keeps every text that the last *)
(* entry of a question answers, as an answer or an orphan; only an answer  *)
(* whose question reappears may go.                                        *)
THEOREM MSpec_NothingVanishes == MSpec => NothingVanishes
<1>1. MInv /\ [MNext]_mvars => [\A r \in Requests : Migrates(r) => Kept(fip, fip')]_mvars
  <2> SUFFICES ASSUME MInv, NEW r \in Requests, Migrates(r) PROVE Kept(fip, fip')
    OBVIOUS
  <2>1. requests[r] # None /\ requests[r].kind = "migrate" /\ fip = requests[r].loaded
        /\ fip' = Written(requests[r])
    BY DEF Migrates, Commit
  <2>2. RequestOK(requests[r]) /\ Kept(fip, requests[r].new)
    BY <2>1 DEF MInv, RequestOK
  <2>3. fip' = requests[r].new
    BY <2>1, <2>2 DEF Written, Column, RequestOK
  <2>4. QED
    BY <2>2, <2>3
<1>2. QED
  BY <1>1, MInvInit, MInvStep, PTL DEF MSpec, NothingVanishes

-----------------------------------------------------------------------------
(* The questions of the answers *)

KeptItem(old, new, answers, q) ==
    Item(IF new[q].hidden THEN "hidden" ELSE "unchanged", q, q \in Answered(answers), {}, None)

SplitItem(old, new, answers, q) ==
    Item("split", q, q \in Answered(answers), Halves[q],
         IF q \in Answered(answers) THEN "splitCopies" ELSE None)

RemovedItem(old, new, answers, q) ==
    Item("removed", q, TRUE, Options(old, new, answers, q), "orphanReassign")

(* The item of a question in a diff, by where the question is. *)
IsItem(old, new, answers, q, i) ==
    \/ q \in DOMAIN old \cap DOMAIN new /\ i = KeptItem(old, new, answers, q)
    \/ q \in DOMAIN new \ DOMAIN old /\ i = Item("added", q, FALSE, {}, None)
    \/ /\ q \in DOMAIN old \ DOMAIN new /\ IsSplit(old, new, q)
       /\ i = SplitItem(old, new, answers, q)
    \/ /\ q \in Answered(answers) \ DOMAIN new /\ ~IsSplit(old, new, q)
       /\ i = RemovedItem(old, new, answers, q)

LEMMA ItemOf ==
    ASSUME NEW old, NEW new, NEW answers, NEW i \in Diff(old, new, answers)
    PROVE  IsItem(old, new, answers, i.q, i)
<1>1. CASE i \in KeptItems(old, new, answers)
  <2>1. PICK q \in DOMAIN old \cap DOMAIN new : i = KeptItem(old, new, answers, q)
    BY <1>1 DEF KeptItems, KeptItem
  <2>2. i.q = q
    BY <2>1 DEF KeptItem, Item
  <2>3. QED
    BY <2>1, <2>2 DEF IsItem
<1>2. CASE i \in AddedItems(old, new)
  <2>1. PICK q \in DOMAIN new \ (DOMAIN old \cup Consumed(old, new)) :
            i = Item("added", q, FALSE, {}, None)
    BY <1>2 DEF AddedItems
  <2>2. i.q = q
    BY <2>1 DEF Item
  <2>3. QED
    BY <2>1, <2>2 DEF IsItem
<1>3. CASE i \in SplitItems(old, new, answers)
  <2>1. PICK q \in {s \in DOMAIN old : IsSplit(old, new, s)} : i = SplitItem(old, new, answers, q)
    BY <1>3 DEF SplitItems, SplitItem
  <2>2. i.q = q /\ q \in DOMAIN old \ DOMAIN new
    BY <2>1 DEF SplitItem, Item, IsSplit
  <2>3. QED
    BY <2>1, <2>2 DEF IsItem
<1>4. CASE i \in RemovedItems(old, new, answers)
  <2>1. PICK q \in Leftovers(old, new, answers) : i = RemovedItem(old, new, answers, q)
    BY <1>4 DEF RemovedItems, RemovedItem
  <2>2. i.q = q
    BY <2>1 DEF RemovedItem, Item
  <2>3. QED
    BY <2>1, <2>2 DEF IsItem, Leftovers
<1>5. QED
  BY <1>1, <1>2, <1>3, <1>4 DEF Diff

(* A question has at most one item. *)
LEMMA OneItem ==
    ASSUME NEW old, NEW new, NEW answers,
           NEW i \in Diff(old, new, answers), NEW j \in Diff(old, new, answers), i.q = j.q
    PROVE  i = j
<1>1. ASSUME NEW q, IsItem(old, new, answers, q, i), IsItem(old, new, answers, q, j)
      PROVE  i = j
  <2>1. CASE q \in DOMAIN old /\ q \in DOMAIN new
    BY <1>1, <2>1 DEF IsItem
  <2>2. CASE q \notin DOMAIN old /\ q \in DOMAIN new
    BY <1>1, <2>2 DEF IsItem
  <2>3. CASE q \notin DOMAIN new /\ IsSplit(old, new, q)
    BY <1>1, <2>3 DEF IsItem
  <2>4. CASE q \notin DOMAIN new /\ ~IsSplit(old, new, q)
    BY <1>1, <2>4 DEF IsItem
  <2>5. QED
    BY <2>1, <2>2, <2>3, <2>4
<1>2. IsItem(old, new, answers, i.q, i) /\ IsItem(old, new, answers, i.q, j)
  BY ItemOf
<1>3. QED
  BY <1>1, <1>2

(* Whatever is decided, an accepted migration answers questions of its     *)
(* target only.                                                            *)
LEMMA NewAnswersFit ==
    ASSUME NEW old, NEW new, NEW answers, NEW d,
           AllowedTargets(Diff(old, new, answers), answers, d)
    PROVE  Named(NewAnswers(Diff(old, new, answers), answers, d)) \subseteq DOMAIN new
<1> DEFINE diff == Diff(old, new, answers)
<1>1. SUFFICES ASSUME NEW a \in Held(answers), NEW i \in diff, i.q = a.q, NEW t \in Targets(i, d)
               PROVE  t \in DOMAIN new
  <2>1. \A b \in NewAnswers(diff, answers, d) :
            \E a \in Held(answers), i \in diff : i.q = a.q /\ b.q \in Targets(i, d)
    BY DEF NewAnswers, Entry
  <2>2. QED
    BY <2>1, <1>1 DEF Named
<1>2. i.status # "added" => i \in Holding(diff, answers)
  BY <1>1 DEF Holding, Named, Held
<1>3. CASE i.q \in DOMAIN new /\ i = KeptItem(old, new, answers, i.q)
  <2>1. i.status \in {"hidden", "unchanged"}
    BY <1>3 DEF KeptItem, Item
  <2>2. t = i.q
    BY <1>1, <2>1 DEF Targets
  <2>3. QED
    BY <1>3, <2>2
<1>4. CASE i = Item("added", i.q, FALSE, {}, None)
  <2>1. i.status = "added"
    BY <1>4 DEF Item
  <2>2. QED
    BY <1>1, <2>1 DEF Targets
<1>5. CASE IsSplit(old, new, i.q) /\ i = SplitItem(old, new, answers, i.q)
  <2>1. i.status = "split" /\ i.options = Halves[i.q]
    BY <1>5 DEF SplitItem, Item
  <2>2. t \in i.options
    BY <1>1, <1>2, <2>1 DEF AllowedTargets
  <2>3. QED
    BY <1>5, <2>1, <2>2 DEF IsSplit
<1>6. CASE i = RemovedItem(old, new, answers, i.q)
  <2>1. i.status = "removed" /\ i.options = Options(old, new, answers, i.q)
    BY <1>6 DEF RemovedItem, Item
  <2>2. t \in i.options
    BY <1>1, <1>2, <2>1 DEF AllowedTargets
  <2>3. QED
    BY <2>1, <2>2 DEF Options
<1>7. IsItem(old, new, answers, i.q, i)
  BY ItemOf
<1>8. QED
  BY <1>3, <1>4, <1>5, <1>6, <1>7 DEF IsItem

(* What the FIP and the requests hold are answers to questions; as long as  *)
(* nothing was overtaken, to those of their versions.                      *)
FipFits ==
    /\ fip.version \in Versions
    /\ Named(fip.answers) \subseteq Questions
    /\ drifted \/ Named(fip.answers) \subseteq DOMAIN content[fip.version]

RequestFits(req) ==
    /\ req.new.version \in Versions
    /\ Named(req.new.answers) \subseteq Questions
    /\ drifted \/ Named(req.new.answers) \subseteq DOMAIN content[req.new.version]

FInv ==
    /\ MInv
    /\ content \in [Versions -> Models]
    /\ FipFits
    /\ \A r \in Requests : requests[r] # None => RequestFits(requests[r])

LEMMA ContentQuestions ==
    ASSUME content \in [Versions -> Models], NEW v \in Versions
    PROVE  DOMAIN content[v] \subseteq Questions
<1>1. content[v] \in Contents
  BY MigrationAssumption
<1>2. PICK qs \in SUBSET Questions :
          content[v] \in [qs -> [fer : FerTypes \cup {None}, hidden : BOOLEAN]]
  BY <1>1 DEF Contents
<1>3. QED
  BY <1>2

LEMMA FInvInit ==
    ASSUME MInit
    PROVE  FInv
<1>1. PICK v \in Versions, answers \in Lists :
          /\ Named(answers) \subseteq DOMAIN content[v]
          /\ fip = [version |-> v, answers |-> answers, orphans |-> {}]
  BY DEF MInit
<1>2. content \in [Versions -> Models] /\ \A r \in Requests : requests[r] = None
  BY DEF MInit
<1>3. FipFits
  BY <1>1, <1>2, ContentQuestions DEF FipFits
<1>4. QED
  BY <1>2, <1>3, MInvInit DEF FInv

LEMMA BeginFits ==
    ASSUME FInv, NEW r \in Requests, NEW kind, NEW version \in Versions, NEW answers, NEW orphans,
           Begin(r, kind, version, answers, orphans),
           Named(answers) \subseteq Questions,
           drifted \/ Named(answers) \subseteq DOMAIN content[version]
    PROVE  /\ content' \in [Versions -> Models] /\ FipFits'
           /\ \A i \in Requests : requests'[i] # None => RequestFits(requests[i])'
<1> DEFINE new == [version |-> version, answers |-> answers, orphans |-> orphans]
           req == [kind |-> kind, loaded |-> fip, new |-> new]
<1>1. requests' = [requests EXCEPT ![r] = req] /\ UNCHANGED <<fip, content, drifted>>
  BY DEF Begin
<1>2. req.new.version = version /\ req.new.answers = answers
  OBVIOUS
<1>3. requests'[r] = req /\ \A i \in Requests \ {r} : requests'[i] = requests[i]
  BY <1>1 DEF FInv, MInv
<1> HIDE DEF req
<1>4. content' \in [Versions -> Models] /\ FipFits'
  BY <1>1 DEF FInv, FipFits
<1>5. ASSUME NEW i \in Requests, requests'[i] # None PROVE RequestFits(requests[i])'
  <2>1. CASE i = r
    BY <1>1, <1>2, <1>3, <2>1 DEF RequestFits
  <2>2. CASE i # r
    BY <1>1, <1>3, <1>5, <2>2 DEF RequestFits, FInv
  <2>3. QED
    BY <2>1, <2>2
<1>6. QED
  BY <1>4, <1>5

LEMMA CommitFits ==
    ASSUME FInv, NEW r \in Requests, Commit(r)
    PROVE  /\ content' \in [Versions -> Models] /\ FipFits'
           /\ \A i \in Requests : requests'[i] # None => RequestFits(requests[i])'
<1> DEFINE req == requests[r]
<1>1. /\ req # None /\ RequestFits(req)
      /\ requests' = [requests EXCEPT ![r] = None] /\ fip' = Written(req)
      /\ content' = content /\ drifted' = (drifted \/ fip # req.loaded)
  BY DEF Commit, FInv
<1>2. /\ fip'.version = Column(req.loaded.version, req.new.version, fip.version)
      /\ fip'.answers = Column(req.loaded.answers, req.new.answers, fip.answers)
  BY <1>1 DEF Written
<1>3. fip'.version \in Versions /\ Named(fip'.answers) \subseteq Questions
  <2>1. fip'.version \in {req.new.version, fip.version}
        /\ fip'.answers \in {req.new.answers, fip.answers}
    BY <1>2 DEF Column
  <2>2. Named(req.new.answers) \subseteq Questions
    BY <1>1 DEF RequestFits
  <2>3. QED
    BY <1>1, <2>1, <2>2 DEF RequestFits, FInv, FipFits
<1>4. fip = req.loaded => fip'.version = req.new.version /\ fip'.answers = req.new.answers
  BY <1>2 DEF Column
<1>5. drifted' \/ Named(fip'.answers) \subseteq DOMAIN content'[fip'.version]
  <2>1. CASE fip = req.loaded
    BY <1>1, <1>4, <2>1 DEF RequestFits
  <2>2. CASE fip # req.loaded
    BY <1>1, <2>2
  <2>3. QED
    BY <2>1, <2>2
<1>6. FipFits'
  BY <1>3, <1>5 DEF FipFits, Named
<1>7. ASSUME NEW i \in Requests, requests'[i] # None PROVE RequestFits(requests[i])'
  <2>1. requests'[i] = requests[i]
    BY <1>1, <1>7 DEF FInv, MInv
  <2>2. QED
    BY <1>1, <1>7, <2>1 DEF RequestFits, FInv
<1>8. QED
  BY <1>1, <1>6, <1>7 DEF FInv

LEMMA FInvStep ==
    ASSUME FInv, [MNext]_mvars
    PROVE  FInv'
<1>1. MInv'
  BY MInvStep DEF FInv
<1> DEFINE Rest == /\ content' \in [Versions -> Models] /\ FipFits'
                   /\ \A i \in Requests : requests'[i] # None => RequestFits(requests[i])'
<1>2. ASSUME NEW r \in Requests, NEW sent \in Lists \cup {None}, NEW normal,
             BeginPatch(r, sent, normal)
      PROVE  Rest
  <2> DEFINE answers == IF sent = None THEN fip.answers ELSE sent
  <2>1. Begin(r, "patch", fip.version, Normalised(answers, normal), fip.orphans)
    BY <1>2 DEF BeginPatch
  <2>2. /\ Named(answers) \subseteq Questions
        /\ drifted \/ Named(answers) \subseteq DOMAIN content[fip.version]
    <3>1. CASE sent = None
      BY <3>1 DEF FInv, FipFits
    <3>2. CASE sent # None
      BY <1>2, <3>2, ContentQuestions DEF BeginPatch, FInv, FipFits
    <3>3. QED
      BY <3>1, <3>2
  <2> HIDE DEF answers
  <2>3. Named(Normalised(answers, normal)) = Named(answers)
    BY NormalisedNames
  <2>4. fip.version \in Versions
    BY DEF FInv, FipFits
  <2>5. QED
    BY <2>1, <2>2, <2>3, <2>4, BeginFits
<1>3. ASSUME NEW r \in Requests, NEW to \in Versions, NEW d, BeginMigrate(r, to, d) PROVE Rest
  <2>1. PICK orphans : Begin(r, "migrate", to, NewAnswers(DiffTo(to), fip.answers, d), orphans)
    BY <1>3 DEF BeginMigrate
  <2>2. AllowedTargets(DiffTo(to), fip.answers, d)
    BY <1>3 DEF BeginMigrate, Accepted
  <2>3. Named(NewAnswers(DiffTo(to), fip.answers, d)) \subseteq DOMAIN content[to]
    BY <2>2, NewAnswersFit DEF DiffTo
  <2>4. Named(NewAnswers(DiffTo(to), fip.answers, d)) \subseteq Questions
    BY <2>3, ContentQuestions DEF FInv
  <2>5. QED
    BY <2>1, <2>3, <2>4, BeginFits
<1>4. ASSUME NEW r \in Requests, Commit(r) PROVE Rest
  BY <1>4, CommitFits
<1>5. ASSUME NEW r \in Requests, Abort(r) PROVE Rest
  <2>1. requests' = [requests EXCEPT ![r] = None] /\ UNCHANGED <<content, fip, drifted>>
    BY <1>5 DEF Abort
  <2>2. \A i \in Requests : requests'[i] # None => requests'[i] = requests[i]
    BY <2>1 DEF FInv, MInv
  <2>3. QED
    BY <2>1, <2>2 DEF FInv, FipFits, RequestFits
<1>6. ASSUME UNCHANGED mvars PROVE Rest
  BY <1>6 DEF mvars, FInv, FipFits, RequestFits
<1>7. Rest
  BY <1>2, <1>3, <1>4, <1>5, <1>6 DEF MNext
<1>8. QED
  BY <1>1, <1>7 DEF FInv

(* As long as no write overtook the one it was based on, a FIP only answers *)
(* questions of its version, for all contents and decisions.               *)
THEOREM MSpec_AnswersFitTheirVersion == MSpec => []AnswersFitTheirVersion
<1>1. FInv => AnswersFitTheirVersion
  BY DEF FInv, FipFits, AnswersFitTheirVersion
<1>2. QED
  BY <1>1, FInvInit, FInvStep, PTL DEF MSpec

-----------------------------------------------------------------------------
(* The counts of the preview *)

(* Sets of answers and items that match by question have the same size. *)
LEMMA MatchingSizes ==
    ASSUME NEW answers, NEW items, OneEach(answers), Named(answers) \subseteq Questions,
           \A i, j \in items : i.q = j.q => i = j,
           \A a \in answers : \E i \in items : i.q = a.q,
           \A i \in items : \E a \in answers : a.q = i.q
    PROVE  Cardinality(items) = Cardinality(answers)
<1> DEFINE name == [a \in answers |-> a.q]
           f == [a \in answers |-> CHOOSE i \in items : i.q = a.q]
<1>1. name \in [answers -> Questions] /\ \A a, b \in answers : name[a] = name[b] => a = b
  BY DEF OneEach, Named
<1>2. IsFiniteSet(answers)
  <2> HIDE DEF name
  <2>1. name \in Injection(answers, Questions)
    BY <1>1, Fun_IsInj
  <2>2. QED
    BY <2>1, FS_Injection, DiffAssumption
<1>3. \A a \in answers : f[a] \in items /\ f[a].q = a.q
  OBVIOUS
<1>4. f \in [answers -> items]
  BY <1>3
<1>5. \A a, b \in answers : f[a] = f[b] => a = b
  BY <1>3 DEF OneEach
<1>6. \A i \in items : \E a \in answers : f[a] = i
  BY <1>3
<1> HIDE DEF f
<1>7. f \in Injection(answers, items) /\ f \in Surjection(answers, items)
  BY <1>4, <1>5, <1>6, Fun_IsInj, Fun_IsSurj
<1>8. QED
  BY <1>2, <1>7, FS_Surjection

(* An item of a question both contents have, or of a split one, says whether *)
(* the question is answered.                                                 *)
LEMMA SaysAnswered ==
    ASSUME NEW old, NEW new, NEW answers, NEW q
    PROVE  /\ KeptItem(old, new, answers, q).answered = (q \in Answered(answers))
           /\ SplitItem(old, new, answers, q).answered = (q \in Answered(answers))
<1>1. KeptItem(old, new, answers, q).answered = (q \in Answered(answers))
  BY Zenon DEF KeptItem, Item
<1>2. SplitItem(old, new, answers, q).answered = (q \in Answered(answers))
  BY Zenon DEF SplitItem, Item
<1>3. QED
  BY <1>1, <1>2

(* What the defaults keep and orphan is what the preview counts. *)
LEMMA DefaultsCounted ==
    ASSUME NEW old, NEW new, NEW answers, Ordered(answers), Masked(answers) = {},
           Named(answers) \subseteq Questions
    PROVE  LET diff    == Diff(old, new, answers)
               orphans == NewOrphans(diff, answers, NoDecisions)
               kept    == {a \in Held(answers) : a.text # Blank /\ a \notin orphans
                                           /\ \E i \in diff : i.q = a.q /\ i.status # "added"}
           IN  /\ CountOrphaned(diff) = Cardinality(orphans)
               /\ CountKept(diff) = Cardinality(kept)
<1> DEFINE diff == Diff(old, new, answers)
           orphans == NewOrphans(diff, answers, NoDecisions)
           kept == {a \in Held(answers) : a.text # Blank /\ a \notin orphans
                                    /\ \E i \in diff : i.q = a.q /\ i.status # "added"}
           removed == {i \in diff : i.status = "removed"}
           staying == {i \in diff : i.answered /\ i.status \in {"unchanged", "hidden", "split"}}
<1>0. OneEach(Held(answers)) /\ Held(answers) \subseteq answers
  BY HeldOneEach
<1>1. \A i, j \in diff : i.q = j.q => i = j
  BY OneItem
<1>2. \A i \in diff : /\ i.status \in {"unchanged", "hidden", "added", "split", "removed"}
                      /\ i.status \in {"unchanged", "hidden", "split"} =>
                             (i.answered <=> i.q \in Answered(answers))
                      /\ i.status = "removed" => i.q \in Answered(answers)
                      /\ i.status = "split" => Targets(i, NoDecisions) # {}
  <2> SUFFICES ASSUME NEW i \in diff
               PROVE  /\ i.status \in {"unchanged", "hidden", "added", "split", "removed"}
                      /\ i.status \in {"unchanged", "hidden", "split"} =>
                             (i.answered <=> i.q \in Answered(answers))
                      /\ i.status = "removed" => i.q \in Answered(answers)
                      /\ i.status = "split" => Targets(i, NoDecisions) # {}
    OBVIOUS
  <2>1. IsItem(old, new, answers, i.q, i)
    BY ItemOf
  <2>2. CASE i = KeptItem(old, new, answers, i.q)
    <3>1. i.status \in {"unchanged", "hidden"}
      BY <2>2 DEF KeptItem, Item
    <3>2. i.answered = (i.q \in Answered(answers))
      <4>1. PICK q : q = i.q
        OBVIOUS
      <4>2. i = KeptItem(old, new, answers, q)
        BY <2>2, <4>1
      <4>3. i.answered = (q \in Answered(answers))
        BY <4>2, SaysAnswered, Zenon
      <4>4. QED
        BY <4>1, <4>3, Zenon
    <3>3. QED
      BY <3>1, <3>2
  <2>3. CASE i = Item("added", i.q, FALSE, {}, None)
    <3>1. i.status = "added"
      BY <2>3 DEF Item
    <3>2. QED
      BY <3>1
  <2>4. CASE IsSplit(old, new, i.q) /\ i = SplitItem(old, new, answers, i.q)
    <3>1. i.status = "split" /\ i.options = Halves[i.q]
      BY <2>4 DEF SplitItem, Item
    <3>2. i.answered = (i.q \in Answered(answers))
      <4>1. PICK q : q = i.q
        OBVIOUS
      <4>2. i = SplitItem(old, new, answers, q)
        BY <2>4, <4>1
      <4>3. i.answered = (q \in Answered(answers))
        BY <4>2, SaysAnswered, Zenon
      <4>4. QED
        BY <4>1, <4>3, Zenon
    <3>3. Targets(i, NoDecisions) = i.options
      BY <3>1 DEF Targets, NoDecisions
    <3>4. QED
      BY <2>4, <3>1, <3>2, <3>3 DEF IsSplit
  <2>5. CASE i.q \in Answered(answers) /\ i = RemovedItem(old, new, answers, i.q)
    <3>1. i.status = "removed"
      BY <2>5 DEF RemovedItem, Item
    <3>2. QED
      BY <2>5, <3>1
  <2>6. QED
    BY <2>1, <2>2, <2>3, <2>4, <2>5 DEF IsItem
<1>3. \A a \in Held(answers) : a \in orphans <=> \E i \in removed : i.q = a.q
  BY <1>2 DEF NewOrphans
<1>4. \A q \in Answered(answers) : \E a \in Held(answers) : a.q = q /\ a.text # Blank
  BY DEF Answered, Masked
<1>5. Cardinality(removed) = Cardinality(orphans)
  <2>1. orphans \subseteq Held(answers)
    BY DEF NewOrphans
  <2>2. OneEach(orphans) /\ Named(orphans) \subseteq Questions
    BY <1>0, <2>1 DEF OneEach, Named
  <2>3. \A i \in removed : \E a \in orphans : a.q = i.q
    BY <1>2, <1>3, <1>4
  <2>4. \A a \in orphans : \E i \in removed : i.q = a.q
    BY <1>3, <2>1
  <2>5. \A i, j \in removed : i.q = j.q => i = j
    BY <1>1
  <2> HIDE DEF removed, orphans
  <2>6. QED
    BY <2>2, <2>3, <2>4, <2>5, MatchingSizes
<1>6. Cardinality(staying) = Cardinality(kept)
  <2>1. OneEach(kept) /\ Named(kept) \subseteq Questions
    BY <1>0 DEF OneEach, Named
  <2>2. \A a \in kept : \E i \in staying : i.q = a.q
    <3>1. SUFFICES ASSUME NEW a \in kept PROVE \E i \in staying : i.q = a.q
      OBVIOUS
    <3>2. PICK i \in diff : i.q = a.q /\ i.status # "added"
      OBVIOUS
    <3>3. i.status # "removed" /\ i.q \in Answered(answers)
      BY <1>0, <1>3, <3>2 DEF Answered
    <3>4. QED
      BY <1>2, <3>2, <3>3
  <2>3. \A i \in staying : \E a \in kept : a.q = i.q
    <3>1. SUFFICES ASSUME NEW i \in staying PROVE \E a \in kept : a.q = i.q
      OBVIOUS
    <3>2. i \in diff /\ i.status # "removed" /\ i.status # "added" /\ i.q \in Answered(answers)
      BY <1>2
    <3>3. PICK a \in Held(answers) : a.q = i.q /\ a.text # Blank
      BY <1>4, <3>2
    <3>4. a \notin orphans
      BY <1>1, <1>3, <3>2, <3>3
    <3>5. QED
      BY <3>2, <3>3, <3>4
  <2>4. \A i, j \in staying : i.q = j.q => i = j
    BY <1>1
  <2> HIDE DEF staying, kept
  <2>5. QED
    BY <2>1, <2>2, <2>3, <2>4, MatchingSizes
<1>7. CountOrphaned(diff) = Cardinality(orphans) /\ CountKept(diff) = Cardinality(kept)
  BY <1>5, <1>6 DEF CountOrphaned, CountKept
<1>8. QED
  BY <1>7

(* The numbers of the preview are those of the migration, for all versions  *)
(* of a model and all lists in which no blank entry hides an answer.       *)
THEOREM MSpec_PreviewIsRight == MSpec => []PreviewIsRight
<1>1. ASSUME FInv PROVE PreviewIsRight
  <2>1. Ordered(fip.answers) /\ Named(fip.answers) \subseteq Questions
    BY <1>1 DEF FInv, MInv, FipFits
  <2>2. QED
    BY <2>1, DefaultsCounted DEF PreviewIsRight, DiffTo
<1>2. QED
  BY <1>1, FInvInit, FInvStep, PTL DEF MSpec

=============================================================================
