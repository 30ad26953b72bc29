-------------------------- MODULE KmCatalogue_proofs --------------------------
(***************************************************************************)
(* Proofs about the catalogue of FERs and the knowledge models that refer  *)
(* to it, for every set of users, models, FERs and documents and every     *)
(* number of requests under way: what a model suggests is there, what is   *)
(* published stays as it was, and a draft can be saved again.              *)
(***************************************************************************)
EXTENDS KmCatalogue, WellFoundedInduction, TLAPS

-----------------------------------------------------------------------------
(* What _repoint_suggested_fer_ids does to a list, a question, a document  *)

(* Induction over the naturals, of sets instead of predicates. *)
LEMMA SetInduction ==
    ASSUME NEW T, 0 \in T, \A n \in Nat : n \in T => n + 1 \in T
    PROVE  Nat \subseteq T
<1> DEFINE Less == {p \in Nat \X Nat : p[1] < p[2]}
<1>1. IsWellFoundedOn(Less, Nat)
  BY NatLessThanWellFounded DEF OpToRel
<1>2. SUFFICES ASSUME Nat \ T # {} PROVE FALSE
  OBVIOUS
<1>3. PICK x \in Nat \ T : \A y \in Nat \ T : ~(<<y, x>> \in Less)
  <2> HIDE DEF Less
  <2>1. Nat \ T \subseteq Nat
    OBVIOUS
  <2>2. QED
    BY <1>1, <1>2, <2>1, WFMin
<1>4. x - 1 \in Nat /\ x - 1 < x
  BY <1>3
<1>5. x - 1 \in T
  BY <1>3, <1>4
<1>6. QED
  BY <1>3, <1>4, <1>5

Renamed(list, from, to, n) == IF list[n] = from THEN to ELSE list[n]

(* One step of the loop of _repoint_suggested_fer_ids, from the list g[n - 1] *)
KeptStep(list, from, to, g, n) ==
    IF n = 0 THEN <<>>
    ELSE IF Renamed(list, from, to, n) \in ToSet(g[n - 1]) THEN g[n - 1]
    ELSE Append(g[n - 1], Renamed(list, from, to, n))

Kept(list, from, to, m) ==
    CHOOSE g : g = [n \in 0..m |-> KeptStep(list, from, to, g, n)]

LEMMA KeptDefined ==
    ASSUME NEW list, NEW from, NEW to, NEW m \in Nat, NEW kept, kept = Kept(list, from, to, m)
    PROVE  kept = [n \in 0..m |-> KeptStep(list, from, to, kept, n)]
<1> DEFINE T == {l \in Nat : \E g : g = [n \in 0..l |-> KeptStep(list, from, to, g, n)]}
<1>1. 0 \in T
  <2>1. [n \in 0..0 |-> <<>>] = [n \in 0..0 |-> KeptStep(list, from, to, [x \in 0..0 |-> <<>>], n)]
    BY DEF KeptStep
  <2>2. QED
    BY <2>1
<1>2. ASSUME NEW l \in Nat, l \in T PROVE l + 1 \in T
  <2>1. PICK g : g = [n \in 0..l |-> KeptStep(list, from, to, g, n)]
    BY <1>2
  <2> DEFINE h == [n \in 0..(l + 1) |-> IF n = l + 1 THEN KeptStep(list, from, to, g, n) ELSE g[n]]
  <2>2. ASSUME NEW n \in 0..(l + 1)
        PROVE  h[n] = KeptStep(list, from, to, h, n)
    <3>1. CASE n = 0
      <4>1. 0 # l + 1 /\ 0 \in 0..l
        OBVIOUS
      <4>2. h[0] = KeptStep(list, from, to, g, 0)
        BY <4>1, <2>1
      <4>3. QED
        BY <3>1, <4>2 DEF KeptStep
    <3>2. CASE n # 0
      <4>1. n - 1 \in 0..(l + 1) /\ n - 1 # l + 1
        BY <3>2
      <4>2. h[n - 1] = g[n - 1]
        BY <4>1
      <4>3. h[n] = KeptStep(list, from, to, g, n)
        BY <2>1
      <4> HIDE DEF h
      <4>4. QED
        BY <4>2, <4>3 DEF KeptStep
    <3>3. QED
      BY <3>1, <3>2
  <2>3. h = [n \in 0..(l + 1) |-> h[n]]
    OBVIOUS
  <2> HIDE DEF h
  <2>4. h = [n \in 0..(l + 1) |-> KeptStep(list, from, to, h, n)]
    BY <2>2, <2>3
  <2>5. QED
    BY <2>4
<1>3. m \in T
  <2> HIDE DEF T
  <2>1. QED
    BY <1>1, <1>2, SetInduction
<1>4. \E g : g = [n \in 0..m |-> KeptStep(list, from, to, g, n)]
  BY <1>3
<1>5. QED
  BY <1>4, Zenon DEF Kept

(* The id that is merged away is gone from the list, and only the target   *)
(* is new in it.                                                           *)
LEMMA RepointedList ==
    ASSUME NEW S, NEW list \in Seq(S), NEW from, NEW to \in S, from # to
    PROVE  /\ RepointList(list, from, to) \in Seq(S)
           /\ ToSet(RepointList(list, from, to)) \subseteq (ToSet(list) \ {from}) \cup {to}
<1>1. CASE from \notin ToSet(list)
  <2>1. RepointList(list, from, to) = list
    BY <1>1 DEF RepointList
  <2>2. QED
    BY <1>1, <2>1
<1>2. CASE from \in ToSet(list)
  <2> DEFINE m == Len(list)
             kept == Kept(list, from, to, m)
  <2>1. m \in Nat
    OBVIOUS
  <2>2. RepointList(list, from, to) = kept[m]
    BY <1>2 DEF RepointList, Kept, KeptStep, Renamed
  <2>3. kept = [n \in 0..m |-> KeptStep(list, from, to, kept, n)]
    BY <2>1, KeptDefined
  <2> DEFINE P == (ToSet(list) \ {from}) \cup {to}
  <2> DEFINE T == {n \in Nat : n \in 0..m => kept[n] \in Seq(S) /\ ToSet(kept[n]) \subseteq P}
  <2> HIDE DEF kept
  <2>4. 0 \in T
    <3>1. kept[0] = <<>>
      BY <2>1, <2>3 DEF KeptStep
    <3>2. <<>> \in Seq(S) /\ ToSet(<<>>) = {}
      BY DEF ToSet
    <3> HIDE DEF P, m
    <3>3. QED
      BY <3>1, <3>2
  <2>5. ASSUME NEW n \in Nat, n \in T PROVE n + 1 \in T
    <3> SUFFICES ASSUME n + 1 \in 0..m PROVE kept[n + 1] \in Seq(S) /\ ToSet(kept[n + 1]) \subseteq P
      OBVIOUS
    <3> DEFINE x == Renamed(list, from, to, n + 1)
    <3>1. n \in 0..m /\ n + 1 \in 1..m /\ n + 1 # 0 /\ (n + 1) - 1 = n
      BY <2>1
    <3>2. kept[n] \in Seq(S) /\ ToSet(kept[n]) \subseteq P
      BY <2>5, <3>1
    <3>3. x \in S /\ x \in P
      BY <3>1 DEF Renamed, ToSet
    <3>4. kept[n + 1] = kept[n] \/ kept[n + 1] = Append(kept[n], x)
      BY <2>3, <3>1 DEF KeptStep
    <3> HIDE DEF x, P
    <3>5. ASSUME kept[n + 1] = Append(kept[n], x)
          PROVE  kept[n + 1] \in Seq(S) /\ ToSet(kept[n + 1]) \subseteq P
      <4>1. kept[n + 1] \in Seq(S)
        BY <3>2, <3>3, <3>5
      <4>2. ASSUME NEW i \in DOMAIN Append(kept[n], x) PROVE Append(kept[n], x)[i] \in P
        BY <3>2, <3>3, <4>2 DEF ToSet
      <4>3. QED
        BY <3>5, <4>1, <4>2 DEF ToSet
    <3>6. QED
      BY <3>2, <3>4, <3>5
  <2>6. m \in T
    <3> HIDE DEF T, m
    <3>1. QED
      BY <2>1, <2>4, <2>5, SetInduction
  <2>7. QED
    BY <2>1, <2>2, <2>6
<1>3. QED
  BY <1>1, <1>2

LEMMA SuggestedFer ==
    ASSUME NEW doc, NEW fer
    PROVE  fer \in SuggestedIn(doc) <=>
               \E i \in DOMAIN doc.sections : \E j \in DOMAIN doc.sections[i].questions :
                   fer \in ToSet(doc.sections[i].questions[j].suggested)
<1>1. ASSUME NEW i \in DOMAIN doc.sections, NEW j \in DOMAIN doc.sections[i].questions
      PROVE  <<i, j>> \in Places(doc)
  BY DEF Places
<1>2. ASSUME NEW p \in Places(doc)
      PROVE  p[1] \in DOMAIN doc.sections /\ p[2] \in DOMAIN doc.sections[p[1]].questions
  BY DEF Places
<1>3. ASSUME fer \in SuggestedIn(doc)
      PROVE  \E i \in DOMAIN doc.sections : \E j \in DOMAIN doc.sections[i].questions :
                 fer \in ToSet(doc.sections[i].questions[j].suggested)
  <2>1. PICK p \in Places(doc) : fer \in ToSet(QuestionAt(doc, p).suggested)
    BY <1>3 DEF SuggestedIn
  <2>2. QED
    BY <1>2, <2>1 DEF QuestionAt
<1>4. ASSUME NEW i \in DOMAIN doc.sections, NEW j \in DOMAIN doc.sections[i].questions,
             fer \in ToSet(doc.sections[i].questions[j].suggested)
      PROVE  fer \in SuggestedIn(doc)
  <2>1. QuestionAt(doc, <<i, j>>) = doc.sections[i].questions[j]
    BY DEF QuestionAt
  <2>2. fer \in ToSet(QuestionAt(doc, <<i, j>>).suggested)
    BY <1>4, <2>1
  <2>3. QED
    BY <1>1, <2>2 DEF SuggestedIn
<1>5. QED
  BY <1>3, <1>4

LEMMA MappedSequence ==
    ASSUME NEW S, NEW T, NEW seq \in Seq(S), NEW map,
           map = [i \in DOMAIN seq |-> map[i]], \A i \in DOMAIN seq : map[i] \in T
    PROVE  map \in Seq(T)
  OBVIOUS

LEMMA RepointedDocument ==
    ASSUME NEW doc \in Content, NEW from, NEW to \in Fers, from # to
    PROVE  /\ Repoint(doc, from, to) \in Content
           /\ InlineIds(Repoint(doc, from, to)) = InlineIds(doc)
           /\ SuggestedIn(Repoint(doc, from, to)) \subseteq (SuggestedIn(doc) \ {from}) \cup {to}
<1> DEFINE S == Fers \cup {None}
           new == Repoint(doc, from, to)
<1>1. ASSUME NEW q \in Question
      PROVE  /\ RepointQuestion(q, from, to) \in Question
             /\ RepointQuestion(q, from, to).suggested = RepointList(q.suggested, from, to)
             /\ ToSet(RepointList(q.suggested, from, to)) \subseteq (ToSet(q.suggested) \ {from}) \cup {to}
  <2>1. q.suggested \in Seq(S) /\ to \in S
    BY DEF Question
  <2>2. /\ RepointList(q.suggested, from, to) \in Seq(S)
        /\ ToSet(RepointList(q.suggested, from, to)) \subseteq (ToSet(q.suggested) \ {from}) \cup {to}
    BY <2>1, RepointedList
  <2>3. QED
    BY <2>2 DEF RepointQuestion, Question
<1>2. ASSUME NEW section \in Section
      PROVE  /\ RepointSection(section, from, to) \in Section
             /\ RepointSection(section, from, to).questions =
                    [j \in DOMAIN section.questions |-> RepointQuestion(section.questions[j], from, to)]
  <2> DEFINE qs == [j \in DOMAIN section.questions |-> RepointQuestion(section.questions[j], from, to)]
  <2>1. section.questions \in Seq(Question)
    BY DEF Section
  <2>2. qs \in Seq(Question)
    BY <1>1, <2>1
  <2>3. QED
    BY <2>2 DEF RepointSection, Section
<1> DEFINE sections == [i \in DOMAIN doc.sections |-> RepointSection(doc.sections[i], from, to)]
<1>3. doc.sections \in Seq(Section)
  BY DEF Content
<1>4. sections \in Seq(Section)
  <2>1. \A i \in DOMAIN doc.sections : sections[i] \in Section
    <3>1. ASSUME NEW i \in DOMAIN doc.sections PROVE sections[i] \in Section
      <4>1. doc.sections[i] \in Section
        BY <1>3
      <4>2. RepointSection(doc.sections[i], from, to) \in Section
        BY <1>2, <4>1
      <4>3. QED
        BY <4>2
    <3>2. QED
      BY <3>1
  <2>2. sections = [i \in DOMAIN doc.sections |-> sections[i]]
    OBVIOUS
  <2> HIDE DEF sections
  <2>3. QED
    BY <1>3, <2>1, <2>2, MappedSequence
<1>5. new \in Content /\ new.sections = sections /\ new.inline = doc.inline
  BY <1>4 DEF Repoint, Content
<1>6. InlineIds(new) = InlineIds(doc)
  BY <1>5 DEF InlineIds
<1>7. ASSUME NEW fer \in SuggestedIn(new) PROVE fer \in (SuggestedIn(doc) \ {from}) \cup {to}
  <2>1. PICK i \in DOMAIN new.sections : \E j \in DOMAIN new.sections[i].questions :
                   fer \in ToSet(new.sections[i].questions[j].suggested)
    BY SuggestedFer
  <2>2. PICK j \in DOMAIN new.sections[i].questions :
                   fer \in ToSet(new.sections[i].questions[j].suggested)
    BY <2>1
  <2>3. i \in DOMAIN doc.sections /\ doc.sections[i] \in Section
    BY <1>3, <1>5, <2>1
  <2>4. new.sections[i] = RepointSection(doc.sections[i], from, to)
    BY <1>5, <2>3
  <2> DEFINE questions == doc.sections[i].questions
  <2>4a. new.sections[i].questions = [x \in DOMAIN questions |-> RepointQuestion(questions[x], from, to)]
    BY <1>2, <2>3, <2>4, Zenon
  <2>5. /\ j \in DOMAIN doc.sections[i].questions
        /\ new.sections[i].questions[j] = RepointQuestion(doc.sections[i].questions[j], from, to)
    <3> HIDE DEF new
    <3>1. j \in DOMAIN questions
      BY <2>2, <2>4a, Zenon
    <3>2. QED
      BY <2>4a, <3>1, Zenon
  <2>6. doc.sections[i].questions[j] \in Question
    BY <2>3, <2>5 DEF Section
  <2>7. fer \in (ToSet(doc.sections[i].questions[j].suggested) \ {from}) \cup {to}
    BY <1>1, <2>2, <2>5, <2>6
  <2>8. QED
    BY <2>3, <2>5, <2>7, SuggestedFer
<1>8. QED
  BY <1>5, <1>6, <1>7

(* The description and what a model stages are apart from what it suggests. *)
LEMMA EditionOnly ==
    ASSUME NEW doc \in Content, NEW edition \in Nat, NEW new, new = [doc EXCEPT !.edition = edition]
    PROVE  /\ new \in Content
           /\ InlineIds(new) = InlineIds(doc) /\ SuggestedIn(new) = SuggestedIn(doc)
<1>1. new \in Content /\ new.sections = doc.sections /\ new.inline = doc.inline
  BY DEF Content
<1>2. QED
  BY <1>1 DEF InlineIds, SuggestedIn, Places, QuestionAt

LEMMA Unstaged ==
    ASSUME NEW doc \in Content, NEW new, new = [doc EXCEPT !.inline = <<>>]
    PROVE  /\ new \in Content
           /\ InlineIds(new) = {} /\ SuggestedIn(new) = SuggestedIn(doc)
<1>1. new \in Content /\ new.sections = doc.sections /\ new.inline = <<>>
  <2>1. <<>> \in Seq([id : Fers \cup {None}, label : LangMaps])
    OBVIOUS
  <2>2. QED
    BY <2>1 DEF Content
<1>2. QED
  BY <1>1 DEF InlineIds, SuggestedIn, Places, QuestionAt

LEMMA IdsAreFers ==
    ASSUME NEW doc \in Content
    PROVE  InlineIds(doc) \subseteq Fers /\ SuggestedIn(doc) \subseteq Fers \cup {None}
<1>1. InlineIds(doc) \subseteq Fers
  <2> DEFINE Entry == [id : Fers \cup {None}, label : LangMaps]
  <2>1. doc.inline \in Seq(Entry)
    BY DEF Content
  <2>2. ASSUME NEW i \in DOMAIN doc.inline PROVE doc.inline[i].id \in Fers \cup {None}
    <3>1. doc.inline[i] \in Entry
      <4> HIDE DEF Entry
      <4>1. QED
        BY <2>1
    <3>2. QED
      BY <3>1
  <2>3. QED
    BY <2>2 DEF InlineIds
<1>2. ASSUME NEW fer \in SuggestedIn(doc) PROVE fer \in Fers \cup {None}
  <2>1. PICK i \in DOMAIN doc.sections : \E j \in DOMAIN doc.sections[i].questions :
                   fer \in ToSet(doc.sections[i].questions[j].suggested)
    BY SuggestedFer
  <2>2. PICK j \in DOMAIN doc.sections[i].questions :
                   fer \in ToSet(doc.sections[i].questions[j].suggested)
    BY <2>1
  <2>3. doc.sections[i] \in Section
    BY DEF Content
  <2>4. doc.sections[i].questions[j] \in Question
    BY <2>3 DEF Section
  <2>5. doc.sections[i].questions[j].suggested \in Seq(Fers \cup {None})
    BY <2>4 DEF Question
  <2>6. QED
    BY <2>2, <2>5 DEF ToSet
<1>3. QED
  BY <1>1, <1>2

(* A document without an error refers to what it stages or what is known,  *)
(* and stages nothing that is in the catalogue on its own account.         *)
LEMMA ContentOKRefers ==
    ASSUME NEW doc, NEW catalogue, NEW publishing, ContentOK(doc, catalogue, publishing)
    PROVE  /\ SuggestedIn(doc) \subseteq InlineIds(doc) \cup catalogue.known
           /\ \A fer \in InlineIds(doc) : ~Collides(fer, catalogue)
<1>1. ASSUME NEW p \in Places(doc)
      PROVE  ToSet(QuestionAt(doc, p).suggested) \subseteq InlineIds(doc) \cup catalogue.known
  BY DEF ContentOK, QuestionOK, SuggestionsOK, Resolvable
<1>2. InlineOK(doc, catalogue)
  BY DEF ContentOK
<1>3. QED
  BY <1>1, <1>2 DEF InlineOK, InlineIds, SuggestedIn

-----------------------------------------------------------------------------
(* The inductive invariant *)

Sources == {"seed", "user-promoted", "model", "user", "network"}

(* The sources that a suggestion may have whoever owns the draft *)
Offered == Sources \ {"user"}

Row ==
    [owner : Users \cup {None}, visibility : {"private", "public"},
     status : {"draft", "published"}, system : BOOLEAN, content : Content, sha : Content]

(* What a document suggests is in a catalogue, staged, or accounted for. *)
Existing(table, gone, doc) ==
    SuggestedIn(doc) \subseteq DOMAIN table \cup InlineIds(doc) \cup gone

(* A FER that would collide for some admin *)
Hot(table, fer) ==
    /\ fer \in DOMAIN table /\ table[fer].source # "model"
    /\ table[fer].source \in {"seed", "user-promoted"} \/ table[fer].owner \in Admins

Cool(table, marked, doc) == \A fer \in InlineIds(doc) : Hot(table, fer) => fer \in marked

Usable(table, owner, fer) ==
    /\ fer \in DOMAIN table
    /\ table[fer].source \in Offered \/ table[fer].owner \in {owner, None}

(* A document its owner can save again, but for what is accounted for *)
Fits(table, gone, marked, owner, doc) ==
    /\ \A fer \in SuggestedIn(doc) : fer \in InlineIds(doc) \cup gone \/ Usable(table, owner, fer)
    /\ owner # None =>
           \A fer \in InlineIds(doc) \cap DOMAIN table :
               table[fer].source # "model" /\ table[fer].owner = owner => fer \in marked

(* A stored model: an admin may take it over if nobody owns it, so that    *)
(* what it stages must be Cool, not only fit its owner.                    *)
RowOK(k, row) ==
    /\ row \in Row
    /\ Existing(fers, excused, row.content) /\ Cool(fers, clashing, row.content)
    /\ k \notin late =>
           /\ Fits(fers, excused \cup clashing, clashing, row.owner, row.content)
           /\ row.status = "published" => k \in DOMAIN frozen /\ row.content = frozen[k]

Whole(q) ==
    q = [call |-> q.call, user |-> q.user, row |-> q.row, base |-> q.base, new |-> q.new,
         todo |-> q.todo, target |-> q.target, inherits |-> q.inherits]

(* What the kinds of requests have loaded and will write *)
Shape(q) ==
    /\ Whole(q)
    /\ q.call \in {"editing", "put", "insert", "patch", "publish", "merge"}
    /\ q.user \in Users /\ q.inherits \in BOOLEAN
    /\ q.call # "publish" => q.todo = {}
    /\ q.call \in {"put", "publish"} =>
           /\ q.base \in Row /\ q.new \in Content
           /\ q.base.status = "draft"
    /\ q.call = "insert" => q.new \in Row /\ q.new.status = "draft"
    /\ q.call = "patch" =>
           /\ q.base \in Row /\ q.new \in [visibility : {"private", "public"}, content : Content]
           /\ SuggestedIn(q.new.content) = SuggestedIn(q.base.content)
           /\ InlineIds(q.new.content) = InlineIds(q.base.content)
           /\ q.new.content # q.base.content => q.base.status = "draft"
           /\ q.base.owner = None /\ ~q.base.system => q.user \in Admins
    /\ q.call = "merge" =>
           /\ q.row \notin Seeds /\ q.target \in Fers /\ q.row # q.target
           /\ DOMAIN q.base = DOMAIN q.new
           /\ \A k \in DOMAIN q.new : /\ q.base[k] \in Row
                                      /\ q.new[k] = Repoint(q.base[k].content, q.row, q.target)

(* The owner of the model that a request writes, as the request knows him *)
Holder(q) == IF q.call = "insert" THEN q.new.owner ELSE q.base.owner

(* What a request will write stays right while it waits. *)
Sound(q) ==
    /\ \A doc \in Written(q) :
           /\ doc \in Content
           /\ Existing(fers, excused \cup q.todo, doc) /\ Cool(fers, clashing, doc)
    /\ q.call \in {"put", "publish"} \/ (q.call = "insert" /\ ~q.inherits) =>
           \A doc \in Written(q) :
               Fits(fers, excused \cup clashing \cup q.todo, clashing, Holder(q), doc)
    /\ q.call = "merge" /\ q.target \in Mentions(q) =>
           \/ q.target \in excused \cup clashing
           \/ q.target \in DOMAIN fers /\ fers[q.target].source \in {"seed", "user-promoted"}

(* A model that a merge under way will leave as it is does not need the    *)
(* FER that goes.                                                          *)
Spared(q, k, row) ==
    q.call = "merge" /\ k \notin DOMAIN q.new /\ q.row \in SuggestedIn(row.content) =>
        q.row \in InlineIds(row.content) \cup excused

CatalogueOK ==
    /\ DOMAIN fers \subseteq Fers
    /\ \A fer \in DOMAIN fers : fers[fer] \in [source : Sources, owner : Users \cup {None}]
    /\ \A fer \in Seeds : fer \in DOMAIN fers /\ fers[fer].source = "seed"
    /\ accounts \subseteq Users
    /\ DOMAIN requests = Requests /\ requests = [r \in Requests |-> requests[r]]

RowsOK == \A k : \A row : k \in DOMAIN kms /\ row = kms[k] => RowOK(k, row)

RequestsOK ==
    \A r \in Requests : \A q : q = requests[r] /\ q # None => Shape(q) /\ Sound(q)

MergesOK ==
    \A r \in Requests : \A q : \A k : \A row :
        q = requests[r] /\ q # None /\ k \in DOMAIN kms /\ row = kms[k] => Spared(q, k, row)

KInv == CatalogueOK /\ RowsOK /\ RequestsOK /\ MergesOK

-----------------------------------------------------------------------------
(* What a step does to the catalogue, as one document sees it *)

SameFer(table, next, fer) ==
    next[fer].source = table[fer].source /\ next[fer].owner \in {table[fer].owner, None}

(* The catalogue goes from table to next, and the FERs accounted for from  *)
(* gone and marked to gone2 and marked2, without harm to the document.     *)
Harmless(table, next, gone, gone2, marked, marked2, doc) ==
    /\ gone \subseteq gone2 /\ marked \subseteq marked2
    /\ \A fer \in SuggestedIn(doc) \cap DOMAIN table : fer \in DOMAIN next \cup gone2 \cup InlineIds(doc)
    /\ \A fer \in DOMAIN table \cap DOMAIN next :
           next[fer].source \in Offered \/ SameFer(table, next, fer)
    /\ \A fer \in InlineIds(doc) \cap DOMAIN next :
           \/ fer \in marked2 \/ next[fer].source = "model"
           \/ fer \in DOMAIN table /\ SameFer(table, next, fer)

LEMMA Carried ==
    ASSUME NEW table, NEW next, NEW gone, NEW gone2, NEW marked, NEW marked2, NEW doc, NEW more,
           Harmless(table, next, gone, gone2, marked, marked2, doc)
    PROVE  /\ Existing(table, gone \cup more, doc) => Existing(next, gone2 \cup more, doc)
           /\ Cool(table, marked, doc) => Cool(next, marked2, doc)
           /\ \A owner : Fits(table, gone \cup marked \cup more, marked, owner, doc) =>
                         Fits(next, gone2 \cup marked2 \cup more, marked2, owner, doc)
<1> USE DEF Harmless
<1>1. Existing(table, gone \cup more, doc) => Existing(next, gone2 \cup more, doc)
  BY DEF Existing
<1>2. ASSUME Cool(table, marked, doc), NEW fer \in InlineIds(doc), Hot(next, fer)
      PROVE  fer \in marked2
  <2>1. None \notin Admins
    BY CatalogueAssumption
  <2>2. CASE fer \in DOMAIN table /\ SameFer(table, next, fer)
    <3>1. Hot(table, fer)
      BY <1>2, <2>1, <2>2 DEF Hot, SameFer
    <3>2. QED
      BY <1>2, <3>1 DEF Cool
  <2>3. QED
    BY <1>2, <2>2 DEF Hot
<1>3. ASSUME NEW owner, Fits(table, gone \cup marked \cup more, marked, owner, doc)
      PROVE  Fits(next, gone2 \cup marked2 \cup more, marked2, owner, doc)
  <2>1. ASSUME NEW fer \in SuggestedIn(doc)
        PROVE  fer \in InlineIds(doc) \cup (gone2 \cup marked2 \cup more) \/ Usable(next, owner, fer)
    <3>1. CASE Usable(table, owner, fer) /\ fer \in DOMAIN next
      <4>1. next[fer].source \in Offered \/ SameFer(table, next, fer)
        BY <3>1 DEF Usable
      <4>2. QED
        BY <3>1, <4>1 DEF Usable, SameFer
    <3>2. CASE Usable(table, owner, fer) /\ fer \notin DOMAIN next
      BY <2>1, <3>2 DEF Usable
    <3>3. CASE ~Usable(table, owner, fer)
      BY <1>3, <2>1, <3>3 DEF Fits
    <3>4. QED
      BY <3>1, <3>2, <3>3
  <2>2. ASSUME owner # None, NEW fer \in InlineIds(doc) \cap DOMAIN next,
               next[fer].source # "model" /\ next[fer].owner = owner
        PROVE  fer \in marked2
    <3>1. CASE fer \in DOMAIN table /\ SameFer(table, next, fer)
      BY <1>3, <2>2, <3>1 DEF Fits, SameFer
    <3>2. QED
      BY <2>2, <3>1
  <2>3. QED
    BY <2>1, <2>2 DEF Fits
<1>4. QED
  BY <1>1, <1>2, <1>3 DEF Cool

(* The step does no harm to a document. *)
Spares(doc) == Harmless(fers, fers', excused, excused', clashing, clashing', doc)

LEMMA QuietSpares ==
    ASSUME UNCHANGED fers, excused \subseteq excused', clashing \subseteq clashing'
    PROVE  \A doc : Spares(doc)
  BY DEF Spares, Harmless, SameFer

LEMMA RowStays ==
    ASSUME NEW k, NEW row, RowOK(k, row), Spares(row.content),
           k \in late => k \in late',
           k \notin late' /\ row.status = "published" /\ k \in DOMAIN frozen
               => k \in DOMAIN frozen' /\ frozen'[k] = frozen[k]
    PROVE  RowOK(k, row)'
<1>1. Existing(fers, excused \cup {}, row.content) /\ Cool(fers, clashing, row.content)
  BY DEF RowOK
<1>2. Existing(fers', excused' \cup {}, row.content) /\ Cool(fers', clashing', row.content)
  BY <1>1, Carried DEF Spares
<1>3. ASSUME k \notin late'
      PROVE  Fits(fers', excused' \cup clashing' \cup {}, clashing', row.owner, row.content)
  <2>1. Fits(fers, excused \cup clashing \cup {}, clashing, row.owner, row.content)
    BY <1>3 DEF RowOK
  <2>2. QED
    BY <2>1, Carried DEF Spares
<1>4. QED
  BY <1>2, <1>3 DEF RowOK

(* An admin takes over what nobody owns. *)
LEMMA RowTaken ==
    ASSUME NEW k, NEW row, NEW u, RowOK(k, row), u \in Users,
           row.owner = u \/ (row.owner = None /\ u \in Admins),
           NEW new, new = [row EXCEPT !.owner = u]
    PROVE  RowOK(k, new)
<1>1. /\ new \in Row /\ new.owner = u
      /\ new.content = row.content /\ new.status = row.status
  BY DEF RowOK, Row
<1>2. CASE row.owner = u
  <2>1. new = row
    BY <1>2 DEF RowOK, Row
  <2>2. QED
    BY <2>1
<1>3. CASE row.owner = None /\ u \in Admins
  <2>1. ASSUME k \notin late
        PROVE  Fits(fers, excused \cup clashing, clashing, u, row.content)
    <3>1. Fits(fers, excused \cup clashing, clashing, None, row.content)
      BY <1>3, <2>1 DEF RowOK
    <3>2. Cool(fers, clashing, row.content)
      BY DEF RowOK
    <3>3. ASSUME NEW fer \in InlineIds(row.content) \cap DOMAIN fers,
                 fers[fer].source # "model" /\ fers[fer].owner = u
          PROVE  fer \in clashing
      BY <1>3, <3>2, <3>3 DEF Cool, Hot
    <3>4. QED
      BY <3>1, <3>3 DEF Fits, Usable
  <2>2. QED
    BY <1>1, <2>1 DEF RowOK
<1>4. QED
  BY <1>2, <1>3

(* Where the contents are that a request will write *)
LEMMA WrittenByCall ==
    ASSUME NEW q
    PROVE  /\ q.call = "editing" => Written(q) = {}
           /\ q.call \in {"put", "publish"} => Written(q) = {q.new}
           /\ q.call \in {"insert", "patch"} => Written(q) = {q.new.content}
           /\ q.call = "merge" => Written(q) = {q.new[k] : k \in DOMAIN q.new}
<1>1. ASSUME q.call = "editing" PROVE Written(q) = {}
  <2>1. q.call \notin {"put", "publish"} /\ q.call \notin {"insert", "patch"} /\ q.call # "merge"
    BY <1>1
  <2>2. QED
    BY <2>1, Zenon DEF Written
<1>2. ASSUME q.call \in {"put", "publish"} PROVE Written(q) = {q.new}
  <2>1. q.call \notin {"insert", "patch"} /\ q.call # "merge"
    BY <1>2
  <2>2. QED
    BY <1>2, <2>1, Zenon DEF Written
<1>3. ASSUME q.call \in {"insert", "patch"} PROVE Written(q) = {q.new.content}
  <2>1. q.call \notin {"put", "publish"} /\ q.call # "merge"
    BY <1>3
  <2>2. QED
    BY <1>3, <2>1, Zenon DEF Written
<1>4. ASSUME q.call = "merge" PROVE Written(q) = {q.new[k] : k \in DOMAIN q.new}
  <2>1. q.call \notin {"put", "publish"} /\ q.call \notin {"insert", "patch"}
    BY <1>4
  <2>2. QED
    BY <1>4, <2>1, Zenon DEF Written
<1>5. QED
  BY <1>1, <1>2, <1>3, <1>4

LEMMA MergeWrites ==
    ASSUME NEW q, q.call = "merge"
    PROVE  \A doc : doc \in Written(q) <=> \E k \in DOMAIN q.new : doc = q.new[k]
<1>1. Written(q) = {q.new[k] : k \in DOMAIN q.new}
  BY WrittenByCall, Zenon
<1>2. QED
  BY <1>1

Curated == {"seed", "user-promoted"}

(* A curated FER stays one, or is accounted for. *)
StaysCurated(fer) ==
    fer \in DOMAIN fers /\ fers[fer].source \in Curated =>
        fer \in excused' \/ (fer \in DOMAIN fers' /\ fers'[fer].source \in Curated)

LEMMA QuietCurated ==
    ASSUME UNCHANGED fers
    PROVE  \A fer : StaysCurated(fer)
  BY DEF StaysCurated

LEMMA RequestStays ==
    ASSUME NEW q, Sound(q), \A doc \in Written(q) : Spares(doc),
           q.call = "merge" /\ q.target \in Mentions(q) => StaysCurated(q.target)
    PROVE  Sound(q)'
<1>1. ASSUME NEW doc \in Written(q)
      PROVE  /\ doc \in Content
             /\ Existing(fers', excused' \cup q.todo, doc) /\ Cool(fers', clashing', doc)
             /\ Fits(fers, excused \cup clashing \cup q.todo, clashing, Holder(q), doc) =>
                Fits(fers', excused' \cup clashing' \cup q.todo, clashing', Holder(q), doc)
             /\ excused \cup clashing \subseteq excused' \cup clashing'
  <2>1. Harmless(fers, fers', excused, excused', clashing, clashing', doc)
    BY <1>1 DEF Spares
  <2>2. /\ doc \in Content
        /\ Existing(fers, excused \cup q.todo, doc) /\ Cool(fers, clashing, doc)
    BY DEF Sound
  <2>3. excused \cup clashing \subseteq excused' \cup clashing'
    BY <2>1 DEF Harmless
  <2>4. /\ Existing(fers', excused' \cup q.todo, doc) /\ Cool(fers', clashing', doc)
        /\ \A owner : Fits(fers, excused \cup clashing \cup q.todo, clashing, owner, doc) =>
                      Fits(fers', excused' \cup clashing' \cup q.todo, clashing', owner, doc)
    BY <2>1, <2>2, Carried
  <2>5. QED
    BY <2>2, <2>3, <2>4
<1>2. ASSUME q.call = "merge", q.target \in Mentions(q)
      PROVE  \/ q.target \in excused' \cup clashing'
             \/ q.target \in DOMAIN fers' /\ fers'[q.target].source \in Curated
  <2>1. Written(q) # {}
    BY <1>2 DEF Mentions
  <2>2. excused \cup clashing \subseteq excused' \cup clashing'
    BY <1>1, <2>1
  <2>3. QED
    BY <1>2, <2>2 DEF Sound, StaysCurated, Curated
<1>3. ASSUME q.call \in {"put", "publish"} \/ (q.call = "insert" /\ ~q.inherits), NEW doc \in Written(q)
      PROVE  Fits(fers', excused' \cup clashing' \cup q.todo, clashing', Holder(q), doc)
  BY <1>1, <1>3 DEF Sound
<1>4. QED
  BY <1>1, <1>2, <1>3 DEF Sound, Curated

(* The requests after a step: those that stay, and a new one that is right *)
LEMMA RequestsStay ==
    ASSUME RequestsOK,
           \A i \in Requests : \A q : q = requests'[i] /\ q # None =>
               \/ Shape(q) /\ Sound(q)'
               \/ /\ q = requests[i]
                  /\ \A doc \in Written(q) : Spares(doc)
                  /\ q.call = "merge" /\ q.target \in Mentions(q) => StaysCurated(q.target)
    PROVE  RequestsOK'
<1>1. ASSUME NEW i \in Requests, NEW q, q = requests'[i] /\ q # None
      PROVE  Shape(q) /\ Sound(q)'
  <2>1. CASE Shape(q) /\ Sound(q)'
    BY <2>1
  <2>2. CASE /\ q = requests[i]
             /\ \A doc \in Written(q) : Spares(doc)
             /\ q.call = "merge" /\ q.target \in Mentions(q) => StaysCurated(q.target)
    <3>1. Shape(q) /\ Sound(q)
      BY <1>1, <2>2 DEF RequestsOK
    <3>2. QED
      BY <2>2, <3>1, RequestStays
  <2>3. QED
    BY <1>1, <2>1, <2>2
<1>2. QED
  BY <1>1 DEF RequestsOK

LEMMA MergesStay ==
    ASSUME MergesOK, excused \subseteq excused',
           \A i \in Requests : \A q : \A k : \A row :
               q = requests'[i] /\ q # None /\ k \in DOMAIN kms' /\ row = kms'[k] =>
                   \/ Spared(q, k, row)'
                   \/ q = requests[i] /\ k \in DOMAIN kms /\ row.content = kms[k].content
    PROVE  MergesOK'
<1>1. ASSUME NEW i \in Requests, NEW q, NEW k, NEW row,
             q = requests'[i] /\ q # None /\ k \in DOMAIN kms' /\ row = kms'[k]
      PROVE  Spared(q, k, row)'
  <2>1. CASE q = requests[i] /\ k \in DOMAIN kms /\ row.content = kms[k].content
    <3>1. Spared(q, k, kms[k])
      BY <1>1, <2>1 DEF MergesOK
    <3>2. QED
      BY <2>1, <3>1 DEF Spared
  <2>2. QED
    BY <1>1, <2>1
<1>2. QED
  BY <1>1 DEF MergesOK

(* A model that comes to be stored does not need what merges take away. *)
LEMMA SparedIfExcused ==
    ASSUME NEW q, NEW k, NEW row,
           q.call = "merge" /\ q.row \in SuggestedIn(row.content) =>
               q.row \in InlineIds(row.content) \cup excused'
    PROVE  Spared(q, k, row)'
  BY DEF Spared

-----------------------------------------------------------------------------
(* The steps that begin a request *)

MayTake(k, u) ==
    /\ k \in DOMAIN kms /\ u \in Users
    /\ kms[k].owner = None => u \in Admins

LEMMA OwnerMayTake ==
    ASSUME CatalogueOK, NEW k, NEW u \in accounts, CanOwn(k, u)
    PROVE  MayTake(k, u) /\ ~kms[k].system
  BY CatalogueAssumption DEF CanOwn, CanRead, MayTake, CatalogueOK

(* The claim changes the owner of one model and nothing else. *)
LEMMA TakenRows ==
    ASSUME RowsOK, NEW k, NEW u, MayTake(k, u), kms' = TakenBy(k, u)
    PROVE  /\ DOMAIN kms' = DOMAIN kms
           /\ \A x \in DOMAIN kms : RowOK(x, kms'[x]) /\ kms'[x].content = kms[x].content
           /\ kms'[k].status = kms[k].status /\ kms'[k] \in Row
<1> DEFINE taken == [kms[k] EXCEPT !.owner = IF @ = None THEN u ELSE @]
<1>1. /\ DOMAIN kms' = DOMAIN kms /\ kms'[k] = taken
      /\ \A x \in DOMAIN kms : x # k => kms'[x] = kms[x]
  BY DEF TakenBy, MayTake
<1>2. \A x \in DOMAIN kms : RowOK(x, kms[x])
  BY DEF RowsOK
<1>3. RowOK(k, kms[k]) /\ kms[k] \in Row
  BY <1>2 DEF MayTake, RowOK
<1>4. RowOK(k, taken)
  <2>1. CASE kms[k].owner = None
    <3>1. taken = [kms[k] EXCEPT !.owner = u]
      BY <2>1
    <3>2. QED
      BY <1>3, <2>1, <3>1, RowTaken DEF MayTake
  <2>2. CASE kms[k].owner # None
    <3>1. taken = kms[k]
      BY <1>3, <2>2 DEF Row
    <3>2. QED
      BY <1>3, <3>1
  <2>3. QED
    BY <2>1, <2>2
<1>5. taken.content = kms[k].content /\ taken.status = kms[k].status
  BY <1>3 DEF Row
<1>6. taken \in Row
  BY <1>4 DEF RowOK
<1> HIDE DEF taken
<1>7. QED
  BY <1>1, <1>2, <1>4, <1>5, <1>6 DEF taken

LEMMA CatalogueStays ==
    ASSUME CatalogueOK, UNCHANGED <<fers, accounts>>,
           NEW r, NEW new, requests' = [requests EXCEPT ![r] = new]
    PROVE  CatalogueOK'
  BY DEF CatalogueOK

LEMMA BeginStep ==
    ASSUME KInv, NEW r \in Requests, NEW new, requests' = [requests EXCEPT ![r] = new],
           UNCHANGED <<fers, accounts, late, excused, frozen>>, clashing \subseteq clashing',
           kms' = kms \/ \E k, u : MayTake(k, u) /\ kms' = TakenBy(k, u),
           new # None => /\ Shape(new) /\ Sound(new)'
                         /\ \A k \in DOMAIN kms : Spared(new, k, kms'[k])
    PROVE  KInv'
<1> USE DEF KInv
<1>1. CatalogueOK'
  BY CatalogueStays
<1>2. \A doc : Spares(doc)
  BY QuietSpares
<1>3. /\ DOMAIN kms' = DOMAIN kms
      /\ \A x \in DOMAIN kms : RowOK(x, kms'[x]) /\ kms'[x].content = kms[x].content
  <2>1. CASE kms' = kms
    BY <2>1 DEF RowsOK
  <2>2. CASE \E k, u : MayTake(k, u) /\ kms' = TakenBy(k, u)
    <3>1. PICK k, u : MayTake(k, u) /\ kms' = TakenBy(k, u)
      BY <2>2
    <3>2. RowsOK
      OBVIOUS
    <3> HIDE DEF KInv
    <3>3. QED
      BY <3>1, <3>2, TakenRows
  <2>3. QED
    BY <2>1, <2>2
<1>4. RowsOK'
  <2>1. ASSUME NEW k, NEW row, k \in DOMAIN kms' /\ row = kms'[k]
        PROVE  RowOK(k, row)'
    <3>1. RowOK(k, row)
      BY <1>3, <2>1
    <3>2. QED
      BY <1>2, <3>1, RowStays
  <2>2. QED
    BY <2>1 DEF RowsOK
<1>5. \A i \in Requests : requests'[i] = new \/ requests'[i] = requests[i]
  BY DEF CatalogueOK
<1>6. RequestsOK'
  <2>1. ASSUME NEW i \in Requests, NEW q, q = requests'[i] /\ q # None
        PROVE  \/ Shape(q) /\ Sound(q)'
               \/ /\ q = requests[i]
                  /\ \A doc \in Written(q) : Spares(doc)
                  /\ q.call = "merge" /\ q.target \in Mentions(q) => StaysCurated(q.target)
    <3>1. CASE q = new
      BY <2>1, <3>1
    <3>2. CASE q = requests[i]
      BY <1>2, <3>2, QuietCurated
    <3>3. QED
      BY <1>5, <2>1, <3>1, <3>2
  <2>2. QED
    BY <2>1, RequestsStay
<1>7. MergesOK'
  <2>1. ASSUME NEW i \in Requests, NEW q, NEW k, NEW row,
               q = requests'[i] /\ q # None /\ k \in DOMAIN kms' /\ row = kms'[k]
        PROVE  \/ Spared(q, k, row)'
               \/ q = requests[i] /\ k \in DOMAIN kms /\ row.content = kms[k].content
    <3>1. CASE q = new
      <4>1. Spared(q, k, row)
        BY <1>3, <2>1, <3>1
      <4>2. QED
        BY <4>1 DEF Spared
    <3>2. CASE q = requests[i]
      BY <1>3, <2>1, <3>2
    <3>3. QED
      BY <1>5, <2>1, <3>1, <3>2
  <2>2. QED
    BY <2>1, MergesStay
<1>8. QED
  BY <1>1, <1>4, <1>6, <1>7

LEMMA WholeRequest ==
    ASSUME NEW call, NEW user, NEW row, NEW base, NEW new, NEW q, q = Request(call, user, row, base, new)
    PROVE  /\ Whole(q) /\ q.call = call /\ q.user = user /\ q.row = row /\ q.base = base /\ q.new = new
           /\ q.todo = {} /\ q.target = None /\ q.inherits = FALSE
  BY DEF Request, Whole

LEMMA NotAMerge ==
    ASSUME NEW q, q.call # "merge"
    PROVE  \A k, row : Spared(q, k, row)
  BY DEF Spared

LEMMA OpenStep ==
    ASSUME KInv, NEW r, NEW u \in Users, NEW k, r \in Requests, Open(r, u, k)
    PROVE  KInv'
<1> SUFFICES ASSUME NEW q, q = Request("editing", u, k, kms[k], None)
             PROVE  KInv'
  OBVIOUS
<1>1. /\ requests' = [requests EXCEPT ![r] = q]
      /\ UNCHANGED <<fers, accounts, late, excused, frozen, clashing, kms>>
  BY DEF Open, Begin, history
<1>2. /\ Whole(q) /\ q.call = "editing" /\ q.user = u /\ q.todo = {} /\ q.inherits = FALSE
  BY DEF Request, Whole
<1>3. Shape(q)
  BY <1>2 DEF Shape
<1>4. Sound(q)'
  <2>1. Written(q) = {}
    BY <1>2, WrittenByCall
  <2>2. Mentions(q) = {}
    BY <2>1 DEF Mentions
  <2>3. QED
    BY <1>2, <2>1, <2>2 DEF Sound
<1>5. \A x, row : Spared(q, x, row)
  BY <1>2, NotAMerge
<1>6. QED
  BY <1>1, <1>3, <1>4, <1>5, BeginStep

(* What the validation for a user grants *)
LEMMA Validated ==
    ASSUME CatalogueOK, NEW u \in Users, NEW doc \in Content, NEW publishing,
           ContentOK(doc, KnownTo(u), publishing), NEW gone, NEW marked
    PROVE  /\ Existing(fers, gone, doc) /\ Fits(fers, gone, marked, u, doc)
           /\ \A fer \in InlineIds(doc) : Hot(fers, fer) =>
                  fers[fer].source # "model" /\ fers[fer].owner \in Admins \ {u}
<1>1. /\ SuggestedIn(doc) \subseteq InlineIds(doc) \cup KnownTo(u).known
      /\ \A fer \in InlineIds(doc) : ~Collides(fer, KnownTo(u))
  BY ContentOKRefers
<1>2. KnownTo(u).known = {fer \in DOMAIN fers :
          fers[fer].source \in {"seed", "user-promoted", "model"} \/ fers[fer].owner = u}
  BY DEF KnownTo, Snapshot
<1>3. KnownTo(u).promoted = {fer \in DOMAIN fers : fers[fer].source = "model"}
  BY DEF KnownTo, Snapshot
<1>4. \A fer \in KnownTo(u).known : Usable(fers, u, fer)
  BY <1>2 DEF Usable, Offered, Sources
<1>5. Existing(fers, gone, doc)
  BY <1>1, <1>2 DEF Existing
<1>6. ASSUME NEW fer \in InlineIds(doc) \cap DOMAIN fers, fers[fer].source # "model"
      PROVE  fers[fer].owner # u /\ fers[fer].source \notin {"seed", "user-promoted"}
  BY <1>1, <1>2, <1>3, <1>6 DEF Collides
<1>7. Fits(fers, gone, marked, u, doc)
  BY <1>1, <1>4, <1>6 DEF Fits
<1>8. QED
  BY <1>5, <1>6, <1>7 DEF Hot

(* What the validation for one user grants another, who owns the model *)
LEMMA ValidatedFor ==
    ASSUME CatalogueOK, NEW u \in Users, NEW owner, NEW doc \in Content, NEW publishing,
           ContentOK(doc, KnownTo(u), publishing), NEW gone, NEW marked,
           Private(doc, u, owner) \subseteq marked
    PROVE  /\ Existing(fers, gone, doc) /\ Cool(fers, marked, doc)
           /\ Fits(fers, gone \cup marked, marked, owner, doc)
<1>1. /\ Existing(fers, gone, doc) /\ Fits(fers, gone, marked, u, doc)
      /\ \A fer \in InlineIds(doc) : Hot(fers, fer) =>
             fers[fer].source # "model" /\ fers[fer].owner \in Admins \ {u}
  BY Validated
<1>2. ASSUME NEW fer \in InlineIds(doc), Hot(fers, fer)
      PROVE  fer \in marked
  BY <1>1, <1>2 DEF Private, Hot
<1>3. ASSUME NEW fer \in SuggestedIn(doc)
      PROVE  fer \in InlineIds(doc) \cup (gone \cup marked) \/ Usable(fers, owner, fer)
  <2>1. CASE Usable(fers, u, fer)
    BY <1>3, <2>1 DEF Private, Usable, Offered, Sources
  <2>2. CASE ~Usable(fers, u, fer)
    BY <1>1, <1>3, <2>2 DEF Fits
  <2>3. QED
    BY <2>1, <2>2
<1>4. ASSUME owner # None, NEW fer \in InlineIds(doc) \cap DOMAIN fers,
             fers[fer].source # "model" /\ fers[fer].owner = owner
      PROVE  fer \in marked
  <2>1. CASE owner = u
    <3>1. u # None
      BY <1>4, <2>1
    <3>2. QED
      BY <1>1, <1>4, <2>1, <3>1 DEF Fits
  <2>2. CASE owner # u
    BY <1>4, <2>2 DEF Private
  <2>3. QED
    BY <2>1, <2>2
<1>5. QED
  BY <1>1, <1>2, <1>3, <1>4 DEF Cool, Fits

LEMMA SaveStep ==
    ASSUME KInv, NEW r \in Requests, NEW doc \in Documents, Save(r, doc)
    PROVE  KInv'
<1> SUFFICES ASSUME NEW u, NEW k, u = requests[r].user, k = requests[r].row
             PROVE  KInv'
  OBVIOUS
<1> SUFFICES ASSUME NEW q, q = Request("put", u, k, kms'[k], doc)
             PROVE  KInv'
  OBVIOUS
<1>1. /\ requests' = [requests EXCEPT ![r] = q]
      /\ UNCHANGED <<fers, accounts, late, excused, frozen>>
      /\ u \in accounts /\ MaySave(k, requests[r]) /\ ContentOK(doc, KnownTo(u), FALSE)
      /\ kms' = TakenBy(k, u)
      /\ clashing' = clashing \cup Private(doc, u, kms'[k].owner)
  BY DEF Save
<1>2. CatalogueOK /\ RowsOK
  BY DEF KInv
<1>3. CanOwn(k, u) /\ kms[k].status = "draft"
  BY <1>1 DEF MaySave
<1>4. MayTake(k, u) /\ u \in Users
  BY <1>1, <1>2, <1>3, OwnerMayTake DEF CatalogueOK
<1>5. kms'[k] \in Row /\ kms'[k].status = "draft"
  BY <1>1, <1>2, <1>3, <1>4, TakenRows
<1>6. doc \in Content
  BY CatalogueAssumption
<1>7. /\ Whole(q) /\ q.call = "put" /\ q.user = u /\ q.todo = {} /\ q.inherits = FALSE
      /\ q.base = kms'[k] /\ q.new = doc
  BY DEF Request, Whole
<1>8. Shape(q)
  BY <1>4, <1>5, <1>6, <1>7 DEF Shape
<1>9. Sound(q)'
  <2>1. Written(q) = {doc}
    BY <1>7, WrittenByCall
  <2> DEFINE owner == kms'[k].owner
  <2>2. Holder(q) = owner
    BY <1>7 DEF Holder
  <2>3. Private(doc, u, owner) \subseteq clashing'
    BY <1>1
  <2> HIDE DEF owner
  <2>4. /\ Existing(fers, excused, doc) /\ Cool(fers, clashing', doc)
        /\ Fits(fers, excused \cup clashing', clashing', owner, doc)
    BY <1>1, <1>2, <1>4, <1>6, <2>3, ValidatedFor
  <2>5. excused \cup {} = excused /\ excused \cup clashing' \cup {} = excused \cup clashing'
    OBVIOUS
  <2>6. QED
    BY <1>1, <1>6, <1>7, <2>1, <2>2, <2>4, <2>5 DEF Sound
<1>10. \A x, row : Spared(q, x, row)
  BY <1>7, NotAMerge
<1>11. clashing \subseteq clashing'
  BY <1>1
<1>12. \E x, v : MayTake(x, v) /\ kms' = TakenBy(x, v)
  BY <1>1, <1>4
<1>13. QED
  BY <1>1, <1>8, <1>9, <1>10, <1>11, <1>12, BeginStep

(* A new row that is waiting to be inserted *)
LEMMA InsertBegins ==
    ASSUME CatalogueOK, NEW q, Whole(q), q.call = "insert", q.user \in Users, q.todo = {},
           q.inherits \in BOOLEAN,
           q.new \in Row, q.new.status = "draft", UNCHANGED <<fers, excused, clashing>>,
           Existing(fers, excused, q.new.content), Cool(fers, clashing, q.new.content),
           ~q.inherits => Fits(fers, excused \cup clashing, clashing, q.new.owner, q.new.content)
    PROVE  Shape(q) /\ Sound(q)'
<1>1. Shape(q)
  BY DEF Shape
<1>2. Written(q) = {q.new.content} /\ q.new.content \in Content
  BY WrittenByCall DEF Row
<1>3. excused \cup {} = excused /\ excused \cup clashing \cup {} = excused \cup clashing
  OBVIOUS
<1>4. Sound(q)'
  BY <1>2, <1>3 DEF Sound, Holder
<1>5. QED
  BY <1>1, <1>4

LEMMA CreateStep ==
    ASSUME KInv, NEW r \in Requests, NEW u \in Users, NEW line, NEW doc \in Documents,
           Create(r, u, line, doc)
    PROVE  KInv'
<1> SUFFICES ASSUME NEW row, row = Model(u, "private", "draft", FALSE, doc),
                    NEW q, q = Request("insert", u, <<line, 1>>, None, row)
             PROVE  KInv'
  OBVIOUS
<1>1. /\ requests' = [requests EXCEPT ![r] = q]
      /\ UNCHANGED <<fers, accounts, late, excused, frozen, clashing, kms>>
      /\ doc.inline = <<>> /\ ContentOK(doc, KnownTo(u), FALSE)
  BY DEF Create, Begin, history
<1>2. /\ Whole(q) /\ q.call = "insert" /\ q.user = u /\ q.todo = {} /\ q.inherits = FALSE
      /\ q.new = row
  BY DEF Request, Whole
<1>3. doc \in Content
  BY CatalogueAssumption
<1>4. row \in Row /\ row.status = "draft" /\ row.owner = u /\ row.content = doc
  BY <1>3 DEF Model, Row
<1>5. CatalogueOK
  BY DEF KInv
<1>6. /\ Existing(fers, excused, doc) /\ Fits(fers, excused \cup clashing, clashing, u, doc)
  BY <1>1, <1>3, <1>5, Validated
<1>7. Cool(fers, clashing, doc)
  BY <1>1 DEF Cool, InlineIds
<1>8. Shape(q) /\ Sound(q)'
  BY <1>1, <1>2, <1>4, <1>5, <1>6, <1>7, InsertBegins
<1>9. \A x, y : Spared(q, x, y)
  BY <1>2, NotAMerge
<1>10. QED
  BY <1>1, <1>8, <1>9, BeginStep

LEMMA ForkStep ==
    ASSUME KInv, NEW r \in Requests, NEW u \in Users, NEW k, NEW line, Fork(r, u, k, line)
    PROVE  KInv'
<1> SUFFICES ASSUME NEW doc, doc = kms[k].content,
                    NEW row, row = Model(u, "private", "draft", FALSE, doc),
                    NEW q, q = Request("insert", u, <<line, 1>>, kms[k], row)
             PROVE  KInv'
  OBVIOUS
<1>1. /\ requests' = [requests EXCEPT ![r] = q]
      /\ UNCHANGED <<fers, accounts, late, excused, frozen, clashing, kms>>
      /\ k \in DOMAIN kms /\ ContentOK(doc, KnownTo(u), FALSE)
  BY DEF Fork, Begin, history, CanRead
<1>2. /\ Whole(q) /\ q.call = "insert" /\ q.user = u /\ q.todo = {} /\ q.inherits = FALSE
      /\ q.new = row
  BY DEF Request, Whole
<1>3. CatalogueOK /\ RowOK(k, kms[k])
  BY <1>1 DEF KInv, RowsOK
<1>4. doc \in Content /\ Cool(fers, clashing, doc)
  BY <1>3 DEF RowOK, Row
<1>5. row \in Row /\ row.status = "draft" /\ row.owner = u /\ row.content = doc
  BY <1>4 DEF Model, Row
<1>6. /\ Existing(fers, excused, doc) /\ Fits(fers, excused \cup clashing, clashing, u, doc)
  BY <1>1, <1>3, <1>4, Validated
<1>7. Shape(q) /\ Sound(q)'
  BY <1>1, <1>2, <1>3, <1>4, <1>5, <1>6, InsertBegins
<1>8. \A x, y : Spared(q, x, y)
  BY <1>2, NotAMerge
<1>9. QED
  BY <1>1, <1>7, <1>8, BeginStep

LEMMA NewVersionBegins ==
    ASSUME KInv, NEW r \in Requests, NEW u \in Users, NEW k, NewVersion(r, u, k), NEW next,
           NEW inherits \in BOOLEAN, ~inherits => k \notin late,
           requests' = [requests EXCEPT ![r] =
               [Request("insert", u, <<k[1], next>>, kms[k],
                        Model(kms'[k].owner, kms[k].visibility, "draft", FALSE, kms[k].content))
                   EXCEPT !.inherits = inherits]]
    PROVE  KInv'
<1> SUFFICES ASSUME NEW doc, doc = kms[k].content,
                    NEW owner, owner = kms'[k].owner,
                    NEW row, row = Model(owner, kms[k].visibility, "draft", FALSE, doc),
                    NEW q, q = [Request("insert", u, <<k[1], next>>, kms[k], row)
                                    EXCEPT !.inherits = inherits]
             PROVE  KInv'
  OBVIOUS
<1>0. requests' = [requests EXCEPT ![r] = q]
  BY Zenon
<1>1. /\ UNCHANGED <<fers, accounts, late, excused, frozen, clashing>>
      /\ u \in accounts /\ CanOwn(k, u) /\ kms' = TakenBy(k, u)
  BY DEF NewVersion, Begin, history
<1>2. /\ Whole(q) /\ q.call = "insert" /\ q.user = u /\ q.todo = {} /\ q.inherits = inherits
      /\ q.new = row
  BY DEF Request, Whole
<1>3. CatalogueOK /\ RowsOK
  BY DEF KInv
<1>4. MayTake(k, u)
  BY <1>1, <1>3, OwnerMayTake
<1>5. RowOK(k, kms'[k]) /\ kms'[k].content = doc
  BY <1>1, <1>3, <1>4, TakenRows DEF MayTake
<1>6. RowOK(k, kms[k])
  BY <1>3, <1>4 DEF RowsOK, MayTake
<1>7. /\ doc \in Content /\ Existing(fers, excused, doc) /\ Cool(fers, clashing, doc)
      /\ k \notin late => Fits(fers, excused \cup clashing, clashing, owner, doc)
      /\ owner \in Users \cup {None}
  BY <1>5 DEF RowOK, Row
<1>8. row \in Row /\ row.status = "draft" /\ row.owner = owner /\ row.content = doc
  BY <1>6, <1>7 DEF Model, Row, RowOK
<1>9. Shape(q) /\ Sound(q)'
  <2>1. q.inherits \in BOOLEAN
    BY <1>2
  <2>5. ~q.inherits => Fits(fers, excused \cup clashing, clashing, owner, doc)
    BY <1>2, <1>7
  <2>2. /\ q.new \in Row /\ q.new.status = "draft" /\ q.new.owner = owner /\ q.new.content = doc
        /\ q.user = u /\ q.call = "insert" /\ q.todo = {} /\ Whole(q)
    BY <1>2, <1>8
  <2>3. UNCHANGED <<fers, excused, clashing>>
    BY <1>1
  <2>4. QED
    BY <1>3, <1>7, <2>1, <2>2, <2>3, <2>5, InsertBegins
<1>10. \A x, y : Spared(q, x, y)
  BY <1>2, NotAMerge
<1>11. \E x, v : MayTake(x, v) /\ kms' = TakenBy(x, v)
  BY <1>1, <1>4
<1>12. QED
  BY <1>0, <1>1, <1>9, <1>10, <1>11, BeginStep

LEMMA NewVersionStep ==
    ASSUME KInv, NEW r \in Requests, NEW u \in Users, NEW k, NewVersion(r, u, k)
    PROVE  KInv'
<1>1. PICK next : requests' = [requests EXCEPT ![r] =
          [Request("insert", u, <<k[1], next>>, kms[k],
                   Model(kms'[k].owner, kms[k].visibility, "draft", FALSE, kms[k].content))
              EXCEPT !.inherits = k \in late]]
  BY Zenon DEF NewVersion, Begin
<1>2. CASE k \in late
  <2>1. (k \in late) = TRUE
    BY <1>2
  <2>2. requests' = [requests EXCEPT ![r] =
          [Request("insert", u, <<k[1], next>>, kms[k],
                   Model(kms'[k].owner, kms[k].visibility, "draft", FALSE, kms[k].content))
              EXCEPT !.inherits = TRUE]]
    BY <1>1, <2>1, Zenon
  <2>3. QED
    BY <2>2, NewVersionBegins
<1>3. CASE k \notin late
  <2>1. (k \in late) = FALSE
    BY <1>3
  <2>2. requests' = [requests EXCEPT ![r] =
          [Request("insert", u, <<k[1], next>>, kms[k],
                   Model(kms'[k].owner, kms[k].visibility, "draft", FALSE, kms[k].content))
              EXCEPT !.inherits = FALSE]]
    BY <1>1, <2>1, Zenon
  <2>3. QED
    BY <1>3, <2>2, NewVersionBegins
<1>4. QED
  BY <1>2, <1>3

LEMMA PatchStep ==
    ASSUME KInv, NEW r \in Requests, NEW u \in Users, NEW k,
           NEW visibility \in {"private", "public"}, NEW edition \in 1..2,
           Patch(r, u, k, visibility, edition)
    PROVE  KInv'
<1> SUFFICES ASSUME NEW base, base = kms[k], NEW doc, doc = [base.content EXCEPT !.edition = edition],
                    NEW new, new = [visibility |-> visibility, content |-> doc],
                    NEW q, q = Request("patch", u, k, base, new)
             PROVE  KInv'
  OBVIOUS
<1>1. /\ requests' = [requests EXCEPT ![r] = q]
      /\ UNCHANGED <<fers, accounts, late, excused, frozen, clashing, kms>>
      /\ u \in accounts /\ k \in DOMAIN kms
      /\ CanOwn(k, u) \/ base.system
      /\ edition # base.content.edition => k \in Drafts
  BY DEF Patch, Begin, history
<1>2. /\ Whole(q) /\ q.call = "patch" /\ q.user = u /\ q.todo = {} /\ q.inherits = FALSE
      /\ q.base = base /\ q.new = new
  BY DEF Request, Whole
<1>3. CatalogueOK /\ RowOK(k, base)
  BY <1>1 DEF KInv, RowsOK
<1>4. base \in Row /\ base.content \in Content
  BY <1>3 DEF RowOK, Row
<1>5. doc \in Content /\ InlineIds(doc) = InlineIds(base.content) /\ SuggestedIn(doc) = SuggestedIn(base.content)
  <2>1. edition \in Nat
    OBVIOUS
  <2>2. QED
    BY <1>4, <2>1, EditionOnly
<1>6. doc # base.content => base.status = "draft"
  <2>1. edition = base.content.edition => doc = base.content
    BY <1>4 DEF Content
  <2>2. QED
    BY <1>1, <2>1 DEF Drafts
<1>7. base.owner = None /\ ~base.system => u \in Admins
  <2>1. None \notin Users
    BY CatalogueAssumption
  <2>2. QED
    BY <1>1, <2>1 DEF CanOwn
<1>8. new \in [visibility : {"private", "public"}, content : Content] /\ new.content = doc
  BY <1>5
<1>9. Shape(q)
  <2>1. /\ q.base \in Row /\ q.new \in [visibility : {"private", "public"}, content : Content]
        /\ q.new.content = doc
    BY <1>2, <1>4, <1>8
  <2>2. q.call \notin {"put", "publish"} /\ q.call # "insert" /\ q.call # "merge" /\ q.call = "patch"
    BY <1>2
  <2> HIDE DEF Whole
  <2>3. /\ q.new.content # q.base.content => q.base.status = "draft"
        /\ q.base.owner = None /\ ~q.base.system => q.user \in Admins
        /\ SuggestedIn(q.new.content) = SuggestedIn(q.base.content)
        /\ InlineIds(q.new.content) = InlineIds(q.base.content)
    BY <1>2, <1>5, <1>6, <1>7, <1>8
  <2>4. /\ Whole(q) /\ q.user \in Users /\ q.inherits \in BOOLEAN /\ q.todo = {}
    BY <1>2
  <2>5. QED
    BY <2>1, <2>2, <2>3, <2>4 DEF Shape
<1>10. Sound(q)'
  <2>1. Written(q) = {doc}
    BY <1>2, <1>8, WrittenByCall
  <2>2. Existing(fers, excused \cup {}, doc) /\ Cool(fers, clashing, doc)
    BY <1>3, <1>5 DEF RowOK, Existing, Cool
  <2>3. QED
    BY <1>1, <1>2, <1>5, <2>1, <2>2 DEF Sound
<1>11. \A x, y : Spared(q, x, y)
  BY <1>2, NotAMerge
<1>12. QED
  BY <1>1, <1>9, <1>10, <1>11, BeginStep

LEMMA PublishStep ==
    ASSUME KInv, NEW r \in Requests, NEW u \in Users, NEW k, Publish(r, u, k)
    PROVE  KInv'
<1> SUFFICES ASSUME NEW doc, doc = kms[k].content, NEW promotes \in BOOLEAN,
                    promotes = (kms[k].visibility # "private"),
                    NEW new, new = IF promotes THEN [doc EXCEPT !.inline = <<>>] ELSE doc,
                    NEW todo, todo = IF promotes THEN InlineIds(doc) ELSE {},
                    NEW q, q = [Request("publish", u, k, kms'[k], new) EXCEPT !.todo = todo],
                    NEW owner, owner = kms'[k].owner
             PROVE  KInv'
  OBVIOUS
<1>1. /\ requests' = [requests EXCEPT ![r] = q]
      /\ UNCHANGED <<fers, accounts, late, excused, frozen>>
      /\ u \in accounts /\ kms[k].status = "draft" /\ CanOwn(k, u) /\ kms' = TakenBy(k, u)
      /\ ContentOK(doc, KnownTo(u), TRUE)
      /\ clashing' = clashing \cup Private(doc, u, owner)
  BY DEF Publish, Drafts
<1>2. /\ Whole(q) /\ q.call = "publish" /\ q.user = u /\ q.todo = todo /\ q.inherits = FALSE
      /\ q.base = kms'[k] /\ q.new = new
  BY DEF Request, Whole
<1>3. CatalogueOK /\ RowsOK
  BY DEF KInv
<1>4. MayTake(k, u)
  BY <1>1, <1>3, OwnerMayTake
<1>5. /\ RowOK(k, kms'[k]) /\ kms'[k] \in Row /\ kms'[k].content = doc
      /\ kms'[k].status = "draft"
  BY <1>1, <1>3, <1>4, TakenRows DEF MayTake
<1>6. doc \in Content /\ Existing(fers, excused, doc)
  BY <1>5 DEF RowOK, Row
<1>7. Fits(fers, excused \cup clashing', clashing', owner, doc) /\ Cool(fers, clashing', doc)
  <2>1. Private(doc, u, owner) \subseteq clashing'
    BY <1>1
  <2>2. QED
    BY <1>1, <1>3, <1>6, <2>1, ValidatedFor
<1>8. /\ new \in Content /\ SuggestedIn(new) = SuggestedIn(doc)
      /\ InlineIds(new) \subseteq InlineIds(doc) /\ InlineIds(doc) \subseteq InlineIds(new) \cup todo
  <2>1. CASE promotes
    BY <1>6, <2>1, Unstaged
  <2>2. CASE ~promotes
    BY <1>6, <2>2
  <2>3. QED
    BY <2>1, <2>2
<1>9. Shape(q)
  BY <1>2, <1>5, <1>8 DEF Shape
<1>10. Sound(q)'
  <2>1. Written(q) = {new}
    BY <1>2, WrittenByCall
  <2>2. Existing(fers, excused \cup todo, new) /\ Cool(fers, clashing', new)
    BY <1>6, <1>7, <1>8 DEF Existing, Cool
  <2>3. Fits(fers, excused \cup clashing' \cup todo, clashing', owner, new)
    BY <1>7, <1>8 DEF Fits
  <2>4. Holder(q) = owner
    BY <1>2 DEF Holder
  <2>5. QED
    BY <1>1, <1>2, <1>8, <2>1, <2>2, <2>3, <2>4 DEF Sound
<1>11. \A x, y : Spared(q, x, y)
  BY <1>2, NotAMerge
<1>12. \E x, v : MayTake(x, v) /\ kms' = TakenBy(x, v)
  BY <1>1, <1>4
<1>13. QED
  BY <1>1, <1>9, <1>10, <1>11, <1>12, BeginStep

LEMMA MergeBegins ==
    ASSUME RowsOK, NEW q, Whole(q), q.call = "merge", q.user \in Users, q.todo = {},
           q.inherits = FALSE, q.row \in Fers \ Seeds, q.target \in Fers, q.row # q.target,
           DOMAIN q.new \subseteq DOMAIN kms, DOMAIN q.base = DOMAIN q.new,
           \A k \in DOMAIN q.new : /\ q.base[k] = kms[k]
                                   /\ q.new[k] = Repoint(kms[k].content, q.row, q.target),
           q.target \in DOMAIN fers, fers[q.target].source \in {"seed", "user-promoted"},
           UNCHANGED <<fers, excused, clashing>>
    PROVE  Shape(q) /\ Sound(q)'
<1>1. ASSUME NEW k \in DOMAIN q.new
      PROVE  /\ q.base[k] \in Row /\ q.new[k] \in Content
             /\ Existing(fers, excused \cup {}, q.new[k]) /\ Cool(fers, clashing, q.new[k])
  <2>1. RowOK(k, kms[k])
    BY DEF RowsOK
  <2>2. /\ kms[k] \in Row /\ kms[k].content \in Content
        /\ Existing(fers, excused, kms[k].content) /\ Cool(fers, clashing, kms[k].content)
    BY <2>1 DEF RowOK, Row
  <2>3. /\ q.new[k] \in Content /\ InlineIds(q.new[k]) = InlineIds(kms[k].content)
        /\ SuggestedIn(q.new[k]) \subseteq (SuggestedIn(kms[k].content) \ {q.row}) \cup {q.target}
    BY <2>2, RepointedDocument
  <2>4. Existing(fers, excused \cup {}, q.new[k]) /\ Cool(fers, clashing, q.new[k])
    BY <2>2, <2>3 DEF Existing, Cool
  <2>5. QED
    BY <2>2, <2>3, <2>4
<1>2. Shape(q)
  <2>1. q.call \notin {"put", "publish"} /\ q.call # "insert" /\ q.call # "patch"
    OBVIOUS
  <2>2. \A k \in DOMAIN q.new : /\ q.base[k] \in Row
                                /\ q.new[k] = Repoint(q.base[k].content, q.row, q.target)
    BY <1>1
  <2>3. QED
    BY <2>1, <2>2 DEF Shape
<1>3. \A doc \in Written(q) :
          /\ doc \in Content
          /\ Existing(fers, excused \cup {}, doc) /\ Cool(fers, clashing, doc)
  BY <1>1, MergeWrites
<1>4. Sound(q)'
  BY <1>3 DEF Sound
<1>5. QED
  BY <1>2, <1>4

LEMMA MergeStep ==
    ASSUME KInv, NEW r \in Requests, NEW u \in Users, NEW from \in Fers, NEW to \in Fers,
           Merge(r, u, from, to)
    PROVE  KInv'
<1>1. PICK q : /\ requests' = [requests EXCEPT ![r] = q]
               /\ Whole(q) /\ q.call = "merge" /\ q.user = u /\ q.todo = {} /\ q.inherits = FALSE
               /\ q.row = from /\ q.target = to
               /\ DOMAIN q.new = Suggesting(from) /\ DOMAIN q.base = Suggesting(from)
               /\ \A k \in Suggesting(from) :
                      q.base[k] = kms[k] /\ q.new[k] = Repoint(kms[k].content, from, to)
  <2> DEFINE base == [k \in Suggesting(from) |-> kms[k]]
             new == [k \in Suggesting(from) |-> Repoint(kms[k].content, from, to)]
             q == [Request("merge", u, from, base, new) EXCEPT !.target = to]
  <2>1. requests' = [requests EXCEPT ![r] = q]
    BY Zenon DEF Merge, Begin
  <2>2. /\ DOMAIN new = Suggesting(from) /\ DOMAIN base = Suggesting(from)
        /\ \A k \in Suggesting(from) :
               base[k] = kms[k] /\ new[k] = Repoint(kms[k].content, from, to)
    OBVIOUS
  <2> HIDE DEF base, new
  <2>3. /\ Whole(q) /\ q.call = "merge" /\ q.user = u /\ q.todo = {} /\ q.inherits = FALSE
        /\ q.row = from /\ q.target = to /\ q.base = base /\ q.new = new
    <3> SUFFICES ASSUME NEW x, x = q
                 PROVE  /\ Whole(x) /\ x.call = "merge" /\ x.user = u /\ x.todo = {}
                        /\ x.inherits = FALSE /\ x.row = from /\ x.target = to
                        /\ x.base = base /\ x.new = new
      OBVIOUS
    <3>1. QED
      BY DEF Request, Whole
  <2> HIDE DEF q
  <2>4. QED
    BY <2>1, <2>2, <2>3
<1>2. /\ UNCHANGED <<fers, accounts, late, excused, frozen, clashing, kms>>
      /\ from # to /\ {from, to} \subseteq DOMAIN fers /\ fers[from].source # "seed"
      /\ fers[to].source \in {"seed", "user-promoted"}
  BY DEF Merge, Begin, history
<1>3. CatalogueOK /\ RowsOK
  BY DEF KInv
<1>4. Suggesting(from) = {k \in DOMAIN kms : from \in SuggestedIn(kms[k].content)}
  BY DEF Suggesting
<1>5. from \notin Seeds /\ Suggesting(from) \subseteq DOMAIN kms
  BY <1>2, <1>3, <1>4 DEF CatalogueOK
<1>6. Shape(q) /\ Sound(q)'
  <2>1. UNCHANGED <<fers, excused, clashing>>
    BY <1>2
  <2>2. q.target \in DOMAIN fers /\ fers[q.target].source \in {"seed", "user-promoted"}
    BY <1>1, <1>2
  <2>3. q.row \in Fers \ Seeds /\ q.target \in Fers /\ q.row # q.target /\ q.user \in Users
    BY <1>1, <1>2, <1>5
  <2>4. QED
    BY <1>1, <1>3, <1>5, <2>1, <2>2, <2>3, MergeBegins
<1>7. \A k \in DOMAIN kms : Spared(q, k, kms'[k])
  BY <1>1, <1>2, <1>4 DEF Spared
<1>8. QED
  BY <1>1, <1>2, <1>6, <1>7, BeginStep

-----------------------------------------------------------------------------
(* The commits *)

(* A commit that rewrites one model: the others stay, and what the model   *)
(* now suggests is not what a merge under way takes away, or is excused.   *)
LEMMA CommitStep ==
    ASSUME KInv, NEW r \in Requests, NEW k, NEW row,
           requests[r] # None, Done(r), UNCHANGED <<fers, clashing>>,
           DOMAIN kms' = DOMAIN kms \cup {k}, kms'[k] = row,
           \A x \in DOMAIN kms : x # k => kms'[x] = kms[x],
           \A x : x # k /\ x \notin late' => x \notin late,
           \A x : x # k /\ x \in DOMAIN frozen => x \in DOMAIN frozen' /\ frozen'[x] = frozen[x],
           RowOK(k, row)',
           \/ k \in DOMAIN kms /\ row.content = kms[k].content
           \/ SuggestedIn(row.content) \subseteq Mentions(requests[r])
    PROVE  KInv'
<1>1. /\ requests' = [requests EXCEPT ![r] = None]
      /\ excused' = excused \cup (Mentions(requests[r]) \cap Vanishing(r))
      /\ UNCHANGED accounts
  BY DEF Done
<1>2. CatalogueOK'
  BY <1>1, CatalogueStays DEF KInv
<1>3. \A doc : Spares(doc)
  BY <1>1, QuietSpares
<1>4. \A i \in Requests : requests'[i] # None => i # r /\ requests'[i] = requests[i]
  BY <1>1 DEF KInv, CatalogueOK
<1>5. RowsOK'
  <2>1. ASSUME NEW x, NEW other, x \in DOMAIN kms' /\ other = kms'[x]
        PROVE  RowOK(x, other)'
    <3>1. CASE x = k
      BY <2>1, <3>1
    <3>2. CASE x # k
      <4>1. x \in DOMAIN kms /\ other = kms[x]
        BY <2>1, <3>2
      <4>2. RowOK(x, other)
        BY <4>1 DEF KInv, RowsOK
      <4>3. QED
        BY <1>3, <3>2, <4>2, RowStays
    <3>3. QED
      BY <3>1, <3>2
  <2>2. QED
    BY <2>1 DEF RowsOK
<1>6. RequestsOK'
  <2>1. ASSUME NEW i \in Requests, NEW q, q = requests'[i] /\ q # None
        PROVE  \/ Shape(q) /\ Sound(q)'
               \/ /\ q = requests[i]
                  /\ \A doc \in Written(q) : Spares(doc)
                  /\ q.call = "merge" /\ q.target \in Mentions(q) => StaysCurated(q.target)
    BY <1>3, <1>4, <2>1, QuietCurated
  <2>2. RequestsOK
    BY DEF KInv
  <2>3. QED
    BY <2>1, <2>2, RequestsStay
<1>7. MergesOK'
  <2>1. ASSUME NEW i \in Requests, NEW q, NEW x, NEW other,
               q = requests'[i] /\ q # None /\ x \in DOMAIN kms' /\ other = kms'[x]
        PROVE  \/ Spared(q, x, other)'
               \/ q = requests[i] /\ x \in DOMAIN kms /\ other.content = kms[x].content
    <3>1. i # r /\ q = requests[i]
      BY <1>4, <2>1
    <3>2. CASE x # k
      BY <2>1, <3>1, <3>2
    <3>3. CASE x = k /\ SuggestedIn(row.content) \subseteq Mentions(requests[r])
      <4>1. q.call = "merge" => q.row \in Vanishing(r)
        BY <2>1, <3>1 DEF Vanishing, InProgress
      <4>2. q.call = "merge" /\ q.row \in SuggestedIn(other.content) => q.row \in excused'
        BY <1>1, <2>1, <3>3, <4>1
      <4>3. QED
        BY <4>2, SparedIfExcused
    <3>4. CASE x = k /\ k \in DOMAIN kms /\ row.content = kms[k].content
      BY <2>1, <3>1, <3>4
    <3>5. QED
      BY <3>2, <3>3, <3>4
  <2>2. MergesOK /\ excused \subseteq excused'
    BY <1>1 DEF KInv
  <2>3. QED
    BY <2>1, <2>2, MergesStay
<1>8. QED
  BY <1>2, <1>5, <1>6, <1>7 DEF KInv

(* What a request writes is as right when it commits. *)
LEMMA WrittenStays ==
    ASSUME NEW q, Sound(q), q.todo = {}, NEW doc \in Written(q), Spares(doc)
    PROVE  /\ doc \in Content /\ Existing(fers', excused', doc) /\ Cool(fers', clashing', doc)
           /\ q.call \in {"put", "publish"} \/ (q.call = "insert" /\ ~q.inherits) =>
                  Fits(fers', excused' \cup clashing', clashing', Holder(q), doc)
           /\ SuggestedIn(doc) \subseteq Mentions(q)
<1>1. Harmless(fers, fers', excused, excused', clashing, clashing', doc)
  BY DEF Spares
<1>2. /\ doc \in Content
      /\ Existing(fers, excused \cup {}, doc) /\ Cool(fers, clashing, doc)
      /\ q.call \in {"put", "publish"} \/ (q.call = "insert" /\ ~q.inherits) =>
             Fits(fers, excused \cup clashing \cup {}, clashing, Holder(q), doc)
  BY DEF Sound
<1>3. /\ Existing(fers', excused' \cup {}, doc) /\ Cool(fers', clashing', doc)
      /\ \A owner : Fits(fers, excused \cup clashing \cup {}, clashing, owner, doc) =>
                    Fits(fers', excused' \cup clashing' \cup {}, clashing', owner, doc)
  BY <1>1, <1>2, Carried
<1>4. excused' \cup {} = excused' /\ excused' \cup clashing' \cup {} = excused' \cup clashing'
  OBVIOUS
<1>5. SuggestedIn(doc) \subseteq Mentions(q)
  BY DEF Mentions
<1>6. QED
  BY <1>2, <1>3, <1>4, <1>5

LEMMA DoneSpares ==
    ASSUME NEW r, Done(r), UNCHANGED <<fers, clashing>>
    PROVE  \A doc : Spares(doc)
  BY QuietSpares DEF Done

LEMMA PutStep ==
    ASSUME KInv, NEW r \in Requests, requests[r] # None, CommitPut(r)
    PROVE  KInv'
<1> SUFFICES ASSUME NEW q, q = requests[r], NEW k, k = q.row, NEW row, row = kms'[k]
             PROVE  KInv'
  OBVIOUS
<1>1. /\ q.call = "put" /\ k \in DOMAIN kms /\ Done(r)
      /\ kms' = [kms EXCEPT ![k] = Rewritten(k, q.base, q.new)]
      /\ late' = LateAfter(k, q.base, q.new)
      /\ UNCHANGED <<fers, frozen, clashing>>
  BY DEF CommitPut
<1>2. Shape(q) /\ Sound(q)
  BY DEF KInv, RequestsOK
<1>3. RowOK(k, kms[k]) /\ kms[k] \in Row
  BY <1>1 DEF KInv, RowsOK, RowOK
<1>4. q.todo = {} /\ q.base \in Row /\ q.base.status = "draft" /\ Holder(q) = q.base.owner
  BY <1>1, <1>2 DEF Shape, Holder
<1>5. \A doc : Spares(doc)
  BY <1>1, DoneSpares
<1>6. q.new \in Written(q)
  BY <1>1, WrittenByCall
<1>7. /\ q.new \in Content /\ Existing(fers', excused', q.new) /\ Cool(fers', clashing', q.new)
      /\ Fits(fers', excused' \cup clashing', clashing', Holder(q), q.new)
      /\ SuggestedIn(q.new) \subseteq Mentions(q)
  BY <1>1, <1>2, <1>4, <1>5, <1>6, WrittenStays
<1>8. row = Rewritten(k, q.base, q.new)
  BY <1>1
<1>9. CASE q.new = q.base.content
  <2>1. row = kms[k] /\ late' = late
    BY <1>1, <1>8, <1>9 DEF Rewritten, LateAfter
  <2>2. RowOK(k, row)'
    BY <1>1, <1>3, <1>5, <2>1, RowStays
  <2>3. QED
    BY <1>1, <2>1, <2>2, CommitStep
<1>10. CASE q.new # q.base.content
  <2>1. /\ row \in Row /\ row.content = q.new
        /\ row.owner = kms[k].owner /\ row.status = kms[k].status
    BY <1>3, <1>7, <1>8, <1>10 DEF Rewritten, Row
  <2>2. ASSUME k \notin late'
        PROVE  row.owner = Holder(q) /\ row.status = "draft"
    BY <1>1, <1>4, <1>10, <2>1, <2>2 DEF LateAfter, Overtaken
  <2>3. RowOK(k, row)'
    BY <1>7, <2>1, <2>2 DEF RowOK
  <2>4. \A x : x # k /\ x \notin late' => x \notin late
    BY <1>1 DEF LateAfter
  <2>5. QED
    BY <1>1, <1>7, <2>1, <2>3, <2>4, CommitStep
<1>11. QED
  BY <1>9, <1>10

LEMMA InsertStep ==
    ASSUME KInv, NEW r \in Requests, requests[r] # None, CommitInsert(r)
    PROVE  KInv'
<1> SUFFICES ASSUME NEW q, q = requests[r], NEW k, k = q.row, NEW row, row = q.new
             PROVE  KInv'
  OBVIOUS
<1>1. /\ q.call = "insert" /\ k \notin DOMAIN kms /\ Done(r)
      /\ kms' = Set(kms, k, row)
      /\ late' = IF q.inherits THEN late \cup {k} ELSE late \ {k}
      /\ UNCHANGED <<fers, frozen, clashing>>
  BY DEF CommitInsert
<1>2. Shape(q) /\ Sound(q)
  BY DEF KInv, RequestsOK
<1>3. q.todo = {} /\ row \in Row /\ row.status = "draft" /\ row.owner = Holder(q)
  BY <1>1, <1>2 DEF Shape, Holder
<1>4. row.content \in Written(q)
  BY <1>1, WrittenByCall
<1>5. \A doc : Spares(doc)
  BY <1>1, DoneSpares
<1>6. /\ Existing(fers', excused', row.content) /\ Cool(fers', clashing', row.content)
      /\ ~q.inherits => Fits(fers', excused' \cup clashing', clashing', Holder(q), row.content)
      /\ SuggestedIn(row.content) \subseteq Mentions(q)
  BY <1>1, <1>2, <1>3, <1>4, <1>5, WrittenStays
<1>7. RowOK(k, row)'
  BY <1>1, <1>3, <1>6 DEF RowOK
<1>8. /\ DOMAIN kms' = DOMAIN kms \cup {k} /\ kms'[k] = row
      /\ \A x \in DOMAIN kms : x # k => kms'[x] = kms[x]
  BY <1>1 DEF Set
<1>9. \A x : x # k /\ x \notin late' => x \notin late
  BY <1>1
<1>10. QED
  BY <1>1, <1>6, <1>7, <1>8, <1>9, CommitStep

LEMMA PublishedStep ==
    ASSUME KInv, NEW r \in Requests, requests[r] # None, CommitPublish(r)
    PROVE  KInv'
<1> SUFFICES ASSUME NEW q, q = requests[r], NEW k, k = q.row, NEW row, row = kms'[k]
             PROVE  KInv'
  OBVIOUS
<1>1. /\ q.call = "publish" /\ q.todo = {} /\ k \in DOMAIN kms /\ Done(r)
      /\ kms' = [kms EXCEPT ![k].status = "published", ![k].content = q.new, ![k].sha = q.new]
      /\ frozen' = Set(frozen, k, q.new)
      /\ late' = IF Overtaken(k, q.base) THEN late \cup {k} ELSE late \ {k}
      /\ UNCHANGED <<fers, clashing>>
  BY DEF CommitPublish
<1>2. Shape(q) /\ Sound(q)
  BY DEF KInv, RequestsOK
<1>3. RowOK(k, kms[k]) /\ kms[k] \in Row
  BY <1>1 DEF KInv, RowsOK, RowOK
<1>4. q.base \in Row /\ q.base.status = "draft" /\ Holder(q) = q.base.owner
  BY <1>1, <1>2 DEF Shape, Holder
<1>5. \A doc : Spares(doc)
  BY <1>1, DoneSpares
<1>6. q.new \in Written(q)
  BY <1>1, WrittenByCall
<1>7. /\ q.new \in Content /\ Existing(fers', excused', q.new) /\ Cool(fers', clashing', q.new)
      /\ Fits(fers', excused' \cup clashing', clashing', Holder(q), q.new)
      /\ SuggestedIn(q.new) \subseteq Mentions(q)
  BY <1>1, <1>2, <1>5, <1>6, WrittenStays
<1>8. row = [kms[k] EXCEPT !.status = "published", !.content = q.new, !.sha = q.new]
  BY <1>1
<1>9. row \in Row /\ row.content = q.new /\ row.owner = kms[k].owner
  BY <1>3, <1>7, <1>8 DEF Row
<1>10. k \notin late' => row.owner = Holder(q)
  BY <1>1, <1>4, <1>9 DEF Overtaken
<1>11. k \in DOMAIN frozen' /\ frozen'[k] = q.new
  BY <1>1 DEF Set
<1>12. RowOK(k, row)'
  BY <1>7, <1>9, <1>10, <1>11 DEF RowOK
<1>13. /\ \A x : x # k /\ x \notin late' => x \notin late
       /\ \A x : x # k /\ x \in DOMAIN frozen => x \in DOMAIN frozen' /\ frozen'[x] = frozen[x]
  BY <1>1 DEF Set
<1>14. DOMAIN kms' = DOMAIN kms \cup {k} /\ \A x \in DOMAIN kms : x # k => kms'[x] = kms[x]
  BY <1>1
<1>15. QED
  BY <1>1, <1>7, <1>9, <1>12, <1>13, <1>14, CommitStep

LEMMA PatchedStep ==
    ASSUME KInv, NEW r \in Requests, requests[r] # None, CommitPatch(r)
    PROVE  KInv'
<1> SUFFICES ASSUME NEW q, q = requests[r], NEW k, k = q.row, NEW row, row = kms'[k],
                    NEW doc, doc = q.new.content, NEW old, old = kms[k]
             PROVE  KInv'
  OBVIOUS
<1> DEFINE claims == q.base.owner = None /\ ~q.base.system
<1>1. /\ q.call = "patch" /\ k \in DOMAIN kms /\ Done(r)
      /\ kms' = [kms EXCEPT ![k] =
           [Rewritten(k, q.base, doc) EXCEPT
               !.owner = IF claims THEN q.user ELSE @,
               !.visibility = IF q.new.visibility = q.base.visibility THEN @
                              ELSE q.new.visibility]]
      /\ late' = LateAfter(k, q.base, doc) \cup {x \in {k} : claims /\ old.owner # None}
      /\ UNCHANGED <<fers, frozen, clashing>>
  BY DEF CommitPatch
<1>2. Shape(q) /\ Sound(q)
  BY DEF KInv, RequestsOK
<1>3. RowOK(k, old) /\ old \in Row
  BY <1>1 DEF KInv, RowsOK, RowOK
<1>4. /\ q.todo = {} /\ q.base \in Row /\ q.user \in Users
      /\ q.new \in [visibility : {"private", "public"}, content : Content]
      /\ SuggestedIn(doc) = SuggestedIn(q.base.content)
      /\ InlineIds(doc) = InlineIds(q.base.content)
      /\ doc # q.base.content => q.base.status = "draft"
      /\ claims => q.user \in Admins
  BY <1>1, <1>2 DEF Shape
<1>5. \A x : Spares(x)
  BY <1>1, DoneSpares
<1>6. doc \in Written(q)
  BY <1>1, WrittenByCall
<1>7. /\ doc \in Content /\ Existing(fers', excused', doc) /\ Cool(fers', clashing', doc)
      /\ SuggestedIn(doc) \subseteq Mentions(q)
  BY <1>1, <1>2, <1>4, <1>5, <1>6, WrittenStays
<1>8. PICK mid : /\ mid \in Row /\ mid.owner = old.owner /\ mid.status = old.status
                 /\ mid.content = IF doc = q.base.content THEN old.content ELSE doc
                 /\ row = [mid EXCEPT !.owner = IF claims THEN q.user ELSE @]
  <2> DEFINE new == Rewritten(k, q.base, doc)
             mid == [new EXCEPT !.visibility = IF q.new.visibility = q.base.visibility THEN @
                                               ELSE q.new.visibility]
  <2>1. /\ new \in Row /\ new.owner = old.owner /\ new.status = old.status
        /\ new.content = IF doc = q.base.content THEN old.content ELSE doc
    BY <1>3, <1>7 DEF Rewritten, Row
  <2>2. row = [new EXCEPT
                  !.owner = IF claims THEN q.user ELSE @,
                  !.visibility = IF q.new.visibility = q.base.visibility THEN @
                                 ELSE q.new.visibility]
    BY <1>1
  <2> HIDE DEF new
  <2>3. mid \in Row
    BY <1>4, <2>1 DEF Row
  <2>4. mid.owner = old.owner /\ mid.status = old.status /\ mid.content = new.content
    BY <2>1 DEF Row
  <2>5. row = [mid EXCEPT !.owner = IF claims THEN q.user ELSE @]
    BY <2>1, <2>2 DEF Row
  <2> HIDE DEF mid
  <2>6. QED
    BY <2>1, <2>3, <2>4, <2>5
<1>9. row = [mid EXCEPT !.owner = IF claims THEN q.user ELSE @]
  BY <1>8
<1>10. /\ row \in Row /\ row.status = old.status /\ row.content = mid.content
       /\ row.owner = IF claims THEN q.user ELSE old.owner
  <2> HIDE DEF claims
  <2>1. CASE claims
    <3>1. row = [mid EXCEPT !.owner = q.user]
      BY <1>9, <2>1
    <3>2. mid \in Row /\ q.user \in Users
      BY <1>4, <1>8
    <3>3. /\ row \in Row /\ row.status = mid.status /\ row.content = mid.content
          /\ row.owner = q.user
      BY <3>1, <3>2 DEF Row
    <3>4. QED
      BY <1>8, <2>1, <3>3
  <2>2. CASE ~claims
    <3>1. row = [mid EXCEPT !.owner = mid.owner]
      BY <1>9, <2>2
    <3>2. [mid EXCEPT !.owner = mid.owner] = mid
      BY <1>8 DEF Row
    <3>3. row = mid
      BY <3>1, <3>2
    <3>4. QED
      BY <1>8, <2>2, <3>3
  <2>3. QED
    BY <2>1, <2>2
<1> HIDE DEF claims
<1>11. RowOK(k, row)'
  <2>1. CASE k \in late'
    <3>1. Existing(fers', excused', row.content) /\ Cool(fers', clashing', row.content)
      <4>1. RowOK(k, old)'
        <5>1. k \in late => k \in late'
          BY <1>1 DEF LateAfter
        <5>2. QED
          BY <1>1, <1>3, <1>5, <2>1, <5>1, RowStays
      <4>2. QED
        BY <1>7, <1>8, <1>10, <4>1 DEF RowOK
    <3>2. QED
      BY <1>10, <2>1, <3>1 DEF RowOK
  <2>2. CASE k \notin late'
    <3>1. k \notin late /\ (claims => old.owner = None)
      BY <1>1, <2>2 DEF LateAfter
    <3>2. RowOK(k, mid)
      <4>1. CASE doc = q.base.content
        BY <1>3, <1>8, <4>1 DEF RowOK
      <4>2. CASE doc # q.base.content
        <5>1. ~Overtaken(k, q.base)
          BY <1>1, <2>2, <4>2 DEF LateAfter
        <5>2. old.content = q.base.content /\ old.status = "draft"
          BY <1>4, <4>2, <5>1 DEF Overtaken
        <5>3. /\ Existing(fers, excused, doc) /\ Cool(fers, clashing, doc)
              /\ Fits(fers, excused \cup clashing, clashing, old.owner, doc)
          BY <1>3, <1>4, <3>1, <5>2 DEF RowOK, Existing, Cool, Fits
        <5>4. QED
          BY <1>8, <4>2, <5>2, <5>3 DEF RowOK
      <4>3. QED
        BY <4>1, <4>2
    <3>3. RowOK(k, row)
      <4>1. CASE claims
        <5>1. mid.owner = None /\ q.user \in Admins /\ row = [mid EXCEPT !.owner = q.user]
          BY <1>4, <1>8, <1>9, <3>1, <4>1
        <5>2. q.user \in Users
          BY <1>4
        <5>3. QED
          BY <3>2, <5>1, <5>2, RowTaken
      <4>2. CASE ~claims
        <5>1. row = mid
          <6>1. row = [mid EXCEPT !.owner = mid.owner]
            BY <1>9, <4>2
          <6>2. [mid EXCEPT !.owner = mid.owner] = mid
            BY <1>8 DEF Row
          <6>3. QED
            BY <6>1, <6>2
        <5>2. QED
          BY <3>2, <5>1
      <4>3. QED
        BY <4>1, <4>2
    <3>4. QED
      BY <1>1, <1>5, <2>2, <3>1, <3>3, RowStays
  <2>3. QED
    BY <2>1, <2>2
<1>12. \A x : x # k /\ x \notin late' => x \notin late
  BY <1>1 DEF LateAfter
<1>13. \/ row.content = kms[k].content
       \/ SuggestedIn(row.content) \subseteq Mentions(requests[r])
  BY <1>7, <1>8, <1>10
<1>14. /\ DOMAIN kms' = DOMAIN kms \cup {k} /\ \A x \in DOMAIN kms : x # k => kms'[x] = kms[x]
       /\ kms'[k] = row
  BY <1>1
<1>15. QED
  BY <1>1, <1>11, <1>12, <1>13, <1>14, CommitStep

LEMMA MergedStep ==
    ASSUME KInv, NEW r \in Requests, requests[r] # None, CommitMerge(r)
    PROVE  KInv'
<1> SUFFICES ASSUME NEW q, q = requests[r], NEW from, from = q.row
             PROVE  KInv'
  OBVIOUS
<1>1. /\ q.call = "merge" /\ DOMAIN q.new \subseteq DOMAIN kms
      /\ kms' = [k \in DOMAIN kms |-> Merged(k, q)]
      /\ fers' = Without(fers, {from})
      /\ frozen' = [k \in DOMAIN frozen |->
             IF k \in DOMAIN q.new THEN Repoint(frozen[k], from, q.target) ELSE frozen[k]]
      /\ late' = late \cup {k \in DOMAIN q.new : Overtaken(k, q.base[k])}
      /\ requests' = [requests EXCEPT ![r] = None]
      /\ UNCHANGED <<accounts, clashing>>
  BY DEF CommitMerge
<1>2. excused' = excused \cup (Mentions(q) \cap Vanishing(r))
                         \cup (IF \E i \in InProgress \ {r} : from \in Mentions(requests[i])
                               THEN {from} ELSE {})
  BY Zenon DEF CommitMerge
<1>3. CatalogueOK /\ RowsOK /\ Shape(q) /\ Sound(q)
  BY DEF KInv, RequestsOK
<1>4. /\ q.todo = {} /\ q.target \in Fers /\ from \notin Seeds /\ from # q.target
      /\ \A k \in DOMAIN q.new : /\ q.base[k] \in Row
                                 /\ q.new[k] = Repoint(q.base[k].content, from, q.target)
  BY <1>1, <1>3 DEF Shape
<1>5. /\ DOMAIN fers' = DOMAIN fers \ {from}
      /\ \A f \in DOMAIN fers \ {from} : fers'[f] = fers[f]
  BY <1>1 DEF Without
<1>6. ASSUME NEW doc,
             from \in SuggestedIn(doc) => from \in InlineIds(doc) \cup excused'
      PROVE  Spares(doc)
  BY <1>1, <1>2, <1>5, <1>6 DEF Spares, Harmless, SameFer
<1>7. CatalogueOK'
  <2>1. \A f \in DOMAIN fers' : fers'[f] \in [source : Sources, owner : Users \cup {None}]
    BY <1>3, <1>5 DEF CatalogueOK
  <2>2. \A f \in Seeds : f \in DOMAIN fers' /\ fers'[f].source = "seed"
    BY <1>3, <1>4, <1>5 DEF CatalogueOK
  <2>3. DOMAIN fers' \subseteq Fers /\ accounts' \subseteq Users
    BY <1>1, <1>3, <1>5 DEF CatalogueOK
  <2>4. DOMAIN requests' = Requests /\ requests' = [i \in Requests |-> requests'[i]]
    BY <1>1, <1>3 DEF CatalogueOK
  <2>5. QED
    BY <2>1, <2>2, <2>3, <2>4 DEF CatalogueOK
<1>8. ASSUME NEW k \in DOMAIN q.new
      PROVE  /\ q.new[k] \in Written(q) /\ q.base[k].content \in Content
             /\ InlineIds(q.new[k]) = InlineIds(q.base[k].content)
             /\ SuggestedIn(q.new[k]) \subseteq (SuggestedIn(q.base[k].content) \ {from}) \cup {q.target}
             /\ SuggestedIn(q.new[k]) \subseteq Mentions(q)
             /\ Spares(q.new[k])
             /\ q.new[k] \in Content
             /\ Existing(fers', excused', q.new[k]) /\ Cool(fers', clashing', q.new[k])
  <2>1. q.new[k] \in Written(q)
    BY <1>1, MergeWrites
  <2>2. q.base[k].content \in Content
    BY <1>4 DEF Row
  <2>3. /\ InlineIds(q.new[k]) = InlineIds(q.base[k].content)
        /\ SuggestedIn(q.new[k]) \subseteq (SuggestedIn(q.base[k].content) \ {from}) \cup {q.target}
    BY <1>4, <2>2, RepointedDocument
  <2>4. Spares(q.new[k])
    BY <1>4, <1>6, <2>3
  <2>5. QED
    BY <1>3, <1>4, <2>1, <2>2, <2>3, <2>4, WrittenStays
<1>9. ASSUME NEW k \in DOMAIN q.new, NEW row, row = kms'[k]
      PROVE  RowOK(k, row)'
  <2>1. row = [kms[k] EXCEPT !.content = q.new[k], !.sha = q.new[k]]
    BY <1>1, <1>9 DEF Merged
  <2>2. RowOK(k, kms[k]) /\ kms[k] \in Row
    BY <1>1, <1>3 DEF RowsOK, RowOK
  <2>3. /\ row \in Row /\ row.content = q.new[k]
        /\ row.owner = kms[k].owner /\ row.status = kms[k].status
    BY <1>8, <2>1, <2>2 DEF Row
  <2>4. ASSUME k \notin late'
        PROVE  /\ Fits(fers', excused' \cup clashing', clashing', row.owner, row.content)
               /\ row.status = "published" => k \in DOMAIN frozen' /\ row.content = frozen'[k]
    <3>1. k \notin late /\ kms[k].content = q.base[k].content
      BY <1>1, <2>4 DEF Overtaken
    <3>2. /\ Fits(fers, excused \cup clashing, clashing, row.owner, kms[k].content)
          /\ row.status = "published" => k \in DOMAIN frozen /\ kms[k].content = frozen[k]
      BY <2>2, <2>3, <3>1 DEF RowOK
    <3>3. ASSUME q.target \in SuggestedIn(q.new[k])
          PROVE  q.target \in excused \cup clashing \/ Usable(fers, row.owner, q.target)
      BY <1>1, <1>3, <1>8, <3>3 DEF Sound, Usable, Offered, Sources
    <3>4. Fits(fers, excused \cup clashing \cup {}, clashing, row.owner, row.content)
      BY <1>8, <2>3, <3>1, <3>2, <3>3 DEF Fits
    <3>5. Harmless(fers, fers', excused, excused', clashing, clashing', row.content)
      BY <1>8, <2>3 DEF Spares
    <3>6. Fits(fers', excused' \cup clashing' \cup {}, clashing', row.owner, row.content)
      BY <3>4, <3>5, Carried
    <3>7. row.status = "published" => k \in DOMAIN frozen' /\ row.content = frozen'[k]
      BY <1>1, <1>4, <2>3, <3>1, <3>2
    <3>8. excused' \cup clashing' \cup {} = excused' \cup clashing'
      OBVIOUS
    <3>9. QED
      BY <3>6, <3>7, <3>8
  <2>5. QED
    BY <1>8, <2>3, <2>4 DEF RowOK
<1>10. ASSUME NEW k \in DOMAIN kms \ DOMAIN q.new
       PROVE  kms'[k] = kms[k] /\ RowOK(k, kms[k])'
  <2>1. kms'[k] = kms[k]
    BY <1>1 DEF Merged
  <2> SUFFICES ASSUME NEW row, row = kms[k] PROVE RowOK(k, row)'
    BY <2>1
  <2>2. RowOK(k, row)
    BY <1>3 DEF RowsOK
  <2>3. Spared(q, k, row)
    BY DEF KInv, MergesOK
  <2>4. Spares(row.content)
    BY <1>1, <1>2, <1>6, <2>3 DEF Spared
  <2>5. QED
    BY <1>1, <2>2, <2>4, RowStays
<1>11. RowsOK'
  BY <1>1, <1>9, <1>10 DEF RowsOK
<1>12. ASSUME NEW i \in Requests, NEW other, other = requests'[i] /\ other # None
       PROVE  /\ i # r /\ other = requests[i]
              /\ from \in Mentions(other) => from \in excused'
              /\ other.call = "merge" => other.row \in Vanishing(r)
  <2>1. i # r /\ other = requests[i] /\ i \in InProgress \ {r}
    BY <1>1, <1>3, <1>12 DEF CatalogueOK, InProgress
  <2>2. from \in Mentions(other) => from \in excused'
    BY <1>2, <2>1
  <2>3. other.call = "merge" => other.row \in Vanishing(r)
    BY <2>1 DEF Vanishing
  <2>4. QED
    BY <2>1, <2>2, <2>3
<1>13. RequestsOK'
  <2>1. ASSUME NEW i \in Requests, NEW other, other = requests'[i] /\ other # None
        PROVE  \/ Shape(other) /\ Sound(other)'
               \/ /\ other = requests[i]
                  /\ \A doc \in Written(other) : Spares(doc)
                  /\ other.call = "merge" /\ other.target \in Mentions(other) => StaysCurated(other.target)
    <3>1. \A doc \in Written(other) : Spares(doc)
      BY <1>6, <1>12, <2>1 DEF Mentions
    <3>2. other.target \in Mentions(other) => StaysCurated(other.target)
      BY <1>5, <1>12, <2>1 DEF StaysCurated
    <3>3. QED
      BY <1>12, <2>1, <3>1, <3>2
  <2>2. RequestsOK
    BY DEF KInv
  <2>3. QED
    BY <2>1, <2>2, RequestsStay
<1>14. MergesOK'
  <2>1. ASSUME NEW i \in Requests, NEW other, NEW k, NEW row,
               other = requests'[i] /\ other # None /\ k \in DOMAIN kms' /\ row = kms'[k]
        PROVE  \/ Spared(other, k, row)'
               \/ other = requests[i] /\ k \in DOMAIN kms /\ row.content = kms[k].content
    <3>1. CASE k \in DOMAIN q.new
      <4>1. row.content = q.new[k]
        <5>1. row = [kms[k] EXCEPT !.content = q.new[k], !.sha = q.new[k]]
          BY <1>1, <2>1, <3>1 DEF Merged
        <5>2. kms[k] \in Row
          BY <1>1, <1>3, <3>1 DEF RowsOK, RowOK
        <5>3. QED
          BY <5>1, <5>2 DEF Row
      <4>2. other.call = "merge" /\ other.row \in SuggestedIn(row.content) => other.row \in excused'
        BY <1>2, <1>8, <1>12, <2>1, <3>1, <4>1
      <4>3. QED
        BY <4>2, SparedIfExcused
    <3>2. CASE k \notin DOMAIN q.new
      BY <1>1, <1>10, <1>12, <2>1, <3>2
    <3>3. QED
      BY <3>1, <3>2
  <2>2. MergesOK /\ excused \subseteq excused'
    BY <1>2 DEF KInv
  <2>3. QED
    BY <2>1, <2>2, MergesStay
<1>15. QED
  BY <1>7, <1>11, <1>13, <1>14 DEF KInv

(* A failed request leaves what it has committed. *)
LEMMA AbortStep ==
    ASSUME KInv, NEW r \in Requests, Abort(r)
    PROVE  KInv'
<1>1. /\ requests' = [requests EXCEPT ![r] = None]
      /\ UNCHANGED <<kms, fers, accounts, frozen, late, excused, clashing>>
  BY DEF Abort, history
<1>2. QED
  BY <1>1, BeginStep

LEMMA PromoteStagedStep ==
    ASSUME KInv, NEW r \in Requests, NEW f \in Fers, requests[r] # None, PromoteStaged(r, f)
    PROVE  KInv'
<1> SUFFICES ASSUME NEW q, q = requests[r], NEW next, next = [q EXCEPT !.todo = q.todo \ {f}]
             PROVE  KInv'
  OBVIOUS
<1>1. /\ q.call = "publish" /\ f \in q.todo
      /\ fers' = IF f \in DOMAIN fers THEN fers
                 ELSE Set(fers, f, [source |-> "model", owner |-> q.base.owner])
      /\ clashing' = IF f \in DOMAIN fers /\ fers[f].source # "model" THEN clashing \cup {f}
                     ELSE clashing
      /\ UNCHANGED <<kms, accounts, frozen, late, excused>>
  BY DEF PromoteStaged
<1>2. requests' = [requests EXCEPT ![r] = next]
  BY DEF PromoteStaged
<1>3. CatalogueOK /\ RowsOK /\ Shape(q) /\ Sound(q)
  BY DEF KInv, RequestsOK
<1>4. /\ next.call = "publish" /\ next.user = q.user /\ next.new = q.new /\ next.base = q.base
      /\ next.todo = q.todo \ {f} /\ next.inherits = q.inherits /\ Whole(next)
  BY <1>1, <1>3 DEF Shape, Whole
<1>5. /\ DOMAIN fers' = DOMAIN fers \cup {f}
      /\ \A x \in DOMAIN fers : fers'[x] = fers[x]
      /\ f \notin DOMAIN fers => fers'[f].source = "model" /\ fers'[f].owner = q.base.owner
      /\ f \notin DOMAIN fers => fers'[f] = [source |-> "model", owner |-> q.base.owner]
  BY <1>1 DEF Set
<1>6. \A doc : Spares(doc)
  BY <1>1, <1>5 DEF Spares, Harmless, SameFer
<1>7. CatalogueOK'
  <2>1. q.base.owner \in Users \cup {None}
    BY <1>1, <1>3 DEF Shape, Row
  <2>2. \A x \in DOMAIN fers' : fers'[x] \in [source : Sources, owner : Users \cup {None}]
    BY <1>3, <1>5, <2>1 DEF CatalogueOK, Sources
  <2>3. \A x \in Seeds : x \in DOMAIN fers' /\ fers'[x].source = "seed"
    BY <1>3, <1>5 DEF CatalogueOK
  <2>4. DOMAIN fers' \subseteq Fers /\ accounts' \subseteq Users
    BY <1>1, <1>3, <1>5 DEF CatalogueOK
  <2>5. DOMAIN requests' = Requests /\ requests' = [i \in Requests |-> requests'[i]]
    BY <1>2, <1>3 DEF CatalogueOK
  <2>6. QED
    BY <2>2, <2>3, <2>4, <2>5 DEF CatalogueOK
<1>8. RowsOK'
  <2>1. ASSUME NEW k, NEW row, k \in DOMAIN kms' /\ row = kms'[k]
        PROVE  RowOK(k, row)'
    <3>1. RowOK(k, row)
      BY <1>1, <1>3, <2>1 DEF RowsOK
    <3>2. QED
      BY <1>1, <1>6, <3>1, RowStays
  <2>2. QED
    BY <2>1 DEF RowsOK
<1>9. Shape(next)
  BY <1>1, <1>3, <1>4 DEF Shape
<1>10. Sound(next)'
  <2>1. Written(q) = {q.new} /\ Written(next) = {q.new}
    BY <1>1, <1>4, WrittenByCall
  <2>2. /\ q.new \in Content
        /\ Existing(fers, excused \cup q.todo, q.new) /\ Cool(fers, clashing, q.new)
        /\ Fits(fers, excused \cup clashing \cup q.todo, clashing, Holder(q), q.new)
    BY <1>1, <1>3, <2>1 DEF Sound
  <2>3. /\ Existing(fers', excused' \cup q.todo, q.new) /\ Cool(fers', clashing', q.new)
        /\ Fits(fers', excused' \cup clashing' \cup q.todo, clashing', Holder(q), q.new)
    BY <1>6, <2>2, Carried DEF Spares
  <2>4. Existing(fers', excused' \cup (q.todo \ {f}), q.new)
    BY <1>5, <2>3 DEF Existing
  <2>5. f \in clashing' \/ Usable(fers', Holder(q), f)
    BY <1>1, <1>5 DEF Usable, Offered, Sources
  <2>6. Fits(fers', excused' \cup clashing' \cup (q.todo \ {f}), clashing', Holder(q), q.new)
    BY <2>3, <2>5 DEF Fits
  <2>7. Holder(next) = Holder(q)
    BY <1>1, <1>4 DEF Holder
  <2>8. QED
    BY <1>4, <2>1, <2>2, <2>3, <2>4, <2>6, <2>7 DEF Sound
<1>11. \A i \in Requests : requests'[i] = requests[i] \/ requests'[i] = next
  BY <1>2, <1>3 DEF CatalogueOK
<1>12. RequestsOK'
  <2>1. ASSUME NEW i \in Requests, NEW other, other = requests'[i] /\ other # None
        PROVE  \/ Shape(other) /\ Sound(other)'
               \/ /\ other = requests[i]
                  /\ \A doc \in Written(other) : Spares(doc)
                  /\ other.call = "merge" /\ other.target \in Mentions(other) => StaysCurated(other.target)
    <3>1. CASE other = next
      BY <1>9, <1>10, <3>1
    <3>2. CASE other = requests[i]
      <4>1. StaysCurated(other.target)
        BY <1>5 DEF StaysCurated
      <4>2. QED
        BY <1>6, <3>2, <4>1
    <3>3. QED
      BY <1>11, <2>1, <3>1, <3>2
  <2>2. RequestsOK
    BY DEF KInv
  <2>3. QED
    BY <2>1, <2>2, RequestsStay
<1>13. MergesOK'
  <2>1. ASSUME NEW i \in Requests, NEW other, NEW k, NEW row,
               other = requests'[i] /\ other # None /\ k \in DOMAIN kms' /\ row = kms'[k]
        PROVE  \/ Spared(other, k, row)'
               \/ other = requests[i] /\ k \in DOMAIN kms /\ row.content = kms[k].content
    <3>1. CASE other = next
      <4>1. Spared(other, k, row)
        BY <1>4, <3>1, NotAMerge
      <4>2. QED
        BY <1>4, <3>1 DEF Spared
    <3>2. CASE other = requests[i]
      BY <1>1, <2>1, <3>2
    <3>3. QED
      BY <1>11, <2>1, <3>1, <3>2
  <2>2. MergesOK /\ excused \subseteq excused'
    BY <1>1 DEF KInv
  <2>3. QED
    BY <2>1, <2>2, MergesStay
<1>14. QED
  BY <1>7, <1>8, <1>12, <1>13 DEF KInv

-----------------------------------------------------------------------------
(* The single steps, which leave the requests under way as they are *)

LEMMA OutsideStep ==
    ASSUME KInv, CatalogueOK', RowsOK', UNCHANGED requests, excused \subseteq excused',
           \A i \in Requests : \A q : q = requests[i] /\ q # None =>
               /\ \A doc \in Written(q) : Spares(doc)
               /\ StaysCurated(q.target),
           \A k \in DOMAIN kms' :
               \/ k \in DOMAIN kms /\ kms'[k].content = kms[k].content
               \/ \A fer \in SuggestedIn(kms'[k].content) :
                      fer \in InlineIds(kms'[k].content) \cup Seeds
    PROVE  KInv'
<1>1. RequestsOK'
  <2>1. RequestsOK
    BY DEF KInv
  <2>2. \A i \in Requests : \A q : q = requests'[i] /\ q # None =>
               \/ Shape(q) /\ Sound(q)'
               \/ /\ q = requests[i]
                  /\ \A doc \in Written(q) : Spares(doc)
                  /\ q.call = "merge" /\ q.target \in Mentions(q) => StaysCurated(q.target)
    OBVIOUS
  <2>3. QED
    BY <2>1, <2>2, RequestsStay
<1>2. MergesOK'
  <2>1. ASSUME NEW i \in Requests, NEW q, NEW k, NEW row,
               q = requests'[i] /\ q # None /\ k \in DOMAIN kms' /\ row = kms'[k]
        PROVE  \/ Spared(q, k, row)'
               \/ q = requests[i] /\ k \in DOMAIN kms /\ row.content = kms[k].content
    <3>1. CASE k \in DOMAIN kms /\ row.content = kms[k].content
      BY <2>1, <3>1
    <3>2. CASE \A fer \in SuggestedIn(row.content) : fer \in InlineIds(row.content) \cup Seeds
      <4>1. Shape(q)
        BY <2>1 DEF KInv, RequestsOK
      <4>2. q.call = "merge" => q.row \notin Seeds
        BY <4>1 DEF Shape
      <4>3. q.call = "merge" /\ q.row \in SuggestedIn(row.content) => q.row \in InlineIds(row.content)
        BY <3>2, <4>2
      <4>4. QED
        BY <4>3, SparedIfExcused
    <3>3. QED
      BY <2>1, <3>1, <3>2
  <2>2. MergesOK
    BY DEF KInv
  <2>3. QED
    BY <2>1, <2>2, MergesStay
<1>3. QED
  BY <1>1, <1>2 DEF KInv

(* A FER enters the catalogue, or becomes known to all: those who stage it *)
(* are marked.                                                             *)
LEMMA ExplicitStep ==
    ASSUME KInv, NEW f \in Fers, NEW source \in Sources, NEW owner \in Users \cup {None},
           Explicit(f, [source |-> source, owner |-> owner]),
           \/ f \notin DOMAIN fers
           \/ source = "user-promoted" /\ fers[f].source \notin {"seed", "user-promoted"}
    PROVE  KInv'
<1>1. /\ fers' = Set(fers, f, [source |-> source, owner |-> owner])
      /\ clashing \subseteq clashing' /\ (StagedAnywhere(f) => f \in clashing')
      /\ UNCHANGED <<kms, accounts, requests, frozen, late, excused>>
  BY DEF Explicit
<1>2. /\ DOMAIN fers' = DOMAIN fers \cup {f}
      /\ fers'[f] = [source |-> source, owner |-> owner]
      /\ \A x \in DOMAIN fers : x # f => fers'[x] = fers[x]
  BY <1>1 DEF Set
<1>3. CatalogueOK /\ RowsOK
  BY DEF KInv
<1>4. f \notin Seeds
  BY <1>3 DEF CatalogueOK
<1>5. CatalogueOK'
  <2>1. [source |-> source, owner |-> owner] \in [source : Sources, owner : Users \cup {None}]
    OBVIOUS
  <2>2. \A x \in DOMAIN fers' : fers'[x] \in [source : Sources, owner : Users \cup {None}]
    BY <1>2, <1>3, <2>1 DEF CatalogueOK
  <2>3. \A x \in Seeds : x \in DOMAIN fers' /\ fers'[x].source = "seed"
    BY <1>2, <1>3, <1>4 DEF CatalogueOK
  <2>4. QED
    BY <1>1, <1>2, <1>3, <2>2, <2>3 DEF CatalogueOK
<1>6. ASSUME NEW doc, f \in InlineIds(doc) => f \in clashing'
      PROVE  Spares(doc)
  <2>1. ASSUME NEW x \in DOMAIN fers \cap DOMAIN fers'
        PROVE  fers'[x].source \in Offered \/ SameFer(fers, fers', x)
    BY <1>2, <2>1 DEF Offered, Sources, SameFer
  <2>2. ASSUME NEW x \in InlineIds(doc) \cap DOMAIN fers'
        PROVE  \/ x \in clashing' \/ fers'[x].source = "model"
               \/ x \in DOMAIN fers /\ SameFer(fers, fers', x)
    BY <1>2, <1>6, <2>2 DEF SameFer
  <2>3. QED
    BY <1>1, <1>2, <2>1, <2>2 DEF Spares, Harmless
<1>7. RowsOK'
  <2>1. ASSUME NEW k, NEW row, k \in DOMAIN kms' /\ row = kms'[k]
        PROVE  RowOK(k, row)'
    <3>1. RowOK(k, row)
      BY <1>1, <1>3, <2>1 DEF RowsOK
    <3>2. Spares(row.content)
      BY <1>1, <1>6, <2>1 DEF StagedAnywhere
    <3>3. QED
      BY <1>1, <3>1, <3>2, RowStays
  <2>2. QED
    BY <2>1 DEF RowsOK
<1>8. ASSUME NEW i \in Requests, NEW q, q = requests[i] /\ q # None
      PROVE  (\A doc \in Written(q) : Spares(doc)) /\ StaysCurated(q.target)
  <2>1. ASSUME NEW doc \in Written(q) PROVE Spares(doc)
    BY <1>1, <1>6, <1>8 DEF StagedAnywhere, InProgress
  <2>2. StaysCurated(q.target)
    BY <1>2 DEF StaysCurated, Curated
  <2>3. QED
    BY <2>1, <2>2
<1>9. QED
  BY <1>1, <1>5, <1>7, <1>8, OutsideStep

LEMMA CreateFerStep ==
    ASSUME KInv, NEW u \in Users, NEW f \in Fers, CreateFer(u, f)
    PROVE  KInv'
<1>1. f \notin DOMAIN fers /\ Explicit(f, [source |-> "user", owner |-> u])
  BY DEF CreateFer
<1>2. QED
  BY <1>1, ExplicitStep DEF Sources

LEMMA NetworkFerStep ==
    ASSUME KInv, NEW f \in Fers, NEW owner \in Users \cup {None}, NetworkFer(f, owner)
    PROVE  KInv'
<1>1. f \notin DOMAIN fers /\ Explicit(f, [source |-> "network", owner |-> owner])
  BY DEF NetworkFer
<1>2. QED
  BY <1>1, ExplicitStep DEF Sources

LEMMA PromoteFerStep ==
    ASSUME KInv, NEW f \in Fers, PromoteFer(f)
    PROVE  KInv'
<1>1. /\ f \in DOMAIN fers /\ fers[f].source \notin {"seed", "user-promoted"}
      /\ Explicit(f, [source |-> "user-promoted", owner |-> None])
  BY DEF PromoteFer, Promoted
<1>2. QED
  BY <1>1, ExplicitStep DEF Sources

LEMMA DeleteDraftStep ==
    ASSUME KInv, NEW u, NEW k, DeleteDraft(u, k)
    PROVE  KInv'
<1>1. /\ kms' = Without(kms, {k})
      /\ UNCHANGED <<fers, accounts, requests, frozen, late, excused, clashing>>
  BY DEF DeleteDraft, history
<1>2. DOMAIN kms' = DOMAIN kms \ {k} /\ \A x \in DOMAIN kms' : kms'[x] = kms[x]
  BY <1>1 DEF Without
<1>3. \A doc : Spares(doc)
  BY <1>1, QuietSpares
<1>4. RowsOK'
  <2>1. ASSUME NEW x, NEW row, x \in DOMAIN kms' /\ row = kms'[x]
        PROVE  RowOK(x, row)'
    <3>1. RowOK(x, row)
      BY <1>2, <2>1 DEF KInv, RowsOK
    <3>2. QED
      BY <1>1, <1>3, <3>1, RowStays
  <2>2. QED
    BY <2>1 DEF RowsOK
<1>5. CatalogueOK'
  BY <1>1 DEF KInv, CatalogueOK
<1>6. \A fer : StaysCurated(fer)
  BY <1>1, QuietCurated
<1>7. QED
  BY <1>1, <1>2, <1>3, <1>4, <1>5, <1>6, OutsideStep

LEMMA ClaimRefusedStep ==
    ASSUME KInv, NEW u \in Users, NEW k, ClaimRefused(u, k)
    PROVE  KInv'
<1>1. /\ kms' = TakenBy(k, u) /\ u \in accounts /\ CanOwn(k, u)
      /\ UNCHANGED <<fers, accounts, requests, frozen, late, excused, clashing>>
  BY DEF ClaimRefused, history
<1>2. CatalogueOK /\ RowsOK
  BY DEF KInv
<1>3. MayTake(k, u)
  BY <1>1, <1>2, OwnerMayTake
<1>4. /\ DOMAIN kms' = DOMAIN kms
      /\ \A x \in DOMAIN kms : RowOK(x, kms'[x]) /\ kms'[x].content = kms[x].content
  BY <1>1, <1>2, <1>3, TakenRows
<1>5. \A doc : Spares(doc)
  BY <1>1, QuietSpares
<1>6. RowsOK'
  <2>1. ASSUME NEW x, NEW row, x \in DOMAIN kms' /\ row = kms'[x]
        PROVE  RowOK(x, row)'
    <3>1. RowOK(x, row)
      BY <1>4, <2>1
    <3>2. QED
      BY <1>1, <1>5, <3>1, RowStays
  <2>2. QED
    BY <2>1 DEF RowsOK
<1>7. CatalogueOK'
  BY <1>1, <1>2 DEF CatalogueOK
<1>8. \A fer : StaysCurated(fer)
  BY <1>1, QuietCurated
<1>9. QED
  BY <1>1, <1>4, <1>5, <1>6, <1>7, <1>8, OutsideStep

(* delete_me takes the drafts along and leaves the rest to nobody: what    *)
(* his models suggest of his own is then no longer private to anybody.     *)
LEMMA DeleteAccountStep ==
    ASSUME KInv, NEW u \in Users, DeleteAccount(u)
    PROVE  KInv'
<1> DEFINE own == {k \in DOMAIN kms : kms[k].owner = u}
<1>1. /\ accounts' = accounts \ {u}
      /\ kms' = [k \in DOMAIN kms \ (own \cap Drafts) |->
                  IF k \in own THEN [kms[k] EXCEPT !.owner = None, !.visibility = "public"]
                  ELSE kms[k]]
      /\ fers' = [f \in DOMAIN fers |->
                  IF fers[f].owner = u THEN [fers[f] EXCEPT !.owner = None] ELSE fers[f]]
      /\ UNCHANGED <<requests, frozen, late, excused, clashing>>
  BY DEF DeleteAccount, history
<1>2. CatalogueOK /\ RowsOK
  BY DEF KInv
<1>3. /\ DOMAIN fers' = DOMAIN fers
      /\ \A f \in DOMAIN fers :
             /\ fers'[f].source = fers[f].source
             /\ fers'[f].owner = IF fers[f].owner = u THEN None ELSE fers[f].owner
             /\ fers'[f] \in [source : Sources, owner : Users \cup {None}]
  BY <1>1, <1>2 DEF CatalogueOK
<1>4. \A doc : Spares(doc)
  BY <1>1, <1>3 DEF Spares, Harmless, SameFer
<1>5. ASSUME NEW k, NEW row, k \in DOMAIN kms' /\ row = kms'[k]
      PROVE  RowOK(k, row)' /\ k \in DOMAIN kms /\ row.content = kms[k].content
  <2> SUFFICES ASSUME NEW old, old = kms[k]
               PROVE  RowOK(k, row)' /\ k \in DOMAIN kms /\ row.content = old.content
    OBVIOUS
  <2>1. k \in DOMAIN kms
    BY <1>1, <1>5
  <2>2. RowOK(k, old) /\ old \in Row
    BY <1>2, <2>1 DEF RowsOK, RowOK
  <2>3. RowOK(k, old)'
    BY <1>1, <1>4, <2>2, RowStays
  <2>4. CASE old.owner # u
    BY <1>1, <1>5, <2>1, <2>3, <2>4
  <2>5. CASE old.owner = u
    <3>1. row = [old EXCEPT !.owner = None, !.visibility = "public"]
      BY <1>1, <1>5, <2>1, <2>5
    <3>2. /\ row \in Row /\ row.owner = None
          /\ row.content = old.content /\ row.status = old.status
      BY <2>2, <3>1 DEF Row
    <3>3. ASSUME k \notin late'
          PROVE  Fits(fers', excused' \cup clashing', clashing', None, old.content)
      <4>1. Fits(fers, excused \cup clashing, clashing, u, old.content)
        BY <1>1, <2>2, <2>5, <3>3 DEF RowOK
      <4>2. \A f : Usable(fers, u, f) => Usable(fers', None, f)
        BY <1>3 DEF Usable
      <4>3. QED
        BY <1>1, <4>1, <4>2 DEF Fits
    <3>4. QED
      BY <2>1, <2>3, <3>2, <3>3 DEF RowOK
  <2>6. QED
    BY <2>4, <2>5
<1>6. RowsOK'
  BY <1>5 DEF RowsOK
<1>7. CatalogueOK'
  BY <1>1, <1>2, <1>3 DEF CatalogueOK
<1>8. \A fer : StaysCurated(fer)
  BY <1>3 DEF StaysCurated
<1>9. \A k \in DOMAIN kms' : k \in DOMAIN kms /\ kms'[k].content = kms[k].content
  BY <1>5
<1>10. UNCHANGED requests /\ excused \subseteq excused'
  BY <1>1
<1> HIDE DEF own
<1>11. QED
  BY <1>4, <1>6, <1>7, <1>8, <1>9, <1>10, OutsideStep

(* The documents of the data directory suggest what they stage or what the *)
(* catalogue is seeded with.                                               *)
LEMMA ImportStep ==
    ASSUME KInv, NEW s \in Shipped, NEW force, ImportRow(s, force)
    PROVE  KInv'
<1> SUFFICES ASSUME NEW k, k = s.row, NEW doc, doc = s.content, NEW row, row = kms'[s.row]
             PROVE  KInv'
  OBVIOUS
<1>1. /\ ContentOK(doc, KnownToImport, FALSE)
      /\ fers' = [f \in DOMAIN fers \cup InlineIds(doc) |->
                  IF f \in DOMAIN fers THEN fers[f] ELSE [source |-> "model", owner |-> None]]
      /\ late' = late \ {k}
      /\ UNCHANGED <<accounts, requests, excused, clashing>>
  BY DEF ImportRow
<1>2. /\ kms' = Set(kms, k, Model(None, IF k \notin DOMAIN kms THEN "public" ELSE kms[k].visibility,
                                  s.status, s.status = "published", doc))
      /\ frozen' = IF s.status = "published" THEN Set(frozen, k, doc) ELSE frozen
  BY DEF ImportRow
<1>3. CatalogueOK /\ RowsOK
  BY DEF KInv
<1>4. /\ doc \in Content /\ s.status \in {"draft", "published"}
      /\ SuggestedIn(doc) \subseteq Seeds \cup InlineIds(doc)
  BY CatalogueAssumption
<1>5. InlineIds(doc) \subseteq Fers
  BY <1>4, IdsAreFers
<1>6. /\ DOMAIN fers' = DOMAIN fers \cup InlineIds(doc)
      /\ \A f \in DOMAIN fers : fers'[f] = fers[f]
      /\ \A f \in InlineIds(doc) \ DOMAIN fers :
             fers'[f] = [source |-> "model", owner |-> None]
  BY <1>1
<1>7. \A f \in InlineIds(doc) : fers'[f].source = "model"
  <2>1. \A f \in InlineIds(doc) : ~Collides(f, KnownToImport)
    BY <1>1, ContentOKRefers
  <2>2. \A f \in InlineIds(doc) \cap DOMAIN fers : fers[f].source = "model"
    BY <2>1 DEF Collides, KnownToImport, Snapshot
  <2>3. QED
    BY <1>6, <2>2
<1>8. \A x : Spares(x)
  BY <1>1, <1>6 DEF Spares, Harmless, SameFer
<1>9. CatalogueOK'
  <2>1. [source |-> "model", owner |-> None] \in [source : Sources, owner : Users \cup {None}]
    BY DEF Sources
  <2>2. \A x \in DOMAIN fers' : fers'[x] \in [source : Sources, owner : Users \cup {None}]
    BY <1>3, <1>6, <2>1 DEF CatalogueOK
  <2>3. \A x \in Seeds : x \in DOMAIN fers' /\ fers'[x].source = "seed"
    BY <1>3, <1>6 DEF CatalogueOK
  <2>4. DOMAIN fers' \subseteq Fers /\ accounts' \subseteq Users
    BY <1>1, <1>3, <1>5, <1>6 DEF CatalogueOK
  <2>5. DOMAIN requests' = Requests /\ requests' = [i \in Requests |-> requests'[i]]
    BY <1>1, <1>3 DEF CatalogueOK
  <2>6. QED
    BY <2>2, <2>3, <2>4, <2>5 DEF CatalogueOK
<1>10. /\ DOMAIN kms' = DOMAIN kms \cup {k}
       /\ \A x \in DOMAIN kms : x # k => kms'[x] = kms[x]
       /\ row = Model(None, IF k \notin DOMAIN kms THEN "public" ELSE kms[k].visibility,
                      s.status, s.status = "published", doc)
  BY <1>2 DEF Set
<1>11. /\ row \in Row /\ row.content = doc /\ row.owner = None /\ row.status = s.status
  <2>1. k \in DOMAIN kms => kms[k].visibility \in {"private", "public"}
    BY <1>3 DEF RowsOK, RowOK, Row
  <2>2. PICK visibility \in {"private", "public"} :
            row = Model(None, visibility, s.status, s.status = "published", doc)
    BY <1>10, <2>1
  <2>3. (s.status = "published") \in BOOLEAN
    OBVIOUS
  <2>4. QED
    BY <1>4, <2>2, <2>3 DEF Model, Row
<1>12. RowOK(k, row)'
  <2>1. Existing(fers', excused', doc)
    BY <1>3, <1>4, <1>6 DEF Existing, CatalogueOK
  <2>2. Cool(fers', clashing', doc)
    BY <1>7 DEF Cool, Hot
  <2>3. Fits(fers', excused' \cup clashing', clashing', None, doc)
    <3>1. \A f \in Seeds : Usable(fers', None, f)
      BY <1>9 DEF CatalogueOK, Usable, Offered, Sources
    <3>2. QED
      BY <1>4, <3>1 DEF Fits
  <2>4. row.status = "published" => k \in DOMAIN frozen' /\ row.content = frozen'[k]
    BY <1>2, <1>11 DEF Set
  <2>5. QED
    BY <1>11, <2>1, <2>2, <2>3, <2>4 DEF RowOK
<1>13. RowsOK'
  <2>1. ASSUME NEW x, NEW other, x \in DOMAIN kms' /\ other = kms'[x]
        PROVE  RowOK(x, other)'
    <3>1. CASE x = k
      BY <1>12, <2>1, <3>1
    <3>2. CASE x # k
      <4>1. RowOK(x, other)
        BY <1>3, <1>10, <2>1, <3>2 DEF RowsOK
      <4>2. x \in late => x \in late'
        BY <1>1, <3>2
      <4>3. x \in DOMAIN frozen => x \in DOMAIN frozen' /\ frozen'[x] = frozen[x]
        BY <1>2, <3>2 DEF Set
      <4>4. QED
        BY <1>8, <4>1, <4>2, <4>3, RowStays
    <3>3. QED
      BY <3>1, <3>2
  <2>2. QED
    BY <2>1 DEF RowsOK
<1>14. \A fer : StaysCurated(fer)
  BY <1>6 DEF StaysCurated
<1>15. \A x \in DOMAIN kms' :
           \/ x \in DOMAIN kms /\ kms'[x].content = kms[x].content
           \/ \A fer \in SuggestedIn(kms'[x].content) : fer \in InlineIds(kms'[x].content) \cup Seeds
  BY <1>4, <1>10, <1>11
<1>16. UNCHANGED requests /\ excused \subseteq excused'
  BY <1>1
<1>17. QED
  BY <1>8, <1>9, <1>13, <1>14, <1>15, <1>16, OutsideStep

-----------------------------------------------------------------------------
(* The theorems *)

LEMMA InitInvariant == KInit => KInv
<1> SUFFICES ASSUME KInit PROVE KInv
  OBVIOUS
<1> USE DEF KInit
<1>1. CatalogueOK
  <2>1. \A f \in Seeds : fers[f] \in [source : Sources, owner : Users \cup {None}]
    BY DEF Sources
  <2>2. QED
    BY <2>1, CatalogueAssumption DEF CatalogueOK
<1>2. RowsOK
  BY DEF RowsOK
<1>3. RequestsOK
  BY DEF RequestsOK
<1>4. MergesOK
  BY DEF MergesOK
<1>5. QED
  BY <1>1, <1>2, <1>3, <1>4 DEF KInv

LEMMA StutterInvariant == KInv /\ UNCHANGED kvars => KInv'
<1> SUFFICES ASSUME KInv, UNCHANGED kvars PROVE KInv'
  OBVIOUS
<1>1. UNCHANGED <<kms, fers, accounts, requests, frozen, late, excused, clashing>>
  BY DEF kvars
<1>2. CatalogueOK'
  BY <1>1 DEF KInv, CatalogueOK
<1>3. \A doc : Spares(doc)
  BY <1>1, QuietSpares
<1>4. RowsOK'
  <2>1. ASSUME NEW x, NEW row, x \in DOMAIN kms' /\ row = kms'[x]
        PROVE  RowOK(x, row)'
    <3>1. RowOK(x, row)
      BY <1>1, <2>1 DEF KInv, RowsOK
    <3>2. QED
      BY <1>1, <1>3, <3>1, RowStays
  <2>2. QED
    BY <2>1 DEF RowsOK
<1>5. \A fer : StaysCurated(fer)
  BY <1>1, QuietCurated
<1>6. QED
  BY <1>1, <1>2, <1>3, <1>4, <1>5, OutsideStep

LEMMA NextInvariant == KInv /\ [KNext]_kvars => KInv'
<1> SUFFICES ASSUME KInv, KNext PROVE KInv'
  BY StutterInvariant
<1>1. ASSUME NEW r \in Requests, NEW u \in Users, NEW k \in Rows,
             Open(r, u, k) \/ NewVersion(r, u, k) \/ Publish(r, u, k)
      PROVE  KInv'
  BY <1>1, OpenStep, NewVersionStep, PublishStep
<1>2. ASSUME NEW r \in Requests, NEW u \in Users, NEW line \in Lines, NEW doc \in Documents,
             Create(r, u, line, doc)
      PROVE  KInv'
  BY <1>2, CreateStep
<1>3. ASSUME NEW r \in Requests, NEW u \in Users, NEW line \in Lines, NEW k \in Rows,
             Fork(r, u, k, line)
      PROVE  KInv'
  BY <1>3, ForkStep
<1>4. ASSUME NEW r \in Requests, NEW u \in Users, NEW k \in Rows,
             NEW visibility \in {"private", "public"}, NEW edition \in 1..2,
             Patch(r, u, k, visibility, edition)
      PROVE  KInv'
  BY <1>4, PatchStep
<1>5. ASSUME NEW r \in Requests, NEW u \in Users, NEW from \in Fers, NEW to \in Fers,
             Merge(r, u, from, to)
      PROVE  KInv'
  BY <1>5, MergeStep
<1>6. ASSUME NEW r \in Requests, Commit(r)
      PROVE  KInv'
  <2>1. requests[r] # None
    BY <1>6 DEF Commit
  <2>2. CASE CommitPut(r)
    BY <2>1, <2>2, PutStep
  <2>3. CASE CommitInsert(r)
    BY <2>1, <2>3, InsertStep
  <2>4. CASE CommitPatch(r)
    BY <2>1, <2>4, PatchedStep
  <2>5. CASE CommitPublish(r)
    BY <2>1, <2>5, PublishedStep
  <2>6. CASE CommitMerge(r)
    BY <2>1, <2>6, MergedStep
  <2>7. CASE \E f \in Fers : PromoteStaged(r, f)
    BY <2>1, <2>7, PromoteStagedStep
  <2>8. QED
    BY <1>6, <2>2, <2>3, <2>4, <2>5, <2>6, <2>7 DEF Commit
<1>7. ASSUME NEW r \in Requests, Abort(r)
      PROVE  KInv'
  BY <1>7, AbortStep
<1>8. ASSUME NEW r \in Requests, NEW doc \in Documents, Save(r, doc)
      PROVE  KInv'
  BY <1>8, SaveStep
<1>9. ASSUME NEW u \in Users, NEW f \in Fers, CreateFer(u, f)
      PROVE  KInv'
  BY <1>9, CreateFerStep
<1>10. ASSUME NEW f \in Fers, NEW owner \in Users \cup {None}, NetworkFer(f, owner)
       PROVE  KInv'
  BY <1>10, NetworkFerStep
<1>11. ASSUME NEW f \in Fers, PromoteFer(f)
       PROVE  KInv'
  BY <1>11, PromoteFerStep
<1>12. ASSUME NEW u \in Users, NEW k \in Rows, DeleteDraft(u, k) \/ ClaimRefused(u, k)
       PROVE  KInv'
  BY <1>12, DeleteDraftStep, ClaimRefusedStep
<1>13. ASSUME NEW u \in Users, DeleteAccount(u)
       PROVE  KInv'
  BY <1>13, DeleteAccountStep
<1>14. ASSUME Import
       PROVE  KInv'
  BY <1>14, ImportStep DEF Import
<1>15. QED
  BY <1>1, <1>2, <1>3, <1>4, <1>5, <1>6, <1>7, <1>8, <1>9, <1>10, <1>11, <1>12, <1>13, <1>14
     DEF KNext

LEMMA KSpecInvariant == KSpec => []KInv
  BY InitInvariant, NextInvariant, PTL DEF KSpec

(* Whatever is saved, published, forked, promoted or merged in any order:  *)
(* a question suggests only FERs that exist, are staged by its model, or   *)
(* were merged away while another request was about to write them.         *)
THEOREM KSpec_SuggestedExists == KSpec => []SuggestedExists
<1>1. KInv => SuggestedExists
  BY DEF KInv, RowsOK, RowOK, Existing, SuggestedExists
<1>2. QED
  BY <1>1, KSpecInvariant, PTL

(* A published version keeps the content it was published with, but for    *)
(* merges, unless a request writes it that was overtaken.                  *)
THEOREM KSpec_PublishedIsFrozen == KSpec => []PublishedIsFrozen
<1>1. KInv => PublishedIsFrozen
  BY DEF KInv, RowsOK, RowOK, PublishedIsFrozen
<1>2. QED
  BY <1>1, KSpecInvariant, PTL

(* The owner of a draft can save it again as it is, but for the exceptions *)
(* that the property lists.                                                *)
THEOREM KSpec_DraftStaysSavable == KSpec => []DraftStaysSavable
<1>1. ASSUME KInv, NEW k \in Drafts \ late, kms[k].owner # None
      PROVE  LET known == KnownTo(kms[k].owner) IN
             /\ \A f \in SuggestedIn(kms[k].content) :
                    \/ f \in Resolvable(kms[k].content, known) \cup excused \cup clashing
                    \/ f \in DOMAIN fers /\ \/ fers[f].source = "network"
                                            \/ fers[f].source = "user" /\ fers[f].owner = None
             /\ \A f \in InlineIds(kms[k].content) : Collides(f, known) => f \in clashing
  <2> SUFFICES ASSUME NEW row, row = kms[k], NEW known, known = KnownTo(row.owner)
               PROVE  /\ \A f \in SuggestedIn(row.content) :
                             \/ f \in Resolvable(row.content, known) \cup excused \cup clashing
                             \/ f \in DOMAIN fers /\ \/ fers[f].source = "network"
                                                     \/ fers[f].source = "user" /\ fers[f].owner = None
                      /\ \A f \in InlineIds(row.content) : Collides(f, known) => f \in clashing
    OBVIOUS
  <2>1. RowOK(k, row) /\ CatalogueOK
    BY <1>1 DEF KInv, RowsOK, Drafts
  <2>2. Fits(fers, excused \cup clashing, clashing, row.owner, row.content)
    BY <2>1 DEF RowOK
  <2>3. /\ known.known = {f \in DOMAIN fers : fers[f].source \in {"seed", "user-promoted", "model"}
                                              \/ fers[f].owner = row.owner}
        /\ known.promoted = {f \in DOMAIN fers : fers[f].source = "model"}
    BY DEF KnownTo, Snapshot
  <2>4. ASSUME NEW f \in SuggestedIn(row.content)
        PROVE  \/ f \in Resolvable(row.content, known) \cup excused \cup clashing
               \/ f \in DOMAIN fers /\ \/ fers[f].source = "network"
                                       \/ fers[f].source = "user" /\ fers[f].owner = None
    BY <2>1, <2>2, <2>3 DEF Fits, Usable, Offered, Sources, Resolvable, CatalogueOK
  <2>5. ASSUME NEW f \in InlineIds(row.content), Collides(f, known)
        PROVE  f \in clashing
    <3>1. f \in DOMAIN fers /\ fers[f].source # "model"
      BY <2>3, <2>5 DEF Collides
    <3>2. CASE fers[f].owner = row.owner
      BY <1>1, <2>2, <3>1, <3>2 DEF Fits
    <3>3. CASE fers[f].source \in {"seed", "user-promoted"}
      BY <2>1, <3>1, <3>3 DEF RowOK, Cool, Hot
    <3>4. QED
      BY <2>3, <2>5, <3>1, <3>2, <3>3 DEF Collides
  <2>6. QED
    BY <2>4, <2>5
<1>2. KInv => DraftStaysSavable
  BY <1>1 DEF DraftStaysSavable
<1>3. QED
  BY <1>2, KSpecInvariant, PTL

=============================================================================
