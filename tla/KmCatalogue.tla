------------------------------ MODULE KmCatalogue ------------------------------
(***************************************************************************)
(* Knowledge models, their drafts, and the catalogue of FERs they refer to *)
(* (routers/knowledge_models.py, routers/fers.py, the curation half of     *)
(* routers/admin.py, importer.py).                                         *)
(*                                                                         *)
(* Editors read a draft with its ETag and save it later; publishing puts   *)
(* the FERs the draft stages into the catalogue, one commit each; an admin *)
(* promotes FERs and merges one into another, rewriting every model that   *)
(* suggests it.  All of these load, decide and commit on their own, and    *)
(* nothing locks what they loaded.                                         *)
(***************************************************************************)
EXTENDS KmContent

CONSTANTS
    Users, Admins,
    Lines, MaxVersion,  \* model ids, and a bound on their versions
    Shipped,            \* the documents of data/knowledge-models
    Seeds,              \* the FERs of data/fers/seed.json
    Documents,          \* the contents that editors may write
    Requests, MaxRequests, MaxEvents

ASSUME CatalogueAssumption ==
    /\ Admins \subseteq Users /\ Seeds \subseteq Fers
    /\ {MaxVersion, MaxRequests, MaxEvents} \subseteq Nat
    /\ None \notin Users
    /\ Documents \subseteq Content
    /\ \A s \in Shipped :
           /\ s.status \in {"draft", "published"}
           /\ s.content \in Content
           /\ SuggestedIn(s.content) \subseteq Seeds \cup InlineIds(s.content)

Rows == Lines \X (1..MaxVersion)

ASSUME ShippedAssumption == \A s \in Shipped : s.row \in Rows

VARIABLES
    kms,        \* knowledge_models, by id and version
    fers,       \* fers, by id
    accounts,
    requests,   \* None, or what a request has loaded and will write
    begun, events, \* so far
    frozen,     \* history: the content each version was published with,
                \* carried along by merges and imports
    late,       \* history: rows written from a load that was overtaken, and
                \* new versions of them
    excused,    \* history: FERs merged away under a request that writes them
    clashing    \* history: FERs that came into the catalogue by an explicit
                \* act while some model was staging them, that the publication
                \* of a model found there, or that are private to an admin or
                \* owner where another user writes a model (Private)

kvars == <<kms, fers, accounts, requests, begun, events, frozen, late, excused, clashing>>

history == <<frozen, late, excused, clashing>>

Model(owner, visibility, status, system, content) ==
    [owner |-> owner, visibility |-> visibility, status |-> status, system |-> system,
     content |-> content, sha |-> content]

Set(table, key, row) == [k \in DOMAIN table \cup {key} |-> IF k = key THEN row ELSE table[k]]

Without(table, keys) == [k \in DOMAIN table \ keys |-> table[k]]

Drafts == {k \in DOMAIN kms : kms[k].status = "draft"}

(* _known_fer_snapshot: what the user may refer to.  The FERs that the     *)
(* network brought are in every picker and not among them.                 *)
KnownTo(u) ==
    Snapshot({f \in DOMAIN fers : fers[f].source \in {"seed", "user-promoted", "model"}
                                  \/ fers[f].owner = u},
             {f \in DOMAIN fers : fers[f].source = "model"})

(* _load_seed_fer_ids, _load_fer_sources *)
KnownToImport ==
    Snapshot(DOMAIN fers \cup Seeds, {f \in DOMAIN fers : fers[f].source = "model"})

KInit ==
    /\ kms = [k \in {} |-> None]
    /\ fers = [f \in Seeds |-> [source |-> "seed", owner |-> None]]
    /\ accounts = Users
    /\ requests = [r \in Requests |-> None]
    /\ begun = 0 /\ events = 0
    /\ frozen = [k \in {} |-> None]
    /\ late = {} /\ excused = {} /\ clashing = {}

-----------------------------------------------------------------------------
(* Who may write what *)

CanRead(k, u) ==
    /\ k \in DOMAIN kms
    /\ u \in Admins \/ kms[k].visibility # "private" \/ kms[k].owner = u

(* _get_owned_km_or_404: its owner, and every admin, whoever owns it *)
CanOwn(k, u) ==
    /\ CanRead(k, u) /\ ~kms[k].system
    /\ u \in Admins \/ kms[k].owner = u

(* A draft or model that nobody owns becomes the admin's who writes it. *)
TakenBy(k, u) == [kms EXCEPT ![k].owner = IF @ = None THEN u ELSE @]

(* History: private FERs in a document that one user writes into the model *)
(* of another.  The writer's own are suggested, where the owner does not   *)
(* know them; the owner's or an admin's are staged, where they collide.    *)
Private(doc, u, owner) ==
    {f \in DOMAIN fers :
        /\ fers[f].source # "model"
        /\ \/ f \in SuggestedIn(doc) /\ fers[f].owner = u /\ u # owner
           \/ f \in InlineIds(doc) /\ fers[f].owner \in (Admins \cup {owner}) \ {u}}

(* The slots are alike; a bound limits the requests. *)
Slot(r) ==
    /\ begun < MaxRequests
    /\ \E i \in Requests : requests[i] = None
    /\ r = CHOOSE i \in Requests : requests[i] = None

Request(call, user, row, base, new) ==
    [call |-> call, user |-> user, row |-> row, base |-> base, new |-> new,
     todo |-> {}, target |-> None, inherits |-> FALSE]

Begin(r, request) ==
    /\ begun' = begun + 1
    /\ requests' = [requests EXCEPT ![r] = request]
    /\ UNCHANGED <<accounts, events, history>>

(* GET of a draft: the editor keeps the content and its ETag. *)
Open(r, u, k) ==
    /\ Slot(r) /\ u \in accounts /\ k \in Drafts
    /\ CanRead(k, u)
    /\ Begin(r, Request("editing", u, k, kms[k], None))
    /\ UNCHANGED <<kms, fers>>

(* Mutant: a published version may be saved. *)
MaySaveAnything(k, request) ==
    /\ CanOwn(k, request.user)
    /\ request.base.sha = kms[k].sha

(* put_knowledge_model_content: otherwise 404, 403, 409 model_published,   *)
(* 409 content_conflict                                                    *)
MaySave(k, request) ==
    /\ CanOwn(k, request.user)
    /\ kms[k].status = "draft"
    /\ request.base.sha = kms[k].sha

(* PUT .../content with the ETag the editor has, up to the commit *)
Save(r, doc) ==
    LET request == requests[r] k == request.row IN
    /\ request # None /\ request.call = "editing" /\ request.user \in accounts
    /\ MaySave(k, request)
    /\ ContentOK(doc, KnownTo(request.user), FALSE)
    /\ kms' = TakenBy(k, request.user)
    /\ requests' = [requests EXCEPT ![r] = Request("put", request.user, k, kms'[k], doc)]
    /\ clashing' = clashing \cup Private(doc, request.user, kms'[k].owner)
    /\ UNCHANGED <<fers, accounts, begun, events, frozen, late, excused>>

(* _id_in_use: no version of it exists. *)
FreeId(line) == \A v \in 1..MaxVersion : <<line, v>> \notin DOMAIN kms

(* POST /knowledge-models and /import: a new draft of a free id *)
Create(r, u, line, doc) ==
    /\ Slot(r) /\ u \in accounts
    /\ FreeId(line)
    /\ doc.inline = <<>> /\ ContentOK(doc, KnownTo(u), FALSE)
    /\ Begin(r, Request("insert", u, <<line, 1>>, None, Model(u, "private", "draft", FALSE, doc)))
    /\ UNCHANGED <<kms, fers>>

(* fork_knowledge_model: the copy has to resolve for the one who forks. *)
Fork(r, u, k, line) ==
    /\ Slot(r) /\ u \in accounts /\ CanRead(k, u)
    /\ FreeId(line)
    /\ ContentOK(kms[k].content, KnownTo(u), FALSE)
    /\ Begin(r, Request("insert", u, <<line, 1>>, kms[k],
                        Model(u, "private", "draft", FALSE, kms[k].content)))
    /\ UNCHANGED <<kms, fers>>

(* new_knowledge_model_version: nothing is validated, and the draft goes   *)
(* to the owner of the version.                                            *)
NewVersion(r, u, k) ==
    LET versions == {x[2] : x \in {y \in DOMAIN kms : y[1] = k[1]}}
        next == 1 + CHOOSE v \in versions : \A w \in versions : w <= v
    IN
    /\ Slot(r) /\ u \in accounts /\ CanOwn(k, u)
    /\ kms[k].status = "published"
    /\ \A v \in versions : <<k[1], v>> \notin Drafts
    /\ next <= MaxVersion
    /\ kms' = TakenBy(k, u)
    /\ Begin(r, [Request("insert", u, <<k[1], next>>, kms[k],
                         Model(kms'[k].owner, kms[k].visibility, "draft", FALSE,
                               kms[k].content))
                    EXCEPT !.inherits = k \in late])
    /\ UNCHANGED fers

(* patch_knowledge_model: the visibility, and of a draft the description,  *)
(* which is a part of the content.  The claim of an unowned row is         *)
(* committed with the rest; of a system row an admin sets the visibility.  *)
Patch(r, u, k, visibility, edition) ==
    /\ Slot(r) /\ u \in accounts /\ k \in DOMAIN kms
    /\ CanOwn(k, u) \/ (kms[k].system /\ u \in Admins)
    /\ edition # kms[k].content.edition => k \in Drafts
    /\ Begin(r, Request("patch", u, k, kms[k],
                        [visibility |-> visibility,
                         content |-> [kms[k].content EXCEPT !.edition = edition]]))
    /\ UNCHANGED <<kms, fers>>

(* The claim of _get_owned_km_or_404 is a commit of its own, and stays if  *)
(* the request is then refused.                                            *)
ClaimRefused(u, k) ==
    /\ u \in accounts /\ k \in DOMAIN kms /\ kms[k].owner = None
    /\ CanOwn(k, u)
    /\ kms' = TakenBy(k, u)
    /\ UNCHANGED <<fers, accounts, requests, begun, events, history>>

(* publish_knowledge_model up to its first commit: what the model stages   *)
(* goes to the catalogue unless the model is private.                      *)
Publish(r, u, k) ==
    LET promotes == kms[k].visibility # "private"
        content == kms[k].content
    IN
    /\ Slot(r) /\ u \in accounts /\ k \in Drafts /\ CanOwn(k, u)
    /\ ContentOK(content, KnownTo(u), TRUE)
    /\ kms' = TakenBy(k, u)
    /\ begun' = begun + 1
    /\ requests' = [requests EXCEPT ![r] =
           [Request("publish", u, k, kms'[k],
                    IF promotes THEN [content EXCEPT !.inline = <<>>] ELSE content)
               EXCEPT !.todo = IF promotes THEN InlineIds(content) ELSE {}]]
    /\ clashing' = clashing \cup Private(content, u, kms'[k].owner)
    /\ UNCHANGED <<fers, accounts, events, frozen, late, excused>>

(* Mutant: the merge passes over the drafts. *)
SuggestingPublished(fer) ==
    {k \in DOMAIN kms \ Drafts : fer \in SuggestedIn(kms[k].content)}

Suggesting(fer) == {k \in DOMAIN kms : fer \in SuggestedIn(kms[k].content)}

(* merge_fer up to its commit: it loads every model that suggests the FER. *)
Merge(r, u, from, to) ==
    /\ Slot(r) /\ u \in accounts \cap Admins
    /\ from # to /\ {from, to} \subseteq DOMAIN fers
    /\ fers[from].source # "seed"
    /\ fers[to].source \in {"seed", "user-promoted"}
    /\ LET found == Suggesting(from) IN
       Begin(r, [Request("merge", u, from, [k \in found |-> kms[k]],
                         [k \in found |-> Repoint(kms[k].content, from, to)])
                    EXCEPT !.target = to])
    /\ UNCHANGED <<kms, fers>>

-----------------------------------------------------------------------------
(* The commits *)

(* History: a write is late if the row changed since it was loaded.        *)
Overtaken(k, base) ==
    \E column \in {"content", "status", "owner"} : base[column] # kms[k][column]

(* The contents that a request will write *)
Written(request) ==
    CASE request.call \in {"put", "publish"}  -> {request.new}
      [] request.call \in {"insert", "patch"} -> {request.new.content}
      [] request.call = "merge" -> {request.new[k] : k \in DOMAIN request.new}
      [] OTHER -> {}

Mentions(request) == UNION {SuggestedIn(content) : content \in Written(request)}

InProgress == {r \in Requests : requests[r] # None}

StagedAnywhere(f) ==
    \/ \E k \in DOMAIN kms : f \in InlineIds(kms[k].content)
    \/ \E r \in InProgress : \E content \in Written(requests[r]) : f \in InlineIds(content)

(* The FERs being merged away by another request under way *)
Vanishing(r) ==
    {requests[i].row : i \in {j \in InProgress \ {r} : requests[j].call = "merge"}}

Done(r) ==
    /\ requests' = [requests EXCEPT ![r] = None]
    /\ excused' = excused \cup (Mentions(requests[r]) \cap Vanishing(r))
    /\ UNCHANGED <<accounts, begun, events>>

(* A column is written if the request changed it; the UPDATE of a row that *)
(* is gone fails.                                                          *)
Rewritten(k, base, content) ==
    IF content = base.content THEN kms[k]
    ELSE [kms[k] EXCEPT !.content = content, !.sha = content]

LateAfter(k, base, content) ==
    IF content # base.content /\ Overtaken(k, base) THEN late \cup {k} ELSE late

CommitPut(r) ==
    LET request == requests[r] k == request.row IN
    /\ request.call = "put" /\ k \in DOMAIN kms
    /\ kms' = [kms EXCEPT ![k] = Rewritten(k, request.base, request.new)]
    /\ late' = LateAfter(k, request.base, request.new)
    /\ Done(r)
    /\ UNCHANGED <<fers, frozen, clashing>>

CommitInsert(r) ==
    LET request == requests[r] IN
    /\ request.call = "insert" /\ request.row \notin DOMAIN kms
    /\ request.new.owner \in accounts
    /\ kms' = Set(kms, request.row, request.new)
    /\ late' = IF request.inherits THEN late \cup {request.row} ELSE late \ {request.row}
    /\ Done(r)
    /\ UNCHANGED <<fers, frozen, clashing>>

CommitPatch(r) ==
    LET request == requests[r] k == request.row base == request.base
        claims == base.owner = None /\ ~base.system
    IN
    /\ request.call = "patch" /\ k \in DOMAIN kms
    /\ claims => request.user \in accounts
    /\ kms' = [kms EXCEPT ![k] =
           [Rewritten(k, base, request.new.content) EXCEPT
               !.owner = IF claims THEN request.user ELSE @,
               !.visibility = IF request.new.visibility = base.visibility THEN @
                              ELSE request.new.visibility]]
    /\ late' = LateAfter(k, base, request.new.content)
                  \cup {x \in {k} : claims /\ kms[k].owner # None}
    /\ Done(r)
    /\ UNCHANGED <<fers, frozen, clashing>>

(* _upsert_fer, for one staged FER and with a commit of its own: a row of  *)
(* any source stays as it is.                                              *)
PromoteStaged(r, f) ==
    LET request == requests[r] IN
    /\ request.call = "publish" /\ f \in request.todo
    /\ f \notin DOMAIN fers => request.base.owner \in accounts
    /\ fers' = IF f \in DOMAIN fers THEN fers
               ELSE Set(fers, f, [source |-> "model", owner |-> request.base.owner])
    /\ requests' = [requests EXCEPT ![r].todo = @ \ {f}]
    /\ clashing' = IF f \in DOMAIN fers /\ fers[f].source # "model" THEN clashing \cup {f}
                   ELSE clashing
    /\ UNCHANGED <<kms, accounts, begun, events, frozen, late, excused>>

CommitPublish(r) ==
    LET request == requests[r] k == request.row IN
    /\ request.call = "publish" /\ request.todo = {} /\ k \in DOMAIN kms
    /\ kms' = [kms EXCEPT ![k].status = "published", ![k].content = request.new,
                          ![k].sha = request.new]
    /\ frozen' = Set(frozen, k, request.new)
    /\ late' = IF Overtaken(k, request.base) THEN late \cup {k} ELSE late \ {k}
    /\ Done(r)
    /\ UNCHANGED <<fers, clashing>>

(* A model that suggested the FER, as merge_fer writes it *)
Merged(k, request) ==
    IF k \in DOMAIN request.new
    THEN [kms[k] EXCEPT !.content = request.new[k], !.sha = request.new[k]]
    ELSE kms[k]

CommitMerge(r) ==
    LET request == requests[r]
        from == request.row
        others == InProgress \ {r}
    IN
    /\ request.call = "merge" /\ DOMAIN request.new \subseteq DOMAIN kms
    /\ kms' = [k \in DOMAIN kms |-> Merged(k, request)]
    /\ fers' = Without(fers, {from})
    /\ frozen' = [k \in DOMAIN frozen |->
           IF k \in DOMAIN request.new THEN Repoint(frozen[k], from, request.target)
           ELSE frozen[k]]
    /\ late' = late \cup {k \in DOMAIN request.new : Overtaken(k, request.base[k])}
    /\ excused' = excused \cup (Mentions(request) \cap Vanishing(r))
                          \cup (IF \E i \in others : from \in Mentions(requests[i])
                                THEN {from} ELSE {})
    /\ requests' = [requests EXCEPT ![r] = None]
    /\ UNCHANGED <<accounts, begun, events, clashing>>

(* A refusal, an integrity error, a lost connection: nothing more happens, *)
(* and what a publication has put into the catalogue stays there.          *)
Abort(r) ==
    /\ requests[r] # None
    /\ requests' = [requests EXCEPT ![r] = None]
    /\ UNCHANGED <<kms, fers, accounts, begun, events, history>>

Commit(r) ==
    /\ requests[r] # None
    /\ \/ CommitPut(r) \/ CommitInsert(r) \/ CommitPatch(r)
       \/ CommitPublish(r) \/ CommitMerge(r)
       \/ \E f \in Fers : PromoteStaged(r, f)

-----------------------------------------------------------------------------
(* Single steps *)

Event == events < MaxEvents /\ events' = events + 1

(* A FER enters the catalogue, or becomes known to all, by an explicit act. *)
Explicit(f, row) ==
    /\ fers' = Set(fers, f, row)
    /\ clashing' = IF StagedAnywhere(f) THEN clashing \cup {f} ELSE clashing
    /\ UNCHANGED <<kms, accounts, requests, begun, frozen, late, excused>>

CreateFer(u, f) ==
    /\ Event /\ u \in accounts /\ f \notin DOMAIN fers
    /\ Explicit(f, [source |-> "user", owner |-> u])

(* create_fip_from_network, for one FER the catalogue lacks *)
NetworkFer(f, owner) ==
    /\ Event /\ f \notin DOMAIN fers /\ owner \in accounts \cup {None}
    /\ Explicit(f, [source |-> "network", owner |-> owner])

Promoted(f) == [source |-> "user-promoted", owner |-> None]

PromoteFer(f) ==
    /\ Event /\ f \in DOMAIN fers /\ fers[f].source \notin {"seed", "user-promoted"}
    /\ Explicit(f, Promoted(f))

(* delete_knowledge_model, of a draft (FipLifecycle has the others) *)
DeleteDraft(u, k) ==
    /\ Event /\ u \in accounts /\ k \in Drafts /\ CanOwn(k, u)
    /\ kms' = Without(kms, {k})
    /\ UNCHANGED <<fers, accounts, requests, begun, history>>

(* delete_me, as far as models and FERs go *)
DeleteAccount(u) ==
    LET own == {k \in DOMAIN kms : kms[k].owner = u} IN
    /\ Event /\ u \in accounts
    /\ accounts' = accounts \ {u}
    /\ kms' = [k \in DOMAIN kms \ (own \cap Drafts) |->
                  IF k \in own THEN [kms[k] EXCEPT !.owner = None, !.visibility = "public"]
                  ELSE kms[k]]
    /\ fers' = [f \in DOMAIN fers |->
                  IF fers[f].owner = u THEN [fers[f] EXCEPT !.owner = None] ELSE fers[f]]
    /\ UNCHANGED <<requests, begun, history>>

(* import_knowledge_model_doc, one document of the data directory, with or *)
(* without --force; the requests of the server go on.                      *)
ImportRow(s, force) ==
    LET k == s.row
        fresh == k \notin DOMAIN kms
        synced == /\ ~fresh /\ kms[k].content # s.content /\ kms[k].owner = None
                  /\ kms[k].status = "draft" \/ force
        system == s.status = "published"
    IN
    /\ fresh \/ synced
    /\ ContentOK(s.content, KnownToImport, FALSE)
    /\ kms' = Set(kms, k, Model(None, IF fresh THEN "public" ELSE kms[k].visibility,
                                s.status, system, s.content))
    /\ fers' = [f \in DOMAIN fers \cup InlineIds(s.content) |->
                  IF f \in DOMAIN fers THEN fers[f] ELSE [source |-> "model", owner |-> None]]
    /\ frozen' = IF system THEN Set(frozen, k, s.content) ELSE frozen
    /\ late' = late \ {k}
    /\ UNCHANGED <<accounts, requests, begun, excused, clashing>>

Import == Event /\ \E s \in Shipped, force \in BOOLEAN : ImportRow(s, force)

KNext ==
    \/ \E r \in Requests, u \in Users :
        \/ \E k \in Rows : Open(r, u, k) \/ NewVersion(r, u, k) \/ Publish(r, u, k)
        \/ \E line \in Lines, doc \in Documents : Create(r, u, line, doc)
        \/ \E line \in Lines, k \in Rows : Fork(r, u, k, line)
        \/ \E k \in Rows, visibility \in {"private", "public"}, edition \in 1..2 :
               Patch(r, u, k, visibility, edition)
        \/ \E from, to \in Fers : Merge(r, u, from, to)
    \/ \E r \in Requests : Commit(r) \/ Abort(r) \/ \E doc \in Documents : Save(r, doc)
    \/ \E u \in Users, f \in Fers : CreateFer(u, f)
    \/ \E f \in Fers, owner \in Users \cup {None} : NetworkFer(f, owner)
    \/ \E f \in Fers : PromoteFer(f)
    \/ \E u \in Users, k \in Rows : DeleteDraft(u, k) \/ ClaimRefused(u, k)
    \/ \E u \in Users : DeleteAccount(u)
    \/ Import

KSpec == KInit /\ [][KNext]_kvars

-----------------------------------------------------------------------------
(* Properties *)

(* Whatever is saved, published, copied, promoted or merged in any order:  *)
(* a question suggests only FERs that are in the catalogue or staged by    *)
(* its model.  An editor that read the draft before a merge cannot bring   *)
(* the merged FER back.  Exempt are FERs merged while another request was  *)
(* about to write them.                                                    *)
SuggestedExists ==
    \A k \in DOMAIN kms :
        SuggestedIn(kms[k].content) \subseteq
            DOMAIN fers \cup InlineIds(kms[k].content) \cup excused

(* A published version keeps the content it was published with, but for    *)
(* the merges of FERs it suggests (and --force) -- unless a request that   *)
(* had loaded the row before it last changed writes it afterwards.         *)
PublishedIsFrozen ==
    \A k \in DOMAIN kms :
        kms[k].status = "published" /\ k \notin late => kms[k].content = frozen[k]

(* The owner of a draft can save it again as it is: the FERs it suggests   *)
(* stay known to him, and publishing another model, a failed publication,  *)
(* a merge or a fork never makes what it stages collide, even if an admin  *)
(* has written his draft meanwhile.  Exempt are FERs that someone created  *)
(* or promoted while a model staged them or before it was published (they  *)
(* stay private to their owner), FERs private to the admin who suggests    *)
(* them in the draft of another user, those private to an admin or to the  *)
(* owner that another user stages (Private has both), FERs of the network  *)
(* (which the pickers list and the models refuse), FERs whose owner has    *)
(* left, and rows that an overtaken request has written (even the draft of *)
(* another user, if the id was deleted and taken meanwhile), or whose      *)
(* owner a second claim of an unowned model has replaced.                  *)
DraftStaysSavable ==
    \A k \in Drafts \ late : kms[k].owner # None =>
        LET known == KnownTo(kms[k].owner) IN
        /\ \A f \in SuggestedIn(kms[k].content) :
               \/ f \in Resolvable(kms[k].content, known) \cup excused \cup clashing
               \/ f \in DOMAIN fers /\ \/ fers[f].source = "network"
                                       \/ fers[f].source = "user" /\ fers[f].owner = None
        /\ \A f \in InlineIds(kms[k].content) : Collides(f, known) => f \in clashing

=============================================================================
