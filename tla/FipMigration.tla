---------------------------- MODULE FipMigration ----------------------------
(***************************************************************************)
(* One FIP on its way through the versions of its model: PATCH of its      *)
(* answers and POST /migrate (routers/fips.py), whose requests overlap.    *)
(* Both load the FIP, decide on what they loaded, and commit later; a      *)
(* commit writes the columns the request changed.  Who may do it is the    *)
(* subject of FipLifecycle, and granted here.                              *)
(***************************************************************************)
EXTENDS MigrationDiff

CONSTANTS
    Versions,  \* the published versions, in the order of their semver
    Models,    \* the contents a version may have
    Lists,     \* the lists of answers that are stored at first or sent
    Normals,   \* what a PATCH may make of the texts it finds or is sent
    Offers,    \* the decisions that requests bring
    Requests, MaxRequests

ASSUME MigrationAssumption ==
    /\ Versions \subseteq Nat /\ IsFiniteSet(Versions)
    /\ Models \subseteq Contents /\ Offers \subseteq Decisions
    /\ \A answers \in Lists : answers \subseteq Entries /\ Ordered(answers)
    /\ Normals \subseteq [Texts -> Texts]
    /\ MaxRequests \in Nat

VARIABLES
    content,  \* of each version
    fip,      \* its version, answers, orphans
    requests, \* those under way: None or what they loaded and will write
    begun,    \* how many so far
    drifted   \* history: some write overtook the one it was based on

mvars == <<content, fip, requests, begun, drifted>>

(* _orphan_entry *)
Orphan(a, version) == [q |-> a.q, text |-> a.text, from |-> version]

MInit ==
    /\ content \in [Versions -> Models]
    /\ \E v \in Versions, answers \in Lists :
           /\ Named(answers) \subseteq DOMAIN content[v]
           /\ fip = [version |-> v, answers |-> answers, orphans |-> {}]
    /\ requests = [r \in Requests |-> None]
    /\ begun = 0 /\ drifted = FALSE

(* The slots are alike, so that a request takes any one that is free. *)
Begin(r, kind, version, answers, orphans) ==
    /\ begun < MaxRequests
    /\ begun' = begun + 1
    /\ requests' = [requests EXCEPT ![r] =
           [kind |-> kind, loaded |-> fip,
            new |-> [version |-> version, answers |-> answers, orphans |-> orphans]]]
    /\ UNCHANGED <<content, fip, drifted>>

(* normalise_legacy_dmp_evidence: evidence in the form of earlier versions *)
(* is rewritten, to what the related DMPs of the FIP or the body make it.  *)
Normalised(answers, normal) ==
    {Entry(a.q, a.later, IF a.text = Blank THEN Blank ELSE normal[a.text]) : a \in answers}

(* patch_fip: the body may bring any list that answers questions of the    *)
(* model only (unknown_question_id); without one, the answers are those    *)
(* the request found.                                                      *)
BeginPatch(r, sent, normal) ==
    /\ sent # None => Named(sent) \subseteq DOMAIN content[fip.version]
    /\ Begin(r, "patch", fip.version,
             Normalised(IF sent = None THEN fip.answers ELSE sent, normal), fip.orphans)

(* The diff is computed again from what is stored now. *)
DiffTo(to) == Diff(content[fip.version], content[to], fip.answers)

(* Otherwise: 409 already_on_version, 400 version_not_greater *)
Greater(to) == to > fip.version

(* migrate_fip up to its commit; a request that is refused changes nothing *)
BeginMigrate(r, to, d) ==
    LET diff == DiffTo(to) IN
    /\ Greater(to)
    /\ Accepted(diff, fip.answers, d)
    /\ Begin(r, "migrate", to, NewAnswers(diff, fip.answers, d),
             fip.orphans \cup {Orphan(a, fip.version) : a \in NewOrphans(diff, fip.answers, d)})

(* A column is written only if the request changed it. *)
Column(loaded, new, stored) == IF new = loaded THEN stored ELSE new

Written(req) ==
    [version |-> Column(req.loaded.version, req.new.version, fip.version),
     answers |-> Column(req.loaded.answers, req.new.answers, fip.answers),
     orphans |-> Column(req.loaded.orphans, req.new.orphans, fip.orphans)]

Commit(r) ==
    LET req == requests[r] IN
    /\ req # None
    /\ fip' = Written(req)
    /\ drifted' = (drifted \/ fip # req.loaded)
    /\ requests' = [requests EXCEPT ![r] = None]
    /\ UNCHANGED <<content, begun>>

(* A lost connection, a failing commit or a restart: nothing is written. *)
Abort(r) ==
    /\ requests[r] # None
    /\ requests' = [requests EXCEPT ![r] = None]
    /\ UNCHANGED <<content, fip, begun, drifted>>

Slot(r) == (\E i \in Requests : requests[i] = None)
           /\ r = CHOOSE i \in Requests : requests[i] = None

MNext ==
    \E r \in Requests :
        \/ Slot(r) /\ \E sent \in Lists \cup {None}, normal \in Normals :
               BeginPatch(r, sent, normal)
        \/ Slot(r) /\ \E to \in Versions, d \in Offers : BeginMigrate(r, to, d)
        \/ Commit(r)
        \/ Abort(r)

MSpec == MInit /\ [][MNext]_mvars

-----------------------------------------------------------------------------
(* Properties *)

(* However decisions copy and reassign, and whatever list is stored, the   *)
(* answers a migration writes are one per question: two decisions cannot   *)
(* claim one target, nor one that is answered.                             *)
MigrationAnswersOnce ==
    [][\A r \in Requests :
          /\ requests[r] # None /\ requests[r].kind = "migrate" /\ Commit(r)
          /\ fip'.answers = requests[r].new.answers
          => OneEach(fip'.answers)]_mvars

(* As long as no write overtook another, the FIP only holds answers to     *)
(* questions of its version: every PATCH is accepted.                      *)
AnswersFitTheirVersion ==
    ~drifted => Named(fip.answers) \subseteq DOMAIN content[fip.version]

(* A migration loses nothing that the last entry of a question answers:    *)
(* each such text is found again among the answers or the orphans, also    *)
(* when the FIP had drifted.  The code breaks this for two kinds of        *)
(* answers, which are left out here: that of a question which the source   *)
(* version lacks and the target has, as it counts as added, and the        *)
(* earlier entries of a question that the stored list answers repeatedly.  *)
Reappears(q, before, after) ==
    q \in DOMAIN content[after.version] \ DOMAIN content[before.version]

Kept(before, after) ==
    /\ before.orphans \subseteq after.orphans
    /\ \A a \in Held(before.answers) :
           a.text # Blank /\ ~Reappears(a.q, before, after) =>
               \/ \E b \in after.answers : b.text = a.text
               \/ Orphan(a, before.version) \in after.orphans

Migrates(r) ==
    /\ requests[r] # None /\ requests[r].kind = "migrate" /\ fip = requests[r].loaded
    /\ Commit(r)

NothingVanishes == [][\A r \in Requests : Migrates(r) => Kept(fip, fip')]_mvars

(* The preview tells what happens: whatever the FIP, if the defaults are   *)
(* accepted they keep and orphan as many answered questions as it counts.  *)
(* It counts a question by any of its entries and the migration takes the  *)
(* last, so that lists in which a blank entry follows are left out.        *)
PreviewIsRight ==
    \A to \in Versions : Greater(to) =>
        LET diff == DiffTo(to)
            orphans == NewOrphans(diff, fip.answers, NoDecisions)
            kept == {a \in Held(fip.answers) : a.text # Blank /\ a \notin orphans
                                         /\ \E i \in diff : i.q = a.q /\ i.status # "added"}
        IN Masked(fip.answers) = {} /\ Accepted(diff, fip.answers, NoDecisions) =>
               /\ CountOrphaned(diff) = Cardinality(orphans)
               /\ CountKept(diff) = Cardinality(kept)

(* What the migration page builds on, "defaults are valid": a migration to *)
(* a later version that decides nothing succeeds.                          *)
DefaultsAreValid ==
    \A to \in Versions : Greater(to) => Accepted(DiffTo(to), fip.answers, NoDecisions)

=============================================================================
