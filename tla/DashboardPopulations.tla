------------------------ MODULE DashboardPopulations ------------------------
(***************************************************************************)
(* The populations of the dashboard (dashboard/populations.py): which FIPs *)
(* a specification names, for one viewer.  A specification lists terms to  *)
(* include and to exclude; the JSON lists are canonicalised to what they   *)
(* contain, sorted and without duplicates, so they are sets here.          *)
(*                                                                         *)
(* A row of fips is reduced to the columns the SELECT looks at; a row of   *)
(* network_fips to its fetched_at.                                         *)
(***************************************************************************)
EXTENDS Integers, FiniteSets

CONSTANTS
    Users, Admins,  \* accounts, and those with the role admin
    SessionIds,
    Owner,          \* the owner of each session
    Refs,           \* questionnaire versions
    FipIds,         \* local FIPs
    NetworkIds,     \* shadow rows of FIPs published elsewhere
    MinPopulation,  \* FIPM_DASHBOARD_MIN_POPULATION
    None

ASSUME PopulationsAssumption ==
    /\ Admins \subseteq Users
    /\ Owner \in [SessionIds -> Users]
    /\ MinPopulation \in Nat
    /\ None \notin Users \cup SessionIds \cup Refs
    /\ FipIds \cap NetworkIds = {}
    /\ "pub" \notin Users /\ "anon" \notin Users

Viewers == Users \cup {None}

Kinds == {"session", "public", "network", "questionnaire", "area", "mine"}

Term(kind, session, ref) == [kind |-> kind, session |-> session, ref |-> ref]

Terms ==
    {Term(k, None, None) : k \in {"public", "network", "mine"}}
        \cup {Term("session", s, None) : s \in SessionIds}
        \cup {Term("questionnaire", None, q) : q \in Refs}
        \cup {Term("area", s, q) : s \in SessionIds, q \in Refs}

PopulationSpecs ==
    [include : (SUBSET Terms) \ {{}}, exclude : SUBSET Terms,
     updatedAfter : Nat \cup {None}, updatedBefore : Nat \cup {None}]

(* shorthand_spec; `public` also stands for no population at all *)
Shorthand(term) ==
    [include |-> {term}, exclude |-> {}, updatedAfter |-> None, updatedBefore |-> None]

(* What a term says of a local FIP. *)
Names(term, fip, viewer) ==
    \/ term.kind = "public"        /\ fip.visibility = "public"
    \/ term.kind = "session"       /\ fip.session = term.session
    \/ term.kind = "questionnaire" /\ fip.ref = term.ref
    \/ term.kind = "area"          /\ fip.session = term.session /\ fip.ref = term.ref
    \/ term.kind = "mine"          /\ viewer # None /\ fip.owner = viewer

(* An exclusion by any other kind is accepted and has no effect. *)
Excludes(term, fip, viewer) ==
    term.kind \in {"session", "questionnaire", "area"} /\ Names(term, fip, viewer)

OwnsSessionOf(viewer, fip) ==
    viewer # None /\ fip.session \in SessionIds /\ Owner[fip.session] = viewer

(* Mutant: everyone in the room sees its FIPs that have a link. *)
PermittedByLink(fip, viewer) ==
    \/ fip.visibility \in {"public", "link"}
    \/ viewer # None /\ fip.owner = viewer
    \/ OwnsSessionOf(viewer, fip)
    \/ fip.session # None
    \/ viewer \in Admins

(* the security predicate *)
Permitted(fip, viewer) ==
    \/ fip.visibility = "public"
    \/ viewer # None /\ fip.owner = viewer
    \/ OwnsSessionOf(viewer, fip)
    \/ viewer \in Admins

InWindow(spec, fip) ==
    /\ spec.updatedAfter # None => fip.updated >= spec.updatedAfter
    /\ spec.updatedBefore # None => fip.updated < spec.updatedBefore

Matches(spec, fip, viewer) ==
    /\ \E t \in spec.include : Names(t, fip, viewer)
    /\ ~\E t \in spec.exclude : Excludes(t, fip, viewer)
    /\ Permitted(fip, viewer)
    /\ InWindow(spec, fip)

(* Of the members of a population, the local ones and the shadow rows: the *)
(* date range and the exclusions say nothing of these.                     *)
LocalMembers(spec, viewer, fips) ==
    {f \in DOMAIN fips : Matches(spec, fips[f], viewer)}

NetworkMembers(spec, network) ==
    IF \E t \in spec.include : t.kind = "network" THEN DOMAIN network ELSE {}

Members(spec, viewer, fips, network) ==
    LocalMembers(spec, viewer, fips) \cup NetworkMembers(spec, network)

(* _readable_individually_expr; shadow rows are public *)
ReadableIndividually(fip, viewer) ==
    \/ viewer \in Admins
    \/ viewer # None /\ fip.owner = viewer
    \/ OwnsSessionOf(viewer, fip)
    \/ fip.visibility \in {"public", "link"}

Hidden(spec, viewer, fips) ==
    {f \in LocalMembers(spec, viewer, fips) : ~ReadableIndividually(fips[f], viewer)}

(* check_k_anonymity *)
TooSmall(spec, viewer, fips, network) ==
    /\ Members(spec, viewer, fips, network) # {}
    /\ Cardinality(Members(spec, viewer, fips, network)) < MinPopulation
    /\ Hidden(spec, viewer, fips) # {}

(* The scope under which a result is stored: the viewer's own, unless the  *)
(* terms mean the same to everybody.                                       *)
AuthScope(spec, viewer) ==
    IF \A t \in spec.include \cup spec.exclude : t.kind \in {"public", "network"} THEN "pub"
    ELSE IF viewer # None THEN viewer ELSE "anon"

=============================================================================
