------------------------ MODULE MCDashboardSnapshots ------------------------
(* Instances of DashboardSnapshots for TLC. *)
EXTENDS DashboardSnapshots, TLC

CONSTANTS fac, room, q, p, f1

MCOwner == [s \in {room} |-> fac]

MCFipRow(visibility, session, ref) ==
    [visibility |-> visibility, owner |-> None, session |-> session, ref |-> ref]

(* A FIP of the room that only its facilitator sees, and one that everybody *)
(* sees and the population of the room leaves out.                          *)
MCFipRows == {MCFipRow("private", room, q), MCFipRow("public", room, p)}
MCInitialRows == f1 :> MCFipRow("private", room, q)

MCRoom == [include |-> {Term("session", room, None), Term("public", None, None)},
           exclude |-> {Term("area", room, p)}, updatedAfter |-> None, updatedBefore |-> None]
MCPublic == [include |-> {Term("public", None, None), Term("network", None, None)},
             exclude |-> {}, updatedAfter |-> None, updatedBefore |-> None]
MCSpecs == {"ofRoom", "ofAll"}
MCSpecOf == [s \in MCSpecs |-> IF s = "ofRoom" THEN MCRoom ELSE MCPublic]
MCSavedBy == [s \in MCSpecs |-> fac]
MCRefreshLists == {<<"coverage", "clusters">>}
=============================================================================
