--------------------------- MODULE MCFipRequests ---------------------------
(* Small instances of FipRequests for TLC. *)
EXTENDS FipRequests, TLC

CONSTANTS ann, bob, A, x, y, legacy

MCUsers == {ann, bob}
MCAdmins == {ann}

(* The questionnaires are owned by nobody, as the system's are. *)
MCKms == [k \in {A} \X Versions |-> [status |-> "published", owner |-> None, visibility |-> "public"]]
MCRefLists == {<< <<A, 2>>, <<A, 1>> >>}
MCVersions == 1..2

(* The database is new, or holds one FIP that somebody made without an account. *)
MCInitialFips ==
    {<<>>} \cup {f :> [owner |-> None, session |-> None, token |-> TRUE,
                       visibility |-> "public", ref |-> <<A, 1>>] : f \in FipIds}

(* Answers with evidence in the old form are x once it is rewritten. *)
MCNormal == [a \in Answers |-> IF a = legacy THEN x ELSE a]

(* A new FIP has answers x; a PATCH sends other answers, a visibility, or,   *)
(* the second time, an autosave of the very answers the FIP has.            *)
MCFirstBodies == [visibility : {"public"}, answers : {x}]
MCSerialBodies == [visibility : {"private", "public"}, answers : {x}]
MCPatchBodies ==
    [visibility : {None}, answers : {y}, normal : {MCNormal}]
        \cup [visibility : {"private"}, answers : {None}, normal : {MCNormal}]

MCSymmetry == Permutations(Requests) \cup Permutations(Users)
MCSerialSymmetry == Permutations(FipIds)
=============================================================================
