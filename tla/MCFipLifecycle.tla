--------------------------- MODULE MCFipLifecycle ---------------------------
(* Small instances of FipLifecycle for TLC. *)
EXTENDS FipLifecycle, TLC

CONSTANTS adm, ann, bob, A, B

MCUsers == {adm, ann, bob}
MCAdmins == {adm}
MCUnverified == {bob}
MCVersions == 1..2

(* One model, its first version published by ann: the second version, the   *)
(* deletions and the anonymisation all happen in the run.                    *)
MCOneModel == (<<A, 1>> :> [status |-> "published", owner |-> ann, visibility |-> "public"])
MCOneRef == {<< <<A, 1>> >>, << <<A, 2>> >>, << <<A, 2>>, <<A, 1>> >>}

(* Two models: sessions offer A in version 2 first and B in version 1 next;  *)
(* both have two published versions.                                         *)
MCTwoModels == [k \in {A, B} \X (1..2) |->
                  [status |-> "published", owner |-> ann, visibility |-> "public"]]
MCTwoRefs == {<< <<A, 2>>, <<B, 1>> >>}

(* The database is new, or holds one FIP that somebody made without an account. *)
MCInitialFips ==
    {<<>>} \cup {f :> [owner |-> None, session |-> None, token |-> TRUE,
                       visibility |-> "link", ref |-> <<A, 1>>] : f \in FipIds}
=============================================================================
