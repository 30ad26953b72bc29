---------------------------- MODULE MCFipEditor ----------------------------
(* Small instances of FipEditor for TLC: two FIPs and two edits. *)
EXTENDS FipEditor

CONSTANTS fip1, fip2

MCFips == {fip1, fip2}
MCFirst == fip1
=============================================================================
