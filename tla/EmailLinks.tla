------------------------------ MODULE EmailLinks ------------------------------
(***************************************************************************)
(* What the links mailed to a user promise (spec 07, sections 2 and 3): a  *)
(* link is new when it is issued, it can be redeemed once and only while   *)
(* it is live, it may be withdrawn at any time and is never live again,    *)
(* and what it does to the account happens at most once, after it was      *)
(* redeemed.  AccountSecurity shows that the server keeps this promise     *)
(* with overlapping requests and crashes between their commits.            *)
(***************************************************************************)

EXTENDS Naturals

CONSTANT Links

VARIABLES
    issued,     \* the links that were ever mailed
    live,       \* those that can still be redeemed
    redeemed,   \* how often each was redeemed
    applied     \* how often its effect on the account was written

vars == <<issued, live, redeemed, applied>>

Init ==
    /\ issued = {} /\ live = {}
    /\ redeemed = [l \in Links |-> 0]
    /\ applied = [l \in Links |-> 0]

(* A new link may replace earlier ones. *)
Issue(l, replaced) ==
    /\ l \notin issued
    /\ issued' = issued \cup {l}
    /\ live' = (live \ replaced) \cup {l}
    /\ UNCHANGED <<redeemed, applied>>

Redeem(l) ==
    /\ l \in live
    /\ live' = live \ {l}
    /\ redeemed' = [redeemed EXCEPT ![l] = @ + 1]
    /\ UNCHANGED <<issued, applied>>

Apply(l) ==
    /\ applied[l] < redeemed[l]
    /\ applied' = [applied EXCEPT ![l] = @ + 1]
    /\ UNCHANGED <<issued, live, redeemed>>

Withdraw(withdrawn) ==
    /\ live' = live \ withdrawn
    /\ UNCHANGED <<issued, redeemed, applied>>

Next ==
    \/ \E l \in Links, replaced \in SUBSET live : Issue(l, replaced)
    \/ \E l \in Links : Redeem(l) \/ Apply(l)
    \/ \E withdrawn \in SUBSET live : Withdraw(withdrawn)

Spec == Init /\ [][Next]_vars

=============================================================================
