-------------------------- MODULE MCAccessRequests --------------------------
(***************************************************************************)
(* Small instances of AccessRequests.  ann is in the security group; bob   *)
(* is in the manager group, in most runs in the security group too, and    *)
(* an administrator.  Both ask for access.                                 *)
(***************************************************************************)
EXTENDS AccessRequests, TLC

CONSTANTS ann, bob

MCUsers == {ann, bob}
MCAdmins == {bob}
MCSecurityMembers == {ann, bob}
MCManagerMembers == [g \in ManagerGroups |-> {bob}]

\* One member for each tier, for the liveness run.
MCSecurityMember == {ann}

\* Slots for invocations are interchangeable (only without liveness).
MCSymmetry == Permutations(Invocations)
=============================================================================
