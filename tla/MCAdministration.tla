--------------------------- MODULE MCAdministration ---------------------------
(* Small instances of Administration: ann installed the system. *)
EXTENDS Administration, TLC

CONSTANTS ann

MCSymmetry ==
    Permutations(Users \ {ann}) \cup Permutations(GroupIDs)
        \cup Permutations(Roles) \cup Permutations(Invocations)
===============================================================================
