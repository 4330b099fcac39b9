------------------------------ MODULE MCMedia ------------------------------
(* An instance of Media for TLC: any options, user.c's among them.  One    *)
(* receiver at a time: what the sender knows of one does not depend on     *)
(* another.                                                                *)
EXTENDS Media

MCOptions == [r \in Receivers |-> SUBSET {"v", "l", "a"}]
=============================================================================
