------------------------------- MODULE MCHandles -------------------------------
(* Instances of Handles for TLC. *)
EXTENDS Handles, TLC

CONSTANTS o1, o2, r1

OneObject  == {o1}
TwoObjects == {o1, o2}
OneReader  == {r1}

Kinds(kinds) == {[kind |-> kind, start |-> 0] : kind \in kinds}

OwnedAndChild == Kinds({"Address", "Object"})
OnlyAddress   == Kinds({"Address"})
=============================================================================
