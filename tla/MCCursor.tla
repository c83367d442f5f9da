------------------------------ MODULE MCCursor ------------------------------
(* Instances of Cursor for TLC. *)
EXTENDS Cursor

CONSTANTS o1, p1

OneObject  == {o1}
ObjectAndPackage == {o1, p1}
NoIds    == {}
OnePackage == {p1}

AllKinds == {"Immutable", "Address", "Object", "Shared", "ConsensusAddress"}

OwnedKinds  == {"Address", "Object"}
OnlyAddress == {"Address"}

BothFormats == {"V1", "V2"}
V2Only      == {"V2"}
=============================================================================
