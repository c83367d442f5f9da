----------------------------- MODULE MCSubmission -----------------------------
(* Instances of Submission for TLC. *)
EXTENDS Submission, TLC

CONSTANT o1

OneObject  == {o1}
NoIds      == {}
OwnedKinds == {"Address", "Object"}
OnlyAddress == {"Address"}
V2Only     == {"V2"}
=============================================================================
