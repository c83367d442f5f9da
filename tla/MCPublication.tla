---------------------------- MODULE MCPublication ----------------------------
(* Instances of Publication for TLC. *)
EXTENDS Publication, TLC

CONSTANTS r1, r2

TwoRuns == {r1, r2}

\* A first release, free or with a name taken; a later one; a later one with a new crate
\* whose name is free or taken.
Histories ==
  {[own |-> {}, others |-> {}],
   [own |-> {}, others |-> {"ptb"}],
   [own |-> Packages, others |-> {}],
   [own |-> Packages \ {"ptb"}, others |-> {}],
   [own |-> Packages \ {"ptb"}, others |-> {"ptb"}]}
=============================================================================
