--------------------------- MODULE MCPackageScope ---------------------------
(* Instances of PackageScope for TLC. *)
EXTENDS PackageScope

CONSTANTS original, upgraded, agent, state

Packages == {original, upgraded}
AgentAndState == {agent, state}

\* One datatype came with the upgrade; or all are where the fallback says.
TwoOrigins == {NoOrigins, [datatype \in Datatypes |-> IF datatype = state THEN upgraded ELSE None]}
=============================================================================
