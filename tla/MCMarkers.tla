------------------------------ MODULE MCMarkers ------------------------------
(* Instances of Markers for TLC. *)
EXTENDS Markers

CONSTANTS Inner, Outer

TwoNames == {Inner, Outer}
InnerFirst == <<Inner, Outer>>

T == Parameter(1)

Def(kind, params, abilities, fields, local) ==
  [kind |-> kind, params |-> params, abilities |-> abilities, fields |-> fields, local |-> local]

Params(constraints) ==
  {<<>>} \cup {<<[constraints |-> c, phantom |-> p]>> : c \in constraints, p \in BOOLEAN}

InnerShapes ==
  {Def(kind, params, abilities, {field}, local) :
     kind \in {"struct", "enum"},
     params \in Params({{}, {"copy", "drop"}}),
     abilities \in {{}, {"copy"}, {"copy", "drop", "store"}, {"store"}, {"key"}},
     field \in {Scalar, T, Vector(T)},
     local \in BOOLEAN}

OuterShapes ==
  {Def(kind, params, abilities, fields, TRUE) :
     kind \in {"struct", "enum"},
     params \in Params({{}, {"copy"}, {"copy", "drop"}, {"key", "copy"}}),
     abilities \in {{}, {"drop"}, {"copy", "drop"}, {"key", "store"}},
     fields \in {{T}, {Datatype(Inner, <<>>)}, {Datatype(Inner, <<T>>)},
                 {Vector(Datatype(Inner, <<Scalar>>)), T}, {Datatype(Inner, <<Vector(T)>>)}}}

\* A field that names a parameter needs one; without one
\* it is all the same where it is.
Arities(all) == {def \in all : \/ def.params # <<>>
                               \/ def.local /\ \A ty \in def.fields : Closed(ty, 1)}

AllShapes == [n \in TwoNames |-> Arities(IF n = Inner THEN InnerShapes ELSE OuterShapes)]

SomeFunctions ==
  {[constraints |-> <<c>>, parameters |-> <<ty>>] :
     c \in {{}, {"copy"}, {"copy", "drop"}, {"key"}},
     ty \in {T, Datatype(Outer, <<T>>), Vector(Datatype(Inner, <<T>>))}}
    \cup {[constraints |-> <<>>, parameters |-> <<Datatype(Outer, <<Scalar>>)>>]}

Applied(types) == {Datatype(n, args) : n \in TwoNames, args \in {<<>>} \cup {<<ty>> : ty \in types}}

Few == {Scalar, UID, Datatype(Inner, <<>>), Datatype(Inner, <<Scalar>>)}
SomeTypes == Few \cup Applied(Few)

Vectors(types) == {Vector(ty) : ty \in types}

\* Few, T and what they are put into by the fields and functions above.
OpenTypes == SomeTypes \cup {T} \cup Applied({T})
AllTypes ==
  UNION {OpenTypes, Applied(OpenTypes), Vectors(OpenTypes), Vectors(Applied(OpenTypes)),
         Vectors(Vectors(OpenTypes)), {Datatype(Inner, <<ty>>) : ty \in Vectors(OpenTypes)}}

\* Inner has vectors of its argument, Outer has Inner of vectors.
RECURSIVE Depth(_)
Depth(ty) ==
  IF ty.type = "Vector" THEN 1 + Depth(ty.of)
  ELSE IF ty.type = "Datatype"
    THEN (IF ty.name = Inner THEN 2 ELSE 6) + (IF ty.args = <<>> THEN 0 ELSE Depth(ty.args[1]))
  ELSE 0

Depths == [ty \in AllTypes |-> Depth(ty)]
=============================================================================
