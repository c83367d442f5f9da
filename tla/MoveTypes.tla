------------------------------ MODULE MoveTypes ------------------------------
(***************************************************************************)
(* Move types with their abilities, as the Move verifier has them.  The    *)
(* generator is given what passed it.  External, except the substitution   *)
(* of type arguments, which the generator does itself.                     *)
(***************************************************************************)
EXTENDS Integers, Sequences, FiniteSets

CONSTANTS Names,  \* names of datatypes
          Height, \* Height[ty]: above that of every type ty is made of
          None

Abilities == {"copy", "drop", "store", "key"}

\* Types.  A reference is the type it refers to; UID stands for the framework's.
Scalar == [type |-> "Scalar"]
UID == [type |-> "UID"]
Parameter(i) == [type |-> "Parameter", index |-> i]
Vector(ty) == [type |-> "Vector", of |-> ty]
Datatype(n, args) == [type |-> "Datatype", name |-> n, args |-> args]

\* The types there are.
Universe == DOMAIN Height

Below(part, ty) == part \in Universe /\ Height[part] < Height[ty]

ASSUME UniverseAssumption ==
  /\ Height \in [Universe -> Nat]
  /\ {Scalar, UID} \subseteq Universe
  /\ \A ty \in Universe :
       \/ ty \in {Scalar, UID}
       \/ /\ ty.type = "Parameter" /\ ty = Parameter(ty.index)
          /\ ty.index \in Nat /\ Height[ty] = 0
       \/ ty.type = "Vector" /\ ty = Vector(ty.of) /\ Below(ty.of, ty)
       \/ /\ ty.type = "Datatype" /\ ty = Datatype(ty.name, ty.args) /\ Height[ty] > 0
          /\ ty.name \in Names /\ ty.args \in Seq(Universe)
          /\ \A k \in DOMAIN ty.args : Below(ty.args[k], ty)

\* substitute_type_params: parameters without an argument stay.
Subst(ty, args) ==
  LET subst[t \in Universe] ==
        IF t.type = "Parameter" THEN IF t.index \in DOMAIN args THEN args[t.index] ELSE t
        ELSE IF t.type = "Vector" THEN Vector(subst[t.of])
        ELSE IF t.type = "Datatype"
          THEN Datatype(t.name, [k \in DOMAIN t.args |-> subst[t.args[k]]])
        ELSE t
  IN  subst[ty]

\* The types that ty is written with, ty among them.
Parts(ty) ==
  LET parts[t \in Universe] ==
        {t} \cup IF t.type = "Vector" THEN parts[t.of]
                 ELSE IF t.type = "Datatype" THEN UNION {parts[t.args[k]] : k \in DOMAIN t.args}
                 ELSE {}
  IN  parts[ty]

Mentions(ty, i) == Parameter(i) \in Parts(ty)

Closed(ty, n) == ~ \E i \in 1..n : Mentions(ty, i)

\* Datatypes; the fields of an enum are those of all its variants.
Definitions ==
  [kind      : {"struct", "enum"},
   params    : Seq([constraints : SUBSET Abilities, phantom : BOOLEAN]),
   abilities : SUBSET Abilities,
   fields    : SUBSET Universe,
   local     : BOOLEAN]

Fields(def) == def.fields \cup IF "key" \in def.abilities THEN {UID} ELSE {}

Arity(def) == Len(def.params)

\* What a field, or an argument of a parameter that is not phantom, must have.
Needed(ability) == IF ability = "key" THEN "store" ELSE ability

\* given[i]: the abilities of the type parameter i in scope.
AbilitiesOf(ty, defs, given) ==
  LET abilities[t \in Universe] ==
        IF t.type = "Scalar" THEN {"copy", "drop", "store"}
        ELSE IF t.type = "UID" THEN {"store"}
        ELSE IF t.type = "Parameter" THEN given[t.index]
        ELSE IF t.type = "Vector" THEN abilities[t.of] \ {"key"}
        ELSE {a \in defs[t.name].abilities :
                \A k \in DOMAIN t.args :
                  ~defs[t.name].params[k].phantom => Needed(a) \in abilities[t.args[k]]}
  IN  abilities[ty]

\* Type arguments have the abilities the parameters are constrained to.
WellFormed(ty, defs, given) ==
  /\ \A part \in Parts(ty) : part.type = "Parameter" => part.index \in DOMAIN given
  /\ \A part \in Parts(ty) : part.type = "Datatype" =>
       /\ defs[part.name] # None /\ Len(part.args) = Arity(defs[part.name])
       /\ \A k \in DOMAIN part.args :
            defs[part.name].params[k].constraints \subseteq AbilitiesOf(part.args[k], defs, given)

\* A phantom parameter stands only where phantom parameters are asked for.
OnlyPhantom(ty, defs, i) ==
  /\ ty # Parameter(i)
  /\ \A part \in Parts(ty) :
       /\ part.type = "Vector" => part.of # Parameter(i)
       /\ part.type = "Datatype" =>
            \A k \in DOMAIN part.args :
              part.args[k] = Parameter(i) => defs[part.name].params[k].phantom

\* The verifier's rules for a datatype whose fields are of the datatypes in defs.
Valid(def, defs) ==
  LET given == [i \in DOMAIN def.params |-> def.params[i].constraints]
      all   == [i \in DOMAIN def.params |-> Abilities] IN
  /\ def.kind = "enum" => "key" \notin def.abilities
  /\ \A ty \in def.fields : WellFormed(ty, defs, given)
  /\ \A i \in DOMAIN def.params : def.params[i].phantom =>
       \A ty \in def.fields : OnlyPhantom(ty, defs, i)
  /\ \A ty \in Fields(def) : \A a \in def.abilities : Needed(a) \in AbilitiesOf(ty, defs, all)

\* A function: [constraints, parameters].
ValidFunction(f, defs) ==
  \A k \in DOMAIN f.parameters : WellFormed(f.parameters[k], defs, f.constraints)

\* A call of f with closed types for its type parameters.
LegalCall(f, args, defs) ==
  /\ \A i \in DOMAIN args : /\ WellFormed(args[i], defs, <<>>)
                            /\ f.constraints[i] \subseteq AbilitiesOf(args[i], defs, <<>>)
  /\ \A k \in DOMAIN f.parameters : WellFormed(Subst(f.parameters[k], args), defs, <<>>)

=============================================================================
