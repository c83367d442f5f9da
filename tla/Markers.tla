------------------------------- MODULE Markers -------------------------------
(***************************************************************************)
(* What Rust makes of the abilities of a Move package.  The generator      *)
(* renders a struct with the attribute #[move_struct], which the macro     *)
(* expands to trait impls, an enum with its impls, and the functions with  *)
(* bounds on their type parameters; rustc then checks it all.  Abilities   *)
(* become marker traits, and the conditions under which a Move type has an *)
(* ability become where clauses of its impls and bounds of builders.       *)
(***************************************************************************)
EXTENDS MoveTypes

CONSTANTS Order,     \* the datatypes in the order of their modules
          Shapes,    \* Shapes[n]: the definitions n may be published with
          Functions, \* the functions the package may have
          Samples    \* closed types that callers try

\* Rust for T0, ..., Tn of a datatype.
Self(n, def) == Datatype(n, [i \in 1..Arity(def) |-> Parameter(i)])

\* The arguments of #[move_struct].
Attributes ==
  [abilities : SUBSET Abilities, phantoms : SUBSET Nat, type_abilities : Seq(SUBSET Abilities)]

\* No datatype contains itself: what the fields of a type are lies below it.
ASSUME MarkersAssumption ==
  /\ Order \in Seq(Names) /\ \A n \in Names : \E i \in DOMAIN Order : Order[i] = n
  /\ \A n \in Names : /\ Shapes[n] \subseteq Definitions
                      /\ \A def \in Shapes[n] : Self(n, def) \in Universe
  /\ \A ty \in Universe : ty.type = "Datatype" =>
       \A def \in Shapes[ty.name] : \A field \in Fields(def) : Below(Subst(field, ty.args), ty)
  /\ Samples \subseteq Universe
  /\ \A f \in Functions :
       /\ f.constraints \in Seq(SUBSET Abilities) /\ f.parameters \in Seq(Universe)
       /\ \A i \in DOMAIN f.constraints : Parameter(i) \in Universe
       /\ \A args \in [DOMAIN f.constraints -> Samples] :
            \A k \in DOMAIN f.parameters : Subst(f.parameters[k], args) \in Universe
  /\ None \notin Definitions \cup Attributes \cup Functions

VARIABLES defs,      \* defs[n]: the published definition, or None
          phase,     \* move, then generate, then compile, then done
          at,        \* the datatype that is rendered or expanded
          attribute, \* attribute[n]: the arguments of #[move_struct] on n, or None
          impls,     \* the impls of the generated crate
          refused,   \* the structs at which the macro reports an error
          function,  \* the function rendered, or None
          bounds,    \* the bounds of its builder
          compiled   \* rustc's verdict on the datatypes

rust == <<attribute, impls, refused>>
builder == <<function, bounds>>
vars == <<defs, phase, at, rust, builder, compiled>>

-----------------------------------------------------------------------------
(* Traits.  External: rustc's solver. *)

Marker == [copy |-> "HasCopy", drop |-> "HasDrop", store |-> "HasStore", key |-> "HasKey"]

Bound(ty, trait) == [ty |-> ty, trait |-> trait]

\* An impl for a datatype over its own parameters, under the bounds where; needs is what
\* its body and the supertraits ask for.
Impl(trait, n, where, needs) == [trait |-> trait, name |-> n, where |-> where, needs |-> needs]

\* HasCopy: Clone, MoveStruct: MoveType.  Those of MoveType (Serialize, Deserialize, Debug
\* and Eq) are left out: every struct and enum that is rendered derives them.
Supertrait(trait) == IF trait = "HasCopy" THEN {"Clone"}
                     ELSE IF trait = "MoveStruct" THEN {"MoveType"} ELSE {}

Assumed(goal, env) ==
  \E b \in env : b.ty = goal.ty /\ (b.trait = goal.trait \/ goal.trait \in Supertrait(b.trait))

\* sui-move's impls for scalars and Vec; UID is a generated struct with store.
ScalarTraits == {"Clone", "MoveType", "HasCopy", "HasDrop", "HasStore"}
VecTraits == ScalarTraits
UidTraits == {"Clone", "MoveType", "MoveStruct", "HasStore"}

Traits == ScalarTraits \cup UidTraits \cup {"HasKey"}

Goals == [ty : Universe, trait : Traits]

Instance(b, args) == Bound(Subst(b.ty, args), b.trait)

Holds(bound, env, all) ==
  LET holds[goal \in Goals] ==
        LET ty == goal.ty  trait == goal.trait IN
        \/ Assumed(goal, env)
        \/ ty.type = "Scalar" /\ trait \in ScalarTraits
        \/ ty.type = "UID" /\ trait \in UidTraits
        \/ ty.type = "Vector" /\ trait \in VecTraits /\ holds[Bound(ty.of, trait)]
        \/ /\ ty.type = "Datatype"
           /\ \E impl \in all : /\ impl.name = ty.name /\ impl.trait = trait
                                /\ \A b \in impl.where : holds[Instance(b, ty.args)]
  IN  holds[bound]

\* Rust refuses a bound without parameters that does not hold.
ImplCompiles(impl, n, all) ==
  /\ \A b \in impl.where : Closed(b.ty, n) => Holds(b, {}, all)
  /\ \A b \in impl.needs : Holds(b, impl.where, all)

-----------------------------------------------------------------------------
(* #[move_struct] *)

\* AbilityFlags: copy implies drop.
Flags(abilities) == abilities \cup IF "copy" \in abilities THEN {"drop"} ELSE {}

Contradiction(abilities) == {"key", "copy"} \subseteq abilities

\* The macro's errors.
Refuses(attr, fields) ==
  \/ \E i \in DOMAIN attr.type_abilities : Contradiction(attr.type_abilities[i])
  \/ Contradiction(attr.abilities)
  \/ "key" \in attr.abilities /\ UID \notin fields

\* T0: MoveType + HasStore, ...
ParamBounds(constraints) ==
  UNION {{Bound(Parameter(i), "MoveType")}
           \cup {Bound(Parameter(i), Marker[a]) : a \in constraints[i]}
         : i \in DOMAIN constraints}

FieldBounds(fields, trait) == {Bound(ty, trait) : ty \in fields}

\* MoveType, and MoveStruct on top of it.
TypeImpls(n, def, where) ==
  {Impl("MoveType", n, where, {}),
   Impl("MoveStruct", n, where, {Bound(Self(n, def), "MoveType")})}

\* A marker impl, with what its supertrait needs.
MarkerImpl(a, n, def, where) ==
  Impl(Marker[a], n, where,
       {Bound(Self(n, def), trait) : trait \in Supertrait(Marker[a])})

\* Mutant of CloneWhere: no bounds but those on the parameters.
CloneWhereParams(params, fields) == params

\* Clone asks Clone of every field.
CloneWhere(params, fields) == params \cup FieldBounds(fields, "Clone")

\* Mutants of MarkerWhere: of no field; of every parameter, as a derive would.
MarkerWhereParams(params, a, fields) == params
MarkerWhereAll(params, a, fields) == params \cup {Bound(b.ty, Marker[a]) : b \in params}

\* A marker other than HasKey asks for itself of every field.
MarkerWhere(params, a, fields) ==
  params \cup IF a = "key" THEN {} ELSE FieldBounds(fields, Marker[a])

StructImpls(n, def, attr) ==
  LET params == ParamBounds([i \in DOMAIN attr.type_abilities |-> Flags(attr.type_abilities[i])])
      fields == Fields(def) IN
  {Impl("Clone", n, CloneWhere(params, fields), FieldBounds(fields, "Clone"))}
    \cup TypeImpls(n, def, params)
    \cup {MarkerImpl(a, n, def, MarkerWhere(params, a, fields)) : a \in Flags(attr.abilities)}

-----------------------------------------------------------------------------
(* render_enum *)

\* The derive of Clone asks T: Clone of every parameter and clones every field.
EnumClone(n, def) ==
  Impl("Clone", n, {Bound(Parameter(i), "Clone") : i \in 1..Arity(def)},
       FieldBounds(def.fields, "Clone"))

EnumImpls(n, def) ==
  LET where == ParamBounds([i \in DOMAIN def.params |-> def.params[i].constraints]) IN
  TypeImpls(n, def, where)
    \cup {MarkerImpl(a, n, def, where) : a \in def.abilities}
    \cup IF "copy" \in def.abilities THEN {EnumClone(n, def)} ELSE {}

-----------------------------------------------------------------------------
(* The bounds of a builder: pairs of a type parameter and an ability.  What  *)
(* the fields of a datatype ask for is known of the package's own only.     *)

Own(n) == defs[n].local

\* What is asked of a type: "MoveType", or an ability.
Ask(ty, asked) == [ty |-> ty, asked |-> asked]

Asks == [ty : Universe, asked : {"MoveType"} \cup Abilities]

FieldAbilities(def) == def.abilities \ {"key"}

\* Mutant of DatatypeBounds: arguments in place of fields.
DatatypeBoundsArguments(ty, collected) ==
  UNION {collected[Ask(ty.args[i], a)] : i \in DOMAIN ty.args, a \in FieldAbilities(defs[ty.name])}

\* collect_datatype_impl_bounds and collect_field_ability_bounds, over what is collected
\* of arguments and fields.
DatatypeBounds(ty, collected) ==
  LET def == defs[ty.name] IN
  (UNION {UNION {collected[Ask(ty.args[i], asked)]
                 : asked \in {"MoveType"} \cup def.params[i].constraints}
          : i \in DOMAIN ty.args \cap DOMAIN def.params})
    \cup (UNION {collected[Ask(Subst(field, ty.args), a)]
                 : field \in Fields(def), a \in FieldAbilities(def)})

\* collect_move_type_bounds and collect_ability_bounds
Collected(ty, asked) ==
  LET collected[ask \in Asks] ==
        IF ask.ty.type = "Parameter"
          THEN IF ask.asked = "MoveType" THEN {} ELSE {<<ask.ty.index, ask.asked>>}
        ELSE IF ask.ty.type = "Vector" THEN collected[Ask(ask.ty.of, ask.asked)]
        ELSE IF ask.ty.type = "Datatype" /\ Own(ask.ty.name) THEN DatatypeBounds(ask.ty, collected)
        ELSE {}
  IN  collected[Ask(ty, asked)]

\* Mutant of Required: what the types ask for, not what the function declares.
RequiredByTypes(f) ==
  UNION {Collected(f.parameters[k], "MoveType") : k \in DOMAIN f.parameters}

\* required_type_param_abilities
Required(f) ==
  (UNION {{<<i, a>> : a \in f.constraints[i]} : i \in DOMAIN f.constraints})
    \cup (UNION {Collected(f.parameters[k], "MoveType") : k \in DOMAIN f.parameters})

BuilderBoundsOfValues(f) ==
  ParamBounds([i \in DOMAIN f.constraints |-> {a \in Abilities : <<i, a>> \in Required(f)}])

BuilderBounds(f) ==
  LET required(i) == {a \in Abilities : <<i, a>> \in Required(f)} IN
  UNION {{Bound(Parameter(i), IF "key" \in required(i) THEN "MoveStruct" ELSE "MoveType")}
           \cup {Bound(Parameter(i), Marker[a]) : a \in required(i)}
         : i \in DOMAIN f.constraints}

\* is_object_type
IsObject(ty, f) == \/ ty.type = "Datatype" /\ "key" \in defs[ty.name].abilities
                   \/ ty.type = "Parameter" /\ "key" \in f.constraints[ty.index]

\* What the body asks for: push_type_arg, ObjectArg for objects, ToCallArg for values.
BuilderNeeds(f) ==
  {Bound(Parameter(i), "MoveType") : i \in DOMAIN f.constraints}
    \cup UNION {IF IsObject(f.parameters[k], f)
                  THEN {Bound(f.parameters[k], "MoveStruct"), Bound(f.parameters[k], "HasKey")}
                  ELSE {Bound(f.parameters[k], "MoveType")}
                : k \in DOMAIN f.parameters}

-----------------------------------------------------------------------------

Init ==
  /\ defs = [n \in Names |-> None]
  /\ phase = "move" /\ at = 1
  /\ attribute = [n \in Names |-> None] /\ impls = {} /\ refused = {}
  /\ function = None /\ bounds = {}
  /\ compiled = FALSE

\* A package, or one it depends on, has a datatype that passed the verifier.
Publish(n) ==
  /\ phase = "move"
  /\ defs[n] = None
  /\ \E def \in Shapes[n] : /\ Valid(def, defs)
                            /\ defs' = [defs EXCEPT ![n] = def]
  /\ UNCHANGED <<phase, at, rust, builder, compiled>>

BeginRender ==
  /\ phase = "move" /\ \A n \in Names : defs[n] # None
  /\ phase' = "generate"
  /\ UNCHANGED <<defs, at, rust, builder, compiled>>

\* render_struct: the abilities go to the attribute as strings.
RenderStruct ==
  /\ phase = "generate" /\ at <= Len(Order) /\ defs[Order[at]].kind = "struct"
  /\ LET def == defs[Order[at]] IN
     attribute' = [attribute EXCEPT ![Order[at]] =
       [abilities      |-> def.abilities,
        phantoms       |-> {i \in DOMAIN def.params : def.params[i].phantom},
        type_abilities |-> [i \in DOMAIN def.params |-> def.params[i].constraints]]]
  /\ at' = at + 1
  /\ UNCHANGED <<defs, phase, impls, refused, builder, compiled>>

RenderEnum ==
  /\ phase = "generate" /\ at <= Len(Order) /\ defs[Order[at]].kind = "enum"
  /\ impls' = impls \cup EnumImpls(Order[at], defs[Order[at]])
  /\ at' = at + 1
  /\ UNCHANGED <<defs, phase, attribute, refused, builder, compiled>>

RenderFunction ==
  /\ phase = "generate" /\ at > Len(Order) /\ function = None
  /\ \E f \in Functions : /\ ValidFunction(f, defs)
                          /\ function' = f /\ bounds' = BuilderBounds(f)
  /\ UNCHANGED <<defs, phase, at, rust, compiled>>

RenderEnds ==
  /\ phase = "generate" /\ at > Len(Order)
  /\ phase' = "compile" /\ at' = 1
  /\ UNCHANGED <<defs, rust, builder, compiled>>

\* rustc runs the macro on the structs.
ExpandMoveStruct ==
  /\ phase = "compile" /\ at <= Len(Order)
  /\ LET n == Order[at] IN
     IF attribute[n] = None THEN UNCHANGED <<impls, refused>>
     ELSE IF Refuses(attribute[n], Fields(defs[n]))
       THEN refused' = refused \cup {n} /\ UNCHANGED impls
     ELSE impls' = impls \cup StructImpls(n, defs[n], attribute[n]) /\ UNCHANGED refused
  /\ at' = at + 1
  /\ UNCHANGED <<defs, phase, attribute, builder, compiled>>

\* Rust refuses a parameter that nothing uses; the macro adds a PhantomData for a phantom.
Used(n, i) == \/ \E ty \in Fields(defs[n]) : Mentions(ty, i)
              \/ attribute[n] # None /\ i \in attribute[n].phantoms

Compiles(n) ==
  /\ n \notin refused
  /\ \A i \in 1..Arity(defs[n]) : Used(n, i)
  /\ \A impl \in impls : impl.name = n => ImplCompiles(impl, Arity(defs[n]), impls)

\* rustc checks what it expanded.
Check ==
  /\ phase = "compile" /\ at > Len(Order)
  /\ phase' = "done" /\ compiled' = (\A n \in Names : Compiles(n))
  /\ UNCHANGED <<defs, at, rust, builder>>

Next == \/ \E n \in Names : Publish(n)
        \/ BeginRender \/ RenderStruct \/ RenderEnum \/ RenderFunction \/ RenderEnds
        \/ ExpandMoveStruct \/ Check

Spec == Init /\ [][Next]_vars

-----------------------------------------------------------------------------
(* Properties *)

\* The impls of a crate.
Implementations == [trait : Traits, name : Names, where : SUBSET Goals, needs : SUBSET Goals]

\* Impls and builders have bounds on types there are, of traits there are.
TypeOK ==
  /\ defs \in [Names -> Definitions \cup {None}]
  /\ phase \in {"move", "generate", "compile", "done"} /\ at \in Nat \ {0}
  /\ attribute \in [Names -> Attributes \cup {None}] /\ refused \subseteq Names
  /\ impls \subseteq Implementations
  /\ function \in Functions \cup {None} /\ bounds \subseteq Goals
  /\ compiled \in BOOLEAN

\* The impls do not depend on the function, so they are looked at where there is none.
Impls == phase = "done" /\ function = None
Builder == phase = "done" /\ function # None

Has(ty, a) == Holds(Bound(ty, Marker[a]), {}, impls)

\* Every copy comes with drop, as in all but contrived Move code.  The macro takes it for a
\* rule of Move (abilities.rs:22, "normalized to match Move rules"), which it is not; the
\* enums and the builders do not.
CopyWithDrop ==
  LET whole(abilities) == "copy" \in abilities => "drop" \in abilities IN
  /\ \A n \in Names : /\ whole(defs[n].abilities)
                      /\ \A i \in DOMAIN defs[n].params : whole(defs[n].params[i].constraints)
  /\ function # None =>
       \A i \in DOMAIN function.constraints : whole(function.constraints[i])

\* The closed types that Move has.
Types == {ty \in Samples : WellFormed(ty, defs, <<>>)}

\* What Clone of a closed type comes to in Move's terms: no enum without copy inside.
Clonable(ty) ==
  LET clonable[t \in Universe] ==
        /\ t.type = "Vector" => clonable[t.of]
        /\ t.type = "Datatype" =>
             LET def == defs[t.name] IN
             IF def.kind = "enum"
               THEN "copy" \in def.abilities /\ \A k \in DOMAIN t.args : clonable[t.args[k]]
               ELSE \A field \in Fields(def) : clonable[Subst(field, t.args)]
  IN  clonable[ty]

\* A struct is applied to a parameter of the datatype around it, which has n.
StructOf(ty, n) ==
  \E part \in Parts(ty) :
    part.type = "Datatype" /\ ~Closed(part, n) /\ defs[part.name].kind = "struct"

\* What of a valid Move datatype the generated Rust does not get by with: a parameter that
\* no field mentions (a phantom one of an enum among them); key and copy on a parameter of
\* a struct; a struct around an enum without copy; an enum with copy whose parameter need
\* not be copied or that applies a struct to it, as the derive of Clone asks T: Clone only.
Obstacle(n) ==
  LET def == defs[n] IN
  \/ \E i \in 1..Arity(def) : /\ \A ty \in Fields(def) : ~Mentions(ty, i)
                              /\ def.kind = "struct" => ~def.params[i].phantom
  \/ def.kind = "struct" /\ \E i \in 1..Arity(def) : Contradiction(def.params[i].constraints)
  \/ def.kind = "struct" /\ \E ty \in Fields(def) : Closed(ty, Arity(def)) /\ ~Clonable(ty)
  \/ /\ def.kind = "enum" /\ "copy" \in def.abilities
     /\ \/ \E i \in 1..Arity(def) : "copy" \notin def.params[i].constraints
        \/ \E ty \in Fields(def) : StructOf(ty, Arity(def))

\* The datatypes of a package compile unless there is one of these obstacles, and then they
\* do not: where clauses of one impl are met by the impls of the others, Clone and the
\* supertraits included, however datatypes nest (expand.rs and render_enum write them
\* apart from one another).
CompilesUnlessObstructed ==
  Impls /\ CopyWithDrop => (compiled <=> ~ \E n \in Names : Obstacle(n))

\* A Move type that has an ability has its marker in Rust, however it is put together: the
\* ability of its arguments in Move implies the bounds on its fields in Rust, phantom
\* parameters need nothing.
MarkersCoverAbilities ==
  Impls /\ compiled /\ CopyWithDrop =>
    \A ty \in Types : \A a \in AbilitiesOf(ty, defs, <<>>) : Has(ty, a)

\* The parameters whose abilities count for those of ty.
Counted(ty) ==
  LET counted[t \in Universe] ==
        IF t.type = "Parameter" THEN {t.index}
        ELSE IF t.type = "Vector" THEN counted[t.of]
        ELSE IF t.type = "Datatype"
          THEN UNION {counted[t.args[k]]
                      : k \in {k \in DOMAIN t.args : ~defs[t.name].params[k].phantom}}
        ELSE {}
  IN  counted[ty]

\* Parameters that are not phantom count in some field.  The Move compiler warns of those
\* that do not, except within an argument of a phantom parameter.
AllCount ==
  \A n \in Names : \A i \in DOMAIN defs[n].params :
    ~defs[n].params[i].phantom => \E ty \in Fields(defs[n]) : i \in Counted(ty)

\* The types that ty is made of, those of the fields included.
Unfolded(ty) ==
  LET unfolded[t \in Universe] ==
        {t} \cup IF t.type = "Vector" THEN unfolded[t.of]
                 ELSE IF t.type = "Datatype"
                   THEN (UNION {unfolded[t.args[k]] : k \in DOMAIN t.args})
                          \cup (UNION {unfolded[Subst(field, t.args)]
                                       : field \in Fields(defs[t.name])})
                 ELSE {}
  IN  unfolded[ty]

\* Within ty there are structs only, and objects that are objects with their arguments:
\* the markers of enums and HasKey do not look at what is inside.
OnlyStructs(ty) ==
  \A part \in Unfolded(ty) : part.type = "Datatype" =>
    /\ defs[part.name].kind = "struct"
    /\ "key" \in defs[part.name].abilities => "key" \in AbilitiesOf(part, defs, <<>>)

\* A type made of structs has a marker in Rust only if it has the ability in Move.
MarkersAreEarned ==
  Impls /\ compiled /\ CopyWithDrop /\ AllCount =>
    \A ty \in Types : OnlyStructs(ty) =>
      \A a \in Abilities : Has(ty, a) => a \in AbilitiesOf(ty, defs, <<>>)

\* The bounds of a builder are all its body needs, for whatever function Move accepts: type
\* arguments have tags, objects are objects, values can be passed.
BuildersCompile ==
  Builder /\ compiled /\ CopyWithDrop =>
    \A b \in BuilderNeeds(function) : Holds(b, bounds, impls)

Accepts(args) == \A b \in bounds : Holds(Instance(b, args), {}, impls)

Calls == [DOMAIN function.constraints -> Types]

\* All in ty have, with their arguments, the abilities they declare.
FullyAble(ty) ==
  \A part \in Unfolded(ty) : part.type = "Datatype" =>
    defs[part.name].abilities \subseteq AbilitiesOf(part, defs, <<>>)

\* A call that Move accepts, the builder does, unless an argument lacks an ability that its
\* datatype declares: collect_field_ability_bounds asks for those whether or not the
\* function needs them.
LegalCallsAreAccepted ==
  Builder /\ compiled /\ CopyWithDrop =>
    \A args \in Calls :
      /\ LegalCall(function, args, defs)
      /\ \A k \in DOMAIN function.parameters : FullyAble(Subst(function.parameters[k], args))
      => Accepts(args)

\* What a builder accepts, of types made of structs, Move accepts: the type checker stops a
\* call that the chain would abort.
AcceptedCallsAreLegal ==
  Builder /\ compiled /\ CopyWithDrop /\ AllCount =>
    \A args \in Calls :
      (\A i \in DOMAIN args : OnlyStructs(args[i])) /\ Accepts(args)
        => LegalCall(function, args, defs)

=============================================================================
