--------------------------- MODULE BindingsProofs ---------------------------
(***************************************************************************)
(* What the bindings generator guarantees for any packages and upgrades,   *)
(* any sources, any order of the datatypes and any rewriting of addresses. *)
(***************************************************************************)
EXTENDS Bindings, FiniteSetTheorems, WellFoundedInduction, TLAPS

-----------------------------------------------------------------------------
(* Identifiers *)

\* No Rust identifier.
Forbidden == {Plain(word) : word \in Unrawable \cup {Underscore}}

\* Among one more names than are in use there is one that is not.
LEMMA SomeIsUnused ==
  ASSUME NEW word, NEW used, IsFiniteSet(used)
  PROVE  \E k \in 0..Cardinality(used) : [word |-> word, tail |-> k] \notin used
<1> DEFINE c == Cardinality(used)
           f == [k \in 0..c |-> [word |-> word, tail |-> k]]
<1> SUFFICES ASSUME \A k \in 0..c : [word |-> word, tail |-> k] \in used PROVE FALSE
  OBVIOUS
<1>1. c \in Nat
  BY FS_CardinalityType
<1>2. IsFiniteSet(0..c) /\ Cardinality(0..c) = c + 1
  BY <1>1, FS_Interval
<1>3. f \in [0..c -> used]
  OBVIOUS
<1> HIDE DEF f
<1>4. PICK x \in 0..c, y \in 0..c : x # y /\ f[x] = f[y]
  BY <1>1, <1>2, <1>3, FS_PigeonHole
<1>5. f[x].tail = x /\ f[y].tail = y
  BY DEF f
<1> QED  BY <1>4, <1>5

LEMMA LeastExists ==
  ASSUME NEW numbers \in SUBSET Nat, numbers # {}
  PROVE  \E k \in numbers : \A j \in numbers : k <= j
<1>1. IsWellFoundedOn(OpToRel(<, Nat), Nat)
  BY NatLessThanWellFounded
<1>2. PICK k \in numbers : \A j \in numbers : <<j, k>> \notin OpToRel(<, Nat)
  BY <1>1, WFMin
<1>3. \A j \in numbers : ~(j < k)
  BY <1>2 DEF OpToRel
<1> QED  BY <1>3

LEMMA UnusedFacts ==
  ASSUME NEW word, NEW used, IsFiniteSet(used)
  PROVE  /\ Unused(word, used) \in Nat
         /\ [word |-> word, tail |-> Unused(word, used)] \notin used
<1> DEFINE numbers == {k \in 0..Cardinality(used) : [word |-> word, tail |-> k] \notin used}
<1>1. Cardinality(used) \in Nat
  BY FS_CardinalityType
<1>2. PICK first \in 0..Cardinality(used) : [word |-> word, tail |-> first] \notin used
  BY SomeIsUnused
<1>3. first \in numbers /\ numbers \subseteq Nat
  BY <1>1, <1>2
<1>4. PICK k \in numbers : \A j \in numbers : k <= j
  <2> HIDE DEF numbers
  <2> QED  BY <1>3, LeastExists
<1>5. \A j \in 0..(k - 1) : [word |-> word, tail |-> j] \in used
  BY <1>1, <1>4
<1>6. \E n \in 0..Cardinality(used) :
         /\ [word |-> word, tail |-> n] \notin used
         /\ \A j \in 0..(n - 1) : [word |-> word, tail |-> j] \in used
  BY <1>4, <1>5
<1>7. /\ Unused(word, used) \in 0..Cardinality(used)
      /\ [word |-> word, tail |-> Unused(word, used)] \notin used
  BY <1>6 DEF Unused
<1> QED  BY <1>1, <1>7

\* ParameterIdents::next gives an identifier that is not in use yet and is not forbidden.
LEMMA NextIdentFacts ==
  ASSUME NEW name \in Name, NEW i \in DOMAIN ArgWord, NEW used, IsFiniteSet(used)
  PROVE  /\ NextIdent(name, i, used) \in Name
         /\ NextIdent(name, i, used) \notin used
         /\ NextIdent(name, i, used) \notin Forbidden
<1>1. ArgWord[i] \in Words /\ ArgWord[i] \notin Unrawable \cup {Underscore}
  BY NamesAssumption
<1>2. Converted(name, i) \in Name /\ Converted(name, i) \notin Forbidden
  <2>1. name.word \in Words /\ name.tail \in Nat
        /\ name = [word |-> name.word, tail |-> name.tail]
    BY DEF Name
  <2>2. name = Plain(name.word) <=> name.tail = 0
    BY <2>1 DEF Plain
  <2>3. CASE name = Plain(Underscore)
    BY <1>1, <2>3 DEF Converted, Arg, Plain, Name, Forbidden
  <2>4. CASE name # Plain(Underscore) /\ name.tail = 0 /\ name.word \in Unrawable
    <3>1. Converted(name, i) = [word |-> name.word, tail |-> 1]
      BY <2>1, <2>4 DEF Converted
    <3>2. Converted(name, i) \in Name /\ Converted(name, i).tail = 1
      BY <2>1, <3>1 DEF Name
    <3>3. \A word \in Unrawable \cup {Underscore} : Plain(word).tail = 0
      BY DEF Plain
    <3> QED  BY <3>2, <3>3 DEF Forbidden
  <2>5. CASE name # Plain(Underscore) /\ ~(name.tail = 0 /\ name.word \in Unrawable)
    <3>1. Converted(name, i) = name
      BY <2>5 DEF Converted
    <3>2. \A word \in Unrawable \cup {Underscore} : name # Plain(word)
      BY <2>1, <2>5 DEF Plain
    <3> QED  BY <3>1, <3>2 DEF Forbidden
  <2> QED  BY <2>3, <2>4, <2>5
<1>3. /\ Unused(ArgWord[i], used) \in Nat
      /\ [word |-> ArgWord[i], tail |-> Unused(ArgWord[i], used)] \notin used
  BY UnusedFacts
<1>4. ASSUME NEW k \in Nat
      PROVE  /\ [word |-> ArgWord[i], tail |-> k] \in Name
             /\ [word |-> ArgWord[i], tail |-> k] \notin Forbidden
  BY <1>1 DEF Name, Forbidden, Plain
<1> QED  BY <1>2, <1>3, <1>4 DEF NextIdent

-----------------------------------------------------------------------------
(* Published packages *)

\* What a version publishes refers to what it or an earlier version published, and a
\* function came with the last of its types or later.
ChainInv ==
  /\ head \in [Packages -> Nat] /\ \A p \in Packages : head[p] <= Versions[p]
  /\ defs \in [Id -> Definition \cup {None}]
  /\ since \in [DOMAIN Signature -> Nat]
  /\ \A id \in Id : Published(id, defs) =>
       /\ defs[id].origin <= head[id.package]
       /\ \A other \in References(defs[id].fields) :
            /\ Published(other, defs)
            /\ other.package = id.package => defs[other].origin <= defs[id].origin
  /\ \A f \in DOMAIN Signature :
       /\ since[f] <= head[Signature[f].package]
       /\ since[f] # 0 =>
            \A i \in DOMAIN Signature[f].parameters :
              LET ty == Signature[f].parameters[i] IN
              ty.type = "Datatype" =>
                /\ Published(ty.id, defs)
                /\ ty.id.package = Signature[f].package => defs[ty.id].origin <= since[f]

LEMMA SignatureFacts ==
  ASSUME NEW f \in DOMAIN Signature
  PROVE  /\ Signature[f].package \in Packages
         /\ \A i \in DOMAIN Signature[f].parameters :
              /\ Signature[f].parameters[i] \in SourceType
              /\ Signature[f].parameters[i].type = "Datatype" =>
                   /\ Signature[f].parameters[i].id \in Id
                   /\ Signature[f].parameters[i].mutable \in BOOLEAN
<1>1. /\ Signature[f].package \in Packages
      /\ \A i \in DOMAIN Signature[f].parameters : Signature[f].parameters[i] \in SourceType
  BY InterfaceAssumption
<1>2. ASSUME NEW ty \in SourceType, ty.type = "Datatype"
      PROVE  ty.id \in Id /\ ty.mutable \in BOOLEAN
  BY <1>2 DEF SourceType, Scalar, Vector, TxContext, DatatypeRef
<1> QED  BY <1>1, <1>2

LEMMA ReferencesAreIds ==
  ASSUME NEW fields \in SUBSET FieldType
  PROVE  References(fields) \subseteq Id
BY DEF References, FieldType, Scalar, Vector, DatatypeRef

LEMMA DefinitionFacts ==
  ASSUME NEW def \in Definition
  PROVE  /\ def # None
         /\ def.origin \in Nat \ {0}
         /\ def.key \in BOOLEAN /\ def.copy \in BOOLEAN /\ def.generic \in BOOLEAN
         /\ def.fields \in SUBSET FieldType
         /\ References(def.fields) \subseteq Id
BY NoneIsNoValue, ReferencesAreIds DEF Definition

LEMMA AddedByFacts ==
  ASSUME NEW id \in Id, NEW shape \in Shapes[id], NEW version \in Nat \ {0}
  PROVE  /\ AddedBy(version, shape) \in Definition
         /\ AddedBy(version, shape).origin = version
         /\ AddedBy(version, shape).fields = shape.fields
<1>1. AddedBy(1, shape) \in Definition
  BY BindingsAssumption
<1> QED  BY <1>1 DEF AddedBy, Definition

LEMMA PublishKeeps == ASSUME ChainInv, NEW p \in Packages, Publish(p) PROVE ChainInv'
<1>1. PICK new \in SUBSET {id \in Id : id.package = p /\ ~Published(id, defs)} :
        \E shape \in [new -> UNION {Shapes[id] : id \in new}] :
          LET all == [id \in Id |-> IF id \in new THEN AddedBy(head[p] + 1, shape[id])
                                    ELSE defs[id]] IN
          /\ \A id \in new : shape[id] \in Shapes[id]
          /\ \A id \in new : \A other \in References(shape[id].fields) : Published(other, all)
          /\ defs' = all
          /\ since' = [f \in DOMAIN since |->
                         IF /\ since[f] = 0 /\ Signature[f].package = p
                            /\ \A i \in DOMAIN Signature[f].parameters :
                                 LET ty == Signature[f].parameters[i] IN
                                 ty.type = "Datatype" => Published(ty.id, all)
                           THEN head[p] + 1 ELSE since[f]]
  BY DEF Publish
<1>2. PICK shape :
        /\ \A id \in new : shape[id] \in Shapes[id]
        /\ defs' = [id \in Id |-> IF id \in new THEN AddedBy(head[p] + 1, shape[id])
                                  ELSE defs[id]]
        /\ \A id \in new : \A other \in References(shape[id].fields) : Published(other, defs')
        /\ since' = [f \in DOMAIN since |->
                       IF /\ since[f] = 0 /\ Signature[f].package = p
                          /\ \A i \in DOMAIN Signature[f].parameters :
                               LET ty == Signature[f].parameters[i] IN
                               ty.type = "Datatype" => Published(ty.id, defs')
                         THEN head[p] + 1 ELSE since[f]]
  <2>1. PICK shape \in [new -> UNION {Shapes[id] : id \in new}] :
          LET all == [id \in Id |-> IF id \in new THEN AddedBy(head[p] + 1, shape[id])
                                    ELSE defs[id]] IN
          /\ \A id \in new : shape[id] \in Shapes[id]
          /\ \A id \in new : \A other \in References(shape[id].fields) : Published(other, all)
          /\ defs' = all
          /\ since' = [f \in DOMAIN since |->
                         IF /\ since[f] = 0 /\ Signature[f].package = p
                            /\ \A i \in DOMAIN Signature[f].parameters :
                                 LET ty == Signature[f].parameters[i] IN
                                 ty.type = "Datatype" => Published(ty.id, all)
                           THEN head[p] + 1 ELSE since[f]]
    BY <1>1
  <2> QED  BY <2>1
<1>3. /\ head \in [Packages -> Nat] /\ head[p] \in Nat /\ head[p] < Versions[p]
      /\ head' = [head EXCEPT ![p] = @ + 1]
      /\ Versions[p] \in Nat
  BY InterfaceAssumption DEF ChainInv, Publish
<1>4. /\ head' \in [Packages -> Nat] /\ \A q \in Packages : head'[q] <= Versions[q]
      /\ head'[p] = head[p] + 1
      /\ \A q \in Packages : head'[q] \in Nat /\ head'[q] >= head[q]
  BY <1>3, InterfaceAssumption DEF ChainInv
<1>5. \A id \in Id : id \notin new => defs'[id] = defs[id]
  BY <1>2
<1>6. ASSUME NEW id \in new
      PROVE  /\ id \in Id /\ id.package = p /\ ~Published(id, defs)
             /\ defs'[id] \in Definition /\ Published(id, defs')
             /\ defs'[id].origin = head[p] + 1 /\ defs'[id].fields = shape[id].fields
  <2>1. id \in Id /\ id.package = p /\ ~Published(id, defs)
    OBVIOUS
  <2>2. defs'[id] = AddedBy(head[p] + 1, shape[id]) /\ shape[id] \in Shapes[id]
    BY <1>2, <2>1
  <2> QED  BY <1>3, <2>1, <2>2, AddedByFacts, DefinitionFacts DEF Published
<1>7. ASSUME NEW id \in Id, Published(id, defs)
      PROVE  /\ defs'[id] = defs[id] /\ defs[id] \in Definition /\ Published(id, defs')
             /\ defs[id].origin \in Nat /\ defs[id].origin <= head[id.package]
             /\ References(defs[id].fields) \subseteq Id
  <2>1. id \notin new
    BY <1>6, <1>7
  <2> QED  BY <1>5, <1>7, <2>1, DefinitionFacts DEF ChainInv, Published
<1>8. defs' \in [Id -> Definition \cup {None}]
  <2>1. \A id \in Id : defs'[id] \in Definition \cup {None}
    BY <1>5, <1>6 DEF ChainInv
  <2> QED  BY <1>2, <2>1
<1>9. ASSUME NEW id \in Id, Published(id, defs')
      PROVE  /\ defs'[id].origin \in Nat /\ defs'[id].origin <= head'[id.package]
             /\ id.package = p => defs'[id].origin <= head[p] + 1
  <2>1. id.package \in Packages /\ head[id.package] \in Nat
    BY <1>3 DEF Id
  <2>2. CASE id \in new
    BY <1>3, <1>4, <1>6, <2>2
  <2>3. CASE id \notin new
    <3>1. Published(id, defs)
      BY <1>5, <1>9, <2>3 DEF Published
    <3> QED  BY <1>3, <1>4, <1>7, <2>1, <3>1
  <2> QED  BY <2>2, <2>3
<1>10. ASSUME NEW id \in Id, Published(id, defs'), NEW other \in References(defs'[id].fields)
       PROVE  /\ Published(other, defs')
              /\ other.package = id.package => defs'[other].origin <= defs'[id].origin
  <2>1. CASE id \in new
    <3>1. Published(other, defs') /\ other \in Id
      BY <1>2, <1>6, <1>10, <2>1, DefinitionFacts
    <3> QED  BY <1>3, <1>6, <1>9, <2>1, <3>1
  <2>2. CASE id \notin new
    <3>1. Published(id, defs) /\ defs'[id] = defs[id]
      BY <1>5, <1>10, <2>2 DEF Published
    <3>2. /\ other \in Id /\ Published(other, defs)
          /\ other.package = id.package => defs[other].origin <= defs[id].origin
      BY <1>7, <1>10, <3>1 DEF ChainInv
    <3> QED  BY <1>7, <3>1, <3>2
  <2> QED  BY <2>1, <2>2
<1>11. \A f \in DOMAIN Signature :
         \/ since'[f] = since[f]
         \/ /\ since'[f] = head[p] + 1 /\ Signature[f].package = p
            /\ \A i \in DOMAIN Signature[f].parameters :
                 LET ty == Signature[f].parameters[i] IN
                 ty.type = "Datatype" => Published(ty.id, defs')
  BY <1>2 DEF ChainInv
<1>12. since' \in [DOMAIN Signature -> Nat]
  <2>1. \A f \in DOMAIN Signature : since'[f] \in Nat
    BY <1>3, <1>11 DEF ChainInv
  <2> QED  BY <1>2, <2>1 DEF ChainInv
<1>13. ASSUME NEW f \in DOMAIN Signature
       PROVE  /\ since'[f] <= head'[Signature[f].package]
              /\ since'[f] # 0 =>
                   \A i \in DOMAIN Signature[f].parameters :
                     LET ty == Signature[f].parameters[i] IN
                     ty.type = "Datatype" =>
                       /\ Published(ty.id, defs')
                       /\ ty.id.package = Signature[f].package => defs'[ty.id].origin <= since'[f]
  <2>1. CASE since'[f] = since[f]
    <3>1. since[f] \in Nat /\ since[f] <= head[Signature[f].package]
      BY DEF ChainInv
    <3>2. since[f] <= head'[Signature[f].package]
      BY <1>3, <1>4, <3>1, SignatureFacts
    <3>3. ASSUME since[f] # 0, NEW i \in DOMAIN Signature[f].parameters,
                 Signature[f].parameters[i].type = "Datatype"
          PROVE  LET ty == Signature[f].parameters[i] IN
                 /\ Published(ty.id, defs')
                 /\ ty.id.package = Signature[f].package => defs'[ty.id].origin <= since[f]
      <4>1. Signature[f].parameters[i].id \in Id
        BY <3>3, SignatureFacts
      <4> QED  BY <1>7, <3>3, <4>1 DEF ChainInv
    <3> QED  BY <2>1, <3>2, <3>3
  <2>2. CASE /\ since'[f] = head[p] + 1 /\ Signature[f].package = p
             /\ \A i \in DOMAIN Signature[f].parameters :
                  LET ty == Signature[f].parameters[i] IN
                  ty.type = "Datatype" => Published(ty.id, defs')
    <3>1. ASSUME NEW i \in DOMAIN Signature[f].parameters,
                 Signature[f].parameters[i].type = "Datatype",
                 Signature[f].parameters[i].id.package = p
          PROVE  defs'[Signature[f].parameters[i].id].origin <= head[p] + 1
      <4>1. Signature[f].parameters[i].id \in Id
        BY <3>1, SignatureFacts
      <4> QED  BY <1>9, <2>2, <3>1, <4>1
    <3> QED  BY <1>4, <2>2, <3>1
  <2> QED  BY <1>11, <2>1, <2>2
<1> QED  BY <1>4, <1>8, <1>9, <1>10, <1>12, <1>13 DEF ChainInv

LEMMA ChainStep == ChainInv /\ [Next]_vars => ChainInv'
<1> SUFFICES ASSUME ChainInv, [Next]_vars PROVE ChainInv'
  OBVIOUS
<1>1. CASE UNCHANGED chain
  BY <1>1 DEF ChainInv, chain, Published
<1>2. ASSUME NEW p \in Packages, Publish(p) PROVE ChainInv'
  BY <1>2, PublishKeeps
<1>3. Next => UNCHANGED chain \/ \E p \in Packages : Publish(p)
  BY DEF Next, Caller, Generator, AddExternalPackage, FetchPackage, ReplaceAddresses, ReadSources,
         BeginRender, ReadFile, AllRead, OverlayFunction, OverlayEnds, CopyDatatype, CopyPassEnds,
         BeginFunction, RenderParameter, FunctionEnds, RenderEnds
<1> QED  BY <1>1, <1>2, <1>3 DEF vars, chain

LEMMA ChainInit == Init => ChainInv
<1> SUFFICES ASSUME Init PROVE ChainInv
  OBVIOUS
<1>1. \A id \in Id : ~Published(id, defs)
  BY DEF Init, Published
<1>2. head \in [Packages -> Nat] /\ \A p \in Packages : head[p] = 0 /\ Versions[p] \in Nat
  BY InterfaceAssumption DEF Init
<1>3. \A f \in DOMAIN Signature : since[f] = 0 /\ Signature[f].package \in Packages
  BY SignatureFacts DEF Init
<1> QED  BY <1>1, <1>2, <1>3 DEF Init, ChainInv

-----------------------------------------------------------------------------
(* Types of interfaces *)

LEMMA MappedSeq ==
  ASSUME NEW S, NEW T, NEW seq \in Seq(T), NEW f \in [DOMAIN seq -> S]
  PROVE  f \in Seq(S) /\ Len(f) = Len(seq) /\ DOMAIN f = DOMAIN seq
<1>1. Len(seq) \in Nat /\ DOMAIN seq = 1..Len(seq)
  OBVIOUS
<1>2. f \in [1..Len(seq) -> S]
  BY <1>1
<1> QED  BY <1>1, <1>2

LEMMA AddressFacts ==
  /\ \A p \in Packages : \A v \in 1..Versions[p] : [package |-> p, version |-> v] \in Address
  /\ \A a \in Address : /\ a.package \in Packages /\ a.version \in 1..Versions[a.package]
                        /\ a = [package |-> a.package, version |-> a.version]
                        /\ [package |-> a.package, version |-> 1] \in Address
<1>1. ASSUME NEW p \in Packages, NEW v \in 1..Versions[p]
      PROVE  [package |-> p, version |-> v] \in Address
  BY DEF Address
<1>2. ASSUME NEW a \in Address
      PROVE  /\ a.package \in Packages /\ a.version \in 1..Versions[a.package]
             /\ a = [package |-> a.package, version |-> a.version]
  BY DEF Address
<1>3. ASSUME NEW a \in Address PROVE 1 \in 1..Versions[a.package]
  BY <1>2, InterfaceAssumption
<1> QED  BY <1>1, <1>2, <1>3

LEMMA TypeRefFacts ==
  /\ Scalar \in TypeRef /\ Vector \in TypeRef /\ TxContext \in TypeRef
  /\ \A ty \in TypeRef :
       /\ ty.type = "Datatype" => /\ ty.mutable \in BOOLEAN /\ ty.type_name \in TypeNames
                                  /\ ty = [type |-> "Datatype", mutable |-> ty.mutable,
                                           type_name |-> ty.type_name]
       /\ ty.type # "Datatype" => ty \in {Scalar, Vector, TxContext}
  /\ \A t \in TypeNames : /\ t.address \in Address /\ t.name \in Names
                          /\ t = [address |-> t.address, name |-> t.name]
BY DEF TypeRef, TypeNames, Scalar, Vector, TxContext

LEMMA PackageFacts ==
  ASSUME NEW q \in NormalizedPackage
  PROVE  /\ q # None
         /\ q.storage_id \in Address /\ q.original_id \in Address
         /\ DOMAIN q.datatypes \subseteq Names
         /\ q.datatypes \in [DOMAIN q.datatypes -> Datatype]
         /\ DOMAIN q.functions \subseteq DOMAIN Signature
         /\ q.functions \in [DOMAIN q.functions -> Seq(FunctionParam)]
         /\ q = [storage_id |-> q.storage_id, original_id |-> q.original_id,
                 datatypes |-> q.datatypes, functions |-> q.functions]
<1>1. /\ q.storage_id \in Address /\ q.original_id \in Address
      /\ q.datatypes \in UNION {[present -> Datatype] : present \in SUBSET Names}
      /\ q.functions \in UNION {[callable -> Seq(FunctionParam)] :
                                  callable \in SUBSET DOMAIN Signature}
      /\ q = [storage_id |-> q.storage_id, original_id |-> q.original_id,
              datatypes |-> q.datatypes, functions |-> q.functions]
  BY DEF NormalizedPackage
<1>2. PICK present \in SUBSET Names : q.datatypes \in [present -> Datatype]
  BY <1>1
<1>3. PICK callable \in SUBSET DOMAIN Signature : q.functions \in [callable -> Seq(FunctionParam)]
  BY <1>1
<1>4. DOMAIN q.datatypes = present /\ DOMAIN q.functions = callable
  BY <1>2, <1>3
<1> QED  BY <1>1, <1>2, <1>3, <1>4, NoneIsNoValue

LEMMA PackageTyped ==
  ASSUME NEW storage \in Address, NEW original \in Address,
         NEW present \in SUBSET Names, NEW datatypes \in [present -> Datatype],
         NEW callable \in SUBSET DOMAIN Signature,
         NEW functions \in [callable -> Seq(FunctionParam)]
  PROVE  [storage_id |-> storage, original_id |-> original,
          datatypes |-> datatypes, functions |-> functions] \in NormalizedPackage
<1>1. datatypes \in UNION {[x -> Datatype] : x \in SUBSET Names}
  OBVIOUS
<1>2. functions \in UNION {[x -> Seq(FunctionParam)] : x \in SUBSET DOMAIN Signature}
  OBVIOUS
<1> QED  BY <1>1, <1>2 DEF NormalizedPackage

LEMMA NameTyped ==
  ASSUME ChainInv, NEW id \in Id, Published(id, defs)
  PROVE  /\ DefiningName(id, defs) \in TypeNames
         /\ DefiningName(id, defs).name = id.name
         /\ DefiningName(id, defs).address = [package |-> id.package, version |-> defs[id].origin]
<1>1. /\ defs[id].origin \in Nat \ {0} /\ defs[id].origin <= head[id.package]
      /\ id.package \in Packages /\ id.name \in Names
  BY DefinitionFacts DEF ChainInv, Published, Id
<1>2. head[id.package] \in Nat /\ head[id.package] <= Versions[id.package]
  BY <1>1 DEF ChainInv
<1>3. defs[id].origin \in 1..Versions[id.package]
  BY <1>1, <1>2, InterfaceAssumption
<1> QED  BY <1>1, <1>3, AddressFacts DEF DefiningName, TypeName, TypeNames

LEMMA NormalTypeTyped ==
  ASSUME ChainInv, NEW type \in SourceType \cup FieldType,
         type.type = "Datatype" => Published(type.id, defs)
  PROVE  normalize_type(type, defs) \in TypeRef /\ normalize_type(type, defs).type = type.type
<1>1. CASE type.type = "Datatype"
  <2>1. type.id \in Id /\ type.mutable \in BOOLEAN
    <3>1. CASE type \in SourceType
      BY <1>1, <3>1 DEF SourceType, Scalar, Vector, TxContext, DatatypeRef
    <3>2. CASE type \in FieldType
      <4>1. type \notin {Scalar, Vector}
        BY <1>1 DEF Scalar, Vector
      <4>2. PICK id \in Id : type = DatatypeRef(id, FALSE)
        BY <3>2, <4>1 DEF FieldType
      <4>3. type.id = id /\ type.mutable = FALSE
        BY <4>2 DEF DatatypeRef
      <4> QED  BY <4>3
    <3> QED  BY <3>1, <3>2
  <2>2. DefiningName(type.id, defs) \in TypeNames
    BY <1>1, <2>1, NameTyped
  <2>3. normalize_type(type, defs)
          = [type |-> "Datatype", mutable |-> type.mutable, type_name |-> DefiningName(type.id, defs)]
    BY <1>1 DEF normalize_type
  <2> QED  BY <1>1, <2>1, <2>2, <2>3 DEF TypeRef
<1>2. CASE type.type # "Datatype"
  <2>1. type \in {Scalar, Vector, TxContext}
    <3>1. CASE type \in SourceType
      BY <1>2, <3>1 DEF SourceType, DatatypeRef
    <3>2. CASE type \in FieldType
      BY <1>2, <3>2 DEF FieldType, DatatypeRef
    <3> QED  BY <3>1, <3>2
  <2> QED  BY <1>2, <2>1 DEF normalize_type, TypeRef
<1> QED  BY <1>1, <1>2

LEMMA NormalDatatypeTyped ==
  ASSUME ChainInv, NEW id \in Id, Published(id, defs)
  PROVE  normalize_datatype(id, defs) \in Datatype
<1>1. defs[id] \in Definition
  BY DEF ChainInv, Published
<1>2. \A type \in defs[id].fields : normalize_type(type, defs) \in TypeRef
  <2> SUFFICES ASSUME NEW type \in defs[id].fields PROVE normalize_type(type, defs) \in TypeRef
    OBVIOUS
  <2>1. type.type = "Datatype" => Published(type.id, defs)
    BY DEF ChainInv, References
  <2> QED  BY <1>1, <2>1, DefinitionFacts, NormalTypeTyped
<1> QED  BY <1>1, <1>2, NameTyped, DefinitionFacts DEF normalize_datatype, Datatype

LEMMA NormalFunctionTyped ==
  ASSUME ChainInv, NEW f \in DOMAIN Signature, since[f] # 0
  PROVE  /\ normalize_function(f, defs) \in Seq(FunctionParam)
         /\ Len(normalize_function(f, defs)) = Len(Signature[f].parameters)
         /\ DOMAIN normalize_function(f, defs) = DOMAIN Signature[f].parameters
<1>1. /\ Signature[f].parameters \in Seq(SourceType)
      /\ Len(Signature[f].parameters) <= Len(ArgWord) /\ ArgWord \in Seq(Words)
  BY InterfaceAssumption, NamesAssumption
<1>2. \A i \in DOMAIN Signature[f].parameters :
        [name |-> Arg(i), ty |-> normalize_type(Signature[f].parameters[i], defs)] \in FunctionParam
  <2> SUFFICES ASSUME NEW i \in DOMAIN Signature[f].parameters
               PROVE  /\ Arg(i) \in Name
                      /\ normalize_type(Signature[f].parameters[i], defs) \in TypeRef
    BY DEF FunctionParam
  <2>1. ArgWord[i] \in Words
    BY <1>1
  <2>2. Signature[f].parameters[i] \in SourceType
    BY SignatureFacts
  <2>3. Signature[f].parameters[i].type = "Datatype" => Published(Signature[f].parameters[i].id, defs)
    BY DEF ChainInv
  <2> QED  BY <2>1, <2>2, <2>3, NormalTypeTyped DEF Arg, Plain, Name
<1> DEFINE parameters == normalize_function(f, defs)
<1>3. parameters \in [DOMAIN Signature[f].parameters -> FunctionParam]
  BY <1>2 DEF normalize_function
<1> HIDE DEF parameters
<1>4. /\ parameters \in Seq(FunctionParam) /\ Len(parameters) = Len(Signature[f].parameters)
      /\ DOMAIN parameters = DOMAIN Signature[f].parameters
  BY <1>1, <1>3, MappedSeq
<1> QED  BY <1>4 DEF parameters

\* The datatypes and functions version v of package p has.
Present(p, v) ==
  {n \in Names : LET def == defs[[package |-> p, name |-> n]] IN
                 def # None /\ def.origin \in 1..v}

Callable(p, v) == {f \in DOMAIN Signature : Signature[f].package = p /\ since[f] \in 1..v}

LEMMA NormalPackageFacts ==
  ASSUME ChainInv, NEW p \in Packages, NEW v \in 1..head[p]
  PROVE  LET fetched == normalize_package(p, v, defs, since) IN
         /\ fetched \in NormalizedPackage
         /\ fetched.storage_id = [package |-> p, version |-> v]
         /\ fetched.original_id = [package |-> p, version |-> 1]
         /\ DOMAIN fetched.datatypes = Present(p, v)
         /\ DOMAIN fetched.functions = Callable(p, v)
         /\ \A n \in Present(p, v) :
              fetched.datatypes[n] = normalize_datatype([package |-> p, name |-> n], defs)
         /\ \A f \in Callable(p, v) : fetched.functions[f] = normalize_function(f, defs)
<1> DEFINE datatypes == [n \in Present(p, v) |-> normalize_datatype([package |-> p, name |-> n], defs)]
           functions == [f \in Callable(p, v) |-> normalize_function(f, defs)]
<1>1. normalize_package(p, v, defs, since)
        = [storage_id |-> [package |-> p, version |-> v], original_id |-> [package |-> p, version |-> 1],
           datatypes |-> datatypes, functions |-> functions]
  BY DEF normalize_package, Present, Callable
<1>2. /\ [package |-> p, version |-> v] \in Address
      /\ [package |-> p, version |-> 1] \in Address
  <2>1. head[p] \in Nat /\ head[p] <= Versions[p] /\ Versions[p] \in Nat
    BY InterfaceAssumption DEF ChainInv
  <2>2. v \in 1..Versions[p] /\ 1 \in 1..Versions[p]
    BY <2>1
  <2> QED  BY <2>2, AddressFacts
<1>3. datatypes \in [Present(p, v) -> Datatype]
  <2> SUFFICES ASSUME NEW n \in Present(p, v)
               PROVE  normalize_datatype([package |-> p, name |-> n], defs) \in Datatype
    OBVIOUS
  <2>1. [package |-> p, name |-> n] \in Id /\ Published([package |-> p, name |-> n], defs)
    BY DEF Present, Id, Published
  <2> QED  BY <2>1, NormalDatatypeTyped
<1>4. functions \in [Callable(p, v) -> Seq(FunctionParam)]
  <2> SUFFICES ASSUME NEW f \in Callable(p, v)
               PROVE  normalize_function(f, defs) \in Seq(FunctionParam)
    OBVIOUS
  <2> QED  BY NormalFunctionTyped DEF Callable
<1>5. Present(p, v) \subseteq Names /\ Callable(p, v) \subseteq DOMAIN Signature
  BY DEF Present, Callable
<1>6. /\ DOMAIN datatypes = Present(p, v) /\ DOMAIN functions = Callable(p, v)
      /\ \A n \in Present(p, v) :
           datatypes[n] = normalize_datatype([package |-> p, name |-> n], defs)
      /\ \A f \in Callable(p, v) : functions[f] = normalize_function(f, defs)
  OBVIOUS
<1> HIDE DEF datatypes, functions
<1>7. normalize_package(p, v, defs, since) \in NormalizedPackage
  BY <1>1, <1>2, <1>3, <1>4, <1>5, PackageTyped
<1> QED  BY <1>1, <1>6, <1>7

-----------------------------------------------------------------------------
(* Rewriting of addresses *)

MapsAddresses(r) == \A a \in Address : replace_address(a, r) \in Address

LEMMA ReplacementsMapAddresses ==
  /\ \A r \in Replacements : MapsAddresses(r)
  /\ \A rho \in [Address -> Address] :
       MapsAddresses(rho) /\ \A a \in Address : replace_address(a, rho) = rho[a]
BY BindingsAssumption DEF MapsAddresses, replace_address

LEMMA ReplacedNameFacts ==
  ASSUME NEW t \in TypeNames, NEW r, MapsAddresses(r)
  PROVE  /\ ReplacedName(t, r) \in TypeNames
         /\ ReplacedName(t, r) = [address |-> replace_address(t.address, r), name |-> t.name]
<1>1. t.address \in Address /\ t.name \in Names /\ t = [address |-> t.address, name |-> t.name]
  BY TypeRefFacts
<1>2. ReplacedName(t, r) = [address |-> replace_address(t.address, r), name |-> t.name]
  BY <1>1 DEF ReplacedName
<1> QED  BY <1>1, <1>2 DEF TypeNames, MapsAddresses

LEMMA ReplacedTypeFacts ==
  ASSUME NEW ty \in TypeRef, NEW r, MapsAddresses(r)
  PROVE  /\ ReplacedType(ty, r) \in TypeRef
         /\ ReplacedType(ty, r).type = ty.type
         /\ ty.type # "Datatype" => ReplacedType(ty, r) = ty
         /\ ty.type = "Datatype" =>
              ReplacedType(ty, r) = [type |-> "Datatype", mutable |-> ty.mutable,
                                     type_name |-> ReplacedName(ty.type_name, r)]
<1>1. CASE ty.type # "Datatype"
  BY <1>1 DEF ReplacedType
<1>2. CASE ty.type = "Datatype"
  <2>1. /\ ty.mutable \in BOOLEAN /\ ty.type_name \in TypeNames
        /\ ty = [type |-> "Datatype", mutable |-> ty.mutable, type_name |-> ty.type_name]
    BY <1>2, TypeRefFacts
  <2>2. ReplacedName(ty.type_name, r) \in TypeNames
    BY <2>1, ReplacedNameFacts
  <2>3. ReplacedType(ty, r) = [type |-> "Datatype", mutable |-> ty.mutable,
                               type_name |-> ReplacedName(ty.type_name, r)]
    BY <1>2, <2>1 DEF ReplacedType
  <2> QED  BY <1>2, <2>1, <2>2, <2>3 DEF TypeRef
<1> QED  BY <1>1, <1>2

LEMMA ReplacedDatatypeFacts ==
  ASSUME NEW dt \in Datatype, NEW r, MapsAddresses(r)
  PROVE  /\ ReplacedDatatype(dt, r) \in Datatype
         /\ ReplacedDatatype(dt, r).type_name = ReplacedName(dt.type_name, r)
         /\ ReplacedDatatype(dt, r).key = dt.key
         /\ ReplacedDatatype(dt, r).copy = dt.copy
         /\ ReplacedDatatype(dt, r).generic = dt.generic
         /\ ReplacedDatatype(dt, r).fields = {ReplacedType(t, r) : t \in dt.fields}
<1> DEFINE fields == {ReplacedType(t, r) : t \in dt.fields}
<1>1. /\ dt.type_name \in TypeNames /\ dt.fields \in SUBSET TypeRef
      /\ dt.key \in BOOLEAN /\ dt.copy \in BOOLEAN /\ dt.generic \in BOOLEAN
      /\ dt = [type_name |-> dt.type_name, key |-> dt.key, copy |-> dt.copy,
               generic |-> dt.generic, fields |-> dt.fields]
  BY DEF Datatype
<1>2. ReplacedName(dt.type_name, r) \in TypeNames
  BY <1>1, ReplacedNameFacts
<1>3. \A t \in dt.fields : ReplacedType(t, r) \in TypeRef
  BY <1>1, ReplacedTypeFacts
<1>4. fields \in SUBSET TypeRef
  BY <1>3
<1>5. ReplacedDatatype(dt, r) = [dt EXCEPT !.type_name = ReplacedName(@, r), !.fields = fields]
  BY DEF ReplacedDatatype
<1> HIDE DEF fields
<1>6. ReplacedDatatype(dt, r) = [type_name |-> ReplacedName(dt.type_name, r), key |-> dt.key,
                                 copy |-> dt.copy, generic |-> dt.generic, fields |-> fields]
  BY <1>1, <1>5
<1>7. ReplacedDatatype(dt, r) \in Datatype
  BY <1>1, <1>2, <1>4, <1>6 DEF Datatype
<1> QED  BY <1>6, <1>7 DEF fields

LEMMA ReplacedParametersFacts ==
  ASSUME NEW parameters \in Seq(FunctionParam), NEW r, MapsAddresses(r)
  PROVE  /\ ReplacedParameters(parameters, r) \in Seq(FunctionParam)
         /\ Len(ReplacedParameters(parameters, r)) = Len(parameters)
         /\ DOMAIN ReplacedParameters(parameters, r) = DOMAIN parameters
         /\ \A i \in DOMAIN parameters :
              /\ ReplacedParameters(parameters, r)[i].name = parameters[i].name
              /\ ReplacedParameters(parameters, r)[i].ty = ReplacedType(parameters[i].ty, r)
<1> DEFINE replaced == ReplacedParameters(parameters, r)
<1>1. ASSUME NEW i \in DOMAIN parameters
      PROVE  /\ replaced[i] \in FunctionParam
             /\ replaced[i].name = parameters[i].name
             /\ replaced[i].ty = ReplacedType(parameters[i].ty, r)
  <2>1. parameters[i] \in FunctionParam
    OBVIOUS
  <2>2. /\ parameters[i].name \in Name /\ parameters[i].ty \in TypeRef
        /\ parameters[i] = [name |-> parameters[i].name, ty |-> parameters[i].ty]
    BY <2>1 DEF FunctionParam
  <2>3. ReplacedType(parameters[i].ty, r) \in TypeRef
    BY <2>2, ReplacedTypeFacts
  <2>4. replaced[i] = [parameters[i] EXCEPT !.ty = ReplacedType(@, r)]
    BY DEF ReplacedParameters
  <2>5. replaced[i] = [name |-> parameters[i].name, ty |-> ReplacedType(parameters[i].ty, r)]
    <3> HIDE DEF replaced
    <3> QED  BY <2>2, <2>4
  <2> HIDE DEF replaced
  <2> QED  BY <2>2, <2>3, <2>5 DEF FunctionParam
<1>2. replaced = [i \in DOMAIN parameters |-> replaced[i]]
  BY DEF ReplacedParameters
<1> HIDE DEF replaced
<1>3. replaced \in [DOMAIN parameters -> FunctionParam]
  BY <1>1, <1>2
<1>4. replaced \in Seq(FunctionParam) /\ Len(replaced) = Len(parameters)
      /\ DOMAIN replaced = DOMAIN parameters
  BY <1>3, MappedSeq
<1> QED  BY <1>1, <1>4 DEF replaced

LEMMA ReplacedFacts ==
  ASSUME NEW q \in NormalizedPackage, NEW r, MapsAddresses(r)
  PROVE  /\ Replaced(q, r) \in NormalizedPackage
         /\ Replaced(q, r).storage_id = replace_address(q.storage_id, r)
         /\ Replaced(q, r).original_id = replace_address(q.original_id, r)
         /\ DOMAIN Replaced(q, r).datatypes = DOMAIN q.datatypes
         /\ \A n \in DOMAIN q.datatypes :
              Replaced(q, r).datatypes[n] = ReplacedDatatype(q.datatypes[n], r)
         /\ DOMAIN Replaced(q, r).functions = DOMAIN q.functions
         /\ \A f \in DOMAIN q.functions :
              Replaced(q, r).functions[f] = ReplacedParameters(q.functions[f], r)
<1> DEFINE storage == replace_address(q.storage_id, r)
           original == replace_address(q.original_id, r)
           datatypes == [n \in DOMAIN q.datatypes |-> ReplacedDatatype(q.datatypes[n], r)]
           functions == [f \in DOMAIN q.functions |-> ReplacedParameters(q.functions[f], r)]
<1>1. /\ DOMAIN datatypes = DOMAIN q.datatypes /\ DOMAIN functions = DOMAIN q.functions
      /\ \A n \in DOMAIN q.datatypes : datatypes[n] = ReplacedDatatype(q.datatypes[n], r)
      /\ \A f \in DOMAIN q.functions : functions[f] = ReplacedParameters(q.functions[f], r)
  OBVIOUS
<1>2. datatypes \in [DOMAIN q.datatypes -> Datatype]
  BY PackageFacts, ReplacedDatatypeFacts
<1>3. functions \in [DOMAIN q.functions -> Seq(FunctionParam)]
  BY PackageFacts, ReplacedParametersFacts
<1>4. storage \in Address /\ original \in Address
  BY PackageFacts DEF MapsAddresses
<1>5. Replaced(q, r) = [q EXCEPT !.storage_id = storage, !.original_id = original,
                                 !.datatypes = datatypes, !.functions = functions]
  BY DEF Replaced
<1> HIDE DEF storage, original, datatypes, functions
<1>6. q = [storage_id |-> q.storage_id, original_id |-> q.original_id,
           datatypes |-> q.datatypes, functions |-> q.functions]
  BY PackageFacts
<1>7. Replaced(q, r) = [storage_id |-> storage, original_id |-> original,
                        datatypes |-> datatypes, functions |-> functions]
  BY <1>5, <1>6
<1>8. Replaced(q, r) \in NormalizedPackage
  <2>1. PICK present \in SUBSET Names, callable \in SUBSET DOMAIN Signature :
          present = DOMAIN q.datatypes /\ callable = DOMAIN q.functions
    BY PackageFacts
  <2>2. datatypes \in [present -> Datatype] /\ functions \in [callable -> Seq(FunctionParam)]
    BY <1>2, <1>3, <2>1
  <2>3. [storage_id |-> storage, original_id |-> original,
         datatypes |-> datatypes, functions |-> functions] \in NormalizedPackage
    BY <1>4, <2>2, PackageTyped
  <2> QED  BY <1>7, <2>3
<1> QED  BY <1>1, <1>7, <1>8 DEF storage, original

\* To rewrite a rewritten type is to rewrite it once.
LEMMA ReplacedTwice ==
  ASSUME NEW rho \in [Address -> Address], NEW r, MapsAddresses(r),
         NEW both \in [Address -> Address],
         \A a \in Address : both[a] = replace_address(rho[a], r)
  PROVE  /\ \A t \in TypeNames : ReplacedName(ReplacedName(t, rho), r) = ReplacedName(t, both)
         /\ \A ty \in TypeRef : ReplacedType(ReplacedType(ty, rho), r) = ReplacedType(ty, both)
<1>1. /\ MapsAddresses(rho) /\ MapsAddresses(both)
      /\ \A a \in Address : /\ replace_address(a, rho) = rho[a]
                            /\ replace_address(a, both) = both[a]
  BY ReplacementsMapAddresses
<1>2. ASSUME NEW t \in TypeNames
      PROVE  ReplacedName(ReplacedName(t, rho), r) = ReplacedName(t, both)
  <2>1. t.address \in Address
    BY TypeRefFacts
  <2>2. /\ ReplacedName(t, rho) \in TypeNames
        /\ ReplacedName(t, rho) = [address |-> rho[t.address], name |-> t.name]
    BY <1>1, <2>1, ReplacedNameFacts
  <2>3. ReplacedName(ReplacedName(t, rho), r)
          = [address |-> replace_address(rho[t.address], r), name |-> t.name]
    BY <2>2, ReplacedNameFacts
  <2>4. ReplacedName(t, both) = [address |-> both[t.address], name |-> t.name]
    BY <1>1, <2>1, ReplacedNameFacts
  <2> QED  BY <2>1, <2>3, <2>4
<1>3. ASSUME NEW ty \in TypeRef
      PROVE  ReplacedType(ReplacedType(ty, rho), r) = ReplacedType(ty, both)
  <2>1. CASE ty.type # "Datatype"
    BY <1>1, <2>1, ReplacedTypeFacts
  <2>2. CASE ty.type = "Datatype"
    <3>1. ty.type_name \in TypeNames
      BY <2>2, TypeRefFacts
    <3>2. /\ ReplacedType(ty, rho) \in TypeRef
          /\ ReplacedType(ty, rho) = [type |-> "Datatype", mutable |-> ty.mutable,
                                      type_name |-> ReplacedName(ty.type_name, rho)]
      BY <1>1, <2>2, ReplacedTypeFacts
    <3>3. ReplacedType(ReplacedType(ty, rho), r)
            = [type |-> "Datatype", mutable |-> ty.mutable,
               type_name |-> ReplacedName(ReplacedName(ty.type_name, rho), r)]
      BY <3>2, ReplacedTypeFacts
    <3>4. ReplacedType(ty, both) = [type |-> "Datatype", mutable |-> ty.mutable,
                                    type_name |-> ReplacedName(ty.type_name, both)]
      BY <1>1, <2>2, ReplacedTypeFacts
    <3> QED  BY <1>2, <3>1, <3>3, <3>4
  <2> QED  BY <2>1, <2>2
<1> QED  BY <1>2, <1>3

LEMMA ReplacedDatatypeTwice ==
  ASSUME NEW rho \in [Address -> Address], NEW r, MapsAddresses(r),
         NEW both \in [Address -> Address],
         \A a \in Address : both[a] = replace_address(rho[a], r),
         NEW dt \in Datatype
  PROVE  ReplacedDatatype(ReplacedDatatype(dt, rho), r) = ReplacedDatatype(dt, both)
<1>1. MapsAddresses(rho) /\ MapsAddresses(both)
  BY ReplacementsMapAddresses
<1> DEFINE once == ReplacedDatatype(dt, rho)
           twice == ReplacedDatatype(once, r)
           direct == ReplacedDatatype(dt, both)
<1>2. /\ once \in Datatype
      /\ once.type_name = ReplacedName(dt.type_name, rho)
      /\ once.key = dt.key /\ once.copy = dt.copy /\ once.generic = dt.generic
      /\ once.fields = {ReplacedType(t, rho) : t \in dt.fields}
  BY <1>1, ReplacedDatatypeFacts
<1> HIDE DEF once
<1>3. /\ twice \in Datatype
      /\ twice.type_name = ReplacedName(once.type_name, r)
      /\ twice.key = once.key /\ twice.copy = once.copy /\ twice.generic = once.generic
      /\ twice.fields = {ReplacedType(t, r) : t \in once.fields}
  BY <1>2, ReplacedDatatypeFacts
<1>4. /\ direct \in Datatype
      /\ direct.type_name = ReplacedName(dt.type_name, both)
      /\ direct.key = dt.key /\ direct.copy = dt.copy /\ direct.generic = dt.generic
      /\ direct.fields = {ReplacedType(t, both) : t \in dt.fields}
  BY <1>1, ReplacedDatatypeFacts
<1> HIDE DEF twice, direct
<1>5. dt.type_name \in TypeNames /\ dt.fields \subseteq TypeRef
  BY DEF Datatype
<1>6. twice.type_name = direct.type_name
  BY <1>2, <1>3, <1>4, <1>5, ReplacedTwice
<1>7. \A t \in dt.fields : ReplacedType(ReplacedType(t, rho), r) = ReplacedType(t, both)
  BY <1>5, ReplacedTwice
<1>8. twice.fields = direct.fields
  BY <1>2, <1>3, <1>4, <1>7
<1>9. twice = direct
  <2>1. \A x \in Datatype : x = [type_name |-> x.type_name, key |-> x.key, copy |-> x.copy,
                                 generic |-> x.generic, fields |-> x.fields]
    BY DEF Datatype
  <2>2. twice.key = direct.key /\ twice.copy = direct.copy /\ twice.generic = direct.generic
    BY <1>2, <1>3, <1>4
  <2> QED  BY <1>3, <1>4, <1>6, <1>8, <2>1, <2>2
<1> QED  BY <1>9 DEF twice, direct, once

LEMMA NotReplaced ==
  ASSUME NEW rho, rho = [a \in Address |-> a]
  PROVE  /\ \A ty \in TypeRef : ReplacedType(ty, rho) = ty
         /\ \A dt \in Datatype : ReplacedDatatype(dt, rho) = dt
<1>1. /\ rho \in [Address -> Address] /\ MapsAddresses(rho)
      /\ \A a \in Address : replace_address(a, rho) = a
  BY ReplacementsMapAddresses
<1>2. ASSUME NEW t \in TypeNames PROVE ReplacedName(t, rho) = t
  BY <1>1, ReplacedNameFacts, TypeRefFacts
<1>3. ASSUME NEW ty \in TypeRef PROVE ReplacedType(ty, rho) = ty
  <2>1. CASE ty.type # "Datatype"
    BY <1>1, <2>1, ReplacedTypeFacts
  <2>2. CASE ty.type = "Datatype"
    <3>1. /\ ty.type_name \in TypeNames
          /\ ty = [type |-> "Datatype", mutable |-> ty.mutable, type_name |-> ty.type_name]
      BY <2>2, TypeRefFacts
    <3>2. ReplacedType(ty, rho) = [type |-> "Datatype", mutable |-> ty.mutable,
                                   type_name |-> ReplacedName(ty.type_name, rho)]
      BY <1>1, <2>2, ReplacedTypeFacts
    <3> QED  BY <1>2, <3>1, <3>2
  <2> QED  BY <2>1, <2>2
<1>4. ASSUME NEW dt \in Datatype PROVE ReplacedDatatype(dt, rho) = dt
  <2> DEFINE same == ReplacedDatatype(dt, rho)
  <2>1. /\ same \in Datatype
        /\ same.type_name = ReplacedName(dt.type_name, rho)
        /\ same.key = dt.key /\ same.copy = dt.copy /\ same.generic = dt.generic
        /\ same.fields = {ReplacedType(t, rho) : t \in dt.fields}
    BY <1>1, ReplacedDatatypeFacts
  <2>2. dt.type_name \in TypeNames /\ dt.fields \subseteq TypeRef
    BY DEF Datatype
  <2> HIDE DEF same
  <2>3. same.type_name = dt.type_name /\ same.fields = dt.fields
    BY <1>2, <1>3, <2>1, <2>2
  <2>4. same = dt
    BY <2>1, <2>3 DEF Datatype
  <2> QED  BY <2>4 DEF same
<1> QED  BY <1>3, <1>4

LEMMA OverlayFacts ==
  ASSUME NEW parameters \in Seq(FunctionParam), NEW list \in Seq(Name)
  PROVE  /\ Overlay(parameters, list) \in Seq(FunctionParam)
         /\ Len(Overlay(parameters, list)) = Len(parameters)
         /\ DOMAIN Overlay(parameters, list) = DOMAIN parameters
         /\ \A i \in DOMAIN parameters :
              /\ Overlay(parameters, list)[i].ty = parameters[i].ty
              /\ \/ Overlay(parameters, list)[i].name = parameters[i].name
                 \/ i \in DOMAIN list /\ Overlay(parameters, list)[i].name = list[i]
<1> DEFINE named == Overlay(parameters, list)
<1>1. ASSUME NEW i \in DOMAIN parameters
      PROVE  /\ named[i] \in FunctionParam
             /\ named[i].ty = parameters[i].ty
             /\ \/ named[i].name = parameters[i].name
                \/ i \in DOMAIN list /\ named[i].name = list[i]
  <2>1. parameters[i] \in FunctionParam /\ (i \in DOMAIN list => list[i] \in Name)
    OBVIOUS
  <2>2. \/ named[i] = parameters[i]
        \/ i \in DOMAIN list /\ named[i] = [parameters[i] EXCEPT !.name = list[i]]
    BY DEF Overlay
  <2> HIDE DEF named
  <2> QED  BY <2>1, <2>2 DEF FunctionParam
<1>2. named = [i \in DOMAIN parameters |-> named[i]]
  BY DEF Overlay
<1> HIDE DEF named
<1>3. named \in [DOMAIN parameters -> FunctionParam]
  BY <1>1, <1>2
<1>4. named \in Seq(FunctionParam) /\ Len(named) = Len(parameters)
      /\ DOMAIN named = DOMAIN parameters
  BY <1>3, MappedSeq
<1> QED  BY <1>1, <1>4 DEF named

LEMMA NamedPackageFacts ==
  ASSUME NEW q \in NormalizedPackage, NEW f \in DOMAIN q.functions,
         NEW parameters \in Seq(FunctionParam),
         NEW named, named = [q EXCEPT !.functions[f] = parameters]
  PROVE  /\ named \in NormalizedPackage
         /\ named.storage_id = q.storage_id /\ named.original_id = q.original_id
         /\ named.datatypes = q.datatypes
         /\ DOMAIN named.functions = DOMAIN q.functions
         /\ named.functions[f] = parameters
         /\ \A other \in DOMAIN q.functions : other # f => named.functions[other] = q.functions[other]
<1> DEFINE functions == [q.functions EXCEPT ![f] = parameters]
<1>1. named = [storage_id |-> q.storage_id, original_id |-> q.original_id,
               datatypes |-> q.datatypes, functions |-> functions]
  <2>1. q = [storage_id |-> q.storage_id, original_id |-> q.original_id,
             datatypes |-> q.datatypes, functions |-> q.functions]
    BY PackageFacts
  <2>2. named = [q EXCEPT !.functions = functions]
    BY DEF functions
  <2> HIDE DEF functions
  <2> QED  BY <2>1, <2>2
<1>2. /\ DOMAIN functions = DOMAIN q.functions /\ functions[f] = parameters
      /\ \A other \in DOMAIN q.functions : other # f => functions[other] = q.functions[other]
      /\ functions \in [DOMAIN q.functions -> Seq(FunctionParam)]
  BY PackageFacts
<1> HIDE DEF functions
<1>3. named \in NormalizedPackage
  <2>1. PICK present \in SUBSET Names, callable \in SUBSET DOMAIN Signature :
          present = DOMAIN q.datatypes /\ callable = DOMAIN q.functions
    BY PackageFacts
  <2>2. /\ q.datatypes \in [present -> Datatype] /\ functions \in [callable -> Seq(FunctionParam)]
        /\ q.storage_id \in Address /\ q.original_id \in Address
    BY <1>2, <2>1, PackageFacts
  <2>3. [storage_id |-> q.storage_id, original_id |-> q.original_id,
         datatypes |-> q.datatypes, functions |-> functions] \in NormalizedPackage
    BY <2>2, PackageTyped
  <2> QED  BY <1>1, <2>3
<1> QED  BY <1>1, <1>2, <1>3

-----------------------------------------------------------------------------
(* The package in hand *)

TypeInv ==
  /\ package # None => /\ package \in NormalizedPackage
                       /\ generated.package \in Packages
                       /\ generated.version \in 1..head[generated.package]
  /\ \A f \in DOMAIN names : names[f] \in Seq(Name)
  /\ phase \in {"idle", "reading", "overlay", "copy", "calls", "tx_ext"}
  /\ phase = "reading" => \E directory \in Directories : files \subseteq directory
  /\ phase # "idle" => package # None
  /\ call # None => Rendering
  /\ at \in Nat

\* What a rewriting of addresses is, if replacements are restricted.
Allowed(rho) ==
  /\ RewritingsKeepPackages => \A a \in Address : rho[a].package = a.package
  /\ RewritingsToFirst => \A a \in Address : rho[a] \in {a, [package |-> a.package, version |-> 1]}

\* The package is what was fetched with every address rewritten by rho, but for the names
\* of parameters.
RewritesBy(rho) ==
  LET p == generated.package
      v == generated.version
  IN  /\ package.storage_id = rho[[package |-> p, version |-> v]]
      /\ package.original_id = rho[[package |-> p, version |-> 1]]
      /\ DOMAIN package.datatypes = Present(p, v)
      /\ \A n \in Present(p, v) :
           package.datatypes[n]
             = ReplacedDatatype(normalize_datatype([package |-> p, name |-> n], defs), rho)
      /\ DOMAIN package.functions = Callable(p, v)
      /\ \A f \in Callable(p, v) :
           /\ Len(package.functions[f]) = Len(Signature[f].parameters)
           /\ \A i \in DOMAIN Signature[f].parameters :
                package.functions[f][i].ty
                  = ReplacedType(normalize_type(Signature[f].parameters[i], defs), rho)

RewriteInv ==
  package # None => \E rho \in [Address -> Address] : Allowed(rho) /\ RewritesBy(rho)

LEMMA SamePackage ==
  ASSUME RewriteInv, UNCHANGED <<chain, interface>>
  PROVE  RewriteInv'
<1>1. /\ package' = package /\ generated' = generated /\ defs' = defs /\ since' = since
  BY DEF chain, interface
<1>2. ASSUME NEW rho, RewritesBy(rho) PROVE RewritesBy(rho)'
  <2>1. \A p, v : Present(p, v)' = Present(p, v) /\ Callable(p, v)' = Callable(p, v)
    BY <1>1 DEF Present, Callable
  <2> QED  BY <1>1, <1>2, <2>1 DEF RewritesBy
<1> QED  BY <1>1, <1>2 DEF RewriteInv

LEMMA FetchKeeps ==
  ASSUME ChainInv, TypeInv, FetchPackage
  PROVE  TypeInv' /\ RewriteInv'
<1>1. PICK p \in Packages :
        \E v \in 1..head[p] : /\ generated' = [package |-> p, version |-> v]
                              /\ package' = normalize_package(p, v, defs, since)
  BY DEF FetchPackage
<1>2. PICK v \in 1..head[p] : /\ generated' = [package |-> p, version |-> v]
                               /\ package' = normalize_package(p, v, defs, since)
  BY <1>1
<1>3. /\ package' \in NormalizedPackage
      /\ package'.storage_id = [package |-> p, version |-> v]
      /\ package'.original_id = [package |-> p, version |-> 1]
      /\ DOMAIN package'.datatypes = Present(p, v)
      /\ DOMAIN package'.functions = Callable(p, v)
      /\ \A n \in Present(p, v) :
           package'.datatypes[n] = normalize_datatype([package |-> p, name |-> n], defs)
      /\ \A f \in Callable(p, v) : package'.functions[f] = normalize_function(f, defs)
  BY <1>2, NormalPackageFacts
<1>4. generated'.package = p /\ generated'.version = v
  BY <1>2
<1>5. TypeInv'
  BY <1>3, <1>4 DEF FetchPackage, TypeInv, chain, reading, Rendering
<1> DEFINE same == [a \in Address |-> a]
<1>6. /\ same \in [Address -> Address] /\ Allowed(same)
      /\ \A a \in Address : same[a] = a
  BY DEF Allowed
<1>7. /\ \A ty \in TypeRef : ReplacedType(ty, same) = ty
      /\ \A dt \in Datatype : ReplacedDatatype(dt, same) = dt
  BY NotReplaced
<1> HIDE DEF same
<1>8. package'.storage_id \in Address /\ package'.original_id \in Address
  BY <1>3, PackageFacts
<1>9. UNCHANGED <<defs, since>>
  BY DEF FetchPackage, chain
<1>10. ASSUME NEW n \in Present(p, v)
      PROVE  package'.datatypes[n]
               = ReplacedDatatype(normalize_datatype([package |-> p, name |-> n], defs'), same)
  <2>1. [package |-> p, name |-> n] \in Id /\ Published([package |-> p, name |-> n], defs)
    BY DEF Present, Id, Published
  <2>2. normalize_datatype([package |-> p, name |-> n], defs) \in Datatype
    BY <2>1, NormalDatatypeTyped
  <2> QED  BY <1>3, <1>7, <1>9, <2>2
<1>11. ASSUME NEW f \in Callable(p, v)
       PROVE  /\ Len(package'.functions[f]) = Len(Signature[f].parameters)
              /\ \A i \in DOMAIN Signature[f].parameters :
                   package'.functions[f][i].ty
                     = ReplacedType(normalize_type(Signature[f].parameters[i], defs'), same)
  <2>1. /\ f \in DOMAIN Signature /\ since[f] # 0
        /\ package'.functions[f] = normalize_function(f, defs)
    BY <1>3 DEF Callable
  <2>2. Len(package'.functions[f]) = Len(Signature[f].parameters)
    BY <2>1, NormalFunctionTyped
  <2>3. ASSUME NEW i \in DOMAIN Signature[f].parameters
        PROVE  package'.functions[f][i].ty
                 = ReplacedType(normalize_type(Signature[f].parameters[i], defs'), same)
    <3>1. package'.functions[f][i].ty = normalize_type(Signature[f].parameters[i], defs)
      BY <2>1 DEF normalize_function
    <3>2. Signature[f].parameters[i] \in SourceType
      BY <2>1, SignatureFacts
    <3>3. normalize_type(Signature[f].parameters[i], defs) \in TypeRef
      BY <2>1, <3>2, NormalTypeTyped DEF ChainInv
    <3> QED  BY <1>7, <1>9, <3>1, <3>3
  <2> QED  BY <2>2, <2>3
<1>12. Present(p, v)' = Present(p, v) /\ Callable(p, v)' = Callable(p, v)
  BY <1>9 DEF Present, Callable
<1>13. RewritesBy(same)'
  BY <1>3, <1>4, <1>6, <1>8, <1>10, <1>11, <1>12 DEF RewritesBy
<1> QED  BY <1>5, <1>6, <1>13 DEF RewriteInv

LEMMA ReplaceKeeps ==
  ASSUME ChainInv, TypeInv, RewriteInv, ReplaceAddresses
  PROVE  TypeInv' /\ RewriteInv'
<1>1. PICK r \in Replacements : package' = Replaced(package, r)
  BY DEF ReplaceAddresses
<1>2. MapsAddresses(r)
  BY ReplacementsMapAddresses
<1>3. package # None /\ package \in NormalizedPackage
  BY DEF ReplaceAddresses, TypeInv
<1>4. /\ package' \in NormalizedPackage
      /\ package'.storage_id = replace_address(package.storage_id, r)
      /\ package'.original_id = replace_address(package.original_id, r)
      /\ DOMAIN package'.datatypes = DOMAIN package.datatypes
      /\ \A n \in DOMAIN package.datatypes :
           package'.datatypes[n] = ReplacedDatatype(package.datatypes[n], r)
      /\ DOMAIN package'.functions = DOMAIN package.functions
      /\ \A f \in DOMAIN package.functions :
           package'.functions[f] = ReplacedParameters(package.functions[f], r)
  BY <1>1, <1>2, <1>3, ReplacedFacts
<1>5. UNCHANGED <<chain, generated, phase, reading, at, call>>
  BY DEF ReplaceAddresses
<1>6. TypeInv'
  <2>1. UNCHANGED <<head, generated, phase, files, names, at, call>> /\ package' # None
    BY <1>4, <1>5, PackageFacts DEF chain, reading
  <2> QED  BY <1>3, <1>4, <2>1 DEF TypeInv, Rendering
<1>7. PICK rho \in [Address -> Address] : Allowed(rho) /\ RewritesBy(rho)
  BY <1>3 DEF RewriteInv
<1> DEFINE both == [a \in Address |-> replace_address(rho[a], r)]
<1>8. /\ both \in [Address -> Address]
      /\ \A a \in Address : both[a] = replace_address(rho[a], r)
  BY <1>2 DEF MapsAddresses
<1> HIDE DEF both
<1>9. Allowed(both)
  <2>1. RewritingsKeepPackages => \A a \in Address : both[a].package = a.package
    BY <1>7, <1>8 DEF Allowed, RewritingsKeepPackages, replace_address
  <2>2. ASSUME RewritingsToFirst, NEW a \in Address
        PROVE  both[a] \in {a, [package |-> a.package, version |-> 1]}
    <3>1. rho[a] \in {a, [package |-> a.package, version |-> 1]} /\ rho[a].package = a.package
      BY <1>7, <2>2 DEF Allowed
    <3>2. both[a] \in {rho[a], [package |-> a.package, version |-> 1]}
      BY <1>8, <2>2, <3>1 DEF RewritingsToFirst, replace_address
    <3> QED  BY <3>1, <3>2
  <2> QED  BY <2>1, <2>2 DEF Allowed
<1>10. PICK p, v : /\ p \in Packages /\ v \in 1..head[p]
                  /\ p = generated.package /\ v = generated.version
                  /\ p = generated'.package /\ v = generated'.version
  BY <1>3, <1>5 DEF TypeInv
<1>11. UNCHANGED <<defs, since>>
  BY <1>5 DEF chain
<1>12. /\ [package |-> p, version |-> v] \in Address
       /\ [package |-> p, version |-> 1] \in Address
  <2>1. head[p] \in Nat /\ head[p] <= Versions[p] /\ Versions[p] \in Nat
    BY <1>10, InterfaceAssumption DEF ChainInv
  <2>2. v \in 1..Versions[p] /\ 1 \in 1..Versions[p]
    BY <1>10, <2>1
  <2> QED  BY <1>10, <2>2, AddressFacts
<1>13. /\ package'.storage_id = both[[package |-> p, version |-> v]]
       /\ package'.original_id = both[[package |-> p, version |-> 1]]
  BY <1>4, <1>7, <1>8, <1>10, <1>12 DEF RewritesBy
<1>14. ASSUME NEW n \in Present(p, v)
       PROVE  package'.datatypes[n]
                = ReplacedDatatype(normalize_datatype([package |-> p, name |-> n], defs'), both)
  <2>1. [package |-> p, name |-> n] \in Id /\ Published([package |-> p, name |-> n], defs)
    BY <1>10 DEF Present, Id, Published
  <2>2. normalize_datatype([package |-> p, name |-> n], defs) \in Datatype
    BY <2>1, NormalDatatypeTyped
  <2>3. package'.datatypes[n]
          = ReplacedDatatype(ReplacedDatatype(
              normalize_datatype([package |-> p, name |-> n], defs), rho), r)
    BY <1>4, <1>7, <1>10 DEF RewritesBy
  <2> QED  BY <1>2, <1>8, <1>11, <2>2, <2>3, ReplacedDatatypeTwice
<1>15. ASSUME NEW f \in Callable(p, v)
       PROVE  /\ Len(package'.functions[f]) = Len(Signature[f].parameters)
              /\ \A i \in DOMAIN Signature[f].parameters :
                   package'.functions[f][i].ty
                     = ReplacedType(normalize_type(Signature[f].parameters[i], defs'), both)
  <2>1. /\ f \in DOMAIN Signature /\ since[f] # 0 /\ f \in DOMAIN package.functions
        /\ Len(package.functions[f]) = Len(Signature[f].parameters)
    BY <1>7, <1>10 DEF Callable, RewritesBy
  <2>2. package.functions[f] \in Seq(FunctionParam)
    BY <1>3, <2>1, PackageFacts
  <2>3. /\ Len(package'.functions[f]) = Len(package.functions[f])
        /\ \A i \in DOMAIN package.functions[f] :
             package'.functions[f][i].ty = ReplacedType(package.functions[f][i].ty, r)
    BY <1>2, <1>4, <2>1, <2>2, ReplacedParametersFacts
  <2>4. DOMAIN package.functions[f] = DOMAIN Signature[f].parameters
    BY <2>1, <2>2, InterfaceAssumption
  <2>5. ASSUME NEW i \in DOMAIN Signature[f].parameters
        PROVE  package'.functions[f][i].ty
                 = ReplacedType(normalize_type(Signature[f].parameters[i], defs'), both)
    <3>1. Signature[f].parameters[i] \in SourceType
      BY <2>1, SignatureFacts
    <3>2. normalize_type(Signature[f].parameters[i], defs) \in TypeRef
      BY <2>1, <3>1, NormalTypeTyped DEF ChainInv
    <3>3. package.functions[f][i].ty
            = ReplacedType(normalize_type(Signature[f].parameters[i], defs), rho)
      BY <1>7, <1>10 DEF RewritesBy
    <3>4. package'.functions[f][i].ty
            = ReplacedType(ReplacedType(normalize_type(Signature[f].parameters[i], defs), rho), r)
      BY <2>3, <2>4, <3>3
    <3> QED  BY <1>2, <1>8, <1>11, <3>2, <3>4, ReplacedTwice
  <2> QED  BY <2>1, <2>3, <2>5
<1>16. Present(p, v)' = Present(p, v) /\ Callable(p, v)' = Callable(p, v)
  BY <1>10, <1>11 DEF Present, Callable
<1>17. DOMAIN package'.datatypes = Present(p, v) /\ DOMAIN package'.functions = Callable(p, v)
  BY <1>4, <1>7, <1>10 DEF RewritesBy
<1>18. RewritesBy(both)'
  BY <1>10, <1>13, <1>14, <1>15, <1>16, <1>17 DEF RewritesBy
<1> QED  BY <1>6, <1>8, <1>9, <1>18 DEF RewriteInv

LEMMA OverlayKeeps ==
  ASSUME ChainInv, TypeInv, RewriteInv, OverlayFunction
  PROVE  TypeInv' /\ RewriteInv'
<1>1. /\ package # None /\ package \in NormalizedPackage
      /\ at \in Nat /\ call = None
      /\ UNCHANGED <<head, defs, since, generated, files, call>>
  BY DEF OverlayFunction, TypeInv, chain, Rendering
<1>2. PICK f : f = Functions[at]
  OBVIOUS
<1>3. \/ /\ UNCHANGED <<package, phase, names>> /\ at' = at + 1
      \/ /\ at' = 0 /\ phase' = "idle" /\ names' = <<>> /\ UNCHANGED package
      \/ /\ f \in DOMAIN package.functions /\ f \in DOMAIN names
         /\ package' = [package EXCEPT !.functions[f] = Overlay(@, names[f])]
         /\ at' = at + 1 /\ UNCHANGED <<phase, names>>
  BY <1>2 DEF OverlayFunction
<1>4. CASE UNCHANGED package
  <2>1. TypeInv'
    BY <1>1, <1>3, <1>4 DEF TypeInv, Rendering
  <2>2. RewriteInv'
    BY <1>1, <1>4, SamePackage DEF chain, interface
  <2> QED  BY <2>1, <2>2
<1>5. CASE /\ f \in DOMAIN package.functions /\ f \in DOMAIN names
           /\ package' = [package EXCEPT !.functions[f] = Overlay(@, names[f])]
           /\ at' = at + 1 /\ UNCHANGED <<phase, names>>
  <2>1. package.functions[f] \in Seq(FunctionParam) /\ names[f] \in Seq(Name)
    BY <1>1, <1>5, PackageFacts DEF TypeInv
  <2> DEFINE named == Overlay(package.functions[f], names[f])
  <2>2. /\ named \in Seq(FunctionParam) /\ Len(named) = Len(package.functions[f])
        /\ DOMAIN named = DOMAIN package.functions[f]
        /\ \A i \in DOMAIN package.functions[f] : named[i].ty = package.functions[f][i].ty
    BY <2>1, OverlayFacts
  <2>3. package' = [package EXCEPT !.functions[f] = named]
    BY <1>5
  <2> HIDE DEF named
  <2>4. /\ package' \in NormalizedPackage
        /\ package'.storage_id = package.storage_id
        /\ package'.original_id = package.original_id
        /\ package'.datatypes = package.datatypes
        /\ DOMAIN package'.functions = DOMAIN package.functions
        /\ package'.functions[f] = named
        /\ \A other \in DOMAIN package.functions :
             other # f => package'.functions[other] = package.functions[other]
    <3>1. PICK q, result : q = package /\ result = package'
      OBVIOUS
    <3>2. q \in NormalizedPackage /\ f \in DOMAIN q.functions
          /\ result = [q EXCEPT !.functions[f] = named]
      BY <1>1, <1>5, <2>3, <3>1
    <3>3. /\ result \in NormalizedPackage
          /\ result.storage_id = q.storage_id /\ result.original_id = q.original_id
          /\ result.datatypes = q.datatypes
          /\ DOMAIN result.functions = DOMAIN q.functions
          /\ result.functions[f] = named
          /\ \A other \in DOMAIN q.functions :
               other # f => result.functions[other] = q.functions[other]
      BY <2>2, <3>2, NamedPackageFacts
    <3> QED  BY <3>1, <3>3
  <2>5. package' # None
    BY <2>4, PackageFacts
  <2>6. TypeInv'
    BY <1>1, <1>5, <2>4, <2>5 DEF TypeInv, Rendering
  <2>7. PICK rho \in [Address -> Address] : Allowed(rho) /\ RewritesBy(rho)
    BY <1>1 DEF RewriteInv
  <2>8. RewritesBy(rho)'
    <3>1. \A p, v : Present(p, v)' = Present(p, v) /\ Callable(p, v)' = Callable(p, v)
      BY <1>1 DEF Present, Callable
    <3>2. ASSUME NEW other \in Callable(generated.package, generated.version)
          PROVE  /\ Len(package'.functions[other]) = Len(Signature[other].parameters)
                 /\ \A i \in DOMAIN Signature[other].parameters :
                      package'.functions[other][i].ty = package.functions[other][i].ty
      <4>1. other \in DOMAIN package.functions /\ other \in DOMAIN Signature
            /\ Len(package.functions[other]) = Len(Signature[other].parameters)
        BY <2>7 DEF RewritesBy, Callable
      <4>2. package.functions[other] \in Seq(FunctionParam)
        BY <1>1, <4>1, PackageFacts
      <4>3. DOMAIN package.functions[other] = DOMAIN Signature[other].parameters
        BY <4>1, <4>2, InterfaceAssumption
      <4> QED  BY <2>2, <2>4, <4>1, <4>3
    <3> QED  BY <1>1, <2>4, <2>7, <3>1, <3>2 DEF RewritesBy
  <2> QED  BY <2>6, <2>7, <2>8 DEF RewriteInv
<1> QED  BY <1>3, <1>4, <1>5

LEMMA SourcesKeep ==
  ASSUME TypeInv, ReadSources \/ ReadFile \/ AllRead \/ OverlayEnds
  PROVE  TypeInv'
<1>1. UNCHANGED <<head, package, generated, call>>
  BY DEF ReadSources, ReadFile, AllRead, OverlayEnds, chain, interface
<1>2. CASE ReadSources
  BY <1>1, <1>2 DEF ReadSources, TypeInv, Rendering
<1>3. CASE ReadFile
  <2>1. PICK file \in files :
          \/ /\ file.readable
             /\ names' = [f \in DOMAIN names \cup DOMAIN file.names |->
                            IF f \in DOMAIN file.names THEN file.names[f] ELSE names[f]]
             /\ files' = files \ {file}
             /\ UNCHANGED phase
          \/ names' = <<>> /\ files' = {} /\ phase' = "idle"
    BY <1>3 DEF ReadFile
  <2>2. PICK directory \in Directories : files \subseteq directory
    BY <1>3 DEF ReadFile, TypeInv
  <2>3. file.readable => \A f \in DOMAIN file.names : file.names[f] \in Seq(Name)
    BY <2>2, BindingsAssumption
  <2>4. \A f \in DOMAIN names' : names'[f] \in Seq(Name)
    BY <2>1, <2>3 DEF TypeInv
  <2>5. files' \subseteq directory
    BY <2>1, <2>2
  <2>6. phase = "reading" /\ phase' \in {"reading", "idle"} /\ at' = at
    BY <1>3, <2>1 DEF ReadFile
  <2> QED  BY <1>1, <2>4, <2>5, <2>6 DEF TypeInv, Rendering
<1>4. CASE AllRead
  BY <1>1, <1>4 DEF AllRead, TypeInv, Rendering, reading
<1>5. CASE OverlayEnds
  BY <1>1, <1>5 DEF OverlayEnds, TypeInv, Rendering
<1> QED  BY <1>2, <1>3, <1>4, <1>5

RenderStep ==
  \/ BeginRender \/ CopyDatatype \/ CopyPassEnds
  \/ BeginFunction \/ RenderParameter \/ FunctionEnds \/ RenderEnds

LEMMA RenderKeeps ==
  ASSUME TypeInv, RenderStep
  PROVE  TypeInv' /\ UNCHANGED <<chain, options, interface>>
<1> USE DEF RenderStep
<1>1. UNCHANGED <<chain, options, interface, reading>>
  BY DEF BeginRender, CopyDatatype, CopyPassEnds, BeginFunction, RenderParameter, FunctionEnds, RenderEnds
<1>2. at' \in Nat
  BY DEF BeginRender, CopyDatatype, CopyPassEnds, BeginFunction, RenderParameter, FunctionEnds,
         RenderEnds, TypeInv
<1>3. /\ phase' \in {"idle", "copy", "calls", "tx_ext"} /\ package # None
      /\ call' # None => phase' \in {"calls", "tx_ext"}
  BY DEF BeginRender, CopyDatatype, CopyPassEnds, NextPass, BeginFunction, RenderParameter,
         FunctionEnds, RenderEnds, TypeInv, Rendering
<1> QED  BY <1>1, <1>2, <1>3 DEF TypeInv, Rendering, chain, interface, reading

LEMMA PackageStep ==
  ChainInv /\ TypeInv /\ RewriteInv /\ [Next]_vars => TypeInv' /\ RewriteInv'
<1> SUFFICES ASSUME ChainInv, TypeInv, RewriteInv, [Next]_vars PROVE TypeInv' /\ RewriteInv'
  OBVIOUS
<1>1. ASSUME NEW p \in Packages, Publish(p) PROVE TypeInv' /\ RewriteInv'
  <2>1. package' = None /\ phase = "idle" /\ UNCHANGED <<phase, files, names, at, call>>
    BY <1>1 DEF Publish, interface, reading
  <2> QED  BY <2>1 DEF TypeInv, RewriteInv, Rendering
<1>2. CASE AddExternalPackage \/ UNCHANGED vars
  <2>1. UNCHANGED <<chain, interface, phase, reading, at, call>>
    BY <1>2 DEF AddExternalPackage, vars
  <2>2. TypeInv'
    BY <2>1 DEF TypeInv, Rendering, chain, interface, reading
  <2> QED  BY <2>1, <2>2, SamePackage
<1>3. CASE FetchPackage \/ ReplaceAddresses \/ OverlayFunction
  BY <1>3, FetchKeeps, ReplaceKeeps, OverlayKeeps
<1>4. CASE ReadSources \/ ReadFile \/ AllRead \/ OverlayEnds
  <2>1. UNCHANGED <<chain, interface>>
    BY <1>4 DEF ReadSources, ReadFile, AllRead, OverlayEnds
  <2> QED  BY <1>4, <2>1, SourcesKeep, SamePackage
<1>5. CASE RenderStep
  BY <1>5, RenderKeeps, SamePackage
<1> QED  BY <1>1, <1>2, <1>3, <1>4, <1>5 DEF Next, Caller, Generator, RenderStep

LEMMA PackageInit == Init => TypeInv /\ RewriteInv
BY DEF Init, TypeInv, RewriteInv, Rendering

PackageInv == ChainInv /\ TypeInv /\ RewriteInv

LEMMA PackageInvariance == Spec => []PackageInv
<1>1. Init => PackageInv
  BY ChainInit, PackageInit DEF PackageInv
<1>2. PackageInv /\ [Next]_vars => PackageInv'
  BY ChainStep, PackageStep DEF PackageInv
<1> QED  BY <1>1, <1>2, PTL DEF Spec

-----------------------------------------------------------------------------
(* External packages *)

\* The options have the datatypes of the versions registered, under the names the network
\* and the first version give them, with the abilities they have on chain.
ExternalInv ==
  /\ \A r \in registered : /\ r.package \in Packages /\ r.version \in 1..head[r.package]
                           /\ r.root \in Roots
  /\ registered = {} => DOMAIN external = {}
  /\ \A t \in DOMAIN external :
       LET id == [package |-> t.address.package, name |-> t.name] IN
       /\ Published(id, defs)
       /\ external[t].key = defs[id].key
       /\ \E r \in registered : /\ r.package = id.package /\ r.root = external[t].root
                                /\ r.version >= defs[id].origin
  /\ \A r \in registered : \A n \in Present(r.package, r.version) :
       /\ DefiningName([package |-> r.package, name |-> n], defs) \in DOMAIN external
       /\ TypeName([package |-> r.package, version |-> 1], n) \in DOMAIN external

LEMMA ExternalNames ==
  ASSUME ChainInv, NEW p \in Packages, NEW v \in 1..head[p], NEW n \in Present(p, v),
         NEW fetched, fetched = normalize_package(p, v, defs, since)
  PROVE  /\ fetched.datatypes[n].key = defs[[package |-> p, name |-> n]].key
         /\ DefiningName([package |-> p, name |-> n], defs)
              \in external_type_names(fetched.datatypes[n], fetched)
         /\ TypeName([package |-> p, version |-> 1], n)
              \in external_type_names(fetched.datatypes[n], fetched)
         /\ \A t \in external_type_names(fetched.datatypes[n], fetched) :
              t.address.package = p /\ t.name = n
<1> DEFINE id == [package |-> p, name |-> n]
<1>1. /\ fetched.storage_id = [package |-> p, version |-> v]
      /\ fetched.original_id = [package |-> p, version |-> 1]
      /\ fetched.datatypes[n] = normalize_datatype(id, defs)
  BY NormalPackageFacts
<1>2. /\ id \in Id /\ Published(id, defs) /\ id.package = p /\ id.name = n
  BY DEF Present, Id, Published
<1> HIDE DEF id
<1>3. /\ fetched.datatypes[n].type_name = DefiningName(id, defs)
      /\ fetched.datatypes[n].key = defs[id].key
  BY <1>1 DEF normalize_datatype
<1>4. DefiningName(id, defs) = [address |-> [package |-> p, version |-> defs[id].origin], name |-> n]
  BY <1>2 DEF DefiningName, TypeName
<1>5. external_type_names(fetched.datatypes[n], fetched)
        = {DefiningName(id, defs)} \cup
          {[DefiningName(id, defs) EXCEPT !.address = a] :
             a \in {fetched.storage_id, fetched.original_id}}
  BY <1>3 DEF external_type_names
<1>6. \A a : [DefiningName(id, defs) EXCEPT !.address = a] = [address |-> a, name |-> n]
  BY <1>4
<1>7. external_type_names(fetched.datatypes[n], fetched)
        = {DefiningName(id, defs), [address |-> fetched.storage_id, name |-> n],
           [address |-> fetched.original_id, name |-> n]}
  BY <1>5, <1>6
<1>8. TypeName([package |-> p, version |-> 1], n) = [address |-> fetched.original_id, name |-> n]
  BY <1>1 DEF TypeName
<1>9. \A t \in external_type_names(fetched.datatypes[n], fetched) :
        t.address.package = p /\ t.name = n
  BY <1>1, <1>4, <1>7
<1> QED  BY <1>3, <1>7, <1>8, <1>9 DEF id

LEMMA AddExternalKeeps ==
  ASSUME ChainInv, ExternalInv, AddExternalPackage
  PROVE  ExternalInv'
<1>1. PICK p, v, root :
        /\ p \in Packages /\ root \in Roots /\ v \in 1..head[p]
        /\ registered' = registered \cup {[package |-> p, version |-> v, root |-> root]}
        /\ external' = add_external_package(external, normalize_package(p, v, defs, since), root)
  BY DEF AddExternalPackage
<1>2. UNCHANGED <<head, defs, since>>
  BY DEF AddExternalPackage, chain
<1> DEFINE fetched == normalize_package(p, v, defs, since)
           added == UNION {external_type_names(fetched.datatypes[n], fetched) :
                             n \in DOMAIN fetched.datatypes}
<1>3. DOMAIN fetched.datatypes = Present(p, v)
  BY <1>1, NormalPackageFacts
<1>4. external' = [t \in DOMAIN external \cup added |->
                     IF t \in added THEN [root |-> root, key |-> fetched.datatypes[t.name].key]
                                    ELSE external[t]]
  BY <1>1 DEF add_external_package
<1>5. fetched = normalize_package(p, v, defs, since)
  OBVIOUS
<1> HIDE DEF fetched
<1>6. \A n \in Present(p, v) :
        /\ fetched.datatypes[n].key = defs[[package |-> p, name |-> n]].key
        /\ DefiningName([package |-> p, name |-> n], defs)
             \in external_type_names(fetched.datatypes[n], fetched)
        /\ TypeName([package |-> p, version |-> 1], n)
             \in external_type_names(fetched.datatypes[n], fetched)
        /\ \A s \in external_type_names(fetched.datatypes[n], fetched) :
             s.address.package = p /\ s.name = n
  BY <1>1, <1>5, ExternalNames
<1>7. \A n \in Present(p, v) :
        /\ DefiningName([package |-> p, name |-> n], defs) \in added
        /\ TypeName([package |-> p, version |-> 1], n) \in added
  BY <1>3, <1>6
<1>8. ASSUME NEW t \in added
      PROVE  LET id == [package |-> p, name |-> t.name] IN
             /\ t.name \in Present(p, v) /\ t.address.package = p
             /\ fetched.datatypes[t.name].key = defs[id].key
  <2>1. PICK n \in Present(p, v) : t \in external_type_names(fetched.datatypes[n], fetched)
    BY <1>3
  <2>2. /\ fetched.datatypes[n].key = defs[[package |-> p, name |-> n]].key
        /\ \A s \in external_type_names(fetched.datatypes[n], fetched) :
             s.address.package = p /\ s.name = n
    BY <1>6
  <2>3. t.address.package = p /\ t.name = n
    BY <2>1, <2>2
  <2> QED  BY <2>2, <2>3
<1>9. \A t \in added : external'[t] = [root |-> root, key |-> fetched.datatypes[t.name].key]
  BY <1>4
<1>10. \A t \in DOMAIN external : t \notin added => external'[t] = external[t]
  BY <1>4
<1>11. DOMAIN external' = DOMAIN external \cup added
  BY <1>4
<1> HIDE DEF added
<1> DEFINE new == [package |-> p, version |-> v, root |-> root]
<1>12. new \in registered' /\ new.package = p /\ new.version = v /\ new.root = root
  BY <1>1
<1>13. registered' = registered \cup {new}
  BY <1>1
<1> HIDE DEF new
<1>14. ASSUME NEW t \in DOMAIN external'
       PROVE  LET id == [package |-> t.address.package, name |-> t.name] IN
              /\ Published(id, defs)
              /\ external'[t].key = defs[id].key
              /\ \E r \in registered' : /\ r.package = id.package /\ r.root = external'[t].root
                                        /\ r.version >= defs[id].origin
  <2>1. CASE t \in added
    <3>1. /\ t.name \in Present(p, v) /\ t.address.package = p
          /\ fetched.datatypes[t.name].key = defs[[package |-> p, name |-> t.name]].key
      BY <1>8, <2>1
    <3>3. external'[t] = [root |-> root, key |-> fetched.datatypes[t.name].key]
      BY <1>9, <2>1
    <3>4. /\ external'[t].root = root
          /\ external'[t].key = defs[[package |-> p, name |-> t.name]].key
      BY <3>1, <3>3
    <3>2. /\ Published([package |-> p, name |-> t.name], defs)
          /\ v >= defs[[package |-> p, name |-> t.name]].origin
      BY <1>1, <3>1 DEF Present, Published
    <3> QED  BY <1>12, <3>1, <3>2, <3>4
  <2>2. CASE t \notin added
    BY <1>10, <1>11, <1>13, <2>2 DEF ExternalInv
  <2> QED  BY <2>1, <2>2
<1>15. \A q, w : Present(q, w)' = Present(q, w)
  BY <1>2 DEF Present
<1>16. ASSUME NEW r \in registered', NEW n \in Present(r.package, r.version)
       PROVE  /\ DefiningName([package |-> r.package, name |-> n], defs) \in DOMAIN external'
              /\ TypeName([package |-> r.package, version |-> 1], n) \in DOMAIN external'
  <2>1. CASE r = new
    BY <1>7, <1>11, <1>12, <2>1
  <2>2. CASE r \in registered
    BY <1>11, <2>2 DEF ExternalInv
  <2> QED  BY <1>13, <2>1, <2>2
<1>17. \A r \in registered' : /\ r.package \in Packages /\ r.version \in 1..head[r.package]
                              /\ r.root \in Roots
  BY <1>1, <1>12, <1>13 DEF ExternalInv
<1>18. registered' # {}
  BY <1>12
<1> QED  BY <1>2, <1>14, <1>15, <1>16, <1>17, <1>18 DEF ExternalInv, Published, DefiningName, TypeName

LEMMA ExternalStep == PackageInv /\ ExternalInv /\ [Next]_vars => ExternalInv'
<1> SUFFICES ASSUME PackageInv, ExternalInv, [Next]_vars PROVE ExternalInv'
  OBVIOUS
<1>1. ASSUME NEW p \in Packages, Publish(p) PROVE ExternalInv'
  <2>1. registered' = {} /\ external' = external /\ DOMAIN external = {}
    BY <1>1 DEF Publish, options, ExternalInv
  <2> QED  BY <2>1 DEF ExternalInv
<1>2. CASE AddExternalPackage
  BY <1>2, AddExternalKeeps DEF PackageInv
<1>3. CASE UNCHANGED <<chain, options>>
  <2>1. UNCHANGED <<head, defs, since, registered, external>>
    BY <1>3 DEF chain, options
  <2>2. \A q, w : Present(q, w)' = Present(q, w)
    BY <2>1 DEF Present
  <2> QED  BY <2>1, <2>2 DEF ExternalInv, Published, DefiningName, TypeName
<1>4. CASE FetchPackage \/ ReplaceAddresses \/ ReadSources \/ ReadFile \/ AllRead
           \/ OverlayFunction \/ OverlayEnds
  <2>1. UNCHANGED <<chain, options>>
    BY <1>4 DEF FetchPackage, ReplaceAddresses, ReadSources, ReadFile, AllRead, OverlayFunction,
                OverlayEnds
  <2> QED  BY <1>3, <2>1
<1>5. CASE RenderStep \/ UNCHANGED vars
  <2>1. UNCHANGED <<chain, options>>
    BY <1>5, RenderKeeps DEF PackageInv, vars
  <2> QED  BY <1>3, <2>1
<1> QED  BY <1>1, <1>2, <1>4, <1>5 DEF Next, Caller, Generator, RenderStep

LEMMA ExternalInvariance == Spec => []ExternalInv
<1>1. Init => ExternalInv
  BY DEF Init, ExternalInv
<1> QED  BY <1>1, ExternalStep, PackageInvariance, PTL DEF Spec

-----------------------------------------------------------------------------
(* Names of types in the package in hand *)

\* Where the name of a published datatype leads in a package rewritten by rho.
LEMMA NameFound ==
  ASSUME PackageInv, package # None,
         NEW rho \in [Address -> Address], Allowed(rho), RewritesBy(rho),
         NEW id \in Id, Published(id, defs),
         NEW t, t = ReplacedName(DefiningName(id, defs), rho)
  PROVE  /\ t \in TypeNames /\ t.name = id.name
         /\ t.address = rho[[package |-> id.package, version |-> defs[id].origin]]
         /\ id.package = generated.package /\ defs[id].origin <= generated.version =>
              /\ id.name \in DOMAIN package.datatypes
              /\ package.datatypes[id.name]
                   = ReplacedDatatype(normalize_datatype(id, defs), rho)
              /\ package.datatypes[id.name].type_name = t
              /\ package.datatypes[id.name].key = defs[id].key
<1>1. /\ DefiningName(id, defs) \in TypeNames
      /\ DefiningName(id, defs).name = id.name
      /\ DefiningName(id, defs).address = [package |-> id.package, version |-> defs[id].origin]
  BY NameTyped DEF PackageInv
<1>2. /\ MapsAddresses(rho)
      /\ \A a \in Address : replace_address(a, rho) = rho[a]
  BY ReplacementsMapAddresses
<1>3. /\ t \in TypeNames
      /\ t = [address |-> replace_address(DefiningName(id, defs).address, rho), name |-> id.name]
  BY <1>1, <1>2, ReplacedNameFacts
<1>4. [package |-> id.package, version |-> defs[id].origin] \in Address
  BY <1>1, TypeRefFacts
<1>5. ASSUME id.package = generated.package, defs[id].origin <= generated.version
      PROVE  /\ id.name \in DOMAIN package.datatypes
             /\ package.datatypes[id.name] = ReplacedDatatype(normalize_datatype(id, defs), rho)
             /\ package.datatypes[id.name].type_name = t
             /\ package.datatypes[id.name].key = defs[id].key
  <2>1. id = [package |-> generated.package, name |-> id.name] /\ id.name \in Names
    BY <1>5 DEF Id
  <2>2. generated.version \in Nat
    BY DEF PackageInv, TypeInv
  <2>3. defs[id] \in Definition
    BY DEF PackageInv, ChainInv, Published
  <2>4. defs[id] # None /\ defs[id].origin \in 1..generated.version
    BY <1>5, <2>2, <2>3, DefinitionFacts
  <2>5. id.name \in Present(generated.package, generated.version)
    BY <2>1, <2>4 DEF Present
  <2>6. /\ id.name \in DOMAIN package.datatypes
        /\ package.datatypes[id.name] = ReplacedDatatype(normalize_datatype(id, defs), rho)
    BY <2>1, <2>5 DEF RewritesBy
  <2>7. normalize_datatype(id, defs) \in Datatype
    BY NormalDatatypeTyped DEF PackageInv
  <2>8. /\ normalize_datatype(id, defs).type_name = DefiningName(id, defs)
        /\ normalize_datatype(id, defs).key = defs[id].key
    BY DEF normalize_datatype
  <2>9. /\ ReplacedDatatype(normalize_datatype(id, defs), rho).type_name
             = ReplacedName(normalize_datatype(id, defs).type_name, rho)
        /\ ReplacedDatatype(normalize_datatype(id, defs), rho).key
             = normalize_datatype(id, defs).key
    BY <1>2, <2>7, ReplacedDatatypeFacts
  <2> QED  BY <2>6, <2>8, <2>9
<1> QED  BY <1>1, <1>2, <1>3, <1>4, <1>5

\* If addresses stay with their packages, what is local is of the package generated.
LEMMA LocalNames ==
  ASSUME PackageInv, package # None, RewritingsKeepPackages,
         NEW rho \in [Address -> Address], Allowed(rho), RewritesBy(rho),
         NEW id \in Id, Published(id, defs),
         NEW t, t = ReplacedName(DefiningName(id, defs), rho)
  PROVE  /\ t.address.package = id.package
         /\ is_local_type(t, package) => id.package = generated.package
<1>1. /\ generated.package \in Packages
      /\ generated.version \in 1..Versions[generated.package]
      /\ 1 \in 1..Versions[generated.package]
  BY InterfaceAssumption DEF PackageInv, TypeInv, ChainInv
<1>2. /\ [package |-> generated.package, version |-> generated.version] \in Address
      /\ [package |-> generated.package, version |-> 1] \in Address
  BY <1>1, AddressFacts
<1>3. /\ package.storage_id.package = generated.package
      /\ package.original_id.package = generated.package
  BY <1>2 DEF RewritesBy, Allowed
<1>4. [package |-> id.package, version |-> defs[id].origin] \in Address
  BY NameTyped, TypeRefFacts DEF PackageInv
<1>5. t.address.package = id.package
  BY <1>4, NameFound DEF Allowed
<1> QED  BY <1>3, <1>5 DEF is_local_type

LEMMA ParameterFacts ==
  ASSUME PackageInv, package # None,
         NEW f \in DOMAIN package.functions, NEW i \in DOMAIN package.functions[f]
  PROVE  /\ f \in Callable(generated.package, generated.version)
         /\ package.functions[f] \in Seq(FunctionParam)
         /\ package.functions[f][i].name \in Name /\ package.functions[f][i].ty \in TypeRef
         /\ i \in DOMAIN Signature[f].parameters /\ i \in DOMAIN ArgWord
<1>1. PICK rho \in [Address -> Address] : RewritesBy(rho)
  BY DEF PackageInv, RewriteInv
<1>2. f \in Callable(generated.package, generated.version)
  BY <1>1 DEF RewritesBy
<1>3. /\ f \in DOMAIN Signature
      /\ Len(package.functions[f]) = Len(Signature[f].parameters)
  BY <1>1, <1>2 DEF RewritesBy, Callable
<1>4. package.functions[f] \in Seq(FunctionParam)
  BY PackageFacts DEF PackageInv, TypeInv
<1>5. package.functions[f][i] \in FunctionParam
  BY <1>4
<1>6. package.functions[f][i].name \in Name /\ package.functions[f][i].ty \in TypeRef
  BY <1>5 DEF FunctionParam
<1>7. /\ Signature[f].parameters \in Seq(SourceType)
      /\ Len(Signature[f].parameters) <= Len(ArgWord)
  BY <1>3, InterfaceAssumption
<1>8. ArgWord \in Seq(Words)
  BY NamesAssumption
<1> HIDE DEF PackageInv
<1>9. i \in 1..Len(package.functions[f])
  BY <1>4
<1> QED  BY <1>2, <1>3, <1>4, <1>6, <1>7, <1>8, <1>9

\* The type of a parameter, where its source means a datatype.
LEMMA DatatypeParameter ==
  ASSUME PackageInv, package # None,
         NEW rho \in [Address -> Address], RewritesBy(rho),
         NEW f \in DOMAIN package.functions, NEW i \in DOMAIN package.functions[f],
         Signature[f].parameters[i].type = "Datatype"
  PROVE  LET source == Signature[f].parameters[i] IN
         /\ source.id \in Id /\ Published(source.id, defs)
         /\ source.id.package = generated.package => defs[source.id].origin <= generated.version
         /\ package.functions[f][i].ty
              = [type |-> "Datatype", mutable |-> source.mutable,
                 type_name |-> ReplacedName(DefiningName(source.id, defs), rho)]
<1> DEFINE source == Signature[f].parameters[i]
<1>1. /\ f \in Callable(generated.package, generated.version)
      /\ i \in DOMAIN Signature[f].parameters
  BY ParameterFacts
<1>2. /\ f \in DOMAIN Signature /\ Signature[f].package = generated.package
      /\ since[f] \in 1..generated.version
  BY <1>1 DEF Callable
<1>3. source \in SourceType /\ source.id \in Id /\ source.mutable \in BOOLEAN
  BY <1>1, <1>2, SignatureFacts
<1>4. since[f] # 0 /\ since[f] <= generated.version /\ since[f] \in Nat
  BY <1>2
<1>5. /\ Published(source.id, defs)
      /\ source.id.package = generated.package => defs[source.id].origin <= since[f]
  BY <1>1, <1>2, <1>4 DEF PackageInv, ChainInv
<1>6. source.id.package = generated.package => defs[source.id].origin <= generated.version
  <2>1. defs[source.id] \in Definition
    BY <1>3, <1>5 DEF PackageInv, ChainInv, Published
  <2>2. defs[source.id].origin \in Nat
    BY <2>1, DefinitionFacts
  <2>3. generated.version \in Nat
    BY DEF PackageInv, TypeInv
  <2> QED  BY <1>4, <1>5, <2>2, <2>3
<1>7. package.functions[f][i].ty = ReplacedType(normalize_type(source, defs), rho)
  BY <1>1 DEF RewritesBy
<1>8. normalize_type(source, defs)
        = [type |-> "Datatype", mutable |-> source.mutable,
           type_name |-> DefiningName(source.id, defs)]
  BY DEF normalize_type
<1>9. normalize_type(source, defs) \in TypeRef
  BY <1>3, <1>5, NormalTypeTyped DEF PackageInv
<1>10. ReplacedType(normalize_type(source, defs), rho)
         = [type |-> "Datatype", mutable |-> source.mutable,
            type_name |-> ReplacedName(DefiningName(source.id, defs), rho)]
  BY <1>8, <1>9, ReplacementsMapAddresses, ReplacedTypeFacts
<1> QED  BY <1>3, <1>5, <1>6, <1>7, <1>10

\* A datatype that is found is the one its source means, wherever it is looked up.
LEMMA FoundArgument ==
  ASSUME PackageInv, ExternalInv, package # None, RewritingsKeepPackages,
         NEW f \in DOMAIN package.functions, NEW i \in DOMAIN package.functions[f],
         Signature[f].parameters[i].type = "Datatype",
         NEW ty, ty = package.functions[f][i].ty,
         PathRoot(ty, package, external) # None
  PROVE  LET source == Signature[f].parameters[i] IN
         /\ is_object_type(ty, package, external) = defs[source.id].key
         /\ ty.mutable = source.mutable
         /\ \/ /\ PathRoot(ty, package, external) = Own
               /\ source.id.package = generated.package
            \/ \E r \in registered : /\ r.package = source.id.package
                                    /\ r.root = PathRoot(ty, package, external)
                                    /\ r.version >= defs[source.id].origin
<1>1. PICK rho \in [Address -> Address] : Allowed(rho) /\ RewritesBy(rho)
  BY DEF PackageInv, RewriteInv
<1> DEFINE id == Signature[f].parameters[i].id
           t == ReplacedName(DefiningName(id, defs), rho)
<1>2. /\ id \in Id /\ Published(id, defs)
      /\ id.package = generated.package => defs[id].origin <= generated.version
      /\ ty = [type |-> "Datatype", mutable |-> Signature[f].parameters[i].mutable,
               type_name |-> t]
  BY <1>1, DatatypeParameter
<1>3. t = ReplacedName(DefiningName(id, defs), rho)
  OBVIOUS
<1> HIDE DEF id, t
<1>4. /\ t.name = id.name
      /\ id.package = generated.package =>
           /\ id.name \in DOMAIN package.datatypes
           /\ package.datatypes[id.name].type_name = t
           /\ package.datatypes[id.name].key = defs[id].key
  <2>1. /\ t \in TypeNames /\ t.name = id.name
        /\ t.address = rho[[package |-> id.package, version |-> defs[id].origin]]
        /\ id.package = generated.package /\ defs[id].origin <= generated.version =>
             /\ id.name \in DOMAIN package.datatypes
             /\ package.datatypes[id.name]
                  = ReplacedDatatype(normalize_datatype(id, defs), rho)
             /\ package.datatypes[id.name].type_name = t
             /\ package.datatypes[id.name].key = defs[id].key
    BY <1>1, <1>2, <1>3, NameFound
  <2> QED  BY <1>2, <2>1
<1>5. /\ t.address.package = id.package
      /\ is_local_type(t, package) => id.package = generated.package
  BY <1>1, <1>2, <1>3, LocalNames
<1>6. id = [package |-> id.package, name |-> id.name]
  BY <1>2 DEF Id
<1>7. defs[id].key \in BOOLEAN
  <2>1. defs[id] \in Definition
    BY <1>2 DEF PackageInv, ChainInv, Published
  <2> QED  BY <2>1, DefinitionFacts
<1>8. /\ ty.type = "Datatype" /\ ty.type_name = t
      /\ ty.mutable = Signature[f].parameters[i].mutable
  BY <1>2 DEF id
<1>9. CASE is_local_type(t, package)
  <2>1. PathRoot(ty, package, external) = Own /\ id.package = generated.package
    BY <1>5, <1>8, <1>9 DEF PathRoot
  <2>2. is_object_type(ty, package, external) = defs[id].key
    <3>1. CASE t \in DOMAIN external
      <4>1. external[t].key = defs[id].key
        BY <1>4, <1>5, <1>6, <3>1 DEF ExternalInv
      <4> QED  BY <1>7, <1>8, <3>1, <4>1 DEF is_object_type
    <3>2. CASE t \notin DOMAIN external
      BY <1>4, <1>7, <1>8, <2>1, <3>2 DEF is_object_type
    <3> QED  BY <3>1, <3>2
  <2> QED  BY <1>8, <2>1, <2>2 DEF id
<1>10. CASE ~is_local_type(t, package)
  <2>1. /\ t \in DOMAIN external
        /\ PathRoot(ty, package, external) = external[t].root
    BY <1>8, <1>10 DEF PathRoot
  <2>2. /\ external[t].key = defs[id].key
        /\ \E r \in registered : /\ r.package = id.package /\ r.root = external[t].root
                                 /\ r.version >= defs[id].origin
    BY <1>4, <1>5, <1>6, <2>1 DEF ExternalInv
  <2>3. is_object_type(ty, package, external) = defs[id].key
    BY <1>7, <1>8, <2>1, <2>2 DEF is_object_type
  <2> QED  BY <1>8, <2>1, <2>2, <2>3 DEF id
<1> QED  BY <1>9, <1>10

\* A datatype of an interface registered is found, and one of the package itself that its
\* first or its present version added.
LEMMA KnownArgument ==
  ASSUME PackageInv, ExternalInv, package # None, RewritingsToFirst,
         NEW f \in DOMAIN package.functions, NEW i \in DOMAIN package.functions[f],
         Signature[f].parameters[i].type = "Datatype",
         NEW ty, ty = package.functions[f][i].ty,
         PathRoot(ty, package, external) = None
  PROVE  LET id == Signature[f].parameters[i].id IN
         /\ id.package = generated.package => defs[id].origin \notin {1, generated.version}
         /\ \A r \in registered : r.package = id.package => r.version < defs[id].origin
<1>1. PICK rho \in [Address -> Address] : Allowed(rho) /\ RewritesBy(rho)
  BY DEF PackageInv, RewriteInv
<1> DEFINE id == Signature[f].parameters[i].id
           t == ReplacedName(DefiningName(id, defs), rho)
<1>2. /\ id \in Id /\ Published(id, defs)
      /\ ty = [type |-> "Datatype", mutable |-> Signature[f].parameters[i].mutable,
               type_name |-> t]
  BY <1>1, DatatypeParameter
<1>3. t = ReplacedName(DefiningName(id, defs), rho)
  OBVIOUS
<1> HIDE DEF t
<1>4. /\ t \in TypeNames /\ t.name = id.name
      /\ t.address = rho[[package |-> id.package, version |-> defs[id].origin]]
  BY <1>1, <1>2, <1>3, NameFound
<1>5. /\ DefiningName(id, defs) \in TypeNames
      /\ DefiningName(id, defs)
           = TypeName([package |-> id.package, version |-> defs[id].origin], id.name)
      /\ [package |-> id.package, version |-> defs[id].origin] \in Address
  BY <1>2, NameTyped, TypeRefFacts DEF PackageInv, DefiningName
<1>6. id = [package |-> id.package, name |-> id.name] /\ id.name \in Names
  BY <1>2 DEF Id
<1>7. defs[id] # None /\ defs[id].origin \in Nat \ {0}
  <2>1. defs[id] \in Definition
    BY <1>2 DEF PackageInv, ChainInv, Published
  <2> QED  BY <2>1, DefinitionFacts
<1> HIDE DEF id
<1>8. ty.type = "Datatype" /\ ty.type_name = t
  BY <1>2
<1>9. ~is_local_type(t, package)
  BY <1>8, InterfaceAssumption DEF PathRoot
<1>10. ASSUME id.package = generated.package, defs[id].origin \in {1, generated.version}
       PROVE  FALSE
  <2>1. /\ package.storage_id = rho[[package |-> generated.package, version |-> generated.version]]
        /\ package.original_id = rho[[package |-> generated.package, version |-> 1]]
    BY <1>1 DEF RewritesBy
  <2> QED  BY <1>4, <1>9, <1>10, <2>1 DEF is_local_type
<1>11. ASSUME NEW r \in registered, r.package = id.package, ~ (r.version < defs[id].origin)
       PROVE  FALSE
  <2>1. /\ r.package \in Packages /\ r.version \in 1..head[r.package] /\ r.root \in Roots
        /\ head[r.package] \in Nat
    BY DEF ExternalInv, PackageInv, ChainInv
  <2>2. r.version \in Nat
    BY <2>1
  <2>3. defs[id].origin \in 1..r.version
    BY <1>7, <1>11, <2>2
  <2>4. id.name \in Present(r.package, r.version)
    BY <1>6, <1>7, <1>11, <2>3 DEF Present
  <2>5. /\ DefiningName([package |-> r.package, name |-> id.name], defs) \in DOMAIN external
        /\ TypeName([package |-> r.package, version |-> 1], id.name) \in DOMAIN external
    BY <2>4 DEF ExternalInv
  <2>6. t.address \in {[package |-> id.package, version |-> defs[id].origin],
                       [package |-> id.package, version |-> 1]}
    BY <1>1, <1>4, <1>5 DEF Allowed
  <2>7. t = [address |-> t.address, name |-> id.name]
    BY <1>4, TypeRefFacts
  <2>8. t \in {TypeName([package |-> id.package, version |-> defs[id].origin], id.name),
               TypeName([package |-> id.package, version |-> 1], id.name)}
    BY <2>6, <2>7 DEF TypeName
  <2>9. DefiningName(id, defs) \in DOMAIN external
    BY <1>6, <1>11, <2>5
  <2>10. t \in DOMAIN external
    BY <1>5, <1>11, <2>5, <2>8, <2>9
  <2>11. external[t].root = None
    BY <1>8, <1>9, <2>10 DEF PathRoot
  <2>12. external[t].root \in Roots
    BY <2>10 DEF ExternalInv
  <2> QED  BY <2>11, <2>12, InterfaceAssumption
<1> QED  BY <1>10, <1>11 DEF id

-----------------------------------------------------------------------------
(* The function being rendered *)

RenderedArgument == [position : Nat \ {0}, ident : Name, root : Roots \cup {Own, None},
                     object : BOOLEAN, mutable : BOOLEAN]

\* An argument is what the package and the options, which stay as they are, say of the
\* parameter it stands for.
Describes(arg, parameters) ==
  LET ty == parameters[arg.position].ty IN
  /\ arg.position \in DOMAIN parameters
  /\ arg.root = PathRoot(ty, package, external)
  /\ arg.object = is_object_type(ty, package, external)
  /\ arg.mutable = (arg.object /\ ty.mutable)

\* The names in use are those of the arguments: no two are equal, none is forbidden.
CallInv ==
  call # None =>
    /\ Functions[at] \in DOMAIN package.functions
    /\ call \in [next : Nat \ {0}, used : SUBSET Name, args : Seq(RenderedArgument)]
    /\ IsFiniteSet(call.used) /\ call.used \cap Forbidden = {}
    /\ \A k \in DOMAIN call.args : /\ call.args[k].ident \in call.used
                                   /\ Describes(call.args[k], package.functions[Functions[at]])
    /\ \A j, k \in DOMAIN call.args : call.args[j].ident = call.args[k].ident => j = k

LEMMA Appended ==
  ASSUME NEW S, NEW seq \in Seq(S), NEW e \in S
  PROVE  /\ Append(seq, e) \in Seq(S)
         /\ DOMAIN Append(seq, e) = DOMAIN seq \cup {Len(seq) + 1}
         /\ Len(seq) + 1 \notin DOMAIN seq
         /\ \A k \in DOMAIN seq : Append(seq, e)[k] = seq[k]
         /\ Append(seq, e)[Len(seq) + 1] = e
OBVIOUS

LEMMA ArgumentFacts ==
  ASSUME PackageInv, ExternalInv, package # None,
         NEW f \in DOMAIN package.functions, NEW i \in DOMAIN package.functions[f],
         NEW used, IsFiniteSet(used),
         NEW arg, arg = Argument(package.functions[f][i], i, used)
  PROVE  /\ arg \in RenderedArgument
         /\ arg.ident \in Name /\ arg.ident \notin used /\ arg.ident \notin Forbidden
         /\ Describes(arg, package.functions[f])
<1> DEFINE parameter == package.functions[f][i]
           object == is_object_type(parameter.ty, package, external)
<1>1. /\ parameter.name \in Name /\ parameter.ty \in TypeRef /\ i \in DOMAIN ArgWord
      /\ i \in Nat \ {0}
  <2>1. ArgWord \in Seq(Words)
    BY NamesAssumption
  <2> QED  BY <2>1, ParameterFacts
<1> HIDE DEF parameter
<1>2. /\ NextIdent(parameter.name, i, used) \in Name
      /\ NextIdent(parameter.name, i, used) \notin used
      /\ NextIdent(parameter.name, i, used) \notin Forbidden
  BY <1>1, NextIdentFacts
<1>3. PathRoot(parameter.ty, package, external) \in Roots \cup {Own, None}
  <2>1. \A t \in DOMAIN external : external[t].root \in Roots
    BY DEF ExternalInv
  <2> QED  BY <2>1 DEF PathRoot
<1>4. object \in BOOLEAN
  BY DEF is_object_type
<1> HIDE DEF object
<1>5. (object /\ parameter.ty.mutable) \in BOOLEAN
  OBVIOUS
<1>6. arg = [position |-> i, ident |-> NextIdent(parameter.name, i, used),
             root |-> PathRoot(parameter.ty, package, external),
             object |-> object, mutable |-> (object /\ parameter.ty.mutable)]
  BY DEF Argument, parameter, object
<1>7. arg \in RenderedArgument
  BY <1>1, <1>2, <1>3, <1>4, <1>5, <1>6 DEF RenderedArgument
<1>8. /\ arg.position = i /\ arg.ident = NextIdent(parameter.name, i, used)
      /\ arg.root = PathRoot(parameter.ty, package, external)
      /\ arg.object = object /\ arg.mutable = (object /\ parameter.ty.mutable)
  BY <1>6
<1>9. Describes(arg, package.functions[f])
  BY <1>8 DEF Describes, parameter, object
<1> QED  BY <1>2, <1>7, <1>8, <1>9

LEMMA RenderParameterKeeps ==
  ASSUME PackageInv, ExternalInv, CallInv, RenderParameter
  PROVE  CallInv'
<1> DEFINE f == Functions[at]
           parameters == package.functions[f]
           i == call.next
<1>1. /\ call # None /\ package # None
      /\ UNCHANGED <<registered, external, generated, package, at>>
  BY DEF RenderParameter, PackageInv, TypeInv, Rendering, options, interface
<1>2. /\ f \in DOMAIN package.functions
      /\ call \in [next : Nat \ {0}, used : SUBSET Name, args : Seq(RenderedArgument)]
      /\ IsFiniteSet(call.used) /\ call.used \cap Forbidden = {}
      /\ \A k \in DOMAIN call.args : /\ call.args[k].ident \in call.used
                                     /\ Describes(call.args[k], parameters)
      /\ \A j, k \in DOMAIN call.args : call.args[j].ident = call.args[k].ident => j = k
  BY <1>1 DEF CallInv
<1>3. \A arg : Describes(arg, parameters)' <=> Describes(arg, parameters)
  BY <1>1 DEF Describes
<1>4. CASE parameters[i].ty.type = "TxContext"
  <2>1. call' = [call EXCEPT !.next = @ + 1]
    BY <1>4 DEF RenderParameter
  <2>2. /\ call'.used = call.used /\ call'.args = call.args
        /\ call' \in [next : Nat \ {0}, used : SUBSET Name, args : Seq(RenderedArgument)]
    BY <1>2, <2>1
  <2> QED  BY <1>1, <1>2, <1>3, <2>2 DEF CallInv
<1>5. CASE parameters[i].ty.type # "TxContext"
  <2> DEFINE arg == Argument(parameters[i], i, call.used)
  <2>1. call' = [next |-> i + 1, used |-> call.used \cup {arg.ident},
                 args |-> Append(call.args, arg)]
    BY <1>5 DEF RenderParameter
  <2>2. i \in DOMAIN parameters
    <3>1. parameters \in Seq(FunctionParam)
      BY <1>1, <1>2, PackageFacts DEF PackageInv, TypeInv
    <3>2. i \in Nat \ {0} /\ i <= Len(parameters)
      BY <1>2 DEF RenderParameter
    <3> QED  BY <3>1, <3>2
  <2>3. /\ arg \in RenderedArgument
        /\ arg.ident \in Name /\ arg.ident \notin call.used /\ arg.ident \notin Forbidden
        /\ Describes(arg, parameters)
    BY <1>1, <1>2, <2>2, ArgumentFacts
  <2> HIDE DEF arg, i, parameters
  <2>4. i \in Nat \ {0} /\ call.used \in SUBSET Name /\ call.args \in Seq(RenderedArgument)
    BY <1>2 DEF i
  <2> DEFINE args == Append(call.args, arg)
             last == Len(call.args) + 1
  <2>5. /\ args \in Seq(RenderedArgument)
        /\ DOMAIN args = DOMAIN call.args \cup {last} /\ last \notin DOMAIN call.args
        /\ \A k \in DOMAIN call.args : args[k] = call.args[k]
        /\ args[last] = arg
    BY <2>3, <2>4, Appended
  <2> HIDE DEF args, last
  <2>6. /\ call' \in [next : Nat \ {0}, used : SUBSET Name, args : Seq(RenderedArgument)]
        /\ call'.used = call.used \cup {arg.ident} /\ call'.args = args
    <3>1. call' = [next |-> i + 1, used |-> call.used \cup {arg.ident}, args |-> args]
      BY <2>1 DEF args
    <3> QED  BY <2>3, <2>4, <2>5, <3>1
  <2>7. IsFiniteSet(call'.used) /\ call'.used \cap Forbidden = {}
    <3>1. IsFiniteSet(call.used \cup {arg.ident})
      BY <1>2, FS_AddElement
    <3> QED  BY <1>2, <2>3, <2>6, <3>1
  <2>8. \A k \in DOMAIN args : args[k].ident \in call'.used /\ Describes(args[k], parameters)
    BY <1>2, <2>3, <2>5, <2>6
  <2>9. \A j, k \in DOMAIN args : args[j].ident = args[k].ident => j = k
    BY <1>2, <2>3, <2>5
  <2>10. parameters' = parameters /\ f' = f
    BY <1>1 DEF parameters
  <2> QED  BY <1>1, <1>2, <1>3, <2>6, <2>7, <2>8, <2>9, <2>10 DEF CallInv, parameters, Forbidden
<1> QED  BY <1>4, <1>5

LEMMA CallStep == PackageInv /\ ExternalInv /\ CallInv /\ [Next]_vars => CallInv'
<1> SUFFICES ASSUME PackageInv, ExternalInv, CallInv, [Next]_vars PROVE CallInv'
  OBVIOUS
<1>1. CASE UNCHANGED <<call, external, package, at>>
  <2>1. \A arg, parameters : Describes(arg, parameters)' <=> Describes(arg, parameters)
    BY <1>1 DEF Describes
  <2> QED  BY <1>1, <2>1 DEF CallInv, Forbidden
<1>2. CASE call' = None
  BY <1>2 DEF CallInv
<1>3. CASE BeginFunction
  <2>1. \/ /\ Functions[at] \in DOMAIN package.functions
           /\ call' = [next |-> 1, used |-> {}, args |-> <<>>]
           /\ UNCHANGED <<package, at>>
        \/ call' = None
    BY <1>3 DEF BeginFunction, interface
  <2>2. CASE call' = [next |-> 1, used |-> {}, args |-> <<>>]
    <3>1. /\ call'.used = {} /\ call'.args = <<>> /\ DOMAIN call'.args = {}
          /\ call' \in [next : Nat \ {0}, used : SUBSET Name, args : Seq(RenderedArgument)]
      BY <2>2
    <3>2. IsFiniteSet(call'.used)
      BY <3>1, FS_EmptySet
    <3> QED  BY <1>2, <2>1, <3>1, <3>2 DEF CallInv
  <2> QED  BY <1>2, <2>1, <2>2
<1>4. CASE RenderParameter
  BY <1>4, RenderParameterKeeps
<1>5. CASE Caller \/ ReadFile \/ AllRead \/ OverlayFunction \/ OverlayEnds \/ CopyDatatype \/ CopyPassEnds
  <2>1. ~Rendering /\ UNCHANGED call
    BY <1>5 DEF Caller, Publish, AddExternalPackage, FetchPackage, ReplaceAddresses, ReadSources,
                BeginRender, ReadFile, AllRead, OverlayFunction, OverlayEnds, CopyDatatype,
                CopyPassEnds, Rendering
  <2> QED  BY <1>2, <2>1 DEF PackageInv, TypeInv
<1>6. CASE FunctionEnds \/ RenderEnds
  BY <1>2, <1>6 DEF FunctionEnds, RenderEnds
<1>7. CASE UNCHANGED vars
  BY <1>1, <1>7 DEF vars, options, interface
<1> QED  BY <1>3, <1>4, <1>5, <1>6, <1>7 DEF Next, Generator

LEMMA CallInvariance == Spec => [](PackageInv /\ ExternalInv /\ CallInv)
<1>1. Init => CallInv
  BY DEF Init, CallInv
<1> QED  BY <1>1, CallStep, PackageInvariance, ExternalInvariance, PTL DEF Spec

-----------------------------------------------------------------------------
(* The parameters of the builders *)

\* The identifiers of the parameters of a builder are distinct and no forbidden keywords,
\* whatever the network and the sources call them (ParameterIdents::next).
THEOREM RustNames == Spec => []RustNamesAreDistinct
<1>1. CallInv => RustNamesAreDistinct
  <2> SUFFICES ASSUME CallInv, call # None PROVE RustNamesAreDistinct
    BY DEF RustNamesAreDistinct
  <2>1. \A arg \in Args : arg.ident \notin Forbidden
    BY DEF Args, CallInv
  <2> QED  BY <2>1 DEF CallInv, RustNamesAreDistinct, Forbidden
<1> QED  BY <1>1, CallInvariance, PTL

\* While addresses are rewritten within their packages, a datatype found is the one its
\* source means and is passed as the chain takes it (render_type_ref, is_object_type).
THEOREM ChainTakes ==
  ASSUME RewritingsKeepPackages
  PROVE  Spec => []ArgumentsAreWhatTheChainTakes
<1>1. PackageInv /\ ExternalInv /\ CallInv => ArgumentsAreWhatTheChainTakes
  <2> SUFFICES ASSUME PackageInv, ExternalInv, CallInv,
                      NEW arg \in Args, IsDatatype(arg), arg.root # None
               PROVE  LET ty == SourceTypeOf(arg) IN
                      /\ arg.object = defs[ty.id].key
                      /\ arg.mutable = (defs[ty.id].key /\ ty.mutable)
                      /\ \/ arg.root = Own /\ ty.id.package = generated.package
                         \/ \E r \in registered : /\ r.package = ty.id.package
                                                 /\ r.root = arg.root
                                                 /\ r.version >= defs[ty.id].origin
    BY DEF ArgumentsAreWhatTheChainTakes
  <2>1. call # None /\ package # None
    BY DEF Args, PackageInv, TypeInv, Rendering
  <2> DEFINE f == Functions[at]
             i == arg.position
             ty == package.functions[f][i].ty
  <2>2. f \in DOMAIN package.functions /\ Describes(arg, package.functions[f])
    BY <2>1 DEF Args, CallInv
  <2>3. /\ i \in DOMAIN package.functions[f]
        /\ arg.root = PathRoot(ty, package, external)
        /\ arg.object = is_object_type(ty, package, external)
        /\ arg.mutable = (arg.object /\ ty.mutable)
    BY <2>2 DEF Describes
  <2>4. Signature[f].parameters[i].type = "Datatype"
    BY DEF IsDatatype, SourceTypeOf
  <2>5. ty = package.functions[f][i].ty
    OBVIOUS
  <2> HIDE DEF f, i, ty
  <2>6. LET source == Signature[f].parameters[i] IN
        /\ is_object_type(ty, package, external) = defs[source.id].key
        /\ ty.mutable = source.mutable
        /\ \/ /\ PathRoot(ty, package, external) = Own
              /\ source.id.package = generated.package
           \/ \E r \in registered : /\ r.package = source.id.package
                                   /\ r.root = PathRoot(ty, package, external)
                                   /\ r.version >= defs[source.id].origin
    BY <2>1, <2>2, <2>3, <2>4, <2>5, FoundArgument
  <2> QED  BY <2>3, <2>6 DEF SourceTypeOf, f, i
<1> QED  BY <1>1, CallInvariance, PTL

\* While addresses are rewritten to first versions only, what a registered interface has
\* and what the package has since its first or its present version is found
\* (external_type_names, is_local_type).
THEOREM KnownFound ==
  ASSUME RewritingsToFirst
  PROVE  Spec => []KnownDatatypesAreFound
<1>1. PackageInv /\ ExternalInv /\ CallInv => KnownDatatypesAreFound
  <2> SUFFICES ASSUME PackageInv, ExternalInv, CallInv,
                      NEW arg \in Args, IsDatatype(arg), arg.root = None
               PROVE  LET id == SourceTypeOf(arg).id IN
                      /\ id.package = generated.package =>
                           defs[id].origin \notin {1, generated.version}
                      /\ \A r \in registered : r.package = id.package =>
                           r.version < defs[id].origin
    BY DEF KnownDatatypesAreFound
  <2>1. call # None /\ package # None
    BY DEF Args, PackageInv, TypeInv, Rendering
  <2> DEFINE f == Functions[at]
             i == arg.position
             ty == package.functions[f][i].ty
  <2>2. f \in DOMAIN package.functions /\ Describes(arg, package.functions[f])
    BY <2>1 DEF Args, CallInv
  <2>3. i \in DOMAIN package.functions[f] /\ PathRoot(ty, package, external) = None
    BY <2>2 DEF Describes
  <2>4. Signature[f].parameters[i].type = "Datatype"
    BY DEF IsDatatype, SourceTypeOf
  <2>5. ty = package.functions[f][i].ty
    OBVIOUS
  <2> HIDE DEF f, i, ty
  <2>6. LET id == Signature[f].parameters[i].id IN
        /\ id.package = generated.package => defs[id].origin \notin {1, generated.version}
        /\ \A r \in registered : r.package = id.package => r.version < defs[id].origin
    BY <2>1, <2>2, <2>3, <2>4, <2>5, KnownArgument
  <2> QED  BY <2>6 DEF SourceTypeOf, f, i
<1> QED  BY <1>1, CallInvariance, PTL

-----------------------------------------------------------------------------
(* Names of parameters *)

\* A file some directory has lists these names for f.
Listed(f, list) ==
  \E directory \in Directories : \E file \in directory :
    file.readable /\ f \in DOMAIN file.names /\ file.names[f] = list

\* The name of a parameter of f comes from the network or from such a list.
NamedBySource(f, parameters, i) ==
  \/ parameters[i].name = Arg(i)
  \/ \E directory \in Directories : \E file \in directory :
       /\ file.readable /\ f \in DOMAIN file.names
       /\ Len(file.names[f]) = Len(parameters)
       /\ file.names[f][i] = parameters[i].name

NamesInv ==
  /\ \A f \in DOMAIN names : Listed(f, names[f])
  /\ NamesComeFromTheirSource

LEMMA NamedParameters ==
  NamesComeFromTheirSource <=>
    (package # None =>
       \A f \in DOMAIN package.functions : \A i \in DOMAIN package.functions[f] :
         NamedBySource(f, package.functions[f], i))
BY DEF NamesComeFromTheirSource, NamedBySource

LEMMA FetchNames ==
  ASSUME PackageInv, NamesInv, FetchPackage
  PROVE  NamesInv'
<1>1. PICK p, v : /\ p \in Packages /\ v \in 1..head[p]
                  /\ package' = normalize_package(p, v, defs, since)
  BY DEF FetchPackage
<1>2. UNCHANGED names
  BY DEF FetchPackage, reading
<1>3. /\ DOMAIN package'.functions = Callable(p, v)
      /\ \A f \in Callable(p, v) : package'.functions[f] = normalize_function(f, defs)
  BY <1>1, NormalPackageFacts DEF PackageInv
<1>4. ASSUME NEW f \in DOMAIN package'.functions, NEW i \in DOMAIN package'.functions[f]
      PROVE  package'.functions[f][i].name = Arg(i)
  <2>1. package'.functions[f] = normalize_function(f, defs)
    BY <1>3
  <2> QED  BY <2>1 DEF normalize_function
<1>5. NamesComeFromTheirSource'
  BY <1>4 DEF NamesComeFromTheirSource
<1> QED  BY <1>2, <1>5 DEF NamesInv, Listed

LEMMA ReplacedNames ==
  ASSUME PackageInv, NamesInv, ReplaceAddresses
  PROVE  NamesInv'
<1>1. PICK r \in Replacements : package' = Replaced(package, r)
  BY DEF ReplaceAddresses
<1>2. UNCHANGED names /\ package # None
  BY DEF ReplaceAddresses, reading
<1>3. package \in NormalizedPackage /\ MapsAddresses(r)
  BY <1>2, ReplacementsMapAddresses DEF PackageInv, TypeInv
<1>4. /\ DOMAIN package'.functions = DOMAIN package.functions
      /\ \A f \in DOMAIN package.functions :
           package'.functions[f] = ReplacedParameters(package.functions[f], r)
  BY <1>1, <1>3, ReplacedFacts
<1>5. ASSUME NEW f \in DOMAIN package'.functions, NEW i \in DOMAIN package'.functions[f]
      PROVE  NamedBySource(f, package'.functions[f], i)
  <2> DEFINE parameters == package.functions[f]
  <2>1. parameters \in Seq(FunctionParam)
    BY <1>3, <1>4, PackageFacts
  <2>2. /\ Len(package'.functions[f]) = Len(parameters)
        /\ i \in DOMAIN parameters
        /\ package'.functions[f][i].name = parameters[i].name
    BY <1>3, <1>4, <2>1, ReplacedParametersFacts
  <2>3. NamedBySource(f, parameters, i)
    BY <1>2, <1>4, <2>2, NamedParameters DEF NamesInv
  <2> QED  BY <2>2, <2>3 DEF NamedBySource
<1>6. NamesComeFromTheirSource'
  BY <1>5 DEF NamesComeFromTheirSource, NamedBySource
<1> QED  BY <1>2, <1>6 DEF NamesInv, Listed

LEMMA OverlayNames ==
  ASSUME PackageInv, NamesInv, OverlayFunction
  PROVE  NamesInv'
<1>1. package # None /\ package \in NormalizedPackage
  BY DEF OverlayFunction, PackageInv, TypeInv
<1> DEFINE f == Functions[at]
<1>2. CASE UNCHANGED package /\ (UNCHANGED names \/ names' = <<>>)
  BY <1>2 DEF NamesInv, NamesComeFromTheirSource, Listed
<1>3. CASE /\ f \in DOMAIN package.functions \cap DOMAIN names /\ ~Mismatch(f)
           /\ package' = [package EXCEPT !.functions[f] = Overlay(@, names[f])]
           /\ UNCHANGED names
  <2> DEFINE parameters == package.functions[f]
             named == Overlay(parameters, names[f])
  <2>1. parameters \in Seq(FunctionParam) /\ names[f] \in Seq(Name)
    BY <1>1, <1>3, PackageFacts DEF PackageInv, TypeInv
  <2>2. Len(names[f]) = Len(parameters)
    BY <1>3 DEF Mismatch
  <2>3. Listed(f, names[f])
    BY <1>3 DEF NamesInv
  <2>4. /\ named \in Seq(FunctionParam) /\ Len(named) = Len(parameters)
        /\ DOMAIN named = DOMAIN parameters
        /\ \A i \in DOMAIN parameters : \/ named[i].name = parameters[i].name
                                        \/ named[i].name = names[f][i]
    BY <2>1, OverlayFacts
  <2>5. package' = [package EXCEPT !.functions[f] = named]
    BY <1>3
  <2> HIDE DEF named
  <2>6. /\ DOMAIN package'.functions = DOMAIN package.functions
        /\ package'.functions[f] = named
        /\ \A g \in DOMAIN package.functions : g # f => package'.functions[g] = package.functions[g]
    <3>1. f \in DOMAIN package.functions
      BY <1>3
    <3> HIDE DEF f, parameters
    <3> QED  BY <1>1, <2>4, <2>5, <3>1, NamedPackageFacts
  <2>7. \A g \in DOMAIN package.functions : \A i \in DOMAIN package.functions[g] :
          NamedBySource(g, package.functions[g], i)
    BY <1>1, NamedParameters DEF NamesInv
  <2>8. ASSUME NEW i \in DOMAIN named
        PROVE  NamedBySource(f, named, i)
    <3>1. CASE named[i].name = parameters[i].name
      <4>1. NamedBySource(f, parameters, i)
        BY <1>3, <2>4, <2>7
      <4> QED  BY <2>4, <3>1, <4>1 DEF NamedBySource
    <3>2. CASE named[i].name = names[f][i]
      BY <2>2, <2>3, <2>4, <3>2 DEF NamedBySource, Listed
    <3> QED  BY <2>4, <3>1, <3>2
  <2> HIDE DEF f, parameters
  <2>9. \A g \in DOMAIN package'.functions : \A i \in DOMAIN package'.functions[g] :
          NamedBySource(g, package'.functions[g], i)
    BY <2>6, <2>7, <2>8
  <2>10. NamesComeFromTheirSource'
    BY <2>9 DEF NamesComeFromTheirSource, NamedBySource
  <2> QED  BY <1>3, <2>10 DEF NamesInv, Listed
<1> QED  BY <1>2, <1>3 DEF OverlayFunction

LEMMA ReadNames ==
  ASSUME PackageInv, NamesInv, ReadFile
  PROVE  NamesInv'
<1>1. UNCHANGED package /\ phase = "reading"
  BY DEF ReadFile, interface
<1>2. PICK file \in files :
        IF file.readable
          THEN names' = [f \in DOMAIN names \cup DOMAIN file.names |->
                           IF f \in DOMAIN file.names THEN file.names[f] ELSE names[f]]
          ELSE names' = <<>>
  BY DEF ReadFile
<1>3. PICK directory \in Directories : file \in directory
  BY <1>1 DEF PackageInv, TypeInv
<1>4. ASSUME NEW f \in DOMAIN names' PROVE Listed(f, names'[f])
  <2>1. file.readable
    BY <1>2
  <2>2. CASE f \in DOMAIN file.names
    <3>1. names'[f] = file.names[f]
      BY <1>2, <2>1, <2>2
    <3> QED  BY <1>3, <2>1, <2>2, <3>1 DEF Listed
  <2>3. CASE f \notin DOMAIN file.names
    BY <1>2, <2>1, <2>3 DEF NamesInv
  <2> QED  BY <2>2, <2>3
<1> QED  BY <1>1, <1>4 DEF NamesInv, NamesComeFromTheirSource, Listed

LEMMA NamesStep == PackageInv /\ NamesInv /\ [Next]_vars => NamesInv'
<1> SUFFICES ASSUME PackageInv, NamesInv, [Next]_vars PROVE NamesInv'
  OBVIOUS
<1>1. CASE UNCHANGED package /\ (UNCHANGED names \/ names' = <<>>)
  BY <1>1 DEF NamesInv, NamesComeFromTheirSource, Listed
<1>2. CASE FetchPackage
  BY <1>2, FetchNames
<1>3. CASE ReplaceAddresses
  BY <1>3, ReplacedNames
<1>4. CASE OverlayFunction
  BY <1>4, OverlayNames
<1>5. CASE ReadFile
  BY <1>5, ReadNames
<1>6. CASE RenderStep
  <2>1. UNCHANGED package
    BY <1>6, RenderKeeps DEF PackageInv, interface
  <2>2. UNCHANGED names
    BY <1>6 DEF RenderStep, BeginRender, CopyDatatype, CopyPassEnds, BeginFunction,
                RenderParameter, FunctionEnds, RenderEnds, reading
  <2> QED  BY <1>1, <2>1, <2>2
<1>7. ASSUME NEW p \in Packages, Publish(p) PROVE NamesInv'
  BY <1>1, <1>7 DEF Publish, interface, reading
<1>8. CASE AddExternalPackage \/ ReadSources \/ AllRead \/ OverlayEnds \/ UNCHANGED vars
  BY <1>1, <1>8 DEF AddExternalPackage, ReadSources, AllRead, OverlayEnds, vars, interface, reading
<1> QED  BY <1>2, <1>3, <1>4, <1>5, <1>6, <1>7, <1>8 DEF Next, Caller, Generator, RenderStep

\* Whatever is read again, overlaid in part or rewritten, a parameter has the network's
\* name or one a source file with as many gives it (apply_function_parameter_names).
THEOREM NamesFromSources == Spec => []NamesComeFromTheirSource
<1>1. Init => NamesInv
  BY DEF Init, NamesInv, NamesComeFromTheirSource
<1>2. NamesInv => NamesComeFromTheirSource
  BY DEF NamesInv
<1> QED  BY <1>1, <1>2, NamesStep, PackageInvariance, PTL DEF Spec

-----------------------------------------------------------------------------
(* The Copy fixpoint *)

KeyOf(n) == local_type_key(package.datatypes[n].type_name, package)

HasShape(n) == datatype_has_rust_copy_shape(package.datatypes[n], package, copies)

\* The datatypes found Copy so far have the shape, and in a pass without a change those
\* passed that are not found do not have it; so the last pass leaves none out.
CopyInv ==
  /\ changed \in BOOLEAN
  /\ phase = "copy" \/ Rendering =>
       \A n \in Datatypes : KeyOf(n) \in copies => HasShape(n)
  /\ phase = "copy" /\ ~changed =>
       \A j \in DOMAIN Order :
         j < at /\ Order[j] \in Datatypes /\ HasShape(Order[j]) => KeyOf(Order[j]) \in copies
  /\ Rendering => \A n \in Datatypes : HasShape(n) => KeyOf(n) \in copies

\* The name of a datatype and its key have the name it is declared by.
LEMMA KeysDiffer ==
  ASSUME PackageInv, package # None, NEW n \in Datatypes, NEW m \in Datatypes, KeyOf(n) = KeyOf(m)
  PROVE  n = m
<1>1. PICK rho \in [Address -> Address] : RewritesBy(rho)
  BY DEF PackageInv, RewriteInv
<1>2. ASSUME NEW k \in Datatypes PROVE KeyOf(k).name = k
  <2> DEFINE id == [package |-> generated.package, name |-> k]
             dt == normalize_datatype(id, defs)
  <2>1. k \in Present(generated.package, generated.version)
    BY <1>1 DEF RewritesBy, Datatypes
  <2>2. id \in Id /\ Published(id, defs) /\ id.name = k
    BY <2>1 DEF PackageInv, TypeInv, Present, Id, Published
  <2>3. package.datatypes[k] = ReplacedDatatype(dt, rho)
    BY <1>1, <2>1 DEF RewritesBy
  <2> HIDE DEF id
  <2>4. dt \in Datatype /\ dt.type_name = DefiningName(id, defs)
    BY <2>2, NormalDatatypeTyped DEF PackageInv, normalize_datatype
  <2> HIDE DEF dt
  <2>5. DefiningName(id, defs) \in TypeNames /\ DefiningName(id, defs).name = k
    BY <2>2, NameTyped DEF PackageInv
  <2>6. MapsAddresses(rho)
    BY ReplacementsMapAddresses
  <2>7. package.datatypes[k].type_name = ReplacedName(DefiningName(id, defs), rho)
    BY <2>3, <2>4, <2>6, ReplacedDatatypeFacts
  <2>8. package.datatypes[k].type_name
          = [address |-> replace_address(DefiningName(id, defs).address, rho), name |-> k]
    BY <2>5, <2>6, <2>7, ReplacedNameFacts
  <2> QED  BY <2>8 DEF KeyOf, local_type_key
<1> QED  BY <1>2

\* More copies make no datatype less Copy.
LEMMA ShapesGrow ==
  ASSUME NEW dt, NEW q, NEW before, NEW after, before \subseteq after,
         datatype_has_rust_copy_shape(dt, q, before)
  PROVE  datatype_has_rust_copy_shape(dt, q, after)
BY DEF datatype_has_rust_copy_shape, type_has_rust_copy_shape

LEMMA CopyKeeps ==
  ASSUME PackageInv, CopyInv, CopyDatatype
  PROVE  CopyInv'
<1>1. /\ package # None /\ phase = "copy" /\ at <= Len(Order)
      /\ UNCHANGED <<package, phase>> /\ at' = at + 1 /\ at \in Nat
  BY DEF CopyDatatype, PackageInv, TypeInv, interface
<1>2. Order \in Seq(Names)
  BY BindingsAssumption
<1> DEFINE n == Order[at]
<1>3. CASE /\ n \in Datatypes /\ KeyOf(n) \notin copies /\ HasShape(n)
           /\ copies' = copies \cup {KeyOf(n)} /\ changed' = TRUE
  <2>1. \A m \in Datatypes : HasShape(m) => HasShape(m)'
    BY <1>1, <1>3, ShapesGrow DEF HasShape
  <2>2. ASSUME NEW m \in Datatypes', KeyOf(m)' \in copies' PROVE HasShape(m)'
    <3>1. m \in Datatypes /\ KeyOf(m)' = KeyOf(m)
      BY <1>1 DEF Datatypes, KeyOf
    <3>2. CASE KeyOf(m) \in copies
      BY <1>1, <2>1, <3>1, <3>2 DEF CopyInv
    <3>3. CASE KeyOf(m) = KeyOf(n)
      BY <1>1, <1>3, <2>1, <3>1, <3>3, KeysDiffer
    <3> QED  BY <1>3, <2>2, <3>1, <3>2, <3>3
  <2> QED  BY <1>1, <1>3, <2>2 DEF CopyInv, Rendering
<1>4. CASE ~ (n \in Datatypes /\ KeyOf(n) \notin copies /\ HasShape(n)) /\ UNCHANGED fixpoint
  <2>1. \A m : /\ KeyOf(m)' = KeyOf(m) /\ HasShape(m)' = HasShape(m)
               /\ (m \in Datatypes)' <=> m \in Datatypes
    BY <1>1, <1>4 DEF KeyOf, HasShape, fixpoint, Datatypes
  <2>2. ASSUME ~changed, NEW j \in DOMAIN Order, j < at + 1, Order[j] \in Datatypes, HasShape(Order[j])
        PROVE  KeyOf(Order[j]) \in copies
    <3>1. CASE j < at
      BY <1>1, <2>2, <3>1 DEF CopyInv
    <3>2. CASE j = at
      BY <1>4, <2>2, <3>2
    <3> QED  BY <1>1, <1>2, <2>2, <3>1, <3>2
  <2> QED  BY <1>1, <1>4, <2>1, <2>2 DEF CopyInv, fixpoint, Rendering
<1> QED  BY <1>3, <1>4 DEF CopyDatatype, KeyOf, HasShape

LEMMA CopyPassKeeps ==
  ASSUME PackageInv, CopyInv, CopyPassEnds
  PROVE  CopyInv'
<1>1. /\ phase = "copy" /\ at > Len(Order) /\ at \in Nat /\ at' = 1
      /\ UNCHANGED <<package, copies>>
  BY DEF CopyPassEnds, PackageInv, TypeInv, interface
<1>2. \A m : /\ KeyOf(m)' = KeyOf(m) /\ HasShape(m)' = HasShape(m)
             /\ (m \in Datatypes)' <=> m \in Datatypes
  BY <1>1 DEF KeyOf, HasShape, Datatypes
<1>3. Order \in Seq(Names) /\ \A n \in Names : \E j \in DOMAIN Order : Order[j] = n
  BY BindingsAssumption
<1>4. CASE changed
  <2>1. changed' = FALSE /\ phase' = phase
    BY <1>4 DEF CopyPassEnds, NextPass
  <2>2. \A j \in DOMAIN Order : ~ (j < at')
    BY <1>1, <1>3
  <2> QED  BY <1>1, <1>2, <2>1, <2>2 DEF CopyInv, Rendering
<1>5. CASE ~changed
  <2>1. changed' = changed /\ phase' = "calls"
    BY <1>5 DEF CopyPassEnds, NextPass
  <2>2. ASSUME NEW n \in Datatypes, HasShape(n) PROVE KeyOf(n) \in copies
    <3>1. n \in Names
      <4>1. package \in NormalizedPackage
        BY <1>1 DEF PackageInv, TypeInv
      <4> QED  BY <4>1, PackageFacts DEF Datatypes
    <3>2. PICK j \in DOMAIN Order : Order[j] = n
      BY <1>3, <3>1
    <3>3. j < at
      BY <1>1, <1>3
    <3> QED  BY <1>1, <1>5, <2>2, <3>2, <3>3 DEF CopyInv
  <2> QED  BY <1>1, <1>2, <2>1, <2>2 DEF CopyInv, Rendering
<1> QED  BY <1>4, <1>5

LEMMA CopyStep == PackageInv /\ CopyInv /\ [Next]_vars => CopyInv'
<1> SUFFICES ASSUME PackageInv, CopyInv, [Next]_vars PROVE CopyInv'
  OBVIOUS
<1>1. CASE UNCHANGED <<package, fixpoint, phase, at>>
  <2>1. \A m : /\ KeyOf(m)' = KeyOf(m) /\ HasShape(m)' = HasShape(m)
               /\ (m \in Datatypes)' <=> m \in Datatypes
    BY <1>1 DEF KeyOf, HasShape, fixpoint, Datatypes
  <2> QED  BY <1>1, <2>1 DEF CopyInv, Rendering, fixpoint
<1>2. CASE changed' \in BOOLEAN /\ phase' \notin {"copy", "calls", "tx_ext"}
  BY <1>2 DEF CopyInv, Rendering
<1>3. CASE Rendering /\ Rendering' /\ UNCHANGED <<package, fixpoint>>
  <2>1. \A m : /\ KeyOf(m)' = KeyOf(m) /\ HasShape(m)' = HasShape(m)
               /\ (m \in Datatypes)' <=> m \in Datatypes
    BY <1>3 DEF KeyOf, HasShape, fixpoint, Datatypes
  <2> QED  BY <1>3, <2>1 DEF CopyInv, Rendering, fixpoint
<1>4. CASE BeginRender
  <2>1. /\ phase' = "copy" /\ at' = 1 /\ changed' = FALSE /\ copies' = {}
    BY <1>4 DEF BeginRender
  <2>2. \A j \in DOMAIN Order : ~ (j < at')
    BY <2>1, BindingsAssumption
  <2> QED  BY <2>1, <2>2 DEF CopyInv, Rendering
<1>5. CASE CopyDatatype
  BY <1>5, CopyKeeps
<1>6. CASE CopyPassEnds
  BY <1>6, CopyPassKeeps
<1>7. CASE BeginFunction \/ RenderParameter \/ FunctionEnds
  BY <1>3, <1>7 DEF BeginFunction, RenderParameter, FunctionEnds, Rendering, interface
<1>8. CASE RenderEnds
  <2>1. /\ Rendering /\ UNCHANGED <<package, changed>>
        /\ (phase' = "tx_ext" /\ UNCHANGED copies) \/ phase' = "idle"
    BY <1>8 DEF RenderEnds, interface
  <2> QED  BY <1>2, <1>3, <2>1 DEF CopyInv, Rendering, fixpoint
<1>9. ASSUME NEW p \in Packages, Publish(p) PROVE CopyInv'
  BY <1>2, <1>9 DEF Publish, fixpoint, CopyInv
<1>10. CASE \/ AddExternalPackage \/ FetchPackage \/ ReplaceAddresses \/ ReadSources
            \/ ReadFile \/ AllRead \/ OverlayFunction \/ OverlayEnds
  <2>1. UNCHANGED fixpoint /\ phase' \notin {"copy", "calls", "tx_ext"}
    BY <1>10 DEF AddExternalPackage, FetchPackage, ReplaceAddresses, ReadSources, ReadFile,
                 AllRead, OverlayFunction, OverlayEnds
  <2> QED  BY <1>2, <2>1 DEF CopyInv, fixpoint
<1>11. CASE UNCHANGED vars
  BY <1>1, <1>11 DEF vars, interface
<1> QED  BY <1>4, <1>5, <1>6, <1>7, <1>8, <1>9, <1>10, <1>11 DEF Next, Caller, Generator

\* A field has the shape if it is a scalar or a datatype found in the package and Copy.
LEMMA FieldShape ==
  ASSUME PackageInv, package # None, RewritingsKeepPackages,
         NEW rho \in [Address -> Address], Allowed(rho), RewritesBy(rho),
         NEW n \in Datatypes,
         NEW s \in defs[[package |-> generated.package, name |-> n]].fields,
         NEW ty, ty = ReplacedType(normalize_type(s, defs), rho)
  PROVE  /\ s \in FieldType
         /\ s.type = "Scalar" => type_has_rust_copy_shape(ty, package, copies)
         /\ s = Vector => ~type_has_rust_copy_shape(ty, package, copies)
         /\ s.type = "Datatype" =>
              (type_has_rust_copy_shape(ty, package, copies) <=>
                 /\ s.id.package = generated.package
                 /\ KeyOf(s.id.name) \in copies
                 /\ is_local_type(package.datatypes[s.id.name].type_name, package))
<1> DEFINE owner == [package |-> generated.package, name |-> n]
<1>1. n \in Present(generated.package, generated.version)
  BY DEF RewritesBy, Datatypes
<1>2. /\ owner \in Id /\ Published(owner, defs) /\ owner.package = generated.package
      /\ defs[owner].origin \in 1..generated.version
  BY <1>1 DEF PackageInv, TypeInv, Present, Id, Published
<1>3. s \in defs[owner].fields
  OBVIOUS
<1> HIDE DEF owner
<1>4. defs[owner] \in Definition
  BY <1>2 DEF PackageInv, ChainInv, Published
<1>5. s \in FieldType
  BY <1>3, <1>4, DefinitionFacts
<1>6. CASE s.type # "Datatype"
  <2>1. ty = s
    <3>1. s \in {Scalar, Vector}
      BY <1>5, <1>6 DEF FieldType, DatatypeRef
    <3>2. normalize_type(s, defs) = s
      BY <1>6 DEF normalize_type
    <3> QED  BY <1>6, <3>1, <3>2 DEF ReplacedType
  <2> QED  BY <1>5, <1>6, <2>1 DEF type_has_rust_copy_shape, Vector
<1>7. CASE s.type = "Datatype"
  <2> DEFINE id == s.id
             t == ReplacedName(DefiningName(id, defs), rho)
  <2>1. id \in References(defs[owner].fields)
    BY <1>3, <1>7 DEF References
  <2>2. id \in Id
    BY <1>4, <2>1, DefinitionFacts
  <2>3. /\ Published(id, defs)
        /\ id.package = generated.package => defs[id].origin <= defs[owner].origin
    BY <1>2, <2>1 DEF PackageInv, ChainInv
  <2>4. id.package = generated.package => defs[id].origin <= generated.version
    <3>1. defs[id] \in Definition
      BY <2>2, <2>3 DEF PackageInv, ChainInv, Published
    <3>2. /\ defs[id].origin \in Nat /\ defs[owner].origin \in Nat /\ generated.version \in Nat
          /\ defs[owner].origin <= generated.version
      BY <1>2, <1>4, <3>1, DefinitionFacts DEF PackageInv, TypeInv
    <3> QED  BY <2>3, <3>2
  <2>5. normalize_type(s, defs)
          = [type |-> "Datatype", mutable |-> s.mutable, type_name |-> DefiningName(id, defs)]
    BY <1>7 DEF normalize_type
  <2>6. ty.type = "Datatype" /\ ty.type_name = t
    <3>1. normalize_type(s, defs) \in TypeRef
      BY <1>5, <2>3, NormalTypeTyped DEF PackageInv
    <3>2. MapsAddresses(rho)
      BY ReplacementsMapAddresses
    <3>3. ty = [type |-> "Datatype", mutable |-> s.mutable, type_name |-> t]
      BY <2>5, <3>1, <3>2, ReplacedTypeFacts
    <3> QED  BY <3>3
  <2>7. t = ReplacedName(DefiningName(id, defs), rho)
    OBVIOUS
  <2>8. s.id = id
    OBVIOUS
  <2> HIDE DEF id, t
  <2>9. id.package = generated.package =>
          id.name \in DOMAIN package.datatypes /\ package.datatypes[id.name].type_name = t
    <3> SUFFICES ASSUME id.package = generated.package
                 PROVE  /\ id.name \in DOMAIN package.datatypes
                        /\ package.datatypes[id.name].type_name = t
      OBVIOUS
    <3> QED  BY <2>2, <2>3, <2>4, <2>7, NameFound
  <2>10. is_local_type(t, package) => id.package = generated.package
    BY <2>2, <2>3, <2>7, LocalNames
  <2>11. type_has_rust_copy_shape(ty, package, copies)
           <=> is_local_type(t, package) /\ local_type_key(t, package) \in copies
    BY <2>6 DEF type_has_rust_copy_shape
  <2> QED  BY <1>5, <1>7, <2>8, <2>9, <2>10, <2>11 DEF KeyOf, Vector
<1> QED  BY <1>6, <1>7

\* While addresses are rewritten within their packages, the datatypes that derive Copy are
\* exactly those that can: none that would not compile, none left out because it came
\* before what it holds (rust_copy_type_keys).
THEOREM CopyIsExact ==
  ASSUME RewritingsKeepPackages
  PROVE  Spec => []CopiesAreExact
<1>1. PackageInv /\ CopyInv => CopiesAreExact
  <2> SUFFICES ASSUME PackageInv, CopyInv, Rendering, NEW n \in Datatypes
               PROVE  LET def == defs[[package |-> generated.package, name |-> n]]
                          local(id) == is_local_type(package.datatypes[id.name].type_name, package)
                          IsCopy(id) ==
                            /\ id.package = generated.package
                            /\ local_type_key(package.datatypes[id.name].type_name, package) \in copies
                      IN  IsCopy([package |-> generated.package, name |-> n])
                            = (/\ def.copy /\ ~def.generic /\ Vector \notin def.fields
                               /\ \A id \in References(def.fields) : IsCopy(id) /\ local(id))
    BY DEF CopiesAreExact
  <2>1. package # None
    BY DEF PackageInv, TypeInv, Rendering
  <2>2. PICK rho \in [Address -> Address] : Allowed(rho) /\ RewritesBy(rho)
    BY <2>1 DEF PackageInv, RewriteInv
  <2> DEFINE owner == [package |-> generated.package, name |-> n]
             def == defs[owner]
             Shaped(id) == /\ id.package = generated.package
                           /\ KeyOf(id.name) \in copies
                           /\ is_local_type(package.datatypes[id.name].type_name, package)
  <2>3. KeyOf(n) \in copies <=> HasShape(n)
    BY DEF CopyInv
  <2>4. /\ owner \in Id /\ Published(owner, defs)
        /\ package.datatypes[n] = ReplacedDatatype(normalize_datatype(owner, defs), rho)
    <3>1. n \in Present(generated.package, generated.version)
      BY <2>2 DEF RewritesBy, Datatypes
    <3> QED  BY <2>1, <2>2, <3>1 DEF PackageInv, TypeInv, Present, Id, Published, RewritesBy
  <2>5. /\ package.datatypes[n].copy = def.copy /\ package.datatypes[n].generic = def.generic
        /\ package.datatypes[n].fields
             = {ReplacedType(ty, rho) : ty \in {normalize_type(s, defs) : s \in def.fields}}
    <3>1. normalize_datatype(owner, defs) \in Datatype
      BY <2>4, NormalDatatypeTyped DEF PackageInv
    <3>2. MapsAddresses(rho)
      BY ReplacementsMapAddresses
    <3>3. /\ normalize_datatype(owner, defs).copy = def.copy
          /\ normalize_datatype(owner, defs).generic = def.generic
          /\ normalize_datatype(owner, defs).fields = {normalize_type(s, defs) : s \in def.fields}
      BY DEF normalize_datatype
    <3> HIDE DEF owner
    <3> QED  BY <2>4, <3>1, <3>2, <3>3, ReplacedDatatypeFacts
  <2> DEFINE shaped(s) == type_has_rust_copy_shape(ReplacedType(normalize_type(s, defs), rho),
                                                   package, copies)
  <2>6. HasShape(n) <=> def.copy /\ ~def.generic /\ \A s \in def.fields : shaped(s)
    BY <2>5 DEF HasShape, datatype_has_rust_copy_shape
  <2>7. \A s \in def.fields : /\ s \in FieldType
                              /\ s.type = "Scalar" => shaped(s)
                              /\ s = Vector => ~shaped(s)
                              /\ s.type = "Datatype" => (shaped(s) <=> Shaped(s.id))
    BY <2>1, <2>2, FieldShape
  <2> HIDE DEF shaped, Shaped, def
  <2>8. (\A s \in def.fields : shaped(s))
          <=> Vector \notin def.fields /\ \A id \in References(def.fields) : Shaped(id)
    <3>1. ASSUME \A s \in def.fields : shaped(s)
          PROVE  Vector \notin def.fields /\ \A id \in References(def.fields) : Shaped(id)
      BY <2>7, <3>1 DEF References
    <3>2. ASSUME Vector \notin def.fields, \A id \in References(def.fields) : Shaped(id),
                 NEW s \in def.fields
          PROVE  shaped(s)
      <4>1. CASE s.type = "Datatype"
        BY <2>7, <3>2, <4>1 DEF References
      <4>2. CASE s.type # "Datatype"
        <5>1. s = Scalar
          BY <2>7, <3>2, <4>2 DEF FieldType, DatatypeRef
        <5> QED  BY <2>7, <5>1 DEF Scalar
      <4> QED  BY <4>1, <4>2
    <3> QED  BY <3>1, <3>2
  <2>9. KeyOf(n) \in copies
          <=> /\ def.copy /\ ~def.generic /\ Vector \notin def.fields
              /\ \A id \in References(def.fields) : Shaped(id)
    BY <2>3, <2>6, <2>8
  <2> QED  BY <2>9 DEF Shaped, KeyOf, def
<1>2. Init => CopyInv
  BY DEF Init, CopyInv, Rendering
<1> QED  BY <1>1, <1>2, CopyStep, PackageInvariance, PTL DEF Spec

=============================================================================
