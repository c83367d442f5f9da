----------------------------- MODULE PtbProofs ------------------------------
(***************************************************************************)
(* Proofs about PtbBuilder, for any set of objects, requests and specs and *)
(* any largest index.                                                      *)
(***************************************************************************)
EXTENDS PtbBuilder, FiniteSetTheorems, WellFoundedInduction, TLAPS

USE CallArgAssumption, BuilderAssumption

-----------------------------------------------------------------------------
(* Inputs and their order *)

LEMMA CoversReflexive ==
  ASSUME NEW input \in CallArg
  PROVE  Covers(input, input)
BY DEF Covers, SameObject, CallArg, ObjectArg, SharedArg, ReferenceArg, PureArg, WithdrawalArg,
       Strength, Mutability

LEMMA CoversTransitive ==
  ASSUME NEW a \in CallArg, NEW b \in CallArg, NEW c \in CallArg,
         Covers(a, b), Covers(b, c)
  PROVE  Covers(a, c)
<1>1. SameObject(a, c)
  BY DEF Covers, SameObject
<1>2. CASE a.kind = "Shared"
  <2>1. b.kind = "Shared"
    BY <1>2 DEF Covers, SameObject
  <2>2. c.kind = "Shared"
    BY <2>1 DEF Covers, SameObject
  <2>3. /\ Strength(a.mutability) \in Nat
        /\ Strength(b.mutability) \in Nat
        /\ Strength(c.mutability) \in Nat
    BY <1>2, <2>1, <2>2 DEF Strength, CallArg, ObjectArg, SharedArg, ReferenceArg, PureArg,
                            WithdrawalArg, Mutability
  <2> QED  BY <1>1, <1>2, <2>1, <2>3 DEF Covers
<1>3. CASE a.kind # "Shared"
  BY <1>1, <1>3 DEF Covers
<1> QED  BY <1>2, <1>3

\* What an entry of the table covers is the same kind of input, of the same object.
LEMMA CoversKeepsObject ==
  ASSUME NEW a \in CallArg, NEW b \in CallArg, Covers(a, b)
  PROVE  a.kind = b.kind /\ ObjectId(a) = ObjectId(b)
BY DEF Covers, SameObject, ObjectId

LEMMA ObjectIdFacts ==
  ASSUME NEW input \in CallArg
  PROVE  /\ input \in ObjectArg => ObjectId(input) \in ObjectIds /\ ObjectId(input) # None
         /\ ObjectId(input) # None => input \in ObjectArg
         /\ input \in ObjectArg <=> input.kind \in {"Shared", "ImmutableOrOwned", "Receiving"}
         /\ input.kind \in {"Shared", "ImmutableOrOwned", "Receiving", "Pure", "FundsWithdrawal"}
BY DEF ObjectId, CallArg, ObjectArg, SharedArg, ReferenceArg, PureArg, WithdrawalArg

\* A shared request raises the entry of its object to the stronger of the two.
LEMMA UpgradeFacts ==
  ASSUME NEW existing \in CallArg, NEW request \in CallArg,
         Unified(existing, request), ObjectId(existing) = ObjectId(request)
  PROVE  LET entry == [existing EXCEPT !.mutability = Upgrade(@, request.mutability)] IN
         /\ entry \in CallArg
         /\ entry = existing \/ entry = request
         /\ Covers(entry, existing)
         /\ Covers(entry, request)
<1> DEFINE entry == [existing EXCEPT !.mutability = Upgrade(@, request.mutability)]
<1>1. /\ existing \in SharedArg
      /\ request \in SharedArg
      /\ existing.id = request.id /\ existing.version = request.version
  BY DEF Unified, ObjectId, CallArg, ObjectArg, SharedArg, ReferenceArg, PureArg, WithdrawalArg
<1>2. /\ Upgrade(existing.mutability, request.mutability) \in {existing.mutability, request.mutability}
      /\ Strength(Upgrade(existing.mutability, request.mutability)) >= Strength(existing.mutability)
      /\ Strength(Upgrade(existing.mutability, request.mutability)) >= Strength(request.mutability)
  BY <1>1 DEF Upgrade, Strength, SharedArg, Mutability
<1>3. entry \in SharedArg /\ entry.mutability = Upgrade(existing.mutability, request.mutability)
      /\ entry.id = existing.id /\ entry.version = existing.version /\ entry.kind = "Shared"
  BY <1>1, <1>2 DEF SharedArg
<1>4. entry = existing \/ entry = request
  BY <1>1, <1>2, <1>3 DEF SharedArg
<1>5. existing.kind = "Shared" /\ request.kind = "Shared"
  BY <1>1 DEF SharedArg
<1> HIDE DEF entry
<1>6. Covers(entry, existing) /\ Covers(entry, request)
  BY <1>1, <1>2, <1>3, <1>5 DEF Covers, SameObject
<1>7. entry \in CallArg
  BY <1>3 DEF CallArg, ObjectArg
<1> QED  BY <1>4, <1>6, <1>7 DEF entry

\* A set of natural numbers with a member has a least one.
LEMMA SmallestExists ==
  ASSUME NEW entries \in SUBSET Nat, entries # {}
  PROVE  \E i \in entries : \A j \in entries : i <= j
<1>1. IsWellFoundedOn(OpToRel(<, Nat), Nat)
  BY NatLessThanWellFounded
<1>2. PICK i \in entries : \A j \in entries : <<j, i>> \notin OpToRel(<, Nat)
  BY <1>1, WFMin
<1>3. \A j \in entries : ~(j < i)
  BY <1>2 DEF OpToRel
<1> QED  BY <1>3

\* The first of some positions of a table is one of them.
LEMMA FirstIsMember ==
  ASSUME NEW table \in Seq(CallArg), NEW entries \in SUBSET DOMAIN table, entries # {}
  PROVE  First(entries) \in entries
<1>1. entries \subseteq Nat
  OBVIOUS
<1>2. \E i \in entries : \A j \in entries : i <= j
  BY <1>1, SmallestExists
<1> QED  BY <1>2 DEF First
-----------------------------------------------------------------------------
(* The input table *)

Distinct(table) ==
  \A i, j \in DOMAIN table : i # j =>
    /\ table[i] \in ObjectArg => ObjectId(table[i]) # ObjectId(table[j])
    /\ table[i] = table[j] => table[i].kind = "FundsWithdrawal"

TableOK(table) ==
  /\ table \in Seq(CallArg) /\ Len(table) <= MaxInput + 1
  /\ Distinct(table)

\* What pushing a request does to a table: it stays a table without duplicates, entries
\* stay where they are and lose no access, the index it returns has the request, and an
\* entry is new or changed only as the request itself.
PushedWell(table, request, pushed) ==
  /\ TableOK(pushed.inputs)
  /\ Len(table) <= Len(pushed.inputs)
  /\ \A i \in DOMAIN table : Covers(pushed.inputs[i], table[i])
  /\ pushed.error = None =>
       /\ pushed.index \in 0..MaxInput
       /\ pushed.index < Len(pushed.inputs)
       /\ Covers(pushed.inputs[pushed.index + 1], request)
  /\ \A i \in DOMAIN pushed.inputs :
       \/ i \in DOMAIN table /\ pushed.inputs[i] = table[i]
       \/ pushed.error = None /\ pushed.index = i - 1 /\ pushed.inputs[i] = request

LEMMA RefusedWell ==
  ASSUME NEW table, TableOK(table), NEW request \in CallArg,
         NEW error \in {"TooManyInputs", "DuplicateObjectRefInput"}
  PROVE  PushedWell(table, request, Refused(table, error))
<1>1. \A i \in DOMAIN table : table[i] \in CallArg
  BY DEF TableOK
<1> QED  BY <1>1, CoversReflexive DEF PushedWell, Refused, TableOK

\* A request that is appended names no object of the table and repeats no entry, or it
\* is a withdrawal.
LEMMA AppendedWell ==
  ASSUME NEW table, TableOK(table), NEW request \in CallArg,
         \/ request.kind = "FundsWithdrawal"
         \/ /\ Identical(table, request) = {}
            /\ request \in ObjectArg => Naming(table, ObjectId(request)) = {}
  PROVE  PushedWell(table, request, Pushed(table, request))
<1>1. CASE Len(table) > MaxInput
  BY <1>1, RefusedWell DEF Pushed, TableOK
<1>2. CASE Len(table) <= MaxInput
  <2> DEFINE next == Append(table, request)
  <2>1. Pushed(table, request) = [inputs |-> next, index |-> Len(table), error |-> None]
    BY <1>2 DEF Pushed
  <2>2. /\ next \in Seq(CallArg)
        /\ Len(next) = Len(table) + 1 /\ Len(table) \in Nat
        /\ DOMAIN next = 1..(Len(table) + 1) /\ DOMAIN table = 1..Len(table)
        /\ next[Len(table) + 1] = request
        /\ \A i \in DOMAIN table : next[i] = table[i] /\ table[i] \in CallArg
    BY DEF TableOK
  <2> HIDE DEF next
  <2>3. \A i \in DOMAIN table :
          /\ request \in ObjectArg => ObjectId(table[i]) # ObjectId(request)
          /\ table[i] \in ObjectArg => ObjectId(table[i]) # ObjectId(request)
          /\ table[i] = request => request.kind = "FundsWithdrawal"
    <3> SUFFICES ASSUME NEW i \in DOMAIN table
                 PROVE  /\ request \in ObjectArg => ObjectId(table[i]) # ObjectId(request)
                        /\ table[i] \in ObjectArg => ObjectId(table[i]) # ObjectId(request)
                        /\ table[i] = request => request.kind = "FundsWithdrawal"
      OBVIOUS
    <3>1. table[i] = request => request.kind = "FundsWithdrawal"
      BY DEF Identical
    <3>2. request \in ObjectArg => ObjectId(table[i]) # ObjectId(request)
      <4>1. request.kind = "FundsWithdrawal" => request \notin ObjectArg
        BY ObjectIdFacts
      <4> QED  BY <4>1 DEF Naming
    <3>3. request \notin ObjectArg /\ table[i] \in ObjectArg => ObjectId(table[i]) # ObjectId(request)
      BY <2>2, ObjectIdFacts
    <3> QED  BY <3>1, <3>2, <3>3
  <2>4. Distinct(next)
    <3> SUFFICES ASSUME NEW i \in DOMAIN next, NEW j \in DOMAIN next, i # j
                 PROVE  /\ next[i] \in ObjectArg => ObjectId(next[i]) # ObjectId(next[j])
                        /\ next[i] = next[j] => next[i].kind = "FundsWithdrawal"
      BY DEF Distinct
    <3>1. CASE i \in DOMAIN table /\ j \in DOMAIN table
      BY <3>1, <2>2 DEF TableOK, Distinct
    <3>2. CASE i \in DOMAIN table /\ j = Len(table) + 1
      BY <3>2, <2>2, <2>3
    <3>3. CASE i = Len(table) + 1 /\ j \in DOMAIN table
      BY <3>3, <2>2, <2>3
    <3> QED  BY <2>2, <3>1, <3>2, <3>3
  <2>5. TableOK(next)
    BY <1>2, <2>2, <2>4 DEF TableOK
  <2>6. \A i \in DOMAIN table : Covers(next[i], table[i])
    BY <2>2, CoversReflexive
  <2>7. Covers(next[Len(table) + 1], request)
    BY <2>2, CoversReflexive
  <2>8. Len(table) \in 0..MaxInput /\ Len(table) < Len(next) /\ Len(table) <= Len(next)
    BY <1>2, <2>2
  <2>9. \A i \in DOMAIN next : \/ i \in DOMAIN table /\ next[i] = table[i]
                               \/ Len(table) = i - 1 /\ next[i] = request
    BY <2>2
  <2> QED  BY <2>1, <2>5, <2>6, <2>7, <2>8, <2>9 DEF PushedWell
<1>3. Len(table) \in Nat
  BY DEF TableOK
<1> QED  BY <1>1, <1>2, <1>3

LEMMA ReusedWell ==
  ASSUME NEW table, TableOK(table), NEW request \in CallArg,
         NEW i \in Identical(table, request)
  PROVE  PushedWell(table, request, Reused(table, i))
<1>1. /\ i \in DOMAIN table /\ table[i] = request
      /\ i \in 1..Len(table) /\ Len(table) \in Nat /\ Len(table) <= MaxInput + 1
      /\ \A j \in DOMAIN table : table[j] \in CallArg
  BY DEF Identical, TableOK
<1>2. Reused(table, i) = [inputs |-> table, index |-> i - 1, error |-> None]
  BY <1>1 DEF Reused
<1>3. i - 1 \in 0..MaxInput /\ i - 1 < Len(table) /\ i - 1 + 1 = i
  BY <1>1
<1>4. \A j \in DOMAIN table : Covers(table[j], table[j])
  BY <1>1, CoversReflexive
<1> QED  BY <1>1, <1>2, <1>3, <1>4 DEF PushedWell

LEMMA UpgradedWell ==
  ASSUME NEW table, TableOK(table), NEW request \in CallArg,
         NEW i \in DOMAIN table, request \in ObjectArg,
         ObjectId(table[i]) = ObjectId(request), Unified(table[i], request)
  PROVE  PushedWell(table, request,
           Reused([table EXCEPT ![i].mutability = Upgrade(@, request.mutability)], i))
<1> DEFINE entry == [table[i] EXCEPT !.mutability = Upgrade(@, request.mutability)]
           next == [table EXCEPT ![i] = entry]
<1>1. /\ i \in 1..Len(table) /\ Len(table) \in Nat /\ Len(table) <= MaxInput + 1
      /\ DOMAIN table = 1..Len(table)
      /\ \A j \in DOMAIN table : table[j] \in CallArg
  BY DEF TableOK
<1>2. /\ entry \in CallArg
      /\ entry = table[i] \/ entry = request
      /\ Covers(entry, table[i])
      /\ Covers(entry, request)
  BY <1>1, UpgradeFacts
<1>3. [table EXCEPT ![i].mutability = Upgrade(@, request.mutability)] = next
  BY <1>1
<1> HIDE DEF entry
<1>4. /\ next \in Seq(CallArg) /\ Len(next) = Len(table) /\ DOMAIN next = DOMAIN table
      /\ next[i] = entry
      /\ \A j \in DOMAIN table : j # i => next[j] = table[j]
  BY <1>1, <1>2 DEF TableOK
<1> HIDE DEF next
<1>5. Reused(next, i) = [inputs |-> next, index |-> i - 1, error |-> None]
  BY <1>1 DEF Reused
<1>6. i - 1 \in 0..MaxInput /\ i - 1 < Len(next) /\ i - 1 + 1 = i
  BY <1>1, <1>4
<1>7. \A j \in DOMAIN table : Covers(next[j], table[j])
  BY <1>1, <1>2, <1>4, CoversReflexive
<1>8. entry.kind = table[i].kind /\ ObjectId(entry) = ObjectId(table[i])
  BY <1>1, <1>2, CoversKeepsObject
<1>9. Distinct(next)
  <2> SUFFICES ASSUME NEW j \in DOMAIN next, NEW k \in DOMAIN next, j # k
               PROVE  /\ next[j] \in ObjectArg => ObjectId(next[j]) # ObjectId(next[k])
                      /\ next[j] = next[k] => next[j].kind = "FundsWithdrawal"
    BY DEF Distinct
  <2>1. \A l \in DOMAIN next : /\ ObjectId(next[l]) = ObjectId(table[l])
                               /\ next[l].kind = table[l].kind
                               /\ next[l] \in ObjectArg <=> table[l] \in ObjectArg
    BY <1>1, <1>2, <1>4, <1>8, ObjectIdFacts
  <2>2. next[j] \in ObjectArg => ObjectId(next[j]) # ObjectId(next[k])
    BY <1>4, <2>1 DEF TableOK, Distinct
  <2>3. next[j] \notin ObjectArg => next[j] = table[j]
    BY <1>4, <1>8, <1>1, <1>2, ObjectIdFacts DEF Unified
  <2>4. next[k] \notin ObjectArg => next[k] = table[k]
    BY <1>4, <1>8, <1>1, <1>2, ObjectIdFacts DEF Unified
  <2>5. next[j] = next[k] => next[j].kind = "FundsWithdrawal"
    BY <1>4, <2>1, <2>2, <2>3, <2>4 DEF TableOK, Distinct
  <2> QED  BY <2>2, <2>5
<1>10. TableOK(next)
  BY <1>1, <1>4, <1>9 DEF TableOK
<1>11. \A j \in DOMAIN next : \/ j \in DOMAIN table /\ next[j] = table[j]
                              \/ i - 1 = j - 1 /\ next[j] = request
  BY <1>1, <1>2, <1>4
<1>12. PushedWell(table, request, Reused(next, i))
  BY <1>1, <1>2, <1>4, <1>5, <1>6, <1>7, <1>10, <1>11 DEF PushedWell
<1> QED  BY <1>3, <1>12

\* push_input, for any request and any table without duplicates.
LEMMA PushInputWell ==
  ASSUME NEW table, TableOK(table), NEW request \in CallArg
  PROVE  PushedWell(table, request, PushInput(table, request))
<1>0. table \in Seq(CallArg)
  BY DEF TableOK
<1>1. CASE request.kind = "FundsWithdrawal"
  BY <1>1, AppendedWell DEF PushInput
<1>2. CASE request.kind # "FundsWithdrawal" /\ Identical(table, request) # {}
  <2>1. First(Identical(table, request)) \in Identical(table, request)
    BY <1>0, <1>2, FirstIsMember DEF Identical
  <2> QED  BY <1>2, <2>1, ReusedWell DEF PushInput
<1>3. CASE request.kind = "Pure" /\ Identical(table, request) = {}
  <2>1. request \notin ObjectArg
    BY <1>3, ObjectIdFacts
  <2> QED  BY <1>3, <2>1, AppendedWell DEF PushInput
<1>4. CASE request.kind \notin {"Pure", "FundsWithdrawal"} /\ Identical(table, request) = {}
  <2> DEFINE naming == Naming(table, ObjectId(request))
  <2>1. request \in ObjectArg /\ PushInput(table, request) = PushObject(table, request)
    BY <1>4, ObjectIdFacts DEF PushInput
  <2>2. CASE naming = {}
    BY <1>4, <2>1, <2>2, AppendedWell DEF PushObject
  <2>3. CASE naming # {}
    <3>1. First(naming) \in naming
      BY <1>0, <2>3, FirstIsMember DEF Naming
    <3>2. First(naming) \in DOMAIN table /\ ObjectId(table[First(naming)]) = ObjectId(request)
      BY <3>1 DEF Naming
    <3>3. CASE Unified(table[First(naming)], request)
      <4>1. PushObject(table, request)
              = Reused([table EXCEPT ![First(naming)].mutability = Upgrade(@, request.mutability)],
                       First(naming))
        BY <2>3, <3>3 DEF PushObject
      <4> HIDE DEF naming
      <4> QED  BY <2>1, <3>2, <3>3, <4>1, UpgradedWell
    <3>4. CASE ~Unified(table[First(naming)], request)
      <4>1. PushObject(table, request) = Refused(table, "DuplicateObjectRefInput")
        BY <2>3, <3>4 DEF PushObject
      <4> QED  BY <2>1, <4>1, RefusedWell
    <3> QED  BY <3>3, <3>4
  <2> QED  BY <2>2, <2>3
<1> QED  BY <1>1, <1>2, <1>3, <1>4
-----------------------------------------------------------------------------
(* Values and specs *)

LEMMA ToCallArgType ==
  ASSUME NEW value \in Value
  PROVE  ToCallArg(value) \in CallArg
<1>1. CASE value.type = "MoveType"
  BY <1>1 DEF ToCallArg, Value, CallArg, PureArg
<1>2. CASE value.type = "MoveObject"
  BY <1>2 DEF ToCallArg, Value, CallArg, ObjectArg, ReferenceArg
<1>3. CASE value.type = "ReceivingMoveObject"
  BY <1>3 DEF ToCallArg, Value, CallArg, ObjectArg, ReferenceArg
<1>4. CASE value.type = "SharedMoveObject"
  BY <1>4 DEF ToCallArg, Value, CallArg, ObjectArg, SharedArg
<1>5. CASE value.type = "CallArg"
  BY <1>5 DEF ToCallArg, Value
<1> QED  BY <1>1, <1>2, <1>3, <1>4, <1>5 DEF Value

\* A parameter that converts is given the input of its value, and a writable one if it
\* is a shared object taken by &mut.
LEMMA PushArgFacts ==
  ASSUME NEW parameter \in Parameter, PushArg(parameter) # None
  PROVE  /\ PushArg(parameter) = ToCallArg(parameter.value)
         /\ PushArg(parameter) \in CallArg
         /\ WellTyped(parameter) /\ parameter.mutable /\ PushArg(parameter).kind = "Shared" =>
              PushArg(parameter).mutability \in Writable
<1>1. parameter.value \in Value
  BY DEF Parameter
<1>2. PushArg(parameter) = ToCallArg(parameter.value)
  BY DEF PushArg, ToCallArgMutable
<1>3. PushArg(parameter) \in CallArg
  BY <1>1, <1>2, ToCallArgType
<1>4. ASSUME WellTyped(parameter), parameter.mutable, PushArg(parameter).kind = "Shared"
      PROVE  PushArg(parameter).mutability \in Writable
  <2>1. parameter.value.type \in {"MoveObject", "ReceivingMoveObject", "SharedMoveObject"}
    BY <1>1, <1>4 DEF WellTyped, Value
  <2>2. parameter.value.type = "SharedMoveObject"
    BY <1>2, <1>4, <2>1 DEF ToCallArg
  <2>3. parameter.value.mutability \in Writable
    BY <1>4, <2>2 DEF PushArg, ToCallArgMutable
  <2> QED  BY <1>2, <2>2, <2>3 DEF ToCallArg
<1> QED  BY <1>2, <1>3, <1>4

-----------------------------------------------------------------------------
(* The invariant *)

\* An index given for request.
Holds(argument, request) ==
  /\ argument.kind = "Input"
  /\ [request |-> request, index |-> argument.index] \in granted

\* The arguments of parameters allocated so far are given for what they convert to.
Allocated(parameters, arguments) ==
  \A i \in DOMAIN arguments \cap DOMAIN parameters :
    /\ PushArg(parameters[i]) # None
    /\ Holds(arguments[i], PushArg(parameters[i]))

Typed(parameters) ==
  parameters \in Seq(Parameter) /\ \A i \in DOMAIN parameters : WellTyped(parameters[i])

\* The call in progress: its parameters convert, its arguments are good so far.
CallInv ==
  call # None =>
    /\ Typed(call.parameters)
    /\ Converts(call.parameters)
    /\ Len(call.arguments) <= Len(call.parameters)
    /\ Allocated(call.parameters, call.arguments)
    /\ \A i \in DOMAIN call.arguments : call.arguments[i].index < Len(inputs)

\* The calls that were pushed have all their arguments.
CommandsInv ==
  \A k \in DOMAIN commands :
    /\ Typed(commands[k].parameters)
    /\ DOMAIN commands[k].parameters \subseteq DOMAIN commands[k].arguments
    /\ Allocated(commands[k].parameters, commands[k].arguments)

\* An argument that exists when there are length commands.
Refers(argument, length) ==
  /\ argument.kind = "Input" => argument.index < Len(inputs)
  /\ argument.kind \in {"Result", "NestedResult"} =>
       /\ argument.index < length
       /\ commands[argument.index + 1].kind \in WithResult

IssuedInv == \A argument \in issued : Refers(argument, Len(commands))

\* TypeOK and the three table invariants are inductive together; what the calls hold is
\* stated through granted, which only grows.
IInv ==
  /\ TypeOK
  /\ InputsAreDistinct
  /\ GrantsHold
  /\ AccessWasAskedFor
  /\ CallInv
  /\ CommandsInv
  /\ IssuedInv
  /\ ArgumentsReferBack

LEMMA DistinctInputs ==
  ASSUME TypeOK
  PROVE  InputsAreDistinct <=> TableOK(inputs)
<1>1. \A i \in DOMAIN inputs : inputs[i] \in CallArg
  BY DEF TypeOK
<1>2. \A i \in DOMAIN inputs :
        inputs[i] \in ObjectArg <=> inputs[i].kind \in {"Shared", "ImmutableOrOwned", "Receiving"}
  BY <1>1, ObjectIdFacts
<1> QED  BY <1>2 DEF TypeOK, TableOK, Distinct, InputsAreDistinct

LEMMA Initially ==
  ASSUME Init
  PROVE  IInv
<1> USE DEF Init
<1>1. TypeOK
  <2>1. Gas \in Argument
    BY DEF Gas, Argument
  <2>2. Len(inputs) <= MaxInput + 1 /\ Len(commands) <= MaxCommand + 1
    OBVIOUS
  <2>3. inputs \in Seq(CallArg) /\ commands \in Seq(Command)
    OBVIOUS
  <2> QED  BY <2>1, <2>2, <2>3 DEF TypeOK
<1>2. IssuedInv
  BY DEF IssuedInv, Refers, Gas
<1> QED  BY <1>1, <1>2 DEF IInv, InputsAreDistinct, GrantsHold, AccessWasAskedFor, CallInv,
                         CommandsInv, ArgumentsReferBack

\* What a step that pushes a request keeps and gains.
LEMMA GrantStep ==
  ASSUME IInv, NEW request \in CallArg, Grant(PushInput(inputs, request), request)
  PROVE  LET pushed == PushInput(inputs, request) IN
         /\ inputs' \in Seq(CallArg) /\ Len(inputs') <= MaxInput + 1
         /\ Len(inputs) <= Len(inputs')
         /\ granted' \subseteq Granted
         /\ granted \subseteq granted'
         /\ InputsAreDistinct'
         /\ GrantsHold'
         /\ AccessWasAskedFor'
         /\ pushed.error = None =>
              /\ InputAt(pushed.index) \in Argument
              /\ pushed.index < Len(inputs')
              /\ [request |-> request, index |-> pushed.index] \in granted'
<1> DEFINE pushed == PushInput(inputs, request)
<1>1. TypeOK /\ GrantsHold /\ AccessWasAskedFor /\ TableOK(inputs)
  BY DistinctInputs DEF IInv
<1>2. PushedWell(inputs, request, pushed)
  BY <1>1, PushInputWell
<1>3. /\ inputs' = pushed.inputs
      /\ granted' = IF pushed.error = None
                      THEN granted \cup {[request |-> request, index |-> pushed.index]}
                      ELSE granted
  BY DEF Grant
<1> HIDE DEF pushed
<1>4. TableOK(inputs')
  BY <1>2, <1>3 DEF PushedWell
<1>5. /\ inputs' \in Seq(CallArg) /\ Len(inputs') <= MaxInput + 1
      /\ Len(inputs) <= Len(inputs')
      /\ Len(inputs) \in Nat /\ Len(inputs') \in Nat
      /\ DOMAIN inputs = 1..Len(inputs) /\ DOMAIN inputs' = 1..Len(inputs')
      /\ \A i \in DOMAIN inputs : inputs[i] \in CallArg
      /\ \A i \in DOMAIN inputs' : inputs'[i] \in CallArg
  BY <1>1, <1>2, <1>3, <1>4 DEF PushedWell, TableOK
<1>6. granted' \subseteq Granted /\ granted \subseteq granted'
  BY <1>1, <1>2, <1>3 DEF TypeOK, Granted, PushedWell
<1>7. InputsAreDistinct'
  <2>1. \A i \in DOMAIN inputs' :
          inputs'[i] \in ObjectArg
            <=> inputs'[i].kind \in {"Shared", "ImmutableOrOwned", "Receiving"}
    BY <1>5, ObjectIdFacts
  <2> QED  BY <1>4, <2>1 DEF TableOK, Distinct, InputsAreDistinct
<1>8. GrantsHold'
  <2> SUFFICES ASSUME NEW grant \in granted'
               PROVE  grant.index < Len(inputs') /\ Covers(inputs'[grant.index + 1], grant.request)
    BY DEF GrantsHold
  <2>1. CASE grant \in granted
    <3>1. /\ grant.index \in Nat /\ grant.request \in CallArg
          /\ grant.index < Len(inputs) /\ Covers(inputs[grant.index + 1], grant.request)
      BY <1>1, <2>1 DEF TypeOK, Granted, GrantsHold
    <3>2. grant.index + 1 \in DOMAIN inputs /\ grant.index + 1 \in DOMAIN inputs'
      BY <1>5, <3>1
    <3>3. Covers(inputs'[grant.index + 1], inputs[grant.index + 1])
      BY <1>2, <1>3, <3>2 DEF PushedWell
    <3> QED  BY <1>5, <3>1, <3>2, <3>3, CoversTransitive
  <2>2. CASE pushed.error = None /\ grant = [request |-> request, index |-> pushed.index]
    BY <1>2, <1>3, <2>2 DEF PushedWell
  <2> QED  BY <1>3, <2>1, <2>2
<1>9. AccessWasAskedFor'
  <2> SUFFICES ASSUME NEW i \in DOMAIN inputs'
               PROVE  [request |-> inputs'[i], index |-> i - 1] \in granted'
    BY DEF AccessWasAskedFor
  <2>1. CASE i \in DOMAIN inputs /\ inputs'[i] = inputs[i]
    BY <1>1, <1>6, <2>1 DEF AccessWasAskedFor
  <2>2. CASE pushed.error = None /\ pushed.index = i - 1 /\ inputs'[i] = request
    BY <1>3, <2>2
  <2> QED  BY <1>2, <1>3, <2>1, <2>2 DEF PushedWell
<1>10. ASSUME pushed.error = None
       PROVE  /\ InputAt(pushed.index) \in Argument
              /\ pushed.index < Len(inputs')
              /\ [request |-> request, index |-> pushed.index] \in granted'
  <2>1. pushed.index \in Nat /\ pushed.index < Len(inputs')
    BY <1>2, <1>3, <1>10 DEF PushedWell
  <2>2. [request |-> request, index |-> pushed.index] \in granted'
    BY <1>3, <1>10
  <2> QED  BY <2>1, <2>2 DEF InputAt, Argument
<1> QED  BY <1>5, <1>6, <1>7, <1>8, <1>9, <1>10 DEF pushed
LEMMA ArgumentType ==
  ASSUME NEW list \in Seq(Command), NEW k \in DOMAIN list, NEW i \in DOMAIN list[k].arguments
  PROVE  list[k].arguments[i] \in Argument
<1>1. list[k] \in Command
  OBVIOUS
<1>2. list[k].arguments \in Seq(Argument)
  BY <1>1 DEF Command
<1> QED  BY <1>2

\* More inputs and more grants disturb no command and no argument handed out.
LEMMA CommandsStable ==
  ASSUME IInv, UNCHANGED commands, granted \subseteq granted',
         Len(inputs) <= Len(inputs'), inputs' \in Seq(CallArg)
  PROVE  /\ CommandsInv'
         /\ ArgumentsReferBack'
         /\ \A argument \in issued : Refers(argument, Len(commands))'
<1>1. CommandsInv'
  BY DEF IInv, CommandsInv, Typed, Allocated, Holds
<1>2. ASSUME NEW argument \in Argument, argument.index < Len(inputs)
      PROVE  argument.index < Len(inputs')
  BY <1>2 DEF IInv, TypeOK, Argument
<1>3. ArgumentsReferBack'
  <2> SUFFICES ASSUME NEW k \in DOMAIN commands, NEW i \in DOMAIN commands[k].arguments
               PROVE  LET argument == commands[k].arguments[i] IN
                        /\ argument.kind = "Input" => argument.index < Len(inputs')
                        /\ argument.kind \in {"Result", "NestedResult"} =>
                             /\ argument.index < k - 1
                             /\ commands[argument.index + 1].kind \in WithResult
    BY DEF ArgumentsReferBack
  <2>1. commands[k].arguments[i] \in Argument
    BY ArgumentType DEF IInv, TypeOK
  <2> QED  BY <1>2, <2>1 DEF IInv, ArgumentsReferBack
<1>4. ASSUME NEW argument \in issued
      PROVE  Refers(argument, Len(commands))'
  <2>1. argument \in Argument /\ Refers(argument, Len(commands))
    BY <1>4 DEF IInv, TypeOK, IssuedInv
  <2> QED  BY <1>2, <2>1 DEF Refers
<1> QED  BY <1>1, <1>3, <1>4

\* input, for any request.
LEMMA InputStep ==
  ASSUME IInv, NEW request \in CallArg, Input(request)
  PROVE  IInv'
<1> DEFINE pushed == PushInput(inputs, request)
<1>1. /\ call = None /\ UNCHANGED <<commands, call, finished>>
      /\ Grant(pushed, request)
      /\ issued' = IF pushed.error = None THEN issued \cup {InputAt(pushed.index)} ELSE issued
  BY DEF Input, Ready
<1>2. /\ inputs' \in Seq(CallArg) /\ Len(inputs') <= MaxInput + 1
      /\ Len(inputs) <= Len(inputs')
      /\ granted' \subseteq Granted
      /\ granted \subseteq granted'
      /\ InputsAreDistinct' /\ GrantsHold' /\ AccessWasAskedFor'
      /\ pushed.error = None => /\ InputAt(pushed.index) \in Argument
                                /\ pushed.index < Len(inputs')
  BY <1>1, GrantStep
<1> HIDE DEF pushed
<1>3. /\ CommandsInv' /\ ArgumentsReferBack'
      /\ \A argument \in issued : Refers(argument, Len(commands))'
  BY <1>1, <1>2, CommandsStable
<1>4. TypeOK'
  BY <1>1, <1>2 DEF IInv, TypeOK
<1>5. CallInv'
  BY <1>1 DEF CallInv
<1>6. IssuedInv'
  <2> SUFFICES ASSUME NEW argument \in issued'
               PROVE  Refers(argument, Len(commands))'
    BY DEF IssuedInv
  <2>1. CASE argument \in issued
    BY <1>3, <2>1
  <2>2. CASE pushed.error = None /\ argument = InputAt(pushed.index)
    <3>1. argument.kind = "Input" /\ argument.index < Len(inputs')
      BY <1>2, <2>2 DEF InputAt
    <3> QED  BY <3>1 DEF Refers
  <2> QED  BY <1>1, <2>1, <2>2
<1> QED  BY <1>2, <1>3, <1>4, <1>5, <1>6 DEF IInv

LEMMA InputFromOwnerType ==
  ASSUME NEW object \in FetchedObject, NEW mutability \in Mutability,
         InputFromOwner(object, mutability) # None
  PROVE  InputFromOwner(object, mutability) \in CallArg
BY DEF FetchedObject, OwnerRecord, InputFromOwner, CallArg, ObjectArg, SharedArg, ReferenceArg

\* push_command, with arguments that exist and, for a call, that are all allocated.
LEMMA CommandStep ==
  ASSUME IInv, NEW command \in Command, PushCommand(command), UNCHANGED <<inputs, granted>>,
         Typed(command.parameters),
         DOMAIN command.parameters \subseteq DOMAIN command.arguments,
         Allocated(command.parameters, command.arguments),
         \A i \in DOMAIN command.arguments : Refers(command.arguments[i], Len(commands))
  PROVE  /\ commands' \in Seq(Command) /\ Len(commands') <= MaxCommand + 1
         /\ issued' \subseteq Argument
         /\ CommandsInv'
         /\ ArgumentsReferBack'
         /\ IssuedInv'
<1>1. TypeOK /\ CommandsInv /\ ArgumentsReferBack /\ IssuedInv
  BY DEF IInv
<1>2. CASE Len(commands) > MaxCommand
  <2>1. UNCHANGED <<commands, issued>>
    BY <1>1, <1>2 DEF PushCommand, TypeOK
  <2>2. CommandsInv'
    BY <1>1, <2>1 DEF CommandsInv, Typed, Allocated, Holds
  <2>3. ArgumentsReferBack'
    BY <1>1, <2>1 DEF ArgumentsReferBack
  <2>4. IssuedInv'
    BY <1>1, <2>1 DEF IssuedInv, Refers
  <2> QED  BY <1>1, <2>1, <2>2, <2>3, <2>4 DEF TypeOK
<1>3. CASE Len(commands) <= MaxCommand
  <2>1. /\ commands' = Append(commands, command)
        /\ issued' = IF command.kind \in WithResult
                       THEN issued \cup {ResultOf(Len(commands))} ELSE issued
    BY <1>3 DEF PushCommand
  <2>2. /\ commands' \in Seq(Command) /\ Len(commands') = Len(commands) + 1
        /\ Len(commands) \in Nat
        /\ DOMAIN commands = 1..Len(commands)
        /\ DOMAIN commands' = 1..(Len(commands) + 1)
        /\ commands'[Len(commands) + 1] = command
        /\ \A k \in DOMAIN commands : commands'[k] = commands[k]
    BY <1>1, <2>1 DEF TypeOK
  <2>3. issued' \subseteq Argument
    BY <1>1, <2>1, <2>2 DEF TypeOK, ResultOf, Argument
  <2>4. CommandsInv'
    <3> SUFFICES ASSUME NEW k \in DOMAIN commands'
                 PROVE  /\ Typed(commands'[k].parameters)
                        /\ DOMAIN commands'[k].parameters \subseteq DOMAIN commands'[k].arguments
                        /\ Allocated(commands[k].parameters, commands[k].arguments)'
      BY DEF CommandsInv, Typed
    <3>1. CASE k \in DOMAIN commands
      BY <1>1, <2>2, <3>1 DEF CommandsInv, Allocated, Holds
    <3>2. CASE k = Len(commands) + 1
      BY <2>2, <3>2 DEF Allocated, Holds
    <3> QED  BY <2>2, <3>1, <3>2
  <2>5. ASSUME NEW argument \in Argument, Refers(argument, Len(commands))
        PROVE  /\ argument.kind = "Input" => argument.index < Len(inputs')
               /\ argument.kind \in {"Result", "NestedResult"} =>
                    /\ argument.index < Len(commands)
                    /\ argument.index < Len(commands')
                    /\ commands'[argument.index + 1].kind \in WithResult
    <3>1. argument.index \in Nat
      BY DEF Argument
    <3> QED  BY <2>2, <2>5, <3>1 DEF Refers
  <2>6. ArgumentsReferBack'
    <3> SUFFICES ASSUME NEW k \in DOMAIN commands', NEW i \in DOMAIN commands'[k].arguments
                 PROVE  LET argument == commands'[k].arguments[i] IN
                          /\ argument.kind = "Input" => argument.index < Len(inputs')
                          /\ argument.kind \in {"Result", "NestedResult"} =>
                               /\ argument.index < k - 1
                               /\ commands'[argument.index + 1].kind \in WithResult
      BY DEF ArgumentsReferBack
    <3>1. commands'[k].arguments[i] \in Argument
      BY <2>2, ArgumentType
    <3>2. CASE k \in DOMAIN commands
      <4> DEFINE argument == commands[k].arguments[i]
      <4>1. commands'[k] = commands[k] /\ i \in DOMAIN commands[k].arguments
        BY <2>2, <3>2
      <4>2. /\ argument.kind = "Input" => argument.index < Len(inputs)
            /\ argument.kind \in {"Result", "NestedResult"} =>
                 /\ argument.index < k - 1
                 /\ commands[argument.index + 1].kind \in WithResult
        BY <1>1, <3>2, <4>1 DEF ArgumentsReferBack
      <4>3. argument \in Argument
        BY <3>1, <4>1
      <4>4. argument.index \in Nat
        BY <4>3 DEF Argument
      <4> HIDE DEF argument
      <4>5. argument.kind \in {"Result", "NestedResult"} =>
              commands'[argument.index + 1] = commands[argument.index + 1]
        BY <2>2, <3>2, <4>2, <4>4
      <4> QED  BY <4>1, <4>2, <4>5 DEF argument
    <3>3. CASE k = Len(commands) + 1
      BY <2>2, <2>5, <3>1, <3>3
    <3> QED  BY <2>2, <3>2, <3>3
  <2>7. IssuedInv'
    <3> SUFFICES ASSUME NEW argument \in issued'
                 PROVE  Refers(argument, Len(commands))'
      BY DEF IssuedInv
    <3>1. CASE argument \in issued
      <4>1. argument \in Argument /\ Refers(argument, Len(commands))
        BY <1>1, <3>1 DEF TypeOK, IssuedInv
      <4> QED  BY <2>5, <4>1 DEF Refers
    <3>2. CASE command.kind \in WithResult /\ argument = ResultOf(Len(commands))
      BY <2>2, <3>2 DEF Refers, ResultOf
    <3> QED  BY <2>1, <3>1, <3>2
  <2> QED  BY <1>3, <2>2, <2>3, <2>4, <2>6, <2>7
<1>4. Len(commands) \in Nat
  BY <1>1 DEF TypeOK
<1> QED  BY <1>2, <1>3, <1>4

LEMMA UsableRefers ==
  ASSUME IInv, NEW argument \in Usable
  PROVE  argument \in Argument /\ Refers(argument, Len(commands))
<1>1. CASE argument \in issued
  BY <1>1 DEF IInv, TypeOK, IssuedInv
<1>2. ASSUME NEW given \in issued, argument = NestedResult(given), argument # None
      PROVE  argument \in Argument /\ Refers(argument, Len(commands))
  <2>1. /\ given \in Argument /\ given.kind = "Result" /\ Refers(given, Len(commands))
        /\ argument = [given EXCEPT !.kind = "NestedResult"]
    BY <1>2 DEF IInv, TypeOK, IssuedInv, NestedResult
  <2>2. argument \in Argument /\ argument.kind = "NestedResult" /\ argument.index = given.index
    BY <2>1 DEF Argument
  <2> QED  BY <2>1, <2>2 DEF Refers
<1> QED  BY <1>1, <1>2 DEF Usable
LEMMA NativeStep ==
  ASSUME IInv, NEW kind \in WithResult \cup {"TransferObjects", "MergeCoins"},
         NEW n \in 0..MaxArguments, NEW arguments \in [1..n -> Usable],
         NativeCommand(kind, arguments)
  PROVE  IInv'
<1> DEFINE command == [kind |-> kind, parameters |-> <<>>, arguments |-> arguments]
<1>1. /\ call = None /\ PushCommand(command)
      /\ UNCHANGED <<inputs, call, granted, finished>>
  BY DEF NativeCommand, Ready
<1>2. arguments \in Seq(Argument) /\ DOMAIN arguments = 1..n
  BY UsableRefers
<1>3. \A i \in DOMAIN arguments : Refers(arguments[i], Len(commands))
  BY <1>2, UsableRefers
<1>4. command \in Command
  BY <1>2 DEF Command
<1>5. /\ Typed(command.parameters) /\ DOMAIN command.parameters = {}
      /\ Allocated(command.parameters, command.arguments)
  BY DEF Typed, Allocated
<1>6. command.arguments = arguments
  OBVIOUS
<1> HIDE DEF command
<1>7. /\ commands' \in Seq(Command) /\ Len(commands') <= MaxCommand + 1
      /\ issued' \subseteq Argument
      /\ CommandsInv' /\ ArgumentsReferBack' /\ IssuedInv'
  BY <1>1, <1>3, <1>4, <1>5, <1>6, CommandStep
<1>8. TypeOK'
  BY <1>1, <1>7 DEF IInv, TypeOK
<1>9. InputsAreDistinct' /\ GrantsHold' /\ AccessWasAskedFor'
  BY <1>1 DEF IInv, InputsAreDistinct, GrantsHold, AccessWasAskedFor
<1>10. CallInv'
  BY <1>1 DEF CallInv
<1> QED  BY <1>7, <1>8, <1>9, <1>10 DEF IInv

LEMMA BeginCallStep ==
  ASSUME IInv, NEW parameters, Typed(parameters), BeginCall(parameters)
  PROVE  IInv'
<1>1. /\ Converts(parameters)
      /\ call' = [parameters |-> parameters, arguments |-> <<>>]
      /\ UNCHANGED <<inputs, commands, issued, granted, finished>>
  BY DEF BeginCall
<1>2. call' \in Progress
  BY <1>1 DEF Typed, Progress
<1>3. TypeOK'
  BY <1>1, <1>2 DEF IInv, TypeOK
<1>4. CallInv'
  <2>1. Len(call'.arguments) = 0 /\ DOMAIN call'.arguments = {} /\ call'.parameters = parameters
    BY <1>1
  <2>2. Len(call'.parameters) \in Nat
    BY <2>1 DEF Typed
  <2> QED  BY <1>1, <2>1, <2>2 DEF CallInv, Allocated, Typed
<1>5. /\ InputsAreDistinct' /\ GrantsHold' /\ AccessWasAskedFor'
      /\ \A argument \in issued : Refers(argument, Len(commands))'
      /\ CommandsInv' /\ ArgumentsReferBack'
  <2>1. granted \subseteq granted' /\ Len(inputs) <= Len(inputs') /\ inputs' \in Seq(CallArg)
    BY <1>1 DEF IInv, TypeOK
  <2> QED  BY <1>1, <2>1, CommandsStable
             DEF IInv, InputsAreDistinct, GrantsHold, AccessWasAskedFor
<1> QED  BY <1>1, <1>3, <1>4, <1>5 DEF IInv, IssuedInv

LEMMA WithdrawalStep ==
  ASSUME IInv, NEW funds \in Withdrawals, FundsWithdrawalCoin(funds)
  PROVE  IInv'
<1> DEFINE input == [kind |-> "FundsWithdrawal", funds |-> funds]
           parameter == [value |-> [type |-> "CallArg", input |-> input], mutable |-> FALSE]
<1>1. parameter \in Parameter /\ WellTyped(parameter)
  BY DEF Parameter, Value, CallArg, WithdrawalArg, WellTyped
<1>2. BeginCall(<<parameter>>)
  BY DEF FundsWithdrawalCoin
<1> HIDE DEF parameter
<1>3. Typed(<<parameter>>)
  BY <1>1 DEF Typed
<1> QED  BY <1>2, <1>3, BeginCallStep

LEMMA CallInputStep ==
  ASSUME IInv, CallInput
  PROVE  IInv'
<1> DEFINE request == PushArg(call.parameters[Len(call.arguments) + 1])
           pushed == PushInput(inputs, request)
<1>1. /\ call # None /\ Len(call.arguments) < Len(call.parameters)
      /\ Grant(pushed, request)
      /\ call' = IF pushed.error = None
                   THEN [call EXCEPT !.arguments = Append(@, InputAt(pushed.index))] ELSE None
      /\ UNCHANGED <<commands, issued, finished>>
  BY DEF CallInput
<1>2. /\ call \in Progress /\ Typed(call.parameters) /\ Converts(call.parameters)
      /\ call.parameters \in Seq(Parameter) /\ call.arguments \in Seq(Argument)
      /\ Allocated(call.parameters, call.arguments)
      /\ \A i \in DOMAIN call.arguments : call.arguments[i].index < Len(inputs)
  BY <1>1 DEF IInv, TypeOK, CallInv, Progress
<1>3. Len(call.arguments) + 1 \in DOMAIN call.parameters
  BY <1>1, <1>2
<1>4. request # None /\ request \in CallArg
  BY <1>2, <1>3, PushArgFacts DEF Converts
<1>5. /\ inputs' \in Seq(CallArg) /\ Len(inputs') <= MaxInput + 1
      /\ Len(inputs) <= Len(inputs')
      /\ granted' \subseteq Granted
      /\ granted \subseteq granted'
      /\ InputsAreDistinct' /\ GrantsHold' /\ AccessWasAskedFor'
      /\ pushed.error = None =>
           /\ InputAt(pushed.index) \in Argument
           /\ pushed.index < Len(inputs')
           /\ [request |-> request, index |-> pushed.index] \in granted'
  <2> HIDE DEF request
  <2> QED  BY <1>1, <1>4, GrantStep
<1>6. /\ CommandsInv' /\ ArgumentsReferBack'
      /\ \A argument \in issued : Refers(argument, Len(commands))'
  BY <1>1, <1>5, CommandsStable
<1> HIDE DEF pushed
<1>7. CASE pushed.error = None
  <2> DEFINE argument == InputAt(pushed.index)
  <2>1. /\ argument \in Argument /\ argument.kind = "Input" /\ argument.index = pushed.index
        /\ argument.index < Len(inputs')
    BY <1>5, <1>7 DEF InputAt
  <2>2. call'.parameters = call.parameters /\ call'.arguments = Append(call.arguments, argument)
    BY <1>1, <1>2, <1>7 DEF Progress
  <2>3. call' = [parameters |-> call.parameters, arguments |-> Append(call.arguments, argument)]
    BY <1>1, <1>2, <1>7 DEF Progress
  <2>4. [request |-> request, index |-> argument.index] \in granted'
    BY <1>5, <1>7, <2>1
  <2> HIDE DEF argument
  <2>5. /\ call'.arguments \in Seq(Argument)
        /\ Len(call'.arguments) = Len(call.arguments) + 1
        /\ Len(call.arguments) \in Nat /\ Len(call.parameters) \in Nat
        /\ DOMAIN call'.arguments = 1..(Len(call.arguments) + 1)
        /\ DOMAIN call.arguments = 1..Len(call.arguments)
        /\ call'.arguments[Len(call.arguments) + 1] = argument
        /\ \A i \in DOMAIN call.arguments : call'.arguments[i] = call.arguments[i]
    BY <1>2, <2>1, <2>2
  <2>6. call' \in Progress
    BY <1>2, <2>1, <2>3 DEF Progress
  <2>7. ASSUME NEW i \in DOMAIN call'.arguments \cap DOMAIN call'.parameters
        PROVE  /\ PushArg(call'.parameters[i]) # None
               /\ call'.arguments[i].kind = "Input"
               /\ [request |-> PushArg(call'.parameters[i]), index |-> call'.arguments[i].index]
                    \in granted'
    <3>1. CASE i \in DOMAIN call.arguments
      BY <1>2, <1>5, <2>2, <2>5, <3>1 DEF Allocated, Holds
    <3>2. CASE i = Len(call.arguments) + 1
      BY <1>4, <2>1, <2>2, <2>4, <2>5, <3>2
    <3> QED  BY <2>5, <3>1, <3>2
  <2>8. ASSUME NEW i \in DOMAIN call'.arguments
        PROVE  call'.arguments[i].index < Len(inputs')
    <3>1. CASE i \in DOMAIN call.arguments
      <4>1. call.arguments[i] \in Argument
        BY <1>2, <3>1
      <4>2. call.arguments[i].index \in Nat
        BY <4>1 DEF Argument
      <4> QED  BY <1>2, <1>5, <2>5, <3>1, <4>2 DEF IInv, TypeOK
    <3>2. CASE i = Len(call.arguments) + 1
      BY <2>1, <2>5, <3>2
    <3> QED  BY <2>5, <3>1, <3>2
  <2>9. CallInv'
    <3>1. Typed(call.parameters)' /\ Converts(call.parameters)'
      BY <1>2, <2>2 DEF Typed, Converts
    <3>2. Len(call'.arguments) <= Len(call'.parameters)
      BY <1>1, <2>2, <2>5
    <3>3. Allocated(call.parameters, call.arguments)'
      BY <2>7 DEF Allocated, Holds
    <3> QED  BY <2>8, <3>1, <3>2, <3>3 DEF CallInv
  <2>10. TypeOK'
    BY <1>1, <1>5, <2>6 DEF IInv, TypeOK
  <2>11. IssuedInv'
    BY <1>1, <1>6 DEF IssuedInv
  <2> QED  BY <1>5, <1>6, <2>9, <2>10, <2>11 DEF IInv
<1>8. CASE pushed.error # None
  <2>1. call' = None
    BY <1>1, <1>8
  <2>2. TypeOK'
    BY <1>1, <1>5, <2>1 DEF IInv, TypeOK
  <2>3. CallInv' /\ IssuedInv'
    BY <1>1, <1>6, <2>1 DEF CallInv, IssuedInv
  <2> QED  BY <1>5, <1>6, <2>2, <2>3 DEF IInv
<1> QED  BY <1>7, <1>8

LEMMA CallCommandStep ==
  ASSUME IInv, CallCommand
  PROVE  IInv'
<1> DEFINE command == [kind |-> "MoveCall", parameters |-> call.parameters,
                       arguments |-> call.arguments]
<1>1. /\ call # None /\ Len(call.arguments) = Len(call.parameters)
      /\ PushCommand(command) /\ call' = None
      /\ UNCHANGED <<inputs, granted, finished>>
  BY DEF CallCommand
<1>2. /\ call \in Progress /\ Typed(call.parameters)
      /\ call.parameters \in Seq(Parameter) /\ call.arguments \in Seq(Argument)
      /\ Allocated(call.parameters, call.arguments)
      /\ \A i \in DOMAIN call.arguments : call.arguments[i].index < Len(inputs)
  BY <1>1 DEF IInv, TypeOK, CallInv, Progress
<1>3. /\ DOMAIN call.parameters = DOMAIN call.arguments
      /\ \A i \in DOMAIN call.arguments : call.arguments[i].kind = "Input"
  <2>1. DOMAIN call.parameters = 1..Len(call.arguments)
    BY <1>1, <1>2
  <2>2. DOMAIN call.arguments = 1..Len(call.arguments)
    BY <1>2
  <2> QED  BY <1>2, <2>1, <2>2 DEF Allocated, Holds
<1>4. command \in Command
  BY <1>2 DEF Command, WithResult
<1>5. command.parameters = call.parameters /\ command.arguments = call.arguments
  OBVIOUS
<1> HIDE DEF command
<1>6. \A i \in DOMAIN command.arguments : Refers(command.arguments[i], Len(commands))
  BY <1>2, <1>3, <1>5 DEF Refers
<1>7. /\ commands' \in Seq(Command) /\ Len(commands') <= MaxCommand + 1
      /\ issued' \subseteq Argument
      /\ CommandsInv' /\ ArgumentsReferBack' /\ IssuedInv'
  BY <1>1, <1>2, <1>3, <1>4, <1>5, <1>6, CommandStep
<1>8. TypeOK'
  BY <1>1, <1>7 DEF IInv, TypeOK
<1>9. InputsAreDistinct' /\ GrantsHold' /\ AccessWasAskedFor'
  BY <1>1 DEF IInv, InputsAreDistinct, GrantsHold, AccessWasAskedFor
<1>10. CallInv'
  BY <1>1 DEF CallInv
<1> QED  BY <1>7, <1>8, <1>9, <1>10 DEF IInv

LEMMA QuietStep ==
  ASSUME IInv, UNCHANGED <<inputs, commands, call, issued, granted>>, finished' \in BOOLEAN
  PROVE  IInv'
<1>1. granted \subseteq granted' /\ Len(inputs) <= Len(inputs') /\ inputs' \in Seq(CallArg)
  BY DEF IInv, TypeOK
<1>2. /\ CommandsInv' /\ ArgumentsReferBack'
      /\ \A argument \in issued : Refers(argument, Len(commands))'
  BY <1>1, CommandsStable
<1>3. TypeOK'
  BY DEF IInv, TypeOK
<1>4. InputsAreDistinct' /\ GrantsHold' /\ AccessWasAskedFor'
  BY DEF IInv, InputsAreDistinct, GrantsHold, AccessWasAskedFor
<1>5. CallInv'
  BY DEF IInv, CallInv, Typed, Converts, Allocated, Holds
<1> QED  BY <1>2, <1>3, <1>4, <1>5 DEF IInv, IssuedInv

THEOREM Invariance == Spec => []IInv
<1>1. Init => IInv
  BY Initially
<1>2. IInv /\ [Next]_vars => IInv'
  <2> SUFFICES ASSUME IInv, [Next]_vars PROVE IInv'
    OBVIOUS
  <2>1. ASSUME NEW request \in Requests, Input(request) PROVE IInv'
    BY <2>1, InputStep
  <2>2. ASSUME NEW object \in Fetched, NEW mutability \in Mutability,
               ObjectFromOwner(object, mutability)
        PROVE  IInv'
    BY <2>2, InputFromOwnerType, InputStep DEF ObjectFromOwner
  <2>3. CASE Commands
    BY <2>3, NativeStep DEF Commands
  <2>4. ASSUME NEW parameters \in Specs, BeginCall(parameters) PROVE IInv'
    BY <2>4, BeginCallStep DEF Typed
  <2>5. ASSUME NEW funds \in Withdrawals, FundsWithdrawalCoin(funds) PROVE IInv'
    BY <2>5, WithdrawalStep
  <2>6. CASE CallInput
    BY <2>6, CallInputStep
  <2>7. CASE CallCommand
    BY <2>7, CallCommandStep
  <2>8. CASE Finish
    BY <2>8, QuietStep DEF Finish
  <2>9. CASE UNCHANGED vars
    BY <2>9, QuietStep DEF vars, IInv, TypeOK
  <2> QED  BY <2>1, <2>2, <2>3, <2>4, <2>5, <2>6, <2>7, <2>8, <2>9 DEF Next
<1> QED  BY <1>1, <1>2, PTL DEF Spec
\* The builder and its histories always have their types, and every index fits in a u16.
THEOREM TypeCorrect == Spec => []TypeOK
<1>1. IInv => TypeOK
  BY DEF IInv
<1> QED  BY <1>1, Invariance, PTL

\* Under any requests in any order, an object id names one input, and only withdrawals
\* repeat.
THEOREM DistinctAlways == Spec => []InputsAreDistinct
<1>1. IInv => InputsAreDistinct
  BY DEF IInv
<1> QED  BY <1>1, Invariance, PTL

\* No index handed out is ever moved to another input or loses access.
THEOREM GrantsAreKept == Spec => []GrantsHold
<1>1. IInv => GrantsHold
  BY DEF IInv
<1> QED  BY <1>1, Invariance, PTL

\* No input is given an access nobody asked for.
THEOREM NoUnaskedAccess == Spec => []AccessWasAskedFor
<1>1. IInv => AccessWasAskedFor
  BY DEF IInv
<1> QED  BY <1>1, Invariance, PTL

\* Commands refer to inputs of the table and to earlier results only.
THEOREM NoForwardReference == Spec => []ArgumentsReferBack
<1>1. IInv => ArgumentsReferBack
  BY DEF IInv
<1> QED  BY <1>1, Invariance, PTL

LEMMA ParametersServed ==
  ASSUME IInv, NEW k \in DOMAIN commands, NEW i \in DOMAIN commands[k].parameters
  PROVE  LET parameter == commands[k].parameters[i]
             argument == commands[k].arguments[i]
             input == inputs[argument.index + 1]
         IN  /\ i \in DOMAIN commands[k].arguments
             /\ argument.kind = "Input" /\ argument.index < Len(inputs)
             /\ Covers(input, ToCallArg(parameter.value))
             /\ parameter.mutable /\ input.kind = "Shared" => input.mutability \in Writable
<1> DEFINE parameter == commands[k].parameters[i]
           argument == commands[k].arguments[i]
           input == inputs[argument.index + 1]
           request == PushArg(parameter)
<1>1. /\ i \in DOMAIN commands[k].arguments
      /\ parameter \in Parameter /\ WellTyped(parameter)
      /\ request # None /\ argument.kind = "Input"
      /\ [request |-> request, index |-> argument.index] \in granted
  <2>1. /\ Typed(commands[k].parameters)
        /\ DOMAIN commands[k].parameters \subseteq DOMAIN commands[k].arguments
        /\ Allocated(commands[k].parameters, commands[k].arguments)
    BY DEF IInv, CommandsInv
  <2>2. i \in DOMAIN commands[k].arguments
    BY <2>1
  <2>3. parameter \in Parameter /\ WellTyped(parameter)
    BY <2>1 DEF Typed
  <2>4. PushArg(parameter) # None /\ Holds(argument, PushArg(parameter))
    BY <2>1, <2>2 DEF Allocated
  <2> QED  BY <2>2, <2>3, <2>4 DEF Holds
<1>2. argument.index \in 0..MaxInput
  BY <1>1 DEF IInv, TypeOK, Granted
<1>3. argument.index < Len(inputs) /\ Covers(input, request)
  BY <1>1 DEF IInv, GrantsHold
<1>4. /\ request = ToCallArg(parameter.value)
      /\ request \in CallArg
      /\ parameter.mutable /\ request.kind = "Shared" => request.mutability \in Writable
  BY <1>1, PushArgFacts
<1>5. input \in CallArg
  BY <1>2, <1>3 DEF IInv, TypeOK
<1> HIDE DEF parameter, argument, input, request
<1>6. ASSUME parameter.mutable, input.kind = "Shared"
      PROVE  input.mutability \in Writable
  <2>1. request.kind = "Shared"
    BY <1>3, <1>4, <1>5, <1>6, CoversKeepsObject
  <2>2. /\ request.mutability \in Writable
        /\ Strength(input.mutability) >= Strength(request.mutability)
        /\ input.mutability \in Mutability
    BY <1>3, <1>4, <1>5, <1>6, <2>1
       DEF Covers, CallArg, ObjectArg, SharedArg, ReferenceArg, PureArg, WithdrawalArg
  <2> QED  BY <2>2 DEF Writable, Mutability, Strength
<1>7. Covers(input, ToCallArg(parameter.value))
  BY <1>3, <1>4
<1> QED  BY <1>1, <1>3, <1>6, <1>7 DEF parameter, argument, input

\* However many calls share and upgrade inputs or fail half way, each finished call has
\* the inputs it was given, with write access where its function takes &mut.
THEOREM CallsAreServed == Spec => []CallsGetTheirArguments
<1>1. IInv => CallsGetTheirArguments
  BY ParametersServed DEF CallsGetTheirArguments
<1> QED  BY <1>1, Invariance, PTL
-----------------------------------------------------------------------------
(* Withdrawals of funds *)

\* The calls: those pushed and, at the position the next command will have, the one in
\* progress.
CallAt(k) ==
  IF k \in DOMAIN commands THEN commands[k]
  ELSE IF call # None THEN call
  ELSE [parameters |-> <<>>, arguments |-> <<>>]

CallPositions == 1..(Len(commands) + 1)

\* The parameters of a call that have an argument by now.
Places(k) == DOMAIN CallAt(k).parameters \cap DOMAIN CallAt(k).arguments

Withdraws(k, i) == PushArg(CallAt(k).parameters[i]).kind = "FundsWithdrawal"

IndexAt(k, i) == CallAt(k).arguments[i].index

\* No two withdrawals have one input, half done calls among them.
WithdrawalInv ==
  \A k, l \in CallPositions : \A i \in Places(k), j \in Places(l) :
    <<k, i>> # <<l, j>> /\ Withdraws(k, i) /\ Withdraws(l, j) => IndexAt(k, i) # IndexAt(l, j)

\* Calls that have no arguments they had not, where they had them, keep the invariant.
LEMMA NoNewPlaces ==
  ASSUME WithdrawalInv,
         \A k \in CallPositions' : \A i \in Places(k)' :
           /\ k \in CallPositions /\ i \in Places(k)
           /\ CallAt(k)'.parameters[i] = CallAt(k).parameters[i]
           /\ CallAt(k)'.arguments[i] = CallAt(k).arguments[i]
  PROVE  WithdrawalInv'
BY DEF WithdrawalInv, Withdraws, IndexAt

\* The input a place was given is in the table.
LEMMA PlaceHasInput ==
  ASSUME IInv, NEW k \in CallPositions, NEW i \in Places(k)
  PROVE  IndexAt(k, i) \in 0..MaxInput /\ IndexAt(k, i) < Len(inputs)
<1>1. /\ PushArg(CallAt(k).parameters[i]) # None
      /\ Holds(CallAt(k).arguments[i], PushArg(CallAt(k).parameters[i]))
  <2>1. CASE k \in DOMAIN commands
    BY <2>1 DEF IInv, CommandsInv, Allocated, Places, CallAt
  <2>2. CASE k \notin DOMAIN commands
    BY <2>2 DEF IInv, CallInv, Allocated, Places, CallAt
  <2> QED  BY <2>1, <2>2
<1>2. [request |-> PushArg(CallAt(k).parameters[i]), index |-> IndexAt(k, i)] \in granted
  BY <1>1 DEF Holds, IndexAt
<1> QED  BY <1>2 DEF IInv, TypeOK, Granted, GrantsHold

\* A withdrawal always gets an input of its own, at the end of the table (push_input).
LEMMA WithdrawalIsAppended ==
  ASSUME NEW table, NEW request, request.kind = "FundsWithdrawal",
         PushInput(table, request).error = None
  PROVE  PushInput(table, request).index = Len(table)
<1>1. PushInput(table, request) = Pushed(table, request)
  BY DEF PushInput
<1>2. CASE Len(table) <= MaxInput
  BY <1>1, <1>2 DEF Pushed
<1>3. CASE ~(Len(table) <= MaxInput)
  BY <1>1, <1>3 DEF Pushed, Refused
<1> QED  BY <1>2, <1>3

LEMMA WithdrawalsInitially ==
  ASSUME Init PROVE WithdrawalInv
BY DEF Init, WithdrawalInv, Places, CallAt

\* The commands and the call stay as they are.
LEMMA SameCalls ==
  ASSUME WithdrawalInv, UNCHANGED <<commands, call>>
  PROVE  WithdrawalInv'
BY DEF WithdrawalInv, CallPositions, Places, Withdraws, IndexAt, CallAt

\* A command is pushed, the call in progress or one without parameters, or refused.
LEMMA PushedCall ==
  ASSUME IInv, WithdrawalInv, NEW command, PushCommand(command), call' = None,
         \/ command.parameters = <<>>
         \/ /\ call # None
            /\ command.parameters = call.parameters /\ command.arguments = call.arguments
  PROVE  WithdrawalInv'
<1>1. commands \in Seq(Command) /\ Len(commands) \in Nat /\ DOMAIN commands = 1..Len(commands)
  BY DEF IInv, TypeOK
<1>2. CASE UNCHANGED commands
  <2>1. \A k \in CallPositions' : \A i \in Places(k)' : k \in DOMAIN commands
    BY <1>2 DEF Places, CallAt
  <2> QED  BY <1>1, <1>2, <2>1, NoNewPlaces DEF CallPositions, Places, CallAt
<1>3. CASE commands' = Append(commands, command)
  <2>1. /\ DOMAIN commands' = 1..(Len(commands) + 1) /\ Len(commands') = Len(commands) + 1
        /\ \A k \in DOMAIN commands : commands'[k] = commands[k]
        /\ commands'[Len(commands) + 1] = command
    BY <1>1, <1>3
  <2> SUFFICES ASSUME NEW k \in CallPositions', NEW i \in Places(k)'
               PROVE  /\ k \in CallPositions /\ i \in Places(k)
                      /\ CallAt(k)'.parameters[i] = CallAt(k).parameters[i]
                      /\ CallAt(k)'.arguments[i] = CallAt(k).arguments[i]
    BY NoNewPlaces
  <2>2. CASE k \in DOMAIN commands
    BY <1>1, <2>1, <2>2 DEF CallPositions, Places, CallAt
  <2>3. CASE k = Len(commands) + 1
    <3>1. CallAt(k)' = command /\ k \notin DOMAIN commands
      BY <1>1, <2>1, <2>3 DEF CallAt
    <3>2. command.parameters # <<>>
      BY <3>1 DEF Places
    <3> QED  BY <2>3, <3>1, <3>2, <1>1 DEF Places, CallAt, CallPositions
  <2>4. CASE k = Len(commands) + 2
    BY <2>1, <2>4, <1>1 DEF Places, CallAt
  <2> QED  BY <1>1, <2>1, <2>2, <2>3, <2>4 DEF CallPositions
<1> QED  BY <1>2, <1>3 DEF PushCommand

LEMMA CallInputWithdraws ==
  ASSUME IInv, WithdrawalInv, CallInput
  PROVE  WithdrawalInv'
<1> DEFINE request == PushArg(call.parameters[Len(call.arguments) + 1])
           pushed == PushInput(inputs, request)
<1>1. /\ call # None /\ UNCHANGED commands /\ Len(call.arguments) < Len(call.parameters)
      /\ Grant(pushed, request)
      /\ call' = IF pushed.error = None
                   THEN [call EXCEPT !.arguments = Append(@, InputAt(pushed.index))] ELSE None
  BY DEF CallInput
<1>2. request.kind = "FundsWithdrawal" /\ pushed.error = None => pushed.index = Len(inputs)
  BY WithdrawalIsAppended
<1> HIDE DEF request, pushed
<1> PICK last : last = Len(commands) + 1
  OBVIOUS
<1> PICK new : new = Len(call.arguments) + 1
  OBVIOUS
<1>3. /\ commands \in Seq(Command) /\ DOMAIN commands = 1..Len(commands) /\ Len(commands) \in Nat
      /\ call \in Progress /\ call.arguments \in Seq(Argument)
      /\ inputs \in Seq(CallArg) /\ Len(inputs) \in Nat
  BY <1>1 DEF IInv, TypeOK, Progress
<1>4. /\ CallPositions' = CallPositions /\ last \notin DOMAIN commands
      /\ \A k \in CallPositions : k # last => CallAt(k)' = CallAt(k)
      /\ CallAt(last) = call
  BY <1>1, <1>3 DEF CallPositions, CallAt
<1>5. CASE call' = None
  <2>1. Places(last)' = {}
    BY <1>1, <1>4, <1>5 DEF Places, CallAt
  <2> QED  BY <1>4, <2>1, NoNewPlaces DEF Places
<1>6. CASE call' # None
  <2> DEFINE argument == InputAt(pushed.index)
  <2>1. /\ pushed.error = None
        /\ call' = [call EXCEPT !.arguments = Append(call.arguments, argument)]
    BY <1>1, <1>6
  <2>2. argument \in Argument
    <3>1. Len(call.arguments) + 1 \in DOMAIN call.parameters /\ call.parameters \in Seq(Parameter)
      BY <1>1, <1>3 DEF Progress
    <3>2. request \in CallArg
      BY <1>1, <3>1, PushArgFacts DEF IInv, CallInv, Converts, request
    <3> QED  BY <1>1, <2>1, <3>2, GrantStep DEF pushed
  <2>3. argument.index = pushed.index
    BY DEF InputAt
  <2> HIDE DEF argument
  <2>4. /\ CallAt(last)'.parameters = call.parameters
        /\ CallAt(last)'.arguments = Append(call.arguments, argument)
    BY <1>1, <1>3, <1>4, <1>6, <2>1 DEF CallAt, Progress
  <2>5. /\ DOMAIN CallAt(last)'.arguments = DOMAIN call.arguments \cup {new}
        /\ new \notin DOMAIN call.arguments
        /\ CallAt(last)'.arguments[new] = argument
        /\ \A i \in DOMAIN call.arguments : CallAt(last)'.arguments[i] = call.arguments[i]
    <3> DEFINE old == call.arguments
               appended == Append(old, argument)
    <3>1. old \in Seq(Argument)
      BY <1>3
    <3> HIDE DEF old
    <3>2. /\ DOMAIN old = 1..Len(old) /\ DOMAIN appended = 1..(Len(old) + 1)
          /\ Len(old) \in Nat /\ appended[Len(old) + 1] = argument
          /\ \A i \in 1..Len(old) : appended[i] = old[i]
      BY <2>2, <3>1
    <3> HIDE DEF appended
    <3>3. CallAt(last)'.arguments = appended /\ new = Len(old) + 1 /\ old = call.arguments
      BY <2>4 DEF appended, old
    <3> QED  BY <3>2, <3>3
  \* Every other place is an old one, whose input is in the table already.
  <2>6. ASSUME NEW k \in CallPositions, NEW i \in Places(k)', <<k, i>> # <<last, new>>
        PROVE  /\ i \in Places(k)
               /\ Withdraws(k, i)' = Withdraws(k, i) /\ IndexAt(k, i)' = IndexAt(k, i)
               /\ IndexAt(k, i) \in Nat /\ IndexAt(k, i) < Len(inputs)
    <3>1. /\ i \in Places(k)
          /\ CallAt(k)'.parameters[i] = CallAt(k).parameters[i]
          /\ CallAt(k)'.arguments[i] = CallAt(k).arguments[i]
      BY <1>4, <2>4, <2>5, <2>6 DEF Places
    <3> QED  BY <3>1, PlaceHasInput DEF Withdraws, IndexAt
  <2>7. Withdraws(last, new)' => IndexAt(last, new)' = Len(inputs)
    <3>1. CallAt(last)'.parameters[new] = call.parameters[new] /\ IndexAt(last, new)' = pushed.index
      BY <2>4, <2>5, <2>3 DEF IndexAt
    <3>2. Withdraws(last, new)' => request.kind = "FundsWithdrawal"
      BY <3>1 DEF Withdraws, request
    <3> QED  BY <1>2, <2>1, <3>1, <3>2
  <2> SUFFICES ASSUME NEW k \in CallPositions, NEW l \in CallPositions,
                      NEW i \in Places(k)', NEW j \in Places(l)',
                      <<k, i>> # <<l, j>>, Withdraws(k, i)', Withdraws(l, j)'
               PROVE  IndexAt(k, i)' # IndexAt(l, j)'
    BY <1>4 DEF WithdrawalInv
  <2>8. CASE <<k, i>> # <<last, new>> /\ <<l, j>> # <<last, new>>
    BY <2>6, <2>8 DEF WithdrawalInv
  <2>9. CASE <<k, i>> = <<last, new>>
    BY <1>3, <2>6, <2>7, <2>9
  <2>10. CASE <<l, j>> = <<last, new>>
    BY <1>3, <2>6, <2>7, <2>10
  <2> QED  BY <2>8, <2>9, <2>10
<1> QED  BY <1>5, <1>6

LEMMA WithdrawalsStep ==
  ASSUME IInv, WithdrawalInv, [Next]_vars
  PROVE  WithdrawalInv'
<1>1. CASE Commands
  <2>1. PICK kind, arguments : NativeCommand(kind, arguments)
    BY <1>1 DEF Commands
  <2> QED  BY <2>1, PushedCall DEF NativeCommand, Ready
<1>2. ASSUME NEW parameters, BeginCall(parameters)
      PROVE  WithdrawalInv'
  <2>1. call = None /\ UNCHANGED commands /\ call' = [parameters |-> parameters, arguments |-> <<>>]
    BY <1>2 DEF BeginCall, Ready
  <2>2. \A k \in CallPositions' : \A i \in Places(k)' : k \in DOMAIN commands
    BY <2>1 DEF Places, CallAt
  <2> QED  BY <2>1, <2>2, NoNewPlaces DEF CallPositions, Places, CallAt
<1>3. CASE CallInput
  BY <1>3, CallInputWithdraws
<1>4. CASE CallCommand
  BY <1>4, PushedCall DEF CallCommand
<1>5. CASE \/ UNCHANGED vars \/ Finish
           \/ \E request \in Requests : Input(request)
           \/ \E object \in Fetched, mutability \in Mutability : ObjectFromOwner(object, mutability)
  BY <1>5, SameCalls DEF vars, Finish, Input, ObjectFromOwner
<1> QED  BY <1>1, <1>2, <1>3, <1>4, <1>5 DEF Next, FundsWithdrawalCoin

LEMMA OwnInputs ==
  ASSUME IInv, WithdrawalInv
  PROVE  WithdrawalsAreNotShared
<1> SUFFICES ASSUME NEW k \in DOMAIN commands, NEW l \in DOMAIN commands,
                    NEW i \in DOMAIN commands[k].parameters,
                    NEW j \in DOMAIN commands[l].parameters,
                    <<k, i>> # <<l, j>>,
                    ToCallArg(commands[k].parameters[i].value).kind = "FundsWithdrawal",
                    commands[k].arguments[i] = commands[l].arguments[j]
             PROVE  FALSE
  BY DEF WithdrawalsAreNotShared
<1> DEFINE index == commands[k].arguments[i].index
<1>1. ASSUME NEW m \in DOMAIN commands, NEW h \in DOMAIN commands[m].parameters,
             commands[m].arguments[h].index = index
      PROVE  /\ m \in CallPositions /\ h \in Places(m) /\ CallAt(m) = commands[m]
             /\ PushArg(commands[m].parameters[h]) = ToCallArg(commands[m].parameters[h].value)
             /\ inputs[index + 1] \in CallArg
             /\ Covers(inputs[index + 1], PushArg(commands[m].parameters[h]))
             /\ PushArg(commands[m].parameters[h]) \in CallArg
  <2>1. commands \in Seq(Command) /\ inputs \in Seq(CallArg)
    BY DEF IInv, TypeOK
  <2>2. m \in CallPositions /\ h \in Places(m) /\ CallAt(m) = commands[m]
    BY <2>1, ParametersServed DEF CallPositions, Places, CallAt
  <2>3. PushArg(commands[m].parameters[h]) # None /\ commands[m].parameters[h] \in Parameter
    BY <2>2 DEF IInv, CommandsInv, Allocated, Places, Typed
  <2>4. /\ PushArg(commands[m].parameters[h]) = ToCallArg(commands[m].parameters[h].value)
        /\ PushArg(commands[m].parameters[h]) \in CallArg
    BY <2>3, PushArgFacts
  <2>5. index \in Nat /\ index < Len(inputs)
    BY <1>1, <2>2, PlaceHasInput DEF IndexAt
  <2>6. Covers(inputs[index + 1], ToCallArg(commands[m].parameters[h].value))
    BY <1>1, ParametersServed
  <2> QED  BY <2>1, <2>2, <2>4, <2>5, <2>6
<1>2. Withdraws(k, i) /\ inputs[index + 1].kind = "FundsWithdrawal"
  BY <1>1, CoversKeepsObject DEF Withdraws
<1>3. commands[l].arguments[j].index = index
  OBVIOUS
<1>4. Withdraws(l, j)
  BY <1>1, <1>2, <1>3, CoversKeepsObject DEF Withdraws
<1> QED  BY <1>1, <1>2, <1>3, <1>4 DEF WithdrawalInv, IndexAt

\* Equal withdrawals are never merged, however many calls withdraw, share inputs or fail
\* half way: each has an input that no other parameter of any call has (push_input).
THEOREM WithdrawalsAreOwn == Spec => []WithdrawalsAreNotShared
<1>1. Spec => [](IInv /\ WithdrawalInv)
  <2>1. Init => WithdrawalInv
    BY WithdrawalsInitially
  <2>2. IInv /\ WithdrawalInv /\ [Next]_vars => WithdrawalInv'
    BY WithdrawalsStep
  <2> QED  BY <2>1, <2>2, Invariance, PTL DEF Spec
<1>2. IInv /\ WithdrawalInv => WithdrawalsAreNotShared
  BY OwnInputs
<1> QED  BY <1>1, <1>2, PTL

-----------------------------------------------------------------------------
(* The builder implements the abstract table of inputs *)

\* What the refinement mapping makes of a table.
Entry(table, id) ==
  IF Naming(table, id) = {} THEN None ELSE table[First(Naming(table, id))]

Values(table) == {table[i].bytes : i \in {j \in DOMAIN table : table[j].kind = "Pure"}}

Withdrawal(funds) == [kind |-> "FundsWithdrawal", funds |-> funds]

Count(table, funds) == Cardinality(Identical(table, Withdrawal(funds)))

LEMMA SameVocabulary ==
  /\ Table!CallArg = CallArg
  /\ Table!ObjectArg = ObjectArg
  /\ Table!PureArg = PureArg
  /\ Table!WithdrawalArg = WithdrawalArg
  /\ \A a, b : Table!SameObject(a, b) <=> SameObject(a, b)
  /\ \A a, b : Table!Covers(a, b) <=> Covers(a, b)
<1>1. /\ Table!Mutability = Mutability
      /\ Table!PureArg = PureArg
      /\ Table!WithdrawalArg = WithdrawalArg
      /\ Table!ReferenceArg = ReferenceArg
  BY DEF Table!Mutability, Mutability, Table!PureArg, PureArg, Table!WithdrawalArg, WithdrawalArg,
         Table!ReferenceArg, ReferenceArg
<1>2. Table!ObjectArg = ObjectArg
  BY <1>1 DEF Table!ObjectArg, ObjectArg, Table!SharedArg, SharedArg
<1>3. Table!CallArg = CallArg
  BY <1>1, <1>2 DEF Table!CallArg, CallArg
<1>4. \A a, b : Table!SameObject(a, b) <=> SameObject(a, b)
  BY DEF Table!SameObject, SameObject
<1>5. \A m : Table!Strength(m) = Strength(m)
  BY DEF Table!Strength, Strength
<1>6. \A a, b : Table!Covers(a, b) <=> Covers(a, b)
  BY <1>4, <1>5 DEF Table!Covers, Covers
<1> QED  BY <1>1, <1>2, <1>3, <1>4, <1>6

\* The entry of an object is the one that names it.
LEMMA EntryFacts ==
  ASSUME NEW table, TableOK(table), NEW id \in ObjectIds
  PROVE  /\ \A i \in DOMAIN table : ObjectId(table[i]) = id => Entry(table, id) = table[i]
         /\ (\A i \in DOMAIN table : ObjectId(table[i]) # id) => Entry(table, id) = None
<1>1. ASSUME NEW i \in DOMAIN table, ObjectId(table[i]) = id
      PROVE  Entry(table, id) = table[i]
  <2>1. i \in Naming(table, id) /\ table \in Seq(CallArg)
    BY <1>1 DEF Naming, TableOK
  <2>2. First(Naming(table, id)) \in Naming(table, id)
    BY <2>1, FirstIsMember DEF Naming
  <2>3. First(Naming(table, id)) = i
    <3>1. table[i] \in ObjectArg
      BY <1>1, <2>1, ObjectIdFacts
    <3> QED  BY <1>1, <2>2, <3>1 DEF Naming, TableOK, Distinct
  <2> QED  BY <2>1, <2>3 DEF Entry
<1>2. ASSUME \A i \in DOMAIN table : ObjectId(table[i]) # id
      PROVE  Entry(table, id) = None
  BY <1>2 DEF Entry, Naming
<1> QED  BY <1>1, <1>2

\* Appending a request changes the entry of its object, its value or its count.
LEMMA AppendedView ==
  ASSUME NEW table, TableOK(table), NEW request \in CallArg, TableOK(Append(table, request))
  PROVE  LET next == Append(table, request) IN
         /\ \A id \in ObjectIds :
              Entry(next, id) = IF ObjectId(request) = id THEN request ELSE Entry(table, id)
         /\ Values(next) = Values(table) \cup (IF request.kind = "Pure" THEN {request.bytes} ELSE {})
         /\ \A funds \in Withdrawals :
              Count(next, funds) = IF request = Withdrawal(funds)
                                     THEN Count(table, funds) + 1 ELSE Count(table, funds)
<1> DEFINE next == Append(table, request)
<1>1. /\ Len(table) \in Nat
      /\ DOMAIN next = 1..(Len(table) + 1) /\ DOMAIN table = 1..Len(table)
      /\ next[Len(table) + 1] = request
      /\ \A i \in DOMAIN table : next[i] = table[i] /\ i \in DOMAIN next
  BY DEF TableOK
<1>2. TableOK(next)
  OBVIOUS
<1> HIDE DEF next
<1>3. ASSUME NEW id \in ObjectIds
      PROVE  Entry(next, id) = IF ObjectId(request) = id THEN request ELSE Entry(table, id)
  <2>1. CASE ObjectId(request) = id
    <3>1. Len(table) + 1 \in DOMAIN next
      BY <1>1
    <3> QED  BY <1>1, <1>2, <2>1, <3>1, EntryFacts
  <2>2. CASE ObjectId(request) # id /\ \E i \in DOMAIN table : ObjectId(table[i]) = id
    BY <1>1, <1>2, <2>2, EntryFacts
  <2>3. CASE ObjectId(request) # id /\ \A i \in DOMAIN table : ObjectId(table[i]) # id
    <3>1. \A i \in DOMAIN next : ObjectId(next[i]) # id
      BY <1>1, <2>3
    <3> QED  BY <1>2, <2>3, <3>1, EntryFacts
  <2> QED  BY <2>1, <2>2, <2>3
<1>4. Values(next) = Values(table) \cup (IF request.kind = "Pure" THEN {request.bytes} ELSE {})
  <2>1. ASSUME NEW v \in Values(next)
        PROVE  v \in Values(table) \cup (IF request.kind = "Pure" THEN {request.bytes} ELSE {})
    BY <1>1, <2>1 DEF Values
  <2>2. Values(table) \subseteq Values(next)
    BY <1>1 DEF Values
  <2>3. request.kind = "Pure" => request.bytes \in Values(next)
    <3>1. Len(table) + 1 \in DOMAIN next
      BY <1>1
    <3> QED  BY <1>1, <3>1 DEF Values
  <2> QED  BY <2>1, <2>2, <2>3
<1>5. ASSUME NEW funds \in Withdrawals
      PROVE  Count(next, funds) = IF request = Withdrawal(funds)
                                    THEN Count(table, funds) + 1 ELSE Count(table, funds)
  <2> DEFINE before == Identical(table, Withdrawal(funds))
  <2>1. IsFiniteSet(before)
    <3>1. before \subseteq 1..Len(table)
      BY <1>1 DEF Identical
    <3>2. IsFiniteSet(1..Len(table))
      BY <1>1, FS_Interval
    <3> HIDE DEF before
    <3> QED  BY <3>1, <3>2, FS_Subset
  <2>2. Cardinality(before) \in Nat
    BY <2>1, FS_CardinalityType
  <2>3. CASE request = Withdrawal(funds)
    <3>1. Identical(next, Withdrawal(funds)) = before \cup {Len(table) + 1}
      BY <1>1, <2>3 DEF Identical
    <3>2. Len(table) + 1 \notin before
      BY <1>1 DEF Identical
    <3>3. Cardinality(before \cup {Len(table) + 1}) = Cardinality(before) + 1
      BY <2>1, <3>2, FS_AddElement
    <3> QED  BY <2>3, <3>1, <3>3 DEF Count
  <2>4. CASE request # Withdrawal(funds)
    <3>1. Identical(next, Withdrawal(funds)) = before
      BY <1>1, <2>4 DEF Identical
    <3> QED  BY <2>2, <2>4, <3>1 DEF Count
  <2> QED  BY <2>3, <2>4
<1> QED  BY <1>3, <1>4, <1>5 DEF next
Replaces(next, table, i, request) == next = [table EXCEPT ![i] = request]

\* Replacing a shared entry by a stronger request changes the entry of its object only.
LEMMA ReplacedView ==
  ASSUME NEW table, TableOK(table), NEW request \in CallArg, NEW i \in DOMAIN table,
         NEW next, TableOK(next), Replaces(next, table, i, request),
         table[i].kind = "Shared", request.kind = "Shared",
         ObjectId(table[i]) = ObjectId(request)
  PROVE  /\ \A id \in ObjectIds :
              Entry(next, id) = IF ObjectId(request) = id THEN request ELSE Entry(table, id)
         /\ Values(next) = Values(table)
         /\ \A funds \in Withdrawals : Count(next, funds) = Count(table, funds)
<1>1. /\ DOMAIN next = DOMAIN table
      /\ next[i] = request
      /\ \A j \in DOMAIN table : j # i => next[j] = table[j]
  BY DEF TableOK, Replaces
<1>2. ASSUME NEW id \in ObjectIds
      PROVE  Entry(next, id) = IF ObjectId(request) = id THEN request ELSE Entry(table, id)
  <2>1. CASE ObjectId(request) = id
    BY <1>1, <2>1, EntryFacts
  <2>2. CASE ObjectId(request) # id /\ \E j \in DOMAIN table : ObjectId(table[j]) = id
    <3>1. PICK j \in DOMAIN table : ObjectId(table[j]) = id
      BY <2>2
    <3>2. Entry(table, id) = table[j]
      BY <3>1, EntryFacts
    <3>3. j # i /\ next[j] = table[j] /\ j \in DOMAIN next
      BY <1>1, <2>2, <3>1
    <3>4. Entry(next, id) = next[j]
      BY <3>1, <3>3, EntryFacts
    <3> QED  BY <2>2, <3>2, <3>3, <3>4
  <2>3. CASE ObjectId(request) # id /\ \A j \in DOMAIN table : ObjectId(table[j]) # id
    BY <1>1, <2>3, EntryFacts
  <2> QED  BY <2>1, <2>2, <2>3
<1>3. Values(next) = Values(table)
  <2>1. \A j \in DOMAIN table : next[j].kind = "Pure" \/ table[j].kind = "Pure" => j # i
    BY <1>1
  <2>2. {j \in DOMAIN next : next[j].kind = "Pure"} = {j \in DOMAIN table : table[j].kind = "Pure"}
    BY <1>1, <2>1
  <2> QED  BY <1>1, <2>1, <2>2 DEF Values
<1>4. ASSUME NEW funds \in Withdrawals
      PROVE  Count(next, funds) = Count(table, funds)
  <2>1. table[i] # Withdrawal(funds) /\ request # Withdrawal(funds)
    BY DEF Withdrawal
  <2>2. Identical(next, Withdrawal(funds)) = Identical(table, Withdrawal(funds))
    BY <1>1, <2>1 DEF Identical
  <2> QED  BY <2>2 DEF Count
<1> QED  BY <1>2, <1>3, <1>4

\* push_input leaves the table alone, appends a request for something new, or replaces a
\* shared entry by a request it does not cover.
LEMMA PushInputShape ==
  ASSUME NEW table, TableOK(table), NEW request \in CallArg
  PROVE  LET next == PushInput(table, request).inputs IN
         \/ next = table
         \/ /\ next = Append(table, request)
            /\ request \in ObjectArg =>
                 \A i \in DOMAIN table : ObjectId(table[i]) # ObjectId(request)
         \/ \E i \in DOMAIN table :
              /\ next = [table EXCEPT ![i] = request]
              /\ request.kind = "Shared" /\ table[i].kind = "Shared"
              /\ ObjectId(table[i]) = ObjectId(request)
              /\ SameObject(table[i], request) /\ ~Covers(table[i], request)
<1> DEFINE next == PushInput(table, request).inputs
<1>0. table \in Seq(CallArg)
  BY DEF TableOK
<1>1. ASSUME NEW i PROVE Reused(table, i).inputs = table
  BY DEF Reused, Refused
<1>2. Pushed(table, request).inputs \in {table, Append(table, request)}
  BY DEF Pushed, Refused
<1>3. CASE request.kind \in {"FundsWithdrawal", "Pure"}
  <2>1. request \notin ObjectArg
    BY <1>3, ObjectIdFacts
  <2>2. next \in {table, Append(table, request)}
    BY <1>1, <1>2, <1>3 DEF PushInput
  <2> QED  BY <2>1, <2>2
<1>4. CASE request.kind \notin {"FundsWithdrawal", "Pure"} /\ Identical(table, request) # {}
  BY <1>1, <1>4 DEF PushInput
<1>5. CASE request.kind \notin {"FundsWithdrawal", "Pure"} /\ Identical(table, request) = {}
  <2> DEFINE naming == Naming(table, ObjectId(request))
             i == First(naming)
  <2>1. next = PushObject(table, request).inputs
    BY <1>5 DEF PushInput
  <2>2. CASE naming = {}
    <3>1. next \in {table, Append(table, request)}
      BY <1>2, <2>1, <2>2 DEF PushObject
    <3> QED  BY <2>2, <3>1 DEF Naming
  <2>3. CASE naming # {} /\ ~Unified(table[i], request)
    BY <2>1, <2>3 DEF PushObject, Refused
  <2>4. CASE naming # {} /\ Unified(table[i], request)
    <3>1. i \in naming
      BY <1>0, <2>4, FirstIsMember DEF Naming
    <3>2. i \in DOMAIN table /\ ObjectId(table[i]) = ObjectId(request) /\ table[i] \in CallArg
      BY <1>0, <3>1 DEF Naming
    <3>3. next = Reused([table EXCEPT ![i].mutability = Upgrade(@, request.mutability)], i).inputs
      BY <2>1, <2>4 DEF PushObject
    <3> HIDE DEF naming, i, next
    <3> DEFINE entry == [table[i] EXCEPT !.mutability = Upgrade(@, request.mutability)]
    <3>4. next = [table EXCEPT ![i] = entry]
      BY <3>2, <3>3 DEF Reused, Refused
    <3>5. /\ table[i] \in SharedArg /\ request \in SharedArg
          /\ table[i].kind = "Shared" /\ request.kind = "Shared"
          /\ SameObject(table[i], request)
      BY <2>4, <3>2 DEF Unified, SameObject, ObjectId, CallArg, ObjectArg, SharedArg, ReferenceArg,
                        PureArg, WithdrawalArg
    <3>6. entry = IF Covers(table[i], request) THEN table[i] ELSE request
      <4>1. Upgrade(table[i].mutability, request.mutability)
              = IF Strength(table[i].mutability) >= Strength(request.mutability)
                  THEN table[i].mutability ELSE request.mutability
        BY <3>5 DEF Upgrade, Strength, SharedArg, Mutability
      <4>2. Covers(table[i], request)
              <=> Strength(table[i].mutability) >= Strength(request.mutability)
        BY <3>5 DEF Covers
      <4>3. table[i].id = request.id /\ table[i].version = request.version
        BY <3>5 DEF SameObject
      <4> QED  BY <3>5, <4>1, <4>2, <4>3 DEF SharedArg
    <3> HIDE DEF entry
    <3>7. CASE Covers(table[i], request)
      <4>1. next = table
        BY <1>0, <3>2, <3>4, <3>6, <3>7
      <4> QED  BY <4>1 DEF next
    <3>8. CASE ~Covers(table[i], request)
      <4>1. next = [table EXCEPT ![i] = request]
        BY <3>4, <3>6, <3>8
      <4> QED  BY <3>2, <3>5, <3>8, <4>1 DEF next
    <3> QED  BY <3>7, <3>8
  <2> QED  BY <2>2, <2>3, <2>4
<1>6. request.kind \in {"FundsWithdrawal", "Pure"} \/ request.kind \notin {"FundsWithdrawal", "Pure"}
  OBVIOUS
<1> QED  BY <1>3, <1>4, <1>5
LEMMA TableInit ==
  ASSUME Init
  PROVE  Table!Init
<1>1. inputs = <<>> /\ DOMAIN inputs = {}
  BY DEF Init
<1>2. \A id \in ObjectIds : Naming(inputs, id) = {}
  BY <1>1 DEF Naming
<1>3. {j \in DOMAIN inputs : inputs[j].kind = "Pure"} = {}
  BY <1>1
<1>4. \A funds \in Withdrawals : Cardinality(Identical(inputs, Withdrawal(funds))) = 0
  <2>1. \A funds \in Withdrawals : Identical(inputs, Withdrawal(funds)) = {}
    BY <1>1 DEF Identical
  <2> QED  BY <2>1, FS_EmptySet
<1> QED  BY <1>2, <1>3, <1>4 DEF Table!Init, Withdrawal

\* The abstract step for a request, from what it changes in the view of the table.
LEMMA TableStep ==
  ASSUME NEW request \in CallArg,
         \A id \in ObjectIds :
           Entry(inputs', id) = IF ObjectId(request) = id THEN request ELSE Entry(inputs, id),
         Values(inputs')
           = Values(inputs) \cup (IF request.kind = "Pure" THEN {request.bytes} ELSE {}),
         \A funds \in Withdrawals :
           Count(inputs', funds) = IF request = Withdrawal(funds)
                                     THEN Count(inputs, funds) + 1 ELSE Count(inputs, funds),
         request \in ObjectArg =>
           \/ Entry(inputs, request.id) = None
           \/ /\ Entry(inputs, request.id) # None
              /\ SameObject(Entry(inputs, request.id), request)
              /\ ~Covers(Entry(inputs, request.id), request)
  PROVE  Table!Next
<1> USE SameVocabulary
<1>1. CASE request \in ObjectArg
  <2>1. request.id = ObjectId(request) /\ request.id \in ObjectIds
    BY <1>1 DEF ObjectId, ObjectArg, SharedArg, ReferenceArg
  <2>2. request.kind # "Pure" /\ request.kind # "FundsWithdrawal"
    BY <1>1, ObjectIdFacts
  <2>3. Values(inputs') = Values(inputs)
    BY <2>2
  <2>4. \A funds \in Withdrawals : Count(inputs', funds) = Count(inputs, funds)
    BY <2>2 DEF Withdrawal
  <2>5. Table!AddObject(request)
    BY <1>1, <2>1, <2>3, <2>4 DEF Table!AddObject, Entry, Values, Count, Withdrawal
  <2> QED  BY <2>5 DEF Table!Next
<1>2. CASE request \in PureArg
  <2>2. request.kind = "Pure" /\ ObjectId(request) = None
    BY <1>2 DEF PureArg, ObjectId
  <2>3. \A id \in ObjectIds : Entry(inputs', id) = Entry(inputs, id)
    BY <2>2
  <2>4. \A funds \in Withdrawals : Count(inputs', funds) = Count(inputs, funds)
    BY <2>2 DEF Withdrawal
  <2>5. Table!AddPure(request)
    BY <1>2, <2>2, <2>3, <2>4 DEF Table!AddPure, Entry, Values, Count, Withdrawal
  <2> QED  BY <2>5 DEF Table!Next
<1>3. CASE request \in WithdrawalArg
  <2>2. request.kind = "FundsWithdrawal" /\ ObjectId(request) = None
        /\ request = Withdrawal(request.funds) /\ request.funds \in Withdrawals
    BY <1>3 DEF WithdrawalArg, ObjectId, Withdrawal
  <2>3. \A id \in ObjectIds : Entry(inputs', id) = Entry(inputs, id)
    BY <2>2
  <2>4. Values(inputs') = Values(inputs)
    BY <2>2
  <2>5. \A funds \in Withdrawals :
          Count(inputs', funds)
            = IF funds = request.funds THEN Count(inputs, funds) + 1 ELSE Count(inputs, funds)
    BY <2>2 DEF Withdrawal
  <2>6. Table!AddWithdrawal(request)
    BY <1>3, <2>2, <2>3, <2>4, <2>5 DEF Table!AddWithdrawal, Entry, Values, Count, Withdrawal
  <2> QED  BY <2>6 DEF Table!Next
<1> QED  BY <1>1, <1>2, <1>3 DEF CallArg
\* One push is one abstract step, or none.
LEMMA PushRefines ==
  ASSUME TableOK(inputs), NEW request \in CallArg,
         inputs' = PushInput(inputs, request).inputs
  PROVE  UNCHANGED inputs \/ Table!Next
<1>1. TableOK(inputs')
  BY PushInputWell DEF PushedWell
<1>2. CASE inputs' = inputs
  BY <1>2
<1>3. CASE /\ inputs' = Append(inputs, request)
           /\ request \in ObjectArg =>
                \A i \in DOMAIN inputs : ObjectId(inputs[i]) # ObjectId(request)
  <2>1. /\ \A id \in ObjectIds :
             Entry(inputs', id) = IF ObjectId(request) = id THEN request ELSE Entry(inputs, id)
        /\ Values(inputs')
             = Values(inputs) \cup (IF request.kind = "Pure" THEN {request.bytes} ELSE {})
        /\ \A funds \in Withdrawals :
             Count(inputs', funds) = IF request = Withdrawal(funds)
                                       THEN Count(inputs, funds) + 1 ELSE Count(inputs, funds)
    BY <1>1, <1>3, AppendedView
  <2>2. request \in ObjectArg => Entry(inputs, request.id) = None
    <3>1. request \in ObjectArg => ObjectId(request) = request.id /\ request.id \in ObjectIds
      BY DEF ObjectId, ObjectArg, SharedArg, ReferenceArg
    <3> QED  BY <1>3, <3>1, EntryFacts
  <2> QED  BY <2>1, <2>2, TableStep
<1>4. ASSUME NEW i \in DOMAIN inputs,
             inputs' = [inputs EXCEPT ![i] = request],
             request.kind = "Shared", inputs[i].kind = "Shared",
             ObjectId(inputs[i]) = ObjectId(request),
             SameObject(inputs[i], request), ~Covers(inputs[i], request)
      PROVE  Table!Next
  <2>1. /\ \A id \in ObjectIds :
             Entry(inputs', id) = IF ObjectId(request) = id THEN request ELSE Entry(inputs, id)
        /\ Values(inputs') = Values(inputs)
        /\ \A funds \in Withdrawals : Count(inputs', funds) = Count(inputs, funds)
    <3> DEFINE next == inputs'
    <3>1. Replaces(next, inputs, i, request) /\ TableOK(next)
      BY <1>1, <1>4 DEF Replaces
    <3> HIDE DEF next
    <3>2. /\ \A id \in ObjectIds :
               Entry(next, id) = IF ObjectId(request) = id THEN request ELSE Entry(inputs, id)
          /\ Values(next) = Values(inputs)
          /\ \A funds \in Withdrawals : Count(next, funds) = Count(inputs, funds)
      BY <1>4, <3>1, ReplacedView
    <3> QED  BY <3>2 DEF next
  <2>2. /\ inputs[i] \in CallArg
        /\ request.id = ObjectId(request) /\ request.id \in ObjectIds
        /\ inputs[i] # None
    BY <1>4, ObjectIdFacts DEF TableOK, ObjectId
  <2>3. Entry(inputs, request.id) = inputs[i]
    BY <1>4, <2>2, EntryFacts
  <2>4. \A funds \in Withdrawals : request # Withdrawal(funds)
    BY <1>4 DEF Withdrawal
  <2> QED  BY <1>4, <2>1, <2>2, <2>3, <2>4, TableStep
<1> QED  BY <1>2, <1>3, <1>4, PushInputShape

\* The builder implements the abstract table: whatever is asked for, one entry for each
\* object with the join of the accesses asked for, and every withdrawal counted.
THEOREM Implementation == Spec => ImplementsInputTable
<1>1. Init => Table!Init
  BY TableInit
<1>2. IInv /\ [Next]_vars => UNCHANGED inputs \/ Table!Next
  <2> SUFFICES ASSUME IInv, [Next]_vars PROVE UNCHANGED inputs \/ Table!Next
    OBVIOUS
  <2>1. TableOK(inputs)
    BY DistinctInputs DEF IInv
  <2>2. ASSUME NEW request \in CallArg, Grant(PushInput(inputs, request), request)
        PROVE  UNCHANGED inputs \/ Table!Next
    BY <2>1, <2>2, PushRefines DEF Grant
  <2>3. ASSUME NEW request \in CallArg, Input(request) PROVE UNCHANGED inputs \/ Table!Next
    BY <2>2, <2>3 DEF Input
  <2>4. ASSUME NEW object \in Fetched, NEW mutability \in Mutability,
               ObjectFromOwner(object, mutability)
        PROVE  UNCHANGED inputs \/ Table!Next
    BY <2>3, <2>4, InputFromOwnerType DEF ObjectFromOwner
  <2>5. CASE CallInput
    <3> DEFINE request == PushArg(call.parameters[Len(call.arguments) + 1])
    <3>1. /\ call \in Progress /\ Converts(call.parameters)
          /\ Len(call.arguments) < Len(call.parameters)
          /\ Grant(PushInput(inputs, request), request)
      BY <2>5 DEF CallInput, IInv, TypeOK, CallInv
    <3>2. Len(call.arguments) + 1 \in DOMAIN call.parameters
      BY <3>1 DEF Progress
    <3>3. request \in CallArg
      BY <3>1, <3>2, PushArgFacts DEF Converts, Progress
    <3> HIDE DEF request
    <3> QED  BY <2>2, <3>1, <3>3
  <2>6. CASE Commands
    BY <2>6 DEF Commands, NativeCommand
  <2>7. ASSUME NEW parameters, BeginCall(parameters) PROVE UNCHANGED inputs
    BY <2>7 DEF BeginCall
  <2>8. ASSUME NEW funds \in Withdrawals, FundsWithdrawalCoin(funds) PROVE UNCHANGED inputs
    BY <2>7, <2>8 DEF FundsWithdrawalCoin
  <2>9. CASE CallCommand
    BY <2>9 DEF CallCommand
  <2>10. CASE Finish
    BY <2>10 DEF Finish
  <2>11. CASE UNCHANGED vars
    BY <2>11 DEF vars
  <2> QED  BY <2>3, <2>4, <2>5, <2>6, <2>7, <2>8, <2>9, <2>10, <2>11 DEF Next
<1>3. IInv /\ [Next]_vars =>
        [Table!Next]_<<[id \in ObjectIds |-> IF Naming(inputs, id) = {} THEN None
                                             ELSE inputs[First(Naming(inputs, id))]],
                       {inputs[i].bytes : i \in {j \in DOMAIN inputs : inputs[j].kind = "Pure"}},
                       [funds \in Withdrawals |->
                          Cardinality(Identical(inputs, [kind |-> "FundsWithdrawal",
                                                         funds |-> funds]))]>>
  <2>1. UNCHANGED inputs =>
          /\ \A id \in ObjectIds : Naming(inputs, id)' = Naming(inputs, id)
          /\ \A input : Identical(inputs, input)' = Identical(inputs, input)
    BY DEF Naming, Identical
  <2> QED  BY <1>2, <2>1 DEF Naming, Identical
<1> QED  BY <1>1, <1>3, Invariance, PTL DEF Spec, ImplementsInputTable, Table!Spec
=============================================================================
