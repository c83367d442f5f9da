------------------------------ MODULE CallArgs ------------------------------
(***************************************************************************)
(* Inputs of a programmable transaction (CallArg) and the conversion of    *)
(* typed values and object handles into them (sui-move-call).              *)
(***************************************************************************)
EXTENDS Integers, Sequences

CONSTANTS ObjectIds,   \* object ids
          Versions,    \* object versions, and with them digests
          Pures,       \* BCS encoded values
          Withdrawals, \* amount and coin type of a withdrawal of funds
          None         \* no input

Mutability == {"Immutable", "NonExclusiveWrite", "Mutable"}

Writable == {"NonExclusiveWrite", "Mutable"}

SharedArg == [kind : {"Shared"}, id : ObjectIds, version : Versions, mutability : Mutability]

ReferenceArg == [kind : {"ImmutableOrOwned", "Receiving"}, id : ObjectIds, version : Versions]

PureArg == [kind : {"Pure"}, bytes : Pures]

WithdrawalArg == [kind : {"FundsWithdrawal"}, funds : Withdrawals]

ObjectArg == SharedArg \cup ReferenceArg

CallArg == ObjectArg \cup PureArg \cup WithdrawalArg

ASSUME CallArgAssumption == None \notin CallArg \cup ObjectIds

(***************************************************************************)
(* Mutability is ordered: a request for less is met by an input with more. *)
(***************************************************************************)

Strength(mutability) ==
  CASE mutability = "Immutable"         -> 0
    [] mutability = "NonExclusiveWrite" -> 1
    [] mutability = "Mutable"           -> 2

\* The same input but for the mutability asked for.
SameObject(a, b) ==
  IF a.kind = "Shared" /\ b.kind = "Shared"
    THEN a.id = b.id /\ a.version = b.version
    ELSE a = b

\* Whoever asked for request can use input in its place.
Covers(input, request) ==
  /\ SameObject(input, request)
  /\ input.kind = "Shared" => Strength(input.mutability) >= Strength(request.mutability)

(***************************************************************************)
(* What a parameter can be given: a value of a MoveType, which encodes to  *)
(* a pure value, an object handle, which carries the input it stands for,  *)
(* or a raw input.  A spec lists parameters, each with the value given for *)
(* it and whether the Move function takes it by &mut.                      *)
(***************************************************************************)

Value == [type : {"MoveType"}, bytes : Pures]
         \cup [type : {"MoveObject", "ReceivingMoveObject"}, id : ObjectIds, version : Versions]
         \cup [type : {"SharedMoveObject"}, id : ObjectIds, version : Versions, mutability : Mutability]
         \cup [type : {"CallArg"}, input : CallArg]

ToCallArg(value) ==
  CASE value.type = "MoveType" -> [kind |-> "Pure", bytes |-> value.bytes]
    [] value.type = "MoveObject" ->
         [kind |-> "ImmutableOrOwned", id |-> value.id, version |-> value.version]
    [] value.type = "ReceivingMoveObject" ->
         [kind |-> "Receiving", id |-> value.id, version |-> value.version]
    [] value.type = "SharedMoveObject" ->
         [kind |-> "Shared", id |-> value.id, version |-> value.version,
          mutability |-> value.mutability]
    [] value.type = "CallArg" -> value.input

\* Mutant of ToCallArgMutable: a shared handle is not checked.
ToCallArgUnchecked(value) == ToCallArg(value)

\* SharedMutability: a shared handle for a &mut parameter must be writable.
ToCallArgMutable(value) ==
  IF value.type = "SharedMoveObject" /\ value.mutability \notin Writable
    THEN None ELSE ToCallArg(value)

Parameter == [value : Value, mutable : BOOLEAN]

\* The parameters generated code can have: only object handles are passed by &mut.
WellTyped(parameter) == parameter.mutable => parameter.value.type \notin {"MoveType", "CallArg"}

\* push_arg, push_arg_mut and push_input
PushArg(parameter) ==
  IF parameter.mutable THEN ToCallArgMutable(parameter.value) ELSE ToCallArg(parameter.value)

\* A spec can be built of parameters: all of them convert.
Converts(parameters) == \A i \in DOMAIN parameters : PushArg(parameters[i]) # None
=============================================================================
