----------------------------- MODULE PtbBuilder -----------------------------
(***************************************************************************)
(* PtbBuilder (sui-move-ptb): the input table and the command list of a    *)
(* programmable transaction under construction, and the arguments handed   *)
(* out for them.  Every method takes &mut self, so methods never overlap;  *)
(* but call allocates the inputs of its spec one after the other and stops *)
(* at the first that fails, so each allocation is a step here, and no      *)
(* other method is enabled until the call is over.                         *)
(*                                                                         *)
(* Indices count from 0: entry i of the table is inputs[i + 1].            *)
(***************************************************************************)
EXTENDS CallArgs, FiniteSets

CONSTANTS MaxInput,     \* u16::MAX, the largest index of an input
          MaxCommand,   \* u16::MAX, the largest index of a result
          Requests,     \* the inputs asked for one at a time
          Fetched,      \* objects with their owner as RPC returns them
          Specs,        \* the parameter lists of the calls
          MaxArguments  \* bound on the arguments of a command given arguments

OwnerRecord == [kind : {"Address", "Object", "Immutable", "Shared", "ConsensusAddress"},
                start : Versions]

FetchedObject == [id : ObjectIds, version : Versions, owner : OwnerRecord]

ASSUME BuilderAssumption ==
  /\ None \notin {"TooManyInputs", "DuplicateObjectRefInput"}
  /\ MaxInput \in Nat
  /\ MaxCommand \in Nat
  /\ MaxArguments \in Nat
  /\ Requests \subseteq CallArg
  /\ Fetched \subseteq FetchedObject
  /\ Specs \subseteq Seq(Parameter)
  /\ \A parameters \in Specs : \A i \in DOMAIN parameters : WellTyped(parameters[i])

VARIABLES inputs,    \* PtbBuilder::inputs
          commands,  \* PtbBuilder::commands
          call,      \* the call in progress, or None
          issued,    \* history: the arguments returned to the caller
          granted,   \* history: the inputs asked for and the index each was given
          finished   \* whether finish consumed the builder

vars == <<inputs, commands, call, issued, granted, finished>>

Argument == [kind : {"Gas", "Input", "Result", "NestedResult"}, index : Nat]

Gas == [kind |-> "Gas", index |-> 0]
InputAt(index) == [kind |-> "Input", index |-> index]
ResultOf(index) == [kind |-> "Result", index |-> index]

\* The position inside the result is left out.
NestedResult(argument) ==
  IF argument.kind = "Result" THEN [argument EXCEPT !.kind = "NestedResult"] ELSE None

\* The arguments a caller can build a command from.
Usable == issued \cup ({NestedResult(argument) : argument \in issued} \ {None})

-----------------------------------------------------------------------------
(* The input table *)

\* call_arg_object_id
ObjectId(input) ==
  IF input.kind \in {"Shared", "ImmutableOrOwned", "Receiving"} THEN input.id ELSE None

\* position: the first entry of the table among entries.
First(entries) == CHOOSE i \in entries : \A j \in entries : i <= j

\* Mutant of Upgrade: the latest request decides.
UpgradeToRequested(existing, requested) == requested

\* upgrade_shared_mutability
Upgrade(existing, requested) ==
  IF "Mutable" \in {existing, requested} THEN "Mutable"
  ELSE IF "NonExclusiveWrite" \in {existing, requested} THEN "NonExclusiveWrite"
  ELSE "Immutable"

Refused(table, error) == [inputs |-> table, index |-> 0, error |-> error]

\* Mutant of Pushed: off by one at the largest index.
PushedBeyond(table, input) ==
  IF Len(table) <= MaxInput + 1
    THEN [inputs |-> Append(table, input), index |-> Len(table), error |-> None]
    ELSE Refused(table, "TooManyInputs")

Pushed(table, input) ==
  IF Len(table) <= MaxInput
    THEN [inputs |-> Append(table, input), index |-> Len(table), error |-> None]
    ELSE Refused(table, "TooManyInputs")

Reused(table, i) ==
  IF i - 1 <= MaxInput
    THEN [inputs |-> table, index |-> i - 1, error |-> None]
    ELSE Refused(table, "TooManyInputs")

Identical(table, input) == {i \in DOMAIN table : table[i] = input}

\* Mutant of Naming: receiving inputs are not looked at.
NamingInputs(table, id) ==
  {i \in DOMAIN table : table[i].kind # "Receiving" /\ ObjectId(table[i]) = id}

Naming(table, id) == {i \in DOMAIN table : ObjectId(table[i]) = id}

\* A shared entry and a shared request with one initial version are unified.
Unified(existing, request) ==
  existing.kind = "Shared" /\ request.kind = "Shared" /\ existing.version = request.version

\* push_input for an object without an identical entry.
PushObject(table, request) ==
  LET naming == Naming(table, ObjectId(request))
      i == First(naming)
  IN  IF naming = {} THEN Pushed(table, request)
      ELSE IF Unified(table[i], request)
        THEN Reused([table EXCEPT ![i].mutability = Upgrade(@, request.mutability)], i)
        ELSE Refused(table, "DuplicateObjectRefInput")

\* Mutant of PushInput: identical inputs are always reused.
PushInputOnce(table, request) ==
  LET identical == Identical(table, request)
  IN  IF identical # {} THEN Reused(table, First(identical))
      ELSE IF request.kind \in {"Pure", "FundsWithdrawal"} THEN Pushed(table, request)
      ELSE PushObject(table, request)

PushInput(table, request) ==
  LET identical == Identical(table, request)
  IN  IF request.kind = "FundsWithdrawal" THEN Pushed(table, request)
      ELSE IF identical # {} THEN Reused(table, First(identical))
      ELSE IF request.kind = "Pure" THEN Pushed(table, request)
      ELSE PushObject(table, request)

Grant(pushed, request) ==
  /\ inputs' = pushed.inputs
  /\ granted' = IF pushed.error = None
                  THEN granted \cup {[request |-> request, index |-> pushed.index]}
                  ELSE granted

Ready == call = None /\ ~finished

\* input, and with it arg, pure_bcs, owned_object, shared_object, shared_object_by_id
\* and clock.
Input(request) ==
  /\ Ready
  /\ LET pushed == PushInput(inputs, request) IN
       /\ Grant(pushed, request)
       /\ issued' = IF pushed.error = None THEN issued \cup {InputAt(pushed.index)} ELSE issued
  /\ UNCHANGED <<commands, call, finished>>

\* The input an object is passed as, or None (UnsupportedOwner).
InputFromOwner(object, mutability) ==
  CASE object.owner.kind \in {"Shared", "ConsensusAddress"} ->
         [kind |-> "Shared", id |-> object.id, version |-> object.owner.start,
          mutability |-> mutability]
    [] object.owner.kind \in {"Immutable", "Address"} /\ mutability = "Immutable" ->
         [kind |-> "ImmutableOrOwned", id |-> object.id, version |-> object.version]
    [] OTHER -> None

ObjectFromOwner(object, mutability) ==
  /\ InputFromOwner(object, mutability) # None
  /\ Input(InputFromOwner(object, mutability))

-----------------------------------------------------------------------------
(* Commands *)

\* The commands whose result is returned to the caller.
WithResult == {"MoveCall", "SplitCoins", "MakeMoveVector", "Publish"}

\* Mutant of PushCommand: the result is numbered after the push.
PushCommandNext(command) ==
  IF Len(commands) <= MaxCommand
    THEN /\ commands' = Append(commands, command)
         /\ issued' = IF command.kind \in WithResult
                        THEN issued \cup {ResultOf(Len(commands) + 1)} ELSE issued
    ELSE UNCHANGED <<commands, issued>>

\* push_command: TooManyCommands leaves everything as it was.
PushCommand(command) ==
  IF Len(commands) <= MaxCommand
    THEN /\ commands' = Append(commands, command)
         /\ issued' = IF command.kind \in WithResult
                        THEN issued \cup {ResultOf(Len(commands))} ELSE issued
    ELSE UNCHANGED <<commands, issued>>

\* call_target, transfer_objects, split_coins, merge_coins, make_move_vector,
\* move_vector and publish.
NativeCommand(kind, arguments) ==
  /\ Ready
  /\ PushCommand([kind |-> kind, parameters |-> <<>>, arguments |-> arguments])
  /\ UNCHANGED <<inputs, call, granted, finished>>

Commands ==
  \E kind \in WithResult \cup {"TransferObjects", "MergeCoins"}, n \in 0..MaxArguments :
    \E arguments \in [1..n -> Usable] :
      /\ kind = "Publish" => n = 0
      /\ kind \in {"TransferObjects", "SplitCoins", "MergeCoins"} => n > 0
      /\ NativeCommand(kind, arguments)

\* call with a spec that converted; arguments are those allocated so far.
BeginCall(parameters) ==
  /\ Ready
  /\ Converts(parameters)
  /\ call' = [parameters |-> parameters, arguments |-> <<>>]
  /\ UNCHANGED <<inputs, commands, issued, granted, finished>>

\* funds_withdrawal_coin: the withdrawal, then a MoveCall of coin::redeem_funds on it.
FundsWithdrawalCoin(funds) ==
  LET withdrawal == [type |-> "CallArg", input |-> [kind |-> "FundsWithdrawal", funds |-> funds]]
  IN  BeginCall(<<[value |-> withdrawal, mutable |-> FALSE]>>)

\* The next input of the spec; an error ends the call and keeps the inputs before it.
CallInput ==
  /\ call # None
  /\ Len(call.arguments) < Len(call.parameters)
  /\ LET request == PushArg(call.parameters[Len(call.arguments) + 1])
         pushed == PushInput(inputs, request)
     IN  /\ Grant(pushed, request)
         /\ call' = IF pushed.error = None
                      THEN [call EXCEPT !.arguments = Append(@, InputAt(pushed.index))]
                      ELSE None
  /\ UNCHANGED <<commands, issued, finished>>

\* Every input is allocated: the MoveCall is pushed.
CallCommand ==
  /\ call # None
  /\ Len(call.arguments) = Len(call.parameters)
  /\ PushCommand([kind |-> "MoveCall", parameters |-> call.parameters,
                  arguments |-> call.arguments])
  /\ call' = None
  /\ UNCHANGED <<inputs, granted, finished>>

Finish ==
  /\ Ready
  /\ finished' = TRUE
  /\ UNCHANGED <<inputs, commands, call, issued, granted>>

-----------------------------------------------------------------------------

Init == /\ inputs = <<>>
        /\ commands = <<>>
        /\ call = None
        /\ issued = {Gas}
        /\ granted = {}
        /\ finished = FALSE

Next == \/ \E request \in Requests : Input(request)
        \/ \E object \in Fetched, mutability \in Mutability : ObjectFromOwner(object, mutability)
        \/ Commands
        \/ \E parameters \in Specs : BeginCall(parameters)
        \/ \E funds \in Withdrawals : FundsWithdrawalCoin(funds)
        \/ CallInput
        \/ CallCommand
        \/ Finish

Spec == Init /\ [][Next]_vars

-----------------------------------------------------------------------------
(* Properties *)

Command == [kind : WithResult \cup {"TransferObjects", "MergeCoins"},
            parameters : Seq(Parameter), arguments : Seq(Argument)]

Progress == [parameters : Seq(Parameter), arguments : Seq(Argument)]

Granted == [request : CallArg, index : 0..MaxInput]

\* The builder and the histories have their types, and every index fits in a u16.
TypeOK ==
  /\ inputs \in Seq(CallArg) /\ Len(inputs) <= MaxInput + 1
  /\ commands \in Seq(Command) /\ Len(commands) <= MaxCommand + 1
  /\ call \in Progress \cup {None}
  /\ issued \subseteq Argument
  /\ granted \subseteq Granted
  /\ finished \in BOOLEAN

\* An object id appears in one input, whatever kinds of input it was asked for as, and
\* an input appears once unless it is a withdrawal of funds (push_input).
InputsAreDistinct ==
  \A i, j \in DOMAIN inputs : i # j =>
    /\ inputs[i].kind \in {"Shared", "ImmutableOrOwned", "Receiving"} =>
         ObjectId(inputs[i]) # ObjectId(inputs[j])
    /\ inputs[i] = inputs[j] => inputs[i].kind = "FundsWithdrawal"

\* Every index ever given out still names an input its caller can use in place of what
\* it asked for: later requests, failed calls among them, never move an input or take
\* access back from it.
GrantsHold ==
  \A grant \in granted :
    /\ grant.index < Len(inputs)
    /\ Covers(inputs[grant.index + 1], grant.request)

\* No input has an access nobody asked for: it is the strongest of the requests it was
\* given to, not more.
AccessWasAskedFor ==
  \A i \in DOMAIN inputs : [request |-> inputs[i], index |-> i - 1] \in granted

\* The inputs of a call are, in the transaction as built so far, what the call was given,
\* in the order of its parameters, and the shared object of a &mut parameter is writable
\* (push_arg_mut, call, upgrade_shared_mutability).
CallsGetTheirArguments ==
  \A k \in DOMAIN commands : \A i \in DOMAIN commands[k].parameters :
    LET parameter == commands[k].parameters[i]
        argument == commands[k].arguments[i]
        input == inputs[argument.index + 1]
    IN  /\ i \in DOMAIN commands[k].arguments
        /\ argument.kind = "Input" /\ argument.index < Len(inputs)
        /\ Covers(input, ToCallArg(parameter.value))
        /\ parameter.mutable /\ input.kind = "Shared" => input.mutability \in Writable

\* A command refers to inputs of the table and to results of commands before it, when
\* its arguments are ones the builder returned.
ArgumentsReferBack ==
  \A k \in DOMAIN commands : \A i \in DOMAIN commands[k].arguments :
    LET argument == commands[k].arguments[i] IN
      /\ argument.kind = "Input" => argument.index < Len(inputs)
      /\ argument.kind \in {"Result", "NestedResult"} =>
           /\ argument.index < k - 1
           /\ commands[argument.index + 1].kind \in WithResult

\* Two calls that withdraw funds, or one that does so twice, get an input each: equal
\* withdrawals are never merged (push_input).
WithdrawalsAreNotShared ==
  \A k, l \in DOMAIN commands :
    \A i \in DOMAIN commands[k].parameters, j \in DOMAIN commands[l].parameters :
      /\ <<k, i>> # <<l, j>>
      /\ ToCallArg(commands[k].parameters[i].value).kind = "FundsWithdrawal"
      => commands[k].arguments[i] # commands[l].arguments[j]

\* The builder implements the abstract table of inputs.
Table ==
  INSTANCE InputTable
    WITH objects <- [id \in ObjectIds |-> IF Naming(inputs, id) = {} THEN None
                                          ELSE inputs[First(Naming(inputs, id))]],
         values <- {inputs[i].bytes : i \in {j \in DOMAIN inputs : inputs[j].kind = "Pure"}},
         withdrawals <- [funds \in Withdrawals |->
                           Cardinality(Identical(inputs, [kind |-> "FundsWithdrawal",
                                                          funds |-> funds]))]

\* Every step of the builder adds at most one input to the abstract table, with the
\* access that joins it to what was asked before, or leaves the table alone.
ImplementsInputTable == Table!Spec
=============================================================================
