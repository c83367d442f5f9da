---------------------------- MODULE MCPtbBuilder ----------------------------
(* Instances of PtbBuilder for TLC. *)
EXTENDS PtbBuilder

CONSTANTS clock, coin, word, sui

TwoObjects == {clock, coin}
OneValue == {word}
OneWithdrawal == {sui}

SharedInput(id, version, mutability) ==
  [kind |-> "Shared", id |-> id, version |-> version, mutability |-> mutability]
SharedValue(id, version, mutability) ==
  [type |-> "SharedMoveObject", id |-> id, version |-> version, mutability |-> mutability]

\* One object asked for in every way, beside withdrawals; the calls bring the rest.
EveryKind ==
  {SharedInput(clock, 1, "Immutable"), SharedInput(clock, 1, "Mutable"),
   SharedInput(clock, 2, "Mutable"),
   [kind |-> "ImmutableOrOwned", id |-> clock, version |-> 2],
   [kind |-> "Receiving", id |-> clock, version |-> 2],
   [kind |-> "FundsWithdrawal", funds |-> sui]}

\* Objects as RPC returns them: shared, owned, and one that is no input.
EveryOwner ==
  {[id |-> clock, version |-> 2, owner |-> [kind |-> kind, start |-> 1]] :
     kind \in {"Shared", "Address", "Object"}}

Arg(value) == [value |-> value, mutable |-> FALSE]
ArgMut(value) == [value |-> value, mutable |-> TRUE]

\* Calls that share an object, ask for more of it, and whose later argument may fail.
ObjectSpecs ==
  {<<Arg(SharedValue(clock, 1, "Immutable")), Arg([type |-> "MoveType", bytes |-> word])>>,
   <<Arg([type |-> "MoveType", bytes |-> word]), ArgMut(SharedValue(clock, 1, "Mutable"))>>,
   <<ArgMut(SharedValue(clock, 1, "NonExclusiveWrite")),
     ArgMut([type |-> "MoveObject", id |-> coin, version |-> 1])>>,
   <<ArgMut(SharedValue(clock, 1, "Immutable"))>>,
   <<Arg([type |-> "ReceivingMoveObject", id |-> coin, version |-> 2])>>}
=============================================================================
