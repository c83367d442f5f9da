----------------------------- MODULE MCBindings -----------------------------
(* Instances of Bindings for TLC. *)
EXTENDS Bindings

CONSTANTS app, framework, Pool, Ticket

TwoPackages == {app, framework}
TwoNames == {Pool, Ticket}
PoolFirst == <<Pool, Ticket>>
ManyVersions == [p \in Packages |-> IF p = app THEN 3 ELSE 1]

AppPool == [package |-> app, name |-> Pool]
AppTicket == [package |-> app, name |-> Ticket]
FrameworkPool == [package |-> framework, name |-> Pool]

TwoFunctions == <<"deposit", "redeem">>
TwoSignatures ==
  [f \in {"deposit", "redeem"} |->
     [package |-> app,
      parameters |-> IF f = "deposit"
                       THEN <<DatatypeRef(AppPool, TRUE), DatatypeRef(FrameworkPool, TRUE), Scalar>>
                       ELSE <<TxContext, DatatypeRef(AppTicket, FALSE)>>]]

-----------------------------------------------------------------------------
(* Datatypes: an object, copies that hold one another, what is never Copy *)

Shape(key, copy, generic, fields) ==
  [key |-> key, copy |-> copy, generic |-> generic, fields |-> fields]

ShapesOfPool == {Shape(TRUE, FALSE, FALSE, {Scalar}),
                 Shape(FALSE, TRUE, FALSE, {Scalar, DatatypeRef(AppTicket, FALSE)})}
ShapesOfTicket == {Shape(FALSE, TRUE, FALSE, {Scalar}),
                   Shape(FALSE, TRUE, TRUE, {Scalar})}

SomeShapes == [id \in Id |-> CASE id = AppPool -> ShapesOfPool
                               [] id = AppTicket -> ShapesOfTicket
                               [] id = FrameworkPool -> {Shape(TRUE, FALSE, FALSE, {Scalar})}
                               [] OTHER -> {}]

\* The versions of the application brought to one address, as for a local network.
OneAddress == {[address \in {a \in Address : a.package = app} |->
                  [package |-> app, version |-> 1]]}

\* The instance is one the theorems are about.
ASSUME InstanceRewrites == RewritingsKeepPackages /\ RewritingsToFirst

-----------------------------------------------------------------------------
(* Names: clashes, keywords, lists of another length, two files for one module *)

SomeWords == {"arg0", "arg1", "arg2", "_", "self", "spec"}
ThreeArgs == <<"arg0", "arg1", "arg2">>

File(f, list) == [readable |-> TRUE, names |-> [g \in {f} |-> list]]
Unreadable == [readable |-> FALSE, names |-> <<>>]

Clashing == File("deposit", <<Plain("self"), [word |-> "self", tail |-> 1], Plain("arg1")>>)
Wild == File("deposit", <<Plain("arg2"), Plain("_"), Plain("arg2")>>)
OneName == File("redeem", <<Plain("self")>>)
WithSpec == File("redeem", <<Plain("_"), Plain("spec")>>)

SomeDirectories == {{Clashing, WithSpec}, {Wild, OneName}, {Unreadable, Wild}, {}}
=============================================================================
