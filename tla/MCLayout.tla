------------------------------- MODULE MCLayout -------------------------------
(* Instances of Layout for TLC. *)
EXTENDS Layout

SomeModules == {"a", "b", "a__b", "sm", "crate", "mod", "T0", "TypeOrigins"}
Values == {Name("call_package"), Name("with_packages")}
Types == {Name("TypeOrigins")}
OnlyImported == {Name("call_package")}
Prelude == {Name("String"), Name("Some")}
ForTxExt == {Name("sui_sdk_types")}
ForTypes == {Name("Box")}
ForCalls == {Name("Result"), Name("Ok")}
FromRust == ForTypes \cup ForCalls \cup {Name("Vec"), Name("None")} \cup Prelude \cup ForTxExt
OfValues == {Name("Ok"), Name("Some"), Name("None")}
NoRaw == {Name("crate"), Name("Self")}
TheSigner == Name("S")
TheSpec == Name("spec")
Phantoms == {Name("phantom_x")}
TheSm == Name("sm")
TheSmCall == Name("sm_call")
TheTxExt == Name("TxExt")

\* a__b and f, a and b__f are joined to the same name.
JoinedName(m, name) == IF m = "a__b" /\ name = Name("f") THEN <<"a", Name("b__f")>> ELSE <<m, name>>

Struct(word) ==
  [name |-> Name(word), kind |-> "struct", generics |-> {}, uses |-> {}, members |-> {}, takes |-> {}]
Generic(d) == [d EXCEPT !.generics = {Name("T0")}]
Function(name, uses) ==
  [name |-> name, callable |-> TRUE, generics |-> {}, uses |-> uses, params |-> {}, takes |-> {}]
f == Name("f")

\* A plain struct, names taken from Rust, type parameters that hide a datatype, fields.
DatatypeSets(m) ==
  {{}, {Struct("S")}, {Struct("Result")}, {Struct("String")}, {Struct("TxExt")}, {Struct("Box")},
   {Struct("Ok")}, {Struct("Self")}, {Struct("Vec")}, {Struct("Vec"), [Struct("S") EXCEPT !.takes = {Name("Vec")}]},
   {Generic(Struct("T0"))}, {Struct("T0"), [Generic(Struct("S")) EXCEPT !.uses = {<<m, Name("T0")>>}]}}
  \cup {{[Struct("S") EXCEPT !.members = {Name(word)}]} : word \in {"phantom_x", "crate"}}

FunctionSets(m, datatypes) ==
  LET uses == {<<m, d.name>> : d \in datatypes} IN
  {{}, {Function(f, {})}, {Function(f, uses)}, {Generic(Function(f, uses))},
   {[Function(f, {}) EXCEPT !.takes = {Name("Vec")}]},
   {Function(f, {}), Function(Target(f), {})},
   {Function(f, {}), [Function(Target(f), {}) EXCEPT !.callable = FALSE]}}
  \cup {{[Function(f, {}) EXCEPT !.params = {name}]} : name \in {f, Target(f), Name("spec")}}
  \cup {{Function(Name(word), {})} : word \in {"call_package", "with_packages", "crate", "Ok", "Some", "Box"}}

\* Any functions beside plain datatypes, any datatypes beside plain functions.
ModulesFor(m) ==
  UNION {{[datatypes |-> ds, functions |-> fs] : fs \in FunctionSets(m, ds)} :
           ds \in {{}, {Struct("S")}, {Struct("T0")}}}
  \cup {[datatypes |-> ds, functions |-> fs] :
           ds \in DatatypeSets(m), fs \in {{}, {Function(f, {})}, {[Function(f, {}) EXCEPT !.takes = {Name("Vec")}]}}}

Single(m) == {[x \in {m} |-> module] : module \in ModulesFor(m)}

Empty == [datatypes |-> {}, functions |-> {}]

\* A second module that is plain, shares a datatype or a function, or is needed.
Others ==
  {Empty,
   [Empty EXCEPT !.datatypes = {Struct("S")}],
   [Empty EXCEPT !.functions = {Function(f, {})}],
   [Empty EXCEPT !.functions = {Function(Target(f), {})}],
   [Empty EXCEPT !.datatypes = {Struct("Box")}],
   [Empty EXCEPT !.functions = {[Function(Name("g"), {}) EXCEPT !.takes = {Name("Vec")}]}],
   [datatypes |-> {[Struct("TypeOrigins") EXCEPT !.kind = "enum"]}, functions |-> {Function(Name("g"), {})}]}

Firsts ==
  {[Empty EXCEPT !.datatypes = {Struct(word)}] : word \in {"S", "Vec"}}
  \cup {[Empty EXCEPT !.functions = fs] : fs \in FunctionSets("a", {})}
  \cup {[datatypes |-> {Struct("S")}, functions |-> {Function(f, {<<"a", Name("S")>>})}]}

Two(first, second) == [x \in {"a", "b"} |-> IF x = "a" THEN first ELSE second]
T0InB == {<<"b", Name("T0")>>}

SomePackages ==
  Single("a") \cup {Two(first, second) : first \in Firsts, second \in Others}
  \* Type parameters hide a datatype of another module only where it is named alone.
  \cup {Two(first, [Empty EXCEPT !.datatypes = {Struct("T0")}]) :
           first \in {[Empty EXCEPT !.datatypes = {[Generic(Struct("S")) EXCEPT !.uses = T0InB]}],
                     [Empty EXCEPT !.functions = {Generic(Function(f, T0InB))}]}}
  \* A function takes the name of a value that only datatypes of another module take.
  \cup {Two([Empty EXCEPT !.datatypes = {[Struct("S") EXCEPT !.takes = {Name("None")}]}],
            [Empty EXCEPT !.functions = {Function(Name("None"), {})}])}
  \cup {[x \in {m} |-> module] : m \in {"mod", "sm"}, module \in Others}
  \cup {[x \in {"a", "a__b"} |->
           [datatypes |-> {}, functions |-> {Function(IF x = "a" THEN Name(word) ELSE f, {})}]] :
           word \in {"b__f", "g"}}
  \cup {[x \in {"crate", "a"} |-> module] : module \in Others}
  \cup {[x \in {"TypeOrigins"} |-> Empty]}
  \cup {[x \in {"T0"} |-> module] : module \in {[Empty EXCEPT !.functions = {Generic(Function(f, {}))}],
                                             [Empty EXCEPT !.datatypes = {Struct("T0")}]}}

Default == [emit_types |-> TRUE, emit_calls |-> TRUE, emit_call_specs |-> TRUE, emit_tx_ext |-> FALSE,
            flatten |-> FALSE, use_aliases |-> TRUE, emit_reexports |-> TRUE]

FewOptions == {Default, [Default EXCEPT !.flatten = TRUE, !.emit_tx_ext = TRUE, !.emit_reexports = FALSE]}

=============================================================================
