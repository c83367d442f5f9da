------------------------------- MODULE Layout -------------------------------
(***************************************************************************)
(* The Rust source that sui-move-codegen makes of a package: which items   *)
(* the options put into which Rust module, as one source or as a directory *)
(* of files written one after the other, and whether rustc finds the names *)
(* in it.  What it asks of the bounds of type parameters is in Markers.    *)
(***************************************************************************)
EXTENDS Integers, Sequences, FiniteSets

CONSTANTS Modules,      \* names of modules
          Packages,     \* packages, see below
          AllOptions,   \* the RenderOptions tried
          SplitOptions, \* those tried for directories
          MaxRenders,   \* bound on the renderings
          Root,         \* the package root among the Rust modules
          Mod,          \* the name mod: its file is the root's
          Methods,      \* the scope of the TxExt methods
          Unrawable,    \* crate, self, Self and super
          RootValues, RootTypes, \* items of every root
          Imported,     \* those of them a module imports: call_package, type_package_for
          RustNames,    \* names that generated code takes from Rust,
          RustValues,   \* those of them that are values, as Ok, Some and None,
          TypePrelude,  \* what every datatype takes (Box),
          CallPrelude,  \* every function (Result and Ok),
          RootPrelude,  \* the root (String, Option, Drop, Some, std and others)
          TxExtPrelude, \* and besides for TxExt (sui_sdk_types and others)
          Signer,       \* S, the type parameter for the impl of TxExt
          SpecVariable, \* spec, the variable of a builder
          PhantomNames, \* names of fields that begin with phantom_
          Sm, SmCall, TxExt,
          Joined(_, _), \* format!("{}__{}") of a module and the name of a function
          None

\* A name, how often _target is appended and whether __type_package_for_ is put before it.
Name(word) == [word |-> word, targets |-> 0, private |-> FALSE]
Target(name) == [name EXCEPT !.targets = @ + 1]
AddressFunction(name) == [name EXCEPT !.private = TRUE]

RenderOptions ==
  [emit_types : BOOLEAN, emit_calls : BOOLEAN, emit_call_specs : BOOLEAN, emit_tx_ext : BOOLEAN,
   flatten : BOOLEAN, use_aliases : BOOLEAN, emit_reexports : BOOLEAN]

\* A package is a function from module names to [datatypes, functions].
\* A datatype is [name, kind, generics, uses, members, takes]: its type parameters T0, T1
\* and so on, the datatypes of the package in it as pairs of module and name, the names of
\* its fields and variants, and what it takes from Rust besides Box: Vec for a vector, Into
\* if a constructor has a parameter that is a datatype or type parameter, From and others
\* for helpers of known types.  Names of datatypes begin with a capital in Move, those of
\* modules may; none is that of a crate that datatypes and functions use.
\* A function is [name, callable, generics, uses, params, takes], its parameters named by
\* ParameterIdents; takes has Vec if a vector is among them.  No name of one begins with an
\* underscore in Move.
Datatypes(pkg) == UNION {{<<m, d.name>> : d \in pkg[m].datatypes} : m \in DOMAIN pkg}

ASSUME LayoutAssumption ==
  /\ AllOptions \cup SplitOptions \subseteq RenderOptions
  /\ \A pkg \in Packages :
       /\ DOMAIN pkg \subseteq Modules
       /\ \A m \in DOMAIN pkg :
            /\ \A d \in pkg[m].datatypes :
                 /\ d.name = [word |-> d.name.word, targets |-> d.name.targets, private |-> FALSE]
                 /\ d.name \notin {Sm, SmCall}
                 /\ d.uses \subseteq Datatypes(pkg)
                 /\ d.takes \subseteq RustNames
            /\ \A f \in pkg[m].functions :
                 /\ f.name = [word |-> f.name.word, targets |-> f.name.targets, private |-> FALSE]
                 /\ f.name.targets \in Nat
                 /\ f.uses \subseteq Datatypes(pkg)
                 /\ f.takes \subseteq RustNames
  /\ MaxRenders \in Nat

ASSUME RootAssumption ==
  /\ Root \notin Modules /\ Methods \notin Modules /\ Root # Methods
  /\ Imported \subseteq RootValues /\ \A n \in RootValues : n = Name(n.word)
  /\ Sm # SmCall /\ TxExt \notin {Sm, SmCall}
  /\ (UNION {TypePrelude, CallPrelude, RootPrelude, TxExtPrelude}) \cup RustValues \subseteq RustNames
  /\ RustValues \cap RootValues = {} /\ \A n \in RustValues : n = Name(n.word)
  /\ RustNames \cap (RootTypes \cup {Sm, SmCall, TxExt}) = {}
  /\ RootTypes \cap {Sm, SmCall, TxExt} = {}

VARIABLES stage,   \* where render_package_split is: 0 before and after it
          package, \* the package it renders, or None
          options, \* with these options
          todo,    \* modules still to be written
          disk,    \* disk[m]: the file of module m, disk[Mod]: mod.rs
          renders, \* how many renderings began
          output   \* the last rendering: [package, options, split, crate], or None

split == <<package, options, todo>>
vars == <<stage, split, disk, renders, output>>

-----------------------------------------------------------------------------
(* What is rendered.  A scope of Rust has items, paths that must lead to an *)
(* item of some scope, names it takes from Rust, binders, which hide some    *)
(* names where others are meant, and structs.                                *)

Item(name, kind, by) == [name |-> name, kind |-> kind, by |-> by]
Path(scope, name, kind) == [scope |-> scope, name |-> name, kind |-> kind]
Binder(hides, means) == [hides |-> hides, means |-> means]
NoSource == [items |-> {}, paths |-> {}, prelude |-> {}, binders |-> {}, structs |-> {}]

\* use talus_sui_move as sm; use talus_sui_move_call as sm_call;
Aliases(opts, by) ==
  IF opts.use_aliases THEN {Item(n, "alias", by) : n \in {Sm, SmCall}} ELSE {}

\* Functions that are public or entry.
Rendered(module) == {f \in module.functions : f.callable}

\* The typed builders of call specs.
Builders(m, module, opts) ==
  {Item(f.name, "builder", m) :
     f \in {g \in Rendered(module) : opts.emit_call_specs}}

Targets(m, module) ==
  {Item(Target(f.name), "target", m) : f \in Rendered(module)}

\* Where the datatype u of the package is.
TypePath(u, opts) == Path(IF opts.flatten THEN Root ELSE u[1], u[2], "datatype")

\* The datatypes that a module names by their names alone.
Bare(m, uses, opts) == {u[2] : u \in {v \in uses : opts.flatten \/ v[1] = m}}

DatatypePrelude(module) == UNION {TypePrelude \cup d.takes : d \in module.datatypes}

\* A datatype names itself and others beside its type parameters, as do its impls.
DatatypeBinders(m, module, opts) ==
  {Binder(d.generics, {d.name} \cup Bare(m, d.uses, opts)) : d \in module.datatypes}

\* render_datatype: the datatype, the function for its address and, for a struct, its
\* constructor.
DatatypeSource(m, module, opts) ==
  [NoSource EXCEPT
     !.items   = {Item(d.name, "datatype", m) : d \in module.datatypes}
                   \cup {Item(AddressFunction(d.name), "address", m) : d \in module.datatypes},
     !.paths   = {TypePath(u, opts) : u \in UNION {d.uses : d \in module.datatypes}},
     !.prelude = DatatypePrelude(module),
     !.binders = DatatypeBinders(m, module, opts),
     !.structs = {d \in module.datatypes : d.kind = "struct"}]

FunctionPrelude(module, specs) ==
  UNION {CallPrelude \cup (IF specs THEN f.takes ELSE {}) : f \in Rendered(module)}

\* A builder names its types beside its type parameters, and the target and its own
\* variable beside its parameters.
BuilderBinders(m, module, opts) ==
  {Binder(f.generics, Bare(m, f.uses, opts)) : f \in Rendered(module)}
    \cup {Binder(f.params, {Target(f.name), SpecVariable}) : f \in Rendered(module)}

\* render_functions
FunctionSource(m, module, opts) ==
  [NoSource EXCEPT
     !.items   = Builders(m, module, opts) \cup Targets(m, module),
     !.paths   = IF opts.emit_call_specs
                   THEN {TypePath(u, opts) : u \in UNION {f.uses : f \in Rendered(module)}} ELSE {},
     !.prelude = FunctionPrelude(module, opts.emit_call_specs),
     !.binders = IF opts.emit_call_specs THEN BuilderBinders(m, module, opts) ELSE {}]

Together(sources) ==
  [items   |-> UNION {s.items : s \in sources},
   paths   |-> UNION {s.paths : s \in sources},
   prelude |-> UNION {s.prelude : s \in sources},
   binders |-> UNION {s.binders : s \in sources},
   structs |-> UNION {s.structs : s \in sources}]

\* render_module and render_module_file
ModuleSource(m, pkg, opts) ==
  Together({[NoSource EXCEPT
               !.items = Aliases(opts, m) \cup
                         (IF opts.flatten THEN {} ELSE {Item(n, "use", m) : n \in Imported}),
               !.paths = {Path(Root, n, "scoped") : n \in Imported}]}
           \cup (IF opts.emit_types THEN {DatatypeSource(m, pkg[m], opts)} ELSE {})
           \cup (IF opts.emit_calls THEN {FunctionSource(m, pkg[m], opts)} ELSE {}))

\* render_tx_ext: no methods without call builders.
HasTxExt(pkg, opts) ==
  opts.emit_tx_ext /\ opts.emit_calls /\ \E m \in DOMAIN pkg : Rendered(pkg[m]) # {}

\* Where types and builders are not named through a module, the methods name them alone.
MethodTypes(m, f, opts) ==
  IF opts.flatten THEN {u[2] : u \in f.uses} ELSE {Name(m)} \cup {Name(u[1]) : u \in f.uses}

MethodBinders(m, f, opts) ==
  {Binder({Signer} \cup f.generics, MethodTypes(m, f, opts)),
   Binder(f.params, IF opts.flatten THEN {f.name} ELSE {})}

\* The methods, each named by its module and function, and the builders they call.
MethodSource(pkg, opts) ==
  [NoSource EXCEPT
     !.items = UNION {{Item(Joined(m, f.name), "method", <<m, f.name>>) : f \in Rendered(pkg[m])}
                       : m \in DOMAIN pkg},
     !.paths = (UNION {UNION {{Path(IF opts.flatten THEN Root ELSE m, f.name, "builder")}
                                \cup {TypePath(u, opts) : u \in f.uses}
                              : f \in Rendered(pkg[m])} : m \in DOMAIN pkg})
               \cup (IF opts.use_aliases THEN {Path(Root, SmCall, "alias")} ELSE {}),
     !.binders = UNION {UNION {MethodBinders(m, f, opts) : f \in Rendered(pkg[m])} : m \in DOMAIN pkg}]

\* pub use module::Datatype, whatever the layout.
Reexported(pkg, opts) ==
  IF opts.emit_types /\ opts.emit_reexports
    THEN UNION {{<<m, d.name>> : d \in pkg[m].datatypes} : m \in DOMAIN pkg} ELSE {}

\* Mutant of RootAliases: for directories only.
RootAliasesSplit(opts, decls) ==
  IF opts.emit_tx_ext /\ decls THEN Aliases(opts, Root) ELSE {}

\* Where modules are scopes of their own, the methods in the root need aliases there.
RootAliases(opts, decls) ==
  IF opts.emit_tx_ext /\ (decls \/ ~opts.flatten) THEN Aliases(opts, Root) ELSE {}

\* What the methods take is taken in the root.
MethodPrelude(pkg) ==
  TxExtPrelude \cup UNION {FunctionPrelude(pkg[m], TRUE) : m \in DOMAIN pkg}

TakenInRoot(pkg, opts) ==
  RootPrelude \cup (IF HasTxExt(pkg, opts) THEN MethodPrelude(pkg) ELSE {})

\* render_package_root_tokens
RootSource(pkg, opts, decls) ==
  [NoSource EXCEPT
     !.items   = {Item(n, "scoped", Root) : n \in RootValues}
                   \cup {Item(n, "scope type", Root) : n \in RootTypes}
                   \cup RootAliases(opts, decls)
                   \cup {Item(u[2], "reexport", u[1]) : u \in Reexported(pkg, opts)}
                   \cup (IF HasTxExt(pkg, opts) THEN {Item(TxExt, "trait", Root)} ELSE {}),
     !.paths   = {Path(u[1], u[2], "datatype") : u \in Reexported(pkg, opts)},
     !.prelude = TakenInRoot(pkg, opts)]

TxExtScope(pkg, opts) == IF HasTxExt(pkg, opts) THEN MethodSource(pkg, opts) ELSE NoSource

WithModules(root, modules) ==
  Together({root, [NoSource EXCEPT !.items = {Item(Name(m), "mod", m) : m \in modules}]})

\* render_package_tokens
Crate(pkg, opts) ==
  LET root == RootSource(pkg, opts, FALSE)
      modules == IF opts.flatten THEN {} ELSE DOMAIN pkg IN
  [s \in modules \cup {Root, Methods} |->
     CASE s = Methods -> TxExtScope(pkg, opts)
       [] s = Root    -> IF opts.flatten
                           THEN Together({root} \cup {ModuleSource(m, pkg, opts) : m \in DOMAIN pkg})
                           ELSE WithModules(root, modules)
       [] OTHER       -> ModuleSource(s, pkg, opts)]

\* Ident::new_raw panics for these names.
ModulePanics(m, pkg, opts) ==
  \/ opts.emit_types /\ \E d \in pkg[m].datatypes : ({d.name} \cup d.members) \cap Unrawable # {}
  \/ opts.emit_calls /\ \E f \in Rendered(pkg[m]) : f.name \in Unrawable

RootPanics(pkg, opts) == ~opts.flatten /\ \E m \in DOMAIN pkg : Name(m) \in Unrawable

Panics(pkg, opts) == RootPanics(pkg, opts) \/ \E m \in DOMAIN pkg : ModulePanics(m, pkg, opts)

-----------------------------------------------------------------------------
(* rustc on the names of a crate: one is defined or imported once in a scope, *)
(* paths lead to an item, and nothing hides what a name of Rust or another    *)
(* name means.                                                                *)

\* No source, because the generator panicked or a file is not there.
NoCrate == <<>>

\* The generated constructor gives PhantomData to every field named phantom_...
ConstructorFits(d) == d.members \cap PhantomNames = {}

Space(item) ==
  IF item.kind \in {"address", "builder", "target", "use", "scoped", "method"}
    THEN "value" ELSE "type"

NamesDiffer(items) ==
  \A x, y \in items : x.name = y.name /\ Space(x) = Space(y) => x = y

Resolves(p, crate) ==
  p.scope \in DOMAIN crate /\ \E x \in crate[p.scope].items : x.name = p.name /\ x.kind = p.kind

RustSpace(name) == IF name \in RustValues THEN "value" ELSE "type"

HidesNothing(source) ==
  \A x \in source.items : x.name \in source.prelude => Space(x) # RustSpace(x.name)

NamesResolve(crate) ==
  \A s \in DOMAIN crate :
    /\ NamesDiffer(crate[s].items)
    /\ \A p \in crate[s].paths : Resolves(p, crate)
    /\ HidesNothing(crate[s])
    /\ \A b \in crate[s].binders : b.hides \cap b.means = {}
    /\ \A d \in crate[s].structs : ConstructorFits(d)

-----------------------------------------------------------------------------

\* No file of the name, as if from before the first rendering.
NoFile == [kind |-> "none", render |-> 0, source |-> NoSource, modules |-> {}]

Init ==
  /\ stage = 0 /\ package = None /\ options = None /\ todo = {}
  /\ disk = [f \in Modules \cup {Mod} |-> NoFile]
  /\ renders = 0 /\ output = None

Begins == stage = 0 /\ renders < MaxRenders /\ renders' = renders + 1

Rendering(pkg, opts, isSplit, crate) ==
  [package |-> pkg, options |-> opts, split |-> isSplit, crate |-> crate]

\* render_package, or render_package_parts put together as its modules are: a function.
Render ==
  /\ Begins /\ renders = 0
  /\ \E pkg \in Packages, opts \in AllOptions, parts \in BOOLEAN :
       LET used == IF parts THEN [opts EXCEPT !.flatten = FALSE] ELSE opts IN
       output' = Rendering(pkg, used, FALSE, IF Panics(pkg, used) THEN NoCrate ELSE Crate(pkg, used))
  /\ UNCHANGED <<stage, split, disk>>

\* Mutant of Stages: the root is written before its modules.
StagesRootFirst == <<"root", "modules">>

Stages == <<"modules", "root">>

Writing(what) == stage \in DOMAIN Stages /\ Stages[stage] = what

\* render_package_split, which is never flat.
BeginSplit ==
  /\ Begins
  /\ \E pkg \in Packages, opts \in SplitOptions :
       /\ package' = pkg /\ todo' = DOMAIN pkg
       /\ options' = [opts EXCEPT !.flatten = FALSE]
  /\ stage' = 1 /\ output' = None
  /\ UNCHANGED disk

File(kind, source) ==
  [kind |-> kind, render |-> renders, source |-> source, modules |-> DOMAIN package]

\* One module after the other, in the order of their names, each to a file of its name.
WriteModule(m) ==
  /\ Writing("modules") /\ ~ModulePanics(m, package, options)
  /\ disk' = [disk EXCEPT ![m] = File("module", ModuleSource(m, package, options))]
  /\ todo' = todo \ {m}
  /\ UNCHANGED <<stage, package, options, renders, output>>

ModulesEnd ==
  /\ Writing("modules") /\ todo = {}
  /\ stage' = stage + 1
  /\ UNCHANGED <<split, disk, renders, output>>

\* mod.rs has the root and declares the modules.
WriteRoot ==
  /\ Writing("root") /\ ~RootPanics(package, options)
  /\ disk' = [disk EXCEPT ![Mod] = File("root", RootSource(package, options, TRUE))]
  /\ stage' = stage + 1
  /\ UNCHANGED <<split, renders, output>>

\* rustc reads mod.rs and, for each module it declares, the file of that name.
Files ==
  LET root == disk[Mod] IN
  IF \E m \in root.modules : disk[m].kind # "module" THEN NoCrate
  ELSE [s \in root.modules \cup {Root, Methods} |->
          CASE s = Methods -> TxExtScope(package, options)
            [] s = Root    -> WithModules(root.source, root.modules)
            [] OTHER       -> disk[s].source]

SplitEnds ==
  /\ stage > Len(Stages)
  /\ output' = Rendering(package, options, TRUE, Files)
  /\ stage' = 0 /\ package' = None /\ options' = None /\ todo' = {}
  /\ UNCHANGED <<disk, renders>>

\* What an error in the middle of fs::write leaves.
CutOff(m) == disk' = [disk EXCEPT ![m] = File("broken", NoSource)]

\* An error of create_dir_all or fs::write, or a panic.
Fail ==
  /\ stage \in DOMAIN Stages
  /\ \/ UNCHANGED disk
     \/ Writing("modules") /\ \E m \in todo : CutOff(m)
     \/ Writing("root") /\ CutOff(Mod)
  /\ stage' = 0 /\ package' = None /\ options' = None /\ todo' = {}
  /\ UNCHANGED <<renders, output>>

Next == Render \/ BeginSplit \/ (\E m \in todo : WriteModule(m)) \/ ModulesEnd \/ WriteRoot \/ SplitEnds \/ Fail

Spec == Init /\ [][Next]_vars

-----------------------------------------------------------------------------
(* Properties *)

\* However renderings into one directory break off, a mod.rs that is whole declares
\* modules whose files were written by the same rendering or by a later one, never
\* older files and never missing ones (render_package_split writes mod.rs last).
RootIsWrittenLast ==
  disk[Mod].kind = "root" =>
    \A m \in disk[Mod].modules : disk[m].kind # "none" /\ disk[m].render >= disk[Mod].render

Functions(pkg) == UNION {{<<m, f.name>> : f \in Rendered(pkg[m])} : m \in DOMAIN pkg}
AreUnique(named) == \A u, v \in named : u[2] = v[2] => u = v

(* What stands in the way of the names: see README, Limits of the code.     *)

\* What the datatypes and functions of a module take from Rust in the scope they are in.
TakenInModule(module, opts) ==
  (IF opts.emit_types THEN DatatypePrelude(module) ELSE {})
    \cup (IF opts.emit_calls THEN FunctionPrelude(module, opts.emit_call_specs) ELSE {})

DatatypeObstacle(pkg, opts) ==
  /\ opts.emit_types
  /\ \E m \in DOMAIN pkg : \E d \in pkg[m].datatypes :
       \/ d.kind = "struct" /\ d.members \cap PhantomNames # {}
       \/ ({d.name} \cup d.members) \cap Unrawable # {}
       \/ d.name \in TakenInModule(pkg[m], opts) \ RustValues
       \/ d.generics \cap ({d.name} \cup Bare(m, d.uses, opts)) # {}

FunctionObstacle(pkg, opts) ==
  /\ opts.emit_calls
  /\ \E m \in DOMAIN pkg : \E f \in Rendered(pkg[m]) :
       \/ f.name \in Unrawable
       \/ /\ opts.emit_call_specs
          /\ \/ f.name \in Imported \cup (TakenInModule(pkg[m], opts) \cap RustValues)
             \/ <<m, Target(f.name)>> \in Functions(pkg)
             \/ ~opts.emit_types /\ f.uses # {}
             \/ f.generics \cap Bare(m, f.uses, opts) # {}
             \/ f.params \cap {Target(f.name), SpecVariable} # {}
       \/ opts.emit_tx_ext /\ ~opts.emit_call_specs

MethodObstacle(pkg, opts) ==
  /\ HasTxExt(pkg, opts)
  /\ \/ \E u, v \in Functions(pkg) : u # v /\ Joined(u[1], u[2]) = Joined(v[1], v[2])
     \/ \E m \in DOMAIN pkg : \E f \in Rendered(pkg[m]) :
          \/ ({Signer} \cup f.generics) \cap MethodTypes(m, f, opts) # {}
          \/ opts.flatten /\ f.name \in f.params

\* Names of the root that a module or a datatype there may not have.
Reserved(pkg, opts) ==
  RootTypes \cup (TakenInRoot(pkg, opts) \ RustValues) \cup (IF HasTxExt(pkg, opts) THEN {TxExt} ELSE {})

ModuleObstacle(pkg, opts) ==
  /\ ~opts.flatten
  /\ \E m \in DOMAIN pkg :
       \/ Name(m) \in Unrawable \cup Reserved(pkg, opts)
       \/ opts.emit_tx_ext /\ opts.use_aliases /\ Name(m) \in {Sm, SmCall}
       \/ \E u \in Reexported(pkg, opts) : u[2] = Name(m)

ReexportObstacle(pkg, opts) ==
  LET types == Reexported(pkg, opts) IN
  /\ types # {}
  /\ \/ opts.flatten \/ ~AreUnique(types)
     \/ \E u \in types : u[2] \in Reserved(pkg, opts)

FlatObstacle(pkg, opts) ==
  LET types == Datatypes(pkg)
      functions == Functions(pkg)
  IN  /\ opts.flatten
      /\ \/ opts.use_aliases /\ \E m, n \in DOMAIN pkg : m # n
         \/ /\ opts.emit_types
            /\ \/ ~AreUnique(types)
               \/ \E u \in types : u[2] \in Reserved(pkg, opts)
               \/ \E u \in types, m \in DOMAIN pkg : u[2] \in TakenInModule(pkg[m], opts) \ RustValues
         \/ opts.emit_calls /\ ~AreUnique(functions)
         \/ /\ opts.emit_calls /\ opts.emit_call_specs
            /\ \E u \in functions :
                 \/ u[2] \in RootValues \cup (TakenInRoot(pkg, opts) \cap RustValues)
                 \/ \E m \in DOMAIN pkg : u[2] \in TakenInModule(pkg[m], opts) \cap RustValues
                 \/ \E v \in functions : v[2] = Target(u[2])

Obstacle(pkg, opts) ==
  \/ DatatypeObstacle(pkg, opts) \/ FunctionObstacle(pkg, opts) \/ MethodObstacle(pkg, opts)
  \/ ModuleObstacle(pkg, opts) \/ ReexportObstacle(pkg, opts) \/ FlatObstacle(pkg, opts)

\* In every form and under all options rustc finds what the names in the source mean
\* exactly if none of these obstacles is there: aliases are where they are used, every
\* builder that a method calls and every type that a builder names is rendered where it
\* looks for it.  The same holds of a directory, whatever earlier renderings left in it,
\* unless a module is mod.
SourcesResolve ==
  output # None =>
    (output.crate # NoCrate /\ NamesResolve(output.crate)
       <=> /\ ~Obstacle(output.package, output.options)
           /\ output.split => Mod \notin DOMAIN output.package)

=============================================================================
