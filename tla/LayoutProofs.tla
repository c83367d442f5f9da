----------------------------- MODULE LayoutProofs -----------------------------
(***************************************************************************)
(* Theorems about Layout, for any packages, options and number of          *)
(* renderings: what a directory holds when renderings into it break off,   *)
(* and when every name in what is rendered leads where it is meant to.     *)
(***************************************************************************)
EXTENDS Layout, TLAPS

FileNames == Modules \cup {Mod}

\* No file is from a rendering that has not begun, and roots declare modules.
FilesInv ==
  /\ renders \in Nat
  /\ disk = [f \in FileNames |-> disk[f]]
  /\ \A f \in FileNames : /\ disk[f].render \in Nat /\ disk[f].render <= renders
                          /\ disk[f].modules \subseteq Modules

\* While a package is written, each of its modules is in todo or in the directory as this
\* rendering wrote it; none is in todo when the root follows.
WritingInv ==
  /\ stage \in Nat
  /\ stage \in DOMAIN Stages =>
       /\ DOMAIN package \subseteq Modules /\ todo \subseteq DOMAIN package
       /\ \A m \in DOMAIN package \ todo : disk[m].kind # "none" /\ disk[m].render = renders
  /\ Writing("root") => todo = {}

IInv == FilesInv /\ WritingInv /\ RootIsWrittenLast

LEMMA StagesFacts ==
  /\ DOMAIN Stages = {1, 2} /\ Len(Stages) = 2
  /\ Stages[1] = "modules" /\ Stages[2] = "root"
BY DEF Stages

\* A file has the number of the present rendering.
LEMMA FileFacts ==
  ASSUME NEW kind, NEW source
  PROVE  /\ File(kind, source).kind = kind /\ File(kind, source).render = renders
         /\ File(kind, source).modules = DOMAIN package
BY DEF File

LEMMA InitIInv == Init => IInv
BY StagesFacts DEF Init, IInv, FilesInv, WritingInv, RootIsWrittenLast, FileNames, Writing, NoFile

\* Whatever is written of a package keeps the directory in order, if a root comes last.
LEMMA FileKeeps ==
  ASSUME IInv, stage \in DOMAIN Stages,
         NEW f \in FileNames, NEW kind \in {"module", "root", "broken"}, NEW source,
         kind = "root" => f = Mod /\ Writing("root"),
         disk' = [disk EXCEPT ![f] = File(kind, source)], renders' = renders
  PROVE  FilesInv' /\ RootIsWrittenLast'
<1>1. \A g \in FileNames : disk'[g] = IF g = f THEN File(kind, source) ELSE disk[g]
  BY DEF IInv, FilesInv
<1>2. FilesInv'
  <2>1. disk' = [g \in FileNames |-> disk'[g]]
    BY DEF IInv, FilesInv
  <2>2. ASSUME NEW g \in FileNames
        PROVE  disk'[g].render \in Nat /\ disk'[g].render <= renders /\ disk'[g].modules \subseteq Modules
    <3>1. CASE g = f
      BY <1>1, <3>1, FileFacts DEF IInv, FilesInv, WritingInv
    <3>2. CASE g # f
      BY <1>1, <3>2 DEF IInv, FilesInv
    <3> QED  BY <3>1, <3>2
  <2> QED  BY <2>1, <2>2 DEF IInv, FilesInv
<1>3. RootIsWrittenLast'
  <2> SUFFICES ASSUME disk'[Mod].kind = "root", NEW m \in disk'[Mod].modules
               PROVE  disk'[m].kind # "none" /\ disk'[m].render >= disk'[Mod].render
    BY DEF RootIsWrittenLast
  <2>1. Mod \in FileNames /\ m \in FileNames
    BY <1>2 DEF FilesInv, FileNames
  <2>2. CASE m = f
    <3>1. disk'[m].kind # "none" /\ disk'[m].render = renders
      BY <1>1, <2>1, <2>2, FileFacts
    <3> QED  BY <1>2, <2>1, <3>1 DEF FilesInv
  <2>3. CASE m # f /\ Mod # f
    BY <1>1, <2>1, <2>3 DEF IInv, RootIsWrittenLast
  <2>4. CASE m # f /\ Mod = f
    <3>1. kind = "root" /\ m \in DOMAIN package /\ disk'[Mod].render = renders
      BY <1>1, <2>1, <2>4, FileFacts
    <3>2. disk[m].kind # "none" /\ disk[m].render = renders
      BY <3>1 DEF IInv, WritingInv
    <3> QED  BY <1>1, <2>1, <2>4, <3>1, <3>2 DEF IInv, FilesInv
  <2> QED  BY <2>2, <2>3, <2>4
<1> QED  BY <1>2, <1>3

\* Where nothing is written and no rendering runs, nothing changes that matters.
LEMMA StopKeeps ==
  ASSUME FilesInv', RootIsWrittenLast', stage' = 0 PROVE IInv'
BY StagesFacts DEF IInv, WritingInv, Writing

LEMMA BeginSplitKeeps == ASSUME IInv, BeginSplit PROVE IInv'
<1>1. FilesInv' /\ RootIsWrittenLast'
  BY DEF IInv, FilesInv, BeginSplit, Begins, RootIsWrittenLast
<1>2. WritingInv'
  <2>1. stage' = 1 /\ ~Writing("root")' /\ DOMAIN package' \subseteq Modules /\ todo' = DOMAIN package'
    BY StagesFacts, LayoutAssumption DEF BeginSplit, Writing
  <2> QED  BY <2>1 DEF WritingInv
<1> QED  BY <1>1, <1>2 DEF IInv

LEMMA WriteModuleKeeps == ASSUME IInv, NEW m \in todo, WriteModule(m) PROVE IInv'
<1>1. stage \in DOMAIN Stages /\ Stages[stage] = "modules" /\ m \in FileNames /\ m \in DOMAIN package
  BY DEF WriteModule, Writing, IInv, WritingInv, FileNames
<1> DEFINE source == ModuleSource(m, package, options)
<1>2. disk' = [disk EXCEPT ![m] = File("module", source)] /\ renders' = renders
  BY DEF WriteModule
<1> HIDE DEF source
<1>3. /\ FilesInv' /\ RootIsWrittenLast'
  BY <1>1, <1>2, FileKeeps
<1>4. \A g \in FileNames : disk'[g] = IF g = m THEN File("module", source) ELSE disk[g]
  BY <1>2 DEF IInv, FilesInv
<1>5. WritingInv'
  <2>1. UNCHANGED <<stage, package>> /\ todo' = todo \ {m} /\ DOMAIN package \subseteq Modules
        /\ todo \subseteq DOMAIN package
    BY <1>1 DEF WriteModule, IInv, WritingInv
  <2>2. ASSUME NEW g \in DOMAIN package \ todo' PROVE disk'[g].kind # "none" /\ disk'[g].render = renders
    <3>1. CASE g = m
      BY <1>1, <1>4, <3>1, FileFacts
    <3>2. CASE g # m
      <4>1. g \in DOMAIN package \ todo /\ g \in FileNames
        BY <2>1, <3>2 DEF FileNames
      <4> QED  BY <1>1, <1>4, <3>2, <4>1 DEF IInv, WritingInv
    <3> QED  BY <3>1, <3>2
  <2>3. ~Writing("root")'
    BY <1>1, <2>1, StagesFacts DEF Writing
  <2> QED  BY <1>1, <1>2, <2>1, <2>2, <2>3 DEF IInv, WritingInv
<1> QED  BY <1>3, <1>5 DEF IInv

LEMMA ModulesEndKeeps == ASSUME IInv, ModulesEnd PROVE IInv'
<1>1. stage = 1 /\ stage' = 2 /\ todo = {} /\ UNCHANGED <<package, todo, disk, renders>>
  BY StagesFacts DEF ModulesEnd, Writing, split
<1>2. FilesInv' /\ RootIsWrittenLast'
  BY <1>1 DEF IInv, FilesInv, RootIsWrittenLast
<1>3. WritingInv'
  BY <1>1, StagesFacts DEF IInv, WritingInv
<1> QED  BY <1>2, <1>3 DEF IInv

LEMMA WriteRootKeeps == ASSUME IInv, WriteRoot PROVE IInv'
<1>1. stage = 2 /\ stage' = 3 /\ Mod \in FileNames /\ renders' = renders
  BY StagesFacts DEF WriteRoot, Writing, FileNames
<1>2. disk' = [disk EXCEPT ![Mod] = File("root", RootSource(package, options, TRUE))]
  BY DEF WriteRoot
<1>3. Writing("root")
  BY DEF WriteRoot
<1>4. FilesInv' /\ RootIsWrittenLast'
  BY <1>1, <1>2, <1>3, FileKeeps, StagesFacts
<1>5. WritingInv'
  BY <1>1, StagesFacts DEF WritingInv, Writing
<1> QED  BY <1>4, <1>5 DEF IInv

LEMMA FailKeeps == ASSUME IInv, Fail PROVE IInv'
<1>1. stage \in DOMAIN Stages /\ stage' = 0 /\ renders' = renders
  BY DEF Fail
<1>2. CASE UNCHANGED disk
  <2>1. FilesInv' /\ RootIsWrittenLast'
    BY <1>1, <1>2 DEF IInv, FilesInv, RootIsWrittenLast
  <2> QED  BY <1>1, <2>1, StopKeeps
<1>3. ASSUME NEW f \in FileNames, CutOff(f) PROVE IInv'
  <2>1. FilesInv' /\ RootIsWrittenLast'
    BY <1>1, <1>3, FileKeeps DEF CutOff
  <2> QED  BY <1>1, <2>1, StopKeeps
<1>4. todo \subseteq FileNames /\ Mod \in FileNames
  BY <1>1 DEF IInv, WritingInv, FileNames
<1> QED  BY <1>2, <1>3, <1>4 DEF Fail

LEMMA StepIInv == IInv /\ [Next]_vars => IInv'
<1> SUFFICES ASSUME IInv, [Next]_vars PROVE IInv'
  OBVIOUS
<1>1. CASE Render \/ UNCHANGED vars
  <2>1. UNCHANGED <<stage, package, todo, disk>> /\ renders' \in {renders, renders + 1}
    BY <1>1 DEF Render, Begins, vars, split
  <2>2. renders' = renders \/ stage = 0
    BY <1>1 DEF Render, Begins, vars
  <2>3. FilesInv' /\ RootIsWrittenLast'
    BY <2>1 DEF IInv, FilesInv, RootIsWrittenLast
  <2>4. CASE stage = 0
    BY <2>1, <2>3, <2>4, StopKeeps
  <2>5. CASE renders' = renders
    <3>1. WritingInv'
      BY <2>1, <2>5 DEF IInv, WritingInv, Writing
    <3> QED  BY <2>3, <3>1 DEF IInv
  <2> QED  BY <2>2, <2>4, <2>5
<1>2. CASE SplitEnds
  <2>1. FilesInv' /\ RootIsWrittenLast' /\ stage' = 0
    BY <1>2 DEF SplitEnds, IInv, FilesInv, RootIsWrittenLast
  <2> QED  BY <2>1, StopKeeps
<1> QED
  BY <1>1, <1>2, BeginSplitKeeps, WriteModuleKeeps, ModulesEndKeeps, WriteRootKeeps, FailKeeps DEF Next

\* A whole mod.rs never declares a module file that is missing or older than itself,
\* however many renderings were begun in the directory, of whichever packages, and broke
\* off at whichever file (render_package_split).
THEOREM RootLast == Spec => []RootIsWrittenLast
<1>1. IInv => RootIsWrittenLast
  BY DEF IInv
<1> QED  BY <1>1, InitIInv, StepIInv, PTL DEF Spec

-----------------------------------------------------------------------------
(* What the scopes of a crate have *)

\* What a module has: an item of kind k and name n made for b.
ModuleHas(m, pkg, opts, n, k, b) ==
  /\ b = m
  /\ \/ k = "alias" /\ opts.use_aliases /\ n \in {Sm, SmCall}
     \/ k = "use" /\ ~opts.flatten /\ n \in Imported
     \/ k = "datatype" /\ opts.emit_types /\ \E d \in pkg[m].datatypes : n = d.name
     \/ k = "address" /\ opts.emit_types /\ \E d \in pkg[m].datatypes : n = AddressFunction(d.name)
     \/ /\ k = "builder" /\ opts.emit_calls /\ opts.emit_call_specs
        /\ \E f \in Rendered(pkg[m]) : n = f.name
     \/ k = "target" /\ opts.emit_calls /\ \E f \in Rendered(pkg[m]) : n = Target(f.name)

\* What the root has besides its modules.
RootHas(pkg, opts, n, k, b) ==
  \/ k = "scoped" /\ b = Root /\ n \in RootValues
  \/ k = "scope type" /\ b = Root /\ n \in RootTypes
  \/ /\ k = "alias" /\ b = Root /\ n \in {Sm, SmCall}
     /\ opts.emit_tx_ext /\ ~opts.flatten /\ opts.use_aliases
  \/ k = "reexport" /\ \E u \in Reexported(pkg, opts) : n = u[2] /\ b = u[1]
  \/ k = "trait" /\ b = Root /\ n = TxExt /\ HasTxExt(pkg, opts)

LEMMA ItemFacts ==
  ASSUME NEW n, NEW k, NEW b
  PROVE  Item(n, k, b).name = n /\ Item(n, k, b).kind = k /\ Item(n, k, b).by = b
BY DEF Item

LEMMA ItemIs ==
  ASSUME NEW x
  PROVE  \A n, k, b : x = Item(n, k, b) <=>
           x = Item(x.name, x.kind, x.by) /\ x.name = n /\ x.kind = k /\ x.by = b
BY DEF Item

LEMMA PathFacts ==
  ASSUME NEW s, NEW n, NEW k
  PROVE  Path(s, n, k).scope = s /\ Path(s, n, k).name = n /\ Path(s, n, k).kind = k
BY DEF Path

LEMMA BinderFacts ==
  ASSUME NEW hides, NEW means
  PROVE  Binder(hides, means).hides = hides /\ Binder(hides, means).means = means
BY DEF Binder

LEMMA NoSourceFacts ==
  /\ NoSource.items = {} /\ NoSource.paths = {} /\ NoSource.prelude = {}
  /\ NoSource.binders = {} /\ NoSource.structs = {}
BY DEF NoSource

LEMMA DatatypeSourceFacts ==
  ASSUME NEW m, NEW module, NEW opts
  PROVE  LET source == DatatypeSource(m, module, opts) IN
         /\ source.items = {Item(d.name, "datatype", m) : d \in module.datatypes}
                             \cup {Item(AddressFunction(d.name), "address", m) : d \in module.datatypes}
         /\ source.paths = {TypePath(u, opts) : u \in UNION {d.uses : d \in module.datatypes}}
         /\ source.prelude = DatatypePrelude(module)
         /\ source.binders = DatatypeBinders(m, module, opts)
         /\ source.structs = {d \in module.datatypes : d.kind = "struct"}
BY DEF DatatypeSource, NoSource

LEMMA FunctionSourceFacts ==
  ASSUME NEW m, NEW module, NEW opts
  PROVE  LET source == FunctionSource(m, module, opts) IN
         /\ source.paths = IF opts.emit_call_specs
                   THEN {TypePath(u, opts) : u \in UNION {f.uses : f \in Rendered(module)}} ELSE {}
         /\ source.prelude = FunctionPrelude(module, opts.emit_call_specs)
         /\ source.binders = IF opts.emit_call_specs THEN BuilderBinders(m, module, opts) ELSE {}
         /\ source.structs = {}
BY DEF FunctionSource, NoSource

LEMMA FunctionItems ==
  ASSUME NEW m, NEW module, NEW opts
  PROVE  FunctionSource(m, module, opts).items = Builders(m, module, opts) \cup Targets(m, module)
BY DEF FunctionSource, NoSource

LEMMA TogetherFacts ==
  ASSUME NEW sources
  PROVE  /\ \A x : x \in Together(sources).items <=> \E s \in sources : x \in s.items
         /\ \A x : x \in Together(sources).paths <=> \E s \in sources : x \in s.paths
         /\ \A x : x \in Together(sources).prelude <=> \E s \in sources : x \in s.prelude
         /\ \A x : x \in Together(sources).binders <=> \E s \in sources : x \in s.binders
         /\ \A x : x \in Together(sources).structs <=> \E s \in sources : x \in s.structs
BY DEF Together

\* The first part of a module: its aliases and imports.
HeaderSource(m, opts) ==
  [NoSource EXCEPT
     !.items = Aliases(opts, m) \cup
               (IF opts.flatten THEN {} ELSE {Item(n, "use", m) : n \in Imported}),
     !.paths = {Path(Root, n, "scoped") : n \in Imported}]

LEMMA HeaderFacts ==
  ASSUME NEW m, NEW opts
  PROVE  LET source == HeaderSource(m, opts) IN
         /\ source.items = Aliases(opts, m) \cup
                           (IF opts.flatten THEN {} ELSE {Item(n, "use", m) : n \in Imported})
         /\ source.paths = {Path(Root, n, "scoped") : n \in Imported}
         /\ source.prelude = {} /\ source.binders = {} /\ source.structs = {}
BY DEF HeaderSource, NoSource

\* The sources of which a module is put together.
ModuleParts(m, pkg, opts) ==
  {HeaderSource(m, opts)}
    \cup (IF opts.emit_types THEN {DatatypeSource(m, pkg[m], opts)} ELSE {})
    \cup (IF opts.emit_calls THEN {FunctionSource(m, pkg[m], opts)} ELSE {})

LEMMA ModuleTogether ==
  ASSUME NEW m, NEW pkg, NEW opts PROVE ModuleSource(m, pkg, opts) = Together(ModuleParts(m, pkg, opts))
BY DEF ModuleSource, ModuleParts, HeaderSource

LEMMA PartsFacts ==
  ASSUME NEW m, NEW pkg, NEW opts, NEW part
  PROVE  part \in ModuleParts(m, pkg, opts) <=>
           \/ part = HeaderSource(m, opts)
           \/ opts.emit_types /\ part = DatatypeSource(m, pkg[m], opts)
           \/ opts.emit_calls /\ part = FunctionSource(m, pkg[m], opts)
BY DEF ModuleParts

\* The items of a module.
LEMMA ModuleItems ==
  ASSUME NEW m, NEW pkg, NEW opts, NEW x
  PROVE  x \in ModuleSource(m, pkg, opts).items <=>
           x = Item(x.name, x.kind, x.by) /\ ModuleHas(m, pkg, opts, x.name, x.kind, x.by)
<1> DEFINE header == HeaderSource(m, opts)
           datatypes == DatatypeSource(m, pkg[m], opts)
           functions == FunctionSource(m, pkg[m], opts)
<1>1. x \in ModuleSource(m, pkg, opts).items <=>
        \/ x \in header.items
        \/ opts.emit_types /\ x \in datatypes.items
        \/ opts.emit_calls /\ x \in functions.items
  <2> HIDE DEF header, datatypes, functions
  <2>1. x \in ModuleSource(m, pkg, opts).items <=>
          \E part \in ModuleParts(m, pkg, opts) : x \in part.items
    BY ModuleTogether, TogetherFacts
  <2> QED  BY <2>1, PartsFacts DEF header, datatypes, functions
<1>2. x \in header.items <=>
        \/ opts.use_aliases /\ \E n \in {Sm, SmCall} : x = Item(n, "alias", m)
        \/ ~opts.flatten /\ \E n \in Imported : x = Item(n, "use", m)
  <2>1. header.items = Aliases(opts, m) \cup
                           (IF opts.flatten THEN {} ELSE {Item(n, "use", m) : n \in Imported})
    BY HeaderFacts
  <2> HIDE DEF header
  <2> QED  BY <2>1 DEF Aliases
<1>3. x \in datatypes.items <=>
        \E d \in pkg[m].datatypes :
          x = Item(d.name, "datatype", m) \/ x = Item(AddressFunction(d.name), "address", m)
  <2>1. datatypes.items = {Item(d.name, "datatype", m) : d \in pkg[m].datatypes}
                            \cup {Item(AddressFunction(d.name), "address", m) : d \in pkg[m].datatypes}
    BY DatatypeSourceFacts
  <2> HIDE DEF datatypes
  <2> QED  BY <2>1
<1>4. x \in functions.items <=>
        \/ opts.emit_call_specs /\ \E f \in Rendered(pkg[m]) : x = Item(f.name, "builder", m)
        \/ \E f \in Rendered(pkg[m]) : x = Item(Target(f.name), "target", m)
  <2>1. functions.items = Builders(m, pkg[m], opts) \cup Targets(m, pkg[m])
    BY FunctionItems
  <2> HIDE DEF functions
  <2> QED  BY <2>1 DEF Builders, Targets
<1> HIDE DEF header, datatypes, functions
<1> QED  BY <1>1, <1>2, <1>3, <1>4, ItemFacts DEF ModuleHas

\* Its paths, names it takes from Rust, binders and structs.
LEMMA ModuleRest ==
  ASSUME NEW m, NEW pkg, NEW opts
  PROVE  LET source == ModuleSource(m, pkg, opts) IN
         /\ \A p : p \in source.paths <=>
              \/ \E n \in Imported : p = Path(Root, n, "scoped")
              \/ opts.emit_types /\ \E d \in pkg[m].datatypes : \E u \in d.uses : p = TypePath(u, opts)
              \/ /\ opts.emit_calls /\ opts.emit_call_specs
                 /\ \E f \in Rendered(pkg[m]) : \E u \in f.uses : p = TypePath(u, opts)
         /\ \A n : n \in source.prelude <=> n \in TakenInModule(pkg[m], opts)
         /\ \A b : b \in source.binders <=>
              \/ opts.emit_types /\ b \in DatatypeBinders(m, pkg[m], opts)
              \/ opts.emit_calls /\ opts.emit_call_specs /\ b \in BuilderBinders(m, pkg[m], opts)
         /\ \A d : d \in source.structs <=>
              opts.emit_types /\ d \in pkg[m].datatypes /\ d.kind = "struct"
<1> DEFINE source == ModuleSource(m, pkg, opts)
           header == HeaderSource(m, opts)
           datatypes == DatatypeSource(m, pkg[m], opts)
           functions == FunctionSource(m, pkg[m], opts)
           path(u) == TypePath(u, opts)
<1>1. /\ \A p : p \in source.paths <=> \E part \in ModuleParts(m, pkg, opts) : p \in part.paths
      /\ \A n : n \in source.prelude <=> \E part \in ModuleParts(m, pkg, opts) : n \in part.prelude
      /\ \A b : b \in source.binders <=> \E part \in ModuleParts(m, pkg, opts) : b \in part.binders
      /\ \A d : d \in source.structs <=> \E part \in ModuleParts(m, pkg, opts) : d \in part.structs
  BY ModuleTogether, TogetherFacts
<1>2. \A part : part \in ModuleParts(m, pkg, opts) <=>
        \/ part = header
        \/ opts.emit_types /\ part = datatypes
        \/ opts.emit_calls /\ part = functions
  BY PartsFacts
<1>3. /\ header.paths = {Path(Root, n, "scoped") : n \in Imported}
      /\ header.prelude = {} /\ header.binders = {} /\ header.structs = {}
  BY HeaderFacts
<1>4. /\ datatypes.paths = {path(u) : u \in UNION {d.uses : d \in pkg[m].datatypes}}
      /\ datatypes.prelude = DatatypePrelude(pkg[m])
      /\ datatypes.binders = DatatypeBinders(m, pkg[m], opts)
      /\ datatypes.structs = {d \in pkg[m].datatypes : d.kind = "struct"}
  <2>1. datatypes.paths = {path(u) : u \in UNION {d.uses : d \in pkg[m].datatypes}}
    BY DatatypeSourceFacts
  <2>2. datatypes.prelude = DatatypePrelude(pkg[m])
    BY DatatypeSourceFacts
  <2>3. datatypes.binders = DatatypeBinders(m, pkg[m], opts)
    BY DatatypeSourceFacts
  <2>4. datatypes.structs = {d \in pkg[m].datatypes : d.kind = "struct"}
    BY DatatypeSourceFacts
  <2> HIDE DEF datatypes, path
  <2> QED  BY <2>1, <2>2, <2>3, <2>4
<1>5. /\ functions.paths = IF opts.emit_call_specs
            THEN {path(u) : u \in UNION {f.uses : f \in Rendered(pkg[m])}} ELSE {}
      /\ functions.prelude = FunctionPrelude(pkg[m], opts.emit_call_specs)
      /\ functions.binders = IF opts.emit_call_specs THEN BuilderBinders(m, pkg[m], opts) ELSE {}
      /\ functions.structs = {}
  BY FunctionSourceFacts
<1> HIDE DEF source, header, datatypes, functions, path
<1>6. \A p : p \in source.paths <=>
        \/ \E n \in Imported : p = Path(Root, n, "scoped")
        \/ opts.emit_types /\ \E d \in pkg[m].datatypes : \E u \in d.uses : p = path(u)
        \/ /\ opts.emit_calls /\ opts.emit_call_specs
           /\ \E f \in Rendered(pkg[m]) : \E u \in f.uses : p = path(u)
  <2>1. \A p : p \in datatypes.paths <=> \E d \in pkg[m].datatypes : \E u \in d.uses : p = path(u)
    BY <1>4
  <2>2. \A p : p \in functions.paths <=>
          opts.emit_call_specs /\ \E f \in Rendered(pkg[m]) : \E u \in f.uses : p = path(u)
    BY <1>5
  <2>3. \A p : p \in header.paths <=> \E n \in Imported : p = Path(Root, n, "scoped")
    BY <1>3
  <2> QED  BY <1>1, <1>2, <2>1, <2>2, <2>3
<1>7. \A n : n \in source.prelude <=> n \in TakenInModule(pkg[m], opts)
  <2>1. \A n : n \in source.prelude <=>
          \/ opts.emit_types /\ n \in DatatypePrelude(pkg[m])
          \/ opts.emit_calls /\ n \in FunctionPrelude(pkg[m], opts.emit_call_specs)
    BY <1>1, <1>2, <1>3, <1>4, <1>5
  <2> QED  BY <2>1 DEF TakenInModule
<1>8. \A b : b \in source.binders <=>
        \/ opts.emit_types /\ b \in DatatypeBinders(m, pkg[m], opts)
        \/ opts.emit_calls /\ opts.emit_call_specs /\ b \in BuilderBinders(m, pkg[m], opts)
  BY <1>1, <1>2, <1>3, <1>4, <1>5
<1>9. \A d : d \in source.structs <=> opts.emit_types /\ d \in pkg[m].datatypes /\ d.kind = "struct"
  BY <1>1, <1>2, <1>3, <1>4, <1>5
<1> QED  BY <1>6, <1>7, <1>8, <1>9 DEF source, path

\* The items of the root without its modules, its paths, names it takes from Rust, binders and
\* structs.
LEMMA RootItems ==
  ASSUME NEW pkg, NEW opts, NEW x
  PROVE  x \in RootSource(pkg, opts, FALSE).items <=>
           x = Item(x.name, x.kind, x.by) /\ RootHas(pkg, opts, x.name, x.kind, x.by)
<1> DEFINE source == RootSource(pkg, opts, FALSE)
<1>1. source.items =
        {Item(n, "scoped", Root) : n \in RootValues}
          \cup {Item(n, "scope type", Root) : n \in RootTypes}
          \cup RootAliases(opts, FALSE)
          \cup {Item(u[2], "reexport", u[1]) : u \in Reexported(pkg, opts)}
          \cup (IF HasTxExt(pkg, opts) THEN {Item(TxExt, "trait", Root)} ELSE {})
  BY DEF RootSource, NoSource
<1>2. x \in RootAliases(opts, FALSE) <=>
        /\ opts.emit_tx_ext /\ ~opts.flatten /\ opts.use_aliases
        /\ \E n \in {Sm, SmCall} : x = Item(n, "alias", Root)
  BY DEF RootAliases, Aliases
<1> HIDE DEF source
<1>3. x \in source.items <=>
        \/ \E n \in RootValues : x = Item(n, "scoped", Root)
        \/ \E n \in RootTypes : x = Item(n, "scope type", Root)
        \/ x \in RootAliases(opts, FALSE)
        \/ \E u \in Reexported(pkg, opts) : x = Item(u[2], "reexport", u[1])
        \/ HasTxExt(pkg, opts) /\ x = Item(TxExt, "trait", Root)
  BY <1>1
<1> DEFINE Named(n, k, b) == x = Item(x.name, x.kind, x.by) /\ x.name = n /\ x.kind = k /\ x.by = b
<1>4. \A n, k, b : x = Item(n, k, b) <=> Named(n, k, b)
  BY ItemIs
<1> HIDE DEF Named
<1>5. x \in source.items <=>
        \/ \E n \in RootValues : Named(n, "scoped", Root)
        \/ \E n \in RootTypes : Named(n, "scope type", Root)
        \/ /\ opts.emit_tx_ext /\ ~opts.flatten /\ opts.use_aliases
           /\ \E n \in {Sm, SmCall} : Named(n, "alias", Root)
        \/ \E u \in Reexported(pkg, opts) : Named(u[2], "reexport", u[1])
        \/ HasTxExt(pkg, opts) /\ Named(TxExt, "trait", Root)
  BY <1>2, <1>3, <1>4
<1> QED  BY <1>5 DEF source, RootHas, Named

LEMMA RootRest ==
  ASSUME NEW pkg, NEW opts
  PROVE  LET source == RootSource(pkg, opts, FALSE) IN
         /\ source.paths = {Path(u[1], u[2], "datatype") : u \in Reexported(pkg, opts)}
         /\ source.prelude = TakenInRoot(pkg, opts)
         /\ source.binders = {} /\ source.structs = {}
BY DEF RootSource, NoSource

\* The methods: their items, and what their bodies refer to.
LEMMA MethodFacts ==
  ASSUME NEW pkg, NEW opts
  PROVE  LET source == MethodSource(pkg, opts) IN
         /\ source.items =
              UNION {{Item(Joined(m, f.name), "method", <<m, f.name>>) : f \in Rendered(pkg[m])}
                       : m \in DOMAIN pkg}
         /\ source.paths =
              (UNION {UNION {{Path(IF opts.flatten THEN Root ELSE m, f.name, "builder")}
                               \cup {TypePath(u, opts) : u \in f.uses}
                             : f \in Rendered(pkg[m])} : m \in DOMAIN pkg})
               \cup (IF opts.use_aliases THEN {Path(Root, SmCall, "alias")} ELSE {})
         /\ source.binders =
              UNION {UNION {MethodBinders(m, f, opts) : f \in Rendered(pkg[m])} : m \in DOMAIN pkg}
         /\ source.prelude = {} /\ source.structs = {}
BY DEF MethodSource, NoSource

LEMMA ReexportedFacts ==
  ASSUME NEW pkg, NEW opts
  PROVE  \A u : u \in Reexported(pkg, opts) <=>
           /\ opts.emit_types /\ opts.emit_reexports
           /\ \E m \in DOMAIN pkg : \E d \in pkg[m].datatypes : u = <<m, d.name>>
BY DEF Reexported

LEMMA DatatypesFacts ==
  ASSUME NEW pkg
  PROVE  \A u : u \in Datatypes(pkg) <=>
           \E m \in DOMAIN pkg : \E d \in pkg[m].datatypes : u = <<m, d.name>>
BY DEF Datatypes

LEMMA FunctionsFacts ==
  ASSUME NEW pkg
  PROVE  \A u : u \in Functions(pkg) <=>
           \E m \in DOMAIN pkg : \E f \in Rendered(pkg[m]) : u = <<m, f.name>>
BY DEF Functions

\* The items of the methods are named by the functions they call.
LEMMA MethodItems ==
  ASSUME NEW pkg, NEW opts, NEW x
  PROVE  x \in MethodSource(pkg, opts).items <=>
           \E u \in Functions(pkg) : x = Item(Joined(u[1], u[2]), "method", u)
<1> DEFINE source == MethodSource(pkg, opts)
<1>1. source.items =
        UNION {{Item(Joined(m, f.name), "method", <<m, f.name>>) : f \in Rendered(pkg[m])}
                 : m \in DOMAIN pkg}
  BY MethodFacts
<1> DEFINE method(m, n) == Item(Joined(m, n), "method", <<m, n>>)
           Of(m) == {method(m, f.name) : f \in Rendered(pkg[m])}
<1>2. \A m : x \in Of(m) <=> \E f \in Rendered(pkg[m]) : x = method(m, f.name)
  <2> HIDE DEF method
  <2> QED  OBVIOUS
<1>3. source.items = UNION {Of(m) : m \in DOMAIN pkg}
  BY <1>1
<1>4. x \in source.items <=> \E m \in DOMAIN pkg : x \in Of(m)
  <2> HIDE DEF source, Of
  <2> QED  BY <1>3
<1>5. \A m, n : Item(Joined(<<m, n>>[1], <<m, n>>[2]), "method", <<m, n>>) = method(m, n)
  OBVIOUS
<1> DEFINE called(u) == Item(Joined(u[1], u[2]), "method", u)
<1>6. \A m, n : called(<<m, n>>) = method(m, n)
  BY <1>5
<1> HIDE DEF source, Of, method, called
<1>7. x \in source.items <=> \E u \in Functions(pkg) : x = called(u)
  <2>1. \A u : u \in Functions(pkg) <=> \E m \in DOMAIN pkg : \E f \in Rendered(pkg[m]) : u = <<m, f.name>>
    BY FunctionsFacts
  <2>2. ASSUME x \in source.items PROVE \E u \in Functions(pkg) : x = called(u)
    <3>1. PICK m \in DOMAIN pkg : x \in Of(m)
      BY <1>4, <2>2
    <3>2. PICK f \in Rendered(pkg[m]) : x = method(m, f.name)
      BY <1>2, <3>1
    <3>3. <<m, f.name>> \in Functions(pkg) /\ x = called(<<m, f.name>>)
      BY <1>6, <2>1, <3>2
    <3> QED  BY <3>3
  <2>3. ASSUME NEW u \in Functions(pkg), x = called(u) PROVE x \in source.items
    <3>1. PICK m \in DOMAIN pkg : \E f \in Rendered(pkg[m]) : u = <<m, f.name>>
      BY <2>1
    <3>2. PICK f \in Rendered(pkg[m]) : u = <<m, f.name>>
      BY <3>1
    <3>3. x = method(m, f.name)
      BY <1>6, <2>3, <3>2
    <3> QED  BY <1>2, <1>4, <3>3
  <2> QED  BY <2>2, <2>3
<1> QED  BY <1>7 DEF source, called

LEMMA MethodPaths ==
  ASSUME NEW pkg, NEW opts, NEW p
  PROVE  p \in MethodSource(pkg, opts).paths <=>
           \/ \E m \in DOMAIN pkg : \E f \in Rendered(pkg[m]) :
                \/ p = Path(IF opts.flatten THEN Root ELSE m, f.name, "builder")
                \/ \E u \in f.uses : p = TypePath(u, opts)
           \/ opts.use_aliases /\ p = Path(Root, SmCall, "alias")
<1> DEFINE source == MethodSource(pkg, opts)
           Of(m) == UNION {{Path(IF opts.flatten THEN Root ELSE m, f.name, "builder")}
                               \cup {TypePath(u, opts) : u \in f.uses}
                             : f \in Rendered(pkg[m])}
<1>1. source.paths = (UNION {Of(m) : m \in DOMAIN pkg})
                       \cup (IF opts.use_aliases THEN {Path(Root, SmCall, "alias")} ELSE {})
  BY MethodFacts
<1>2. \A m : p \in Of(m) <=>
        \E f \in Rendered(pkg[m]) :
          \/ p = Path(IF opts.flatten THEN Root ELSE m, f.name, "builder")
          \/ \E u \in f.uses : p = TypePath(u, opts)
  OBVIOUS
<1> HIDE DEF source, Of
<1>3. p \in source.paths <=> \/ \E m \in DOMAIN pkg : p \in Of(m)
                             \/ opts.use_aliases /\ p = Path(Root, SmCall, "alias")
  BY <1>1
<1> QED  BY <1>2, <1>3 DEF source


-----------------------------------------------------------------------------
(* The scopes of a crate *)

\* The scope where the items of a module are.
Home(m, opts) == IF opts.flatten THEN Root ELSE m

LEMMA CrateScopes ==
  ASSUME NEW pkg \in Packages, NEW opts
  PROVE  LET crate == Crate(pkg, opts) IN
         /\ DOMAIN crate = {Root, Methods} \cup (IF opts.flatten THEN {} ELSE DOMAIN pkg)
         /\ crate[Methods] = TxExtScope(pkg, opts)
         /\ crate[Root] = IF opts.flatten
              THEN Together({RootSource(pkg, opts, FALSE)}
                              \cup {ModuleSource(m, pkg, opts) : m \in DOMAIN pkg})
              ELSE WithModules(RootSource(pkg, opts, FALSE), DOMAIN pkg)
         /\ ~opts.flatten => \A m \in DOMAIN pkg : crate[m] = ModuleSource(m, pkg, opts)
<1>1. DOMAIN pkg \subseteq Modules
  BY LayoutAssumption
<1>2. Root \notin DOMAIN pkg /\ Methods \notin DOMAIN pkg /\ Root # Methods
  BY <1>1, RootAssumption
<1> DEFINE root == RootSource(pkg, opts, FALSE)
           modules == IF opts.flatten THEN {} ELSE DOMAIN pkg
           flat == Together({root} \cup {ModuleSource(m, pkg, opts) : m \in DOMAIN pkg})
           nested == WithModules(root, modules)
           source(s) == ModuleSource(s, pkg, opts)
           methods == TxExtScope(pkg, opts)
           crate == [s \in modules \cup {Root, Methods} |->
                       CASE s = Methods -> methods
                         [] s = Root    -> IF opts.flatten THEN flat ELSE nested
                         [] OTHER       -> source(s)]
<1>3. Crate(pkg, opts) = crate
  BY DEF Crate
<1>4. ~opts.flatten => nested = WithModules(root, DOMAIN pkg)
  OBVIOUS
<1>5. /\ DOMAIN crate = {Root, Methods} \cup modules
      /\ crate[Methods] = methods
      /\ crate[Root] = IF opts.flatten THEN flat ELSE nested
      /\ ~opts.flatten => \A m \in DOMAIN pkg : crate[m] = source(m)
  <2> HIDE DEF root, flat, nested, source, methods
  <2> QED  BY <1>2
<1> QED  BY <1>3, <1>4, <1>5

\* What a root with modules has.
LEMMA WithModulesFacts ==
  ASSUME NEW root, NEW modules
  PROVE  /\ \A x : x \in WithModules(root, modules).items <=>
              x \in root.items \/ \E m \in modules : x = Item(Name(m), "mod", m)
         /\ WithModules(root, modules).paths = root.paths
         /\ WithModules(root, modules).prelude = root.prelude
         /\ WithModules(root, modules).binders = root.binders
         /\ WithModules(root, modules).structs = root.structs
<1> DEFINE decls == [NoSource EXCEPT !.items = {Item(Name(m), "mod", m) : m \in modules}]
<1>1. WithModules(root, modules) = Together({root, decls})
  BY DEF WithModules
<1>2. /\ decls.items = {Item(Name(m), "mod", m) : m \in modules}
      /\ decls.paths = {} /\ decls.prelude = {} /\ decls.binders = {} /\ decls.structs = {}
  BY DEF NoSource
<1> HIDE DEF decls
<1>3. \A x : x \in WithModules(root, modules).items <=>
        x \in root.items \/ \E m \in modules : x = Item(Name(m), "mod", m)
  <2>1. \A x : x \in WithModules(root, modules).items <=> x \in root.items \/ x \in decls.items
    BY <1>1, TogetherFacts
  <2> QED  BY <1>2, <2>1
<1>4. /\ \A x : x \in WithModules(root, modules).paths <=> x \in root.paths
      /\ \A x : x \in WithModules(root, modules).prelude <=> x \in root.prelude
      /\ \A x : x \in WithModules(root, modules).binders <=> x \in root.binders
      /\ \A x : x \in WithModules(root, modules).structs <=> x \in root.structs
  BY <1>1, <1>2, TogetherFacts
<1>5. /\ WithModules(root, modules).paths = root.paths
      /\ WithModules(root, modules).prelude = root.prelude
      /\ WithModules(root, modules).binders = root.binders
      /\ WithModules(root, modules).structs = root.structs
  BY <1>4
<1> QED  BY <1>3, <1>5

\* The root of a flat crate has what the root and all modules have.
LEMMA FlatRoot ==
  ASSUME NEW pkg \in Packages, NEW opts, opts.flatten
  PROVE  LET scope == Crate(pkg, opts)[Root]
             root == RootSource(pkg, opts, FALSE)
         IN
         /\ \A x : x \in scope.items <=>
              x \in root.items \/ \E m \in DOMAIN pkg : x \in ModuleSource(m, pkg, opts).items
         /\ \A x : x \in scope.paths <=>
              x \in root.paths \/ \E m \in DOMAIN pkg : x \in ModuleSource(m, pkg, opts).paths
         /\ \A x : x \in scope.prelude <=>
              x \in root.prelude \/ \E m \in DOMAIN pkg : x \in ModuleSource(m, pkg, opts).prelude
         /\ \A x : x \in scope.binders <=>
              x \in root.binders \/ \E m \in DOMAIN pkg : x \in ModuleSource(m, pkg, opts).binders
         /\ \A x : x \in scope.structs <=>
              x \in root.structs \/ \E m \in DOMAIN pkg : x \in ModuleSource(m, pkg, opts).structs
<1> DEFINE scope == Crate(pkg, opts)[Root]
           root == RootSource(pkg, opts, FALSE)
           source(m) == ModuleSource(m, pkg, opts)
           sources == {root} \cup {source(m) : m \in DOMAIN pkg}
<1>1. scope = Together(sources)
  BY CrateScopes
<1>2. \A s : s \in sources <=> s = root \/ \E m \in DOMAIN pkg : s = source(m)
  <2> HIDE DEF root, source
  <2> QED  OBVIOUS
<1>3. /\ \A x : x \in scope.items <=> \E s \in sources : x \in s.items
      /\ \A x : x \in scope.paths <=> \E s \in sources : x \in s.paths
      /\ \A x : x \in scope.prelude <=> \E s \in sources : x \in s.prelude
      /\ \A x : x \in scope.binders <=> \E s \in sources : x \in s.binders
      /\ \A x : x \in scope.structs <=> \E s \in sources : x \in s.structs
  <2> HIDE DEF scope, sources
  <2> QED  BY <1>1, TogetherFacts
<1> HIDE DEF scope, root, source, sources
<1>4. \A x : x \in scope.items <=> x \in root.items \/ \E m \in DOMAIN pkg : x \in source(m).items
  BY <1>2, <1>3
<1>5. \A x : x \in scope.paths <=> x \in root.paths \/ \E m \in DOMAIN pkg : x \in source(m).paths
  BY <1>2, <1>3
<1>6. \A x : x \in scope.prelude <=> x \in root.prelude \/ \E m \in DOMAIN pkg : x \in source(m).prelude
  BY <1>2, <1>3
<1>7. \A x : x \in scope.structs <=> x \in root.structs \/ \E m \in DOMAIN pkg : x \in source(m).structs
  BY <1>2, <1>3
<1>8. \A x : x \in scope.binders <=> x \in root.binders \/ \E m \in DOMAIN pkg : x \in source(m).binders
  BY <1>2, <1>3
<1> QED  BY <1>4, <1>5, <1>6, <1>7, <1>8 DEF scope, root, source

\* Where modules are scopes, the root has the modules besides its own items.
LEMMA NestedRoot ==
  ASSUME NEW pkg \in Packages, NEW opts, ~opts.flatten
  PROVE  LET scope == Crate(pkg, opts)[Root]
             root == RootSource(pkg, opts, FALSE)
         IN
         /\ \A x : x \in scope.items <=>
              x \in root.items \/ \E m \in DOMAIN pkg : x = Item(Name(m), "mod", m)
         /\ scope.paths = root.paths /\ scope.prelude = root.prelude
         /\ scope.binders = root.binders /\ scope.structs = root.structs
<1>1. Crate(pkg, opts)[Root] = WithModules(RootSource(pkg, opts, FALSE), DOMAIN pkg)
  BY CrateScopes
<1> DEFINE root == RootSource(pkg, opts, FALSE)
<1> HIDE DEF root
<1>2. LET scope == WithModules(root, DOMAIN pkg) IN
      /\ \A x : x \in scope.items <=>
           x \in root.items \/ \E m \in DOMAIN pkg : x = Item(Name(m), "mod", m)
      /\ scope.paths = root.paths /\ scope.prelude = root.prelude
      /\ scope.binders = root.binders /\ scope.structs = root.structs
  BY WithModulesFacts
<1> QED  BY <1>1, <1>2 DEF root

LEMMA NestedItems ==
  ASSUME NEW pkg \in Packages, NEW opts, ~opts.flatten, NEW x
  PROVE  x \in Crate(pkg, opts)[Root].items <=>
           \/ x \in RootSource(pkg, opts, FALSE).items
           \/ \E m \in DOMAIN pkg : x = Item(Name(m), "mod", m)
<1>1. \A y : y \in Crate(pkg, opts)[Root].items <=>
         \/ y \in RootSource(pkg, opts, FALSE).items
         \/ \E m \in DOMAIN pkg : y = Item(Name(m), "mod", m)
  BY NestedRoot
<1> QED  BY <1>1

LEMMA CrateDomain ==
  ASSUME NEW pkg \in Packages, NEW opts
  PROVE  DOMAIN Crate(pkg, opts) = {Root, Methods} \cup (IF opts.flatten THEN {} ELSE DOMAIN pkg)
BY CrateScopes

\* What is in a module or in the root is in a scope of the crate.
LEMMA ModuleIsHome ==
  ASSUME NEW pkg \in Packages, NEW opts, NEW m \in DOMAIN pkg
  PROVE  LET crate == Crate(pkg, opts)
             source == ModuleSource(m, pkg, opts)
             s == Home(m, opts)
         IN
         /\ s \in DOMAIN crate
         /\ source.items \subseteq crate[s].items /\ source.paths \subseteq crate[s].paths
         /\ source.prelude \subseteq crate[s].prelude /\ source.binders \subseteq crate[s].binders
         /\ source.structs \subseteq crate[s].structs
<1>1. CASE opts.flatten
  <2>1. Home(m, opts) = Root /\ Root \in DOMAIN Crate(pkg, opts)
    BY <1>1, CrateScopes DEF Home
  <2> QED  BY <1>1, <2>1, FlatRoot
<1>2. CASE ~opts.flatten
  <2>1. Home(m, opts) = m /\ m \in DOMAIN Crate(pkg, opts)
    BY <1>2, CrateScopes DEF Home
  <2>2. Crate(pkg, opts)[Home(m, opts)] = ModuleSource(m, pkg, opts)
    BY <1>2, <2>1, CrateScopes
  <2> QED  BY <2>1, <2>2
<1> QED  BY <1>1, <1>2

LEMMA RootIsRoot ==
  ASSUME NEW pkg \in Packages, NEW opts
  PROVE  LET crate == Crate(pkg, opts)
             source == RootSource(pkg, opts, FALSE)
         IN
         /\ Root \in DOMAIN crate
         /\ source.items \subseteq crate[Root].items /\ source.paths \subseteq crate[Root].paths
         /\ source.prelude \subseteq crate[Root].prelude
<1>1. Root \in DOMAIN Crate(pkg, opts)
  BY CrateScopes
<1>2. CASE opts.flatten
  BY <1>1, <1>2, FlatRoot
<1>3. CASE ~opts.flatten
  BY <1>1, <1>3, NestedRoot
<1> QED  BY <1>2, <1>3


-----------------------------------------------------------------------------
(* Each obstacle obstructs *)

LEMMA SpaceFacts ==
  ASSUME NEW n, NEW b
  PROVE  /\ \A k \in {"address", "builder", "target", "use", "scoped", "method"} : Space(Item(n, k, b)) = "value"
         /\ \A k \in {"alias", "datatype", "scope type", "reexport", "trait", "mod"} :
              Space(Item(n, k, b)) = "type"
<1>1. \A k : Item(n, k, b).kind = k
  BY ItemFacts
<1>2. \A k : Space(Item(n, k, b))
              = IF k \in {"address", "builder", "target", "use", "scoped", "method"} THEN "value" ELSE "type"
  BY <1>1 DEF Space
<1> QED  BY <1>2

\* Two items of one name in one scope,
LEMMA Clash ==
  ASSUME NEW crate, NEW s \in DOMAIN crate, NEW n, NEW k, NEW b, NEW l, NEW c,
         Item(n, k, b) \in crate[s].items, Item(n, l, c) \in crate[s].items,
         Space(Item(n, k, b)) = Space(Item(n, l, c)), k # l \/ b # c
  PROVE  ~NamesResolve(crate)
<1>1. Item(n, k, b) # Item(n, l, c) /\ Item(n, k, b).name = n /\ Item(n, l, c).name = n
  BY ItemFacts
<1>2. ~NamesDiffer(crate[s].items)
  BY <1>1 DEF NamesDiffer
<1> QED  BY <1>2 DEF NamesResolve

\* an item that hides a name that is taken from Rust,
LEMMA Hides ==
  ASSUME NEW crate, NEW s \in DOMAIN crate, NEW n, NEW k, NEW b,
         Item(n, k, b) \in crate[s].items, Space(Item(n, k, b)) = RustSpace(n), n \in crate[s].prelude
  PROVE  ~NamesResolve(crate)
BY ItemFacts DEF NamesResolve, HidesNothing

\* a binder that hides what is meant,
LEMMA Binds ==
  ASSUME NEW crate, NEW s \in DOMAIN crate, NEW hides, NEW means,
         Binder(hides, means) \in crate[s].binders, hides \cap means # {}
  PROVE  ~NamesResolve(crate)
BY BinderFacts DEF NamesResolve

\* and a path that leads nowhere do not resolve.
LEMMA Dangles ==
  ASSUME NEW crate, NEW s \in DOMAIN crate, NEW p \in crate[s].paths, ~Resolves(p, crate)
  PROVE  ~NamesResolve(crate)
BY DEF NamesResolve

\* Datatypes and builders are nowhere unless they are rendered.
LEMMA KindsAreRendered ==
  ASSUME NEW pkg \in Packages, NEW opts, NEW s \in DOMAIN Crate(pkg, opts),
         NEW x \in Crate(pkg, opts)[s].items
  PROVE  /\ x.kind = "datatype" => opts.emit_types
         /\ x.kind = "builder" => opts.emit_calls /\ opts.emit_call_specs
<1>1. ASSUME NEW m, x \in ModuleSource(m, pkg, opts).items
      PROVE  /\ x.kind = "datatype" => opts.emit_types
             /\ x.kind = "builder" => opts.emit_calls /\ opts.emit_call_specs
  <2>1. ModuleHas(m, pkg, opts, x.name, x.kind, x.by)
    BY <1>1, ModuleItems
  <2> QED  BY <2>1 DEF ModuleHas
<1>2. ASSUME x \in RootSource(pkg, opts, FALSE).items
      PROVE  x.kind # "datatype" /\ x.kind # "builder"
  <2>1. RootHas(pkg, opts, x.name, x.kind, x.by)
    BY <1>2, RootItems
  <2> QED  BY <2>1 DEF RootHas
<1>3. CASE s = Methods
  <2>1. x \in TxExtScope(pkg, opts).items
    BY <1>3, CrateScopes
  <2>2. x \in MethodSource(pkg, opts).items
    BY <2>1, NoSourceFacts DEF TxExtScope
  <2>3. x.kind = "method"
    BY <2>2, MethodItems, ItemFacts
  <2> QED  BY <2>3
<1>4. CASE s = Root /\ opts.flatten
  BY <1>1, <1>2, <1>4, FlatRoot
<1>5. CASE s = Root /\ ~opts.flatten
  <2>1. x \in RootSource(pkg, opts, FALSE).items \/ \E m \in DOMAIN pkg : x = Item(Name(m), "mod", m)
    BY <1>5, NestedItems
  <2>2. ASSUME NEW m, x = Item(Name(m), "mod", m) PROVE x.kind = "mod"
    BY <2>2, ItemFacts
  <2> QED  BY <1>2, <2>1, <2>2
<1>6. CASE s # Root /\ s # Methods
  <2>1. ~opts.flatten /\ s \in DOMAIN pkg
    BY <1>6, CrateDomain
  <2>2. x \in ModuleSource(s, pkg, opts).items
    BY <2>1, CrateScopes
  <2> QED  BY <1>1, <2>2
<1> QED  BY <1>3, <1>4, <1>5, <1>6

\* What a module has is in its scope, and what the root has is in the root.
LEMMA HomeHas ==
  ASSUME NEW pkg \in Packages, NEW opts, NEW m \in DOMAIN pkg, NEW n, NEW k,
         ModuleHas(m, pkg, opts, n, k, m)
  PROVE  /\ Home(m, opts) \in DOMAIN Crate(pkg, opts)
         /\ Item(n, k, m) \in Crate(pkg, opts)[Home(m, opts)].items
<1>1. Item(n, k, m) \in ModuleSource(m, pkg, opts).items
  BY ModuleItems, ItemFacts
<1> QED  BY <1>1, ModuleIsHome

LEMMA RootHasIt ==
  ASSUME NEW pkg \in Packages, NEW opts, NEW n, NEW k, NEW b, RootHas(pkg, opts, n, k, b)
  PROVE  /\ Root \in DOMAIN Crate(pkg, opts)
         /\ Item(n, k, b) \in Crate(pkg, opts)[Root].items
<1> DEFINE x == Item(n, k, b)
<1>1. x.name = n /\ x.kind = k /\ x.by = b
  BY ItemFacts
<1>2. x \in RootSource(pkg, opts, FALSE).items <=>
        x = Item(x.name, x.kind, x.by) /\ RootHas(pkg, opts, x.name, x.kind, x.by)
  BY RootItems
<1>3. x \in RootSource(pkg, opts, FALSE).items
  BY <1>1, <1>2
<1> QED  BY <1>3, RootIsRoot

LEMMA DatatypeObstructs ==
  ASSUME NEW pkg \in Packages, NEW opts, DatatypeObstacle(pkg, opts)
  PROVE  Panics(pkg, opts) \/ ~NamesResolve(Crate(pkg, opts))
<1> DEFINE crate == Crate(pkg, opts)
<1>1. PICK m \in DOMAIN pkg : \E d \in pkg[m].datatypes :
             \/ d.kind = "struct" /\ d.members \cap PhantomNames # {}
             \/ ({d.name} \cup d.members) \cap Unrawable # {}
             \/ d.name \in TakenInModule(pkg[m], opts) \ RustValues
             \/ d.generics \cap ({d.name} \cup Bare(m, d.uses, opts)) # {}
  BY DEF DatatypeObstacle
<1>2. PICK d \in pkg[m].datatypes :
             \/ d.kind = "struct" /\ d.members \cap PhantomNames # {}
             \/ ({d.name} \cup d.members) \cap Unrawable # {}
             \/ d.name \in TakenInModule(pkg[m], opts) \ RustValues
             \/ d.generics \cap ({d.name} \cup Bare(m, d.uses, opts)) # {}
  BY <1>1
<1>3. opts.emit_types
  BY DEF DatatypeObstacle
<1> DEFINE s == Home(m, opts)
<1>4. CASE d.kind = "struct" /\ d.members \cap PhantomNames # {}
  <2>1. d \in ModuleSource(m, pkg, opts).structs
    BY <1>3, <1>4, ModuleRest
  <2>2. s \in DOMAIN crate /\ d \in crate[s].structs
    BY <2>1, ModuleIsHome
  <2> HIDE DEF crate, s
  <2>3. ~NamesResolve(crate)
    BY <1>4, <2>2 DEF NamesResolve, ConstructorFits
  <2> QED  BY <2>3 DEF crate
<1>5. CASE ({d.name} \cup d.members) \cap Unrawable # {}
  BY <1>3, <1>5 DEF Panics, ModulePanics
<1>6. CASE d.name \in TakenInModule(pkg[m], opts) \ RustValues
  <2>1. ModuleHas(m, pkg, opts, d.name, "datatype", m)
    BY <1>3 DEF ModuleHas
  <2>2. s \in DOMAIN crate /\ Item(d.name, "datatype", m) \in crate[s].items
    BY <2>1, HomeHas
  <2>3. d.name \in crate[s].prelude
    <3>1. d.name \in ModuleSource(m, pkg, opts).prelude
      BY <1>6, ModuleRest
    <3> QED  BY <3>1, ModuleIsHome
  <2>4. Space(Item(d.name, "datatype", m)) = RustSpace(d.name)
    BY <1>6, SpaceFacts DEF RustSpace
  <2> HIDE DEF crate, s
  <2>5. ~NamesResolve(crate)
    BY <2>2, <2>3, <2>4, Hides
  <2> QED  BY <2>5 DEF crate
<1>7. CASE d.generics \cap ({d.name} \cup Bare(m, d.uses, opts)) # {}
  <2> DEFINE means == {d.name} \cup Bare(m, d.uses, opts)
  <2>1. Binder(d.generics, means) \in ModuleSource(m, pkg, opts).binders
    <3>1. Binder(d.generics, means) \in DatatypeBinders(m, pkg[m], opts)
      BY DEF DatatypeBinders
    <3> QED  BY <1>3, <3>1, ModuleRest
  <2>2. s \in DOMAIN crate /\ Binder(d.generics, means) \in crate[s].binders
    BY <2>1, ModuleIsHome
  <2>3. d.generics \cap means # {}
    BY <1>7
  <2> HIDE DEF crate, s, means
  <2>4. ~NamesResolve(crate)
    BY <2>2, <2>3, Binds
  <2> QED  BY <2>4 DEF crate
<1> QED  BY <1>2, <1>4, <1>5, <1>6, <1>7

\* Names that a module imports are used up in its scope.
LEMMA ImportedAreThere ==
  ASSUME NEW pkg \in Packages, NEW opts, NEW m \in DOMAIN pkg, NEW n \in Imported
  PROVE  \E b : \E k \in {"use", "scoped"} : Item(n, k, b) \in Crate(pkg, opts)[Home(m, opts)].items
<1>1. CASE opts.flatten
  <2>1. RootHas(pkg, opts, n, "scoped", Root)
    BY RootAssumption DEF RootHas
  <2>2. Item(n, "scoped", Root) \in Crate(pkg, opts)[Root].items
    BY <2>1, RootHasIt
  <2> QED  BY <1>1, <2>2 DEF Home
<1>2. CASE ~opts.flatten
  <2>1. ModuleHas(m, pkg, opts, n, "use", m)
    BY <1>2 DEF ModuleHas
  <2> QED  BY <2>1, HomeHas
<1> QED  BY <1>1, <1>2

LEMMA FunctionObstructs ==
  ASSUME NEW pkg \in Packages, NEW opts, FunctionObstacle(pkg, opts)
  PROVE  Panics(pkg, opts) \/ ~NamesResolve(Crate(pkg, opts))
<1> DEFINE crate == Crate(pkg, opts)
<1>1. opts.emit_calls
  BY DEF FunctionObstacle
<1>2. PICK m \in DOMAIN pkg : \E f \in Rendered(pkg[m]) :
        \/ f.name \in Unrawable
        \/ /\ opts.emit_call_specs
           /\ \/ f.name \in Imported \cup (TakenInModule(pkg[m], opts) \cap RustValues)
              \/ <<m, Target(f.name)>> \in Functions(pkg)
              \/ ~opts.emit_types /\ f.uses # {}
              \/ f.generics \cap Bare(m, f.uses, opts) # {}
              \/ f.params \cap {Target(f.name), SpecVariable} # {}
        \/ opts.emit_tx_ext /\ ~opts.emit_call_specs
  BY DEF FunctionObstacle
<1>3. PICK f \in Rendered(pkg[m]) :
        \/ f.name \in Unrawable
        \/ /\ opts.emit_call_specs
           /\ \/ f.name \in Imported \cup (TakenInModule(pkg[m], opts) \cap RustValues)
              \/ <<m, Target(f.name)>> \in Functions(pkg)
              \/ ~opts.emit_types /\ f.uses # {}
              \/ f.generics \cap Bare(m, f.uses, opts) # {}
              \/ f.params \cap {Target(f.name), SpecVariable} # {}
        \/ opts.emit_tx_ext /\ ~opts.emit_call_specs
  BY <1>2
<1> DEFINE s == Home(m, opts)
<1>4. CASE f.name \in Unrawable
  BY <1>1, <1>4 DEF Panics, ModulePanics
<1>5. ASSUME opts.emit_call_specs, NEW g \in Rendered(pkg[m])
      PROVE  s \in DOMAIN crate /\ Item(g.name, "builder", m) \in crate[s].items
  <2>1. ModuleHas(m, pkg, opts, g.name, "builder", m)
    BY <1>1, <1>5 DEF ModuleHas
  <2> QED  BY <2>1, HomeHas
<1>6. CASE opts.emit_call_specs /\ f.name \in Imported
  <2> PICK b : \E k \in {"use", "scoped"} : Item(f.name, k, b) \in crate[s].items
    BY <1>6, ImportedAreThere
  <2>1. PICK k \in {"use", "scoped"} : Item(f.name, k, b) \in crate[s].items
    OBVIOUS
  <2>2. Space(Item(f.name, k, b)) = "value" /\ Space(Item(f.name, "builder", m)) = "value"
    BY SpaceFacts
  <2>3. s \in DOMAIN crate /\ Item(f.name, "builder", m) \in crate[s].items
    BY <1>5, <1>6
  <2>4. k # "builder"
    BY <2>1
  <2> HIDE DEF crate, s
  <2>5. ~NamesResolve(crate)
    BY <2>1, <2>2, <2>3, <2>4, Clash
  <2> QED  BY <2>5 DEF crate
<1>7. CASE opts.emit_call_specs /\ <<m, Target(f.name)>> \in Functions(pkg)
  <2>1. PICK n \in DOMAIN pkg : \E g \in Rendered(pkg[n]) : <<m, Target(f.name)>> = <<n, g.name>>
    BY <1>7, FunctionsFacts
  <2>2. PICK g \in Rendered(pkg[m]) : g.name = Target(f.name)
    BY <2>1
  <2>3. ModuleHas(m, pkg, opts, Target(f.name), "target", m)
    BY <1>1 DEF ModuleHas
  <2>4. Item(Target(f.name), "target", m) \in crate[s].items
    BY <2>3, HomeHas
  <2>5. s \in DOMAIN crate /\ Item(Target(f.name), "builder", m) \in crate[s].items
    BY <1>5, <1>7, <2>2
  <2>6. Space(Item(Target(f.name), "target", m)) = Space(Item(Target(f.name), "builder", m))
    BY SpaceFacts
  <2> HIDE DEF crate, s
  <2>7. ~NamesResolve(crate)
    BY <2>4, <2>5, <2>6, Clash
  <2> QED  BY <2>7 DEF crate
<1>8. CASE opts.emit_call_specs /\ ~opts.emit_types /\ f.uses # {}
  <2>1. PICK u : u \in f.uses
    BY <1>8
  <2>2. TypePath(u, opts) \in ModuleSource(m, pkg, opts).paths
    BY <1>1, <1>8, <2>1, ModuleRest
  <2>3. s \in DOMAIN crate /\ TypePath(u, opts) \in crate[s].paths
    BY <2>2, ModuleIsHome
  <2>4. TypePath(u, opts).kind = "datatype"
    BY PathFacts DEF TypePath
  <2>5. ~Resolves(TypePath(u, opts), crate)
    BY <1>8, <2>4, KindsAreRendered DEF Resolves
  <2> HIDE DEF crate, s
  <2>6. ~NamesResolve(crate)
    BY <2>3, <2>5, Dangles
  <2> QED  BY <2>6 DEF crate
<1>9. CASE opts.emit_tx_ext /\ ~opts.emit_call_specs
  <2> DEFINE p == Path(s, f.name, "builder")
  <2>1. HasTxExt(pkg, opts)
    BY <1>1, <1>9 DEF HasTxExt
  <2>2. p \in MethodSource(pkg, opts).paths
    BY MethodPaths DEF Home
  <2>3. Methods \in DOMAIN crate /\ p \in crate[Methods].paths
    BY <2>1, <2>2, CrateScopes DEF TxExtScope
  <2>4. p.kind = "builder"
    BY PathFacts
  <2>5. ~Resolves(p, crate)
    BY <1>9, <2>4, KindsAreRendered DEF Resolves
  <2> HIDE DEF crate, p
  <2>6. ~NamesResolve(crate)
    BY <2>3, <2>5, Dangles
  <2> QED  BY <2>6 DEF crate
<1>10. ASSUME opts.emit_call_specs, NEW hides, NEW means, hides \cap means # {},
              Binder(hides, means) \in BuilderBinders(m, pkg[m], opts)
       PROVE  ~NamesResolve(crate)
  <2>1. Binder(hides, means) \in ModuleSource(m, pkg, opts).binders
    BY <1>1, <1>10, ModuleRest
  <2>2. s \in DOMAIN crate /\ Binder(hides, means) \in crate[s].binders
    BY <2>1, ModuleIsHome
  <2> HIDE DEF crate, s
  <2> QED  BY <1>10, <2>2, Binds
<1>11. CASE opts.emit_call_specs /\ f.generics \cap Bare(m, f.uses, opts) # {}
  <2>1. Binder(f.generics, Bare(m, f.uses, opts)) \in BuilderBinders(m, pkg[m], opts)
    BY DEF BuilderBinders
  <2> QED  BY <1>10, <1>11, <2>1
<1>12. CASE opts.emit_call_specs /\ f.params \cap {Target(f.name), SpecVariable} # {}
  <2>1. Binder(f.params, {Target(f.name), SpecVariable}) \in BuilderBinders(m, pkg[m], opts)
    BY DEF BuilderBinders
  <2> QED  BY <1>10, <1>12, <2>1
<1>13. CASE opts.emit_call_specs /\ f.name \in TakenInModule(pkg[m], opts) \cap RustValues
  <2>1. s \in DOMAIN crate /\ Item(f.name, "builder", m) \in crate[s].items
    BY <1>5, <1>13
  <2>2. f.name \in crate[s].prelude
    <3>1. f.name \in ModuleSource(m, pkg, opts).prelude
      BY <1>13, ModuleRest
    <3> QED  BY <3>1, ModuleIsHome
  <2>3. Space(Item(f.name, "builder", m)) = RustSpace(f.name)
    BY <1>13, SpaceFacts DEF RustSpace
  <2> HIDE DEF crate, s
  <2>4. ~NamesResolve(crate)
    BY <2>1, <2>2, <2>3, Hides
  <2> QED  BY <2>4 DEF crate
<1> QED  BY <1>3, <1>4, <1>6, <1>7, <1>8, <1>9, <1>11, <1>12, <1>13

\* The binders of the methods.
LEMMA MethodBinderIs ==
  ASSUME NEW pkg, NEW opts, NEW b
  PROVE  b \in MethodSource(pkg, opts).binders <=>
           \E m \in DOMAIN pkg : \E f \in Rendered(pkg[m]) : b \in MethodBinders(m, f, opts)
<1> DEFINE of(m) == UNION {MethodBinders(m, f, opts) : f \in Rendered(pkg[m])}
<1>1. MethodSource(pkg, opts).binders = UNION {of(m) : m \in DOMAIN pkg}
  BY MethodFacts
<1>2. \A m : b \in of(m) <=> \E f \in Rendered(pkg[m]) : b \in MethodBinders(m, f, opts)
  OBVIOUS
<1> HIDE DEF of
<1> QED  BY <1>1, <1>2

LEMMA MethodObstructs ==
  ASSUME NEW pkg \in Packages, NEW opts, MethodObstacle(pkg, opts)
  PROVE  ~NamesResolve(Crate(pkg, opts))
<1> DEFINE crate == Crate(pkg, opts)
<1>1. HasTxExt(pkg, opts)
  BY DEF MethodObstacle
<1>2. Methods \in DOMAIN crate /\ crate[Methods] = MethodSource(pkg, opts)
  BY <1>1, CrateScopes DEF TxExtScope
<1>3. ASSUME NEW u \in Functions(pkg), NEW v \in Functions(pkg),
             u # v, Joined(u[1], u[2]) = Joined(v[1], v[2])
      PROVE  ~NamesResolve(crate)
  <2> DEFINE n == Joined(u[1], u[2])
  <2>1. Item(n, "method", u) \in crate[Methods].items /\ Item(n, "method", v) \in crate[Methods].items
    BY <1>2, <1>3, MethodItems
  <2>2. Space(Item(n, "method", u)) = Space(Item(n, "method", v))
    BY SpaceFacts
  <2> HIDE DEF crate, n
  <2> QED  BY <1>2, <1>3, <2>1, <2>2, Clash
<1>4. ASSUME NEW m \in DOMAIN pkg, NEW f \in Rendered(pkg[m]),
             \/ ({Signer} \cup f.generics) \cap MethodTypes(m, f, opts) # {}
             \/ opts.flatten /\ f.name \in f.params
      PROVE  ~NamesResolve(crate)
  <2>1. ASSUME NEW hides, NEW means, Binder(hides, means) \in MethodBinders(m, f, opts),
               hides \cap means # {}
        PROVE  ~NamesResolve(crate)
    <3>1. Binder(hides, means) \in crate[Methods].binders
      BY <1>2, <2>1, MethodBinderIs
    <3> HIDE DEF crate
    <3> QED  BY <1>2, <2>1, <3>1, Binds
  <2>2. CASE ({Signer} \cup f.generics) \cap MethodTypes(m, f, opts) # {}
    <3>1. Binder({Signer} \cup f.generics, MethodTypes(m, f, opts)) \in MethodBinders(m, f, opts)
      BY DEF MethodBinders
    <3> HIDE DEF crate
    <3> QED  BY <2>1, <2>2, <3>1
  <2>3. CASE opts.flatten /\ f.name \in f.params
    <3>1. Binder(f.params, {f.name}) \in MethodBinders(m, f, opts)
      BY <2>3 DEF MethodBinders
    <3> HIDE DEF crate
    <3> QED  BY <2>1, <2>3, <3>1
  <2> HIDE DEF crate
  <2> QED  BY <1>4, <2>2, <2>3
<1> HIDE DEF crate
<1>5. ~NamesResolve(crate)
  BY <1>3, <1>4 DEF MethodObstacle
<1> QED  BY <1>5 DEF crate

\* The names of the root are not free.
LEMMA ReservedObstructs ==
  ASSUME NEW pkg \in Packages, NEW opts, NEW n \in Reserved(pkg, opts),
         NEW k \in {"datatype", "reexport", "mod"}, NEW b,
         Item(n, k, b) \in Crate(pkg, opts)[Root].items
  PROVE  ~NamesResolve(Crate(pkg, opts))
<1> DEFINE crate == Crate(pkg, opts)
           source == RootSource(pkg, opts, FALSE)
<1>1. Space(Item(n, k, b)) = "type"
  BY SpaceFacts
<1>2. Root \in DOMAIN crate /\ source.prelude \subseteq crate[Root].prelude
  BY RootIsRoot
<1>3. source.prelude = TakenInRoot(pkg, opts)
  BY RootRest
<1>4. \/ n \in RootTypes \/ n \in TakenInRoot(pkg, opts) \ RustValues
      \/ HasTxExt(pkg, opts) /\ n = TxExt
  BY DEF Reserved
<1>5. CASE n \in source.prelude /\ n \notin RustValues
  <2>1. n \in crate[Root].prelude /\ Space(Item(n, k, b)) = RustSpace(n)
    BY <1>1, <1>2, <1>5 DEF RustSpace
  <2> HIDE DEF crate, source
  <2>2. ~NamesResolve(crate)
    BY <1>2, <2>1, Hides DEF crate
  <2> QED  BY <2>2 DEF crate
<1>6. ASSUME NEW l \in {"scope type", "trait"}, RootHas(pkg, opts, n, l, Root)
      PROVE  ~NamesResolve(crate)
  <2>1. Item(n, l, Root) \in crate[Root].items
    BY <1>6, RootHasIt
  <2>2. Space(Item(n, l, Root)) = "type" /\ k # l
    BY SpaceFacts
  <2>3. Item(n, k, b) \in crate[Root].items
    OBVIOUS
  <2> HIDE DEF crate, source
  <2> QED  BY <1>1, <1>2, <2>1, <2>2, <2>3, Clash
<1>7. n \in RootTypes => RootHas(pkg, opts, n, "scope type", Root)
  BY DEF RootHas
<1>8. HasTxExt(pkg, opts) /\ n = TxExt => RootHas(pkg, opts, n, "trait", Root)
  BY DEF RootHas
<1> HIDE DEF crate, source
<1>9. \/ n \in source.prelude /\ n \notin RustValues
      \/ RootHas(pkg, opts, n, "scope type", Root) \/ RootHas(pkg, opts, n, "trait", Root)
  BY <1>3, <1>4, <1>7, <1>8
<1> QED  BY <1>5, <1>6, <1>9 DEF crate

LEMMA ReexportIsThere ==
  ASSUME NEW pkg \in Packages, NEW opts, NEW u \in Reexported(pkg, opts)
  PROVE  /\ Item(u[2], "reexport", u[1]) \in Crate(pkg, opts)[Root].items
         /\ Path(u[1], u[2], "datatype") \in Crate(pkg, opts)[Root].paths
<1>1. RootHas(pkg, opts, u[2], "reexport", u[1])
  BY DEF RootHas
<1>2. Path(u[1], u[2], "datatype") \in RootSource(pkg, opts, FALSE).paths
  BY RootRest
<1> QED  BY <1>1, <1>2, RootHasIt, RootIsRoot

LEMMA ReexportObstructs ==
  ASSUME NEW pkg \in Packages, NEW opts, ReexportObstacle(pkg, opts)
  PROVE  ~NamesResolve(Crate(pkg, opts))
<1> DEFINE crate == Crate(pkg, opts)
<1>1. Root \in DOMAIN crate
  BY CrateDomain
<1>2. CASE opts.flatten
  <2>1. PICK u : u \in Reexported(pkg, opts)
    BY DEF ReexportObstacle
  <2> DEFINE p == Path(u[1], u[2], "datatype")
  <2>2. p \in crate[Root].paths
    BY <2>1, ReexportIsThere
  <2>3. u[1] \in Modules
    <3>1. PICK m \in DOMAIN pkg : \E d \in pkg[m].datatypes : u = <<m, d.name>>
      BY <2>1, ReexportedFacts
    <3>2. u[1] = m
      BY <3>1
    <3> QED  BY <3>2, LayoutAssumption
  <2>4. u[1] \notin DOMAIN crate
    <3>1. DOMAIN crate = {Root, Methods}
      BY <1>2, CrateDomain
    <3>2. u[1] # Root /\ u[1] # Methods
      BY <2>3, RootAssumption
    <3> HIDE DEF crate
    <3> QED  BY <3>1, <3>2
  <2>5. p.scope = u[1]
    BY PathFacts
  <2>6. ~Resolves(p, crate)
    BY <2>4, <2>5 DEF Resolves
  <2> HIDE DEF crate, p
  <2>7. ~NamesResolve(crate)
    BY <1>1, <2>2, <2>6, Dangles
  <2> QED  BY <2>7 DEF crate
<1>3. CASE ~AreUnique(Reexported(pkg, opts))
  <2>1. PICK u \in Reexported(pkg, opts), v \in Reexported(pkg, opts) : u[2] = v[2] /\ u # v
    BY <1>3 DEF AreUnique
  <2>2. u[1] # v[1]
    <3>1. PICK m \in DOMAIN pkg : \E d \in pkg[m].datatypes : u = <<m, d.name>>
      BY ReexportedFacts
    <3>2. PICK n \in DOMAIN pkg : \E d \in pkg[n].datatypes : v = <<n, d.name>>
      BY ReexportedFacts
    <3> QED  BY <2>1, <3>1, <3>2
  <2>3. /\ Item(u[2], "reexport", u[1]) \in crate[Root].items
        /\ Item(u[2], "reexport", v[1]) \in crate[Root].items
    BY <2>1, ReexportIsThere
  <2>4. Space(Item(u[2], "reexport", u[1])) = Space(Item(u[2], "reexport", v[1]))
    BY SpaceFacts
  <2> HIDE DEF crate
  <2>5. ~NamesResolve(crate)
    BY <1>1, <2>2, <2>3, <2>4, Clash
  <2> QED  BY <2>5 DEF crate
<1>4. ASSUME NEW u \in Reexported(pkg, opts), u[2] \in Reserved(pkg, opts) PROVE ~NamesResolve(crate)
  <2>1. Item(u[2], "reexport", u[1]) \in crate[Root].items
    BY ReexportIsThere
  <2> QED  BY <1>4, <2>1, ReservedObstructs
<1> QED  BY <1>2, <1>3, <1>4 DEF ReexportObstacle

LEMMA ModuleObstructs ==
  ASSUME NEW pkg \in Packages, NEW opts, ModuleObstacle(pkg, opts)
  PROVE  Panics(pkg, opts) \/ ~NamesResolve(Crate(pkg, opts))
<1> DEFINE crate == Crate(pkg, opts)
<1>1. ~opts.flatten
  BY DEF ModuleObstacle
<1>2. PICK m \in DOMAIN pkg :
        \/ Name(m) \in Unrawable \cup Reserved(pkg, opts)
        \/ opts.emit_tx_ext /\ opts.use_aliases /\ Name(m) \in {Sm, SmCall}
        \/ \E u \in Reexported(pkg, opts) : u[2] = Name(m)
  BY DEF ModuleObstacle
<1>3. Item(Name(m), "mod", m) \in crate[Root].items
  BY <1>1, NestedItems
<1>4. Root \in DOMAIN crate
  BY CrateDomain
<1>5. CASE Name(m) \in Unrawable
  BY <1>1, <1>5 DEF Panics, RootPanics
<1>6. CASE Name(m) \in Reserved(pkg, opts)
  BY <1>3, <1>6, ReservedObstructs
<1>7. ASSUME NEW k \in {"alias", "reexport"}, NEW b, Item(Name(m), k, b) \in crate[Root].items
      PROVE  ~NamesResolve(crate)
  <2>1. Space(Item(Name(m), k, b)) = Space(Item(Name(m), "mod", m)) /\ k # "mod"
    BY SpaceFacts
  <2> HIDE DEF crate
  <2> QED  BY <1>3, <1>4, <1>7, <2>1, Clash
<1>8. CASE opts.emit_tx_ext /\ opts.use_aliases /\ Name(m) \in {Sm, SmCall}
  <2>1. RootHas(pkg, opts, Name(m), "alias", Root)
    BY <1>1, <1>8 DEF RootHas
  <2>2. Item(Name(m), "alias", Root) \in crate[Root].items
    BY <2>1, RootHasIt
  <2> QED  BY <1>7, <2>2
<1>9. ASSUME NEW u \in Reexported(pkg, opts), u[2] = Name(m) PROVE ~NamesResolve(crate)
  <2>1. Item(Name(m), "reexport", u[1]) \in crate[Root].items
    BY <1>9, ReexportIsThere
  <2> QED  BY <1>7, <2>1
<1> QED  BY <1>2, <1>5, <1>6, <1>8, <1>9

LEMMA FlatObstructs ==
  ASSUME NEW pkg \in Packages, NEW opts, FlatObstacle(pkg, opts)
  PROVE  ~NamesResolve(Crate(pkg, opts))
<1> DEFINE crate == Crate(pkg, opts)
<1>1. opts.flatten
  BY DEF FlatObstacle
<1>2. Root \in DOMAIN crate
  BY CrateDomain
<1>3. ASSUME NEW m \in DOMAIN pkg, NEW n, NEW k, ModuleHas(m, pkg, opts, n, k, m)
      PROVE  Item(n, k, m) \in crate[Root].items
  BY <1>1, <1>3, HomeHas DEF Home
<1>4. ASSUME NEW n, NEW k, NEW b, NEW l, NEW c,
             Item(n, k, b) \in crate[Root].items, Item(n, l, c) \in crate[Root].items,
             Space(Item(n, k, b)) = Space(Item(n, l, c)), k # l \/ b # c
      PROVE  ~NamesResolve(crate)
  <2> HIDE DEF crate
  <2> QED  BY <1>2, <1>4, Clash
<1>5. ASSUME NEW u \in Functions(pkg), opts.emit_calls
      PROVE  /\ Item(Target(u[2]), "target", u[1]) \in crate[Root].items
             /\ opts.emit_call_specs => Item(u[2], "builder", u[1]) \in crate[Root].items
  <2>1. PICK m \in DOMAIN pkg : \E f \in Rendered(pkg[m]) : u = <<m, f.name>>
    BY FunctionsFacts
  <2>2. PICK f \in Rendered(pkg[m]) : u = <<m, f.name>>
    BY <2>1
  <2>3. ModuleHas(m, pkg, opts, Target(f.name), "target", m)
    BY <1>5 DEF ModuleHas
  <2>4. opts.emit_call_specs => ModuleHas(m, pkg, opts, f.name, "builder", m)
    BY <1>5 DEF ModuleHas
  <2> QED  BY <1>3, <2>2, <2>3, <2>4
<1>6. ASSUME NEW u \in Datatypes(pkg), opts.emit_types
      PROVE  Item(u[2], "datatype", u[1]) \in crate[Root].items
  <2>1. PICK m \in DOMAIN pkg : \E d \in pkg[m].datatypes : u = <<m, d.name>>
    BY DatatypesFacts
  <2>2. PICK d \in pkg[m].datatypes : u = <<m, d.name>>
    BY <2>1
  <2>3. ModuleHas(m, pkg, opts, d.name, "datatype", m)
    BY <1>6 DEF ModuleHas
  <2> QED  BY <1>3, <2>2, <2>3
<1>7. ASSUME NEW m \in DOMAIN pkg, NEW n \in DOMAIN pkg, m # n, opts.use_aliases
      PROVE  ~NamesResolve(crate)
  <2>1. ModuleHas(m, pkg, opts, Sm, "alias", m) /\ ModuleHas(n, pkg, opts, Sm, "alias", n)
    BY <1>7 DEF ModuleHas
  <2>2. Item(Sm, "alias", m) \in crate[Root].items /\ Item(Sm, "alias", n) \in crate[Root].items
    BY <1>3, <2>1
  <2>3. Space(Item(Sm, "alias", m)) = Space(Item(Sm, "alias", n))
    BY SpaceFacts
  <2> QED  BY <1>4, <1>7, <2>2, <2>3
<1>8. ASSUME opts.emit_types, NEW u \in Datatypes(pkg), NEW v \in Datatypes(pkg), u[2] = v[2], u # v
      PROVE  ~NamesResolve(crate)
  <2>1. u[1] # v[1]
    <3>1. PICK m \in DOMAIN pkg : \E d \in pkg[m].datatypes : u = <<m, d.name>>
      BY DatatypesFacts
    <3>2. PICK n \in DOMAIN pkg : \E d \in pkg[n].datatypes : v = <<n, d.name>>
      BY DatatypesFacts
    <3> QED  BY <1>8, <3>1, <3>2
  <2>2. /\ Item(u[2], "datatype", u[1]) \in crate[Root].items
        /\ Item(u[2], "datatype", v[1]) \in crate[Root].items
    BY <1>6, <1>8
  <2>3. Space(Item(u[2], "datatype", u[1])) = Space(Item(u[2], "datatype", v[1]))
    BY SpaceFacts
  <2> QED  BY <1>4, <2>1, <2>2, <2>3
<1>9. ASSUME opts.emit_types, NEW u \in Datatypes(pkg), u[2] \in Reserved(pkg, opts)
      PROVE  ~NamesResolve(crate)
  BY <1>6, <1>9, ReservedObstructs
<1>10. ASSUME NEW n, NEW k, NEW b, Item(n, k, b) \in crate[Root].items,
              Space(Item(n, k, b)) = RustSpace(n),
              n \in TakenInRoot(pkg, opts) \/ \E m \in DOMAIN pkg : n \in TakenInModule(pkg[m], opts)
       PROVE  ~NamesResolve(crate)
  <2>1. n \in TakenInRoot(pkg, opts) => n \in crate[Root].prelude
    BY RootRest, RootIsRoot
  <2>2. ASSUME NEW m \in DOMAIN pkg, n \in TakenInModule(pkg[m], opts) PROVE n \in crate[Root].prelude
    <3>1. n \in ModuleSource(m, pkg, opts).prelude
      BY <2>2, ModuleRest
    <3> QED  BY <1>1, <3>1, ModuleIsHome DEF Home
  <2>3. n \in crate[Root].prelude
    BY <1>10, <2>1, <2>2
  <2> HIDE DEF crate
  <2> QED  BY <1>2, <1>10, <2>3, Hides
<1>15. ASSUME opts.emit_types, NEW u \in Datatypes(pkg), NEW m \in DOMAIN pkg,
              u[2] \in TakenInModule(pkg[m], opts) \ RustValues
       PROVE  ~NamesResolve(crate)
  <2>1. Space(Item(u[2], "datatype", u[1])) = RustSpace(u[2])
    BY <1>15, SpaceFacts DEF RustSpace
  <2> QED  BY <1>6, <1>10, <1>15, <2>1
<1>16. ASSUME opts.emit_calls, opts.emit_call_specs, NEW u \in Functions(pkg), u[2] \in RustValues,
              \/ u[2] \in TakenInRoot(pkg, opts)
              \/ \E m \in DOMAIN pkg : u[2] \in TakenInModule(pkg[m], opts)
       PROVE  ~NamesResolve(crate)
  <2>1. Space(Item(u[2], "builder", u[1])) = RustSpace(u[2])
    BY <1>16, SpaceFacts DEF RustSpace
  <2> QED  BY <1>5, <1>10, <1>16, <2>1
<1>11. ASSUME opts.emit_calls, NEW u \in Functions(pkg), NEW v \in Functions(pkg), u[2] = v[2], u # v
       PROVE  ~NamesResolve(crate)
  <2>1. u[1] # v[1]
    <3>1. PICK m \in DOMAIN pkg : \E f \in Rendered(pkg[m]) : u = <<m, f.name>>
      BY FunctionsFacts
    <3>2. PICK n \in DOMAIN pkg : \E f \in Rendered(pkg[n]) : v = <<n, f.name>>
      BY FunctionsFacts
    <3> QED  BY <1>11, <3>1, <3>2
  <2>2. /\ Item(Target(u[2]), "target", u[1]) \in crate[Root].items
        /\ Item(Target(u[2]), "target", v[1]) \in crate[Root].items
    BY <1>5, <1>11
  <2>3. Space(Item(Target(u[2]), "target", u[1])) = Space(Item(Target(u[2]), "target", v[1]))
    BY SpaceFacts
  <2> QED  BY <1>4, <2>1, <2>2, <2>3
<1>12. ASSUME opts.emit_calls, opts.emit_call_specs, NEW u \in Functions(pkg), u[2] \in RootValues
       PROVE  ~NamesResolve(crate)
  <2>1. RootHas(pkg, opts, u[2], "scoped", Root)
    BY <1>12 DEF RootHas
  <2>2. Item(u[2], "scoped", Root) \in crate[Root].items
    BY <2>1, RootHasIt
  <2>3. Item(u[2], "builder", u[1]) \in crate[Root].items
    BY <1>5, <1>12
  <2>4. Space(Item(u[2], "scoped", Root)) = Space(Item(u[2], "builder", u[1]))
    BY SpaceFacts
  <2> QED  BY <1>4, <2>2, <2>3, <2>4
<1>13. ASSUME opts.emit_calls, opts.emit_call_specs,
              NEW u \in Functions(pkg), NEW v \in Functions(pkg), v[2] = Target(u[2])
       PROVE  ~NamesResolve(crate)
  <2>1. /\ Item(Target(u[2]), "target", u[1]) \in crate[Root].items
        /\ Item(Target(u[2]), "builder", v[1]) \in crate[Root].items
    BY <1>5, <1>13
  <2>2. Space(Item(Target(u[2]), "target", u[1])) = Space(Item(Target(u[2]), "builder", v[1]))
    BY SpaceFacts
  <2> QED  BY <1>4, <2>1, <2>2
<1> HIDE DEF crate
<1>14. ~NamesResolve(crate)
  BY <1>7, <1>8, <1>9, <1>11, <1>12, <1>13, <1>15, <1>16 DEF FlatObstacle, AreUnique
<1> QED  BY <1>14 DEF crate


-----------------------------------------------------------------------------
(* Without obstacles all names resolve: paths *)

LEMMA FoundThere ==
  ASSUME NEW crate, NEW s \in DOMAIN crate, NEW n, NEW k, NEW b, Item(n, k, b) \in crate[s].items
  PROVE  Resolves(Path(s, n, k), crate)
BY ItemFacts, PathFacts DEF Resolves

LEMMA ScopedIsFound ==
  ASSUME NEW pkg \in Packages, NEW opts, NEW n \in RootValues
  PROVE  Resolves(Path(Root, n, "scoped"), Crate(pkg, opts))
<1>1. RootHas(pkg, opts, n, "scoped", Root)
  BY DEF RootHas
<1> QED  BY <1>1, RootHasIt, FoundThere

LEMMA DatatypeIsFound ==
  ASSUME NEW pkg \in Packages, NEW opts, opts.emit_types, NEW u \in Datatypes(pkg)
  PROVE  Resolves(TypePath(u, opts), Crate(pkg, opts))
<1>1. PICK m \in DOMAIN pkg : \E d \in pkg[m].datatypes : u = <<m, d.name>>
  BY DatatypesFacts
<1>2. PICK d \in pkg[m].datatypes : u = <<m, d.name>>
  BY <1>1
<1>3. ModuleHas(m, pkg, opts, d.name, "datatype", m)
  BY DEF ModuleHas
<1>4. Resolves(Path(Home(m, opts), d.name, "datatype"), Crate(pkg, opts))
  BY <1>3, HomeHas, FoundThere
<1> QED  BY <1>2, <1>4 DEF TypePath, Home

LEMMA BuilderIsFound ==
  ASSUME NEW pkg \in Packages, NEW opts, opts.emit_calls, opts.emit_call_specs,
         NEW m \in DOMAIN pkg, NEW f \in Rendered(pkg[m])
  PROVE  Resolves(Path(Home(m, opts), f.name, "builder"), Crate(pkg, opts))
<1>1. ModuleHas(m, pkg, opts, f.name, "builder", m)
  BY DEF ModuleHas
<1> QED  BY <1>1, HomeHas, FoundThere

\* The methods find their alias: in the root or, where it is flat, in a module.
LEMMA AliasIsFound ==
  ASSUME NEW pkg \in Packages, NEW opts, HasTxExt(pkg, opts), opts.use_aliases
  PROVE  Resolves(Path(Root, SmCall, "alias"), Crate(pkg, opts))
<1>1. CASE opts.flatten
  <2>1. PICK m \in DOMAIN pkg : Rendered(pkg[m]) # {}
    BY DEF HasTxExt
  <2>2. ModuleHas(m, pkg, opts, SmCall, "alias", m)
    BY DEF ModuleHas
  <2>3. Resolves(Path(Home(m, opts), SmCall, "alias"), Crate(pkg, opts))
    BY <2>2, HomeHas, FoundThere
  <2> QED  BY <1>1, <2>3 DEF Home
<1>2. CASE ~opts.flatten
  <2>1. RootHas(pkg, opts, SmCall, "alias", Root)
    BY <1>2 DEF RootHas, HasTxExt
  <2> QED  BY <2>1, RootHasIt, FoundThere
<1> QED  BY <1>1, <1>2

LEMMA UsesAreDatatypes ==
  ASSUME NEW pkg \in Packages, NEW m \in DOMAIN pkg
  PROVE  /\ \A f \in Rendered(pkg[m]) : f.uses \subseteq Datatypes(pkg)
         /\ \A d \in pkg[m].datatypes : d.uses \subseteq Datatypes(pkg)
BY LayoutAssumption DEF Rendered

LEMMA ModulePathsLead ==
  ASSUME NEW pkg \in Packages, NEW opts, NEW m \in DOMAIN pkg, ~FunctionObstacle(pkg, opts),
         NEW p \in ModuleSource(m, pkg, opts).paths
  PROVE  Resolves(p, Crate(pkg, opts))
<1>1. \/ \E n \in Imported : p = Path(Root, n, "scoped")
      \/ opts.emit_types /\ \E d \in pkg[m].datatypes : \E u \in d.uses : p = TypePath(u, opts)
      \/ /\ opts.emit_calls /\ opts.emit_call_specs
         /\ \E f \in Rendered(pkg[m]) : \E u \in f.uses : p = TypePath(u, opts)
  BY ModuleRest
<1>2. CASE \E n \in Imported : p = Path(Root, n, "scoped")
  BY <1>2, ScopedIsFound, RootAssumption
<1>3. ASSUME opts.emit_calls, opts.emit_call_specs,
             NEW f \in Rendered(pkg[m]), NEW u \in f.uses, p = TypePath(u, opts)
      PROVE  Resolves(p, Crate(pkg, opts))
  <2>1. opts.emit_types
    BY <1>3 DEF FunctionObstacle
  <2> QED  BY <1>3, <2>1, UsesAreDatatypes, DatatypeIsFound
<1>4. ASSUME opts.emit_types, NEW d \in pkg[m].datatypes, NEW u \in d.uses, p = TypePath(u, opts)
      PROVE  Resolves(p, Crate(pkg, opts))
  BY <1>4, UsesAreDatatypes, DatatypeIsFound
<1> QED  BY <1>1, <1>2, <1>3, <1>4

LEMMA RootPathsLead ==
  ASSUME NEW pkg \in Packages, NEW opts, ~ReexportObstacle(pkg, opts),
         NEW p \in RootSource(pkg, opts, FALSE).paths
  PROVE  Resolves(p, Crate(pkg, opts))
<1>1. PICK u \in Reexported(pkg, opts) : p = Path(u[1], u[2], "datatype")
  <2> DEFINE path(u) == Path(u[1], u[2], "datatype")
  <2>1. RootSource(pkg, opts, FALSE).paths = {path(u) : u \in Reexported(pkg, opts)}
    BY RootRest
  <2>2. \E u \in Reexported(pkg, opts) : p = path(u)
    <3> HIDE DEF path
    <3> QED  BY <2>1
  <2> QED  BY <2>2
<1>2. ~opts.flatten
  BY DEF ReexportObstacle
<1>3. opts.emit_types /\ u \in Datatypes(pkg)
  BY ReexportedFacts, DatatypesFacts
<1>4. Resolves(TypePath(u, opts), Crate(pkg, opts))
  BY <1>3, DatatypeIsFound
<1> QED  BY <1>1, <1>2, <1>4 DEF TypePath

\* The methods: names of their own and paths that lead to items.
LEMMA MethodsResolve ==
  ASSUME NEW pkg \in Packages, NEW opts, ~FunctionObstacle(pkg, opts), ~MethodObstacle(pkg, opts)
  PROVE  LET source == TxExtScope(pkg, opts) IN
         /\ NamesDiffer(source.items)
         /\ \A p \in source.paths : Resolves(p, Crate(pkg, opts))
         /\ \A b \in source.binders : b.hides \cap b.means = {}
         /\ source.prelude = {} /\ source.structs = {}
<1>1. CASE ~HasTxExt(pkg, opts)
  <2>1. TxExtScope(pkg, opts) = NoSource
    BY <1>1 DEF TxExtScope
  <2> QED  BY <2>1, NoSourceFacts DEF NamesDiffer
<1>2. CASE HasTxExt(pkg, opts)
  <2> DEFINE source == MethodSource(pkg, opts)
             crate == Crate(pkg, opts)
  <2>1. TxExtScope(pkg, opts) = source
    BY <1>2 DEF TxExtScope
  <2>2. source.prelude = {} /\ source.structs = {}
    BY MethodFacts
  <2>3. ASSUME NEW x \in source.items, NEW y \in source.items, x.name = y.name PROVE x = y
    <3>1. PICK u \in Functions(pkg) : x = Item(Joined(u[1], u[2]), "method", u)
      BY MethodItems
    <3>2. PICK v \in Functions(pkg) : y = Item(Joined(v[1], v[2]), "method", v)
      BY MethodItems
    <3>3. Joined(u[1], u[2]) = Joined(v[1], v[2])
      BY <2>3, <3>1, <3>2, ItemFacts
    <3>4. u = v
      BY <1>2, <3>3 DEF MethodObstacle
    <3> QED  BY <3>1, <3>2, <3>4
  <2>4. ASSUME NEW p \in source.paths PROVE Resolves(p, crate)
    <3>1. \/ \E m \in DOMAIN pkg : \E f \in Rendered(pkg[m]) :
               \/ p = Path(Home(m, opts), f.name, "builder")
               \/ \E u \in f.uses : p = TypePath(u, opts)
          \/ opts.use_aliases /\ p = Path(Root, SmCall, "alias")
      BY MethodPaths DEF Home
    <3>2. opts.emit_calls /\ opts.emit_tx_ext
      BY <1>2 DEF HasTxExt
    <3>3. ASSUME NEW m \in DOMAIN pkg, NEW f \in Rendered(pkg[m]),
                 \/ p = Path(Home(m, opts), f.name, "builder")
                 \/ \E u \in f.uses : p = TypePath(u, opts)
          PROVE  Resolves(p, crate)
      <4>1. opts.emit_call_specs
        BY <3>2 DEF FunctionObstacle
      <4>2. CASE p = Path(Home(m, opts), f.name, "builder")
        BY <3>2, <4>1, <4>2, BuilderIsFound
      <4>3. ASSUME NEW u \in f.uses, p = TypePath(u, opts) PROVE Resolves(p, crate)
        <5>1. opts.emit_types
          BY <3>2, <4>1, <4>3 DEF FunctionObstacle
        <5> QED  BY <4>3, <5>1, UsesAreDatatypes, DatatypeIsFound
      <4> QED  BY <3>3, <4>2, <4>3
    <3>4. CASE opts.use_aliases /\ p = Path(Root, SmCall, "alias")
      BY <1>2, <3>4, AliasIsFound
    <3> QED  BY <3>1, <3>3, <3>4
  <2>5. ASSUME NEW b \in source.binders PROVE b.hides \cap b.means = {}
    <3>1. PICK m \in DOMAIN pkg : \E f \in Rendered(pkg[m]) : b \in MethodBinders(m, f, opts)
      BY MethodBinderIs
    <3>2. PICK f \in Rendered(pkg[m]) : b \in MethodBinders(m, f, opts)
      BY <3>1
    <3>3. /\ ({Signer} \cup f.generics) \cap MethodTypes(m, f, opts) = {}
          /\ opts.flatten => f.name \notin f.params
      BY <1>2 DEF MethodObstacle
    <3>4. CASE b = Binder({Signer} \cup f.generics, MethodTypes(m, f, opts))
      BY <3>3, <3>4, BinderFacts
    <3>5. CASE b = Binder(f.params, IF opts.flatten THEN {f.name} ELSE {})
      BY <3>3, <3>5, BinderFacts
    <3> QED  BY <3>2, <3>4, <3>5 DEF MethodBinders
  <2> HIDE DEF source, crate
  <2>6. NamesDiffer(source.items)
    BY <2>3 DEF NamesDiffer
  <2> QED  BY <2>1, <2>2, <2>4, <2>5, <2>6 DEF crate
<1> QED  BY <1>1, <1>2

-----------------------------------------------------------------------------
(* Without obstacles all names resolve: names differ *)

\* The names of values in the root and in Rust have neither _target nor a prefix.
LEMMA PlainFacts ==
  ASSUME NEW n \in RootValues \cup RustValues
  PROVE  n.targets = 0 /\ n.private = FALSE
<1>1. \A w : Name(w).targets = 0 /\ Name(w).private = FALSE
  BY DEF Name
<1> QED  BY <1>1, RootAssumption

\* Names of functions differ from targets that are no function of the package,
LEMMA TargetFacts ==
  ASSUME NEW pkg \in Packages, NEW m \in DOMAIN pkg, NEW f \in Rendered(pkg[m])
  PROVE  /\ Target(f.name) \notin RootValues \cup RustValues
         /\ f.name.private = FALSE /\ Target(f.name).private = FALSE
         /\ \A n \in DOMAIN pkg : \A g \in Rendered(pkg[n]) :
              Target(f.name) = Target(g.name) => f.name = g.name
<1> DEFINE Named(x, w, t) == x = [word |-> w, targets |-> t, private |-> FALSE] /\ t \in Nat
<1>1. \A n \in DOMAIN pkg : \A g \in Rendered(pkg[n]) : Named(g.name, g.name.word, g.name.targets)
  BY LayoutAssumption DEF Rendered
<1>2. \A x, w, t : Named(x, w, t) =>
        /\ x.word = w /\ x.targets = t /\ t \in Nat /\ x.private = FALSE
        /\ Target(x).word = w /\ Target(x).targets = t + 1 /\ Target(x).private = FALSE
  BY DEF Target
<1>3. \A x, y, w, t : Named(x, w, t) /\ Named(y, w, t) => x = y
  OBVIOUS
<1> HIDE DEF Named
<1>4. Target(f.name).targets = f.name.targets + 1 /\ f.name.targets \in Nat
      /\ f.name.private = FALSE /\ Target(f.name).private = FALSE
  <2>1. Named(f.name, f.name.word, f.name.targets)
    BY <1>1
  <2> QED  BY <1>2, <2>1
<1>5. Target(f.name) \notin RootValues \cup RustValues
  <2>1. Target(f.name).targets # 0
    BY <1>4
  <2> QED  BY <2>1, PlainFacts
<1>6. ASSUME NEW n \in DOMAIN pkg, NEW g \in Rendered(pkg[n]), Target(f.name) = Target(g.name)
      PROVE  f.name = g.name
  <2>1. Named(f.name, f.name.word, f.name.targets) /\ Named(g.name, g.name.word, g.name.targets)
    BY <1>1
  <2>2. /\ Target(f.name).word = f.name.word /\ Target(f.name).targets = f.name.targets + 1
        /\ Target(g.name).word = g.name.word /\ Target(g.name).targets = g.name.targets + 1
        /\ f.name.targets \in Nat /\ g.name.targets \in Nat
    BY <1>2, <2>1
  <2>3. f.name.word = g.name.word /\ f.name.targets = g.name.targets
    BY <1>6, <2>2
  <2> QED  BY <1>3, <2>1, <2>3
<1> QED  BY <1>4, <1>5, <1>6

\* and the functions for addresses have names that nothing else has.
LEMMA AddressFacts ==
  ASSUME NEW pkg \in Packages, NEW m \in DOMAIN pkg, NEW d \in pkg[m].datatypes
  PROVE  /\ AddressFunction(d.name) \notin RootValues \cup RustValues
         /\ \A n \in DOMAIN pkg : \A f \in Rendered(pkg[n]) :
              AddressFunction(d.name) # f.name /\ AddressFunction(d.name) # Target(f.name)
         /\ \A n \in DOMAIN pkg : \A e \in pkg[n].datatypes :
              AddressFunction(d.name) = AddressFunction(e.name) => d.name = e.name
<1> DEFINE Named(x) == x = [word |-> x.word, targets |-> x.targets, private |-> FALSE]
<1>1. \A n \in DOMAIN pkg : \A e \in pkg[n].datatypes : Named(e.name)
  BY LayoutAssumption
<1>2. \A x : Named(x) => /\ AddressFunction(x).word = x.word /\ AddressFunction(x).targets = x.targets
                         /\ AddressFunction(x).private = TRUE
  BY DEF AddressFunction
<1>3. \A x, y : Named(x) /\ Named(y) /\ x.word = y.word /\ x.targets = y.targets => x = y
  OBVIOUS
<1> HIDE DEF Named
<1>4. AddressFunction(d.name).private = TRUE
  BY <1>1, <1>2
<1>5. \A n \in DOMAIN pkg : \A f \in Rendered(pkg[n]) :
        AddressFunction(d.name) # f.name /\ AddressFunction(d.name) # Target(f.name)
  BY <1>4, TargetFacts
<1>6. ASSUME NEW n \in DOMAIN pkg, NEW e \in pkg[n].datatypes,
             AddressFunction(d.name) = AddressFunction(e.name)
      PROVE  d.name = e.name
  <2>1. Named(d.name) /\ Named(e.name)
    BY <1>1
  <2>2. d.name.word = e.name.word /\ d.name.targets = e.name.targets
    BY <1>2, <1>6, <2>1
  <2> QED  BY <1>3, <2>1, <2>2
<1> QED  BY <1>4, <1>5, <1>6, PlainFacts

\* Items of one name, kind and origin are one.
LEMMA NamesDifferBy ==
  ASSUME NEW items,
         \A x \in items : x = Item(x.name, x.kind, x.by),
         \A x, y \in items : x.name = y.name /\ Space(x) = Space(y) => x.kind = y.kind /\ x.by = y.by
  PROVE  NamesDiffer(items)
<1> SUFFICES ASSUME NEW x \in items, NEW y \in items, x.name = y.name, Space(x) = Space(y) PROVE x = y
  BY DEF NamesDiffer
<1>1. x.kind = y.kind /\ x.by = y.by
  OBVIOUS
<1>2. x = Item(x.name, x.kind, x.by) /\ y = Item(y.name, y.kind, y.by)
  OBVIOUS
<1> QED  BY <1>1, <1>2

\* What an item's kind says of its space.
LEMMA SpaceOfKind ==
  ASSUME NEW x
  PROVE  Space(x) = IF x.kind \in {"address", "builder", "target", "use", "scoped", "method"} THEN "value" ELSE "type"
BY DEF Space

\* The names of one module do not meet.
LEMMA ModuleNames ==
  ASSUME NEW pkg \in Packages, NEW opts, NEW m \in DOMAIN pkg, ~FunctionObstacle(pkg, opts),
         NEW n, NEW k, NEW l, NEW b, NEW c,
         ModuleHas(m, pkg, opts, n, k, b), ModuleHas(m, pkg, opts, n, l, c),
         (k \in {"alias", "datatype"}) <=> (l \in {"alias", "datatype"})
  PROVE  k = l /\ b = m /\ c = m
<1>1. b = m /\ c = m
  BY DEF ModuleHas
<1>2. \A d \in pkg[m].datatypes : d.name \notin {Sm, SmCall}
  BY LayoutAssumption
<1>3. \A f \in Rendered(pkg[m]) : Target(f.name) \notin Imported
  BY TargetFacts, RootAssumption
<1>4. opts.emit_calls /\ opts.emit_call_specs =>
        \A f \in Rendered(pkg[m]) : f.name \notin Imported /\ <<m, Target(f.name)>> \notin Functions(pkg)
  BY DEF FunctionObstacle
<1>5. \A g \in Rendered(pkg[m]) : <<m, g.name>> \in Functions(pkg)
  BY FunctionsFacts
<1>6. CASE k \in {"alias", "datatype"}
  BY <1>2, <1>6 DEF ModuleHas
<1>7. CASE k \notin {"alias", "datatype"}
  <2>1. \/ k = "use" /\ n \in Imported
        \/ k = "address" /\ \E d \in pkg[m].datatypes : n = AddressFunction(d.name)
        \/ /\ k = "builder" /\ opts.emit_calls /\ opts.emit_call_specs
           /\ \E f \in Rendered(pkg[m]) : n = f.name
        \/ k = "target" /\ opts.emit_calls /\ \E f \in Rendered(pkg[m]) : n = Target(f.name)
    BY <1>7 DEF ModuleHas
  <2>2. \/ l = "use" /\ n \in Imported
        \/ l = "address" /\ \E d \in pkg[m].datatypes : n = AddressFunction(d.name)
        \/ /\ l = "builder" /\ opts.emit_calls /\ opts.emit_call_specs
           /\ \E f \in Rendered(pkg[m]) : n = f.name
        \/ l = "target" /\ opts.emit_calls /\ \E f \in Rendered(pkg[m]) : n = Target(f.name)
    BY <1>7 DEF ModuleHas
  <2>3. opts.emit_calls /\ opts.emit_call_specs =>
          \A f, g \in Rendered(pkg[m]) : f.name # Target(g.name) /\ f.name \notin Imported
    BY <1>4, <1>5
  <2>4. ASSUME NEW d \in pkg[m].datatypes, n = AddressFunction(d.name)
        PROVE  /\ n \notin Imported
               /\ \A f \in Rendered(pkg[m]) : n # f.name /\ n # Target(f.name)
    BY <2>4, AddressFacts, RootAssumption
  <2>5. k = l
    <3>1. CASE \E d \in pkg[m].datatypes : n = AddressFunction(d.name)
      BY <2>1, <2>2, <2>4, <3>1
    <3>2. CASE ~\E d \in pkg[m].datatypes : n = AddressFunction(d.name)
      BY <1>3, <2>1, <2>2, <2>3, <3>2
    <3> QED  BY <3>1, <3>2
  <2> QED  BY <1>1, <2>5
<1> QED  BY <1>6, <1>7



Types == {"alias", "datatype", "scope type", "reexport", "trait", "mod"}

\* Datatypes that the root reexports have names that it has not.
LEMMA ReexportedNames ==
  ASSUME NEW pkg \in Packages, NEW opts, ~ReexportObstacle(pkg, opts), NEW u \in Reexported(pkg, opts)
  PROVE  /\ ~opts.flatten /\ u[2] \notin Reserved(pkg, opts) /\ u[2] \notin {Sm, SmCall}
         /\ \A v \in Reexported(pkg, opts) : u[2] = v[2] => u = v
<1>1. ~opts.flatten /\ u[2] \notin Reserved(pkg, opts)
  BY DEF ReexportObstacle
<1>2. \A v \in Reexported(pkg, opts) : u[2] = v[2] => u = v
  BY DEF ReexportObstacle, AreUnique
<1>3. u[2] \notin {Sm, SmCall}
  <2> PICK m \in DOMAIN pkg : \E d \in pkg[m].datatypes : u = <<m, d.name>>
    BY ReexportedFacts
  <2> PICK d \in pkg[m].datatypes : u = <<m, d.name>>
    OBVIOUS
  <2>1. d.name \notin {Sm, SmCall}
    BY LayoutAssumption
  <2> QED  BY <2>1
<1> QED  BY <1>1, <1>2, <1>3

\* What the root has is only values called with the packages, and types.
LEMMA RootNames ==
  ASSUME NEW pkg \in Packages, NEW opts, ~ReexportObstacle(pkg, opts),
         NEW n, NEW k, NEW l, NEW b, NEW c,
         RootHas(pkg, opts, n, k, b), RootHas(pkg, opts, n, l, c), k \in Types <=> l \in Types
  PROVE  k = l /\ b = c
<1>1. \A u \in Reexported(pkg, opts) :
        /\ u[2] \notin Reserved(pkg, opts) /\ u[2] \notin {Sm, SmCall}
        /\ \A v \in Reexported(pkg, opts) : u[2] = v[2] => u = v
  BY ReexportedNames
<1>2. HasTxExt(pkg, opts) => TxExt \in Reserved(pkg, opts)
  BY DEF Reserved
<1>3. RootTypes \subseteq Reserved(pkg, opts)
  BY DEF Reserved
<1>4. TxExt \notin RootTypes /\ Sm \notin RootTypes /\ SmCall \notin RootTypes /\ TxExt \notin {Sm, SmCall}
  BY RootAssumption
<1>5. CASE k = "scoped"
  BY <1>5 DEF RootHas, Types
<1>6. CASE k # "scoped"
  <2>1. \/ k = "scope type" /\ b = Root /\ n \in RootTypes
        \/ k = "alias" /\ b = Root /\ n \in {Sm, SmCall}
        \/ k = "reexport" /\ \E u \in Reexported(pkg, opts) : n = u[2] /\ b = u[1]
        \/ k = "trait" /\ b = Root /\ n = TxExt /\ HasTxExt(pkg, opts)
    BY <1>6 DEF RootHas
  <2>2. \/ l = "scope type" /\ c = Root /\ n \in RootTypes
        \/ l = "alias" /\ c = Root /\ n \in {Sm, SmCall}
        \/ l = "reexport" /\ \E u \in Reexported(pkg, opts) : n = u[2] /\ c = u[1]
        \/ l = "trait" /\ c = Root /\ n = TxExt /\ HasTxExt(pkg, opts)
    BY <1>6, <2>1 DEF RootHas, Types
  <2>3. CASE k = "reexport"
    <3>1. PICK u \in Reexported(pkg, opts) : n = u[2] /\ b = u[1]
      BY <2>1, <2>3
    <3>2. n \notin RootTypes /\ n \notin {Sm, SmCall} /\ (HasTxExt(pkg, opts) => n # TxExt)
      BY <1>1, <1>2, <1>3, <3>1
    <3>3. l = "reexport"
      BY <2>2, <3>2
    <3>4. PICK v \in Reexported(pkg, opts) : n = v[2] /\ c = v[1]
      BY <2>2, <3>3
    <3>5. u = v
      BY <1>1, <3>1, <3>4
    <3> QED  BY <2>3, <3>1, <3>3, <3>4, <3>5
  <2>4. CASE k # "reexport"
    <3>1. l # "reexport"
      BY <1>1, <1>2, <1>3, <2>1, <2>2, <2>4
    <3> QED  BY <1>4, <2>1, <2>2, <2>4, <3>1
  <2> QED  BY <2>3, <2>4
<1> QED  BY <1>5, <1>6

\* The modules of a root have names it has not.
LEMMA ModNames ==
  ASSUME NEW pkg \in Packages, NEW opts, ~opts.flatten, ~ModuleObstacle(pkg, opts),
         NEW m \in DOMAIN pkg, NEW k, NEW b, RootHas(pkg, opts, Name(m), k, b)
  PROVE  k = "scoped"
<1>1. /\ Name(m) \notin Reserved(pkg, opts)
      /\ opts.emit_tx_ext /\ opts.use_aliases => Name(m) \notin {Sm, SmCall}
      /\ \A u \in Reexported(pkg, opts) : u[2] # Name(m)
  BY DEF ModuleObstacle
<1>2. Name(m) \notin RootTypes /\ (HasTxExt(pkg, opts) => Name(m) # TxExt)
  BY <1>1 DEF Reserved
<1> QED  BY <1>1, <1>2 DEF RootHas

\* All that is taken is from Rust.
LEMMA TakenFromRust ==
  ASSUME NEW pkg \in Packages, NEW opts
  PROVE  /\ TakenInRoot(pkg, opts) \subseteq RustNames
         /\ \A m \in DOMAIN pkg : TakenInModule(pkg[m], opts) \subseteq RustNames
<1>1. ASSUME NEW m \in DOMAIN pkg, NEW specs PROVE FunctionPrelude(pkg[m], specs) \subseteq RustNames
  <2> SUFFICES ASSUME NEW f \in Rendered(pkg[m]),
                      NEW n \in CallPrelude \cup (IF specs THEN f.takes ELSE {})
               PROVE  n \in RustNames
    BY DEF FunctionPrelude
  <2>1. f.takes \subseteq RustNames
    BY LayoutAssumption DEF Rendered
  <2>2. CallPrelude \subseteq RustNames
    BY RootAssumption
  <2> QED  BY <2>1, <2>2
<1>2. ASSUME NEW m \in DOMAIN pkg PROVE DatatypePrelude(pkg[m]) \subseteq RustNames
  <2> SUFFICES ASSUME NEW d \in pkg[m].datatypes, NEW n \in TypePrelude \cup d.takes
               PROVE  n \in RustNames
    BY DEF DatatypePrelude
  <2>1. d.takes \subseteq RustNames
    BY LayoutAssumption
  <2>2. TypePrelude \subseteq RustNames
    BY RootAssumption
  <2> QED  BY <2>1, <2>2
<1>3. \A m \in DOMAIN pkg : TakenInModule(pkg[m], opts) \subseteq RustNames
  BY <1>1, <1>2 DEF TakenInModule
<1>4. RootPrelude \subseteq RustNames /\ TxExtPrelude \subseteq RustNames
  BY RootAssumption
<1>5. MethodPrelude(pkg) \subseteq RustNames
  BY <1>1, <1>4 DEF MethodPrelude
<1> QED  BY <1>3, <1>4, <1>5 DEF TakenInRoot

\* Of the items of the root only reexported datatypes may hide a name of Rust,
LEMMA RootHides ==
  ASSUME NEW pkg \in Packages, NEW opts, NEW n \in RustNames, NEW k, NEW b, RootHas(pkg, opts, n, k, b),
         k \in Types <=> n \notin RustValues
  PROVE  k = "reexport"
<1>1. n \notin RootTypes \cup {Sm, SmCall, TxExt} /\ (n \in RootValues => n \notin RustValues)
  BY RootAssumption
<1> QED  BY <1>1 DEF RootHas, Types

\* and of those of a module only datatypes and builders.
LEMMA ModuleHides ==
  ASSUME NEW pkg \in Packages, NEW opts, NEW m \in DOMAIN pkg,
         NEW n \in RustNames, NEW k, NEW b, ModuleHas(m, pkg, opts, n, k, b),
         k \in Types <=> n \notin RustValues
  PROVE  \/ n \notin RustValues /\ opts.emit_types /\ \E d \in pkg[m].datatypes : n = d.name
         \/ /\ n \in RustValues /\ opts.emit_calls /\ opts.emit_call_specs
            /\ \E f \in Rendered(pkg[m]) : n = f.name
<1>1. n \notin {Sm, SmCall} /\ (n \in Imported => n \notin RustValues)
  BY RootAssumption
<1>2. \A d \in pkg[m].datatypes : n = AddressFunction(d.name) => n \notin RustValues
  BY AddressFacts
<1>3. \A f \in Rendered(pkg[m]) : n = Target(f.name) => n \notin RustValues
  BY TargetFacts
<1> QED  BY <1>1, <1>2, <1>3 DEF ModuleHas, Types

-----------------------------------------------------------------------------
(* Without obstacles all names resolve: scopes *)

\* Binders of a module do not hide what they should not.
LEMMA BindersHideNothing ==
  ASSUME NEW pkg, NEW opts, NEW m \in DOMAIN pkg,
         ~DatatypeObstacle(pkg, opts), ~FunctionObstacle(pkg, opts),
         NEW b \in ModuleSource(m, pkg, opts).binders
  PROVE  b.hides \cap b.means = {}
<1>1. \/ opts.emit_types /\ b \in DatatypeBinders(m, pkg[m], opts)
      \/ opts.emit_calls /\ opts.emit_call_specs /\ b \in BuilderBinders(m, pkg[m], opts)
  BY ModuleRest
<1>2. ASSUME opts.emit_types, NEW d \in pkg[m].datatypes,
             b = Binder(d.generics, {d.name} \cup Bare(m, d.uses, opts))
      PROVE  b.hides \cap b.means = {}
  <2>1. d.generics \cap ({d.name} \cup Bare(m, d.uses, opts)) = {}
    BY <1>2 DEF DatatypeObstacle
  <2> QED  BY <1>2, <2>1, BinderFacts
<1>3. ASSUME opts.emit_calls, opts.emit_call_specs, NEW f \in Rendered(pkg[m]),
             \/ b = Binder(f.generics, Bare(m, f.uses, opts))
             \/ b = Binder(f.params, {Target(f.name), SpecVariable})
      PROVE  b.hides \cap b.means = {}
  <2>1. /\ f.generics \cap Bare(m, f.uses, opts) = {}
        /\ f.params \cap {Target(f.name), SpecVariable} = {}
    BY <1>3 DEF FunctionObstacle
  <2> QED  BY <1>3, <2>1, BinderFacts
<1>4. b \in BuilderBinders(m, pkg[m], opts) =>
        \E f \in Rendered(pkg[m]) : \/ b = Binder(f.generics, Bare(m, f.uses, opts))
                                    \/ b = Binder(f.params, {Target(f.name), SpecVariable})
  BY DEF BuilderBinders
<1>5. b \in DatatypeBinders(m, pkg[m], opts) =>
        \E d \in pkg[m].datatypes : b = Binder(d.generics, {d.name} \cup Bare(m, d.uses, opts))
  BY DEF DatatypeBinders
<1> QED  BY <1>1, <1>2, <1>3, <1>4, <1>5

\* A module by itself.
LEMMA ModuleResolves ==
  ASSUME NEW pkg \in Packages, NEW opts, NEW m \in DOMAIN pkg,
         ~DatatypeObstacle(pkg, opts), ~FunctionObstacle(pkg, opts)
  PROVE  LET source == ModuleSource(m, pkg, opts) IN
         /\ NamesDiffer(source.items) /\ HidesNothing(source)
         /\ \A b \in source.binders : b.hides \cap b.means = {}
         /\ \A d \in source.structs : ConstructorFits(d)
<1> DEFINE source == ModuleSource(m, pkg, opts)
<1>1. ASSUME NEW x \in source.items
      PROVE  /\ x = Item(x.name, x.kind, x.by) /\ ModuleHas(m, pkg, opts, x.name, x.kind, x.by)
             /\ (Space(x) = "type") <=> (x.kind \in {"alias", "datatype"})
             /\ (Space(x) = "type") <=> (x.kind \in Types)
             /\ Space(x) \in {"type", "value"}
  <2>1. x = Item(x.name, x.kind, x.by) /\ ModuleHas(m, pkg, opts, x.name, x.kind, x.by)
    BY ModuleItems
  <2>2. x.kind \in {"alias", "use", "datatype", "address", "builder", "target"}
    BY <2>1 DEF ModuleHas
  <2> QED  BY <2>1, <2>2, SpaceOfKind DEF Types
<1>2. /\ \A n : n \in source.prelude <=> n \in TakenInModule(pkg[m], opts)
      /\ \A d : d \in source.structs <=> opts.emit_types /\ d \in pkg[m].datatypes /\ d.kind = "struct"
      /\ \A b \in source.binders : b.hides \cap b.means = {}
  BY ModuleRest, BindersHideNothing
<1> HIDE DEF source
<1>3. NamesDiffer(source.items)
  <2>1. ASSUME NEW x \in source.items, NEW y \in source.items, x.name = y.name, Space(x) = Space(y)
        PROVE  x.kind = y.kind /\ x.by = y.by
    <3>1. /\ ModuleHas(m, pkg, opts, x.name, x.kind, x.by)
          /\ ModuleHas(m, pkg, opts, x.name, y.kind, y.by)
      BY <1>1, <2>1
    <3>2. (x.kind \in {"alias", "datatype"}) <=> (y.kind \in {"alias", "datatype"})
      BY <1>1, <2>1
    <3> QED  BY <3>1, <3>2, ModuleNames
  <2>2. \A x \in source.items : x = Item(x.name, x.kind, x.by)
    BY <1>1
  <2> QED  BY <2>1, <2>2, NamesDifferBy
<1>4. HidesNothing(source)
  <2> SUFFICES ASSUME NEW x \in source.items, Space(x) = RustSpace(x.name), x.name \in source.prelude
               PROVE  FALSE
    BY DEF HidesNothing
  <2>1. x.name \in TakenInModule(pkg[m], opts) /\ x.name \in RustNames
    BY <1>2, TakenFromRust
  <2>2. ModuleHas(m, pkg, opts, x.name, x.kind, x.by) /\ (x.kind \in Types <=> x.name \notin RustValues)
    BY <1>1 DEF RustSpace
  <2>3. \/ /\ x.name \notin RustValues /\ opts.emit_types
           /\ \E d \in pkg[m].datatypes : x.name = d.name
        \/ /\ x.name \in RustValues /\ opts.emit_calls /\ opts.emit_call_specs
           /\ \E f \in Rendered(pkg[m]) : x.name = f.name
    BY <2>1, <2>2, ModuleHides
  <2> QED  BY <2>1, <2>3 DEF DatatypeObstacle, FunctionObstacle
<1>5. \A d \in source.structs : ConstructorFits(d)
  BY <1>2 DEF ConstructorFits, DatatypeObstacle
<1> QED  BY <1>2, <1>3, <1>4, <1>5 DEF source

\* The root of a crate whose modules are scopes.
LEMMA NestedRootResolves ==
  ASSUME NEW pkg \in Packages, NEW opts, ~opts.flatten,
         ~ModuleObstacle(pkg, opts), ~ReexportObstacle(pkg, opts)
  PROVE  LET scope == Crate(pkg, opts)[Root] IN
         NamesDiffer(scope.items) /\ HidesNothing(scope) /\ scope.binders = {} /\ scope.structs = {}
<1> DEFINE scope == Crate(pkg, opts)[Root]
           IsMod(x) == \E m \in DOMAIN pkg : x.kind = "mod" /\ x.by = m /\ x.name = Name(m)
<1>1. ASSUME NEW x \in scope.items
      PROVE  /\ x = Item(x.name, x.kind, x.by)
             /\ RootHas(pkg, opts, x.name, x.kind, x.by) \/ IsMod(x)
             /\ (Space(x) = "type") <=> (x.kind \in Types)
             /\ Space(x) \in {"type", "value"}
  <2>1. x \in RootSource(pkg, opts, FALSE).items \/ \E m \in DOMAIN pkg : x = Item(Name(m), "mod", m)
    BY NestedItems
  <2>2. CASE x \in RootSource(pkg, opts, FALSE).items
    <3>1. x = Item(x.name, x.kind, x.by) /\ RootHas(pkg, opts, x.name, x.kind, x.by)
      BY <2>2, RootItems
    <3>2. x.kind \in Types \cup {"scoped"}
      BY <3>1 DEF RootHas, Types
    <3> QED  BY <3>1, <3>2, SpaceOfKind DEF Types
  <2>3. ASSUME NEW m \in DOMAIN pkg, x = Item(Name(m), "mod", m)
        PROVE  x = Item(x.name, x.kind, x.by) /\ IsMod(x) /\ x.kind = "mod"
    BY <2>3, ItemFacts
  <2>4. CASE \E m \in DOMAIN pkg : x = Item(Name(m), "mod", m)
    BY <2>3, <2>4, SpaceOfKind DEF Types
  <2> QED  BY <2>1, <2>2, <2>4
<1>2. scope.prelude = TakenInRoot(pkg, opts) /\ scope.binders = {} /\ scope.structs = {}
  <2> DEFINE root == RootSource(pkg, opts, FALSE)
  <2>1. scope.prelude = root.prelude /\ scope.binders = root.binders /\ scope.structs = root.structs
    BY NestedRoot
  <2>2. root.prelude = TakenInRoot(pkg, opts) /\ root.binders = {} /\ root.structs = {}
    BY RootRest
  <2> HIDE DEF root, scope
  <2> QED  BY <2>1, <2>2
<1> HIDE DEF scope
<1>3. NamesDiffer(scope.items)
  <2>1. ASSUME NEW x \in scope.items, NEW y \in scope.items, x.name = y.name, Space(x) = Space(y),
               RootHas(pkg, opts, x.name, x.kind, x.by), RootHas(pkg, opts, y.name, y.kind, y.by)
        PROVE  x.kind = y.kind /\ x.by = y.by
    <3>1. x.kind \in Types <=> y.kind \in Types
      BY <1>1, <2>1
    <3>2. RootHas(pkg, opts, x.name, y.kind, y.by)
      BY <2>1
    <3> HIDE DEF scope
    <3> QED  BY <2>1, <3>1, <3>2, RootNames
  <2>2. ASSUME NEW x \in scope.items, NEW y \in scope.items, x.name = y.name, Space(x) = Space(y),
               IsMod(x), RootHas(pkg, opts, y.name, y.kind, y.by)
        PROVE  FALSE
    <3>1. y.kind \in Types
      BY <1>1, <2>2 DEF Types
    <3>2. PICK m \in DOMAIN pkg : x.name = Name(m)
      BY <2>2
    <3>3. RootHas(pkg, opts, Name(m), y.kind, y.by)
      BY <2>2, <3>2
    <3>4. y.kind = "scoped"
      BY <3>3, ModNames
    <3> QED  BY <3>1, <3>4 DEF Types
  <2>3. ASSUME NEW x, NEW y, IsMod(x), IsMod(y), x.name = y.name
        PROVE  x.kind = y.kind /\ x.by = y.by
    <3>1. \A m, n : Name(m) = Name(n) => m = n
      BY DEF Name
    <3> QED  BY <2>3, <3>1
  <2>4. \A x, y \in scope.items : x.name = y.name /\ Space(x) = Space(y) => x.kind = y.kind /\ x.by = y.by
    <3> HIDE DEF IsMod
    <3> QED  BY <1>1, <2>1, <2>2, <2>3
  <2>5. \A x \in scope.items : x = Item(x.name, x.kind, x.by)
    BY <1>1
  <2> QED  BY <2>4, <2>5, NamesDifferBy
<1>4. HidesNothing(scope)
  <2> SUFFICES ASSUME NEW x \in scope.items, Space(x) = RustSpace(x.name), x.name \in scope.prelude
               PROVE  FALSE
    BY DEF HidesNothing
  <2>1. x.name \in TakenInRoot(pkg, opts) /\ x.name \in RustNames
    BY <1>2, TakenFromRust
  <2>2. x.kind \in Types <=> x.name \notin RustValues
    BY <1>1 DEF RustSpace
  <2>3. x.name \notin RustValues => x.name \in Reserved(pkg, opts)
    BY <2>1 DEF Reserved
  <2>4. CASE RootHas(pkg, opts, x.name, x.kind, x.by)
    <3>1. x.kind = "reexport"
      BY <2>1, <2>2, <2>4, RootHides
    <3>2. \E u \in Reexported(pkg, opts) : x.name = u[2]
      BY <2>4, <3>1 DEF RootHas
    <3> QED  BY <2>2, <2>3, <3>1, <3>2, ReexportedNames DEF Types
  <2>5. CASE IsMod(x)
    <3>1. PICK m \in DOMAIN pkg : x.name = Name(m)
      BY <2>5
    <3>2. Name(m) \notin Reserved(pkg, opts)
      BY DEF ModuleObstacle
    <3>3. x.kind \in Types
      BY <2>5 DEF Types
    <3> QED  BY <2>2, <2>3, <3>1, <3>2, <3>3
  <2> QED  BY <1>1, <2>4, <2>5
<1> QED  BY <1>2, <1>3, <1>4 DEF scope

\* The root of a flat crate: what the modules have there,
LEMMA FlatModuleNames ==
  ASSUME NEW pkg \in Packages, NEW opts, opts.flatten,
         ~FunctionObstacle(pkg, opts), ~FlatObstacle(pkg, opts),
         NEW m \in DOMAIN pkg, NEW o \in DOMAIN pkg, NEW n, NEW k, NEW l, NEW b, NEW c,
         ModuleHas(m, pkg, opts, n, k, b), ModuleHas(o, pkg, opts, n, l, c),
         (k \in {"alias", "datatype"}) <=> (l \in {"alias", "datatype"})
  PROVE  k = l /\ b = c
<1>1. b = m /\ c = o
  BY DEF ModuleHas
<1>2. \A q \in DOMAIN pkg : \A d \in pkg[q].datatypes :
        d.name \notin {Sm, SmCall} /\ <<q, d.name>> \in Datatypes(pkg)
  BY LayoutAssumption, DatatypesFacts
<1>3. \A q \in DOMAIN pkg : \A f \in Rendered(pkg[q]) : <<q, f.name>> \in Functions(pkg)
  BY FunctionsFacts
<1>4. opts.use_aliases => m = o
  BY DEF FlatObstacle
<1>5. CASE k \in {"alias", "datatype"}
  <2>1. \/ k = "alias" /\ opts.use_aliases /\ n \in {Sm, SmCall}
        \/ k = "datatype" /\ opts.emit_types /\ \E d \in pkg[m].datatypes : n = d.name
    BY <1>5 DEF ModuleHas
  <2>2. \/ l = "alias" /\ opts.use_aliases /\ n \in {Sm, SmCall}
        \/ l = "datatype" /\ opts.emit_types /\ \E d \in pkg[o].datatypes : n = d.name
    BY <1>5 DEF ModuleHas
  <2>3. k = l
    <3>1. (\E d \in pkg[m].datatypes : n = d.name) => n \notin {Sm, SmCall}
      BY <1>2
    <3>2. (\E d \in pkg[o].datatypes : n = d.name) => n \notin {Sm, SmCall}
      BY <1>2
    <3> QED  BY <2>1, <2>2, <3>1, <3>2
  <2>4. CASE k = "alias"
    BY <1>1, <1>4, <2>1, <2>3, <2>4
  <2>5. CASE k = "datatype"
    <3>1. opts.emit_types /\ <<m, n>> \in Datatypes(pkg) /\ <<o, n>> \in Datatypes(pkg)
      BY <1>2, <2>1, <2>2, <2>3, <2>5
    <3>2. AreUnique(Datatypes(pkg))
      BY <3>1 DEF FlatObstacle
    <3>3. <<m, n>> = <<o, n>>
      BY <3>1, <3>2 DEF AreUnique
    <3> QED  BY <1>1, <2>3, <3>3
  <2> QED  BY <1>5, <2>4, <2>5
<1>6. CASE k \notin {"alias", "datatype"} /\ ~(k = "address" \/ l = "address")
  <2>1. \/ /\ k = "builder" /\ opts.emit_calls /\ opts.emit_call_specs
           /\ \E f \in Rendered(pkg[m]) : n = f.name
        \/ k = "target" /\ opts.emit_calls /\ \E f \in Rendered(pkg[m]) : n = Target(f.name)
    BY <1>6 DEF ModuleHas
  <2>2. \/ /\ l = "builder" /\ opts.emit_calls /\ opts.emit_call_specs
           /\ \E f \in Rendered(pkg[o]) : n = f.name
        \/ l = "target" /\ opts.emit_calls /\ \E f \in Rendered(pkg[o]) : n = Target(f.name)
    BY <1>6 DEF ModuleHas
  <2>3. AreUnique(Functions(pkg))
    BY <2>1 DEF FlatObstacle
  <2>4. opts.emit_call_specs =>
          \A p, q \in DOMAIN pkg : \A f \in Rendered(pkg[p]), g \in Rendered(pkg[q]) : g.name # Target(f.name)
    <3> SUFFICES ASSUME opts.emit_call_specs, NEW p \in DOMAIN pkg, NEW q \in DOMAIN pkg,
                        NEW f \in Rendered(pkg[p]), NEW g \in Rendered(pkg[q]), g.name = Target(f.name)
                 PROVE  FALSE
      OBVIOUS
    <3>1. <<p, f.name>> \in Functions(pkg) /\ <<q, g.name>> \in Functions(pkg)
      BY <1>3
    <3>2. <<q, g.name>>[2] = Target(<<p, f.name>>[2])
      OBVIOUS
    <3> QED  BY <2>1, <3>1, <3>2 DEF FlatObstacle
  <2>5. k = l
    BY <2>1, <2>2, <2>4
  <2>6. ASSUME NEW f \in Rendered(pkg[m]), NEW g \in Rendered(pkg[o]), f.name = g.name PROVE m = o
    <3>1. <<m, f.name>> \in Functions(pkg) /\ <<o, g.name>> \in Functions(pkg)
      BY <1>3
    <3>2. <<m, f.name>>[2] = <<o, g.name>>[2]
      BY <2>6
    <3>3. <<m, f.name>> = <<o, g.name>>
      <4> DEFINE u == <<m, f.name>>
                 v == <<o, g.name>>
      <4> HIDE DEF u, v
      <4>1. u = v
        BY <2>3, <3>1, <3>2 DEF AreUnique, u, v
      <4> QED  BY <4>1 DEF u, v
    <3> QED  BY <3>3
  <2>7. CASE k = "builder"
    BY <1>1, <2>1, <2>2, <2>5, <2>6, <2>7
  <2>8. CASE k = "target"
    <3>1. PICK f \in Rendered(pkg[m]) : n = Target(f.name)
      BY <2>1, <2>8
    <3>2. PICK g \in Rendered(pkg[o]) : n = Target(g.name)
      BY <2>2, <2>5, <2>8
    <3>3. \A q \in DOMAIN pkg : \A h \in Rendered(pkg[q]) :
            Target(f.name) = Target(h.name) => f.name = h.name
      BY TargetFacts
    <3>4. f.name = g.name
      BY <3>1, <3>2, <3>3
    <3> QED  BY <1>1, <2>5, <2>6, <3>4
  <2> QED  BY <2>1, <2>7, <2>8
<1>7. CASE k = "address" \/ l = "address"
  <2>1. \/ /\ k = "address" /\ opts.emit_types
           /\ \E d \in pkg[m].datatypes : n = AddressFunction(d.name)
        \/ /\ l = "address" /\ opts.emit_types
           /\ \E d \in pkg[o].datatypes : n = AddressFunction(d.name)
    BY <1>7 DEF ModuleHas
  <2>2. \A q \in DOMAIN pkg : \A f \in Rendered(pkg[q]) : n # f.name /\ n # Target(f.name)
    BY <2>1, AddressFacts
  <2>3. k \notin {"alias", "datatype"} /\ l \notin {"alias", "datatype"}
    BY <1>7
  <2>4. k = "address" /\ l = "address"
    BY <2>2, <2>3 DEF ModuleHas
  <2>5. PICK d \in pkg[m].datatypes : n = AddressFunction(d.name)
    BY <2>4 DEF ModuleHas
  <2>6. PICK e \in pkg[o].datatypes : n = AddressFunction(e.name)
    BY <2>4 DEF ModuleHas
  <2>7. d.name = e.name
    <3>1. \A q \in DOMAIN pkg : \A h \in pkg[q].datatypes :
            AddressFunction(d.name) = AddressFunction(h.name) => d.name = h.name
      BY AddressFacts
    <3> QED  BY <2>5, <2>6, <3>1
  <2>8. <<m, d.name>> \in Datatypes(pkg) /\ <<o, d.name>> \in Datatypes(pkg)
    BY <1>2, <2>7
  <2>9. AreUnique(Datatypes(pkg))
    BY <2>1 DEF FlatObstacle
  <2>10. <<m, d.name>> = <<o, d.name>>
    BY <2>8, <2>9 DEF AreUnique
  <2> QED  BY <1>1, <2>4, <2>10
<1> QED  BY <1>5, <1>6, <1>7

\* is not what the root has,
LEMMA FlatRootNames ==
  ASSUME NEW pkg \in Packages, NEW opts, opts.flatten,
         ~FunctionObstacle(pkg, opts), ~ReexportObstacle(pkg, opts), ~FlatObstacle(pkg, opts),
         NEW m \in DOMAIN pkg, NEW n, NEW k, NEW l, NEW b, NEW c,
         RootHas(pkg, opts, n, k, b), ModuleHas(m, pkg, opts, n, l, c)
  PROVE  ~(k \in Types <=> l \in Types)
<1>1. Reexported(pkg, opts) = {}
  BY DEF ReexportObstacle
<1>2. \/ k = "scoped" /\ n \in RootValues
      \/ k = "scope type" /\ n \in RootTypes
      \/ k = "trait" /\ n = TxExt /\ HasTxExt(pkg, opts)
  BY <1>1 DEF RootHas
<1>3. CASE k = "scoped"
  <2>1. SUFFICES ASSUME l \notin Types PROVE FALSE
    BY <1>3 DEF Types
  <2>2. \/ /\ opts.emit_calls /\ opts.emit_call_specs
           /\ \E f \in Rendered(pkg[m]) : n = f.name
        \/ \E f \in Rendered(pkg[m]) : n = Target(f.name)
        \/ \E d \in pkg[m].datatypes : n = AddressFunction(d.name)
    BY <2>1 DEF ModuleHas, Types
  <2>3. ASSUME opts.emit_calls, opts.emit_call_specs, NEW f \in Rendered(pkg[m]) PROVE f.name \notin RootValues
    <3>1. <<m, f.name>> \in Functions(pkg) /\ <<m, f.name>>[2] = f.name
      BY FunctionsFacts
    <3> QED  BY <2>3, <3>1 DEF FlatObstacle
  <2>4. n \in RootValues
    BY <1>2, <1>3
  <2>5. ~\E f \in Rendered(pkg[m]) : n = Target(f.name)
    BY <2>4, TargetFacts
  <2>6. ~\E d \in pkg[m].datatypes : n = AddressFunction(d.name)
    BY <2>4, AddressFacts
  <2> QED  BY <2>2, <2>3, <2>4, <2>5, <2>6
<1>4. CASE k # "scoped"
  <2>1. SUFFICES ASSUME l \in Types PROVE FALSE
    BY <1>2, <1>4 DEF Types
  <2>2. n \in Reserved(pkg, opts) /\ n \notin {Sm, SmCall}
    BY <1>2, <1>4, RootAssumption DEF Reserved
  <2>3. opts.emit_types /\ \E d \in pkg[m].datatypes : n = d.name
    BY <2>1, <2>2 DEF ModuleHas, Types
  <2>4. PICK d \in pkg[m].datatypes : n = d.name
    BY <2>3
  <2>5. <<m, d.name>> \in Datatypes(pkg) /\ <<m, d.name>>[2] = n
    BY <2>4, DatatypesFacts
  <2> QED  BY <2>2, <2>3, <2>5 DEF FlatObstacle
<1> QED  BY <1>3, <1>4

\* and neither hides a name of Rust.
LEMMA FlatRootResolves ==
  ASSUME NEW pkg \in Packages, NEW opts, opts.flatten,
         ~DatatypeObstacle(pkg, opts), ~FunctionObstacle(pkg, opts),
         ~ReexportObstacle(pkg, opts), ~FlatObstacle(pkg, opts)
  PROVE  LET scope == Crate(pkg, opts)[Root] IN
         /\ NamesDiffer(scope.items) /\ HidesNothing(scope)
         /\ \A b \in scope.binders : b.hides \cap b.means = {}
         /\ \A d \in scope.structs : ConstructorFits(d)
<1> DEFINE scope == Crate(pkg, opts)[Root]
           root == RootSource(pkg, opts, FALSE)
           source(m) == ModuleSource(m, pkg, opts)
           InRoot(x) == RootHas(pkg, opts, x.name, x.kind, x.by)
           InModule(x, m) == ModuleHas(m, pkg, opts, x.name, x.kind, x.by)
<1>1. /\ \A x : x \in scope.items <=> x \in root.items \/ \E m \in DOMAIN pkg : x \in source(m).items
      /\ \A x : x \in scope.prelude <=> x \in root.prelude \/ \E m \in DOMAIN pkg : x \in source(m).prelude
      /\ \A x : x \in scope.binders <=> x \in root.binders \/ \E m \in DOMAIN pkg : x \in source(m).binders
      /\ \A x : x \in scope.structs <=> x \in root.structs \/ \E m \in DOMAIN pkg : x \in source(m).structs
  BY FlatRoot
<1>2. ASSUME NEW x \in scope.items
      PROVE  /\ x = Item(x.name, x.kind, x.by)
             /\ InRoot(x) \/ \E m \in DOMAIN pkg : InModule(x, m)
             /\ (Space(x) = "type") <=> (x.kind \in Types)
             /\ Space(x) \in {"type", "value"}
  <2>1. CASE x \in root.items
    <3>1. x = Item(x.name, x.kind, x.by) /\ InRoot(x)
      BY <2>1, RootItems
    <3>2. x.kind \in Types \cup {"scoped"}
      BY <3>1 DEF RootHas, Types
    <3> QED  BY <3>1, <3>2, SpaceOfKind DEF Types
  <2>2. ASSUME NEW m \in DOMAIN pkg, x \in source(m).items
        PROVE  /\ x = Item(x.name, x.kind, x.by) /\ InModule(x, m)
               /\ (Space(x) = "type") <=> (x.kind \in Types)
               /\ Space(x) \in {"type", "value"}
    <3>1. x = Item(x.name, x.kind, x.by) /\ InModule(x, m)
      BY <2>2, ModuleItems
    <3>2. x.kind \in {"alias", "use", "datatype", "address", "builder", "target"}
      BY <3>1 DEF ModuleHas
    <3> QED  BY <3>1, <3>2, SpaceOfKind DEF Types
  <2>3. x \in root.items \/ \E m \in DOMAIN pkg : x \in source(m).items
    BY <1>1
  <2> HIDE DEF scope, root, source, InRoot, InModule
  <2> QED  BY <2>1, <2>2, <2>3
<1>3. NamesDiffer(scope.items)
  <2> SUFFICES ASSUME NEW x \in scope.items, NEW y \in scope.items, x.name = y.name, Space(x) = Space(y)
               PROVE  x.kind = y.kind /\ x.by = y.by
    <3>1. \A z \in scope.items : z = Item(z.name, z.kind, z.by)
      BY <1>2
    <3> HIDE DEF scope
    <3> QED  BY <3>1, NamesDifferBy
  <2>1. x.kind \in Types <=> y.kind \in Types
    BY <1>2
  <2>2. CASE InRoot(x) /\ InRoot(y)
    <3>1. RootHas(pkg, opts, x.name, x.kind, x.by) /\ RootHas(pkg, opts, x.name, y.kind, y.by)
      BY <2>2
    <3> HIDE DEF scope, InRoot, InModule
    <3> QED  BY <2>1, <3>1, RootNames
  <2>3. ASSUME NEW m \in DOMAIN pkg,
               (InRoot(x) /\ InModule(y, m)) \/ (InRoot(y) /\ InModule(x, m))
        PROVE  FALSE
    <3>1. CASE InRoot(x) /\ InModule(y, m)
      <4>1. RootHas(pkg, opts, x.name, x.kind, x.by) /\ ModuleHas(m, pkg, opts, x.name, y.kind, y.by)
        BY <3>1
      <4> HIDE DEF scope, InRoot, InModule
      <4> QED  BY <2>1, <4>1, FlatRootNames
    <3>2. CASE InRoot(y) /\ InModule(x, m)
      <4>1. RootHas(pkg, opts, y.name, y.kind, y.by) /\ ModuleHas(m, pkg, opts, y.name, x.kind, x.by)
        BY <3>2
      <4> HIDE DEF scope, InRoot, InModule
      <4> QED  BY <2>1, <4>1, FlatRootNames
    <3> QED  BY <2>3, <3>1, <3>2
  <2>4. ASSUME NEW m \in DOMAIN pkg, NEW o \in DOMAIN pkg, InModule(x, m), InModule(y, o)
        PROVE  x.kind = y.kind /\ x.by = y.by
    <3>1. ModuleHas(m, pkg, opts, x.name, x.kind, x.by) /\ ModuleHas(o, pkg, opts, x.name, y.kind, y.by)
      BY <2>4
    <3>2. (x.kind \in {"alias", "datatype"}) <=> (y.kind \in {"alias", "datatype"})
      BY <2>1, <3>1 DEF ModuleHas, Types
    <3> HIDE DEF scope, InRoot, InModule
    <3> QED  BY <3>1, <3>2, FlatModuleNames
  <2>5. InRoot(x) \/ \E m \in DOMAIN pkg : InModule(x, m)
    BY <1>2
  <2>6. InRoot(y) \/ \E m \in DOMAIN pkg : InModule(y, m)
    BY <1>2
  <2> HIDE DEF scope, InRoot, InModule
  <2> QED  BY <2>2, <2>3, <2>4, <2>5, <2>6
<1>4. HidesNothing(scope)
  <2> SUFFICES ASSUME NEW x \in scope.items, Space(x) = RustSpace(x.name), x.name \in scope.prelude
               PROVE  FALSE
    BY DEF HidesNothing
  <2> DEFINE n == x.name
  <2>1. n \in TakenInRoot(pkg, opts) \/ \E m \in DOMAIN pkg : n \in TakenInModule(pkg[m], opts)
    <3>1. root.prelude = TakenInRoot(pkg, opts)
      BY RootRest
    <3>2. \A m \in DOMAIN pkg : n \in source(m).prelude => n \in TakenInModule(pkg[m], opts)
      BY ModuleRest
    <3> HIDE DEF scope, root, source
    <3> QED  BY <1>1, <3>1, <3>2
  <2>2. n \in RustNames
    BY <2>1, TakenFromRust
  <2>3. x.kind \in Types <=> n \notin RustValues
    BY <1>2 DEF RustSpace
  <2>4. CASE InRoot(x)
    <3>1. RootHas(pkg, opts, n, x.kind, x.by)
      BY <2>4
    <3> HIDE DEF scope, root, source, n, InRoot
    <3>2. x.kind = "reexport"
      BY <2>2, <2>3, <3>1, RootHides
    <3> QED  BY <3>1, <3>2 DEF RootHas, ReexportObstacle
  <2>5. ASSUME NEW m \in DOMAIN pkg, InModule(x, m) PROVE FALSE
    <3>1. ModuleHas(m, pkg, opts, n, x.kind, x.by)
      BY <2>5
    <3> HIDE DEF scope, root, source, n, InModule
    <3>2. \/ n \notin RustValues /\ opts.emit_types /\ \E d \in pkg[m].datatypes : n = d.name
          \/ /\ n \in RustValues /\ opts.emit_calls /\ opts.emit_call_specs
             /\ \E f \in Rendered(pkg[m]) : n = f.name
      BY <2>2, <2>3, <3>1, ModuleHides
    <3>3. CASE n \notin RustValues /\ opts.emit_types /\ \E d \in pkg[m].datatypes : n = d.name
      <4>1. <<m, n>> \in Datatypes(pkg) /\ <<m, n>>[2] = n
        BY <3>3, DatatypesFacts
      <4> QED  BY <2>1, <3>3, <4>1 DEF FlatObstacle, Reserved
    <3>4. CASE /\ n \in RustValues /\ opts.emit_calls /\ opts.emit_call_specs
               /\ \E f \in Rendered(pkg[m]) : n = f.name
      <4>1. <<m, n>> \in Functions(pkg) /\ <<m, n>>[2] = n
        BY <3>4, FunctionsFacts
      <4> QED  BY <2>1, <3>4, <4>1 DEF FlatObstacle
    <3> QED  BY <3>2, <3>3, <3>4
  <2> QED  BY <1>2, <2>4, <2>5
<1>5. \A d \in scope.structs : ConstructorFits(d)
  <2>1. root.structs = {}
    BY RootRest
  <2>2. \A m \in DOMAIN pkg : \A d \in source(m).structs : ConstructorFits(d)
    BY ModuleResolves
  <2> HIDE DEF scope, root, source
  <2> QED  BY <1>1, <2>1, <2>2
<1>6. \A b \in scope.binders : b.hides \cap b.means = {}
  <2>1. root.binders = {}
    BY RootRest
  <2>2. \A m \in DOMAIN pkg : \A b \in source(m).binders : b.hides \cap b.means = {}
    BY BindersHideNothing
  <2> HIDE DEF scope, root, source
  <2> QED  BY <1>1, <2>1, <2>2
<1> QED  BY <1>3, <1>4, <1>5, <1>6

-----------------------------------------------------------------------------
(* The source of a package *)

LEMMA PanicsAreObstacles ==
  ASSUME NEW pkg, NEW opts, Panics(pkg, opts) PROVE Obstacle(pkg, opts)
<1>1. CASE RootPanics(pkg, opts)
  BY <1>1 DEF RootPanics, ModuleObstacle, Obstacle
<1>2. ASSUME NEW m \in DOMAIN pkg, ModulePanics(m, pkg, opts) PROVE Obstacle(pkg, opts)
  BY <1>2 DEF ModulePanics, DatatypeObstacle, FunctionObstacle, Obstacle
<1> QED  BY <1>1, <1>2 DEF Panics

LEMMA CrateWithoutObstacles ==
  ASSUME NEW pkg \in Packages, NEW opts, ~Obstacle(pkg, opts)
  PROVE  NamesResolve(Crate(pkg, opts))
<1> DEFINE crate == Crate(pkg, opts)
<1>1. /\ ~DatatypeObstacle(pkg, opts) /\ ~FunctionObstacle(pkg, opts) /\ ~MethodObstacle(pkg, opts)
      /\ ~ModuleObstacle(pkg, opts) /\ ~ReexportObstacle(pkg, opts) /\ ~FlatObstacle(pkg, opts)
  BY DEF Obstacle
<1> DEFINE Fine(source) == /\ NamesDiffer(source.items)
                           /\ \A p \in source.paths : Resolves(p, crate)
                           /\ HidesNothing(source)
                           /\ \A b \in source.binders : b.hides \cap b.means = {}
                           /\ \A d \in source.structs : ConstructorFits(d)
<1>2. Fine(crate[Methods])
  <2>1. crate[Methods] = TxExtScope(pkg, opts)
    BY CrateScopes
  <2>2. LET source == TxExtScope(pkg, opts) IN
        /\ NamesDiffer(source.items)
        /\ \A p \in source.paths : Resolves(p, Crate(pkg, opts))
        /\ \A b \in source.binders : b.hides \cap b.means = {}
        /\ source.prelude = {} /\ source.structs = {}
    BY <1>1, MethodsResolve
  <2> QED  BY <2>1, <2>2 DEF HidesNothing
<1>3. CASE ~opts.flatten
  <2>1. ASSUME NEW m \in DOMAIN pkg PROVE Fine(crate[m])
    <3>1. crate[m] = ModuleSource(m, pkg, opts)
      BY <1>3, CrateScopes
    <3>2. \A p \in ModuleSource(m, pkg, opts).paths : Resolves(p, crate)
      BY <1>1, ModulePathsLead
    <3>3. LET source == ModuleSource(m, pkg, opts) IN
          /\ NamesDiffer(source.items) /\ HidesNothing(source)
          /\ \A b \in source.binders : b.hides \cap b.means = {}
          /\ \A d \in source.structs : ConstructorFits(d)
      BY <1>1, ModuleResolves
    <3> HIDE DEF crate
    <3> QED  BY <3>1, <3>2, <3>3
  <2>2. Fine(crate[Root])
    <3>1. LET scope == crate[Root] IN
          NamesDiffer(scope.items) /\ HidesNothing(scope) /\ scope.binders = {} /\ scope.structs = {}
      BY <1>1, <1>3, NestedRootResolves
    <3>2. crate[Root].paths = RootSource(pkg, opts, FALSE).paths
      BY <1>3, NestedRoot
    <3>3. \A p \in RootSource(pkg, opts, FALSE).paths : Resolves(p, crate)
      BY <1>1, RootPathsLead
    <3> HIDE DEF crate
    <3> QED  BY <3>1, <3>2, <3>3
  <2>3. DOMAIN crate = {Root, Methods} \cup DOMAIN pkg
    BY <1>3, CrateDomain
  <2> HIDE DEF crate, Fine
  <2>4. \A s \in DOMAIN crate : Fine(crate[s])
    BY <1>2, <2>1, <2>2, <2>3
  <2> QED  BY <2>4 DEF NamesResolve, Fine, crate
<1>4. CASE opts.flatten
  <2>1. Fine(crate[Root])
    <3>1. LET scope == crate[Root] IN
          /\ NamesDiffer(scope.items) /\ HidesNothing(scope)
          /\ \A b \in scope.binders : b.hides \cap b.means = {}
          /\ \A d \in scope.structs : ConstructorFits(d)
      BY <1>1, <1>4, FlatRootResolves
    <3>2. \A p : p \in crate[Root].paths <=>
            \/ p \in RootSource(pkg, opts, FALSE).paths
            \/ \E m \in DOMAIN pkg : p \in ModuleSource(m, pkg, opts).paths
      BY <1>4, FlatRoot
    <3>3. \A p \in RootSource(pkg, opts, FALSE).paths : Resolves(p, crate)
      BY <1>1, RootPathsLead
    <3>4. \A m \in DOMAIN pkg : \A p \in ModuleSource(m, pkg, opts).paths : Resolves(p, crate)
      BY <1>1, ModulePathsLead
    <3> HIDE DEF crate
    <3> QED  BY <3>1, <3>2, <3>3, <3>4
  <2>2. DOMAIN crate = {Root, Methods}
    BY <1>4, CrateDomain
  <2> HIDE DEF crate, Fine
  <2>3. \A s \in DOMAIN crate : Fine(crate[s])
    BY <1>2, <2>1, <2>2
  <2> QED  BY <2>3 DEF NamesResolve, Fine, crate
<1> QED  BY <1>3, <1>4

LEMMA OptionsResolve ==
  ASSUME NEW pkg \in Packages, NEW opts
  PROVE  /\ ~Obstacle(pkg, opts) => ~Panics(pkg, opts) /\ NamesResolve(Crate(pkg, opts))
         /\ Obstacle(pkg, opts) => Panics(pkg, opts) \/ ~NamesResolve(Crate(pkg, opts))
<1>1. ASSUME ~Obstacle(pkg, opts) PROVE ~Panics(pkg, opts) /\ NamesResolve(Crate(pkg, opts))
  BY <1>1, PanicsAreObstacles, CrateWithoutObstacles
<1>2. ASSUME Obstacle(pkg, opts) PROVE Panics(pkg, opts) \/ ~NamesResolve(Crate(pkg, opts))
  BY <1>2, DatatypeObstructs, FunctionObstructs, MethodObstructs, ModuleObstructs, ReexportObstructs,
     FlatObstructs DEF Obstacle
<1> QED  BY <1>1, <1>2

\* Under any options the source of any package is there and all its names resolve exactly
\* if no obstacle is in its way (render_package, render_package_parts).
THEOREM CrateResolves ==
  \A pkg \in Packages, opts \in RenderOptions :
    ~Panics(pkg, opts) /\ NamesResolve(Crate(pkg, opts)) <=> ~Obstacle(pkg, opts)
BY OptionsResolve

-----------------------------------------------------------------------------
(* A directory is the source that a package has in one *)

ModuleFile(m) == File("module", ModuleSource(m, package, options))
RootFile == File("root", RootSource(package, options, TRUE))

\* What is done of the rendering in hand: modules not in todo are written, as far as the
\* root did not take the place of one, and nothing written panics.
DirectoryInv ==
  /\ stage \in 0..3
  /\ stage # 0 =>
       /\ package \in Packages /\ ~options.flatten
       /\ \A m \in DOMAIN package \ todo :
            /\ ~ModulePanics(m, package, options)
            /\ disk[m] = ModuleFile(m) \/ (stage = 3 /\ m = Mod)
  /\ stage \in {2, 3} => todo = {}
  /\ stage = 3 => ~RootPanics(package, options) /\ disk[Mod] = RootFile

\* What comes out is the source of the package, unless it panics or a module is mod.
OutputInv ==
  output # None =>
    LET pkg == output.package
        opts == output.options
    IN  /\ pkg \in Packages
        /\ ~output.split => output.crate = IF Panics(pkg, opts) THEN NoCrate ELSE Crate(pkg, opts)
        /\ output.split => /\ ~Panics(pkg, opts)
                           /\ output.crate = IF Mod \in DOMAIN pkg THEN NoCrate ELSE Crate(pkg, opts)

SourceInv == IInv /\ DirectoryInv /\ OutputInv

\* Where modules are scopes the root is the same in a directory.
LEMMA RootSourceSplit ==
  ASSUME NEW pkg, NEW opts, ~opts.flatten
  PROVE  RootSource(pkg, opts, TRUE) = RootSource(pkg, opts, FALSE)
<1>1. RootAliases(opts, TRUE) = RootAliases(opts, FALSE)
  BY DEF RootAliases
<1> QED  BY <1>1 DEF RootSource

LEMMA FileSource ==
  ASSUME NEW kind, NEW source
  PROVE  File(kind, source).source = source
BY DEF File

\* The files that a rendering leaves are the crate.
LEMMA FilesAreCrate ==
  ASSUME SourceInv, stage = 3
  PROVE  Files = IF Mod \in DOMAIN package THEN NoCrate ELSE Crate(package, options)
<1> DEFINE modules == DOMAIN package
           root == RootSource(package, options, TRUE)
<1>1. /\ package \in Packages /\ ~options.flatten /\ todo = {}
      /\ \A m \in modules : disk[m] = ModuleFile(m) \/ m = Mod
      /\ disk[Mod] = RootFile
  BY DEF SourceInv, DirectoryInv
<1>2. disk[Mod].modules = modules /\ disk[Mod].source = root /\ disk[Mod].kind = "root"
  <2>1. disk[Mod] = File("root", root)
    BY <1>1 DEF RootFile
  <2> HIDE DEF root
  <2> QED  BY <2>1, FileFacts, FileSource
<1>3. \A m \in modules : m # Mod =>
        disk[m].kind = "module" /\ disk[m].source = ModuleSource(m, package, options)
  BY <1>1, FileFacts, FileSource DEF ModuleFile
<1>4. CASE Mod \in modules
  BY <1>2, <1>4 DEF Files
<1>5. CASE Mod \notin modules
  <2>1. ~ \E m \in modules : disk[m].kind # "module"
    BY <1>3, <1>5
  <2> DEFINE crate == Crate(package, options)
             scopes == modules \cup {Root, Methods}
  <2>2. Root \notin modules /\ Methods \notin modules /\ Root # Methods
    BY <1>1, LayoutAssumption, RootAssumption
  <2>3. /\ DOMAIN Files = scopes
        /\ Files[Methods] = TxExtScope(package, options)
        /\ Files[Root] = WithModules(root, modules)
        /\ \A m \in modules : Files[m] = disk[m].source
    <3> DEFINE methods == TxExtScope(package, options)
               nested == WithModules(root, modules)
               file(s) == disk[s].source
               files == [s \in scopes |-> CASE s = Methods -> methods
                                           [] s = Root    -> nested
                                           [] OTHER       -> file(s)]
    <3>1. Files = files
      BY <1>2, <2>1 DEF Files
    <3>2. /\ DOMAIN files = scopes /\ files[Methods] = methods /\ files[Root] = nested
          /\ \A m \in modules : files[m] = file(m)
      <4> HIDE DEF methods, nested, file, modules
      <4> QED  BY <2>2
    <3> HIDE DEF files
    <3> QED  BY <3>1, <3>2
  <2>4. /\ DOMAIN crate = scopes
        /\ crate[Methods] = TxExtScope(package, options)
        /\ crate[Root] = WithModules(root, modules)
        /\ \A m \in modules : crate[m] = ModuleSource(m, package, options)
    BY <1>1, RootSourceSplit, CrateScopes
  <2>5. \A s \in scopes : Files[s] = crate[s]
    <3> HIDE DEF modules, root, crate
    <3> QED  BY <1>3, <1>5, <2>3, <2>4
  <2>6. Files = [s \in DOMAIN Files |-> Files[s]]
    <3> DEFINE file(s) == CASE s = Methods -> TxExtScope(package, options)
                            [] s = Root    -> WithModules(root, modules)
                            [] OTHER       -> disk[s].source
    <3>1. Files = [s \in scopes |-> file(s)]
      BY <1>2, <2>1 DEF Files
    <3> HIDE DEF file, scopes
    <3> QED  BY <3>1
  <2>7. crate = [s \in DOMAIN crate |-> crate[s]]
    <3> DEFINE all == IF options.flatten THEN {} ELSE modules
               whole == IF options.flatten
                 THEN Together({RootSource(package, options, FALSE)}
                                 \cup {ModuleSource(m, package, options) : m \in DOMAIN package})
                 ELSE WithModules(RootSource(package, options, FALSE), all)
               source(s) == CASE s = Methods -> TxExtScope(package, options)
                              [] s = Root    -> whole
                              [] OTHER       -> ModuleSource(s, package, options)
               home == all \cup {Root, Methods}
    <3>1. crate = [s \in home |-> source(s)]
      BY DEF Crate
    <3> HIDE DEF source, home, crate
    <3> QED  BY <3>1
  <2>8. Files = crate
    <3> HIDE DEF crate
    <3> QED  BY <2>3, <2>4, <2>5, <2>6, <2>7
  <2> QED  BY <1>5, <2>8
<1> QED  BY <1>4, <1>5

LEMMA RenderKeepsSource == ASSUME SourceInv, Render PROVE DirectoryInv' /\ OutputInv'
<1>1. UNCHANGED <<stage, package, options, todo, disk>> /\ stage = 0
  BY DEF Render, Begins, split
<1>2. DirectoryInv'
  BY <1>1 DEF SourceInv, DirectoryInv
<1>3. PICK pkg \in Packages, opts \in AllOptions, parts \in BOOLEAN :
        LET used == IF parts THEN [opts EXCEPT !.flatten = FALSE] ELSE opts IN
        output' = Rendering(pkg, used, FALSE, IF Panics(pkg, used) THEN NoCrate ELSE Crate(pkg, used))
  BY DEF Render
<1> DEFINE used == IF parts THEN [opts EXCEPT !.flatten = FALSE] ELSE opts
           crate == IF Panics(pkg, used) THEN NoCrate ELSE Crate(pkg, used)
<1>4. output' = Rendering(pkg, used, FALSE, crate)
  BY <1>3
<1>5. /\ output'.package = pkg /\ output'.options = used
      /\ output'.split = FALSE /\ output'.crate = crate
  <2> HIDE DEF used, crate
  <2> QED  BY <1>4 DEF Rendering
<1>6. OutputInv'
  <2> HIDE DEF used
  <2> QED  BY <1>5 DEF OutputInv
<1> QED  BY <1>2, <1>6

LEMMA BeginKeepsSource == ASSUME SourceInv, BeginSplit PROVE DirectoryInv' /\ OutputInv'
<1>1. stage' = 1 /\ output' = None /\ todo' = DOMAIN package'
  BY DEF BeginSplit
<1>2. package' \in Packages
  BY DEF BeginSplit
<1>3. ~options'.flatten
  <2>1. PICK opts \in SplitOptions : options' = [opts EXCEPT !.flatten = FALSE]
    BY DEF BeginSplit
  <2>2. opts \in RenderOptions
    BY LayoutAssumption
  <2>3. options'.flatten = FALSE
    BY <2>1, <2>2 DEF RenderOptions
  <2> QED  BY <2>3
<1>4. DirectoryInv'
  BY <1>1, <1>2, <1>3 DEF DirectoryInv
<1>5. OutputInv'
  BY <1>1 DEF OutputInv
<1> QED  BY <1>4, <1>5

LEMMA WriteModuleKeepsSource ==
  ASSUME SourceInv, NEW m \in todo, WriteModule(m) PROVE DirectoryInv' /\ OutputInv'
<1>1. UNCHANGED <<stage, package, options, renders, output>> /\ todo' = todo \ {m} /\ stage = 1
  BY StagesFacts DEF WriteModule, Writing
<1>2. ~ModulePanics(m, package, options) /\ disk' = [disk EXCEPT ![m] = ModuleFile(m)]
  BY DEF WriteModule, ModuleFile
<1>3. package \in Packages /\ ~options.flatten /\ todo \subseteq DOMAIN package /\ DOMAIN package \subseteq Modules
  BY <1>1, StagesFacts DEF SourceInv, DirectoryInv, IInv, WritingInv
<1>4. \A f \in FileNames : disk'[f] = IF f = m THEN ModuleFile(m) ELSE disk[f]
  BY <1>2 DEF SourceInv, IInv, FilesInv
<1>5. \A q : ModuleFile(q)' = ModuleFile(q)
  BY <1>1 DEF ModuleFile, File
<1>6. ASSUME NEW q \in DOMAIN package \ todo'
      PROVE  ~ModulePanics(q, package, options) /\ disk'[q] = ModuleFile(q)
  <2>1. q \in FileNames
    BY <1>3 DEF FileNames
  <2>2. CASE q = m
    BY <1>2, <1>4, <2>1, <2>2
  <2>3. CASE q # m
    <3>1. q \in DOMAIN package \ todo
      BY <1>1, <2>3
    <3> QED  BY <1>1, <1>4, <2>1, <2>3, <3>1 DEF SourceInv, DirectoryInv
  <2> QED  BY <2>2, <2>3
<1>7. DirectoryInv'
  BY <1>1, <1>3, <1>5, <1>6 DEF DirectoryInv
<1>8. OutputInv'
  BY <1>1 DEF SourceInv, OutputInv
<1> QED  BY <1>7, <1>8

LEMMA ModulesEndKeepsSource == ASSUME SourceInv, ModulesEnd PROVE DirectoryInv' /\ OutputInv'
<1>1. UNCHANGED <<package, options, todo, disk, renders, output>> /\ stage = 1 /\ stage' = 2 /\ todo = {}
  BY StagesFacts DEF ModulesEnd, Writing, split
<1>2. \A q : ModuleFile(q)' = ModuleFile(q)
  BY <1>1 DEF ModuleFile, File
<1>3. DirectoryInv'
  BY <1>1, <1>2 DEF SourceInv, DirectoryInv
<1>4. OutputInv'
  BY <1>1 DEF SourceInv, OutputInv
<1> QED  BY <1>3, <1>4

LEMMA WriteRootKeepsSource == ASSUME SourceInv, WriteRoot PROVE DirectoryInv' /\ OutputInv'
<1>1. UNCHANGED <<package, options, todo, renders, output>> /\ stage = 2 /\ stage' = 3
  BY StagesFacts DEF WriteRoot, Writing, split
<1>2. ~RootPanics(package, options) /\ disk' = [disk EXCEPT ![Mod] = RootFile]
  BY DEF WriteRoot, RootFile
<1>3. \A q : ModuleFile(q)' = ModuleFile(q)
  BY <1>1 DEF ModuleFile, File
<1>4. RootFile' = RootFile
  BY <1>1 DEF RootFile, File
<1>5. \A f \in FileNames : disk'[f] = IF f = Mod THEN RootFile ELSE disk[f]
  BY <1>2 DEF SourceInv, IInv, FilesInv
<1>6. DOMAIN package \subseteq FileNames /\ Mod \in FileNames
  BY <1>1, StagesFacts DEF SourceInv, IInv, WritingInv, FileNames
<1>7. /\ package \in Packages /\ ~options.flatten /\ todo = {}
      /\ \A m \in DOMAIN package : ~ModulePanics(m, package, options) /\ disk[m] = ModuleFile(m)
  BY <1>1 DEF SourceInv, DirectoryInv
<1>8. \A m \in DOMAIN package : disk'[m] = ModuleFile(m) \/ m = Mod
  BY <1>5, <1>6, <1>7
<1>9. DirectoryInv'
  BY <1>1, <1>2, <1>3, <1>4, <1>5, <1>6, <1>7, <1>8 DEF DirectoryInv
<1>10. OutputInv'
  BY <1>1 DEF SourceInv, OutputInv
<1> QED  BY <1>9, <1>10

LEMMA SplitEndsKeepsSource == ASSUME SourceInv, SplitEnds PROVE DirectoryInv' /\ OutputInv'
<1>1. stage = 3 /\ stage' = 0 /\ todo' = {}
  BY StagesFacts DEF SplitEnds, SourceInv, DirectoryInv
<1>2. output' = Rendering(package, options, TRUE, Files)
  BY DEF SplitEnds
<1> DEFINE crate == Files
<1>3. /\ output'.package = package /\ output'.options = options
      /\ output'.split = TRUE /\ output'.crate = crate
  <2>1. output' = Rendering(package, options, TRUE, crate)
    BY <1>2
  <2> HIDE DEF crate
  <2> QED  BY <2>1 DEF Rendering
<1>4. crate = IF Mod \in DOMAIN package THEN NoCrate ELSE Crate(package, options)
  BY <1>1, FilesAreCrate
<1>5. package \in Packages /\ ~Panics(package, options)
  BY <1>1 DEF SourceInv, DirectoryInv, Panics
<1> HIDE DEF crate
<1>6. OutputInv'
  BY <1>3, <1>4, <1>5 DEF OutputInv
<1>7. DirectoryInv'
  BY <1>1 DEF DirectoryInv
<1> QED  BY <1>6, <1>7

LEMMA FailKeepsSource == ASSUME SourceInv, Fail PROVE DirectoryInv' /\ OutputInv'
<1>1. stage' = 0 /\ output' = output
  BY DEF Fail
<1> QED  BY <1>1 DEF SourceInv, DirectoryInv, OutputInv

\* All names of a source that comes out resolve exactly if no obstacle is in its way, in one
\* piece, in parts and as a directory, for any packages and options, whatever earlier renderings left
\* there; a module mod makes a directory unusable (render_package, render_package_parts,
\* render_package_split).
THEOREM SourcesAreClear == Spec => []SourcesResolve
<1>1. Init => SourceInv
  <2>1. Init => DirectoryInv /\ OutputInv
    BY DEF Init, DirectoryInv, OutputInv
  <2> QED  BY <2>1, InitIInv DEF SourceInv
<1>2. SourceInv /\ [Next]_vars => SourceInv'
  <2> SUFFICES ASSUME SourceInv, [Next]_vars PROVE SourceInv'
    OBVIOUS
  <2>1. IInv'
    BY StepIInv DEF SourceInv
  <2>2. CASE UNCHANGED vars
    <3>1. UNCHANGED <<stage, package, options, todo, disk, renders, output>>
      BY <2>2 DEF vars, split
    <3>2. ModuleFile(Mod)' = ModuleFile(Mod) /\ RootFile' = RootFile /\ \A q : ModuleFile(q)' = ModuleFile(q)
      BY <3>1 DEF ModuleFile, RootFile, File
    <3>3. DirectoryInv' /\ OutputInv'
      BY <3>1, <3>2 DEF SourceInv, DirectoryInv, OutputInv
    <3> QED  BY <2>1, <3>3 DEF SourceInv
  <2>3. CASE Next
    <3>1. DirectoryInv' /\ OutputInv'
      BY <2>3, RenderKeepsSource, BeginKeepsSource, WriteModuleKeepsSource, ModulesEndKeepsSource,
         WriteRootKeepsSource, SplitEndsKeepsSource, FailKeepsSource DEF Next
    <3> QED  BY <2>1, <3>1 DEF SourceInv
  <2> QED  BY <2>2, <2>3
<1>3. SourceInv => SourcesResolve
  <2> SUFFICES ASSUME SourceInv, output # None
               PROVE  (output.crate # NoCrate /\ NamesResolve(output.crate))
                        <=> /\ ~Obstacle(output.package, output.options)
                            /\ output.split => Mod \notin DOMAIN output.package
    BY DEF SourcesResolve
  <2> DEFINE pkg == output.package
             opts == output.options
  <2>1. pkg \in Packages
    BY DEF SourceInv, OutputInv
  <2>2. Crate(pkg, opts) # NoCrate
    <3>1. Root \in DOMAIN Crate(pkg, opts)
      BY <2>1, CrateDomain
    <3>2. DOMAIN NoCrate = {}
      BY DEF NoCrate
    <3> HIDE DEF pkg, opts
    <3> QED  BY <3>1, <3>2
  <2>3. /\ ~Obstacle(pkg, opts) => ~Panics(pkg, opts) /\ NamesResolve(Crate(pkg, opts))
        /\ Obstacle(pkg, opts) => Panics(pkg, opts) \/ ~NamesResolve(Crate(pkg, opts))
    BY <2>1, OptionsResolve
  <2>4. /\ ~output.split => output.crate = IF Panics(pkg, opts) THEN NoCrate ELSE Crate(pkg, opts)
        /\ output.split => /\ ~Panics(pkg, opts)
                           /\ output.crate = IF Mod \in DOMAIN pkg THEN NoCrate ELSE Crate(pkg, opts)
    BY DEF SourceInv, OutputInv
  <2> HIDE DEF pkg, opts
  <2>5. (output.crate # NoCrate /\ NamesResolve(output.crate))
          <=> ~Obstacle(pkg, opts) /\ (output.split => Mod \notin DOMAIN pkg)
    BY <2>2, <2>3, <2>4
  <2> QED  BY <2>5 DEF pkg, opts
<1> QED  BY <1>1, <1>2, <1>3, PTL DEF Spec
===============================================================================
