# A verification project for move-binding

move-binding binds Rust programs to Move packages on Sui. Most of it describes
or generates code; the part that keeps state across calls, talks to a network
and can be wrong in ways a unit test hardly reaches is the runtime, and next to
it the transaction builder and the bindings generator. This directory models
them in TLA+, checks small instances of the models with TLC, and proves the
properties that matter most for every value of the constants with TLAPS.

    tlc -workers 2 -config CursorMonotonic.cfg MCCursor.tla     one of the runs
    tlapm SubmissionProofs.tla                                  one of the proofs

`PROJECT.json` lists the runs with what each checks, the line range of the
source every definition stands for, a mutant of the code's model that breaks
each property, the hazards of the code with the properties that cover them, the
findings and the theorems.

## The system

| Part | Source | State | Operations |
| --- | --- | --- | --- |
| effects patch | `sui-move-runtime/src/effects.rs` | none | `EffectsPatch::from_effects` over two effects formats |
| cursor and handles | `sui-move-runtime/src/handles.rs` | table of object cells (reference, owner, tombstone, each behind a lock), shared with every handle | intern, tombstone, apply patch, snapshot, restore; conversion of a handle to a call argument |
| runtime | `sui-move-runtime/src/lib.rs` | the cursor, a gRPC client, a signer | reads, refreshes, commits, `sync_transaction`, snapshots |
| submission | `sui-move-runtime/src/tx.rs` | a transaction in flight | gas selection, signing, execution, checkpoint wait, receipts |
| transaction builder | `sui-move-ptb/src/lib.rs` | inputs and commands | one method per input and command kind |
| call specs | `sui-move-call/src/lib.rs` | a spec's arguments | argument conversion |
| bindings generator | `sui-move-codegen/src` | intermediate representation; in the code it generates, two thread locals per binding | parse, normalise, render; `with_*` scopes and lookups in the generated code |
| derive macros | `sui-move-derive/src` | none | ability checks, expansion of a struct to trait impls |
| Move types | `sui-move/src` | none | marker traits for abilities, type tags, decoding with a tag check |
| release scripts | `scripts` | what a registry has published; how far a run is | package checks, publication of the crates one by one |

How they interact. Generated or hand-written bindings build a `CallSpec` from
values and handles; a `PtbBuilder` inside a `Tx` turns specs into inputs and
commands; `Tx::commit` has the runtime's client execute the transaction and
applies its effects, as a patch, to the cursor; the cursor's cells are what the
next conversion of a handle reads. Reads and `sync_transaction` advance the
same cells from what full nodes answer. All methods that advance the cursor
take `&mut Runtime`; handles are clones of an `Arc` and are read from anywhere.

What is hard, and what makes each part correct:

* **Effects patch.** Two formats describe one transaction differently. A patch
  must have exactly one upsert for each object written and a tombstone for each
  object deleted or wrapped, gas object and unwrapped objects included.
* **Cursor.** Nothing orders what it learns: full nodes lag, digests are synced
  in whatever order the application has them, other clients write the same
  objects, a snapshot is restored long after it was taken. References must
  never go back, the reference and the owner must belong together, and a handle
  that is current must convert to an input the chain takes.
* **Handles.** A conversion in another thread meets an update between any two
  of its locks.
* **Submission.** The network executes a transaction or not, the answer arrives
  or not, the caller waits, gives up or dies. What the caller is told must be
  true, and the cursor must not be left behind by an answer that did arrive.
* **Transaction builder.** Requests for one object come in different kinds,
  versions and mutabilities; an index handed out once must stay good whatever
  is unified, upgraded, refused or abandoned half way afterwards, up to
  `u16::MAX`.
* **Package scopes.** Guards restore two thread locals across returns and
  panics; a lookup must see the innermost open scope, a reused thread none.
* **Generator.** A datatype goes by up to three addresses: of the version that
  added it, of the first and of the present version. The tables that find its
  path, its key ability and whether it may be `Copy` are keyed by different ones
  of them. Names come from the network and from sources that may disagree with
  it, and must become distinct and legal in Rust.
* **Abilities in Rust.** The macro and the generator write impls, where clauses
  and bounds one at a time; whether they fit together is for rustc to say, about
  packages nobody tried. A marker must stand for its ability, no more and no less.
* **Layout.** Options decide which items are rendered and in which Rust module;
  what one part leaves out or adds another relies on. A directory is written file
  after file, over what an earlier rendering left there.
* **Release scripts.** A run that failed half way is resumed, or joined by another
  operator's, against a registry that shows publications late and whose names
  others may hold.

## The modules

    Effects ── Chain ─┐
       └── Cells ─────┴─ Cursor ── Submission        (Submission implements Cursor)
              └───────── Handles
    CallArgs ── PtbBuilder                           (implements InputTable)
       └─────── InputTable
    PackageScope                                     (implements ScopeStack)
    ParameterNames ── Interface ── Bindings
    MoveTypes ── Markers
    Layout
    Publication

| Module | Stands for |
| --- | --- |
| `Effects` | `effects.rs`: owners, patches, both wire formats, `from_effects` |
| `Chain` | the ledger and object store behind gRPC; external |
| `Cells` | `ObjectCell`, what each cursor operation does to the table, handle conversion, snapshots |
| `Cursor` | `Runtime`, `Read`, `Tx::commit` as they act on the cursor |
| `Submission` | `submit_and_wait` and `commit_ptb_with_inner` step by step |
| `Handles` | the same table, one lock at a time, with converting threads |
| `CallArgs` | inputs of a transaction; `ToCallArg`, `ToCallArgMut`, `CallSpec` |
| `InputTable` | abstract: what the input table promises |
| `PtbBuilder` | `PtbBuilder` |
| `ScopeStack` | abstract: what scopes promise |
| `PackageScope` | the scopes of the generated code (`render/util.rs`) |
| `ParameterNames` | names from the sources and the identifiers made of them (`ir.rs`, `render/idents.rs`) |
| `Interface` | normalisation (`source.rs`), addresses (`ir.rs`), lookups of the renderer (`render/mod.rs`, `types.rs`, `calls.rs`) |
| `Bindings` | a build: external packages, fetch, rewriting, source names, rendering |
| `MoveTypes` | Move's abilities as its verifier has them (external); substitution of type arguments |
| `Markers` | the impls of generated structs and enums (`sui-move-derive`, `render/types.rs`) and the bounds of builders (`render/calls.rs`) |
| `Layout` | items and Rust modules under `RenderOptions`, directories of files (`render/util.rs`, `mod.rs`, `tx_ext.rs`) |
| `Publication` | `publish-crates.sh` |
| `MC*` | constants of the instances TLC checks |
| `*Proofs` | theorems and their proofs |

### Cursor

`cells[id]` is the cell of `id`, `None` when the cursor does not track it. A
cell is reference version, owner and tombstone; digests are left out, for a
version determines its digest. `world[k]` is the object store after `k - 1`
transactions and `ledger[k]` the effects of transaction `k`. A transaction's
version is its place in the ledger: all the code relies on is that a write gives
an object a version above those it had. `persisted` is the snapshot the
application saved.

One action is one method, its effect on the cursor whole: `Commit`,
`SyncTransaction(k)`, `RefreshId`, `ReadObject`, `Get`, `Decode`,
`ReceivingObject`, `ReadSharedObject`, `CursorSnapshot`, and `Restart` for a
new runtime with the last snapshot. A read is answered from the store at any
position `k`, which is a lagging full node, or with an error that says nothing of
the object (`ReadErrs`), and then the cursor stays as it was. `Fetch` is the set of
answers. `get` and `decode` intern before they compare tags or decode, so their failures
leave the cursor that their successes do. `ExternalTransaction` is another client.

`seen[id]` is history: the position of the latest state of `id` the runtime was
told of, whatever it did with it. The properties compare cells with it.

Two constants say what the environment does: `MonotonicReads`, full nodes never
answer from before what the cursor knows, and `OrderedSync`, digests are synced
in the order of execution. Nothing in the code enforces either; the properties
say which they need.

### Submission

`Send` is the request of `submit_and_wait`; `NetworkExecutes(n)` may come at any
time after it, or never, and after the caller has gone; `ReturnReceipt`,
`ReturnUnusable`, `ReturnExecuteError` are what the answer becomes; `DropCommit`
is a dropped future, `RestartProcess` a crash. `commit` borrows the runtime, so
reads and syncs wait (`Idle`); other clients do not. The wait for a checkpoint
ends in its success, in a timeout or in a broken stream.

### Handles

`todo` is the patch being applied, `upserting` and `step` how far its current
upsert is: `apply_patch` sets all tombstones first, then each upsert's
reference, owner and tombstone, each under its own lock. `CheckTombstone`,
`LockOwner` and `ReadReference` are a conversion: the tombstone is read and
released, then the owner is read and its lock kept until the reference is read.
`stamps` and `removed` record which update last settled what.

### PtbBuilder

One action per method; `call` allocates the inputs of its spec one by one and
stops at the first error, so `BeginCall`, `CallInput` and `CallCommand` are
steps of it, with no other method in between. `granted` records each request
with the index it was given, `issued` the arguments given out. Left out: BCS
bytes, type arguments, targets and the position inside a nested result.

### PackageScope

`callOverride` and `typeScope` are the thread locals of one thread, `frames` the
`with_*` calls on its stack, each with what it set and the previous values its
guards hold. A closure ends by `Return` or, while a panic unwinds, by `Unwind`;
`Catch` may stop it between any two frames. Threads share nothing, so one is
modelled. A future made inside a closure and polled after it looks up outside
the scope: the closure has returned, which is `Return`.

### Bindings

`defs` and `since` are what is published: of each datatype its shape and the
version that added it, of each function the version that has it first. They
grow by `Publish`, which is external. A package and its upgrades are one value,
an address is a package and a version, and a type name an address and a name.
`package` is the `NormalizedPackage` of the version in `generated`, `external`
the table of `RenderOptions::external_types`, `registered` where its entries
came from. One action is one call of the caller (`AddExternalPackage`,
`FetchPackage`, `ReplaceAddresses`, `ReadSources`, `BeginRender`) or one round of
a loop: a file of the directory (`ReadFile`), a function of the overlay
(`OverlayFunction`), a datatype of a pass of `rust_copy_type_keys`
(`CopyDatatype`), a parameter of a builder (`RenderParameter`). `ReadFile` takes
the files in any order, as `read_dir` does. A failed overlay leaves the functions
before the failure renamed, and the caller may read another directory or render.

The builders of the modules and the methods of `TxExt` are rendered one after the
other from the same interface. Rendering is a function of interface and options
and each of the steps before it can be repeated, so a behaviour builds one
version of one package. A parameter's type is a scalar, a vector, the context, or
a datatype by value or reference; a reference to a value and the value are one,
as the code strips the reference. A source file is what its parser finds in it:
functions with their lists of names, or nothing when it cannot be read or has no
module header. Options are the defaults with `emit_tx_ext`.

### MoveTypes and Markers

`defs` is a package that the Move verifier accepts: datatypes published in any of
their `Shapes`, each shape a kind, type parameters with constraints and phantoms,
abilities and fields, and whether it is in the package rendered (`local`) or in one
whose bindings exist already. `RenderStruct` writes the arguments of
`#[move_struct]`, `ExpandMoveStruct` makes impls of them as `expand_move_struct`
does or reports its errors, `RenderEnum` writes impls directly, `RenderFunction`
collects the bounds of a builder. An impl is its trait, its datatype, its where
clause and what its body and supertraits need. `Check` is rustc: `Holds` resolves a
trait through the impls, as its solver does, and `ImplCompiles` says when an impl is
well formed. `Universe` is the types there are; `Height` gives each a number above those
of its arguments and, once they are substituted, its fields. Move has no datatype that
contains itself, so there are such numbers. What goes through a type (`Subst`,
`AbilitiesOf`, `Holds`, `Collected` and others) is a recursive function on `Universe`.
`Collected` is `collect_move_type_bounds` and `collect_ability_bounds` in one, for they
differ at a type parameter only. In the instance, functions, fields and samples are
small types over one parameter.

The properties compare this with `AbilitiesOf` and `LegalCall` of `MoveTypes`.
They say for which packages the code yields crates that compile, and that there the
markers are the abilities. What is excluded is named: `Obstacle`, `CopyWithDrop`,
`AllCount`, `OnlyStructs`, `FullyAble`; each is a limit of the code described
below.

### Layout

A package is functions and datatypes by module; a rendering of it is, for every
scope of Rust, the items there, the paths that must lead to an item, the names it
takes from Rust (`Box`, `Result`, `Ok` and others, of types or of values), binders (type
parameters, parameters, the variable `spec`), which hide names that other things are
meant by, and the structs whose constructors are generated. `Render` is
`render_package` and `render_package_parts`, pure functions. `render_package_split`
is `BeginSplit`, one `WriteModule` per module in any order (the code has them by
name), `WriteRoot` and `SplitEnds`; `Fail` is an error of the file system or a panic
before, between or in the middle of files. `disk` keeps what each rendering wrote,
so a later one meets files of an earlier package. `NamesResolve` is rustc's name
resolution, and no more of rustc: whether the bounds of type parameters suffice is in
`Markers`, and the types within helpers of known datatypes (`UID`, `Table`, `Option`) are
nowhere. That a name resolves means that it leads where the generator means it to: a
crate in which a generic datatype `Vec` of the package hides that of Rust may compile,
with fields of another type than the package has.

A word of the source is a name with the number of times `_target` was appended and whether
`__type_package_for_` was put before it. The model relies on what Move allows: names of
functions begin with a small or capital letter and never with an underscore, those of
datatypes with a capital, so that none is `sm`, `sm_call` or the address function of
another; and on there being no module named as one of the crates that generated code
names where it takes no alias (`talus_sui_move`, `talus_sui_move_call`).

### Publication

`stage`, `position`, `counted` and `attempts` are the script's counters, per run of
it: the loop that counts names, the one that refuses versions already there, and the
one that checks again, uploads and waits. `registry` is crates.io: which names are
taken and by whom, which crates of the release were uploaded and which of them the
API shows (`List`, some time later). `UploadFails` fails before or after the upload
took effect; `Stop` is a query that fails or a process that is killed, anywhere.
`resumes[r]` is `ALLOW_EXISTING`. Any number of runs overlap.

## What the runs check

| Run | Instance | Shows |
| --- | --- | --- |
| `any_order` | one object and one package, 3 transactions, any lag, any order | `ReferenceIsLatestLearned`, `ReferenceNeverRegresses`, `CommitCatchesUp`, `RefreshRepairs` |
| `monotonic` | one object, every owner kind, both formats, 3 transactions, ordered | `PatchesDescribeTransactions`, `RemembersLatestLearned`, `CurrentHandlesConvert` |
| `late_sync` | an older digest synced after a newer | finding 1 |
| `submission_answers` | 2 submissions, 2 transactions, lagging nodes | `ImplementsCursor`, `ObservedFinalityIsTrue`, `ReceiptEffectsAreApplied` |
| `submission_errors` | 1 submission | finding 2 |
| `handles` | two objects, one reader, 2 updates | `ArgumentsLookForward`, `ReferencesGoForward`, `RemovedBeforeWritten`, `UpdatesEndWhole` |
| `ptb` | 2 inputs, 2 commands, requests for objects and pure values, five call shapes | `ImplementsInputTable`, `InputsAreDistinct`, `GrantsHold`, `CallsGetTheirArguments`, `ArgumentsReferBack`, `WithdrawalsAreNotShared` |
| `package_scope` | two packages, two datatypes, three closures deep | `ImplementsScopeStack` |
| `bindings` | a package of up to 3 versions and one it depends on, 2 datatypes, 2 functions, 1 registration, four source directories | `RustNamesAreDistinct`, `ArgumentsAreWhatTheChainTakes`, `KnownDatatypesAreFound`, `NamesComeFromTheirSource`, `CopiesAreExact`, `GenerationEnds` |
| `markers` | two datatypes, the second made with the first, each of some dozens of shapes; thirteen functions | `CompilesUnlessObstructed`, `MarkersCoverAbilities`, `MarkersAreEarned`, `BuildersCompile`, `LegalCallsAreAccepted`, `AcceptedCallsAreLegal` |
| `layout` | packages of one and two modules, all 128 combinations of the options, directories written twice | `SourcesResolve`, `RootIsWrittenLast` |
| `publication` | two overlapping runs, five histories of the registry | `OnlyResumesContinue`, `FinishedReleasesAreWhole`, `UploadsFindTheirDependencies`, `RunsEnd` |

Type invariants and the properties that follow from these (`OwnerBelongsToReference`,
`AccessWasAskedFor`, `TakenNamesStopARelease`) are proved and not run; `ptb` runs its
type invariant for the bounds of indices.

### Bounds

* `MaxTransactions`: with 3, an object can be created, changed or wrapped, and
  changed again or deleted, with reads and syncs of any of these states in any
  order in between; every disagreement between two observations needs two of
  them, and the third is there to overtake both. The findings need 2.
* One object is enough for what a cell goes through, for cells are independent;
  `Handles` has two, where a reader puts two handles into one call. That a
  transaction may change several is covered by the proofs, for any ids.
* `MaxSubmissions` 2: a second commit is needed for the transaction of a dropped
  one to execute under it.
* `MaxUpdates` 2, one reader: two updates let a conversion begun before the first
  end after the second; readers only wait for writers and write nothing shared,
  so two of them do what each does.
* `MaxInput` and `MaxCommand` stand for `u16::MAX`; the tables reach the last
  index and the request after it. `MaxArguments` bounds arguments per command.
* `Versions`: with 3 versions of a package there is one that is neither its first
  nor its last, and so a datatype with three addresses. The package may be
  registered in another of its versions than the one built, which is a stale
  interface. One datatype may hold the other and comes before it in the order of
  the modules, so the fixpoint needs a second pass and a third to see that it is
  done. `MaxRegistered` 1.
* The directories have names that clash with a keyword's replacement and with
  generated names, `_`, a list of the wrong length after one that fits, and a
  file that cannot be read beside one that can. Three parameters let a replacement
  name be that of a later parameter.
* `MaxDepth` 3: a scope, one inside it that hides part of it, one inside that.
* `Markers` has two datatypes, for what goes wrong does so between a datatype and one
  it is made with; a third adds no new pair. One type parameter, all sets of its
  constraints that tell rules apart, fields that are the parameter, a vector, the
  other datatype applied and not, and callers' types one level deep. The other
  datatype may be from another package, which the bounds of builders do not look into.
* `Layout` has packages of one and two out of eight modules, enough for names of different
  modules to meet; names from every set that the root defines or imports; of what
  generated code takes from Rust one type and one value for each place that takes it
  (`Box` for datatypes, `Result` and `Ok` for functions, `String` and `Some` for the
  root, `sui_sdk_types` for the methods, `Vec` and `None` for single datatypes and
  functions); one type parameter, `T0`; and `MaxRenders` 2: a directory with what an
  earlier rendering left. Every disjunct of every obstacle has a package in the instance
  that it alone obstructs. Directories try two combinations of the options, as `Render`
  tries them all. In all 935,306 states.
* `Publication` has two runs, as a third does to two what a second does to one,
  `MaxAttempts` 2 in place of 60, and histories of the registry in which none, one or
  all names are taken, by the project or by others. Runs and attempts of any number
  are covered by the proofs.

Runs of the runtime, the builder, the release and the layout are finite (ledger full,
builder finished, every run over, `MaxRenders` renderings), so they do not check
deadlock, and neither does `markers`, which ends with rustc's verdict. `handles`,
`package_scope` and `bindings` do, since neither a reader, a thread nor a build may be
left with nothing to do.

### Fairness

No fairness is assumed of the locks, for `RwLock` promises none, nor of the network or
of an application that might refresh: what is said of them is what a step does when it
is taken. `Bindings` has weak fairness of the
generator's steps: it is sequential code, which runs on once it is called.
Nothing makes the caller call it. `Publication` has weak fairness of `Proceed`, the
script's own steps, for each run: once started it runs on, and each request it makes
ends, which `curl` without `--max-time` (`publish-crates.sh:64`) leaves to the server.
Nothing is assumed of the registry: it may never list an upload.

## Findings

1. `late_sync`: `apply_patch` clears the tombstone at every upsert, whatever its
   version (`handles.rs:641`), so syncing an older digest revives the handle of
   an object the runtime has seen deleted. `MODEL.md:67` has tombstones fail
   early on stale handles.
2. `submission_errors`: a commit that executed ends in an error without a digest
   when the answer's effects do not decode or its transaction is missing
   (`tx.rs:610`). The runtime's README has the digest always present.

The rest still holds: references never go back, an own commit and a refresh that an up
to date node answers bring the handle to the state on chain, and no false receipt is
given.

## Limits of the code

What the models showed the code does not do, without a run of its own. Where a
property has one of these as a condition, it says so.

* A full node behind the cursor: `intern_cell` guards the reference by its version but
  takes owner and tombstone from whatever was fetched (`handles.rs:596`), so the
  reference may be of one version and the owner of an older one.
* A refresh of an object that is gone tombstones the handle only if the node's answer has
  no object in it (`GrpcError::Missing`). A node that answers with a gRPC status such as
  `NOT_FOUND` gives `GrpcError::Grpc` (`tx.rs:323-330`), at which `refresh_id` returns
  without telling the cursor (`lib.rs:246`), although its comment has a missing object
  tombstoned. What a node answers is not in the repository, so this is no finding;
  `RefreshRepairs` speaks of answered refreshes only.
* A call may hold an object and the container it was wrapped into: a reader that
  converts the object's handle before the update and the container's after it has both.
  `RemovedBeforeWritten` is about the other order, which the code does exclude.
* Own datatypes: `is_local_type` (`types.rs:1271`) knows a package by its first and its
  present address. A datatype that a version between them added is named by a third,
  and its bindings hold a `compile_error!` for it, unless the caller registers the
  package with itself (the condition in `KnownDatatypesAreFound`).
* A builder declares `spec` after its parameters (`calls.rs:93`): a Move parameter
  `spec` is hidden and the builder is pushed instead, which does not compile.
* Datatypes that do not compile (`Obstacle` in `Markers`): a struct around an enum
  without `copy`, as only enums with `copy` are `Clone`; a generic enum with `copy` of
  which a parameter need not be copied, or that applies a struct to its parameter; an
  enum with a phantom parameter; a struct with a parameter that is neither phantom nor
  in a field; a parameter of a struct constrained to `key` and `copy`.
* `copy` does not imply `drop` in Move; the macro says it does (`abilities.rs:65`).
* A marker may be there without the ability if a parameter that is not phantom is in
  fields only below an argument of a phantom parameter, as `T` is in
  `struct Outer<T> { f: Inner<vector<T>> }` with `Inner<phantom T>`: Move asks the ability
  of the argument, the macro's where clauses (`expand.rs:182`) come from the fields and ask
  nothing of it. The Move compiler warns of a parameter that only phantom positions use,
  but `vector<T>` is not one. `AllCount` excludes it.
* Builders ask for the abilities of all fields of a datatype (`calls.rs:372`), also
  where the function needs none, and so refuse some calls that Move accepts. The
  markers of enums and `HasKey` look at no field, and so accept some it does not.
* Names that do not resolve (`Obstacle` in `Layout`). By default: `emit_reexports` for a
  package with datatypes of one name in two modules, or with one that has the name of
  something the root defines or takes from Rust (`String`, `Option`, `Drop`, `TypeOrigins`).
  A datatype `Box` always, as every datatype takes it (`types.rs:225`, `expand.rs:365`);
  `Vec` or `Into` beside a datatype that takes them in the same module (`types.rs:531`,
  `1103`); `From` and others beside one with helpers; `Result` beside functions. Functions
  named `Ok` or, for what helpers take, `Some` or `None`. A datatype `T0`, `T1` used in
  the declaration of a generic one or the signature of a generic function of its module,
  or itself generic. Functions `f` and `f_target` in a module, `call_package` and
  `type_package_for`; a parameter `spec`, or `f_target` of `f` (`calls.rs:93`). Fields
  called `phantom_...` of structs. Call builders without the types in their signatures.
  With `emit_tx_ext`: no `emit_call_specs`; a module `sm` or `sm_call` under `use_aliases`,
  `T0` beside generic functions, or `S`, which the methods have as a type parameter
  (`tx_ext.rs:52`); functions `f` of a module `a__b` and `b__f` of `a`, whose methods
  have one name; a datatype `TxExt` in the root. With `flatten`: `emit_reexports`;
  `use_aliases` and two modules; with `emit_tx_ext` a datatype `S` in a signature
  (`types.rs:1223`) or a parameter `f` of `f`; and all modules share what they define and
  take. A module with the name of a type of the root, of one that the root takes from
  Rust, or of a reexported datatype. Names that Rust cannot escape (`crate`, `self`,
  `super`, `Self`) panic in `ident` unless they are parameters, those of fields and
  variants included. A module `mod` overwrites or is overwritten by the root of its
  directory.
* `render_package_split` does not remove the files of modules that are gone.
* `publish-crates.sh` counts how many names exist and not whose they are (line 95): if
  all are taken, some by others, it begins and stops when half is published.

## What is proved

For any sets of ids, threads, packages and requests and any bounds:

* `SubmissionProofs`, first about `Cursor`. Inductive invariant `IInv`: the types; `ChainInv`, versions
  grow along the ledger and every patch describes its transaction; and `Knows`
  for each id, which relates the cell to the states up to `seen[id]` and is what
  makes `ReferenceIsLatestLearned` inductive: a cell's version is never above
  that of the state last seen, and equal to it when that state is live, so an
  older answer cannot raise or lower it. It gives
  `PatchesDescribeTransactions`, `ReferenceIsLatestLearned`,
  `ReferenceNeverRegresses` and `CommitCatchesUp` without any assumption on the
  environment, and, as no cell has a version above the present one of its object,
  `RefreshRepairs`. `Exact`, inductive under `MonotonicReads` and `OrderedSync`, gives
  `RemembersLatestLearned`, `OwnerBelongsToReference`, `GoneHandlesAreRefused`
  and `CurrentHandlesConvert`. `PatchIsFaithful` is the statement about
  `from_effects` alone.
* `SubmissionProofs`, then about `Submission`. `SubmissionSpec` implements `Cursor!Spec`: the answer to a
  commit is a `SyncTransaction` of its own transaction, and one in the order of
  execution. The invariant adds that a submission in flight has its place in the
  ledger after everything the cursor has seen (`NothingLater`), true because
  `commit` holds the runtime and nothing else teaches the cursor meanwhile. Then
  `ReceiptEffectsAreApplied`, `ObservedFinalityIsTrue` and `SubmissionTypeOK`.
* `HandlesProofs`. `StampsOrdered`: no cell has a tombstone settled by a later
  update than its owner, nor an owner later than its reference, because that is
  the order of the writes; a conversion reads in the opposite order
  (`ReadingInv`), hence `ArgumentsLookForward`. `RemovedFirst` and `RemovedInv`:
  while a tombstone of a patch is still to be set no reference of it is out, and
  a removed object stays tombstoned until a later update brings it back, hence
  `RemovedBeforeWritten`. `GivenInv` with the guard of `set_reference` gives
  `ReferencesGoForward`. `WholeInv`: what is left of the patch, applied at once to the
  cells as they are, gives the table that the patch would have made of them at once; the
  upsert in hand may have a part of its fields written, and writing them again changes
  nothing. So `UpdatesEndWhole`: one field after the other comes to the atomic
  `apply_patch` of `Cells`, which `Cursor` has.
* `PtbProofs`. `push_input` keeps any table well formed (`PushInputWell`): no
  duplicates, no entry moved, no access taken back or given unasked. It makes
  `InputsAreDistinct`, `GrantsHold`, `AccessWasAskedFor`, `ArgumentsReferBack` and
  `CallsGetTheirArguments` parts of one inductive invariant, and each push one
  step of `InputTable` or none (`ImplementsInputTable`). `WithdrawalInv` says of the
  places of all calls that two withdrawals have different indices; a new one is appended
  behind all that were given out, hence `WithdrawalsAreNotShared`.
* `PublicationProofs`. For any number of overlapping runs. `ProgressInv`: every crate
  behind a run is listed and, when it may not skip, its own; so a run that finishes has
  a whole release, and what a crate needs, being earlier in `packages`, is listed
  before it. `ElectionInv`: whoever published a crate without being allowed to skip
  published the first one, which one run only can have done (`OnlyResumesContinue`).
  `NamesInv` says what the count has told so far and that, with names taken in part, a
  run that may not skip does not get past the checks (`NoTakers`).
* `BindingsProofs`. For any packages, upgrades, sources and order of the datatypes.
  `Unused` finds a name, since a finite set does not hold all of more names than it has
  members; with `CallInv`, that the names in use are the arguments' own, it gives
  `RustNamesAreDistinct`. `PackageInv` says that whatever versions are published refer to
  what came no later (`ChainInv`), and that the package in hand is the fetched one with
  every address rewritten by one map (`RewriteInv`); `ExternalInv`, that the table of
  external types has of every registered version its datatypes under both their
  addresses, with the abilities they have on chain. Then
  `ArgumentsAreWhatTheChainTakes` and `KnownDatatypesAreFound`. `NamesInv` has every name
  read so far from a file that was readable (`NamesComeFromTheirSource`); `CopyInv` has a
  datatype in `copies` only if its shape earns it, and all that earn it there once a pass
  changed nothing (`CopiesAreExact`). `replace_addresses` takes any map from its caller;
  what is said of the chain holds for maps that keep an address in its package
  (`RewritingsKeepPackages`), and that datatypes are found for those that lead to the
  first version (`RewritingsToFirst`). Nothing in the code enforces either: both are
  hypotheses of the theorems, and `InstanceRewrites` has TLC see that the checked
  instance meets them.
* `LayoutProofs`. For any packages, options and number of renderings. No file is from a
  rendering that has not begun (`FilesInv`), and while a package is written each of its
  modules is in `todo` or has a file of the present rendering, none being in `todo` when
  `mod.rs` follows (`WritingInv`); so `RootIsWrittenLast`, wherever a rendering breaks off.
  `CrateResolves` is about the generator as a function: for each obstacle, two items that
  clash, a path that leads nowhere, an item that hides a name of Rust or a binder that
  hides an item (`DatatypeObstructs` to `FlatObstructs`); without obstacles, what items of
  a scope have one name, scope by scope, where each path leads and what could be hidden
  (`ModuleResolves`, `NestedRootResolves`, `FlatRootResolves`, `MethodsResolve`).
  `DirectoryInv`, that the files written so far are the modules' sources, and `OutputInv`
  then give `SourcesResolve` for directories too, whatever was in them.
* `MarkersProofs`. For any datatypes, nested in any way over any types of finite height,
  and any functions: the type invariant and all six properties of the run. The argument
  has four parts.
  First, recursion: the functions on types satisfy the equations they are defined by
  (`Recursion`, from the existence of a least height at which they would not), and with
  that, whatever is said of all types is proved of a lowest one that violates it. So
  `SubstWellFormed` and `SubstTwice`, what becomes of well-formedness and abilities when
  parameters are replaced; `FieldsHave`, that the fields of a type with an ability have
  what it needs.
  Second, in a crate that is whole (`Crate`) rustc's search ends, for the bounds of an
  impl lie below the type it is for (`CrateFounded`), and `StructHolds`, `EnumHolds` and
  `OtherHolds` say exactly what each trait comes to. `CoveredMarked`: under bounds that
  cover what is given of the parameters, a type has the markers of its abilities. Hence
  `MarkersCoverAbilities`, `BuildersCompile` and, with what a builder collects
  (`CollectedHave`: each bound it asks for, a legal call satisfies),
  `LegalCallsAreAccepted`. In the other direction `CountedHave`, that the parameters
  which count in a field with an ability have it too, gives `MarkersAreEarned` and
  `AcceptedCallsAreLegal`.
  Third, what rustc checks of each impl: `ParameterClone`, `StructCompiles`,
  `EnumMarkerCompiles` and `EnumCloneCompiles` reduce each to one of the obstacles;
  `ImplsCompile` puts them together, as whether `Clone` holds of a field depends on what
  the enums of the whole crate ask of their parameters (`CopiedParameters`).
  Fourth, the states. `IInv`: what has been published is valid, and attributes, impls and
  errors are at all times those of the datatypes that were rendered (`Written`) and
  expanded (`Expanded`), in the order of the modules, and none else; so at the end there
  is a `Crate` unless the macro refused something, which it does for `key` and `copy` on
  a parameter only (`RefusedParameters`). `CompilesUnlessObstructed` follows (`Verdict`).
* `PackageScopeProofs`. Each slot holds what the frames left in it and each guard
  what the frames before it left (`SavedInv`); so every lookup answers as the
  innermost scope, and the thread locals implement `ScopeStack`.

Assumptions, all named in the module that declares the constants and evaluated
by TLC: `NoneAssumption`, `NoneIsNoValue`, `CellAssumption`, `ScopeAssumption` and
`CallArgAssumption` (`None` is not a value), `ChainAssumption`,
`CursorAssumption`, `SubmissionAssumption`, `HandlesAssumption`,
`BuilderAssumption` (types of the constants; specs are those generated code can
build), `PublicationAssumption`, `NameOwnersAssumption`, `NamesAssumption`, `InterfaceAssumption`,
`BindingsAssumption`, `LayoutAssumption` and `RootAssumption` (which names the source
text of the root has and which it has not), `UniverseAssumption` (types are written with
types of less height) and `MarkersAssumption` (types of the constants; every datatype is
in `Order`; the fields of a type are of less height; a function applied to samples has
types of `Universe`). The last two ask one height of all `Shapes` of the datatypes: of
shapes that would contain each other the theorems speak in instances apart, and as any
one package has a height they cover every package.

Only model-checked: `GenerationEnds` and `RunsEnd`, for liveness,
fairness and ENABLED are out of the prover's reach. So is induction with an operator as
a parameter; where a definition is recursive, the proofs go by least counterexamples
instead. Every invariant and action property of the passing runs is stated by a theorem.

## What is not modelled

* `simulate` and `inspect`: they change nothing. Which coin pays for gas: the
  node decides whether it may; a refusal is `ReturnExecuteError`.
* Handles made before `with_cursor_snapshot` replaces the cursor, and handles of
  a runtime that is gone: they keep their cells and nothing advances them.
* Bytes: BCS, digests, signatures, type tags and identifiers of targets.
* In the generator: malformed metadata (each error ends the fetch and leaves
  nothing), JSON, the paths of builtin types, and the constructors and conversions
  made for known framework types (`UID`, `Table`, `Option` and their like, most of
  `render/types.rs`): token templates, each for one type, without a choice. The names
  they take from Rust are in `Layout` (`takes`).
* Formatting and wording of generated code, documentation and error messages.
* In the macro: the syntax of its attribute, serde attributes, tags and addresses.
* In the Move types: type tags and the tag check of a decode, which compare data.
* `check-packages.sh`, which only looks at archives.

## Plan

In the order in which the behaviour they cover matters:

1. done: `Effects`, `Chain`, `Cells`, `Cursor` and its proof;
   `CallArgs`, `InputTable`, `PtbBuilder` with `PtbProofs`; `Submission` and
   `Handles` with their proofs; `PackageScope`, `ScopeStack` and their proof;
   `ParameterNames`, `Interface` and `Bindings`; `Publication` and its proof;
   `MoveTypes`, `Markers`; `Layout` and its proof.
2. done: `BindingsProofs`; `WithdrawalsAreNotShared`, `UpdatesEndWhole` and
   `SourcesResolve`; `MarkersProofs`. No safety property of a passing run is without a
   theorem.
3. Proofs still worth having: that `Handles` implements the table operations of `Cells`
   step by step, with `whole` for the cells; for `Markers`, which where clauses would make
   `FullyAble` and `AllCount` unnecessary.
4. The tag check of `sui-move/src/decode.rs` under the origins of `PackageScope`.
