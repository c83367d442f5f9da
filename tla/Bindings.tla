------------------------------ MODULE Bindings ------------------------------
(***************************************************************************)
(* The bindings generator, sui-move-codegen, from published packages to    *)
(* the builders it renders.  Packages are published and upgraded; then a   *)
(* build registers external packages, fetches the interface of one version *)
(* of a package, perhaps rewrites its addresses, lays source names over    *)
(* its parameters and renders it: the Copy fixpoint, the call builders and *)
(* the TxExt methods, a parameter at a time.                               *)
(***************************************************************************)
EXTENDS Interface

CONSTANTS Shapes,         \* Shapes[id]: the definitions of a datatype, without its origin
          Directories,    \* source directories: sets of files with what is parsed of them
          Replacements,   \* the rewritings of addresses tried
          MaxRegistered,  \* bound on the external packages registered
          Order           \* the datatypes in the order of the package's modules

\* A datatype as the version that adds it has it.
AddedBy(version, shape) ==
  [origin |-> version, key |-> shape.key, copy |-> shape.copy,
   generic |-> shape.generic, fields |-> shape.fields]

ASSUME BindingsAssumption ==
  /\ \A id \in Id : \A shape \in Shapes[id] : AddedBy(1, shape) \in Definition
  /\ \A directory \in Directories : \A file \in directory :
       file.readable => \A f \in DOMAIN file.names : file.names[f] \in Seq(Name)
  /\ \A replacement \in Replacements :
       DOMAIN replacement \subseteq Address /\ \A a \in DOMAIN replacement : replacement[a] \in Address
  /\ MaxRegistered \in Nat
  /\ Order \in Seq(Names) /\ \A n \in Names : \E j \in DOMAIN Order : Order[j] = n

VARIABLES head,        \* head[p]: the newest version of package p, 0 before it is published
          defs,        \* defs[id]: what is published of a datatype, or None
          since,       \* since[f]: the version that added function f, 0 before
          registered,  \* the interfaces registered, by package, version and Rust path
          external,    \* RenderOptions::external_types
          generated,   \* the package and version fetched, or None
          package,     \* the NormalizedPackage, or None
          phase,       \* what the generator is at
          files,       \* source files still to be read
          names,       \* parameter names read so far, by function
          at,          \* the position of the loop that runs
          changed,     \* the flag of rust_copy_type_keys
          copies,      \* its copy_types
          call         \* the builder or method being rendered, or None

chain == <<head, defs, since>>
options == <<registered, external>>
interface == <<generated, package>>
reading == <<files, names>>
fixpoint == <<changed, copies>>
vars == <<chain, options, interface, phase, reading, at, fixpoint, call>>

-----------------------------------------------------------------------------
(* Published packages.  They are immutable and fetched by version, so      *)
(* nothing is lost by publishing before the build begins.                  *)

Published(id, all) == all[id] # None

References(fields) == {t.id : t \in {f \in fields : f.type = "Datatype"}}

\* Move refuses recursive datatypes.
Acyclic(all) ==
  \A ids \in (SUBSET Id) \ {{}} :
    (\A id \in ids : Published(id, all)) =>
      \E id \in ids : References(all[id].fields) \cap ids = {}

\* A new version adds datatypes, and the functions whose types are all there.
Publish(p) ==
  /\ phase = "idle" /\ package = None /\ registered = {}
  /\ head[p] < Versions[p]
  /\ \E new \in SUBSET {id \in Id : id.package = p /\ ~Published(id, defs)} :
       \E shape \in [new -> UNION {Shapes[id] : id \in new}] :
         LET all == [id \in Id |-> IF id \in new THEN AddedBy(head[p] + 1, shape[id])
                                   ELSE defs[id]] IN
         /\ \A id \in new : shape[id] \in Shapes[id]
         /\ \A id \in new : \A other \in References(shape[id].fields) : Published(other, all)
         /\ Acyclic(all)
         /\ defs' = all
         /\ since' = [f \in DOMAIN since |->
                        IF /\ since[f] = 0 /\ Signature[f].package = p
                           /\ \A i \in DOMAIN Signature[f].parameters :
                                LET ty == Signature[f].parameters[i] IN
                                ty.type = "Datatype" => Published(ty.id, all)
                          THEN head[p] + 1 ELSE since[f]]
  /\ head' = [head EXCEPT ![p] = @ + 1]
  /\ UNCHANGED <<options, interface, phase, reading, at, fixpoint, call>>

-----------------------------------------------------------------------------
(* The interface *)

\* The options do not depend on the interface rendered with them: they are filled first.
AddExternalPackage ==
  /\ phase = "idle" /\ package = None
  /\ Cardinality(registered) < MaxRegistered
  /\ \E p \in Packages, root \in Roots : \E v \in 1..head[p] :
       /\ registered' = registered \cup {[package |-> p, version |-> v, root |-> root]}
       /\ external' = add_external_package(external, normalize_package(p, v, defs, since), root)
  /\ UNCHANGED <<chain, interface, phase, reading, at, fixpoint, call>>

FetchPackage ==
  /\ phase = "idle" /\ package = None
  /\ \E p \in Packages : \E v \in 1..head[p] :
       /\ generated' = [package |-> p, version |-> v]
       /\ package' = normalize_package(p, v, defs, since)
  /\ UNCHANGED <<chain, options, phase, reading, at, fixpoint, call>>

ReplaceAddresses ==
  /\ phase = "idle" /\ package # None
  /\ \E replacements \in Replacements : package' = Replaced(package, replacements)
  /\ UNCHANGED <<chain, options, generated, phase, reading, at, fixpoint, call>>

-----------------------------------------------------------------------------
(* apply_function_parameter_names_from_sources *)

ReadSources ==
  /\ phase = "idle" /\ package # None
  /\ files' \in Directories
  /\ names' = <<>>
  /\ phase' = "reading"
  /\ UNCHANGED <<chain, options, interface, at, fixpoint, call>>

\* read_dir lists the files in any order; the error of one file drops the names of all.
ReadFile ==
  /\ phase = "reading"
  /\ \E file \in files :
       IF file.readable
         THEN /\ names' = [f \in DOMAIN names \cup DOMAIN file.names |->
                             IF f \in DOMAIN file.names THEN file.names[f] ELSE names[f]]
              /\ files' = files \ {file}
              /\ UNCHANGED phase
         ELSE names' = <<>> /\ files' = {} /\ phase' = "idle"
  /\ UNCHANGED <<chain, options, interface, at, fixpoint, call>>

AllRead ==
  /\ phase = "reading" /\ files = {}
  /\ IF DOMAIN names = {} THEN phase' = "idle" /\ UNCHANGED at
                          ELSE phase' = "overlay" /\ at' = 1
  /\ UNCHANGED <<chain, options, interface, reading, fixpoint, call>>

\* Mutant of Mismatch: the counts are not compared, and missing names stay as they are.
MismatchNever(f) == FALSE

\* The function has another number of parameters than its source.
Mismatch(f) == Len(package.functions[f]) # Len(names[f])

\* A function at a time; a mismatch leaves what was named before it.
OverlayFunction ==
  /\ phase = "overlay" /\ at <= Len(Functions)
  /\ LET f == Functions[at] IN
     IF f \notin DOMAIN package.functions \cap DOMAIN names
       THEN at' = at + 1 /\ UNCHANGED <<package, phase, names>>
     ELSE IF Mismatch(f)
       THEN at' = 0 /\ phase' = "idle" /\ names' = <<>> /\ UNCHANGED package
     ELSE /\ package' = [package EXCEPT !.functions[f] = Overlay(@, names[f])]
          /\ at' = at + 1
          /\ UNCHANGED <<phase, names>>
  /\ UNCHANGED <<chain, options, generated, files, fixpoint, call>>

OverlayEnds ==
  /\ phase = "overlay" /\ at > Len(Functions)
  /\ phase' = "idle" /\ at' = 0 /\ names' = <<>>
  /\ UNCHANGED <<chain, options, interface, files, fixpoint, call>>

-----------------------------------------------------------------------------
(* rust_copy_type_keys.  The code computes it again for every datatype it   *)
(* renders; nothing it reads has changed, so here it is computed once.     *)

Datatypes == DOMAIN package.datatypes

BeginRender ==
  /\ phase = "idle" /\ package # None
  /\ phase' = "copy" /\ at' = 1 /\ changed' = FALSE /\ copies' = {}
  /\ UNCHANGED <<chain, options, interface, reading, call>>

\* Mutants of NextPass: one pass is enough; the flag is not cleared.
NextPassNever == phase' = "calls" /\ UNCHANGED changed
NextPassChanged ==
  IF changed THEN UNCHANGED <<phase, changed>> ELSE phase' = "calls" /\ UNCHANGED changed

\* A pass that changed nothing is the last.
NextPass ==
  IF changed THEN changed' = FALSE /\ UNCHANGED phase
             ELSE phase' = "calls" /\ UNCHANGED changed

\* One datatype of a pass, in the order of the modules.
CopyDatatype ==
  /\ phase = "copy" /\ at <= Len(Order)
  /\ LET n == Order[at] IN
     IF /\ n \in Datatypes
        /\ local_type_key(package.datatypes[n].type_name, package) \notin copies
        /\ datatype_has_rust_copy_shape(package.datatypes[n], package, copies)
       THEN /\ copies' = copies \cup {local_type_key(package.datatypes[n].type_name, package)}
            /\ changed' = TRUE
       ELSE UNCHANGED fixpoint
  /\ at' = at + 1
  /\ UNCHANGED <<chain, options, interface, phase, reading, call>>

CopyPassEnds ==
  /\ phase = "copy" /\ at > Len(Order)
  /\ NextPass
  /\ at' = 1
  /\ UNCHANGED <<chain, options, interface, reading, copies, call>>

-----------------------------------------------------------------------------
(* The call builders of the modules, then the methods of TxExt *)

Rendering == phase \in {"calls", "tx_ext"}

\* Only functions the package has and, here, all of them are public or entry.
BeginFunction ==
  /\ Rendering /\ call = None /\ at <= Len(Functions)
  /\ IF Functions[at] \in DOMAIN package.functions
       THEN call' = [next |-> 1, used |-> {}, args |-> <<>>] /\ UNCHANGED at
       ELSE at' = at + 1 /\ UNCHANGED call
  /\ UNCHANGED <<chain, options, interface, phase, reading, fixpoint>>

\* An argument as it is declared, and pushed by a call builder: by value, as an object, as a mutable object.
Argument(parameter, i, used) ==
  LET object == is_object_type(parameter.ty, package, external) IN
  [position |-> i,
   ident    |-> NextIdent(parameter.name, i, used),
   root     |-> PathRoot(parameter.ty, package, external),
   object   |-> object,
   mutable  |-> object /\ parameter.ty.mutable]

\* One round of the loop in render_params_and_pushes (calls) and in render_params_and_args
\* (tx_ext), which differ in how they write a path and in that the first has the pushes.
RenderParameter ==
  /\ Rendering /\ call # None
  /\ LET parameters == package.functions[Functions[at]] IN
     /\ call.next <= Len(parameters)
     /\ IF parameters[call.next].ty.type = "TxContext"
          THEN call' = [call EXCEPT !.next = @ + 1]
          ELSE LET arg == Argument(parameters[call.next], call.next, call.used) IN
               call' = [next |-> call.next + 1, used |-> call.used \cup {arg.ident},
                        args |-> Append(call.args, arg)]
  /\ UNCHANGED <<chain, options, interface, phase, reading, at, fixpoint>>

FunctionEnds ==
  /\ Rendering /\ call # None
  /\ call.next > Len(package.functions[Functions[at]])
  /\ call' = None /\ at' = at + 1
  /\ UNCHANGED <<chain, options, interface, phase, reading, fixpoint>>

RenderEnds ==
  /\ Rendering /\ call = None /\ at > Len(Functions)
  /\ IF phase = "calls" THEN phase' = "tx_ext" /\ at' = 1 /\ UNCHANGED copies
                        ELSE phase' = "idle" /\ at' = 0 /\ copies' = {}
  /\ UNCHANGED <<chain, options, interface, reading, changed, call>>

-----------------------------------------------------------------------------

Init ==
  /\ head = [p \in Packages |-> 0]
  /\ defs = [id \in Id |-> None]
  /\ since = [f \in DOMAIN Signature |-> 0]
  /\ registered = {} /\ external = <<>>
  /\ generated = None /\ package = None
  /\ phase = "idle" /\ files = {} /\ names = <<>>
  /\ at = 0 /\ changed = FALSE /\ copies = {} /\ call = None

Caller == \/ \E p \in Packages : Publish(p)
          \/ AddExternalPackage \/ FetchPackage \/ ReplaceAddresses
          \/ ReadSources \/ BeginRender

Generator == \/ ReadFile \/ AllRead \/ OverlayFunction \/ OverlayEnds
             \/ CopyDatatype \/ CopyPassEnds
             \/ BeginFunction \/ RenderParameter \/ FunctionEnds \/ RenderEnds

Next == Caller \/ Generator

\* The generator is sequential code: once called, it runs.
Spec == Init /\ [][Next]_vars /\ WF_vars(Generator)

-----------------------------------------------------------------------------
(* Properties *)

\* What the proofs of some ask of the replacements: they bring an address to another one
\* of the same package,
RewritingsKeepPackages ==
  \A r \in Replacements : \A a \in DOMAIN r : r[a].package = a.package

\* or to the one of its first version.
RewritingsToFirst ==
  \A r \in Replacements : \A a \in DOMAIN r : r[a] = [package |-> a.package, version |-> 1]

Args == IF call = None THEN {} ELSE {call.args[k] : k \in DOMAIN call.args}

\* The type in the Move source of the parameter an argument stands for.
SourceTypeOf(arg) == Signature[Functions[at]].parameters[arg.position]

IsDatatype(arg) == SourceTypeOf(arg).type = "Datatype"

\* Whatever names the sources and the network give the parameters, the Rust parameters of
\* a builder have names of their own, none of them a keyword that cannot be escaped
\* (ParameterIdents::next replaces one at a time and cannot see the names to come).
RustNamesAreDistinct ==
  call # None =>
    /\ \A j, k \in DOMAIN call.args :
         call.args[j].ident = call.args[k].ident => j = k
    /\ \A arg \in Args : ~ \E word \in Unrawable \cup {Underscore} : arg.ident = Plain(word)

\* However old the interfaces are that name it and at whichever of its addresses, a
\* datatype found is the one the Move source means, under the path of a package that has
\* it, and it is passed as an object, by &mut if the source says so, exactly if it has key
\* on chain (is_object_type looks the name up in another table than render_type_ref).
ArgumentsAreWhatTheChainTakes ==
  \A arg \in Args :
    IsDatatype(arg) /\ arg.root # None =>
      LET ty == SourceTypeOf(arg) IN
      /\ arg.object = defs[ty.id].key
      /\ arg.mutable = (defs[ty.id].key /\ ty.mutable)
      /\ \/ arg.root = Own /\ ty.id.package = generated.package
         \/ \E r \in registered : /\ r.package = ty.id.package /\ r.root = arg.root
                                 /\ r.version >= defs[ty.id].origin

\* A datatype of a registered interface is found in whatever version of that package its
\* name was taken, and one of the package itself if its first or its present version
\* added it.
KnownDatatypesAreFound ==
  \A arg \in Args :
    IsDatatype(arg) =>
      LET id == SourceTypeOf(arg).id IN
      \/ /\ id.package = generated.package => defs[id].origin \notin {1, generated.version}
         /\ \A r \in registered : r.package = id.package => r.version < defs[id].origin
      \/ arg.root # None

\* The name of a parameter is the one it was generated with or the one that some readable
\* source file, which gives its function as many parameters, has at its place, however
\* many directories were read, overlaid in part and read again.
NamesComeFromTheirSource ==
  package # None =>
    \A f \in DOMAIN package.functions :
      LET parameters == package.functions[f] IN
      \A i \in DOMAIN parameters :
        \/ parameters[i].name = Arg(i)
        \/ \E directory \in Directories : \E file \in directory :
             /\ file.readable /\ f \in DOMAIN file.names
             /\ Len(file.names[f]) = Len(parameters)
             /\ file.names[f][i] = parameters[i].name

\* When datatypes are rendered, those that derive Copy are exactly the ones all of whose
\* fields are scalars or datatypes found in the package that derive it too, in whatever
\* order the datatypes come: derive(Copy) compiles, and no datatype that might be Copy is
\* left out because it came first.
CopiesAreExact ==
  Rendering =>
    \A n \in Datatypes :
      LET def == defs[[package |-> generated.package, name |-> n]]
          local(id) == is_local_type(package.datatypes[id.name].type_name, package)
          IsCopy(id) == /\ id.package = generated.package
                        /\ local_type_key(package.datatypes[id.name].type_name, package) \in copies
      IN IsCopy([package |-> generated.package, name |-> n])
           = (/\ def.copy /\ ~def.generic /\ Vector \notin def.fields
              /\ \A id \in References(def.fields) : IsCopy(id) /\ local(id))

\* What the generator is called for it finishes.
GenerationEnds == (phase # "idle") ~> (phase = "idle")
=============================================================================
