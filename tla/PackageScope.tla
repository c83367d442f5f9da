---------------------------- MODULE PackageScope ----------------------------
(***************************************************************************)
(* The scopes of a generated binding (sui-move-codegen, render/util.rs) on *)
(* one thread: two thread locals, the call package and the type scope,     *)
(* that the with_* functions set around a closure.  A guard on the stack   *)
(* puts back what was there when the closure returns or a panic leaves it. *)
(***************************************************************************)
EXTENDS Integers, Sequences

CONSTANTS Addresses,    \* package addresses
          Datatypes,    \* datatypes, by module and name
          CallPackage,  \* CALL_PACKAGE
          TypePackage,  \* TYPE_PACKAGE
          None,         \* Option::None
          Origins,      \* the exact origins with_type_origins is given
          MaxDepth      \* bound on the closures that run inside one another

TypeScope == [fallback : Addresses, origins : [Datatypes -> Addresses \cup {None}]]

ASSUME ScopeAssumption ==
  /\ CallPackage \in Addresses /\ TypePackage \in Addresses
  /\ None \notin Addresses \cup TypeScope
  /\ {"call", "type"} \cap Datatypes = {}
  /\ Origins \subseteq [Datatypes -> Addresses \cup {None}]
  /\ MaxDepth \in Nat

VARIABLES callOverride,  \* CALL_PACKAGE_OVERRIDE
          typeScope,     \* TYPE_SCOPE_OVERRIDE
          frames,        \* the with_* calls on the stack: what they set and what was there
          unwinding      \* whether a panic is on its way up

vars == <<callOverride, typeScope, frames, unwinding>>

NoOrigins == [datatype \in Datatypes |-> None]

-----------------------------------------------------------------------------
(* Lookups *)

call_package == IF callOverride = None THEN CallPackage ELSE callOverride

type_package == IF typeScope = None THEN TypePackage ELSE typeScope.fallback

type_package_for(datatype) ==
  IF typeScope # None /\ typeScope.origins[datatype] # None
    THEN typeScope.origins[datatype] ELSE type_package

-----------------------------------------------------------------------------
(* with_*: a step is what runs without any code of the caller in between.  *)

Override(slot, value) == IF value = None THEN slot ELSE value

\* A frame sets the call package, the type scope or, for the nested calls of
\* with_packages and with_package_context, both.
Enter(package, scope) ==
  /\ ~unwinding
  /\ Len(frames) < MaxDepth
  /\ frames' = Append(frames, [call |-> package, type |-> scope,
                               previousCall |-> callOverride, previousType |-> typeScope])
  /\ callOverride' = Override(callOverride, package)
  /\ typeScope' = Override(typeScope, scope)
  /\ UNCHANGED unwinding

WithCallPackage == \E package \in Addresses : Enter(package, None)

WithTypeOrigins == \E fallback \in Addresses, origins \in Origins :
                     Enter(None, [fallback |-> fallback, origins |-> origins])

WithTypePackage == \E package \in Addresses :
                     Enter(None, [fallback |-> package, origins |-> NoOrigins])

WithPackages == \E callPackage, typePackage \in Addresses :
                  Enter(callPackage, [fallback |-> typePackage, origins |-> NoOrigins])

WithPackageContext ==
  \E callPackage, fallback \in Addresses, origins \in Origins :
    Enter(callPackage, [fallback |-> fallback, origins |-> origins])

-----------------------------------------------------------------------------
(* The end of a closure *)

\* Mutant of Reset: the overrides are cleared.
ResetToDefault(frame) ==
  /\ callOverride' = IF frame.call = None THEN callOverride ELSE None
  /\ typeScope' = IF frame.type = None THEN typeScope ELSE None
\* Drop for Reset, of the guards the frame has.
Reset(frame) ==
  /\ callOverride' = IF frame.call = None THEN callOverride ELSE frame.previousCall
  /\ typeScope' = IF frame.type = None THEN typeScope ELSE frame.previousType

Leave ==
  /\ frames # <<>>
  /\ Reset(frames[Len(frames)])
  /\ frames' = SubSeq(frames, 1, Len(frames) - 1)
  /\ UNCHANGED unwinding

Return == ~unwinding /\ Leave

Unwind == unwinding /\ Leave

Panic == ~unwinding /\ unwinding' = TRUE /\ UNCHANGED <<callOverride, typeScope, frames>>

\* catch_unwind between any two closures, or in the thread pool that called the first.
Catch == unwinding /\ unwinding' = FALSE /\ UNCHANGED <<callOverride, typeScope, frames>>

-----------------------------------------------------------------------------

Init == callOverride = None /\ typeScope = None /\ frames = <<>> /\ unwinding = FALSE

Next == \/ WithCallPackage \/ WithTypeOrigins \/ WithTypePackage
        \/ WithPackages \/ WithPackageContext
        \/ Return \/ Unwind \/ Panic \/ Catch

Spec == Init /\ [][Next]_vars

-----------------------------------------------------------------------------
(* Properties *)

Frame == [call : Addresses \cup {None}, type : TypeScope \cup {None},
          previousCall : Addresses \cup {None}, previousType : TypeScope \cup {None}]

TypeOK ==
  /\ callOverride \in Addresses \cup {None}
  /\ typeScope \in TypeScope \cup {None}
  /\ frames \in Seq(Frame)
  /\ unwinding \in BOOLEAN

Questions == {"call", "type"} \cup Datatypes

\* What the arguments of a with_* call say about each question.
Says(frame) ==
  [question \in Questions |->
     IF question = "call" THEN frame.call
     ELSE IF frame.type = None THEN None
     ELSE IF question = "type" \/ frame.type.origins[question] = None THEN frame.type.fallback
     ELSE frame.type.origins[question]]

Lookup(question) ==
  CASE question = "call" -> call_package
    [] question = "type" -> type_package
    [] OTHER             -> type_package_for(question)

\* The thread locals as a stack of scopes.
Scopes ==
  INSTANCE ScopeStack
    WITH Default <- [question \in Questions |-> IF question = "call" THEN CallPackage
                                                                     ELSE TypePackage],
         scopes  <- [i \in DOMAIN frames |-> Says(frames[i])],
         answers <- [question \in Questions |-> Lookup(question)]

\* Two slots and the values guards keep on the stack behave as a stack of scopes: at any
\* depth, after any returns, panics and catches, the innermost open scope answers, and a
\* thread that has left every scope finds the constants of the binding
\* ("The previous type scope is restored when the closure returns or unwinds").
ImplementsScopeStack == Scopes!Spec
=============================================================================
