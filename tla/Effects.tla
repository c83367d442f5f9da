------------------------------- MODULE Effects -------------------------------
(***************************************************************************)
(* Transaction effects and the patch the runtime derives from them         *)
(* (sui-move-runtime/src/effects.rs).  A reference is reduced to its       *)
(* version: on one chain the version of an object determines its digest.   *)
(* Maps keyed by object id are total functions on Ids that are None where  *)
(* the program's map has no entry.                                         *)
(***************************************************************************)
EXTENDS Integers

CONSTANTS Ids,   \* object ids
          None   \* the absent value of an option or of a map entry

OwnerKind == {"Immutable", "Address", "Object", "Shared", "ConsensusAddress", "Unknown"}

\* The kinds that carry a start version.
SharedLike == {"Shared", "ConsensusAddress"}

Owner == [kind : OwnerKind, start : Nat]

TombstoneReason == {"Deleted", "Wrapped", "UnwrappedThenDeleted", "NotExist"}

\* An object reference with the owner the effects give it, if they give one.
Upsert == [version : Nat, owner : Owner \cup {None}]

EffectsPatch == [upserts    : [Ids -> Upsert \cup {None}],
                 tombstones : [Ids -> TombstoneReason \cup {None}]]

-----------------------------------------------------------------------------
(* The two wire formats.                                                   *)

Refs == [Ids -> [version : Nat, owner : Owner] \cup {None}]

EffectsV1 == [format : {"V1"},
              created : Refs, mutated : Refs, unwrapped : Refs, gas_object : Refs,
              deleted : SUBSET Ids, unwrapped_then_deleted : SUBSET Ids,
              wrapped : SUBSET Ids]

\* One entry of changed_objects; version is the package version of a PackageWrite.
ChangedObject == [output : {"ObjectWrite", "PackageWrite", "NotExist"},
                  id_operation : {"None", "Created", "Deleted"},
                  owner : Owner \cup {None}, version : Nat]

EffectsV2 == [format : {"V2"}, lamport_version : Nat,
              changed : [Ids -> ChangedObject \cup {None}]]

ASSUME NoneAssumption ==
  None \notin Owner \cup Upsert \cup TombstoneReason \cup ChangedObject

-----------------------------------------------------------------------------
(* patch_from_v1 *)

\* Entries of refs replace those of out that have a lower version.
ExtendV1Upserts(out, refs) ==
  [id \in Ids |->
     IF refs[id] = None \/ (out[id] # None /\ out[id].version >= refs[id].version)
       THEN out[id]
       ELSE refs[id]]

\* Mutant of V1Tombstone: only the deleted list is read.
V1DeletedOnly(fx, id) == IF id \in fx.deleted THEN "Deleted" ELSE None

\* Later insertions win: wrapped over unwrapped_then_deleted over deleted.
V1Tombstone(fx, id) ==
  IF id \in fx.wrapped THEN "Wrapped"
  ELSE IF id \in fx.unwrapped_then_deleted THEN "UnwrappedThenDeleted"
  ELSE IF id \in fx.deleted THEN "Deleted" ELSE None

PatchFromV1(fx) ==
  LET empty  == [id \in Ids |-> None]
      merged == ExtendV1Upserts(
                  ExtendV1Upserts(
                    ExtendV1Upserts(
                      ExtendV1Upserts(empty, fx.created), fx.mutated),
                    fx.unwrapped),
                  fx.gas_object)
  IN  [upserts |-> merged, tombstones |-> [id \in Ids |-> V1Tombstone(fx, id)]]

-----------------------------------------------------------------------------
(* patch_from_v2 *)

V2ChangeToUpsert(change, lamport_version) ==
  CASE change.output = "ObjectWrite"  -> [version |-> lamport_version, owner |-> change.owner]
    [] change.output = "PackageWrite" -> [version |-> change.version, owner |-> None]
    [] OTHER                          -> None

\* Reached only when the change is no upsert.  The output state is tested
\* before the id operation, so a deletion reports NotExist.
V2ChangeToTombstoneReason(change) ==
  CASE change.output = "NotExist"            -> "NotExist"
    [] /\ change.output # "NotExist"
       /\ change.id_operation = "Deleted"    -> "Deleted"
    [] OTHER                                 -> None

PatchFromV2(fx) ==
  LET upsert(id) == IF fx.changed[id] = None THEN None
                    ELSE V2ChangeToUpsert(fx.changed[id], fx.lamport_version)
      tombstone(id) == IF fx.changed[id] = None \/ upsert(id) # None THEN None
                       ELSE V2ChangeToTombstoneReason(fx.changed[id])
  IN  [upserts    |-> [id \in Ids |-> IF tombstone(id) # None THEN None ELSE upsert(id)],
       tombstones |-> [id \in Ids |-> tombstone(id)]]

FromEffects(fx) == IF fx.format = "V2" THEN PatchFromV2(fx) ELSE PatchFromV1(fx)
=============================================================================
