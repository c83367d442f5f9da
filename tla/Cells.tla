------------------------------- MODULE Cells -------------------------------
(***************************************************************************)
(* The cells behind the handles of sui-move-runtime (handles.rs): what     *)
(* each cursor operation does to the table of cells, and how a handle      *)
(* becomes a call argument.  A table is a total function on Ids that is    *)
(* None where the cursor tracks nothing.                                   *)
(***************************************************************************)
EXTENDS Effects

\* An ObjectCell: reference, owner and tombstone, None while there is no tombstone.
ObjectCell == [version : Nat, owner : Owner, tombstone : TombstoneReason \cup {None}]

ASSUME CellAssumption == None \notin ObjectCell

Untracked == [id \in Ids |-> None]

-----------------------------------------------------------------------------
(* Cell and cursor operations *)

NewCell(version, owner) == [version |-> version, owner |-> owner, tombstone |-> None]

\* Mutant of SetReference: the last answer wins.
SetReferenceAlways(cell, version) == [cell EXCEPT !.version = version]

\* A reference older than the cell's is dropped.
SetReference(cell, version) ==
  IF version >= cell.version THEN [cell EXCEPT !.version = version] ELSE cell

\* Mutant of InternCell: an object that is back stays tombstoned.
InternCellTombstoned(table, id, version, owner) ==
  [table EXCEPT ![id] = IF @ = None THEN NewCell(version, owner)
                        ELSE [SetReference(@, version) EXCEPT !.owner = owner]]

InternCell(table, id, version, owner) ==
  [table EXCEPT ![id] =
     IF @ = None THEN NewCell(version, owner)
     ELSE [SetReference(@, version) EXCEPT !.owner = owner, !.tombstone = None]]

TombstoneId(table, id, reason) ==
  [table EXCEPT ![id] = IF @ = None THEN None ELSE [@ EXCEPT !.tombstone = reason]]

ApplyUpsertTombstoned(cell, upsert) ==
  [SetReference(cell, upsert.version) EXCEPT
     !.owner = IF upsert.owner = None THEN @ ELSE upsert.owner]

ApplyUpsert(cell, upsert) ==
  [SetReference(cell, upsert.version) EXCEPT
     !.owner = IF upsert.owner = None THEN @ ELSE upsert.owner,
     !.tombstone = None]

ApplyPatch(table, patch) ==
  [id \in Ids |->
     IF table[id] = None THEN None
     ELSE IF patch.tombstones[id] # None
       THEN [table[id] EXCEPT !.tombstone = patch.tombstones[id]]
     ELSE IF patch.upserts[id] # None THEN ApplyUpsert(table[id], patch.upserts[id])
     ELSE table[id]]

-----------------------------------------------------------------------------
(* Handle to call argument *)

\* Mutant of ToCallArg: a shared input starts at the version of the reference.
ToCallArgFromReference(cell, mutability) ==
  CASE cell.tombstone # None -> [arg |-> "Tombstoned"]
    [] cell.tombstone = None /\ cell.owner.kind \in {"Immutable", "Address"}
         -> [arg |-> "ImmutableOrOwned", version |-> cell.version]
    [] cell.tombstone = None /\ cell.owner.kind \in SharedLike
         -> [arg |-> "Shared", start |-> cell.version, mutability |-> mutability]
    [] OTHER -> [arg |-> "ObjectKind"]

\* Outcomes of ToCallArg / ToCallArgMut on Object<T>.
ToCallArg(cell, mutability) ==
  CASE cell.tombstone # None -> [arg |-> "Tombstoned"]
    [] cell.tombstone = None /\ cell.owner.kind \in {"Immutable", "Address"}
         -> [arg |-> "ImmutableOrOwned", version |-> cell.version]
    [] cell.tombstone = None /\ cell.owner.kind \in SharedLike
         -> [arg |-> "Shared", start |-> cell.owner.start, mutability |-> mutability]
    [] OTHER -> [arg |-> "ObjectKind"]

\* ToCallArg on ReceivingObject<T>.
ReceivingArg(cell) ==
  CASE cell.tombstone # None -> [arg |-> "Tombstoned"]
    [] cell.tombstone = None /\ cell.owner.kind = "Address"
         -> [arg |-> "Receiving", version |-> cell.version]
    [] OTHER -> [arg |-> "ObjectKind"]

-----------------------------------------------------------------------------
(* Snapshots *)

\* Mutant of FromSnapshot: tombstones are not restored.
FromSnapshotLive(snapshot) ==
  [id \in Ids |-> IF snapshot[id] = None THEN None
                  ELSE NewCell(snapshot[id].version, snapshot[id].owner)]

\* from_snapshot: a fresh cell for each object, tombstoned again if it was.
FromSnapshot(snapshot) ==
  [id \in Ids |->
     IF snapshot[id] = None THEN None
     ELSE LET cell == NewCell(snapshot[id].version, snapshot[id].owner) IN
          IF snapshot[id].tombstone = None THEN cell
          ELSE [cell EXCEPT !.tombstone = snapshot[id].tombstone]]
=============================================================================
