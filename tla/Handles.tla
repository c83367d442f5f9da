------------------------------- MODULE Handles -------------------------------
(***************************************************************************)
(* Handles read while the cursor advances.  Object<T> is an Arc of a cell  *)
(* whose reference, owner and tombstone are under a lock each, so a thread *)
(* that converts a handle to an argument meets the writes of a commit, a   *)
(* sync or a read in another thread half done.  Module Cursor has each of  *)
(* those updates as one step of the whole table; here a step is what       *)
(* happens under one lock.                                                 *)
(***************************************************************************)
EXTENDS Cells, FiniteSets

CONSTANTS Readers,      \* threads that hold clones of the handles
          MaxUpdates,   \* bound on the cursor updates of a behaviour
          HandleOwners  \* the owners objects have in this instance

ASSUME HandlesAssumption ==
  MaxUpdates \in Nat /\ HandleOwners \subseteq Owner /\ None \notin Ids

VARIABLES cells,    \* every id is tracked
          todo,     \* the patch the update in progress still has to apply
          upserting,\* the id whose upsert it is in the middle of, or None
          step,     \* the position in UpdateOrder it has reached there
          reading,  \* reading[r] is the conversion reader r is in, or None
          updates,  \* history: the number of updates begun
          whole,    \* history: the table module Cursor has after the update in progress
          stamps,   \* history: the last update to settle each part of each cell
          removed,  \* history: removed[id] is the last update that tombstones id
          given     \* history: the last argument each reader obtained, or None

writerVars == <<cells, todo, upserting, step, updates, whole, stamps, removed>>
vars == <<writerVars, reading, given>>

NoPatch == [upserts |-> Untracked, tombstones |-> Untracked]

Writing == todo # NoPatch \/ upserting # None

-----------------------------------------------------------------------------
(* Updates: the runtime is borrowed by one of them at a time.              *)

Begin(patch, result) ==
  /\ ~Writing
  /\ updates < MaxUpdates
  /\ todo' = patch
  /\ whole' = result
  /\ updates' = updates + 1
  /\ removed' = [id \in Ids |-> IF patch.tombstones[id] # None THEN updates' ELSE removed[id]]
  /\ UNCHANGED <<cells, upserting, step, stamps, reading, given>>

\* The effects of update u give the objects they write version u + 1.
PatchOf(written, owners, gone, reasons) ==
  [upserts    |-> [id \in Ids |-> IF id \in written
                                  THEN [version |-> updates + 2, owner |-> owners[id]] ELSE None],
   tombstones |-> [id \in Ids |-> IF id \in gone THEN reasons[id] ELSE None]]

BeginPatch ==
  \E written, gone \in SUBSET Ids :
    /\ written \cap gone = {}
    /\ \E owners \in [written -> HandleOwners], reasons \in [gone -> {"Deleted", "Wrapped"}] :
         LET patch == PatchOf(written, owners, gone, reasons) IN
         Begin(patch, ApplyPatch(cells, patch))

\* A read interns what a full node answers, which may be older than the cell.
BeginIntern(id) ==
  \E version \in 1..(updates + 1), owner \in HandleOwners :
    Begin([NoPatch EXCEPT !.upserts[id] = [version |-> version, owner |-> owner]],
          InternCell(cells, id, version, owner))

BeginTombstone(id) ==
  Begin([NoPatch EXCEPT !.tombstones[id] = "NotExist"], TombstoneId(cells, id, "NotExist"))

-----------------------------------------------------------------------------
(* apply_patch, intern_cell and tombstone, one lock at a time.             *)

LockedBy(r, id) == reading[r] # None /\ reading[r].step = "locked" /\ reading[r].id = id

\* A writer waits for the readers that hold the owner of a cell.
OwnerFree(id) == \A r \in Readers : ~LockedBy(r, id)

\* Mutant of TombstonesFirst: the two loops of apply_patch in the other order.
TombstonesAnyTime == TRUE
TombstonesFirst == todo.tombstones = Untracked

SetTombstoneReason(id) ==
  /\ upserting = None
  /\ todo.tombstones[id] # None
  /\ cells' = [cells EXCEPT ![id].tombstone = todo.tombstones[id]]
  /\ todo' = [todo EXCEPT !.tombstones[id] = None]
  /\ UNCHANGED <<upserting, step, updates, whole, stamps, removed, reading, given>>

\* Mutant of UpdateOrder: the owner is written before the reference it belongs to.
OwnerFirst == <<"owner", "reference", "tombstone">>
UpdateOrder == <<"reference", "owner", "tombstone">>

\* The update is at that field of the upsert of id, the upserts in any order.
At(id, field) ==
  /\ TombstonesFirst
  /\ todo.upserts[id] # None
  /\ upserting \in {None, id}
  /\ UpdateOrder[step] = field

Settle(id, field) ==
  /\ stamps' = [stamps EXCEPT ![id][field] = updates]
  /\ IF step < 3
       THEN upserting' = id /\ step' = step + 1 /\ UNCHANGED todo
       ELSE upserting' = None /\ step' = 1 /\ todo' = [todo EXCEPT !.upserts[id] = None]
  /\ UNCHANGED <<updates, whole, removed, reading, given>>

WriteReference(id) ==
  /\ At(id, "reference")
  /\ cells' = [cells EXCEPT ![id] = SetReference(@, todo.upserts[id].version)]
  /\ Settle(id, "reference")

\* An upsert without an owner leaves it alone.
WriteOwner(id) ==
  /\ At(id, "owner")
  /\ OwnerFree(id)
  /\ cells' = [cells EXCEPT ![id].owner = IF todo.upserts[id].owner = None THEN @
                                          ELSE todo.upserts[id].owner]
  /\ Settle(id, "owner")

\* Mutant of ClearTombstone: the tombstone is left.
ClearNothing(id) == At(id, "tombstone") /\ UNCHANGED cells /\ Settle(id, "tombstone")

ClearTombstone(id) ==
  /\ At(id, "tombstone")
  /\ cells' = [cells EXCEPT ![id].tombstone = None]
  /\ Settle(id, "tombstone")

-----------------------------------------------------------------------------
(* to_call_arg and to_call_arg_mutable of Object and ReceivingObject       *)

\* ensure_not_tombstoned, which takes and releases its lock.
CheckTombstone(r, id) ==
  /\ reading[r] = None
  /\ IF cells[id].tombstone # None
       THEN /\ given' = [given EXCEPT ![r] = None]
            /\ UNCHANGED reading
       ELSE /\ reading' = [reading EXCEPT ![r] =
                 [id |-> id, step |-> "checked", cleared |-> stamps[id].tombstone]]
            /\ UNCHANGED given
  /\ UNCHANGED writerVars

\* The owner is read and its lock kept to the end of the conversion.
LockOwner(r) ==
  /\ reading[r] # None /\ reading[r].step = "checked"
  /\ LET id == reading[r].id IN
     reading' = [reading EXCEPT ![r] =
       [id |-> id, step |-> "locked", cleared |-> reading[r].cleared,
        owner |-> cells[id].owner, owned |-> stamps[id].owner]]
  /\ UNCHANGED <<writerVars, given>>

\* The reference is read if the kind of the owner needs it, and the lock released.
ReadReference(r) ==
  /\ reading[r] # None /\ reading[r].step = "locked"
  /\ LET id   == reading[r].id
         cell == NewCell(cells[id].version, reading[r].owner)
     IN  \E arg \in {ToCallArg(cell, "Immutable"), ToCallArg(cell, "Mutable"), ReceivingArg(cell)} :
           given' = [given EXCEPT ![r] =
             IF arg.arg = "ObjectKind" THEN None
             ELSE [id |-> id, arg |-> arg, cleared |-> reading[r].cleared,
                   owned |-> reading[r].owned, referenced |-> stamps[id].reference]]
  /\ reading' = [reading EXCEPT ![r] = None]
  /\ UNCHANGED writerVars

-----------------------------------------------------------------------------

Unsettled == [reference |-> 0, owner |-> 0, tombstone |-> 0]

Init ==
  /\ \E owners \in [Ids -> HandleOwners] : cells = [id \in Ids |-> NewCell(1, owners[id])]
  /\ todo = NoPatch /\ upserting = None /\ step = 1
  /\ reading = [r \in Readers |-> None]
  /\ updates = 0 /\ whole = cells
  /\ stamps = [id \in Ids |-> Unsettled]
  /\ removed = [id \in Ids |-> 0]
  /\ given = [r \in Readers |-> None]

Update == \/ BeginPatch
          \/ \E id \in Ids : \/ BeginIntern(id)
                             \/ BeginTombstone(id)
                             \/ SetTombstoneReason(id)
                             \/ WriteReference(id)
                             \/ WriteOwner(id)
                             \/ ClearTombstone(id)

Convert(r) == (\E id \in Ids : CheckTombstone(r, id)) \/ LockOwner(r) \/ ReadReference(r)

Next == Update \/ \E r \in Readers : Convert(r)

Spec == Init /\ [][Next]_vars

-----------------------------------------------------------------------------
(* Properties *)

Stamp == [reference : Nat, owner : Nat, tombstone : Nat]

TypeOK ==
  /\ cells \in [Ids -> ObjectCell]
  /\ todo \in EffectsPatch
  /\ upserting \in Ids \cup {None} /\ step \in 1..3
  /\ updates \in Nat
  /\ stamps \in [Ids -> Stamp]
  /\ removed \in [Ids -> Nat]
  /\ DOMAIN reading = Readers /\ DOMAIN given = Readers

\* Step by step or at once, an update leaves the table module Cursor says it leaves
\* (apply_patch, intern_cell, tombstone).
UpdatesEndWhole == ~Writing => cells = whole

\* An argument is never put together from an owner newer than its reference, nor from
\* a tombstone cleared by an update newer than its owner: a conversion that meets a
\* half done update may be ahead with its reference, never behind.
ArgumentsLookForward ==
  \A r \in Readers :
    given[r] # None => /\ given[r].cleared <= given[r].owned
                       /\ given[r].owned <= given[r].referenced

\* Reader r finds no tombstone and goes on to convert the handle of id.
Begins(r, id) == reading[r] = None /\ reading'[r] # None /\ reading'[r].id = id

\* A reader that already has the new reference of one object and then converts a handle
\* the same update tombstoned is refused it, unless a later update brought that object
\* back: container first, a call does not get the object wrapped into it as well.
\* Nothing is said of the other order, which the code allows: an object converted before
\* the update that removes it, and its container after.
RemovedBeforeWritten ==
  [][\A r \in Readers : \A id \in Ids :
       (Begins(r, id) /\ given[r] # None /\ removed[id] \in 1..given[r].referenced)
         => reading'[r].cleared > removed[id]]_vars

SameHandle(first, second) == first # None /\ second # None /\ first.id = second.id

HasReference(argument) == argument.arg.arg \in {"ImmutableOrOwned", "Receiving"}

\* No argument goes back: a later conversion of a handle by the same reader, in
\* between other updates, never has an older reference.
ReferencesGoForward ==
  [][\A r \in Readers :
       (SameHandle(given[r], given'[r]) /\ HasReference(given[r]) /\ HasReference(given'[r]))
         => given'[r].arg.version >= given[r].arg.version]_vars
=============================================================================
