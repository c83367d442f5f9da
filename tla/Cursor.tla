------------------------------- MODULE Cursor -------------------------------
(***************************************************************************)
(* The cursor of sui-move-runtime: the table of tracked objects behind     *)
(* every Object<T> and ReceivingObject<T> handle, advanced by the effects  *)
(* of commits and of synced digests, by typed reads, and carried across a  *)
(* restart by a snapshot.  One action is one method of Runtime, Read or    *)
(* Tx: they take &mut Runtime, so they never overlap.  What a concurrent   *)
(* reader of a handle can see between the writes of one method is the      *)
(* subject of module Handles.                                              *)
(***************************************************************************)
EXTENDS Chain, Cells

CONSTANTS MonotonicReads, \* BOOLEAN: full nodes never fall behind what the cursor knows
          OrderedSync     \* BOOLEAN: digests are synced in the order of execution

ASSUME CursorAssumption == MonotonicReads \in BOOLEAN /\ OrderedSync \in BOOLEAN

VARIABLES cells,      \* the objects the cursor tracks
          persisted,  \* the last snapshot the application saved, with its seen
          seen        \* history: seen[id] is the position in world of the latest
                      \* state of id the cursor learned of; 0 if it learned of none

vars == <<world, ledger, cells, persisted, seen>>

NeverSeen == [id \in Ids |-> 0]

Tracked(id) == cells[id] # None

-----------------------------------------------------------------------------
(* Learning.  seen records what a commit, a synced digest or a read the    *)
(* cursor is told of says, whatever the cursor makes of it.  A read that   *)
(* ends before the cursor is told, for an error of the node or an owner    *)
(* kind it refuses, teaches it nothing.                                    *)

Later(a, b) == IF a >= b THEN a ELSE b

\* Knowing transaction k is knowing the state it left each id it changed in.
SeenWith(k, touched) ==
  [id \in Ids |-> IF Tracked(id) /\ id \in touched THEN Later(seen[id], k + 1) ELSE seen[id]]

\* Position k of the ledger is not before what the cursor already knows of ids.  Nothing
\* in the program checks this: it depends on the full nodes (MonotonicReads) and on the
\* order the application syncs digests in (OrderedSync).
NotOlder(ids, k) == \A id \in ids : Tracked(id) => k >= seen[id]

-----------------------------------------------------------------------------
(* Runtime, Tx: execution *)

\* Another client's transaction: nothing tells the cursor.
ExternalTransaction ==
  /\ \E post \in Successors(Now, Len(world) + 1) :
       \E effects \in ReportedEffects(Now, post, Len(world) + 1) : Execute(post, effects)
  /\ UNCHANGED <<cells, persisted, seen>>

\* commit whose receipt carries effects: the patch is applied before it returns.
Commit ==
  /\ \E post \in Successors(Now, Len(world) + 1) :
       \E effects \in ReportedEffects(Now, post, Len(world) + 1) :
         /\ Execute(post, effects)
         /\ cells' = ApplyPatch(cells, FromEffects(effects))
         /\ seen' = SeenWith(Len(world), {id \in Ids : Now[id] # post[id]})
  /\ UNCHANGED persisted

\* sync_transaction: fetch the effects of digest k and apply their patch.
SyncTransaction(k) ==
  /\ OrderedSync => NotOlder(Touched(k), k + 1)
  /\ cells' = ApplyPatch(cells, FromEffects(ledger[k]))
  /\ seen' = SeenWith(k, Touched(k))
  /\ UNCHANGED <<world, ledger, persisted>>

-----------------------------------------------------------------------------
(* Read.  A full node serves a read from the store at position k.          *)

\* What fetch_object_reference_and_owner may end with.  "Grpc" stands for every error that
\* says nothing of the object: a gRPC status, with which a node may also answer for an
\* object that is gone, the node out of reach, an answer that does not decode.
Fetch(id, k) ==
  {"Grpc", CASE world[k][id].status = "live"    -> "Ok"
             [] world[k][id].status = "package" -> "NotMoveStruct"
             [] OTHER                           -> "Missing"}

\* The answer has no object: tombstoned, if it was tracked.
ReadMissing(id, k) ==
  /\ "Missing" \in Fetch(id, k)
  /\ cells' = TombstoneId(cells, id, "NotExist")
  /\ seen' = IF Tracked(id) THEN [seen EXCEPT ![id] = Later(@, k)] ELSE seen

\* Any other error is returned before the cursor is told of anything.
ReadErrs(id, k) ==
  /\ Fetch(id, k) \cap {"Grpc", "NotMoveStruct"} # {}
  /\ UNCHANGED <<cells, seen>>

Interns(id, k) ==
  /\ "Ok" \in Fetch(id, k)
  /\ cells' = InternCell(cells, id, world[k][id].version, world[k][id].owner)
  /\ seen' = [seen EXCEPT ![id] = Later(@, k)]

\* Common to every read: what is not interned or tombstoned is left alone.
Reads(id, k) == /\ MonotonicReads => NotOlder({id}, k)
                /\ UNCHANGED <<world, ledger, persisted>>

\* refresh_id; refresh and refresh_ids repeat it.
RefreshId(id, k) ==
  Reads(id, k) /\ (ReadMissing(id, k) \/ ReadErrs(id, k) \/ Interns(id, k))

RefusedAsObject(owner) == owner.kind \in {"Object", "Unknown"}

\* object: child and unknown owners are refused before interning.
ReadObject(id, k) ==
  /\ Reads(id, k)
  /\ \/ ReadMissing(id, k)
     \/ ReadErrs(id, k)
     \/ Interns(id, k) /\ ~RefusedAsObject(world[k][id].owner)
     \/ "Ok" \in Fetch(id, k) /\ RefusedAsObject(world[k][id].owner) /\ UNCHANGED <<cells, seen>>

\* get, get_unchecked: interned before the type tag is compared or the contents
\* decoded, so a tag mismatch or a decode error leaves the same cursor.
Get(id, k) == RefreshId(id, k)

\* decode, decode_unchecked: as get, for the id of a handle.
Decode(id, k) == RefreshId(id, k)

\* receiving_object: no check of the owner kind.
ReceivingObject(id, k) == RefreshId(id, k)

\* shared_object: never interns; only a missing object changes the cursor.
ReadSharedObject(id, k) ==
  /\ Reads(id, k)
  /\ \/ ReadMissing(id, k)
     \/ ReadErrs(id, k)
     \/ "Ok" \in Fetch(id, k) /\ UNCHANGED <<cells, seen>>

-----------------------------------------------------------------------------
(* Snapshots and restarts *)

\* cursor_snapshot, saved by the application.
CursorSnapshot ==
  /\ persisted' = [cells |-> cells, seen |-> seen]
  /\ UNCHANGED <<world, ledger, cells, seen>>

\* The process restarts: new, then with_cursor_snapshot.
Restart ==
  /\ cells' = FromSnapshot(persisted.cells)
  /\ seen' = persisted.seen
  /\ UNCHANGED <<world, ledger, persisted>>

-----------------------------------------------------------------------------

Init == /\ ChainInit
        /\ cells = Untracked
        /\ seen = NeverSeen
        /\ persisted = [cells |-> Untracked, seen |-> NeverSeen]

Read == \E id \in Ids : \E k \in 1..Len(world) :
          \/ RefreshId(id, k)
          \/ ReadObject(id, k)
          \/ Get(id, k)
          \/ Decode(id, k)
          \/ ReceivingObject(id, k)
          \/ ReadSharedObject(id, k)

Next == \/ ExternalTransaction
        \/ Commit
        \/ \E k \in 1..Len(ledger) : SyncTransaction(k)
        \/ Read
        \/ CursorSnapshot
        \/ Restart

Spec == Init /\ [][Next]_vars

-----------------------------------------------------------------------------
(* Properties *)

\* The cursor, the saved snapshot and the histories have their types.
TypeOK ==
  /\ cells \in [Ids -> ObjectCell \cup {None}]
  /\ persisted \in [cells : [Ids -> ObjectCell \cup {None}], seen : [Ids -> Nat]]
  /\ seen \in [Ids -> Nat]

\* What a patch must say of a transaction that took store pre to store post.
PatchDescribes(patch, pre, post) ==
  \A id \in Ids :
    /\ pre[id] = post[id] => patch.upserts[id] = None /\ patch.tombstones[id] = None
    /\ pre[id] # post[id] /\ post[id].status = "live" =>
         /\ patch.upserts[id] = [version |-> post[id].version, owner |-> post[id].owner]
         /\ patch.tombstones[id] = None
    /\ pre[id] # post[id] /\ post[id].status \in {"wrapped", "deleted"} =>
         patch.tombstones[id] # None

\* Both effects formats decode to a patch with exactly one upsert for each object the
\* transaction wrote, at its new version and owner, and a tombstone for each object it
\* deleted or wrapped (EffectsPatch::from_effects).
PatchesDescribeTransactions ==
  \A k \in 1..Len(ledger) : PatchDescribes(FromEffects(ledger[k]), world[k], world[k + 1])

\* The state the cursor last learned the object was in.
LastLearned(id) == world[seen[id]][id]

\* Whatever order digests are synced in and however far full nodes lag, a tracked
\* object that was last learned to be live is referenced at the version it had then:
\* no late answer brings an older reference back (ObjectCell::set_reference).
ReferenceIsLatestLearned ==
  \A id \in Ids :
    Tracked(id) /\ LastLearned(id).status = "live" =>
      cells[id].version = LastLearned(id).version

\* Between restarts the reference of a handle never goes back to an older version.
ReferenceNeverRegresses ==
  [][cells' # FromSnapshot(persisted.cells) =>
       \A id \in Ids : Tracked(id) => /\ cells'[id] # None
                                      /\ cells'[id].version >= cells[id].version]_vars

\* cell is what a client that knows obj, and nothing later, should hold.
Reflects(cell, obj) ==
  IF obj.status = "live"
    THEN cell = NewCell(obj.version, obj.owner)
    ELSE cell.tombstone # None

\* The owner of a live handle is the owner the object had at the handle's reference:
\* reference and owner are never taken from two different observations.
OwnerBelongsToReference ==
  \A id \in Ids :
    Tracked(id) /\ cells[id].tombstone = None =>
      \E k \in 1..Len(world) :
        world[k][id] = Live(cells[id].version, cells[id].owner)

\* A handle the runtime has learned is deleted or wrapped is refused as an argument.
GoneHandlesAreRefused ==
  \A id \in Ids :
    Tracked(id) /\ LastLearned(id).status # "live" =>
      ToCallArg(cells[id], "Mutable").arg = "Tombstoned"

\* The cursor remembers the latest reference, owner kind and tombstone it learned of,
\* through commits, synced digests, reads and restarts from a snapshot.
RemembersLatestLearned ==
  \A id \in Ids : Tracked(id) => Reflects(cells[id], LastLearned(id))

\* An own commit that returned effects leaves every tracked object it changed at the
\* state it has on chain, whatever stale information the cursor held before.
CommitCatchesUp ==
  [][world' # world /\ seen' # seen =>
       \A id \in Ids : Tracked(id) /\ Now[id] # Now'[id] => Reflects(cells'[id], Now'[id])]_vars

\* Whether the chain takes arg as an input naming obj or, when the conversion refused
\* the handle, would have refused it: a tombstone for an object that is gone, an owner
\* kind that cannot be passed this way.
Fits(arg, obj, inputKinds) ==
  CASE arg.arg = "Tombstoned" -> obj.status # "live"
    [] arg.arg = "ObjectKind" -> obj.status = "live" /\ obj.owner.kind \notin inputKinds
    [] arg.arg = "Shared"     -> /\ obj.status = "live"
                                 /\ obj.owner.kind \in SharedLike \cap inputKinds
                                 /\ arg.start = obj.owner.start
    [] OTHER                  -> /\ obj.status = "live"
                                 /\ obj.owner.kind \in inputKinds \ SharedLike
                                 /\ arg.version = obj.version

\* A handle whose last learned state is still the state on chain converts to an input
\* the chain accepts, and is refused only when no such input exists.
CurrentHandlesConvert ==
  \A id \in Ids :
    Tracked(id) /\ LastLearned(id) = Now[id] =>
      /\ Fits(ToCallArg(cells[id], "Mutable"), Now[id], {"Immutable", "Address"} \cup SharedLike)
      /\ Fits(ReceivingArg(cells[id]), Now[id], {"Address"})

\* What the next refresh of id would leave in the table, were it served from the store as
\* it is now and answered with the object or with its absence.
Refreshed(id) ==
  IF Now[id].status = "live" THEN InternCell(cells, id, Now[id].version, Now[id].owner)
  ELSE TombstoneId(cells, id, "NotExist")

\* No disturbance outlives a refresh that is answered: whatever lagging reads, late syncs,
\* commits of other clients and restarts did to the cursor, it never holds a version the
\* object does not have yet, nor a tombstone, that would make it keep a part of its cell
\* when an up to date node tells it of the object (Read::refresh_id: "explicit escape
\* hatch for external drift").  Of a node that answers with an error it says nothing.
RefreshRepairs == \A id \in Ids : Tracked(id) => Reflects(Refreshed(id)[id], Now[id])

=============================================================================
