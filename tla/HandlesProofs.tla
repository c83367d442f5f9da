---------------------------- MODULE HandlesProofs ----------------------------
(***************************************************************************)
(* What the order of the locks guarantees to a thread that converts        *)
(* handles while another one advances the cursor, for any number of        *)
(* objects, readers and updates.                                           *)
(***************************************************************************)
EXTENDS Handles, TLAPS

StampsOrdered ==
  \A id \in Ids :
    /\ stamps[id].tombstone <= stamps[id].owner
    /\ stamps[id].owner <= stamps[id].reference
    /\ stamps[id].reference <= updates

\* The fields of the cell in hand that the update has already settled.
StepInv ==
  /\ upserting = None => step = 1
  /\ upserting # None /\ step >= 2 => stamps[upserting].reference = updates
  /\ upserting # None /\ step = 3 => stamps[upserting].owner = updates

\* A conversion has seen nothing the cell has not settled in the fields it reads later.
ReadingInv ==
  \A r \in Readers : reading[r] # None =>
    /\ reading[r].id \in Ids /\ reading[r].cleared \in Nat
    /\ reading[r].step = "checked" => reading[r].cleared <= stamps[reading[r].id].owner
    /\ reading[r].step = "locked" =>
         /\ reading[r].owned \in Nat
         /\ reading[r].cleared <= reading[r].owned
         /\ reading[r].owned <= stamps[reading[r].id].reference

\* Nothing is written before every tombstone is: no reference of the update is out yet.
RemovedFirst ==
  todo.tombstones # Untracked =>
    /\ \A id \in Ids : stamps[id].reference < updates
    /\ \A r \in Readers : given[r] # None => given[r].referenced < updates

\* A removed object stays tombstoned until an update that came after brings it back.
RemovedInv ==
  \A id \in Ids :
    /\ removed[id] <= updates
    /\ todo.tombstones[id] # None => removed[id] = updates
    /\ removed[id] # 0 /\ removed[id] = updates => todo.upserts[id] = None
    /\ removed[id] # 0 => \/ todo.tombstones[id] # None
                          \/ cells[id].tombstone # None
                          \/ stamps[id].tombstone > removed[id]

\* What a reader holds is behind what the cells hold.
GivenInv ==
  \A r \in Readers : given[r] # None =>
    /\ given[r].id \in Ids
    /\ given[r].referenced \in Nat /\ given[r].referenced <= updates
    /\ (HasReference(given[r]) => /\ given[r].arg.version \in Nat
                                 /\ given[r].arg.version <= cells[given[r].id].version)

IInv == /\ TypeOK /\ StampsOrdered /\ StepInv /\ ReadingInv /\ RemovedFirst
        /\ RemovedInv /\ GivenInv /\ ArgumentsLookForward

\* What is left of the update takes the cells to the table it ends with; the fields
\* of the upsert in hand that were written have its values.
WholeInv ==
  /\ whole = ApplyPatch(cells, todo)
  /\ \A id \in Ids : todo.tombstones[id] = None \/ todo.upserts[id] = None
  /\ upserting # None =>
       LET cell == cells[upserting]
           upsert == todo.upserts[upserting]
       IN  /\ step >= 2 => cell.version >= upsert.version
           /\ step = 3 => upsert.owner \in {None, cell.owner}

-----------------------------------------------------------------------------
(* Types *)

LEMMA NoneIsNone == None \notin Owner /\ None \notin Upsert /\ None \notin TombstoneReason
BY NoneAssumption

LEMMA PatchOfTyped ==
  ASSUME updates \in Nat, NEW written \in SUBSET Ids, NEW gone \in SUBSET Ids,
         NEW owners \in [written -> HandleOwners], NEW reasons \in [gone -> {"Deleted", "Wrapped"}]
  PROVE  PatchOf(written, owners, gone, reasons) \in EffectsPatch
<1>1. ASSUME NEW id \in written
      PROVE  [version |-> updates + 2, owner |-> owners[id]] \in Upsert
  BY HandlesAssumption DEF Upsert
<1>2. ASSUME NEW id \in gone PROVE reasons[id] \in TombstoneReason
  BY DEF TombstoneReason
<1> QED  BY <1>1, <1>2 DEF PatchOf, EffectsPatch

LEMMA NoPatchTyped == NoPatch \in EffectsPatch
BY DEF NoPatch, Untracked, EffectsPatch

\* What the start of an update leaves: a typed patch without overlap.
BeginsWith(patch) ==
  /\ patch \in EffectsPatch
  /\ \A id \in Ids : patch.tombstones[id] = None \/ patch.upserts[id] = None
  /\ ~Writing
  /\ todo' = patch
  /\ updates' = updates + 1
  /\ removed' = [id \in Ids |-> IF patch.tombstones[id] # None THEN updates' ELSE removed[id]]
  /\ UNCHANGED <<cells, upserting, step, stamps, reading, given>>

LEMMA PatchBegins == ASSUME TypeOK, BeginPatch PROVE \E patch : BeginsWith(patch)
<1>1. PICK written \in SUBSET Ids, gone \in SUBSET Ids :
        /\ written \cap gone = {}
        /\ \E owners \in [written -> HandleOwners], reasons \in [gone -> {"Deleted", "Wrapped"}] :
             LET patch == PatchOf(written, owners, gone, reasons) IN
             Begin(patch, ApplyPatch(cells, patch))
  BY DEF BeginPatch
<1>2. PICK owners \in [written -> HandleOwners], reasons \in [gone -> {"Deleted", "Wrapped"}] :
        Begin(PatchOf(written, owners, gone, reasons),
              ApplyPatch(cells, PatchOf(written, owners, gone, reasons)))
  BY <1>1
<1>3. PatchOf(written, owners, gone, reasons) \in EffectsPatch
  BY PatchOfTyped DEF TypeOK
<1>4. \A id \in Ids : \/ PatchOf(written, owners, gone, reasons).tombstones[id] = None
                      \/ PatchOf(written, owners, gone, reasons).upserts[id] = None
  BY <1>1 DEF PatchOf
<1> QED  BY <1>2, <1>3, <1>4 DEF Begin, BeginsWith

LEMMA InternBegins ==
  ASSUME TypeOK, NEW id \in Ids, BeginIntern(id) PROVE \E patch : BeginsWith(patch)
<1>1. PICK version \in 1..(updates + 1), owner \in HandleOwners :
        Begin([NoPatch EXCEPT !.upserts[id] = [version |-> version, owner |-> owner]],
              InternCell(cells, id, version, owner))
  BY DEF BeginIntern
<1> DEFINE patch == [NoPatch EXCEPT !.upserts[id] = [version |-> version, owner |-> owner]]
<1>2. [version |-> version, owner |-> owner] \in Upsert
  BY HandlesAssumption DEF Upsert, TypeOK
<1>3. patch \in EffectsPatch /\ \A i \in Ids : patch.tombstones[i] = None
  BY <1>2 DEF NoPatch, Untracked, EffectsPatch
<1> QED  BY <1>1, <1>3 DEF Begin, BeginsWith

LEMMA TombstoneBegins ==
  ASSUME TypeOK, NEW id \in Ids, BeginTombstone(id) PROVE \E patch : BeginsWith(patch)
<1> DEFINE patch == [NoPatch EXCEPT !.tombstones[id] = "NotExist"]
<1>1. patch \in EffectsPatch /\ \A i \in Ids : patch.upserts[i] = None
  BY DEF NoPatch, Untracked, EffectsPatch, TombstoneReason
<1> QED  BY <1>1 DEF BeginTombstone, Begin, BeginsWith

-----------------------------------------------------------------------------
(* Steps *)

LEMMA InitIInv == Init => IInv
<1> SUFFICES ASSUME Init PROVE IInv
  OBVIOUS
<1>1. PICK owners \in [Ids -> HandleOwners] : cells = [id \in Ids |-> NewCell(1, owners[id])]
  BY DEF Init
<1>2. cells \in [Ids -> ObjectCell]
  BY <1>1, HandlesAssumption DEF NewCell, ObjectCell
<1>3. TypeOK
  BY <1>2, NoPatchTyped DEF Init, TypeOK, Stamp, Unsettled
<1>4. StampsOrdered /\ StepInv /\ ReadingInv /\ GivenInv /\ ArgumentsLookForward
  BY DEF Init, StampsOrdered, StepInv, ReadingInv, GivenInv, ArgumentsLookForward, Unsettled
<1>5. RemovedFirst /\ RemovedInv
  BY DEF Init, RemovedFirst, RemovedInv, NoPatch, Untracked
<1> QED  BY <1>3, <1>4, <1>5 DEF IInv

LEMMA BeginKeeps == ASSUME IInv, NEW patch, BeginsWith(patch) PROVE IInv'
<1> USE DEF BeginsWith
<1>1. updates \in Nat /\ upserting = None /\ todo = NoPatch
  BY DEF IInv, TypeOK, Writing
<1>2. \A id \in Ids : /\ removed[id] \in Nat /\ removed[id] <= updates
                      /\ todo.tombstones[id] = None
  BY <1>1 DEF IInv, TypeOK, RemovedInv, NoPatch, Untracked
<1>3. TypeOK'
  BY <1>1 DEF IInv, TypeOK
<1>4. \A id \in Ids : stamps[id].reference \in Nat /\ stamps[id].reference <= updates
  BY DEF IInv, TypeOK, StampsOrdered, Stamp
<1>5. StampsOrdered'
  BY <1>1, <1>4 DEF IInv, StampsOrdered
<1>6. StepInv' /\ ReadingInv' /\ ArgumentsLookForward'
  BY <1>1 DEF IInv, StepInv, ReadingInv, ArgumentsLookForward
<1>9. GivenInv'
  BY <1>1 DEF IInv, GivenInv, HasReference
<1>7. RemovedFirst'
  <2>1. \A r \in Readers : given[r] # None => given[r].referenced \in Nat /\ given[r].referenced <= updates
    BY DEF IInv, GivenInv
  <2> QED  BY <1>1, <1>4, <2>1 DEF RemovedFirst
<1>8. RemovedInv'
  <2> SUFFICES ASSUME NEW id \in Ids
               PROVE  /\ removed'[id] <= updates'
                      /\ todo'.tombstones[id] # None => removed'[id] = updates'
                      /\ removed'[id] # 0 /\ removed'[id] = updates' => todo'.upserts[id] = None
                      /\ removed'[id] # 0 => \/ todo'.tombstones[id] # None
                                             \/ cells'[id].tombstone # None
                                             \/ stamps'[id].tombstone > removed'[id]
    BY DEF RemovedInv
  <2>1. CASE patch.tombstones[id] # None
    BY <1>1, <2>1
  <2>2. CASE patch.tombstones[id] = None
    BY <1>1, <1>2, <2>2 DEF IInv, RemovedInv
  <2> QED  BY <2>1, <2>2
<1> QED  BY <1>3, <1>5, <1>6, <1>7, <1>8, <1>9 DEF IInv

LEMMA SetTombstoneReasonKeeps ==
  ASSUME IInv, NEW id \in Ids, SetTombstoneReason(id) PROVE IInv'
<1> USE DEF SetTombstoneReason
<1>1. /\ cells \in [Ids -> ObjectCell] /\ todo \in EffectsPatch
      /\ todo.tombstones[id] \in TombstoneReason
  BY DEF IInv, TypeOK, EffectsPatch
<1>2. TypeOK'
  <2>1. cells' \in [Ids -> ObjectCell]
    BY <1>1 DEF ObjectCell
  <2>2. todo' \in EffectsPatch
    BY <1>1 DEF EffectsPatch
  <2> QED  BY <2>1, <2>2 DEF IInv, TypeOK
<1>3. StampsOrdered' /\ StepInv' /\ ReadingInv' /\ ArgumentsLookForward'
  BY DEF IInv, StampsOrdered, StepInv, ReadingInv, ArgumentsLookForward
<1>4. GivenInv'
  <2>1. \A i \in Ids : cells'[i].version = cells[i].version
    BY <1>1 DEF ObjectCell
  <2> QED  BY <2>1 DEF IInv, GivenInv, HasReference
<1>5. RemovedFirst'
  <2>1. todo.tombstones # Untracked
    BY DEF Untracked
  <2> QED  BY <2>1 DEF IInv, RemovedFirst
<1>6. RemovedInv'
  <2>1. ASSUME NEW i \in Ids, i # id
        PROVE  cells'[i] = cells[i] /\ todo'.tombstones[i] = todo.tombstones[i]
    BY <1>1, <2>1 DEF EffectsPatch
  <2>2. cells'[id].tombstone # None /\ todo'.tombstones[id] = None
    BY <1>1, NoneIsNone DEF EffectsPatch, ObjectCell
  <2>3. todo'.upserts = todo.upserts
    BY <1>1 DEF EffectsPatch
  <2> QED  BY <2>1, <2>2, <2>3 DEF IInv, RemovedInv
<1> QED  BY <1>2, <1>3, <1>4, <1>5, <1>6 DEF IInv

\* What the three writes of an upsert share: the cell's reference does not go back, and
\* the field it settles is the one that follows those already settled.
LEMMA SettleKeeps ==
  ASSUME IInv, NEW id \in Ids, NEW field \in {"reference", "owner", "tombstone"},
         At(id, field), Settle(id, field),
         cells' \in [Ids -> ObjectCell],
         \A i \in Ids : cells'[i].version >= cells[i].version,
         \A i \in Ids : \/ cells'[i].tombstone = cells[i].tombstone
                        \/ i = id /\ field = "tombstone"
  PROVE  IInv'
<1>1. /\ todo \in EffectsPatch /\ todo' \in EffectsPatch
      /\ todo.tombstones = Untracked /\ todo'.tombstones = Untracked
      /\ \A i \in Ids : todo'.upserts[i] \in {todo.upserts[i], None}
  BY DEF IInv, TypeOK, EffectsPatch, At, TombstonesFirst, Settle
<1>2. updates \in Nat /\ updates' = updates /\ step \in 1..3 /\ stamps \in [Ids -> Stamp]
  BY DEF IInv, TypeOK, Settle
<1>3. /\ stamps' = [stamps EXCEPT ![id][field] = updates]
      /\ stamps' \in [Ids -> Stamp]
  BY <1>2 DEF Settle, Stamp
<1>4. /\ field = "reference" => step = 1
      /\ field = "owner" => step = 2 /\ stamps[id].reference = updates
      /\ field = "tombstone" => /\ step = 3 /\ stamps[id].owner = updates
                               /\ stamps[id].reference = updates
  BY <1>2 DEF At, UpdateOrder, IInv, StepInv
<1>5. \A i \in Ids : /\ stamps[i].reference \in Nat /\ stamps[i].owner \in Nat
                     /\ stamps[i].tombstone \in Nat
                     /\ stamps[i].reference <= updates /\ stamps[i].owner <= updates
                     /\ stamps[i].tombstone <= updates
  BY <1>2 DEF IInv, StampsOrdered, Stamp
<1>6. \A i \in Ids : /\ stamps'[i].reference \in {stamps[i].reference, updates}
                     /\ stamps'[i].owner \in {stamps[i].owner, updates}
                     /\ stamps'[i].tombstone \in {stamps[i].tombstone, updates}
                     /\ i # id => stamps'[i] = stamps[i]
  BY <1>2, <1>3 DEF Stamp
<1>7. TypeOK'
  BY <1>1, <1>2, <1>3 DEF IInv, TypeOK, Settle
<1>8. StampsOrdered'
  <2>1. CASE field = "reference"
    BY <1>2, <1>3, <1>5, <2>1 DEF IInv, StampsOrdered, Stamp
  <2>2. CASE field = "owner"
    BY <1>2, <1>3, <1>4, <1>5, <2>2 DEF IInv, StampsOrdered, Stamp
  <2>3. CASE field = "tombstone"
    BY <1>2, <1>3, <1>4, <1>5, <2>3 DEF IInv, StampsOrdered, Stamp
  <2> QED  BY <2>1, <2>2, <2>3
<1>9. StepInv'
  <2>1. CASE field = "tombstone"
    BY <1>4, <2>1 DEF StepInv, Settle
  <2>2. CASE field \in {"reference", "owner"}
    <3>1. upserting' = id /\ upserting' # None /\ step' = step + 1 /\ updates' = updates
      BY <1>2, <1>4, <2>2, HandlesAssumption DEF Settle
    <3>2. stamps'[id].reference = updates
      BY <1>2, <1>3, <1>4, <2>2 DEF Stamp
    <3>3. step = 2 => stamps'[id].owner = updates
      BY <1>2, <1>3, <1>4, <2>2 DEF Stamp
    <3> QED  BY <1>2, <3>1, <3>2, <3>3 DEF StepInv
  <2> QED  BY <2>1, <2>2
<1>10. ReadingInv'
  <2>1. reading' = reading
    BY DEF Settle
  <2>2. \A i \in Ids : /\ stamps'[i].owner \in Nat /\ stamps'[i].owner >= stamps[i].owner
                       /\ stamps'[i].reference \in Nat
                       /\ stamps'[i].reference >= stamps[i].reference
    BY <1>2, <1>5, <1>6
  <2>3. SUFFICES ASSUME NEW r \in Readers, reading[r] # None
                 PROVE  /\ reading[r].id \in Ids /\ reading[r].cleared \in Nat
                        /\ (reading[r].step = "checked"
                              => reading[r].cleared <= stamps'[reading[r].id].owner)
                        /\ (reading[r].step = "locked" =>
                              /\ reading[r].owned \in Nat
                              /\ reading[r].cleared <= reading[r].owned
                              /\ reading[r].owned <= stamps'[reading[r].id].reference)
    BY <2>1 DEF ReadingInv
  <2>4. reading[r].id \in Ids /\ reading[r].cleared \in Nat
    BY <2>3 DEF IInv, ReadingInv
  <2> QED  BY <1>5, <2>2, <2>3, <2>4 DEF IInv, ReadingInv
<1>11. RemovedFirst'
  BY <1>1 DEF RemovedFirst, Untracked
<1>12. RemovedInv'
  <2>1. removed' = removed /\ removed \in [Ids -> Nat]
    BY DEF Settle, IInv, TypeOK
  <2> SUFFICES ASSUME NEW i \in Ids
               PROVE  /\ removed[i] <= updates
                      /\ removed[i] # 0 /\ removed[i] = updates => todo'.upserts[i] = None
                      /\ removed[i] # 0 => \/ cells'[i].tombstone # None
                                           \/ stamps'[i].tombstone > removed[i]
    BY <1>1, <1>2, <2>1 DEF RemovedInv, Untracked
  <2>2. /\ removed[i] <= updates
        /\ removed[i] # 0 /\ removed[i] = updates => todo'.upserts[i] = None
    BY <1>1 DEF IInv, RemovedInv
  <2>3. ASSUME removed[i] # 0
        PROVE  cells'[i].tombstone # None \/ stamps'[i].tombstone > removed[i]
    <3>1. cells[i].tombstone # None \/ stamps[i].tombstone > removed[i]
      BY <1>1, <2>3 DEF IInv, RemovedInv, Untracked
    <3>2. stamps[i].tombstone > removed[i] => stamps'[i].tombstone > removed[i]
      BY <1>2, <1>5, <1>6, <2>1
    <3>3. CASE i = id /\ field = "tombstone"
      <4>1. todo.upserts[id] # None
        BY DEF At
      <4>2. removed[id] # updates /\ removed[id] <= updates /\ removed[id] \in Nat
        BY <2>1, <2>2, <2>3, <3>3, <4>1 DEF IInv, RemovedInv
      <4>3. stamps'[id].tombstone = updates
        BY <1>2, <1>3, <3>3 DEF Stamp
      <4> QED  BY <1>2, <3>3, <4>2, <4>3
    <3> QED  BY <3>1, <3>2, <3>3
  <2> QED  BY <2>2, <2>3
<1>13. GivenInv' /\ ArgumentsLookForward'
  <2>1. given' = given
    BY DEF Settle
  <2>2. ArgumentsLookForward'
    BY <2>1 DEF IInv, ArgumentsLookForward
  <2>3. cells \in [Ids -> ObjectCell]
    BY DEF IInv, TypeOK
  <2>4. SUFFICES ASSUME NEW r \in Readers, given[r] # None
                 PROVE  /\ given[r].id \in Ids
                        /\ given[r].referenced \in Nat /\ given[r].referenced <= updates
                        /\ (given[r].arg.arg \in {"ImmutableOrOwned", "Receiving"}
                              => /\ given[r].arg.version \in Nat
                                 /\ given[r].arg.version <= cells'[given[r].id].version)
    BY <1>2, <2>1, <2>2 DEF GivenInv, HasReference
  <2>5. /\ given[r].id \in Ids
        /\ given[r].referenced \in Nat /\ given[r].referenced <= updates
        /\ (given[r].arg.arg \in {"ImmutableOrOwned", "Receiving"}
              => /\ given[r].arg.version \in Nat
                 /\ given[r].arg.version <= cells[given[r].id].version)
    BY <2>4 DEF IInv, GivenInv, HasReference
  <2>6. /\ cells'[given[r].id].version >= cells[given[r].id].version
        /\ cells'[given[r].id].version \in Nat /\ cells[given[r].id].version \in Nat
    BY <2>3, <2>5 DEF ObjectCell
  <2> QED  BY <2>5, <2>6
<1> QED  BY <1>7, <1>8, <1>9, <1>10, <1>11, <1>12, <1>13 DEF IInv

LEMMA UpsertKeeps ==
  ASSUME IInv, NEW id \in Ids, WriteReference(id) \/ WriteOwner(id) \/ ClearTombstone(id)
  PROVE  IInv'
<1>1. cells \in [Ids -> ObjectCell] /\ todo \in EffectsPatch
  BY DEF IInv, TypeOK
<1>2. \A i \in Ids : cells[i].version \in Nat /\ cells[i].owner \in Owner
                     /\ cells[i].tombstone \in TombstoneReason \cup {None}
  BY <1>1 DEF ObjectCell
<1>3. todo.upserts[id] # None =>
        todo.upserts[id].version \in Nat /\ todo.upserts[id].owner \in Owner \cup {None}
  BY <1>1 DEF EffectsPatch, Upsert
<1>4. CASE WriteReference(id)
  <2>1. todo.upserts[id].version \in Nat
    BY <1>3, <1>4 DEF WriteReference, At
  <2>2. /\ cells' \in [Ids -> ObjectCell]
        /\ \A i \in Ids : /\ cells'[i].version >= cells[i].version
                          /\ cells'[i].tombstone = cells[i].tombstone
    BY <1>1, <1>2, <1>4, <2>1 DEF WriteReference, SetReference, ObjectCell
  <2> QED  BY <1>4, <2>2, SettleKeeps DEF WriteReference
<1>5. CASE WriteOwner(id)
  <2>1. todo.upserts[id].owner \in Owner \cup {None}
    BY <1>3, <1>5 DEF WriteOwner, At
  <2>2. /\ cells' \in [Ids -> ObjectCell]
        /\ \A i \in Ids : /\ cells'[i].version >= cells[i].version
                          /\ cells'[i].tombstone = cells[i].tombstone
    BY <1>1, <1>2, <1>5, <2>1 DEF WriteOwner, ObjectCell
  <2> QED  BY <1>5, <2>2, SettleKeeps DEF WriteOwner
<1>6. CASE ClearTombstone(id)
  <2>1. /\ cells' \in [Ids -> ObjectCell]
        /\ \A i \in Ids : /\ cells'[i].version >= cells[i].version
                          /\ i # id => cells'[i].tombstone = cells[i].tombstone
    BY <1>1, <1>2, <1>6 DEF ClearTombstone, ObjectCell
  <2> QED  BY <1>6, <2>1, SettleKeeps DEF ClearTombstone
<1> QED  BY <1>4, <1>5, <1>6

\* A conversion changes the reader's own state only.
LEMMA ConvertKeeps ==
  ASSUME IInv, UNCHANGED writerVars,
         DOMAIN reading' = Readers, DOMAIN given' = Readers,
         ReadingInv', GivenInv', ArgumentsLookForward',
         \A r \in Readers : given'[r] # None =>
           given'[r] = given[r] \/ given'[r].referenced = stamps[given'[r].id].reference
  PROVE  IInv'
<1> USE DEF writerVars
<1>1. TypeOK' /\ StampsOrdered' /\ StepInv' /\ RemovedInv'
  BY DEF IInv, TypeOK, StampsOrdered, StepInv, RemovedInv
<1>2. RemovedFirst'
  BY DEF IInv, RemovedFirst, GivenInv
<1> QED  BY <1>1, <1>2 DEF IInv

LEMMA CheckTombstoneKeeps ==
  ASSUME IInv, NEW r \in Readers, NEW id \in Ids, CheckTombstone(r, id) PROVE IInv'
<1> USE DEF CheckTombstone, writerVars
<1>1. DOMAIN reading = Readers /\ DOMAIN given = Readers
  BY DEF IInv, TypeOK
<1>2. stamps[id].tombstone \in Nat /\ stamps[id].tombstone <= stamps[id].owner
  BY DEF IInv, TypeOK, StampsOrdered, Stamp
<1>3. CASE cells[id].tombstone # None
  <2>1. reading' = reading /\ given' = [given EXCEPT ![r] = None]
    BY <1>3
  <2>2. ReadingInv'
    BY <2>1 DEF IInv, ReadingInv
  <2>3. \A x \in Readers : given'[x] # None => given'[x] = given[x]
    BY <1>1, <2>1
  <2>4. GivenInv' /\ ArgumentsLookForward'
    BY <2>3 DEF IInv, GivenInv, ArgumentsLookForward, HasReference
  <2> QED  BY <1>1, <2>1, <2>2, <2>3, <2>4, ConvertKeeps
<1>4. CASE cells[id].tombstone = None
  <2>1. /\ given' = given
        /\ reading' = [reading EXCEPT ![r] =
             [id |-> id, step |-> "checked", cleared |-> stamps[id].tombstone]]
    BY <1>4
  <2>2. ReadingInv'
    <3>1. \A x \in Readers : x # r => reading'[x] = reading[x]
      BY <1>1, <2>1
    <3>2. reading'[r] = [id |-> id, step |-> "checked", cleared |-> stamps[id].tombstone]
      BY <1>1, <2>1
    <3> QED  BY <1>2, <3>1, <3>2 DEF IInv, ReadingInv
  <2>3. GivenInv' /\ ArgumentsLookForward'
    BY <2>1 DEF IInv, GivenInv, ArgumentsLookForward, HasReference
  <2> QED  BY <1>1, <2>1, <2>2, <2>3, ConvertKeeps
<1> QED  BY <1>3, <1>4

LEMMA LockOwnerKeeps == ASSUME IInv, NEW r \in Readers, LockOwner(r) PROVE IInv'
<1> USE DEF writerVars
<1>1. DOMAIN reading = Readers /\ DOMAIN given = Readers
  BY DEF IInv, TypeOK
<1> DEFINE id == reading[r].id
<1>2. id \in Ids /\ reading[r].cleared \in Nat /\ reading[r].cleared <= stamps[id].owner
  BY DEF LockOwner, IInv, ReadingInv
<1>3. stamps[id].owner \in Nat /\ stamps[id].owner <= stamps[id].reference
  BY <1>2 DEF IInv, TypeOK, StampsOrdered, Stamp
<1>4. \A x \in Readers : x # r => reading'[x] = reading[x]
  BY <1>1 DEF LockOwner
<1>5. reading'[r] = [id |-> id, step |-> "locked", cleared |-> reading[r].cleared,
                     owner |-> cells[id].owner, owned |-> stamps[id].owner]
  BY <1>1 DEF LockOwner
<1>6. ReadingInv'
  <2>1. UNCHANGED stamps
    BY DEF LockOwner
  <2> HIDE DEF id
  <2> QED  BY <1>2, <1>3, <1>4, <1>5, <2>1 DEF IInv, ReadingInv
<1>7. GivenInv' /\ ArgumentsLookForward'
  BY DEF LockOwner, IInv, GivenInv, ArgumentsLookForward, HasReference
<1> QED  BY <1>1, <1>6, <1>7, ConvertKeeps DEF LockOwner

\* A reference in an argument is the cell's at the time it was read.
LEMMA ReferenceIsTheCells ==
  ASSUME NEW version \in Nat, NEW owner,
         NEW arg \in {ToCallArg(NewCell(version, owner), "Immutable"),
                      ToCallArg(NewCell(version, owner), "Mutable"),
                      ReceivingArg(NewCell(version, owner))},
         arg.arg \in {"ImmutableOrOwned", "Receiving"}
  PROVE  arg.version = version
<1>1. NewCell(version, owner).tombstone = None /\ NewCell(version, owner).version = version
  BY DEF NewCell
<1>2. ASSUME NEW mutability, arg = ToCallArg(NewCell(version, owner), mutability)
      PROVE  arg.version = version
  BY <1>1, <1>2 DEF ToCallArg
<1>3. ASSUME arg = ReceivingArg(NewCell(version, owner)) PROVE arg.version = version
  BY <1>1, <1>3 DEF ReceivingArg
<1> QED  BY <1>2, <1>3

LEMMA ReadReferenceGives ==
  ASSUME IInv, NEW r \in Readers, ReadReference(r)
  PROVE  /\ reading[r] # None /\ reading[r].step = "locked"
         /\ reading' = [reading EXCEPT ![r] = None]
         /\ \A x \in Readers : x # r => given'[x] = given[x]
         /\ given'[r] # None =>
              /\ given'[r].id = reading[r].id
              /\ given'[r].cleared = reading[r].cleared
              /\ given'[r].owned = reading[r].owned
              /\ given'[r].referenced = stamps[reading[r].id].reference
              /\ HasReference(given'[r]) =>
                   given'[r].arg.version = cells[reading[r].id].version
         /\ DOMAIN given' = Readers
         /\ UNCHANGED writerVars
<1> DEFINE id == reading[r].id
           cell == NewCell(cells[id].version, reading[r].owner)
<1>1. DOMAIN reading = Readers /\ DOMAIN given = Readers
  BY DEF IInv, TypeOK
<1>2. PICK arg \in {ToCallArg(cell, "Immutable"), ToCallArg(cell, "Mutable"), ReceivingArg(cell)} :
        given' = [given EXCEPT ![r] =
          IF arg.arg = "ObjectKind" THEN None
          ELSE [id |-> id, arg |-> arg, cleared |-> reading[r].cleared,
                owned |-> reading[r].owned, referenced |-> stamps[id].reference]]
  BY DEF ReadReference
<1>3. /\ given'[r] # None =>
            given'[r] = [id |-> id, arg |-> arg, cleared |-> reading[r].cleared,
                         owned |-> reading[r].owned, referenced |-> stamps[id].reference]
      /\ \A x \in Readers : x # r => given'[x] = given[x]
      /\ DOMAIN given' = Readers
  BY <1>1, <1>2
<1>4. cells[id].version \in Nat
  BY DEF ReadReference, IInv, TypeOK, ReadingInv, ObjectCell
<1>5. arg.arg \in {"ImmutableOrOwned", "Receiving"} => arg.version = cells[id].version
  BY <1>2, <1>4, ReferenceIsTheCells
<1>6. given'[r] # None /\ HasReference(given'[r]) => given'[r].arg.version = cells[id].version
  BY <1>3, <1>5 DEF HasReference
<1> QED  BY <1>3, <1>6 DEF ReadReference

LEMMA ReadReferenceKeeps == ASSUME IInv, NEW r \in Readers, ReadReference(r) PROVE IInv'
<1> USE DEF writerVars
<1>1. DOMAIN reading = Readers /\ DOMAIN given = Readers
  BY DEF IInv, TypeOK
<1>2. /\ reading[r].id \in Ids /\ reading[r].cleared <= reading[r].owned
      /\ reading[r].owned <= stamps[reading[r].id].reference
  BY ReadReferenceGives DEF IInv, ReadingInv
<1>3. /\ stamps[reading[r].id].reference \in Nat /\ stamps[reading[r].id].reference <= updates
      /\ cells[reading[r].id].version \in Nat
  BY <1>2 DEF IInv, TypeOK, StampsOrdered, Stamp, ObjectCell
<1>4. ReadingInv'
  <2>1. \A x \in Readers : reading'[x] # None => reading'[x] = reading[x]
    BY <1>1, ReadReferenceGives
  <2> QED  BY <2>1, ReadReferenceGives DEF IInv, ReadingInv
<1>5. GivenInv'
  BY <1>2, <1>3, ReadReferenceGives DEF IInv, GivenInv, HasReference
<1>6. ArgumentsLookForward'
  BY <1>2, ReadReferenceGives DEF IInv, ArgumentsLookForward
<1>7. \A x \in Readers : given'[x] # None =>
        given'[x] = given[x] \/ given'[x].referenced = stamps[given'[x].id].reference
  BY ReadReferenceGives
<1> QED  BY <1>1, <1>4, <1>5, <1>6, <1>7, ReadReferenceGives, ConvertKeeps

LEMMA NextKeeps == IInv /\ [Next]_vars => IInv'
<1> SUFFICES ASSUME IInv, [Next]_vars PROVE IInv'
  OBVIOUS
<1>1. CASE BeginPatch
  BY <1>1, PatchBegins, BeginKeeps DEF IInv
<1>2. ASSUME NEW id \in Ids, BeginIntern(id) \/ BeginTombstone(id) PROVE IInv'
  BY <1>2, InternBegins, TombstoneBegins, BeginKeeps DEF IInv
<1>3. ASSUME NEW id \in Ids,
             \/ SetTombstoneReason(id) \/ WriteReference(id)
             \/ WriteOwner(id) \/ ClearTombstone(id)
      PROVE  IInv'
  BY <1>3, SetTombstoneReasonKeeps, UpsertKeeps
<1>4. ASSUME NEW r \in Readers, Convert(r) PROVE IInv'
  BY <1>4, CheckTombstoneKeeps, LockOwnerKeeps, ReadReferenceKeeps DEF Convert
<1>5. CASE UNCHANGED vars
  <2> USE <1>5 DEF vars, writerVars
  <2>1. TypeOK' /\ StampsOrdered' /\ StepInv' /\ ReadingInv'
    BY DEF IInv, TypeOK, StampsOrdered, StepInv, ReadingInv
  <2>2. RemovedFirst' /\ RemovedInv' /\ GivenInv' /\ ArgumentsLookForward'
    BY DEF IInv, RemovedFirst, RemovedInv, GivenInv, HasReference, ArgumentsLookForward
  <2> QED  BY <2>1, <2>2 DEF IInv
<1> QED  BY <1>1, <1>2, <1>3, <1>4, <1>5 DEF Next, Update

\* The invariant holds in every reachable state.
THEOREM Invariance == Spec => []IInv
<1>1. Init => IInv
  BY InitIInv
<1>2. IInv /\ [Next]_vars => IInv'
  BY NextKeeps
<1> QED  BY <1>1, <1>2, PTL DEF Spec

-----------------------------------------------------------------------------
(* Theorems *)

\* Cells, patches and marks keep their types at every lock of every update (handles.rs).
THEOREM Typing == Spec => []TypeOK
<1>1. IInv => TypeOK
  BY DEF IInv
<1> QED  BY <1>1, Invariance, PTL

\* Because apply_upsert writes the reference, then the owner, then the tombstone, and a
\* conversion reads them the other way round, a conversion that meets a half done
\* update is never behind with what it reads last.
THEOREM LookingForward == Spec => []ArgumentsLookForward
<1>1. IInv => ArgumentsLookForward
  BY DEF IInv
<1> QED  BY <1>1, Invariance, PTL

\* Because apply_patch sets every tombstone before it writes any object, a reader that
\* has a new reference finds the handles the same update removed tombstoned.
THEOREM RemovalFirst == Spec => RemovedBeforeWritten
<1>1. ASSUME IInv, [Next]_vars, NEW r \in Readers, NEW id \in Ids,
             Begins(r, id), given[r] # None, removed[id] \in 1..given[r].referenced
      PROVE  reading'[r].cleared > removed[id]
  <2>1. /\ removed[id] \in Nat /\ removed[id] # 0 /\ removed[id] <= updates
        /\ updates \in Nat /\ given[r].referenced \in Nat
        /\ removed[id] <= given[r].referenced
    BY <1>1 DEF IInv, TypeOK, RemovedInv, GivenInv
  <2>2. CheckTombstone(r, id) /\ cells[id].tombstone = None
    <3>1. DOMAIN reading = Readers /\ DOMAIN given = Readers
      BY <1>1 DEF IInv, TypeOK
    <3>2. reading' # reading
      BY <1>1 DEF Begins
    <3>3. ~Update /\ ~UNCHANGED vars
      BY <3>2 DEF Update, BeginPatch, BeginIntern, BeginTombstone, Begin, SetTombstoneReason,
                  WriteReference, WriteOwner, ClearTombstone, Settle, vars
    <3>4. PICK x \in Readers : Convert(x)
      BY <1>1, <3>3 DEF Next
    <3>5. \A y \in Readers : y # x => reading'[y] = reading[y]
      BY <3>1, <3>4 DEF Convert, CheckTombstone, LockOwner, ReadReference
    <3>6. x = r
      BY <1>1, <3>5 DEF Begins
    <3>7. PICK i \in Ids : CheckTombstone(r, i)
      BY <1>1, <3>4, <3>6 DEF Begins, Convert, LockOwner, ReadReference
    <3>8. cells[i].tombstone = None /\ reading'[r].id = i
      BY <1>1, <3>1, <3>7 DEF Begins, CheckTombstone
    <3> QED  BY <1>1, <3>7, <3>8 DEF Begins
  <2>3. reading'[r].cleared = stamps[id].tombstone
    BY <1>1, <2>2 DEF CheckTombstone, IInv, TypeOK
  <2>4. todo.tombstones[id] = None
    <3> SUFFICES ASSUME todo.tombstones[id] # None PROVE FALSE
      OBVIOUS
    <3>1. todo.tombstones # Untracked /\ removed[id] = updates
      BY <1>1 DEF Untracked, IInv, RemovedInv
    <3>2. given[r].referenced < updates
      BY <1>1, <3>1 DEF IInv, RemovedFirst
    <3> QED  BY <2>1, <3>1, <3>2
  <2>5. stamps[id].tombstone > removed[id]
    BY <1>1, <2>1, <2>2, <2>4 DEF IInv, RemovedInv
  <2> QED  BY <2>3, <2>5
<1>2. IInv /\ [Next]_vars =>
        \A r \in Readers : \A id \in Ids :
          (Begins(r, id) /\ given[r] # None /\ removed[id] \in 1..given[r].referenced)
            => reading'[r].cleared > removed[id]
  BY <1>1
<1> QED  BY <1>2, Invariance, PTL DEF Spec, RemovedBeforeWritten

\* Because update_reference drops an older reference and locks one field at a time,
\* what one reader gets from one handle never goes back.
THEOREM GoingForward == Spec => ReferencesGoForward
<1>1. ASSUME IInv, [Next]_vars, NEW r \in Readers, SameHandle(given[r], given'[r]),
             HasReference(given[r]), HasReference(given'[r])
      PROVE  given'[r].arg.version >= given[r].arg.version
  <2>1. /\ given[r] # None /\ given'[r] # None /\ given'[r].id = given[r].id
        /\ given[r].arg.version \in Nat
        /\ given[r].arg.version <= cells[given[r].id].version
    BY <1>1 DEF IInv, GivenInv, SameHandle
  <2>2. CASE given'[r] = given[r]
    BY <2>1, <2>2
  <2>3. CASE given'[r] # given[r]
    <3>1. DOMAIN reading = Readers /\ DOMAIN given = Readers
      BY <1>1 DEF IInv, TypeOK
    <3>2. ~Update /\ ~UNCHANGED vars
      BY <2>3 DEF Update, BeginPatch, BeginIntern, BeginTombstone, Begin, SetTombstoneReason,
                  WriteReference, WriteOwner, ClearTombstone, Settle, vars
    <3>3. PICK x \in Readers : Convert(x)
      BY <1>1, <3>2 DEF Next
    <3>4. ReadReference(x)
      BY <2>1, <2>3, <3>1, <3>3 DEF Convert, CheckTombstone, LockOwner
    <3>5. x = r
      BY <1>1, <2>3, <3>4, ReadReferenceGives
    <3>6. given'[r].arg.version = cells[given[r].id].version
      BY <1>1, <2>1, <3>4, <3>5, ReadReferenceGives
    <3> QED  BY <2>1, <3>6
  <2> QED  BY <2>2, <2>3
<1>2. IInv /\ [Next]_vars =>
        \A r \in Readers :
          (SameHandle(given[r], given'[r]) /\ HasReference(given[r]) /\ HasReference(given'[r]))
            => given'[r].arg.version >= given[r].arg.version
  BY <1>1
<1> QED  BY <1>2, Invariance, PTL DEF Spec, ReferencesGoForward
-----------------------------------------------------------------------------
(* Updates end whole *)

\* An upsert does to a cell, some of whose fields it has written, what it did before.
LEMMA UpsertAgain ==
  ASSUME NEW cell \in ObjectCell, NEW upsert \in Upsert
  PROVE  /\ ApplyUpsert(SetReference(cell, upsert.version), upsert) = ApplyUpsert(cell, upsert)
         /\ SetReference(cell, upsert.version).version >= upsert.version
         /\ ApplyUpsert([cell EXCEPT !.owner = IF upsert.owner = None THEN @
                                               ELSE upsert.owner], upsert)
              = ApplyUpsert(cell, upsert)
         /\ cell.version >= upsert.version /\ upsert.owner \in {None, cell.owner}
              => ApplyUpsert(cell, upsert) = [cell EXCEPT !.tombstone = None]
<1>1. cell.version \in Nat /\ upsert.version \in Nat
  BY DEF ObjectCell, Upsert
<1>2. cell = [version |-> cell.version, owner |-> cell.owner, tombstone |-> cell.tombstone]
  BY DEF ObjectCell
<1>3. cell.version >= upsert.version => SetReference(cell, upsert.version) = cell
  BY <1>1, <1>2 DEF SetReference
<1>4. cell.version < upsert.version =>
        SetReference(cell, upsert.version)
          = [version |-> upsert.version, owner |-> cell.owner, tombstone |-> cell.tombstone]
  BY <1>1, <1>2 DEF SetReference
<1>5. SetReference(SetReference(cell, upsert.version), upsert.version)
        = SetReference(cell, upsert.version)
  BY <1>1, <1>3, <1>4 DEF SetReference
<1>6. ApplyUpsert(SetReference(cell, upsert.version), upsert) = ApplyUpsert(cell, upsert)
  BY <1>5 DEF ApplyUpsert
<1>7. SetReference(cell, upsert.version).version >= upsert.version
  BY <1>1, <1>3, <1>4
<1>8. ApplyUpsert([cell EXCEPT !.owner = IF upsert.owner = None THEN @ ELSE upsert.owner], upsert)
        = ApplyUpsert(cell, upsert)
  BY <1>1, <1>2 DEF ApplyUpsert, SetReference
<1>9. cell.version >= upsert.version /\ upsert.owner \in {None, cell.owner}
        => ApplyUpsert(cell, upsert) = [cell EXCEPT !.tombstone = None]
  BY <1>2, <1>3 DEF ApplyUpsert
<1> QED  BY <1>6, <1>7, <1>8, <1>9

LEMMA InitWhole == Init /\ TypeOK => WholeInv
<1> SUFFICES ASSUME Init, TypeOK PROVE WholeInv
  OBVIOUS
<1>1. cells \in [Ids -> ObjectCell] /\ whole = cells /\ todo = NoPatch /\ upserting = None
  BY DEF Init, TypeOK
<1>2. \A id \in Ids : todo.tombstones[id] = None /\ todo.upserts[id] = None
  BY <1>1 DEF NoPatch, Untracked
<1>3. ApplyPatch(cells, todo) = cells
  BY <1>1, <1>2, CellAssumption DEF ApplyPatch
<1> QED  BY <1>1, <1>2, <1>3 DEF WholeInv

\* The three ways to begin an update leave, in the end, what their patch says.
LEMMA BeginWhole ==
  ASSUME TypeOK, NEW patch, NEW result, Begin(patch, result),
         result = ApplyPatch(cells, patch),
         \A id \in Ids : patch.tombstones[id] = None \/ patch.upserts[id] = None
  PROVE  WholeInv'
<1>1. upserting' = None /\ todo' = patch /\ whole' = result /\ cells' = cells
  BY DEF Begin, Writing
<1>2. whole' = ApplyPatch(cells', todo')
  BY <1>1
<1>3. ApplyPatch(cells', todo') = ApplyPatch(cells, todo)'
  BY DEF ApplyPatch, ApplyUpsert, SetReference
<1> QED  BY <1>1, <1>2, <1>3 DEF WholeInv

LEMMA BeginPatchWhole == ASSUME TypeOK, BeginPatch PROVE WholeInv'
<1>1. PICK written \in SUBSET Ids, gone \in SUBSET Ids :
        /\ written \cap gone = {}
        /\ \E owners \in [written -> HandleOwners], reasons \in [gone -> {"Deleted", "Wrapped"}] :
             LET patch == PatchOf(written, owners, gone, reasons) IN
             Begin(patch, ApplyPatch(cells, patch))
  BY DEF BeginPatch
<1>2. PICK owners \in [written -> HandleOwners], reasons \in [gone -> {"Deleted", "Wrapped"}] :
        Begin(PatchOf(written, owners, gone, reasons),
              ApplyPatch(cells, PatchOf(written, owners, gone, reasons)))
  BY <1>1
<1>3. \A id \in Ids : \/ PatchOf(written, owners, gone, reasons).tombstones[id] = None
                      \/ PatchOf(written, owners, gone, reasons).upserts[id] = None
  BY <1>1 DEF PatchOf
<1> QED  BY <1>2, <1>3, BeginWhole

LEMMA BeginInternWhole == ASSUME TypeOK, NEW id \in Ids, BeginIntern(id) PROVE WholeInv'
<1>1. PICK version \in 1..(updates + 1), owner \in HandleOwners :
        Begin([NoPatch EXCEPT !.upserts[id] = [version |-> version, owner |-> owner]],
              InternCell(cells, id, version, owner))
  BY DEF BeginIntern
<1> DEFINE upsert == [version |-> version, owner |-> owner]
           patch == [NoPatch EXCEPT !.upserts[id] = upsert]
<1>2. cells \in [Ids -> ObjectCell] /\ upsert \in Upsert /\ owner # None
  BY HandlesAssumption, NoneIsNone DEF Upsert, TypeOK
<1>3. \A i \in Ids : /\ patch.tombstones[i] = None
                     /\ patch.upserts[i] = IF i = id THEN upsert ELSE None
  BY DEF NoPatch, Untracked
<1>4. InternCell(cells, id, version, owner)
        = [i \in Ids |-> IF i = id THEN ApplyUpsert(cells[i], upsert) ELSE cells[i]]
  BY <1>2, CellAssumption DEF InternCell, ApplyUpsert
<1>5. ApplyPatch(cells, patch)
        = [i \in Ids |-> IF i = id THEN ApplyUpsert(cells[i], upsert) ELSE cells[i]]
  <2> HIDE DEF patch
  <2>1. upsert # None /\ \A i \in Ids : cells[i] # None
    BY <1>2, NoneIsNone, CellAssumption
  <2> HIDE DEF upsert
  <2> QED  BY <1>3, <2>1 DEF ApplyPatch
<1>6. InternCell(cells, id, version, owner) = ApplyPatch(cells, patch)
  BY <1>4, <1>5
<1> QED  BY <1>1, <1>3, <1>6, BeginWhole

LEMMA BeginTombstoneWhole == ASSUME TypeOK, NEW id \in Ids, BeginTombstone(id) PROVE WholeInv'
<1> DEFINE patch == [NoPatch EXCEPT !.tombstones[id] = "NotExist"]
<1>1. cells \in [Ids -> ObjectCell] /\ "NotExist" # None
  BY NoneIsNone DEF TypeOK, TombstoneReason
<1>2. \A i \in Ids : /\ patch.upserts[i] = None
                     /\ patch.tombstones[i] = IF i = id THEN "NotExist" ELSE None
  BY DEF NoPatch, Untracked
<1>3. TombstoneId(cells, id, "NotExist") = ApplyPatch(cells, patch)
  <2> HIDE DEF patch
  <2> QED  BY <1>1, <1>2, CellAssumption DEF TombstoneId, ApplyPatch
<1> QED  BY <1>2, <1>3, BeginWhole DEF BeginTombstone

\* A lock's worth of the update takes from what is left what it adds to the cells.
LEMMA SameWhole ==
  ASSUME WholeInv, TypeOK, whole' = whole,
         cells' \in [Ids -> ObjectCell],
         todo'.tombstones \in [Ids -> TombstoneReason \cup {None}],
         todo'.upserts \in [Ids -> Upsert \cup {None}],
         NEW id \in Ids,
         \A i \in Ids \ {id} : /\ cells'[i] = cells[i]
                               /\ todo'.tombstones[i] = todo.tombstones[i]
                               /\ todo'.upserts[i] = todo.upserts[i],
         ApplyPatch(cells', todo')[id] = ApplyPatch(cells, todo)[id]
  PROVE  whole' = ApplyPatch(cells, todo)'
<1>1. ASSUME NEW i \in Ids \ {id} PROVE ApplyPatch(cells', todo')[i] = ApplyPatch(cells, todo)[i]
  BY <1>1 DEF ApplyPatch
<1>2. ApplyPatch(cells', todo') = ApplyPatch(cells, todo)
  BY <1>1 DEF ApplyPatch
<1>3. ApplyPatch(cells', todo') = ApplyPatch(cells, todo)'
  BY DEF ApplyPatch, ApplyUpsert, SetReference
<1> QED  BY <1>2, <1>3 DEF WholeInv

LEMMA SetTombstoneReasonWhole ==
  ASSUME TypeOK, TypeOK', WholeInv, NEW id \in Ids, SetTombstoneReason(id) PROVE WholeInv'
<1> USE DEF SetTombstoneReason
<1>1. /\ cells \in [Ids -> ObjectCell] /\ cells' \in [Ids -> ObjectCell]
      /\ todo \in EffectsPatch /\ todo' \in EffectsPatch
      /\ upserting = None /\ todo.tombstones[id] # None
      /\ cells'[id] = [cells[id] EXCEPT !.tombstone = todo.tombstones[id]]
  BY DEF TypeOK
<1>2. /\ todo'.upserts = todo.upserts /\ todo'.tombstones[id] = None
      /\ \A i \in Ids \ {id} : /\ cells'[i] = cells[i]
                               /\ todo'.tombstones[i] = todo.tombstones[i]
      /\ todo.upserts[id] = None
  BY <1>1 DEF EffectsPatch, WholeInv
<1>3. ApplyPatch(cells', todo')[id] = ApplyPatch(cells, todo)[id]
  BY <1>1, <1>2, CellAssumption DEF ApplyPatch
<1>4. whole' = ApplyPatch(cells, todo)'
  BY <1>1, <1>2, <1>3, SameWhole DEF EffectsPatch
<1> QED  BY <1>1, <1>2, <1>4 DEF WholeInv

LEMMA UpsertWhole ==
  ASSUME TypeOK, TypeOK', StepInv, WholeInv, NEW id \in Ids,
         WriteReference(id) \/ WriteOwner(id) \/ ClearTombstone(id)
  PROVE  WholeInv'
<1> DEFINE upsert == todo.upserts[id]
<1>1. /\ cells \in [Ids -> ObjectCell] /\ cells' \in [Ids -> ObjectCell]
      /\ todo \in EffectsPatch /\ todo' \in EffectsPatch /\ step \in 1..3
  BY DEF TypeOK
<1>2. /\ upsert # None /\ upsert \in Upsert /\ upserting \in {None, id}
      /\ todo.tombstones = Untracked
  BY <1>1 DEF WriteReference, WriteOwner, ClearTombstone, At, EffectsPatch, TombstonesFirst
<1>3. cells[id] \in ObjectCell /\ cells'[id] \in ObjectCell
      /\ cells[id] # None /\ cells'[id] # None
  BY <1>1, CellAssumption
<1>4. ApplyPatch(cells, todo)[id] = ApplyUpsert(cells[id], upsert)
  BY <1>2, <1>3 DEF ApplyPatch, Untracked
<1>5. /\ whole' = whole /\ todo'.tombstones = todo.tombstones
      /\ \A i \in Ids \ {id} : cells'[i] = cells[i] /\ todo'.upserts[i] = todo.upserts[i]
  BY <1>1 DEF WriteReference, WriteOwner, ClearTombstone, Settle, EffectsPatch
<1>6. \A i \in Ids : todo'.tombstones[i] = None
  BY <1>2, <1>5 DEF Untracked
<1>7. CASE WriteReference(id)
  <2>1. step = 1 /\ step' = 2 /\ upserting' = id /\ todo' = todo
    BY <1>1, <1>7 DEF WriteReference, At, UpdateOrder, Settle
  <2>2. cells'[id] = SetReference(cells[id], upsert.version)
    BY <1>1, <1>7 DEF WriteReference
  <2>3. ApplyPatch(cells', todo')[id] = ApplyPatch(cells, todo)[id]
    BY <1>2, <1>3, <1>4, <1>6, <2>1, <2>2, UpsertAgain DEF ApplyPatch
  <2>4. whole' = ApplyPatch(cells, todo)'
    BY <1>1, <1>5, <2>3, SameWhole DEF EffectsPatch
  <2>5. cells'[id].version >= upsert.version
    BY <1>2, <1>3, <2>2, UpsertAgain
  <2> QED  BY <1>6, <2>1, <2>4, <2>5 DEF WholeInv
<1>8. CASE WriteOwner(id)
  <2>1. step = 2 /\ step' = 3 /\ upserting = id /\ upserting' = id /\ todo' = todo
    BY <1>1, <1>2, <1>8 DEF WriteOwner, At, UpdateOrder, Settle, StepInv
  <2>2. cells'[id] = [cells[id] EXCEPT !.owner = IF upsert.owner = None THEN @ ELSE upsert.owner]
    BY <1>1, <1>8 DEF WriteOwner
  <2>3. ApplyPatch(cells', todo')[id] = ApplyPatch(cells, todo)[id]
    BY <1>2, <1>3, <1>4, <1>6, <2>1, <2>2, UpsertAgain DEF ApplyPatch
  <2>4. whole' = ApplyPatch(cells, todo)'
    BY <1>1, <1>5, <2>3, SameWhole DEF EffectsPatch
  <2>5. cells[id].version >= upsert.version
    BY <2>1, HandlesAssumption DEF WholeInv
  <2>6. cells'[id].version = cells[id].version /\ upsert.owner \in {None, cells'[id].owner}
    BY <1>3, <2>2 DEF ObjectCell
  <2> QED  BY <1>6, <2>1, <2>4, <2>5, <2>6 DEF WholeInv
<1>9. CASE ClearTombstone(id)
  <2>1. /\ step = 3 /\ step' = 1 /\ upserting = id /\ upserting' = None
        /\ todo'.upserts[id] = None
    BY <1>1, <1>2, <1>9 DEF ClearTombstone, At, UpdateOrder, Settle, StepInv, EffectsPatch
  <2>2. cells'[id] = [cells[id] EXCEPT !.tombstone = None]
    BY <1>1, <1>9 DEF ClearTombstone
  <2>3. cells[id].version >= upsert.version /\ upsert.owner \in {None, cells[id].owner}
    BY <2>1, HandlesAssumption DEF WholeInv
  <2>4. ApplyUpsert(cells[id], upsert) = cells'[id]
    BY <1>2, <1>3, <2>2, <2>3, UpsertAgain
  <2>5. ApplyPatch(cells', todo')[id] = ApplyPatch(cells, todo)[id]
    BY <1>3, <1>4, <1>6, <2>1, <2>4 DEF ApplyPatch
  <2>6. whole' = ApplyPatch(cells, todo)'
    BY <1>1, <1>5, <2>5, SameWhole DEF EffectsPatch
  <2> QED  BY <1>6, <2>1, <2>6 DEF WholeInv
<1> QED  BY <1>7, <1>8, <1>9

LEMMA WholeStep == IInv /\ IInv' /\ WholeInv /\ [Next]_vars => WholeInv'
<1> SUFFICES ASSUME IInv, IInv', WholeInv, [Next]_vars PROVE WholeInv'
  OBVIOUS
<1>1. TypeOK /\ TypeOK' /\ StepInv
  BY DEF IInv
<1>2. CASE BeginPatch
  BY <1>1, <1>2, BeginPatchWhole
<1>3. ASSUME NEW id \in Ids, BeginIntern(id) \/ BeginTombstone(id) PROVE WholeInv'
  BY <1>1, <1>3, BeginInternWhole, BeginTombstoneWhole
<1>4. ASSUME NEW id \in Ids,
             \/ SetTombstoneReason(id) \/ WriteReference(id)
             \/ WriteOwner(id) \/ ClearTombstone(id)
      PROVE  WholeInv'
  BY <1>1, <1>4, SetTombstoneReasonWhole, UpsertWhole
<1>5. CASE UNCHANGED writerVars
  BY <1>5 DEF WholeInv, writerVars, ApplyPatch, ApplyUpsert, SetReference
<1>6. ASSUME NEW r \in Readers, Convert(r) PROVE UNCHANGED writerVars
  BY <1>6 DEF Convert, CheckTombstone, LockOwner, ReadReference
<1> QED  BY <1>2, <1>3, <1>4, <1>5, <1>6 DEF Next, Update, vars

\* Field by field and lock by lock, in any order of the objects, an update leaves the
\* cells as apply_patch, intern_cell or tombstone would have left them at once.
THEOREM EndingWhole == Spec => []UpdatesEndWhole
<1>1. Init => WholeInv
  BY InitIInv, InitWhole DEF IInv
<1>2. IInv /\ WholeInv => UpdatesEndWhole
  <2> SUFFICES ASSUME IInv, WholeInv, ~Writing PROVE cells = whole
    BY DEF UpdatesEndWhole
  <2>1. cells \in [Ids -> ObjectCell] /\ todo = NoPatch
    BY DEF IInv, TypeOK, Writing
  <2>2. ApplyPatch(cells, todo) = cells
    BY <2>1, CellAssumption DEF ApplyPatch, NoPatch, Untracked
  <2> QED  BY <2>2 DEF WholeInv
<1> QED  BY <1>1, <1>2, WholeStep, Invariance, PTL DEF Spec
=============================================================================
