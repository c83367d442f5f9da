--------------------------- MODULE SubmissionProofs ---------------------------
(***************************************************************************)
(* Proofs about Cursor, for any set of objects and any ledger, and about   *)
(* Submission on top of it.  A commit taken apart into request, execution  *)
(* and answer still does to the cursor only what module Cursor allows.     *)
(* What makes it so is NothingLater: while a commit waits nothing else     *)
(* teaches the cursor, so its own transaction is the latest thing there is *)
(* to learn when its answer comes.                                         *)
(***************************************************************************)
EXTENDS Submission, TLAPS

USE NoneAssumption, CellAssumption, ChainAssumption, CursorAssumption

-----------------------------------------------------------------------------
(* The chain *)

\* An object as the chain keeps it under id.
WellFormed(id, obj) ==
  /\ obj \in ChainObject
  /\ obj.status = "live" => obj.owner \in Owner
  /\ obj.status = "absent" => obj.version = 0
  /\ IF id \in PackageIds THEN obj.status \in {"absent", "package"}
                          ELSE obj.status # "package"

Store == [Ids -> ChainObject]

StoreOK(store) == store \in Store /\ \A id \in Ids : WellFormed(id, store[id])

\* One transaction leaves an object alone, or writes it at the lamport version, or
\* removes it; the version never goes back.
LEMMA OutcomeFacts ==
  ASSUME NEW id \in Ids, NEW obj, WellFormed(id, obj),
         NEW lamport \in Nat, obj.version < lamport,
         NEW next \in Outcomes(id, obj, lamport)
  PROVE  /\ WellFormed(id, next)
         /\ obj.version <= next.version
         /\ next.version <= lamport
         /\ next # obj => CASE next.status = "live"    -> next.version = lamport
                            [] next.status = "package" -> id \in PackageIds
                            [] next.status = "wrapped" -> obj.status = "live"
                            [] next.status = "deleted" -> obj.status \in {"live", "wrapped"}
                            [] OTHER -> FALSE
         /\ next # obj /\ next.status = "live" => obj.status \in {"absent", "live", "wrapped"}
<1> USE DEF WellFormed, ChainObject
<1> DEFINE written == {Live(lamport, owner) : owner \in NextOwners(obj, lamport)}
           deleted == [obj EXCEPT !.status = "deleted", !.owner = None]
           wrapped == [obj EXCEPT !.status = "wrapped", !.owner = None]
<1>1. ASSUME next \in written
      PROVE  /\ next \in ChainObject
             /\ next.status = "live" /\ next.version = lamport /\ next.owner \in Owner
  BY <1>1 DEF NextOwners, Owner, OwnerKind, SharedLike, Live
<1>2. deleted \in ChainObject /\ deleted.status = "deleted" /\ deleted.version = obj.version
  OBVIOUS
<1>3. wrapped \in ChainObject /\ wrapped.status = "wrapped" /\ wrapped.version = obj.version
  OBVIOUS
<1>4. CASE obj.status = "absent"
  <2>1. next = obj \/ (id \in PackageIds /\ next = Package) \/ (id \notin PackageIds /\ next \in written)
    BY <1>4 DEF Outcomes
  <2> QED  BY <1>1, <1>4, <2>1 DEF Package
<1>5. CASE obj.status = "wrapped"
  <2>1. next = obj \/ next = deleted \/ next \in written
    BY <1>5 DEF Outcomes
  <2>2. CASE next = obj
    BY <1>5, <2>2
  <2>3. CASE next = deleted
    <3> HIDE DEF deleted
    <3> QED  BY <1>2, <1>5, <2>3
  <2>4. CASE next \in written
    <3> HIDE DEF written
    <3> QED  BY <1>1, <1>5, <2>4
  <2> QED  BY <2>1, <2>2, <2>3, <2>4
<1>6. CASE obj.status = "live"
  <2>1. \/ next = obj \/ next = deleted \/ next = wrapped \/ next \in written
        \/ next = Live(lamport, obj.owner)
    BY <1>6 DEF Outcomes
  <2>2. Live(lamport, obj.owner) \in ChainObject
    BY <1>6 DEF Live
  <2>3. CASE next = obj
    BY <1>6, <2>3
  <2>4. CASE next = deleted
    <3> HIDE DEF deleted
    <3> QED  BY <1>2, <1>6, <2>4
  <2>5. CASE next = wrapped
    <3> HIDE DEF wrapped
    <3> QED  BY <1>3, <1>6, <2>5
  <2>6. CASE next \in written
    <3> HIDE DEF written
    <3> QED  BY <1>1, <1>6, <2>6
  <2>7. CASE next = Live(lamport, obj.owner)
    BY <1>6, <2>2, <2>7 DEF Live
  <2> QED  BY <2>1, <2>3, <2>4, <2>5, <2>6, <2>7
<1>7. CASE obj.status \in {"deleted", "package"}
  <2>1. next = obj  BY <1>7 DEF Outcomes
  <2> QED  BY <1>7, <2>1
<1> QED  BY <1>4, <1>5, <1>6, <1>7

LEMMA SuccessorFacts ==
  ASSUME NEW pre, StoreOK(pre), NEW lamport \in Nat,
         \A id \in Ids : pre[id].version < lamport,
         NEW post \in Successors(pre, lamport)
  PROVE  /\ StoreOK(post)
         /\ \A id \in Ids : /\ pre[id].version <= post[id].version
                            /\ post[id].version <= lamport
         /\ \A id \in Ids : post[id] \in Outcomes(id, pre[id], lamport)
<1>1. \A id \in Ids : post[id] \in Outcomes(id, pre[id], lamport)
  BY DEF Successors
<1>2. \A id \in Ids : /\ WellFormed(id, post[id])
                      /\ pre[id].version <= post[id].version
                      /\ post[id].version <= lamport
  BY <1>1, OutcomeFacts DEF StoreOK
<1>3. post \in Store
  BY <1>2 DEF Successors, Store, WellFormed
<1> QED  BY <1>1, <1>2, <1>3 DEF StoreOK

-----------------------------------------------------------------------------
(* Patches *)

\* A reference and its owner are not the absent value.
LEMMA UpsertIsSome ==
  ASSUME NEW version \in Nat, NEW owner \in Owner \cup {None}
  PROVE  [version |-> version, owner |-> owner] \in Upsert
BY DEF Upsert

LEMMA V2PatchDescribes ==
  ASSUME NEW pre, StoreOK(pre), NEW lamport \in Nat,
         \A id \in Ids : pre[id].version < lamport,
         NEW post \in Successors(pre, lamport)
  PROVE  LET patch == PatchFromV2(AsEffectsV2(pre, post, lamport))
         IN  patch \in EffectsPatch /\ PatchDescribes(patch, pre, post)
<1> DEFINE fx == AsEffectsV2(pre, post, lamport)
           patch == PatchFromV2(fx)
<1>1. StoreOK(post) /\ \A id \in Ids : post[id] \in Outcomes(id, pre[id], lamport)
  BY SuccessorFacts
<1>2. ASSUME NEW id \in Ids
      PROVE  /\ patch.upserts[id] \in Upsert \cup {None}
             /\ patch.tombstones[id] \in TombstoneReason \cup {None}
             /\ pre[id] = post[id] => patch.upserts[id] = None /\ patch.tombstones[id] = None
             /\ pre[id] # post[id] /\ post[id].status = "live" =>
                  /\ patch.upserts[id] = [version |-> post[id].version, owner |-> post[id].owner]
                  /\ patch.tombstones[id] = None
             /\ pre[id] # post[id] /\ post[id].status \in {"wrapped", "deleted"} =>
                  patch.tombstones[id] # None
  <2> DEFINE obj == post[id]
  <2>1. WellFormed(id, obj)  BY <1>1 DEF StoreOK
  <2> DEFINE change ==
               [output       |-> CASE obj.status = "live"    -> "ObjectWrite"
                                   [] obj.status = "package" -> "PackageWrite"
                                   [] OTHER                  -> "NotExist",
                id_operation |-> CASE pre[id].status = "absent" -> "Created"
                                   [] obj.status = "deleted"    -> "Deleted"
                                   [] OTHER                     -> "None",
                owner        |-> obj.owner,
                version      |-> obj.version]
  <2>c. change \in ChangedObject /\ change # None
    BY <2>1 DEF ChangedObject, WellFormed, ChainObject
  <2>d. pre[id] # post[id] => fx.changed[id] = change
    BY DEF AsEffectsV2
  <2>2. CASE pre[id] = post[id]
    <3>1. fx.changed[id] = None  BY <2>2 DEF AsEffectsV2
    <3> QED  BY <2>2, <3>1 DEF PatchFromV2
  <2>3. CASE pre[id] # post[id] /\ obj.status = "live"
    <3>1. fx.changed[id] # None /\ fx.lamport_version = lamport
          /\ fx.changed[id].output = "ObjectWrite" /\ fx.changed[id].owner = obj.owner
      BY <2>3, <2>c, <2>d DEF AsEffectsV2
    <3>2. obj.version = lamport
      BY <1>1, <2>3, OutcomeFacts DEF StoreOK
    <3> DEFINE up == [version |-> lamport, owner |-> obj.owner]
    <3>3. V2ChangeToUpsert(fx.changed[id], fx.lamport_version) = up /\ up \in Upsert /\ up # None
      BY <2>1, <2>3, <3>1, UpsertIsSome DEF V2ChangeToUpsert, WellFormed
    <3>4. patch.upserts[id] = up /\ patch.tombstones[id] = None
      BY <3>1, <3>3 DEF PatchFromV2
    <3> QED  BY <2>3, <3>2, <3>3, <3>4
  <2>4. CASE pre[id] # post[id] /\ obj.status \in {"wrapped", "deleted"}
    <3>1. fx.changed[id] # None /\ fx.changed[id].output = "NotExist"
      BY <2>4, <2>c, <2>d
    <3>2. /\ V2ChangeToUpsert(fx.changed[id], fx.lamport_version) = None
          /\ V2ChangeToTombstoneReason(fx.changed[id]) = "NotExist"
      BY <3>1 DEF V2ChangeToUpsert, V2ChangeToTombstoneReason
    <3>3. "NotExist" \in TombstoneReason /\ "NotExist" # None
      BY DEF TombstoneReason
    <3>4. patch.upserts[id] = None /\ patch.tombstones[id] = "NotExist"
      BY <3>1, <3>2, <3>3 DEF PatchFromV2
    <3> QED  BY <2>4, <3>3, <3>4
  <2>5. CASE pre[id] # post[id] /\ obj.status \in {"absent", "package"}
    <3>1. fx.changed[id] # None /\ fx.changed[id].version = obj.version
          /\ fx.changed[id].output \in {"PackageWrite", "NotExist"}
      BY <2>5, <2>c, <2>d
    <3>2. V2ChangeToUpsert(fx.changed[id], fx.lamport_version) \in Upsert \cup {None}
      BY <2>1, <3>1, UpsertIsSome DEF V2ChangeToUpsert, WellFormed, ChainObject
    <3>3. V2ChangeToTombstoneReason(fx.changed[id]) \in TombstoneReason \cup {None}
      BY DEF V2ChangeToTombstoneReason, TombstoneReason
    <3>4. patch.upserts[id] \in Upsert \cup {None} /\ patch.tombstones[id] \in TombstoneReason \cup {None}
      BY <3>1, <3>2, <3>3 DEF PatchFromV2
    <3> QED  BY <2>5, <3>4
  <2> QED  BY <2>1, <2>2, <2>3, <2>4, <2>5 DEF WellFormed, ChainObject
<1>3. patch \in EffectsPatch
  BY <1>2 DEF PatchFromV2, EffectsPatch
<1> QED  BY <1>2, <1>3 DEF PatchDescribes

\* The four lists of a V1 effects hold, for one id, the same reference or none: the
\* merge keeps it.
LEMMA ExtendKeeps ==
  ASSUME NEW out, NEW refs, NEW id \in Ids, NEW up \in Upsert,
         out[id] \in {None, up}, refs[id] \in {None, up}
  PROVE  ExtendV1Upserts(out, refs)[id] =
           IF out[id] = None /\ refs[id] = None THEN None ELSE up
<1>1. up # None /\ up.version >= up.version
  BY DEF Upsert
<1> QED  BY <1>1 DEF ExtendV1Upserts

LEMMA V1PatchDescribes ==
  ASSUME NEW pre, StoreOK(pre), NEW lamport \in Nat,
         \A id \in Ids : pre[id].version < lamport,
         NEW post \in Successors(pre, lamport),
         NEW gas \in SUBSET GasObjects(pre, post)
  PROVE  LET patch == PatchFromV1(AsEffectsV1(pre, post, gas))
         IN  patch \in EffectsPatch /\ PatchDescribes(patch, pre, post)
<1> DEFINE fx == AsEffectsV1(pre, post, gas)
           patch == PatchFromV1(fx)
<1>1. StoreOK(post) /\ \A id \in Ids : post[id] \in Outcomes(id, pre[id], lamport)
  BY SuccessorFacts
<1>2. ASSUME NEW id \in Ids
      PROVE  /\ patch.upserts[id] \in Upsert \cup {None}
             /\ patch.tombstones[id] \in TombstoneReason \cup {None}
             /\ pre[id] = post[id] => patch.upserts[id] = None /\ patch.tombstones[id] = None
             /\ pre[id] # post[id] /\ post[id].status = "live" =>
                  /\ patch.upserts[id] = [version |-> post[id].version, owner |-> post[id].owner]
                  /\ patch.tombstones[id] = None
             /\ pre[id] # post[id] /\ post[id].status \in {"wrapped", "deleted"} =>
                  patch.tombstones[id] # None
  <2> DEFINE obj == post[id]
             up == [version |-> obj.version,
                    owner   |-> IF obj.status = "package"
                                  THEN [kind |-> "Immutable", start |-> 0] ELSE obj.owner]
  <2>1. WellFormed(id, obj) /\ WellFormed(id, pre[id])  BY <1>1 DEF StoreOK
  <2>2. /\ fx.created[id] = IF id \in Moved(pre, post, {"absent"}, {"live", "package"}) THEN up ELSE None
        /\ fx.mutated[id] = IF id \in Moved(pre, post, {"live"}, {"live"}) THEN up ELSE None
        /\ fx.unwrapped[id] = IF id \in Moved(pre, post, {"wrapped"}, {"live"}) THEN up ELSE None
        /\ fx.gas_object[id] = IF id \in gas THEN up ELSE None
    BY DEF AsEffectsV1, RefsOf
  <2>3. gas \subseteq Moved(pre, post, {"live"}, {"live"})
    BY DEF GasObjects
  <2> DEFINE written == pre[id] # obj /\ obj.status \in {"live", "package"}
  <2>4. written => /\ obj.status = "live" => pre[id].status \in {"absent", "live", "wrapped"}
                   /\ obj.status = "package" => pre[id].status = "absent"
    <3>1. pre[id] # obj /\ obj.status = "package" => pre[id].status = "absent"
      BY <2>1, <1>1 DEF WellFormed, Outcomes, Package
    <3> QED  BY <1>1, <3>1, OutcomeFacts DEF StoreOK
  <2>5. /\ written => up \in Upsert
        /\ ~written => /\ fx.created[id] = None /\ fx.mutated[id] = None
                       /\ fx.unwrapped[id] = None /\ fx.gas_object[id] = None
    <3>1. [kind |-> "Immutable", start |-> 0] \in Owner  BY DEF Owner, OwnerKind
    <3>2. written => up \in Upsert
      BY <2>1, <3>1, UpsertIsSome DEF WellFormed, ChainObject
    <3> QED  BY <2>2, <2>3, <3>2 DEF Moved
  <2>6. patch.upserts[id] = IF written THEN up ELSE None
    <3> DEFINE m0 == [i \in Ids |-> None]
               m1 == ExtendV1Upserts(m0, fx.created)
               m2 == ExtendV1Upserts(m1, fx.mutated)
               m3 == ExtendV1Upserts(m2, fx.unwrapped)
               m4 == ExtendV1Upserts(m3, fx.gas_object)
    <3>1. patch.upserts = m4 /\ m0[id] = None
      BY DEF PatchFromV1
    <3> HIDE DEF m0
    <3>2. CASE written
      <4>1. \/ id \in Moved(pre, post, {"absent"}, {"live", "package"})
            \/ id \in Moved(pre, post, {"live"}, {"live"})
            \/ id \in Moved(pre, post, {"wrapped"}, {"live"})
        BY <2>4, <3>2 DEF Moved
      <4> HIDE DEF up, fx, written
      <4>2. up \in Upsert /\ up # None
        BY <2>5, <3>2
      <4>3. m1[id] = fx.created[id]
        BY <2>2, <3>1, <4>2, ExtendKeeps
      <4> HIDE DEF m1
      <4>4. m2[id] = IF m1[id] = None /\ fx.mutated[id] = None THEN None ELSE up
        BY <2>2, <4>2, <4>3, ExtendKeeps
      <4> HIDE DEF m2
      <4>5. m3[id] = IF m2[id] = None /\ fx.unwrapped[id] = None THEN None ELSE up
        BY <2>2, <4>2, <4>4, ExtendKeeps
      <4> HIDE DEF m3
      <4>6. m4[id] = IF m3[id] = None /\ fx.gas_object[id] = None THEN None ELSE up
        BY <2>2, <4>2, <4>5, ExtendKeeps
      <4> HIDE DEF m4
      <4> QED  BY <2>2, <3>1, <3>2, <4>1, <4>2, <4>3, <4>4, <4>5, <4>6
    <3>3. CASE ~written
      <4> HIDE DEF fx, written
      <4>1. m1[id] = None  BY <2>5, <3>1, <3>3 DEF ExtendV1Upserts
      <4> HIDE DEF m1
      <4>2. m2[id] = None  BY <2>5, <3>3, <4>1 DEF ExtendV1Upserts
      <4> HIDE DEF m2
      <4>3. m3[id] = None  BY <2>5, <3>3, <4>2 DEF ExtendV1Upserts
      <4> HIDE DEF m3
      <4>4. m4[id] = None  BY <2>5, <3>3, <4>3 DEF ExtendV1Upserts
      <4> QED  BY <3>1, <3>3, <4>4
    <3> QED  BY <3>2, <3>3
  <2>7. patch.tombstones[id] = V1Tombstone(fx, id)
    BY DEF PatchFromV1
  <2>8. /\ V1Tombstone(fx, id) \in TombstoneReason \cup {None}
        /\ V1Tombstone(fx, id) # None => pre[id] # obj /\ obj.status \in {"wrapped", "deleted"}
        /\ pre[id] # obj /\ obj.status \in {"wrapped", "deleted"} => V1Tombstone(fx, id) # None
    <3>1. /\ fx.deleted = Moved(pre, post, {"live"}, {"deleted"})
          /\ fx.unwrapped_then_deleted = Moved(pre, post, {"wrapped"}, {"deleted"})
          /\ fx.wrapped = Moved(pre, post, {"live"}, {"wrapped"})
      BY DEF AsEffectsV1
    <3>2. pre[id] # obj => /\ obj.status = "wrapped" => pre[id].status = "live"
                           /\ obj.status = "deleted" => pre[id].status \in {"live", "wrapped"}
      BY <1>1, OutcomeFacts DEF StoreOK
    <3> HIDE DEF fx
    <3>3. {"Deleted", "Wrapped", "UnwrappedThenDeleted"} \subseteq TombstoneReason
          /\ None \notin TombstoneReason
      BY DEF TombstoneReason
    <3> QED  BY <3>1, <3>2, <3>3 DEF V1Tombstone, Moved
  <2> QED  BY <2>1, <2>5, <2>6, <2>7, <2>8 DEF WellFormed, ChainObject
<1>3. patch \in EffectsPatch
  BY <1>2 DEF PatchFromV1, ExtendV1Upserts, EffectsPatch
<1> QED  BY <1>2, <1>3 DEF PatchDescribes

LEMMA ReportedEffectsTyped ==
  ASSUME NEW pre, StoreOK(pre), NEW lamport \in Nat,
         \A id \in Ids : pre[id].version < lamport,
         NEW post \in Successors(pre, lamport),
         NEW effects \in ReportedEffects(pre, post, lamport)
  PROVE  effects \in EffectsV1 \cup EffectsV2
<1>1. StoreOK(post)
  BY SuccessorFacts
<1>2. ASSUME NEW id \in Ids
      PROVE  /\ post[id].version \in Nat
             /\ post[id].owner \in Owner \cup {None}
             /\ post[id].status = "live" => post[id].owner \in Owner
  BY <1>1 DEF StoreOK, WellFormed, ChainObject
<1>3. AsEffectsV2(pre, post, lamport) \in EffectsV2
  BY <1>2 DEF AsEffectsV2, EffectsV2, ChangedObject
<1>4. ASSUME NEW ids \in SUBSET Ids, \A id \in ids : post[id].status \in {"live", "package"}
      PROVE  RefsOf(post, ids) \in Refs
  <2>1. [kind |-> "Immutable", start |-> 0] \in Owner  BY DEF Owner, OwnerKind
  <2> QED  BY <1>2, <1>4, <2>1 DEF RefsOf, Refs
<1>5. ASSUME NEW gas \in SUBSET GasObjects(pre, post)
      PROVE  AsEffectsV1(pre, post, gas) \in EffectsV1
  <2>1. \A id \in gas : post[id].status = "live"
    BY DEF GasObjects, Moved
  <2>2. gas \in SUBSET Ids
    BY DEF GasObjects, Moved
  <2>3. RefsOf(post, gas) \in Refs
    BY <1>4, <2>1, <2>2
  <2>4. ASSUME NEW from, NEW to \in SUBSET {"live", "package"}
        PROVE  RefsOf(post, Moved(pre, post, from, to)) \in Refs
    <3>1. /\ Moved(pre, post, from, to) \in SUBSET Ids
          /\ \A id \in Moved(pre, post, from, to) : post[id].status \in {"live", "package"}
      BY DEF Moved
    <3> QED  BY <1>4, <3>1
  <2>5. \A from, to : Moved(pre, post, from, to) \in SUBSET Ids
    BY DEF Moved
  <2> QED  BY <2>3, <2>4, <2>5 DEF AsEffectsV1, EffectsV1
<1> QED  BY <1>3, <1>5 DEF ReportedEffects

\* Whatever the network reports of a transaction, the patch describes it.
THEOREM PatchIsFaithful ==
  ASSUME NEW pre, StoreOK(pre), NEW lamport \in Nat,
         \A id \in Ids : pre[id].version < lamport,
         NEW post \in Successors(pre, lamport),
         NEW effects \in ReportedEffects(pre, post, lamport)
  PROVE  FromEffects(effects) \in EffectsPatch /\ PatchDescribes(FromEffects(effects), pre, post)
<1>1. CASE effects = AsEffectsV2(pre, post, lamport)
  <2>1. effects.format = "V2"  BY <1>1 DEF AsEffectsV2
  <2> QED  BY <1>1, <2>1, V2PatchDescribes DEF FromEffects
<1>2. ASSUME NEW gas \in SUBSET GasObjects(pre, post), effects = AsEffectsV1(pre, post, gas)
      PROVE  FromEffects(effects) \in EffectsPatch /\ PatchDescribes(FromEffects(effects), pre, post)
  <2>1. effects.format = "V1"  BY <1>2 DEF AsEffectsV1
  <2> QED  BY <1>2, <2>1, V1PatchDescribes DEF FromEffects
<1> QED  BY <1>1, <1>2 DEF ReportedEffects

-----------------------------------------------------------------------------
(* The ledger: stores are well formed, versions never go back along it, and  *)
(* the effects of every transaction describe it.                             *)

NeverUncreated(pre, post) ==
  \A id \in Ids : pre[id] # post[id] => post[id].status # "absent"

ChainInv ==
  /\ world \in Seq(Store) /\ ledger \in Seq(EffectsV1 \cup EffectsV2)
  /\ Len(world) = Len(ledger) + 1
  /\ \A k \in 1..Len(world) :
       StoreOK(world[k]) /\ \A id \in Ids : world[k][id].version <= k
  /\ \A l \in 1..Len(world) : \A k \in 1..l : \A id \in Ids :
       world[k][id].version <= world[l][id].version
  /\ \A k \in 1..Len(ledger) :
       /\ FromEffects(ledger[k]) \in EffectsPatch
       /\ PatchDescribes(FromEffects(ledger[k]), world[k], world[k + 1])
       /\ NeverUncreated(world[k], world[k + 1])

LEMMA ChainInit_Inv == ChainInit => ChainInv
<1> SUFFICES ASSUME ChainInit PROVE ChainInv
  OBVIOUS
<1>1. PICK store \in [Ids -> Genesis] : /\ \A id \in PackageIds : store[id] = Absent
                                        /\ world = <<store>>
  BY DEF ChainInit
<1>2. ASSUME NEW id \in Ids
      PROVE  WellFormed(id, store[id]) /\ store[id].version <= 1
  <2>1. \A kind \in ChainOwnerKinds :
          [kind |-> kind, start |-> IF kind \in SharedLike THEN 1 ELSE 0] \in Owner
    BY DEF Owner
  <2>2. CASE store[id] = Absent
    BY <2>2 DEF Absent, WellFormed, ChainObject
  <2>3. ASSUME NEW owner \in Owner, store[id] = Live(1, owner), id \notin PackageIds
        PROVE  WellFormed(id, store[id]) /\ store[id].version <= 1
    BY <2>3 DEF Live, WellFormed, ChainObject
  <2>4. id \in PackageIds => store[id] = Absent
    BY <1>1
  <2> QED  BY <2>1, <2>2, <2>3, <2>4 DEF Genesis
<1>3. StoreOK(store)
  BY <1>2 DEF StoreOK, Store, WellFormed
<1>4. Len(world) = 1 /\ world[1] = store /\ world \in Seq(Store)
  BY <1>1, <1>3 DEF StoreOK
<1>5. ledger = <<>> /\ Len(ledger) = 0
  BY DEF ChainInit
<1>6. \A id \in Ids : world[1][id].version <= world[1][id].version
  <2> TAKE id \in Ids
  <2>1. store[id].version \in Nat
    BY <1>2 DEF WellFormed, ChainObject
  <2> QED  BY <1>4, <2>1
<1> QED  BY <1>2, <1>3, <1>4, <1>5, <1>6 DEF ChainInv

\* A transaction extends the ledger and leaves what was there as it was.
LEMMA ExecuteFacts ==
  ASSUME ChainInv, NEW post, NEW effects, Execute(post, effects)
  PROVE  /\ ChainInv'
         /\ Len(world') = Len(world) + 1
         /\ world'[Len(world) + 1] = post
         /\ \A k \in 1..Len(world) : world'[k] = world[k]
<1> DEFINE n == Len(world)
           lamport == n + 1
<1>1. n \in Nat \ {0} /\ Len(ledger) = n - 1 /\ Len(ledger) \in Nat
  BY DEF ChainInv
<1>2. StoreOK(Now) /\ \A id \in Ids : Now[id].version < lamport /\ Now[id].version \in Nat
  BY <1>1 DEF ChainInv, Now, StoreOK, WellFormed, ChainObject
<1>3. post \in Successors(Now, lamport) /\ effects \in ReportedEffects(Now, post, lamport)
  BY DEF Execute
<1>4. /\ StoreOK(post)
      /\ \A id \in Ids : Now[id].version <= post[id].version /\ post[id].version <= lamport
  BY <1>1, <1>2, <1>3, SuccessorFacts
<1>5. effects \in EffectsV1 \cup EffectsV2
  BY <1>1, <1>2, <1>3, ReportedEffectsTyped
<1>6. FromEffects(effects) \in EffectsPatch /\ PatchDescribes(FromEffects(effects), Now, post)
  BY <1>1, <1>2, <1>3, PatchIsFaithful
<1>6a. NeverUncreated(Now, post)
  BY <1>1, <1>2, <1>3, SuccessorFacts, OutcomeFacts DEF NeverUncreated, StoreOK
<1>7. /\ world' = Append(world, post) /\ ledger' = Append(ledger, effects)
      /\ world' \in Seq(Store) /\ ledger' \in Seq(EffectsV1 \cup EffectsV2)
  BY <1>4, <1>5 DEF Execute, ChainInv, StoreOK
<1>8. /\ Len(world') = n + 1 /\ world'[n + 1] = post
      /\ \A k \in 1..n : world'[k] = world[k]
  BY <1>7 DEF ChainInv
<1>9. /\ Len(ledger') = n /\ ledger'[n] = effects
      /\ \A k \in 1..(n - 1) : ledger'[k] = ledger[k]
  BY <1>1, <1>7 DEF ChainInv
<1>10. \A k \in 1..(n + 1) :
         StoreOK(world'[k]) /\ \A id \in Ids : world'[k][id].version <= k
  <2> SUFFICES ASSUME NEW k \in 1..(n + 1)
               PROVE  StoreOK(world'[k]) /\ \A id \in Ids : world'[k][id].version <= k
    OBVIOUS
  <2>1. CASE k \in 1..n
    BY <1>8, <2>1 DEF ChainInv
  <2>2. CASE k = n + 1
    BY <1>4, <1>8, <2>2
  <2> QED  BY <1>1, <2>1, <2>2
<1>11. \A l \in 1..(n + 1) : \A k \in 1..l : \A id \in Ids :
         world'[k][id].version <= world'[l][id].version
  <2> SUFFICES ASSUME NEW l \in 1..(n + 1), NEW k \in 1..l, NEW id \in Ids
               PROVE  world'[k][id].version <= world'[l][id].version
    OBVIOUS
  <2>1. CASE l \in 1..n
    BY <1>1, <1>8, <2>1 DEF ChainInv
  <2>2. CASE l = n + 1 /\ k = n + 1
    BY <1>8, <1>10, <2>2 DEF StoreOK, WellFormed, ChainObject
  <2>3. CASE l = n + 1 /\ k \in 1..n
    <3>1. world[k][id].version <= Now[id].version
      BY <1>1, <2>3 DEF ChainInv, Now
    <3>2. world[k][id].version \in Nat /\ post[id].version \in Nat
      BY <1>4, <2>3 DEF ChainInv, StoreOK, WellFormed, ChainObject
    <3> QED  BY <1>2, <1>4, <1>8, <2>3, <3>1, <3>2
  <2> QED  BY <1>1, <2>1, <2>2, <2>3
<1>12. \A k \in 1..n :
         /\ FromEffects(ledger'[k]) \in EffectsPatch
         /\ PatchDescribes(FromEffects(ledger'[k]), world'[k], world'[k + 1])
         /\ NeverUncreated(world'[k], world'[k + 1])
  <2> SUFFICES ASSUME NEW k \in 1..n
               PROVE  /\ FromEffects(ledger'[k]) \in EffectsPatch
                      /\ PatchDescribes(FromEffects(ledger'[k]), world'[k], world'[k + 1])
                      /\ NeverUncreated(world'[k], world'[k + 1])
    OBVIOUS
  <2>1. CASE k = n
    BY <1>1, <1>6, <1>6a, <1>8, <1>9, <2>1 DEF Now
  <2>2. CASE k \in 1..(n - 1)
    BY <1>1, <1>8, <1>9, <2>2 DEF ChainInv
  <2> QED  BY <1>1, <2>1, <2>2
<1> QED  BY <1>1, <1>7, <1>8, <1>9, <1>10, <1>11, <1>12 DEF ChainInv

-----------------------------------------------------------------------------
(* The cursor *)

\* cell holds what is known of id when position s of stores is the last learned.
Knows(cell, s, id, stores) ==
  /\ s \in 0..Len(stores)
  /\ cell = None => s = 0
  /\ cell # None =>
       /\ cell \in ObjectCell
       /\ s # 0
       /\ id \notin PackageIds
       /\ cell.version <= stores[s][id].version
       /\ stores[s][id].status = "live" => cell.version = stores[s][id].version

\* Position k of stores becomes known of id: next and s are the cell and position after.
Learns(cell, next, id, k, stores) ==
  LET obj == stores[k][id] IN
  /\ id \notin PackageIds
  /\ k \in 1..Len(stores)
  /\ IF obj.status = "live"
       THEN next = IF cell = None THEN NewCell(obj.version, obj.owner)
                   ELSE [SetReference(cell, obj.version)
                           EXCEPT !.owner = obj.owner, !.tombstone = None]
       ELSE /\ cell # None
            /\ \E reason \in TombstoneReason : next = [cell EXCEPT !.tombstone = reason]

\* Stores are well formed and versions never go back from one to a later one.
Ordered(stores) ==
  /\ stores \in Seq(Store)
  /\ \A k \in 1..Len(stores) : StoreOK(stores[k])
  /\ \A l \in 1..Len(stores) : \A k \in 1..l : \A id \in Ids :
       stores[k][id].version <= stores[l][id].version

\* Learning any position, however late, keeps the reference at the latest learned one.
LEMMA LearnsKnows ==
  ASSUME NEW stores, Ordered(stores), NEW id \in Ids, NEW cell, NEW next, NEW s, NEW k,
         Knows(cell, s, id, stores), Learns(cell, next, id, k, stores)
  PROVE  /\ Knows(next, Later(s, k), id, stores)
         /\ cell # None => next # None /\ next.version >= cell.version
         /\ next # None
<1> DEFINE n == Len(stores)
           obj == stores[k][id]
<1>1. n \in Nat /\ k \in 1..n /\ s \in 0..n
  BY DEF Ordered, Learns, Knows
<1>2. WellFormed(id, obj)
  BY <1>1 DEF Ordered, StoreOK
<1>3. CASE cell = None
  <2>1. obj.status = "live" /\ next = NewCell(obj.version, obj.owner) /\ s = 0
    BY <1>3 DEF Learns, Knows
  <2>2. next \in ObjectCell /\ next # None /\ next.version = obj.version
    BY <1>2, <2>1 DEF NewCell, ObjectCell, WellFormed, ChainObject
  <2>3. Later(s, k) = k
    BY <1>1, <2>1 DEF Later
  <2> QED  BY <1>1, <1>2, <1>3, <2>1, <2>2, <2>3 DEF Knows, Learns, WellFormed, ChainObject
<1>4. CASE cell # None
  <2>1. /\ cell \in ObjectCell /\ s \in 1..n /\ id \notin PackageIds
        /\ cell.version <= stores[s][id].version
        /\ stores[s][id].status = "live" => cell.version = stores[s][id].version
    BY <1>1, <1>4 DEF Knows
  <2>2. WellFormed(id, stores[s][id])
    BY <2>1 DEF Ordered, StoreOK
  <2>3. /\ k >= s => stores[s][id].version <= obj.version
        /\ s >= k => obj.version <= stores[s][id].version
    BY <1>1, <2>1 DEF Ordered
  <2>4. CASE obj.status = "live"
    <3>1. next = [SetReference(cell, obj.version) EXCEPT !.owner = obj.owner, !.tombstone = None]
      BY <1>4, <2>4 DEF Learns
    <3>2. /\ next \in ObjectCell
          /\ next.version = IF obj.version >= cell.version THEN obj.version ELSE cell.version
      BY <1>2, <2>1, <2>4, <3>1 DEF SetReference, ObjectCell, WellFormed, ChainObject
    <3> QED  BY <1>1, <1>2, <2>1, <2>2, <2>3, <2>4, <3>2
               DEF Knows, Later, ObjectCell, WellFormed, ChainObject
  <2>5. CASE obj.status # "live"
    <3>1. PICK reason \in TombstoneReason : next = [cell EXCEPT !.tombstone = reason]
      BY <1>4, <2>5 DEF Learns
    <3>2. next \in ObjectCell /\ next.version = cell.version
      BY <2>1, <3>1 DEF ObjectCell
    <3> QED  BY <1>1, <1>2, <2>1, <2>2, <2>3, <2>5, <3>2
               DEF Knows, Later, ObjectCell, WellFormed, ChainObject
  <2> QED  BY <2>4, <2>5
<1> QED  BY <1>3, <1>4

\* The inductive invariant: the type invariant, the ledger's, and what the cursor and
\* the saved snapshot know of each object.
IInv ==
  /\ TypeOK
  /\ ChainInv
  /\ \A id \in Ids : /\ Knows(cells[id], seen[id], id, world)
                     /\ Knows(persisted.cells[id], persisted.seen[id], id, world)

LEMMA InitIInv == Init => IInv
<1> SUFFICES ASSUME Init PROVE IInv
  OBVIOUS
<1>1. ChainInv
  BY ChainInit_Inv DEF Init
<1>2. TypeOK
  BY DEF Init, TypeOK, Untracked, NeverSeen
<1>3. \A id \in Ids : Knows(None, 0, id, world)
  BY <1>1 DEF Knows, ChainInv
<1>4. \A id \in Ids : /\ cells[id] = None /\ seen[id] = 0
                     /\ persisted.cells[id] = None /\ persisted.seen[id] = 0
  BY DEF Init, Untracked, NeverSeen
<1> QED  BY <1>1, <1>2, <1>3, <1>4 DEF IInv

\* Applying a faithful patch is learning the state it leads to of each tracked object
\* it changed, and leaves every other cell alone.
LEMMA PatchLearns ==
  ASSUME NEW pre, NEW post, StoreOK(post), NeverUncreated(pre, post),
         NEW patch \in EffectsPatch, PatchDescribes(patch, pre, post),
         NEW table, NEW id \in Ids,
         table[id] # None => id \notin PackageIds,
         NEW stores, NEW k \in 1..Len(stores), stores[k] = post
  PROVE  /\ table[id] # None /\ pre[id] # post[id] =>
             Learns(table[id], ApplyPatch(table, patch)[id], id, k, stores)
         /\ ~(table[id] # None /\ pre[id] # post[id]) => ApplyPatch(table, patch)[id] = table[id]
<1> DEFINE obj == post[id]
           next == ApplyPatch(table, patch)[id]
<1>1. WellFormed(id, obj)
  BY DEF StoreOK
<1>2. CASE table[id] = None
  BY <1>2 DEF ApplyPatch
<1>3. CASE pre[id] = post[id]
  BY <1>3 DEF ApplyPatch, PatchDescribes
<1>4. CASE table[id] # None /\ pre[id] # post[id]
  <2>1. CASE obj.status = "live"
    <3> DEFINE up == [version |-> obj.version, owner |-> obj.owner]
    <3>1. patch.upserts[id] = up /\ patch.tombstones[id] = None
      BY <1>4, <2>1 DEF PatchDescribes
    <3>2. up # None /\ obj.owner # None
      BY <1>1, <2>1, UpsertIsSome DEF WellFormed, ChainObject
    <3>3. next = ApplyUpsert(table[id], up)
      BY <1>4, <3>1, <3>2 DEF ApplyPatch
    <3>4. next = [SetReference(table[id], obj.version) EXCEPT !.owner = obj.owner, !.tombstone = None]
      BY <3>2, <3>3 DEF ApplyUpsert
    <3> QED  BY <1>4, <2>1, <3>4 DEF Learns
  <2>2. CASE obj.status # "live"
    <3>1. obj.status \in {"wrapped", "deleted"}
      BY <1>1, <1>4, <2>2 DEF WellFormed, ChainObject, NeverUncreated
    <3>2. patch.tombstones[id] \in TombstoneReason /\ patch.tombstones[id] # None
      BY <1>4, <3>1 DEF PatchDescribes, EffectsPatch
    <3>3. next = [table[id] EXCEPT !.tombstone = patch.tombstones[id]]
      BY <1>4, <3>2 DEF ApplyPatch
    <3> QED  BY <1>4, <2>2, <3>2, <3>3 DEF Learns
  <2> QED  BY <2>1, <2>2
<1> QED  BY <1>2, <1>3, <1>4

-----------------------------------------------------------------------------
(* Steps *)

\* What a step other than a restart does to one object: nothing, or it learns a
\* position of the ledger, which in a monotonic instance is not older than the last.
Observes(id) ==
  \/ cells'[id] = cells[id] /\ seen'[id] = seen[id]
  \/ \E k \in 1..Len(world') :
       /\ Learns(cells[id], cells'[id], id, k, world')
       /\ seen'[id] = Later(seen[id], k)
       /\ MonotonicReads /\ OrderedSync => (Tracked(id) => k >= seen[id])

ChainGrows ==
  /\ ChainInv'
  /\ Len(world') >= Len(world)
  /\ \A k \in 1..Len(world) : world'[k] = world[k]

ObservingStep ==
  /\ ChainGrows
  /\ persisted' = persisted
  /\ cells' = [id \in Ids |-> cells'[id]] /\ seen' = [id \in Ids |-> seen'[id]]
  /\ \A id \in Ids : Observes(id)

LEMMA StutterGrows == ASSUME ChainInv, UNCHANGED <<world, ledger>> PROVE ChainGrows
<1>1. ChainInv'
  BY DEF ChainInv
<1>2. Len(world) \in Nat
  BY DEF ChainInv
<1> QED  BY <1>1, <1>2 DEF ChainGrows

LEMMA ExecuteGrows ==
  ASSUME ChainInv, NEW post, NEW effects, Execute(post, effects) PROVE ChainGrows
<1>1. Len(world) \in Nat
  BY DEF ChainInv
<1> QED  BY <1>1, ExecuteFacts DEF ChainGrows

LEMMA TableForm ==
  ASSUME TypeOK
  PROVE  cells = [id \in Ids |-> cells[id]] /\ seen = [id \in Ids |-> seen[id]]
BY DEF TypeOK

LEMMA ExternalStep == IInv /\ ExternalTransaction => ObservingStep
<1> SUFFICES ASSUME IInv, ExternalTransaction PROVE ObservingStep
  OBVIOUS
<1>1. PICK post, effects : Execute(post, effects)
  BY DEF ExternalTransaction
<1>2. ChainGrows
  BY <1>1, ExecuteGrows DEF IInv
<1> QED  BY <1>2, TableForm DEF IInv, ExternalTransaction, ObservingStep, Observes

\* An own commit learns, of every tracked object it changed, its state on chain.
LEMMA CommitLearns ==
  ASSUME IInv, Commit
  PROVE  /\ ChainGrows /\ Len(world') = Len(world) + 1
         /\ \A id \in Ids :
              IF Tracked(id) /\ Now[id] # Now'[id]
                THEN /\ Learns(cells[id], cells'[id], id, Len(world'), world')
                     /\ seen'[id] = Later(seen[id], Len(world'))
                ELSE cells'[id] = cells[id] /\ seen'[id] = seen[id]
         /\ cells' = [id \in Ids |-> cells'[id]] /\ seen' = [id \in Ids |-> seen'[id]]
         /\ persisted' = persisted
<1> DEFINE n == Len(world)
<1>1. n \in Nat \ {0}
  BY DEF IInv, ChainInv
<1>2. PICK post, effects :
        /\ Execute(post, effects)
        /\ cells' = ApplyPatch(cells, FromEffects(effects))
        /\ seen' = SeenWith(n, {id \in Ids : Now[id] # post[id]})
  BY DEF Commit
<1>3. /\ ChainInv' /\ ChainGrows
      /\ Len(world') = n + 1 /\ world'[n + 1] = post /\ world'[n] = world[n]
  BY <1>1, <1>2, ExecuteFacts, ExecuteGrows DEF IInv
<1>4. Len(ledger') = n /\ ledger'[n] = effects
  <2>1. Len(ledger) = n - 1 /\ ledger \in Seq(EffectsV1 \cup EffectsV2)
    BY <1>1 DEF IInv, ChainInv
  <2>2. ledger' = Append(ledger, effects)
    BY <1>2 DEF Execute
  <2> QED  BY <1>1, <2>1, <2>2
<1>5. /\ StoreOK(post) /\ NeverUncreated(Now, post)
      /\ FromEffects(effects) \in EffectsPatch /\ PatchDescribes(FromEffects(effects), Now, post)
  BY <1>1, <1>3, <1>4 DEF ChainInv, Now
<1>6. Now' = post
  BY <1>3 DEF Now
<1>7. ASSUME NEW id \in Ids
      PROVE  IF Tracked(id) /\ Now[id] # post[id]
               THEN /\ Learns(cells[id], cells'[id], id, n + 1, world')
                    /\ seen'[id] = Later(seen[id], n + 1)
               ELSE cells'[id] = cells[id] /\ seen'[id] = seen[id]
  <2> DEFINE patch == FromEffects(effects)
             stores == world'
  <2>1. cells[id] # None => id \notin PackageIds
    BY DEF IInv, Knows
  <2>2. patch \in EffectsPatch /\ PatchDescribes(patch, Now, post)
    BY <1>5
  <2>3. n + 1 \in 1..Len(stores) /\ stores[n + 1] = post
    BY <1>1, <1>3
  <2> HIDE DEF patch, stores
  <2>4. /\ cells[id] # None /\ Now[id] # post[id] =>
             Learns(cells[id], ApplyPatch(cells, patch)[id], id, n + 1, stores)
        /\ ~(cells[id] # None /\ Now[id] # post[id]) => ApplyPatch(cells, patch)[id] = cells[id]
    BY <1>5, <2>1, <2>2, <2>3, PatchLearns
  <2>5. seen'[id] = IF cells[id] # None /\ Now[id] # post[id]
                      THEN Later(seen[id], n + 1) ELSE seen[id]
    BY <1>2 DEF SeenWith, Tracked
  <2> QED  BY <1>2, <2>4, <2>5 DEF patch, stores, Tracked
<1>8. cells' = [id \in Ids |-> cells'[id]] /\ seen' = [id \in Ids |-> seen'[id]]
  BY <1>2 DEF ApplyPatch, SeenWith
<1> QED  BY <1>3, <1>6, <1>7, <1>8 DEF Commit

LEMMA CommitStep == IInv /\ Commit => ObservingStep
<1> SUFFICES ASSUME IInv, Commit PROVE ObservingStep
  OBVIOUS
<1>1. ASSUME NEW id \in Ids PROVE Observes(id)
  <2>1. Len(world') \in 1..Len(world') /\ Len(world') >= seen[id]
    BY CommitLearns DEF IInv, ChainInv, Knows
  <2> QED  BY <2>1, CommitLearns DEF Observes
<1> QED  BY <1>1, CommitLearns DEF ObservingStep

LEMMA SyncStep ==
  ASSUME IInv, NEW k \in 1..Len(ledger), SyncTransaction(k) PROVE ObservingStep
<1>1. /\ Len(world) \in Nat \ {0} /\ Len(ledger) = Len(world) - 1
      /\ k \in 1..Len(world) /\ k + 1 \in 1..Len(world)
  BY DEF IInv, ChainInv
<1>2. ChainGrows /\ world' = world
  BY StutterGrows DEF IInv, SyncTransaction
<1> DEFINE patch == FromEffects(ledger[k])
<1>3. /\ StoreOK(world[k + 1]) /\ NeverUncreated(world[k], world[k + 1])
      /\ patch \in EffectsPatch /\ PatchDescribes(patch, world[k], world[k + 1])
  BY <1>1 DEF IInv, ChainInv
<1> HIDE DEF patch
<1>4. cells' = ApplyPatch(cells, patch) /\ seen' = SeenWith(k, Touched(k))
  BY DEF SyncTransaction, patch
<1>5. ASSUME NEW id \in Ids PROVE Observes(id)
  <2>1. cells[id] # None => id \notin PackageIds
    BY DEF IInv, Knows
  <2>2. /\ cells[id] # None /\ world[k][id] # world[k + 1][id] =>
            Learns(cells[id], cells'[id], id, k + 1, world)
        /\ ~(cells[id] # None /\ world[k][id] # world[k + 1][id]) => cells'[id] = cells[id]
    <3> DEFINE pre == world[k]
               post == world[k + 1]
    <3>1. StoreOK(post) /\ NeverUncreated(pre, post) /\ PatchDescribes(patch, pre, post)
      BY <1>3
    <3> HIDE DEF pre, post
    <3>2. k + 1 \in 1..Len(world) /\ world[k + 1] = post
      BY <1>1 DEF post
    <3>3. /\ cells[id] # None /\ pre[id] # post[id] =>
              Learns(cells[id], ApplyPatch(cells, patch)[id], id, k + 1, world)
          /\ ~(cells[id] # None /\ pre[id] # post[id]) => ApplyPatch(cells, patch)[id] = cells[id]
      BY <1>3, <2>1, <3>1, <3>2, PatchLearns
    <3> QED  BY <1>4, <3>3 DEF pre, post
  <2>3. seen'[id] = IF cells[id] # None /\ world[k][id] # world[k + 1][id]
                      THEN Later(seen[id], k + 1) ELSE seen[id]
    BY <1>4 DEF SeenWith, Tracked, Touched
  <2>4. OrderedSync /\ Tracked(id) /\ world[k][id] # world[k + 1][id] => k + 1 >= seen[id]
    BY DEF SyncTransaction, NotOlder, Touched
  <2> QED  BY <1>1, <1>2, <2>2, <2>3, <2>4 DEF Observes
<1>6. cells' = [id \in Ids |-> cells'[id]] /\ seen' = [id \in Ids |-> seen'[id]]
  BY <1>4 DEF ApplyPatch, SeenWith
<1> QED  BY <1>2, <1>5, <1>6 DEF ObservingStep, SyncTransaction

LEMMA InternStep ==
  ASSUME IInv, NEW id \in Ids, NEW k \in 1..Len(world), Reads(id, k), Interns(id, k)
  PROVE  ObservingStep
<1>1. ChainGrows /\ world' = world
  BY StutterGrows DEF IInv, Reads
<1> DEFINE obj == world[k][id]
<1>2. obj.status = "live" /\ id \notin PackageIds
  <2>1. WellFormed(id, obj)
    BY DEF IInv, ChainInv, StoreOK
  <2>2. obj.status = "live"
    BY DEF Interns, Fetch
  <2> QED  BY <2>1, <2>2 DEF WellFormed
<1>3. /\ cells' = InternCell(cells, id, obj.version, obj.owner)
      /\ seen' = [seen EXCEPT ![id] = Later(@, k)]
  BY DEF Interns
<1>4. ASSUME NEW other \in Ids PROVE Observes(other)
  <2>1. CASE other = id
    <3>1. Learns(cells[id], cells'[id], id, k, world)
      BY <1>2, <1>3 DEF IInv, TypeOK, InternCell, Learns
    <3>2. seen'[id] = Later(seen[id], k)
      BY <1>3 DEF IInv, TypeOK
    <3>3. MonotonicReads => (Tracked(id) => k >= seen[id])
      BY DEF Reads, NotOlder
    <3> QED  BY <1>1, <2>1, <3>1, <3>2, <3>3 DEF Observes
  <2>2. CASE other # id
    BY <1>3, <2>2 DEF IInv, TypeOK, InternCell, Observes
  <2> QED  BY <2>1, <2>2
<1>5. cells' = [i \in Ids |-> cells'[i]] /\ seen' = [i \in Ids |-> seen'[i]]
  BY <1>3 DEF IInv, TypeOK, InternCell
<1> QED  BY <1>1, <1>4, <1>5 DEF ObservingStep, Reads

LEMMA MissingReadStep ==
  ASSUME IInv, NEW id \in Ids, NEW k \in 1..Len(world), Reads(id, k), ReadMissing(id, k)
  PROVE  ObservingStep
<1>1. ChainGrows /\ world' = world
  BY StutterGrows DEF IInv, Reads
<1>2. /\ cells' = TombstoneId(cells, id, "NotExist")
      /\ seen' = IF Tracked(id) THEN [seen EXCEPT ![id] = Later(@, k)] ELSE seen
  BY DEF ReadMissing
<1>3. world[k][id].status # "live"
  BY DEF ReadMissing, Fetch
<1>4. "NotExist" \in TombstoneReason
  BY DEF TombstoneReason
<1>5. ASSUME NEW other \in Ids PROVE Observes(other)
  <2>1. CASE other = id /\ Tracked(id)
    <3>1. cells'[id] = [cells[id] EXCEPT !.tombstone = "NotExist"]
      BY <1>2, <2>1 DEF IInv, TypeOK, TombstoneId, Tracked
    <3>2. id \notin PackageIds
      BY <2>1 DEF IInv, Knows, Tracked
    <3>3. Learns(cells[id], cells'[id], id, k, world)
      BY <1>3, <1>4, <2>1, <3>1, <3>2 DEF Learns, Tracked
    <3>4. seen'[id] = Later(seen[id], k)
      BY <1>2, <2>1 DEF IInv, TypeOK
    <3>5. MonotonicReads => (Tracked(id) => k >= seen[id])
      BY DEF Reads, NotOlder
    <3> QED  BY <1>1, <2>1, <3>3, <3>4, <3>5 DEF Observes
  <2>2. CASE ~(other = id /\ Tracked(id))
    BY <1>2, <2>2 DEF IInv, TypeOK, TombstoneId, Observes, Tracked
  <2> QED  BY <2>1, <2>2
<1>6. cells' = [i \in Ids |-> cells'[i]] /\ seen' = [i \in Ids |-> seen'[i]]
  BY <1>2 DEF IInv, TypeOK, TombstoneId
<1> QED  BY <1>1, <1>5, <1>6 DEF ObservingStep, Reads

\* A read that tells the cursor nothing.
LEMMA UntoldReadStep ==
  ASSUME IInv, NEW id \in Ids, NEW k \in 1..Len(world), Reads(id, k), UNCHANGED <<cells, seen>>
  PROVE  ObservingStep
<1>1. ChainGrows
  BY StutterGrows DEF IInv, Reads
<1> QED  BY <1>1, TableForm DEF IInv, ObservingStep, Observes, Reads

LEMMA ReadStep == IInv /\ Read => ObservingStep
<1> SUFFICES ASSUME IInv, Read PROVE ObservingStep
  OBVIOUS
<1>1. PICK id \in Ids, k \in 1..Len(world) :
        Reads(id, k) /\ (ReadMissing(id, k) \/ Interns(id, k) \/ UNCHANGED <<cells, seen>>)
  BY DEF Read, RefreshId, ReadObject, Get, Decode, ReceivingObject, ReadSharedObject, ReadErrs
<1> QED  BY <1>1, InternStep, MissingReadStep, UntoldReadStep

\* A snapshot restores every cell as it was.
LEMMA SnapshotRestores ==
  ASSUME NEW table \in [Ids -> ObjectCell \cup {None}] PROVE FromSnapshot(table) = table
<1>1. ASSUME NEW id \in Ids PROVE FromSnapshot(table)[id] = table[id]
  <2>1. CASE table[id] = None
    BY <2>1 DEF FromSnapshot
  <2>2. CASE table[id] # None
    <3>1. table[id] \in ObjectCell
      BY <2>2
    <3>2. table[id].tombstone = None =>
            NewCell(table[id].version, table[id].owner) = table[id]
      BY <3>1 DEF NewCell, ObjectCell
    <3>3. [NewCell(table[id].version, table[id].owner) EXCEPT !.tombstone = table[id].tombstone]
            = table[id]
      BY <3>1 DEF NewCell, ObjectCell
    <3> QED  BY <2>2, <3>2, <3>3 DEF FromSnapshot
  <2> QED  BY <2>1, <2>2
<1> QED  BY <1>1 DEF FromSnapshot

\* What is known stays known while the ledger grows.
LEMMA KnowsGrows ==
  ASSUME ChainInv, ChainGrows, NEW cell, NEW s, NEW id, Knows(cell, s, id, world)
  PROVE  Knows(cell, s, id, world')
<1>1. Len(world) \in Nat /\ Len(world') \in Nat /\ Len(world') >= Len(world)
  BY DEF ChainInv, ChainGrows
<1>2. s \in 0..Len(world) /\ (s # 0 => world'[s] = world[s])
  BY <1>1 DEF Knows, ChainGrows
<1> QED  BY <1>1, <1>2 DEF Knows

\* An observing step keeps the inductive invariant and takes no reference back.
LEMMA ObservingStepKeeps ==
  ASSUME IInv, ObservingStep
  PROVE  /\ IInv'
         /\ \A id \in Ids : Tracked(id) => cells'[id] # None /\ cells'[id].version >= cells[id].version
<1>1. ChainInv /\ ChainInv' /\ ChainGrows /\ Ordered(world')
  BY DEF IInv, ObservingStep, ChainGrows, ChainInv, Ordered
<1>2. ASSUME NEW id \in Ids
      PROVE  /\ Knows(cells'[id], seen'[id], id, world')
             /\ Tracked(id) => cells'[id] # None /\ cells'[id].version >= cells[id].version
  <2>1. Knows(cells[id], seen[id], id, world')
    BY <1>1, KnowsGrows DEF IInv
  <2>2. CASE cells'[id] = cells[id] /\ seen'[id] = seen[id]
    <3>1. Tracked(id) => cells[id].version \in Int
      BY <2>1 DEF Knows, Tracked, ObjectCell
    <3> QED  BY <2>1, <2>2, <3>1 DEF Tracked
  <2>3. ASSUME NEW k \in 1..Len(world'),
               Learns(cells[id], cells'[id], id, k, world'),
               seen'[id] = Later(seen[id], k)
        PROVE  /\ Knows(cells'[id], seen'[id], id, world')
               /\ Tracked(id) => cells'[id] # None /\ cells'[id].version >= cells[id].version
    BY <1>1, <2>1, <2>3, LearnsKnows DEF Tracked
  <2> QED  BY <2>2, <2>3 DEF ObservingStep, Observes
<1>3. TypeOK'
  <2>1. \A id \in Ids : cells'[id] \in ObjectCell \cup {None} /\ seen'[id] \in Nat
    BY <1>1, <1>2 DEF Knows, ChainInv
  <2>2. cells' \in [Ids -> ObjectCell \cup {None}] /\ seen' \in [Ids -> Nat]
    BY <2>1 DEF ObservingStep
  <2> QED  BY <2>2 DEF IInv, TypeOK, ObservingStep
<1>4. \A id \in Ids : Knows(persisted'.cells[id], persisted'.seen[id], id, world')
  BY <1>1, KnowsGrows DEF IInv, ObservingStep
<1> QED  BY <1>1, <1>2, <1>3, <1>4 DEF IInv

LEMMA NextKeeps ==
  ASSUME IInv, [Next]_vars
  PROVE  /\ IInv'
         /\ cells' # FromSnapshot(persisted.cells) =>
              \A id \in Ids : Tracked(id) => cells'[id] # None /\ cells'[id].version >= cells[id].version
<1>1. CASE ExternalTransaction
  BY <1>1, ExternalStep, ObservingStepKeeps
<1>2. CASE Commit
  BY <1>2, CommitStep, ObservingStepKeeps
<1>3. CASE \E k \in 1..Len(ledger) : SyncTransaction(k)
  BY <1>3, SyncStep, ObservingStepKeeps
<1>4. CASE Read
  BY <1>4, ReadStep, ObservingStepKeeps
<1>5. \A id \in Ids : Tracked(id) => cells[id].version \in Nat
  BY DEF IInv, TypeOK, Tracked, ObjectCell
<1>6. CASE CursorSnapshot
  <2>1. /\ persisted' = [cells |-> cells, seen |-> seen]
        /\ UNCHANGED <<world, ledger, cells, seen>>
    BY <1>6 DEF CursorSnapshot
  <2>2. TypeOK'
    BY <2>1 DEF IInv, TypeOK
  <2>3. ChainInv'
    BY <2>1 DEF IInv, ChainInv
  <2>4. \A id \in Ids : /\ Knows(cells'[id], seen'[id], id, world')
                        /\ Knows(persisted'.cells[id], persisted'.seen[id], id, world')
    BY <2>1 DEF IInv
  <2> QED  BY <1>5, <2>1, <2>2, <2>3, <2>4 DEF IInv, Tracked
<1>7. CASE Restart
  <2>1. FromSnapshot(persisted.cells) = persisted.cells
    BY SnapshotRestores DEF IInv, TypeOK
  <2>2. /\ cells' = persisted.cells /\ seen' = persisted.seen
        /\ UNCHANGED <<world, ledger, persisted>>
    BY <1>7, <2>1 DEF Restart
  <2>3. TypeOK'
    BY <2>2 DEF IInv, TypeOK
  <2>4. ChainInv'
    BY <2>2 DEF IInv, ChainInv
  <2>5. \A id \in Ids : /\ Knows(cells'[id], seen'[id], id, world')
                        /\ Knows(persisted'.cells[id], persisted'.seen[id], id, world')
    BY <2>2 DEF IInv
  <2> QED  BY <2>1, <2>2, <2>3, <2>4, <2>5 DEF IInv
<1>8. CASE UNCHANGED vars
  <2>1. UNCHANGED <<world, ledger, cells, persisted, seen>>
    BY <1>8 DEF vars
  <2>2. TypeOK'
    BY <2>1 DEF IInv, TypeOK
  <2>3. ChainInv'
    BY <2>1 DEF IInv, ChainInv
  <2>4. \A id \in Ids : /\ Knows(cells'[id], seen'[id], id, world')
                        /\ Knows(persisted'.cells[id], persisted'.seen[id], id, world')
    BY <2>1 DEF IInv
  <2> QED  BY <1>5, <2>1, <2>2, <2>3, <2>4 DEF IInv, Tracked
<1> QED  BY <1>1, <1>2, <1>3, <1>4, <1>6, <1>7, <1>8 DEF Next

-----------------------------------------------------------------------------
(* Theorems *)

THEOREM Invariance == Spec => []IInv
<1>1. Init => IInv
  BY InitIInv
<1>2. IInv /\ [Next]_vars => IInv'
  BY NextKeeps
<1> QED  BY <1>1, <1>2, PTL DEF Spec

\* The cursor, the saved snapshot and the histories always have their types.
THEOREM TypeCorrect == Spec => []TypeOK
<1>1. IInv => TypeOK
  BY DEF IInv
<1> QED  BY <1>1, Invariance, PTL

\* EffectsPatch::from_effects describes every transaction of every ledger.
THEOREM PatchesAreFaithful == Spec => []PatchesDescribeTransactions
<1>1. IInv => PatchesDescribeTransactions
  BY DEF IInv, ChainInv, PatchesDescribeTransactions
<1> QED  BY <1>1, Invariance, PTL

\* In any order of commits, syncs and reads, however stale, a handle's reference is the
\* latest the runtime learned of.
THEOREM LatestReference == Spec => []ReferenceIsLatestLearned
<1>1. IInv => ReferenceIsLatestLearned
  BY DEF IInv, Knows, ReferenceIsLatestLearned, LastLearned, Tracked
<1> QED  BY <1>1, Invariance, PTL

\* Between restarts a handle's reference never goes back (ObjectCell::set_reference).
THEOREM NoRegression == Spec => ReferenceNeverRegresses
<1>1. IInv /\ [Next]_vars =>
        [cells' # FromSnapshot(persisted.cells) =>
           \A id \in Ids : Tracked(id) => /\ cells'[id] # None
                                          /\ cells'[id].version >= cells[id].version]_vars
  BY NextKeeps
<1> QED  BY <1>1, Invariance, PTL DEF Spec, ReferenceNeverRegresses

-----------------------------------------------------------------------------
(* What learning the latest position leaves in a cell *)

LEMMA LearnsReflects ==
  ASSUME NEW stores, Ordered(stores), NEW id \in Ids, NEW cell, NEW next, NEW s, NEW k,
         Knows(cell, s, id, stores), Learns(cell, next, id, k, stores),
         cell # None => k >= s
  PROVE  Reflects(next, stores[k][id]) /\ Later(s, k) = k
<1> DEFINE n == Len(stores)
           obj == stores[k][id]
<1>1. n \in Nat /\ k \in 1..n /\ s \in 0..n /\ (cell = None => s = 0)
  BY DEF Ordered, Learns, Knows
<1>2. Later(s, k) = k
  BY <1>1 DEF Later
<1>3. CASE cell = None
  BY <1>2, <1>3 DEF Learns, Reflects
<1>4. CASE cell # None /\ obj.status # "live"
  <2>1. PICK reason \in TombstoneReason : next = [cell EXCEPT !.tombstone = reason]
    BY <1>4 DEF Learns
  <2>2. cell \in ObjectCell /\ reason # None
    BY <1>4 DEF Knows
  <2>3. next.tombstone # None
    BY <2>1, <2>2 DEF ObjectCell
  <2> QED  BY <1>2, <1>4, <2>3 DEF Reflects
<1>5. CASE cell # None /\ obj.status = "live"
  <2>1. cell \in ObjectCell /\ s # 0 /\ cell.version <= stores[s][id].version
    BY <1>5 DEF Knows
  <2>2. stores[s][id].version <= obj.version
    BY <1>1, <1>5, <2>1 DEF Ordered
  <2>3. cell.version \in Nat /\ stores[s][id].version \in Nat /\ obj.version \in Nat
    BY <1>1, <2>1 DEF Ordered, StoreOK, WellFormed, ChainObject, ObjectCell
  <2>4. SetReference(cell, obj.version) = [cell EXCEPT !.version = obj.version]
    BY <2>1, <2>2, <2>3 DEF SetReference
  <2>5. next = [[cell EXCEPT !.version = obj.version]
                  EXCEPT !.owner = obj.owner, !.tombstone = None]
    BY <1>5, <2>4 DEF Learns
  <2>6. next = NewCell(obj.version, obj.owner)
    BY <2>1, <2>5 DEF NewCell, ObjectCell
  <2> QED  BY <1>2, <1>5, <2>6 DEF Reflects
<1> QED  BY <1>3, <1>4, <1>5

\* What the cursor holds of id, and what the snapshot holds, is the state last learned.
Exact ==
  \A id \in Ids :
    /\ cells[id] # None => Reflects(cells[id], world[seen[id]][id])
    /\ persisted.cells[id] # None =>
         Reflects(persisted.cells[id], world[persisted.seen[id]][id])

\* Positions the cursor knows keep their store.
LEMMA KnownPositions ==
  ASSUME IInv, ChainGrows, NEW id \in Ids
  PROVE  /\ cells[id] # None => world'[seen[id]] = world[seen[id]]
         /\ persisted.cells[id] # None => world'[persisted.seen[id]] = world[persisted.seen[id]]
<1>1. Len(world) \in Nat
  BY DEF IInv, ChainInv
<1>2. /\ cells[id] # None => seen[id] \in 1..Len(world)
      /\ persisted.cells[id] # None => persisted.seen[id] \in 1..Len(world)
  BY <1>1 DEF IInv, Knows
<1> QED  BY <1>2 DEF ChainGrows

LEMMA ObservingStepExact ==
  ASSUME IInv, Exact, ObservingStep, MonotonicReads, OrderedSync
  PROVE  Exact'
<1>1. ChainInv /\ ChainGrows /\ Ordered(world') /\ persisted' = persisted
  BY DEF IInv, ObservingStep, ChainGrows, ChainInv, Ordered
<1>2. ASSUME NEW id \in Ids, cells'[id] # None
      PROVE  Reflects(cells'[id], world'[seen'[id]][id])
  <2>1. CASE cells'[id] = cells[id] /\ seen'[id] = seen[id]
    BY <1>1, <1>2, <2>1, KnownPositions DEF Exact
  <2>2. ASSUME NEW k \in 1..Len(world'),
               Learns(cells[id], cells'[id], id, k, world'),
               seen'[id] = Later(seen[id], k),
               Tracked(id) => k >= seen[id]
        PROVE  Reflects(cells'[id], world'[seen'[id]][id])
    <3>1. Knows(cells[id], seen[id], id, world')
      BY <1>1, KnowsGrows DEF IInv
    <3>2. Reflects(cells'[id], world'[k][id]) /\ Later(seen[id], k) = k
      BY <1>1, <2>2, <3>1, LearnsReflects DEF Tracked
    <3> QED  BY <2>2, <3>2
  <2> QED  BY <2>1, <2>2 DEF ObservingStep, Observes
<1>3. ASSUME NEW id \in Ids, persisted.cells[id] # None
      PROVE  Reflects(persisted.cells[id], world'[persisted.seen[id]][id])
  BY <1>1, <1>3, KnownPositions DEF Exact
<1> QED  BY <1>1, <1>2, <1>3 DEF Exact

LEMMA NextExact ==
  ASSUME MonotonicReads, OrderedSync, IInv, Exact, [Next]_vars PROVE Exact'
<1>1. CASE ExternalTransaction
  BY <1>1, ExternalStep, ObservingStepExact
<1>2. CASE Commit
  BY <1>2, CommitStep, ObservingStepExact
<1>3. CASE \E k \in 1..Len(ledger) : SyncTransaction(k)
  BY <1>3, SyncStep, ObservingStepExact
<1>4. CASE Read
  BY <1>4, ReadStep, ObservingStepExact
<1>5. CASE CursorSnapshot
  BY <1>5 DEF CursorSnapshot, Exact
<1>6. CASE Restart
  <2>1. FromSnapshot(persisted.cells) = persisted.cells
    BY SnapshotRestores DEF IInv, TypeOK
  <2> QED  BY <1>6, <2>1 DEF Restart, Exact
<1>7. CASE UNCHANGED vars
  BY <1>7 DEF vars, Exact
<1> QED  BY <1>1, <1>2, <1>3, <1>4, <1>5, <1>6, <1>7 DEF Next

LEMMA ExactInvariance ==
  ASSUME MonotonicReads, OrderedSync PROVE Spec => []Exact
<1>1. Init => Exact
  <2>1. Init => \A id \in Ids : cells[id] = None /\ persisted.cells[id] = None
    <3>1. Init => cells = Untracked /\ persisted.cells = Untracked
      BY DEF Init
    <3> QED  BY <3>1 DEF Untracked
  <2> QED  BY <2>1 DEF Exact
<1>2. IInv /\ Exact /\ [Next]_vars => Exact'
  BY NextExact
<1> QED  BY <1>1, <1>2, Invariance, PTL DEF Spec

\* If full nodes never fall behind what the cursor knows and digests are synced in the
\* order they executed in, the cursor is exact: every tracked object has the reference,
\* owner and tombstone of the state last learned, through restarts as well.
THEOREM ExactCursor ==
  ASSUME MonotonicReads, OrderedSync PROVE Spec => []RemembersLatestLearned
<1>1. Exact => RemembersLatestLearned
  BY DEF Exact, RemembersLatestLearned, LastLearned, Tracked
<1> QED  BY <1>1, ExactInvariance, PTL

\* Under the same two conditions the reference and the owner of a live handle come from
\* one state of the object.
THEOREM OneObservation ==
  ASSUME MonotonicReads, OrderedSync PROVE Spec => []OwnerBelongsToReference
<1>1. IInv /\ Exact => OwnerBelongsToReference
  <2> SUFFICES ASSUME IInv, Exact, NEW id \in Ids, Tracked(id), cells[id].tombstone = None
               PROVE  \E k \in 1..Len(world) :
                        world[k][id] = Live(cells[id].version, cells[id].owner)
    BY DEF OwnerBelongsToReference
  <2> DEFINE obj == world[seen[id]][id]
  <2>1. seen[id] \in 1..Len(world) /\ Reflects(cells[id], obj)
    BY DEF IInv, ChainInv, Knows, Exact, Tracked
  <2>2. obj \in ChainObject
    BY <2>1 DEF IInv, ChainInv, StoreOK, WellFormed
  <2>3. obj.status = "live" /\ cells[id] = NewCell(obj.version, obj.owner)
    BY <2>1 DEF Reflects
  <2>4. obj = Live(cells[id].version, cells[id].owner)
    BY <2>2, <2>3 DEF NewCell, Live, ChainObject
  <2> QED  BY <2>1, <2>4
<1> QED  BY <1>1, Invariance, ExactInvariance, PTL

\* Under the same two conditions a handle last learned to be gone is refused.
THEOREM GoneIsRefused ==
  ASSUME MonotonicReads, OrderedSync PROVE Spec => []GoneHandlesAreRefused
<1>1. Exact => GoneHandlesAreRefused
  BY DEF Exact, GoneHandlesAreRefused, LastLearned, Tracked, Reflects, ToCallArg
<1> QED  BY <1>1, ExactInvariance, PTL

\* Under the same two conditions a handle whose object has not changed since it was last
\* learned converts to an input the chain accepts, unless there is none.
THEOREM CurrentHandlesAreUsable ==
  ASSUME MonotonicReads, OrderedSync PROVE Spec => []CurrentHandlesConvert
<1>1. IInv /\ Exact => CurrentHandlesConvert
  <2> SUFFICES ASSUME IInv, Exact, NEW id \in Ids, Tracked(id), LastLearned(id) = Now[id]
               PROVE  /\ Fits(ToCallArg(cells[id], "Mutable"), Now[id],
                              {"Immutable", "Address"} \cup SharedLike)
                      /\ Fits(ReceivingArg(cells[id]), Now[id], {"Address"})
    BY DEF CurrentHandlesConvert
  <2> DEFINE obj == Now[id]
             cell == cells[id]
  <2>1. obj \in ChainObject /\ (obj.status = "live" => obj.owner \in Owner)
    BY DEF IInv, ChainInv, StoreOK, WellFormed, Now
  <2>2. Reflects(cell, obj)
    BY DEF Exact, LastLearned, Tracked
  <2> HIDE DEF obj, cell
  <2>3. CASE obj.status # "live"
    <3>1. cell.tombstone # None
      BY <2>2, <2>3 DEF Reflects
    <3>2. ToCallArg(cell, "Mutable").arg = "Tombstoned" /\ ReceivingArg(cell).arg = "Tombstoned"
      BY <3>1 DEF ToCallArg, ReceivingArg
    <3> QED  BY <2>3, <3>2 DEF Fits, obj, cell
  <2>4. CASE obj.status = "live"
    <3>1. /\ cell.tombstone = None /\ cell.version = obj.version /\ cell.owner = obj.owner
          /\ obj.owner.kind \in OwnerKind
      BY <2>1, <2>2, <2>4 DEF Reflects, NewCell, Owner
    <3>2. CASE obj.owner.kind \in {"Immutable", "Address"}
      <4>1. ToCallArg(cell, "Mutable") = [arg |-> "ImmutableOrOwned", version |-> obj.version]
        BY <3>1, <3>2 DEF ToCallArg, SharedLike
      <4>2. ReceivingArg(cell) = IF obj.owner.kind = "Address"
                                   THEN [arg |-> "Receiving", version |-> obj.version]
                                   ELSE [arg |-> "ObjectKind"]
        BY <3>1, <3>2 DEF ReceivingArg
      <4> QED  BY <2>4, <3>2, <4>1, <4>2 DEF Fits, SharedLike, obj, cell
    <3>3. CASE obj.owner.kind \in SharedLike
      <4>1. /\ ToCallArg(cell, "Mutable").arg = "Shared"
            /\ ToCallArg(cell, "Mutable").start = obj.owner.start
        <5>1. cell.owner.kind \in SharedLike /\ cell.owner.kind \notin {"Immutable", "Address"}
          BY <3>1, <3>3 DEF SharedLike
        <5>2. ToCallArg(cell, "Mutable") =
                [arg |-> "Shared", start |-> cell.owner.start, mutability |-> "Mutable"]
          BY <3>1, <5>1 DEF ToCallArg
        <5> QED  BY <3>1, <5>2
      <4>2. ReceivingArg(cell) = [arg |-> "ObjectKind"]
        BY <3>1, <3>3 DEF ReceivingArg, SharedLike
      <4> QED  BY <2>4, <3>3, <4>1, <4>2 DEF Fits, SharedLike, obj, cell
    <3>4. CASE obj.owner.kind \notin {"Immutable", "Address"} \cup SharedLike
      <4>1. /\ ToCallArg(cell, "Mutable") = [arg |-> "ObjectKind"]
            /\ ReceivingArg(cell) = [arg |-> "ObjectKind"]
        BY <3>1, <3>4 DEF ToCallArg, ReceivingArg
      <4> QED  BY <2>4, <3>4, <4>1 DEF Fits, obj, cell
    <3> QED  BY <3>2, <3>3, <3>4
  <2> QED  BY <2>3, <2>4
<1> QED  BY <1>1, Invariance, ExactInvariance, PTL

\* From every reachable state, on full nodes that lag and with digests synced in any
\* order, the next refresh an up to date node answers makes a tracked handle what the
\* object is on chain (Read::refresh_id).
THEOREM RefreshesRepair == Spec => []RefreshRepairs
<1>1. IInv => RefreshRepairs
  <2> SUFFICES ASSUME IInv, NEW id \in Ids, Tracked(id)
               PROVE  Reflects(Refreshed(id)[id], Now[id])
    BY DEF RefreshRepairs
  <2> DEFINE n == Len(world)
             next == Refreshed(id)[id]
  <2>1. /\ Ordered(world) /\ Knows(cells[id], seen[id], id, world)
        /\ n \in 1..Len(world) /\ Now = world[n]
    BY DEF IInv, ChainInv, Ordered, Now
  <2>2. n >= seen[id] /\ id \notin PackageIds
    BY <2>1 DEF Knows, Ordered, Tracked
  <2>3. Learns(cells[id], next, id, n, world)
    <3>1. CASE Now[id].status = "live"
      BY <2>1, <2>2, <3>1 DEF IInv, TypeOK, Refreshed, InternCell, Learns, Tracked
    <3>2. CASE Now[id].status # "live"
      <4>1. next = [cells[id] EXCEPT !.tombstone = "NotExist"]
        BY <3>2 DEF IInv, TypeOK, Refreshed, TombstoneId, Tracked
      <4>2. "NotExist" \in TombstoneReason
        BY DEF TombstoneReason
      <4> QED  BY <2>1, <2>2, <3>2, <4>1, <4>2 DEF Learns, Tracked
    <3> QED  BY <3>1, <3>2
  <2> HIDE DEF next
  <2>4. Reflects(next, world[n][id])
    BY <2>1, <2>2, <2>3, LearnsReflects
  <2> QED  BY <2>1, <2>4 DEF next
<1> QED  BY <1>1, Invariance, PTL

\* An own commit that returned effects brings every tracked object it changed to its
\* state on chain, even on full nodes that lag and with digests synced in any order.
THEOREM CommitsCatchUp == Spec => CommitCatchesUp
<1> DEFINE CatchesUp ==
      world' # world /\ seen' # seen =>
        \A id \in Ids : Tracked(id) /\ Now[id] # Now'[id] => Reflects(cells'[id], Now'[id])
<1>1. IInv /\ [Next]_vars => [CatchesUp]_vars
  <2> SUFFICES ASSUME IInv, Next, world' # world, seen' # seen,
                      NEW id \in Ids, Tracked(id), Now[id] # Now'[id]
               PROVE  Reflects(cells'[id], Now'[id])
    OBVIOUS
  <2>1. Commit
    BY DEF Next, ExternalTransaction, SyncTransaction, CursorSnapshot, Restart,
           Read, RefreshId, ReadObject, Get, Decode, ReceivingObject, ReadSharedObject, Reads
  <2>2. ChainGrows /\ Learns(cells[id], cells'[id], id, Len(world'), world')
    BY <2>1, CommitLearns
  <2>3. Ordered(world') /\ Knows(cells[id], seen[id], id, world')
    BY <2>2, KnowsGrows DEF IInv, ChainGrows, ChainInv, Ordered
  <2>4. Len(world') >= seen[id]
    BY <2>3 DEF Knows, Ordered
  <2> QED  BY <2>2, <2>3, <2>4, LearnsReflects DEF Now
<1> QED  BY <1>1, Invariance, PTL DEF Spec, CommitCatchesUp

-----------------------------------------------------------------------------
(* Submission *)

\* What the last commit returned, and the positions of the submissions.
Placement ==
  /\ placed \in Seq(Nat)
  /\ inflight \in 0..Len(placed)
  /\ \A n \in 1..Len(placed) : placed[n] \in 0..Len(ledger)

\* The cursor knows nothing later than a transaction whose commit still waits.
NothingLater ==
  inflight # 0 /\ placed[inflight] # 0 => \A id \in Ids : seen[id] <= placed[inflight]

SubmissionInv == IInv /\ Placement /\ NothingLater

LEMMA SubmissionInit_Inv == SubmissionInit => SubmissionInv
<1> SUFFICES ASSUME SubmissionInit PROVE SubmissionInv
  OBVIOUS
<1>1. IInv
  BY InitIInv DEF SubmissionInit
<1>2. Placement /\ NothingLater
  BY DEF SubmissionInit, Placement, NothingLater
<1> QED  BY <1>1, <1>2 DEF SubmissionInv

LEMMA Lengths ==
  ASSUME SubmissionInv
  PROVE  /\ Len(ledger) \in Nat /\ Len(world) = Len(ledger) + 1 /\ Len(placed) \in Nat
         /\ \A id \in Ids : seen[id] \in 0..Len(world)
<1>1. ledger \in Seq(EffectsV1 \cup EffectsV2) /\ Len(world) = Len(ledger) + 1
  BY DEF SubmissionInv, IInv, ChainInv
<1>2. placed \in Seq(Nat)
  BY DEF SubmissionInv, Placement
<1>3. \A id \in Ids : seen[id] \in 0..Len(world)
  BY DEF SubmissionInv, IInv, Knows
<1> QED  BY <1>1, <1>2, <1>3

\* A transaction that executes is placed at the end of the ledger.
LEMMA ExecutionPlaces ==
  ASSUME SubmissionInv, NEW n \in 1..Len(placed), NetworkExecutes(n)
  PROVE  /\ ExternalTransaction
         /\ Len(world) \in Nat /\ Len(ledger') = Len(ledger) + 1 /\ Len(world) = Len(ledger')
<1>1. ExternalTransaction
  BY DEF NetworkExecutes, ExternalTransaction
<1>2. PICK post, effects : Execute(post, effects)
  BY DEF NetworkExecutes
<1>3. ChainInv' /\ Len(world') = Len(world) + 1
  BY <1>2, ExecuteFacts DEF SubmissionInv, IInv
<1>4. Len(world') = Len(ledger') + 1 /\ Len(ledger') \in Nat
  BY <1>3 DEF ChainInv
<1> QED  BY <1>1, <1>3, <1>4, Lengths

\* The answer of a commit acts as a sync of its own transaction, in order.
LEMMA AnswerSyncs ==
  ASSUME SubmissionInv, ReturnReceipt
  PROVE  LET k == placed[inflight] IN
         /\ k \in 1..Len(ledger)
         /\ NotOlder(Ids, k + 1)
         /\ IF IsReceipt(outcome') /\ outcome'.effects
              THEN SyncTransaction(k) /\ outcome'.submission = inflight
              ELSE UNCHANGED vars
<1> DEFINE k == placed[inflight]
<1>1. inflight # 0 /\ inflight \in 1..Len(placed) /\ k # 0
  BY DEF ReturnReceipt, SubmissionInv, Placement
<1>2. k \in 0..Len(ledger)
  BY <1>1 DEF SubmissionInv, Placement
<1>3. \A id \in Ids : seen[id] <= k /\ seen[id] \in Nat
  <2>1. \A id \in Ids : seen[id] <= k
    BY <1>1 DEF SubmissionInv, NothingLater
  <2>2. \A id \in Ids : seen[id] \in Nat
    BY DEF SubmissionInv, IInv, TypeOK
  <2> QED  BY <2>1, <2>2
<1>4. k \in 1..Len(ledger)
  BY <1>1, <1>2, Lengths
<1>5. NotOlder(Ids, k + 1)
  BY <1>3, <1>4, Lengths DEF NotOlder
<1>6. PICK effects \in BOOLEAN, end \in WaitFor(k, k <= certified) :
        LET receipt == [submission |-> inflight, effects |-> effects, requested |-> requested,
                        observed |-> end.observed, wait |-> end.wait]
        IN  /\ outcome' = receipt
            /\ cells' = IF AppliesPatch(receipt) THEN ApplyPatch(cells, FromEffects(ledger[k]))
                        ELSE cells
            /\ seen' = IF effects THEN SeenWith(k, Touched(k)) ELSE seen
  BY DEF ReturnReceipt
<1>7. /\ IsReceipt(outcome') /\ outcome'.effects = effects /\ outcome'.submission = inflight
      /\ cells' = IF effects THEN ApplyPatch(cells, FromEffects(ledger[k])) ELSE cells
  BY <1>6 DEF AppliesPatch, IsReceipt
<1>8. UNCHANGED <<world, ledger, persisted>>
  BY DEF ReturnReceipt
<1>9. CASE effects
  <2>1. SyncTransaction(k)
    BY <1>5, <1>6, <1>7, <1>8, <1>9 DEF SyncTransaction, NotOlder, Touched
  <2> QED  BY <1>4, <1>5, <1>7, <1>9, <2>1
<1>10. CASE ~effects
  BY <1>4, <1>5, <1>6, <1>7, <1>8, <1>10 DEF vars
<1> QED  BY <1>9, <1>10

\* Every step of a submission is a step of the cursor, or leaves it alone.
LEMMA SubmissionStep ==
  ASSUME SubmissionInv, [SubmissionNext]_allVars
  PROVE  [Next]_vars
<1>1. CASE UNCHANGED allVars
  BY <1>1 DEF allVars
<1>2. ASSUME NEW n \in 1..Len(placed), NetworkExecutes(n) PROVE [Next]_vars
  BY <1>2, ExecutionPlaces DEF Next
<1>3. CASE Certify \/ PrepareFails \/ ReturnUnusable \/ ReturnExecuteError \/ DropCommit
  BY <1>3 DEF Certify, PrepareFails, ReturnUnusable, ReturnExecuteError, DropCommit
<1>4. CASE OtherClients
  BY <1>4 DEF OtherClients, Next
<1>5. ASSUME NEW finality \in Finality, Send(finality) PROVE [Next]_vars
  BY <1>5 DEF Send
<1>6. CASE ReturnReceipt
  BY <1>6, AnswerSyncs DEF Next
<1>7. CASE Idle
  BY <1>7 DEF Idle, Next
<1>8. CASE RestartProcess
  BY <1>8 DEF RestartProcess, Next
<1> QED  BY <1>1, <1>2, <1>3, <1>4, <1>5, <1>6, <1>7, <1>8 DEF SubmissionNext

LEMMA ExternalGrows ==
  ASSUME SubmissionInv, ExternalTransaction PROVE Len(ledger') = Len(ledger) + 1
<1>1. PICK post, effects : Execute(post, effects)
  BY DEF ExternalTransaction
<1>2. ChainInv' /\ Len(world') = Len(world) + 1
  BY <1>1, ExecuteFacts DEF SubmissionInv, IInv
<1>3. Len(world') = Len(ledger') + 1 /\ Len(ledger') \in Nat
  BY <1>2 DEF ChainInv
<1> QED  BY <1>2, <1>3, Lengths

LEMMA IdleKeepsLedger ==
  (\E k \in 1..Len(ledger) : SyncTransaction(k)) \/ Read \/ CursorSnapshot => UNCHANGED ledger
<1>1. Read => UNCHANGED ledger
  BY DEF Read, RefreshId, ReadObject, Get, Decode, ReceivingObject, ReadSharedObject, Reads
<1> QED  BY <1>1 DEF SyncTransaction, CursorSnapshot

\* A commit that begins to wait, or whose transaction executes, has nothing later than it.
LEMMA SubmissionKeeps ==
  ASSUME SubmissionInv, [SubmissionNext]_allVars PROVE SubmissionInv'
<1>1. IInv'
  BY SubmissionStep, NextKeeps DEF SubmissionInv
<1>2. Len(ledger) \in Nat /\ Len(placed) \in Nat /\ \A id \in Ids : seen[id] \in 0..Len(world)
  BY Lengths
<1>3. CASE UNCHANGED <<ledger, seen, placed>> /\ inflight' \in {0, inflight}
  BY <1>1, <1>3 DEF SubmissionInv, Placement, NothingLater
<1>4. ASSUME NEW n \in 1..Len(placed), NetworkExecutes(n) PROVE SubmissionInv'
  <2>1. Len(ledger') = Len(ledger) + 1 /\ Len(world) = Len(ledger') /\ Len(world) \in Nat
    BY <1>4, ExecutionPlaces
  <2>2. placed' = [placed EXCEPT ![n] = Len(world)] /\ placed[n] = 0
        /\ inflight' = inflight /\ seen' = seen
    BY <1>4 DEF NetworkExecutes
  <2>3. placed' \in Seq(Nat) /\ Len(placed') = Len(placed)
        /\ \A m \in 1..Len(placed) : placed'[m] = IF m = n THEN Len(world) ELSE placed[m]
    BY <2>1, <2>2 DEF SubmissionInv, Placement
  <2>4. Placement'
    <3>1. ASSUME NEW m \in 1..Len(placed) PROVE placed'[m] \in 0..Len(ledger')
      <4>1. placed[m] \in 0..Len(ledger)
        BY DEF SubmissionInv, Placement
      <4> QED  BY <1>2, <2>1, <2>3, <4>1
    <3>2. inflight' \in 0..Len(placed')
      BY <2>2, <2>3 DEF SubmissionInv, Placement
    <3> QED  BY <2>3, <3>1, <3>2 DEF Placement
  <2>5. NothingLater'
    <3> SUFFICES ASSUME inflight # 0, placed'[inflight] # 0, NEW id \in Ids
                 PROVE  seen[id] <= placed'[inflight]
      BY <2>2 DEF NothingLater
    <3>1. inflight \in 1..Len(placed)
      BY <1>2 DEF SubmissionInv, Placement
    <3>2. CASE inflight = n
      BY <1>2, <2>1, <2>3, <3>1, <3>2
    <3>3. CASE inflight # n
      BY <2>3, <3>1, <3>3 DEF SubmissionInv, NothingLater
    <3> QED  BY <3>2, <3>3
  <2> QED  BY <1>1, <2>4, <2>5 DEF SubmissionInv
<1>5. CASE OtherClients
  <2>1. /\ Len(ledger') = Len(ledger) + 1
        /\ UNCHANGED <<seen, placed, inflight>>
    BY <1>5, Lengths, ExternalGrows DEF OtherClients, submissionVars, ExternalTransaction
  <2>2. Placement'
    BY <1>2, <2>1 DEF SubmissionInv, Placement
  <2> QED  BY <1>1, <2>1, <2>2 DEF SubmissionInv, NothingLater
<1>6. ASSUME NEW finality \in Finality, Send(finality) PROVE SubmissionInv'
  <2>1. /\ placed' = Append(placed, 0) /\ inflight' = Len(placed) + 1 /\ UNCHANGED <<ledger, seen>>
    BY <1>6 DEF Send, vars
  <2>2. placed \in Seq(Nat)
    BY DEF SubmissionInv, Placement
  <2>3. /\ placed' \in Seq(Nat) /\ Len(placed') = Len(placed) + 1
        /\ placed'[Len(placed) + 1] = 0
        /\ \A m \in 1..Len(placed) : placed'[m] = placed[m]
    BY <2>1, <2>2
  <2>4. Placement'
    <3>1. ASSUME NEW m \in 1..Len(placed') PROVE placed'[m] \in 0..Len(ledger)
      <4>1. CASE m \in 1..Len(placed)
        BY <2>3, <4>1 DEF SubmissionInv, Placement
      <4>2. CASE m = Len(placed) + 1
        BY <1>2, <2>3, <4>2
      <4> QED  BY <1>2, <2>3, <4>1, <4>2
    <3> QED  BY <1>2, <2>1, <2>3, <3>1 DEF Placement
  <2> QED  BY <1>1, <2>1, <2>3, <2>4 DEF SubmissionInv, NothingLater
<1>7. CASE inflight' = 0 /\ UNCHANGED <<ledger, placed>>
  BY <1>1, <1>2, <1>7 DEF SubmissionInv, Placement, NothingLater
<1> QED
  <2>1. CASE UNCHANGED allVars
    BY <1>3, <2>1 DEF allVars, vars, submissionVars
  <2>2. CASE Certify \/ PrepareFails
    BY <1>3, <2>2 DEF Certify, PrepareFails, vars
  <2>3. CASE ReturnReceipt \/ ReturnUnusable \/ ReturnExecuteError \/ DropCommit \/ RestartProcess
    BY <1>7, <2>3 DEF ReturnReceipt, ReturnUnusable, ReturnExecuteError, DropCommit,
                      RestartProcess, Restart, Returned, vars
  <2>4. CASE Idle
    <3>1. UNCHANGED ledger
      BY <2>4, IdleKeepsLedger DEF Idle
    <3> QED  BY <1>7, <2>4, <3>1 DEF Idle, submissionVars
  <2> QED  BY <1>4, <1>5, <1>6, <2>1, <2>2, <2>3, <2>4 DEF SubmissionNext

LEMMA SubmissionInvariance == SubmissionSpec => []SubmissionInv
<1>1. SubmissionInv /\ [SubmissionNext]_allVars => SubmissionInv'
  BY SubmissionKeeps
<1> QED  BY <1>1, SubmissionInit_Inv, PTL DEF SubmissionSpec

\* A commit that is sent, executed and answered in steps of its own, among other clients,
\* dropped futures and restarts, implements the commits and syncs of module Cursor, for
\* any lag of the full nodes: its sync of itself is always in order.
THEOREM Implementation == SubmissionSpec => ImplementsCursor
<1>1. SubmissionInit => Init
  BY DEF SubmissionInit
<1>2. SubmissionInv /\ [SubmissionNext]_allVars => [Next]_vars
  BY SubmissionStep
<1> QED  BY <1>1, <1>2, SubmissionInvariance, PTL DEF SubmissionSpec, ImplementsCursor, Spec

-----------------------------------------------------------------------------
(* What a receipt says *)

\* A sync that is not older than what is known leaves an object as the transaction did.
LEMMA SyncReflects ==
  ASSUME IInv, NEW k \in 1..Len(ledger), NotOlder(Ids, k + 1), SyncTransaction(k),
         NEW id \in Ids, Tracked(id), id \in Touched(k)
  PROVE  Reflects(cells'[id], world[k + 1][id])
<1> DEFINE pre == world[k]
           post == world[k + 1]
           patch == FromEffects(ledger[k])
<1>1. /\ Len(world) \in Nat /\ k + 1 \in 1..Len(world) /\ k \in Nat
      /\ StoreOK(post) /\ NeverUncreated(pre, post)
      /\ patch \in EffectsPatch /\ PatchDescribes(patch, pre, post)
  BY DEF IInv, ChainInv
<1>2. cells' = ApplyPatch(cells, patch) /\ pre[id] # post[id] /\ cells[id] # None
  BY DEF SyncTransaction, Touched, Tracked
<1>3. Knows(cells[id], seen[id], id, world) /\ k + 1 >= seen[id]
  BY DEF IInv, NotOlder
<1>4. id \notin PackageIds
  BY <1>2, <1>3 DEF Knows
<1>5. Ordered(world)
  BY DEF IInv, ChainInv, Ordered
<1>6. world[k + 1] = post
  OBVIOUS
<1> HIDE DEF pre, post, patch
<1>7. Learns(cells[id], ApplyPatch(cells, patch)[id], id, k + 1, world)
  BY <1>1, <1>2, <1>4, <1>6, PatchLearns
<1> QED  BY <1>2, <1>3, <1>5, <1>7, LearnsReflects

LEMMA OnlyAnswersGiveReceipts ==
  ASSUME [SubmissionNext]_allVars, outcome' # outcome, IsReceipt(outcome') PROVE ReturnReceipt
<1>1. \A n, error : ~IsReceipt([submission |-> n, error |-> error])
  BY DEF IsReceipt
<1>2. ~PrepareFails /\ ~ReturnUnusable /\ ~ReturnExecuteError
  BY <1>1 DEF PrepareFails, ReturnUnusable, ReturnExecuteError
<1> QED
  BY <1>2 DEF SubmissionNext, allVars, submissionVars, NetworkExecutes, Certify, OtherClients,
              Send, DropCommit, Idle, RestartProcess

\* Once commit returns a receipt with effects, the handles are where its transaction left
\* them, whatever the cursor held when it was sent and whoever else wrote since.
THEOREM EffectsApplied == SubmissionSpec => ReceiptEffectsAreApplied
<1> DEFINE Applied ==
      outcome' # outcome /\ IsReceipt(outcome') /\ outcome'.effects =>
        LET k == placed[outcome'.submission] IN
        \A id \in Ids : Tracked(id) /\ id \in Touched(k) => Reflects(cells'[id], world[k + 1][id])
<1>1. SubmissionInv /\ [SubmissionNext]_allVars => [Applied]_allVars
  <2> SUFFICES ASSUME SubmissionInv, [SubmissionNext]_allVars,
                      outcome' # outcome, IsReceipt(outcome'), outcome'.effects,
                      NEW id \in Ids, Tracked(id), id \in Touched(placed[outcome'.submission])
               PROVE  Reflects(cells'[id], world[placed[outcome'.submission] + 1][id])
    OBVIOUS
  <2>1. ReturnReceipt
    BY OnlyAnswersGiveReceipts
  <2> DEFINE k == placed[inflight]
  <2>2. /\ k \in 1..Len(ledger) /\ NotOlder(Ids, k + 1)
        /\ SyncTransaction(k) /\ outcome'.submission = inflight
    BY <2>1, AnswerSyncs
  <2> HIDE DEF k
  <2>3. placed[outcome'.submission] = k
    BY <2>2 DEF k
  <2> QED  BY <2>2, <2>3, SyncReflects DEF SubmissionInv
<1> QED  BY <1>1, SubmissionInvariance, PTL DEF SubmissionSpec, ReceiptEffectsAreApplied

\* What is known of the last receipt: its transaction executed, and what it says is true.
ReceiptInv ==
  /\ certified \in 0..Len(ledger)
  /\ requested \in Finality
  /\ IsReceipt(outcome) => outcome.submission \in 1..Len(placed) /\ placed[outcome.submission] # 0
  /\ ObservedFinalityIsTrue

\* Positions and checkpoints only grow.
LEMMA HistoryGrows ==
  ASSUME SubmissionInv, ReceiptInv, [SubmissionNext]_allVars
  PROVE  /\ certified \in Nat /\ certified' \in certified..Len(ledger')
         /\ Len(placed) \in Nat /\ Len(placed') \in Nat /\ Len(placed') >= Len(placed)
         /\ \A n \in 1..Len(placed) : placed[n] # 0 => placed'[n] = placed[n]
<1>1. /\ Len(ledger) \in Nat /\ Len(placed) \in Nat /\ certified \in 0..Len(ledger)
      /\ placed \in Seq(Nat)
  BY Lengths DEF ReceiptInv, SubmissionInv, Placement
<1>2. CASE UNCHANGED <<ledger, placed, certified>>
  BY <1>1, <1>2
<1>3. CASE Certify
  BY <1>1, <1>3 DEF Certify, vars
<1>4. ASSUME NEW n \in 1..Len(placed), NetworkExecutes(n)
      PROVE  /\ certified' \in certified..Len(ledger') /\ Len(placed') = Len(placed)
             /\ \A m \in 1..Len(placed) : placed[m] # 0 => placed'[m] = placed[m]
  <2>1. Len(ledger') = Len(ledger) + 1
    BY <1>4, ExecutionPlaces
  <2>2. placed' = [placed EXCEPT ![n] = Len(world)] /\ placed[n] = 0 /\ certified' = certified
    BY <1>4 DEF NetworkExecutes
  <2>3. Len(placed') = Len(placed) /\ \A m \in 1..Len(placed) : m # n => placed'[m] = placed[m]
    BY <1>1, <2>2
  <2> QED  BY <1>1, <2>1, <2>2, <2>3
<1>5. CASE OtherClients
  <2>1. Len(ledger') = Len(ledger) + 1 /\ UNCHANGED <<placed, certified>>
    BY <1>5, ExternalGrows DEF OtherClients, submissionVars
  <2> QED  BY <1>1, <2>1
<1>6. ASSUME NEW finality \in Finality, Send(finality)
      PROVE  /\ UNCHANGED <<ledger, certified>> /\ Len(placed') = Len(placed) + 1
             /\ \A m \in 1..Len(placed) : placed'[m] = placed[m]
  <2>1. placed' = Append(placed, 0) /\ UNCHANGED <<ledger, certified>>
    BY <1>6 DEF Send, vars
  <2> QED  BY <1>1, <2>1
<1> QED
  <2>1. CASE PrepareFails \/ ReturnReceipt \/ ReturnUnusable \/ ReturnExecuteError \/ DropCommit
             \/ RestartProcess \/ UNCHANGED allVars
    BY <1>2, <2>1 DEF PrepareFails, ReturnReceipt, ReturnUnusable, ReturnExecuteError, DropCommit,
                      RestartProcess, Restart, vars, allVars, submissionVars
  <2>2. CASE Idle
    BY <1>2, <2>2, IdleKeepsLedger DEF Idle, submissionVars
  <2> QED  BY <1>1, <1>3, <1>4, <1>5, <1>6, <2>1, <2>2 DEF SubmissionNext

LEMMA ReceiptKeeps ==
  ASSUME SubmissionInv, ReceiptInv, [SubmissionNext]_allVars PROVE ReceiptInv'
<1>1. certified' \in 0..Len(ledger')
  BY HistoryGrows
<1>2. requested' \in Finality
  BY DEF ReceiptInv, SubmissionNext, allVars, submissionVars, NetworkExecutes, Certify, OtherClients,
         PrepareFails, Send, ReturnReceipt, ReturnUnusable, ReturnExecuteError, DropCommit, Idle,
         RestartProcess, Returned, Finality
<1>3. ASSUME IsReceipt(outcome') /\ outcome' = outcome
      PROVE  /\ outcome'.submission \in 1..Len(placed') /\ placed'[outcome'.submission] # 0
             /\ ObservedFinalityIsTrue'
  <2>1. /\ outcome.submission \in 1..Len(placed) /\ placed[outcome.submission] # 0
        /\ outcome.observed = "Checkpointed" => placed[outcome.submission] \in 1..certified
        /\ outcome.wait = "Ok" <=> outcome.requested = "Checkpointed" /\ outcome.observed = "Checkpointed"
    BY <1>3 DEF ReceiptInv, ObservedFinalityIsTrue
  <2>2. outcome.submission \in 1..Len(placed') /\ placed'[outcome.submission] = placed[outcome.submission]
    BY <2>1, HistoryGrows
  <2>3. outcome.observed = "Checkpointed" => placed'[outcome.submission] \in 1..certified'
    BY <2>1, <2>2, HistoryGrows
  <2> QED  BY <1>3, <2>1, <2>2, <2>3 DEF ObservedFinalityIsTrue
<1>4. ASSUME IsReceipt(outcome'), outcome' # outcome
      PROVE  /\ outcome'.submission \in 1..Len(placed') /\ placed'[outcome'.submission] # 0
             /\ ObservedFinalityIsTrue'
  <2>1. ReturnReceipt
    BY <1>4, OnlyAnswersGiveReceipts
  <2>2. inflight \in 1..Len(placed) /\ placed[inflight] # 0 /\ placed[inflight] \in Nat
    BY <2>1 DEF ReturnReceipt, SubmissionInv, Placement
  <2>3. PICK effects \in BOOLEAN, end \in WaitFor(placed[inflight], placed[inflight] <= certified) :
          outcome' = [submission |-> inflight, effects |-> effects, requested |-> requested,
                      observed |-> end.observed, wait |-> end.wait]
    BY <2>1 DEF ReturnReceipt
  <2>4. UNCHANGED <<placed, certified>>
    BY <2>1 DEF ReturnReceipt
  <2>5. /\ end.observed = "Checkpointed" => placed[inflight] <= certified
        /\ end.wait = "Ok" <=> requested = "Checkpointed" /\ end.observed = "Checkpointed"
    BY <2>3 DEF WaitFor
  <2>6. end.observed = "Checkpointed" => placed[inflight] \in 1..certified
    BY <2>2, <2>5, HistoryGrows
  <2> QED  BY <2>2, <2>3, <2>4, <2>5, <2>6 DEF ObservedFinalityIsTrue
<1> QED  BY <1>1, <1>2, <1>3, <1>4 DEF ReceiptInv, ObservedFinalityIsTrue

\* A receipt claims a checkpoint only for a transaction that is in one.
THEOREM TrueFinality == SubmissionSpec => []ObservedFinalityIsTrue
<1>1. SubmissionInit => ReceiptInv
  <2>1. SubmissionInit => ~IsReceipt(outcome)
    BY DEF SubmissionInit, NoOutcome, IsReceipt
  <2> QED  BY <2>1 DEF SubmissionInit, ReceiptInv, ObservedFinalityIsTrue, Init, ChainInit, Finality
<1>2. SubmissionInv /\ ReceiptInv /\ [SubmissionNext]_allVars => ReceiptInv'
  BY ReceiptKeeps
<1>3. ReceiptInv => ObservedFinalityIsTrue
  BY DEF ReceiptInv
<1> QED  BY <1>1, <1>2, <1>3, SubmissionInvariance, PTL DEF SubmissionSpec

-----------------------------------------------------------------------------
(* Types *)

\* A caller is left with a receipt or an error and nothing else.
LEMMA OutcomeKeeps ==
  ASSUME SubmissionInv, ReceiptInv, outcome \in Receipt \cup Failure, [SubmissionNext]_allVars
  PROVE  outcome' \in Receipt \cup Failure
<1>1. inflight \in Nat /\ requested \in Finality
  BY Lengths DEF SubmissionInv, Placement, ReceiptInv
<1>2. CASE ReturnReceipt
  <2>1. PICK effects \in BOOLEAN, end \in WaitFor(placed[inflight], placed[inflight] <= certified) :
          outcome' = [submission |-> inflight, effects |-> effects, requested |-> requested,
                      observed |-> end.observed, wait |-> end.wait]
    BY <1>2 DEF ReturnReceipt
  <2>2. end.observed \in Finality /\ end.wait \in CheckpointWaitOutcome
    BY <2>1 DEF WaitFor, Finality, CheckpointWaitOutcome
  <2> QED  BY <1>1, <2>1, <2>2 DEF Receipt
<1>3. CASE PrepareFails \/ ReturnUnusable \/ ReturnExecuteError
  BY <1>1, <1>3 DEF PrepareFails, ReturnUnusable, ReturnExecuteError, Failure, TxError
<1>4. CASE UNCHANGED outcome
  BY <1>4
<1> QED
  BY <1>2, <1>3, <1>4 DEF SubmissionNext, allVars, submissionVars, NetworkExecutes, Certify,
     OtherClients, Send, DropCommit, Idle, RestartProcess

OutcomeInv == ReceiptInv /\ outcome \in Receipt \cup Failure

\* Whatever order things come in, submissions, positions and outcomes keep their types.
THEOREM SubmissionTypes == SubmissionSpec => []SubmissionTypeOK
<1>1. SubmissionInit => OutcomeInv
  <2>1. SubmissionInit => ~IsReceipt(outcome) /\ outcome \in Failure
    BY DEF SubmissionInit, NoOutcome, IsReceipt, Failure, TxError
  <2> QED  BY <2>1 DEF OutcomeInv, SubmissionInit, ReceiptInv, ObservedFinalityIsTrue, Init, ChainInit, Finality
<1>2. SubmissionInv /\ OutcomeInv /\ [SubmissionNext]_allVars => OutcomeInv'
  BY ReceiptKeeps, OutcomeKeeps DEF OutcomeInv
<1>3. SubmissionInv /\ OutcomeInv => SubmissionTypeOK
  BY DEF OutcomeInv, SubmissionInv, Placement, ReceiptInv, SubmissionTypeOK
<1> QED  BY <1>1, <1>2, <1>3, SubmissionInvariance, PTL DEF SubmissionSpec
=============================================================================
