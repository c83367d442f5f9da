-------------------------------- MODULE Chain --------------------------------
(***************************************************************************)
(* The Sui ledger as the runtime sees it through gRPC: the sequence of     *)
(* executed transactions, the object store before and after each, and the  *)
(* effects the network reports for each.  External to this repository.     *)
(*                                                                         *)
(* A transaction's lamport version is abstracted to its position in the    *)
(* ledger: all the runtime relies on is that each transaction gives an     *)
(* object a version above every version the object had before.             *)
(***************************************************************************)
EXTENDS Effects, Sequences

CONSTANTS MaxTransactions, \* bound on the length of the ledger
          Formats,         \* effects formats the network uses: {"V1"}, {"V2"} or both
          ChainOwnerKinds, \* owner kinds objects may have in this instance
          PackageIds       \* the ids that packages are published at

ASSUME ChainAssumption ==
  /\ MaxTransactions \in Nat
  /\ Formats \subseteq {"V1", "V2"}
  /\ ChainOwnerKinds \subseteq OwnerKind
  /\ PackageIds \subseteq Ids

VARIABLES world,  \* world[k] is the object store after k - 1 transactions
          ledger  \* ledger[k] holds the effects of transaction k

chainVars == <<world, ledger>>

\* An object that is not live keeps the version it last had.
ChainObject == [status : {"absent", "live", "wrapped", "deleted", "package"},
                version : Nat, owner : Owner \cup {None}]

Absent == [status |-> "absent", version |-> 0, owner |-> None]

Live(version, owner) == [status |-> "live", version |-> version, owner |-> owner]

Package == [status |-> "package", version |-> 1, owner |-> None]

Now == world[Len(world)]

Genesis == {Absent} \cup
           {Live(1, [kind |-> kind, start |-> IF kind \in SharedLike THEN 1 ELSE 0]) :
              kind \in ChainOwnerKinds}

ChainInit == /\ \E store \in [Ids -> Genesis] :
                  /\ \A id \in PackageIds : store[id] = Absent
                  /\ world = <<store>>
             /\ ledger = <<>>

-----------------------------------------------------------------------------
(* What one transaction may do to an object. *)

\* Only an object created by the transaction can be shared; an object that stays
\* consensus-owned keeps its start version.
NextOwners(obj, lamport) ==
  {[kind  |-> kind,
    start |-> IF kind \notin SharedLike THEN 0
              ELSE IF obj.status = "live" /\ obj.owner.kind = kind THEN obj.owner.start
              ELSE lamport] :
     kind \in {k \in ChainOwnerKinds : k = "Shared" => obj.status = "absent"}}

\* The states a transaction may leave the object of id in.  Immutable objects never
\* change again, shared objects stay shared or are deleted.
Outcomes(id, obj, lamport) ==
  LET written == {Live(lamport, owner) : owner \in NextOwners(obj, lamport)}
      gone(status) == [obj EXCEPT !.status = status, !.owner = None]
  IN  {obj} \cup
      CASE obj.status = "absent" -> IF id \in PackageIds THEN {Package} ELSE written
        [] obj.status = "wrapped" -> written \cup {gone("deleted")}
        [] obj.status = "live" ->
             IF obj.owner.kind = "Immutable" THEN {}
             ELSE IF obj.owner.kind = "Shared"
                  THEN {Live(lamport, obj.owner), gone("deleted")}
                  ELSE written \cup {gone("deleted"), gone("wrapped")}
        [] OTHER -> {}

\* The ids whose object goes from one of the states from to one of the states to.
Moved(pre, post, from, to) ==
  {id \in Ids : /\ pre[id] # post[id]
                /\ pre[id].status \in from /\ post[id].status \in to}

RefsOf(post, ids) ==
  [id \in Ids |-> IF id \in ids
                    THEN [version |-> post[id].version,
                          owner   |-> IF post[id].status = "package"
                                        THEN [kind |-> "Immutable", start |-> 0]
                                        ELSE post[id].owner]
                    ELSE None]

\* Format 1 lists the ids by what happened to them, and repeats the gas object.
AsEffectsV1(pre, post, gas) ==
  [format                 |-> "V1",
   created                |-> RefsOf(post, Moved(pre, post, {"absent"}, {"live", "package"})),
   mutated                |-> RefsOf(post, Moved(pre, post, {"live"}, {"live"})),
   unwrapped              |-> RefsOf(post, Moved(pre, post, {"wrapped"}, {"live"})),
   gas_object             |-> RefsOf(post, gas),
   deleted                |-> Moved(pre, post, {"live"}, {"deleted"}),
   unwrapped_then_deleted |-> Moved(pre, post, {"wrapped"}, {"deleted"}),
   wrapped                |-> Moved(pre, post, {"live"}, {"wrapped"})]

\* Format 2 has one entry per changed id.
AsEffectsV2(pre, post, lamport) ==
  [format          |-> "V2",
   lamport_version |-> lamport,
   changed         |->
     [id \in Ids |->
        IF pre[id] = post[id] THEN None
        ELSE [output       |-> CASE post[id].status = "live"    -> "ObjectWrite"
                                 [] post[id].status = "package" -> "PackageWrite"
                                 [] OTHER                       -> "NotExist",
              id_operation |-> CASE pre[id].status = "absent"   -> "Created"
                                 [] post[id].status = "deleted" -> "Deleted"
                                 [] OTHER                       -> "None",
              owner        |-> post[id].owner,
              version      |-> post[id].version]]]

\* The address-owned objects that may have paid for the transaction.
GasObjects(pre, post) ==
  {id \in Moved(pre, post, {"live"}, {"live"}) : post[id].owner.kind = "Address"}

\* The effects the network may report for a step from store pre to store post.
ReportedEffects(pre, post, lamport) ==
  (IF "V2" \in Formats THEN {AsEffectsV2(pre, post, lamport)} ELSE {}) \cup
  (IF "V1" \in Formats
     THEN {AsEffectsV1(pre, post, gas) : gas \in {{}} \cup {{id} : id \in GasObjects(pre, post)}}
     ELSE {})

\* The stores one transaction may lead to.
Successors(pre, lamport) ==
  {post \in [Ids -> UNION {Outcomes(id, pre[id], lamport) : id \in Ids}] :
     /\ post # pre
     /\ \A id \in Ids : post[id] \in Outcomes(id, pre[id], lamport)}

\* The network executes one transaction, this runtime's or another client's.
Execute(post, effects) ==
  LET lamport == Len(world) + 1 IN
  /\ Len(ledger) < MaxTransactions
  /\ post \in Successors(Now, lamport)
  /\ effects \in ReportedEffects(Now, post, lamport)
  /\ world' = Append(world, post)
  /\ ledger' = Append(ledger, effects)

\* The ids transaction k changed.
Touched(k) == {id \in Ids : world[k][id] # world[k + 1][id]}
=============================================================================
