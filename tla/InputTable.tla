----------------------------- MODULE InputTable -----------------------------
(***************************************************************************)
(* What the input table of a programmable transaction promises, whatever   *)
(* its order and its indices: one entry for each object id, with the       *)
(* strongest access asked for; each pure value once; every withdrawal of   *)
(* funds counted.  A request that does not agree with the entry of its     *)
(* object is refused.                                                      *)
(***************************************************************************)
EXTENDS CallArgs

VARIABLES objects,     \* the entry of each object id, or None
          values,      \* the pure values
          withdrawals  \* the number of withdrawals of each kind

Init == /\ objects = [id \in ObjectIds |-> None]
        /\ values = {}
        /\ withdrawals = [funds \in Withdrawals |-> 0]

AddPure(request) ==
  /\ request \in PureArg
  /\ values' = values \cup {request.bytes}
  /\ UNCHANGED <<objects, withdrawals>>

AddWithdrawal(request) ==
  /\ request \in WithdrawalArg
  /\ withdrawals' = [withdrawals EXCEPT ![request.funds] = @ + 1]
  /\ UNCHANGED <<objects, values>>

\* The first request for an object, or one its entry agrees with: the entry then has
\* the stronger of the two.
AddObject(request) ==
  /\ request \in ObjectArg
  /\ \/ /\ objects[request.id] = None
        /\ objects' = [objects EXCEPT ![request.id] = request]
     \/ /\ objects[request.id] # None
        /\ SameObject(objects[request.id], request)
        /\ objects' = [objects EXCEPT ![request.id] = IF Covers(@, request) THEN @ ELSE request]
  /\ UNCHANGED <<values, withdrawals>>

Next == \E request \in CallArg : AddPure(request) \/ AddWithdrawal(request) \/ AddObject(request)

Spec == Init /\ [][Next]_<<objects, values, withdrawals>>
=============================================================================
