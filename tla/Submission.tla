------------------------------ MODULE Submission ------------------------------
(***************************************************************************)
(* Tx::commit as it runs (tx::submit_and_wait, Tx::commit_ptb_with_inner): *)
(* the signed transaction is sent, the network executes it or not, now or  *)
(* after the caller has given up, and the answer, if one comes, becomes a  *)
(* receipt or an error.  Module Cursor has the whole of it as one action;  *)
(* this module has every step another client, the network or the           *)
(* application can come between.                                           *)
(*                                                                         *)
(* commit borrows the Runtime until it returns or its future is dropped,   *)
(* so nothing else reads or advances the cursor while one is in flight.    *)
(***************************************************************************)
EXTENDS Cursor

CONSTANT MaxSubmissions  \* bound on the commits of a behaviour

ASSUME SubmissionAssumption == MaxSubmissions \in Nat

VARIABLES placed,    \* placed[n] is the ledger position of submission n; 0 before
          inflight,  \* the submission a commit is waiting for, or 0
          requested, \* the finality it asked for
          certified, \* the transactions of the ledger that are in checkpoints
          outcome    \* what the last commit to return gave its caller

submissionVars == <<placed, inflight, requested, certified, outcome>>

allVars == <<vars, submissionVars>>

Finality == {"Executed", "Checkpointed"}

\* The errors of TxError, by where commit gives up: before it sends, when no answer
\* comes back, on an answer without a transaction, on effects that do not decode.
TxError == {"Prepare", "Execute", "MissingExecuted", "Proto"}

CheckpointWaitOutcome == {"Ok", "Timeout", "StreamError", "NotRequested"}

\* What ends a commit.  submission says which; a caller learns it, as the digest, from
\* a receipt and not from an error.
Receipt == [submission : Nat, effects : BOOLEAN, requested : Finality,
            observed : Finality, wait : CheckpointWaitOutcome]

Failure == [submission : Nat, error : TxError]

\* Neither: no commit has returned.
NoOutcome == [submission |-> 0, error |-> "Prepare"]

-----------------------------------------------------------------------------
(* The network.  External: placed and certified are what it does.          *)

\* Submission n executes; its caller may have gone.
NetworkExecutes(n) ==
  /\ placed[n] = 0
  /\ \E post \in Successors(Now, Len(world) + 1) :
       \E effects \in ReportedEffects(Now, post, Len(world) + 1) : Execute(post, effects)
  /\ placed' = [placed EXCEPT ![n] = Len(world)]
  /\ UNCHANGED <<cells, persisted, seen, inflight, requested, certified, outcome>>

Certify ==
  /\ certified' \in (certified + 1)..Len(ledger)
  /\ UNCHANGED <<vars, placed, inflight, requested, outcome>>

OtherClients == ExternalTransaction /\ UNCHANGED submissionVars

-----------------------------------------------------------------------------
(* commit: up to the request *)

\* The gas price, the gas coin or the signature fails: nothing is sent.
PrepareFails ==
  /\ inflight = 0
  /\ outcome' = [submission |-> 0, error |-> "Prepare"]
  /\ UNCHANGED <<vars, placed, inflight, requested, certified>>

Send(finality) ==
  /\ inflight = 0
  /\ Len(placed) < MaxSubmissions
  /\ placed' = Append(placed, 0)
  /\ inflight' = Len(placed) + 1
  /\ requested' = finality
  /\ UNCHANGED <<vars, certified, outcome>>

-----------------------------------------------------------------------------
(* commit: the answer *)

\* Mutant of WaitFor: any answer counts as the finality that was asked for.
WaitForRequested(position, inCheckpoint) ==
  {[wait |-> wait, observed |-> requested] :
     wait \in IF requested = "Checkpointed" THEN {"Ok", "Timeout", "StreamError"}
             ELSE {"NotRequested"}}

\* What the wait for a submission at that position may report.  Asked for a checkpoint:
\* it was seen, or the wait ended first.  Not asked: the answer says what it says.
WaitFor(position, inCheckpoint) ==
  IF requested = "Checkpointed"
    THEN {[wait |-> wait, observed |-> "Executed"] : wait \in {"Timeout", "StreamError"}}
         \cup (IF inCheckpoint THEN {[wait |-> "Ok", observed |-> "Checkpointed"]} ELSE {})
    ELSE {[wait |-> "NotRequested", observed |-> "Executed"]}
         \cup (IF inCheckpoint THEN {[wait |-> "NotRequested", observed |-> "Checkpointed"]}
                               ELSE {})

\* Mutant of AppliesPatch: handles advance only with a checkpoint.
AppliesPatchWhenCertified(receipt) == receipt.effects /\ receipt.observed = "Checkpointed"

\* Whatever the finality: effects in the receipt advance the cursor.
AppliesPatch(receipt) == receipt.effects

\* The borrow of the Runtime ends.
Returned == inflight' = 0 /\ requested' = "Checkpointed"

\* The answer has a transaction, and its effects decode or are absent.
ReturnReceipt ==
  /\ inflight # 0 /\ placed[inflight] # 0
  /\ \E effects \in BOOLEAN :
     \E end \in WaitFor(placed[inflight], placed[inflight] <= certified) :
       LET receipt == [submission |-> inflight, effects |-> effects, requested |-> requested,
                       observed |-> end.observed, wait |-> end.wait]
           k == placed[inflight]
       IN  /\ outcome' = receipt
           /\ cells' = IF AppliesPatch(receipt) THEN ApplyPatch(cells, FromEffects(ledger[k]))
                       ELSE cells
           /\ seen' = IF effects THEN SeenWith(k, Touched(k)) ELSE seen
  /\ Returned
  /\ UNCHANGED <<world, ledger, persisted, placed, certified>>

\* The answer has no transaction, or effects that do not decode: the error has no digest.
ReturnUnusable ==
  /\ inflight # 0 /\ placed[inflight] # 0
  /\ \E error \in {"MissingExecuted", "Proto"} :
       outcome' = [submission |-> inflight, error |-> error]
  /\ Returned
  /\ UNCHANGED <<vars, placed, certified>>

\* No answer: rejected, unreachable, or lost on the way back.
ReturnExecuteError ==
  /\ inflight # 0
  /\ outcome' = [submission |-> inflight, error |-> "Execute"]
  /\ Returned
  /\ UNCHANGED <<vars, placed, certified>>

\* The application drops the future: the borrow ends, the request does not.
DropCommit ==
  /\ inflight # 0
  /\ Returned
  /\ UNCHANGED <<vars, placed, certified, outcome>>

-----------------------------------------------------------------------------
(* The rest of the runtime waits for the borrow; the process may stop at any time. *)

Idle ==
  /\ inflight = 0
  /\ (\E k \in 1..Len(ledger) : SyncTransaction(k)) \/ Read \/ CursorSnapshot
  /\ UNCHANGED submissionVars

RestartProcess ==
  /\ Restart
  /\ Returned
  /\ UNCHANGED <<placed, certified, outcome>>

SubmissionInit ==
  /\ Init
  /\ placed = <<>>
  /\ inflight = 0
  /\ requested = "Checkpointed"
  /\ certified = 0
  /\ outcome = NoOutcome

SubmissionNext ==
  \/ \E n \in 1..Len(placed) : NetworkExecutes(n)
  \/ Certify
  \/ OtherClients
  \/ PrepareFails
  \/ \E finality \in Finality : Send(finality)
  \/ ReturnReceipt
  \/ ReturnUnusable
  \/ ReturnExecuteError
  \/ DropCommit
  \/ Idle
  \/ RestartProcess

SubmissionSpec == SubmissionInit /\ [][SubmissionNext]_allVars

-----------------------------------------------------------------------------
(* Properties *)

\* What a caller holds is a receipt or an error, and what is in flight was sent.
SubmissionTypeOK ==
  /\ placed \in Seq(Nat)
  /\ inflight \in 0..Len(placed)
  /\ requested \in Finality
  /\ certified \in 0..Len(ledger)
  /\ outcome \in Receipt \cup Failure

\* However the steps of a commit interleave with other clients, lost answers, dropped
\* futures and restarts, the cursor only does what module Cursor allows: a commit acts
\* as a sync of its own digest, and as one in the order of execution.
ImplementsCursor == Spec

IsReceipt(result) == "effects" \in DOMAIN result

\* A receipt says Checkpointed only of a transaction that is in a checkpoint, and says
\* so whenever it waited for one successfully (observed_finality, checkpoint_wait).
ObservedFinalityIsTrue ==
  IsReceipt(outcome) =>
    /\ outcome.observed = "Checkpointed" => placed[outcome.submission] \in 1..certified
    /\ outcome.wait = "Ok" <=> outcome.requested = "Checkpointed" /\ outcome.observed = "Checkpointed"

\* When commit returns a receipt with effects, every handle of an object the transaction
\* changed already holds the state it left, whoever else wrote in between
\* (README, "the runtime already advanced its cursor before returning the receipt").
ReceiptEffectsAreApplied ==
  [][outcome' # outcome /\ IsReceipt(outcome') /\ outcome'.effects =>
       LET k == placed[outcome'.submission] IN
       \A id \in Ids : Tracked(id) /\ id \in Touched(k) => Reflects(cells'[id], world[k + 1][id])]_allVars

\* digest is always present once submission succeeds: a commit the node answered
\* returns a receipt (README, "Receipts, finality, and recovery").
AnsweredSubmissionsHaveReceipts ==
  ~IsReceipt(outcome) => outcome.error \notin {"MissingExecuted", "Proto"}
=============================================================================
