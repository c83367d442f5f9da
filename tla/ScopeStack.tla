----------------------------- MODULE ScopeStack -----------------------------
(***************************************************************************)
(* What the scopes of a generated binding promise to whoever asks for the  *)
(* address of a package: the innermost scope that is open and says         *)
(* anything about it answers, and the binding itself if none does.         *)
(***************************************************************************)
EXTENDS Integers, Sequences

CONSTANTS Questions, \* what can be asked for
          Addresses, \* what can be answered
          Default,   \* Default[question] is the answer outside every scope
          None       \* no answer

VARIABLES scopes,  \* the open scopes, the innermost last: an answer or None to each question
          answers  \* the answer to each question

Innermost(stack, question, answer) ==
  \/ /\ \A i \in DOMAIN stack : stack[i][question] = None
     /\ answer = Default[question]
  \/ /\ answer # None
     /\ \E i \in DOMAIN stack : /\ stack[i][question] = answer
                                /\ \A j \in i + 1..Len(stack) : stack[j][question] = None

Answered == /\ DOMAIN answers' = Questions
            /\ \A question \in Questions : Innermost(scopes', question, answers'[question])

Init == scopes = <<>> /\ answers = Default

Open == /\ \E scope \in [Questions -> Addresses \cup {None}] : scopes' = Append(scopes, scope)
        /\ Answered

Close == /\ scopes # <<>>
         /\ scopes' = SubSeq(scopes, 1, Len(scopes) - 1)
         /\ Answered

Next == Open \/ Close

Spec == Init /\ [][Next]_<<scopes, answers>>
=============================================================================
