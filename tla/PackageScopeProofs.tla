------------------------- MODULE PackageScopeProofs -------------------------
(***************************************************************************)
(* The thread locals of a generated binding implement a stack of scopes,   *)
(* for any packages, datatypes and origins and any depth.                  *)
(***************************************************************************)
EXTENDS PackageScope, SequenceTheorems, TLAPS

\* value is what the first n frames of stack leave in a slot they set as part.
Left(stack, n, part, value) ==
  \/ /\ \A i \in 1..n : stack[i][part] = None
     /\ value = None
  \/ /\ value # None
     /\ \E i \in 1..n : /\ stack[i][part] = value
                        /\ \A j \in i + 1..n : stack[j][part] = None

\* A slot has what the frames left in it, and a guard has what those before it left.
SavedInv ==
  /\ Left(frames, Len(frames), "call", callOverride)
  /\ Left(frames, Len(frames), "type", typeScope)
  /\ \A i \in 1..Len(frames) : /\ Left(frames, i - 1, "call", frames[i].previousCall)
                               /\ Left(frames, i - 1, "type", frames[i].previousType)

IInv == TypeOK /\ SavedInv

-----------------------------------------------------------------------------
(* Slots *)

\* What some frames leave depends on them only.
LEMMA LeftOfPrefix ==
  ASSUME NEW stack, NEW other, NEW n \in Nat, NEW part, NEW value,
         \A i \in 1..n : other[i] = stack[i],
         Left(stack, n, part, value)
  PROVE  Left(other, n, part, value)
<1>1. \A i \in 1..n : \A j \in i + 1..n : j \in 1..n
  OBVIOUS
<1> QED  BY <1>1 DEF Left

\* One more frame leaves what it sets, or what was there.
LEMMA LeftOfNext ==
  ASSUME NEW stack, NEW n \in Nat, NEW part, NEW value, Left(stack, n, part, value)
  PROVE  Left(stack, n + 1, part, Override(value, stack[n + 1][part]))
<1>1. CASE stack[n + 1][part] # None
  <2>1. n + 1 \in 1..n + 1 /\ \A j \in (n + 1) + 1..n + 1 : stack[j][part] = None
    OBVIOUS
  <2> QED  BY <1>1, <2>1 DEF Left, Override
<1>2. CASE stack[n + 1][part] = None
  <2>1. Override(value, stack[n + 1][part]) = value
    BY <1>2 DEF Override
  <2>2. \A i \in 1..n + 1 : i \in 1..n \/ i = n + 1
    OBVIOUS
  <2>3. \A i \in 1..n : i \in 1..n + 1 /\ \A j \in i + 1..n + 1 : j \in i + 1..n \/ j = n + 1
    OBVIOUS
  <2>4. CASE value = None
    BY <1>2, <2>1, <2>2, <2>4 DEF Left
  <2>5. CASE value # None
    BY <1>2, <2>1, <2>3, <2>5 DEF Left
  <2> QED  BY <2>4, <2>5
<1> QED  BY <1>1, <1>2

\* Without the last frame there is what its guard has, or what is there if it set nothing.
LEMMA LeftOfPrevious ==
  ASSUME NEW stack, NEW n \in Nat \ {0}, NEW part, NEW value, Left(stack, n, part, value),
         stack[n][part] = None
  PROVE  Left(stack, n - 1, part, value)
<1>1. \A i \in 1..n - 1 : i \in 1..n /\ \A j \in i + 1..n - 1 : j \in i + 1..n
  OBVIOUS
<1>2. \A i \in 1..n : i \in 1..n - 1 \/ i = n
  OBVIOUS
<1>3. CASE value = None
  BY <1>1, <1>3 DEF Left
<1>4. CASE value # None
  BY <1>1, <1>2, <1>4 DEF Left
<1> QED  BY <1>3, <1>4

-----------------------------------------------------------------------------
(* Steps *)

LEMMA EnterKeeps ==
  ASSUME IInv, NEW package \in Addresses \cup {None}, NEW scope \in TypeScope \cup {None},
         Enter(package, scope)
  PROVE  IInv'
<1> DEFINE frame == [call |-> package, type |-> scope,
                     previousCall |-> callOverride, previousType |-> typeScope]
           n == Len(frames)
<1>1. /\ frames' = Append(frames, frame) /\ unwinding' = unwinding
      /\ callOverride' = Override(callOverride, package)
      /\ typeScope' = Override(typeScope, scope)
  BY DEF Enter
<1>2. frame \in Frame /\ frames \in Seq(Frame) /\ n \in Nat
  BY DEF IInv, TypeOK, Frame
<1>3. TypeOK'
  <2>1. callOverride' \in Addresses \cup {None} /\ typeScope' \in TypeScope \cup {None}
    BY <1>1 DEF IInv, TypeOK, Override
  <2>2. frames' \in Seq(Frame)
    BY <1>1, <1>2
  <2> QED  BY <1>1, <2>1, <2>2 DEF IInv, TypeOK
<1>4. /\ Len(frames') = n + 1 /\ frames'[n + 1] = frame
      /\ \A i \in 1..n : frames'[i] = frames[i]
  BY <1>1, <1>2
<1>5. frame.call = package /\ frame.type = scope
      /\ frame.previousCall = callOverride /\ frame.previousType = typeScope
  OBVIOUS
<1> HIDE DEF frame
<1>6. Left(frames', n, "call", callOverride) /\ Left(frames', n, "type", typeScope)
  BY <1>2, <1>4, LeftOfPrefix DEF IInv, SavedInv
<1>7. Left(frames', n + 1, "call", callOverride') /\ Left(frames', n + 1, "type", typeScope')
  BY <1>1, <1>2, <1>4, <1>5, <1>6, LeftOfNext
<1>8. ASSUME NEW i \in 1..n + 1
      PROVE  /\ Left(frames', i - 1, "call", frames'[i].previousCall)
             /\ Left(frames', i - 1, "type", frames'[i].previousType)
  <2>1. CASE i = n + 1
    <3>1. i - 1 = n /\ frames'[i] = frame
      BY <1>2, <1>4, <2>1
    <3> QED  BY <1>5, <1>6, <3>1
  <2>2. CASE i \in 1..n
    <3>1. frames'[i] = frames[i] /\ i - 1 \in Nat /\ \A j \in 1..i - 1 : frames'[j] = frames[j]
      BY <1>2, <1>4, <2>2
    <3>2. /\ Left(frames, i - 1, "call", frames[i].previousCall)
          /\ Left(frames, i - 1, "type", frames[i].previousType)
      BY <2>2 DEF IInv, SavedInv
    <3> QED  BY <3>1, <3>2, LeftOfPrefix
  <2> QED  BY <1>2, <2>1, <2>2
<1> QED  BY <1>3, <1>4, <1>7, <1>8 DEF IInv, SavedInv

\* A stack without its last frame.
LEMMA FrontTyped ==
  ASSUME NEW S, NEW stack \in Seq(S), stack # <<>>
  PROVE  LET front == SubSeq(stack, 1, Len(stack) - 1)
         IN  /\ Len(stack) \in Nat \ {0} /\ stack[Len(stack)] \in S
             /\ front \in Seq(S) /\ Len(front) = Len(stack) - 1
             /\ \A i \in 1..Len(stack) - 1 : front[i] = stack[i]
<1>1. Len(stack) \in Nat \ {0}
  OBVIOUS
<1>2. \A i \in 1..Len(stack) - 1 : stack[i] \in S
  BY <1>1
<1>3. /\ SubSeq(stack, 1, Len(stack) - 1) \in Seq(S)
      /\ Len(SubSeq(stack, 1, Len(stack) - 1)) = Len(stack) - 1
      /\ \A i \in 1..Len(stack) - 1 : SubSeq(stack, 1, Len(stack) - 1)[i] = stack[i]
  <2> DEFINE n == Len(stack) - 1
  <2>1. 1 \in Int /\ n \in Int /\ n \in Nat
    BY <1>1
  <2>2. \A i \in 1..n : stack[i] \in S
    BY <1>2
  <2> HIDE DEF n
  <2>3. /\ SubSeq(stack, 1, n) \in Seq(S)
        /\ Len(SubSeq(stack, 1, n)) = IF 1 <= n THEN n - 1 + 1 ELSE 0
        /\ \A i \in 1..n - 1 + 1 : SubSeq(stack, 1, n)[i] = stack[1 + i - 1]
    BY <2>1, <2>2, SubSeqProperties
  <2>4. Len(SubSeq(stack, 1, n)) = n /\ n - 1 + 1 = n /\ \A i \in 1..n : 1 + i - 1 = i
    BY <2>1, <2>3
  <2> QED  BY <2>3, <2>4 DEF n
<1> QED  BY <1>1, <1>3

LEMMA LeaveKeeps == ASSUME IInv, Leave PROVE IInv'
<1> DEFINE n == Len(frames)
           frame == frames[n]
<1>1. /\ frames # <<>> /\ frames' = SubSeq(frames, 1, n - 1) /\ unwinding' = unwinding
      /\ callOverride' = IF frame.call = None THEN callOverride ELSE frame.previousCall
      /\ typeScope' = IF frame.type = None THEN typeScope ELSE frame.previousType
  BY DEF Leave, Reset
<1>2. frames \in Seq(Frame)
  BY DEF IInv, TypeOK
<1>3. n \in Nat \ {0} /\ frame \in Frame
  BY <1>1, <1>2, FrontTyped
<1>4. /\ Len(frames') = n - 1 /\ frames' \in Seq(Frame)
      /\ \A i \in 1..n - 1 : frames'[i] = frames[i]
  BY <1>1, <1>2, FrontTyped
<1>5. TypeOK'
  <2>1. /\ frame.previousCall \in Addresses \cup {None}
        /\ frame.previousType \in TypeScope \cup {None}
    BY <1>3 DEF Frame
  <2> HIDE DEF frame
  <2> QED  BY <1>1, <1>4, <2>1 DEF IInv, TypeOK
<1>6. /\ Left(frames, n - 1, "call", frame.previousCall)
      /\ Left(frames, n - 1, "type", frame.previousType)
  BY <1>3 DEF IInv, SavedInv
<1>7. Left(frames, n - 1, "call", callOverride')
  <2>1. CASE frame.call = None
    <3>1. Left(frames, n, "call", callOverride) /\ frames[n]["call"] = None
      BY <2>1 DEF IInv, SavedInv
    <3> QED  BY <1>1, <1>3, <2>1, <3>1, LeftOfPrevious
  <2> QED  BY <1>1, <1>6, <2>1
<1>8. Left(frames, n - 1, "type", typeScope')
  <2>1. CASE frame.type = None
    <3>1. Left(frames, n, "type", typeScope) /\ frames[n]["type"] = None
      BY <2>1 DEF IInv, SavedInv
    <3> QED  BY <1>1, <1>3, <2>1, <3>1, LeftOfPrevious
  <2> QED  BY <1>1, <1>6, <2>1
<1>9. Left(frames', n - 1, "call", callOverride') /\ Left(frames', n - 1, "type", typeScope')
  BY <1>3, <1>4, <1>7, <1>8, LeftOfPrefix
<1>10. ASSUME NEW i \in 1..n - 1
       PROVE  /\ Left(frames', i - 1, "call", frames'[i].previousCall)
              /\ Left(frames', i - 1, "type", frames'[i].previousType)
  <2>1. frames'[i] = frames[i] /\ i - 1 \in Nat /\ \A j \in 1..i - 1 : frames'[j] = frames[j]
    BY <1>3, <1>4
  <2>2. i \in 1..Len(frames)
    BY <1>3
  <2>3. /\ Left(frames, i - 1, "call", frames[i].previousCall)
        /\ Left(frames, i - 1, "type", frames[i].previousType)
    BY <2>2 DEF IInv, SavedInv
  <2> QED  BY <2>1, <2>3, LeftOfPrefix
<1> QED  BY <1>4, <1>5, <1>9, <1>10 DEF IInv, SavedInv

\* Whatever with_* is called, it is the entry of a frame.
LEMMA WithEnters ==
  ASSUME WithCallPackage \/ WithTypeOrigins \/ WithTypePackage \/ WithPackages \/ WithPackageContext
  PROVE  \E package \in Addresses \cup {None}, scope \in TypeScope \cup {None} :
           Enter(package, scope)
<1>1. NoOrigins \in [Datatypes -> Addresses \cup {None}]
  BY DEF NoOrigins
<1>2. ASSUME NEW address \in Addresses, NEW origins \in Origins
      PROVE  [fallback |-> address, origins |-> origins] \in TypeScope
  BY ScopeAssumption DEF TypeScope
<1>3. ASSUME NEW address \in Addresses
      PROVE  [fallback |-> address, origins |-> NoOrigins] \in TypeScope
  BY <1>1 DEF TypeScope
<1>4. CASE WithCallPackage
  BY <1>4 DEF WithCallPackage
<1>5. CASE WithTypeOrigins
  BY <1>2, <1>5 DEF WithTypeOrigins
<1>6. CASE WithTypePackage
  BY <1>3, <1>6 DEF WithTypePackage
<1>7. CASE WithPackages
  BY <1>3, <1>7 DEF WithPackages
<1>8. CASE WithPackageContext
  BY <1>2, <1>8 DEF WithPackageContext
<1> QED  BY <1>4, <1>5, <1>6, <1>7, <1>8

\* A step enters a frame, leaves one, or changes neither slots nor frames.
LEMMA StepKinds ==
  ASSUME [Next]_vars
  PROVE  \/ \E package \in Addresses \cup {None}, scope \in TypeScope \cup {None} :
              Enter(package, scope)
         \/ Leave
         \/ /\ UNCHANGED <<callOverride, typeScope, frames>>
            /\ unwinding' \in BOOLEAN \/ unwinding' = unwinding
BY WithEnters DEF Next, Return, Unwind, Panic, Catch, vars

LEMMA InitIInv == Init => IInv
<1> SUFFICES ASSUME Init PROVE IInv
  OBVIOUS
<1>1. Len(frames) = 0 /\ frames \in Seq(Frame)
  BY DEF Init
<1>2. TypeOK
  BY <1>1 DEF Init, TypeOK
<1>3. SavedInv
  BY <1>1 DEF Init, SavedInv, Left
<1> QED  BY <1>2, <1>3 DEF IInv

LEMMA NextKeeps == IInv /\ [Next]_vars => IInv'
<1> SUFFICES ASSUME IInv, [Next]_vars PROVE IInv'
  OBVIOUS
<1>1. CASE UNCHANGED <<callOverride, typeScope, frames>>
           /\ (unwinding' \in BOOLEAN \/ unwinding' = unwinding)
  BY <1>1 DEF IInv, TypeOK, SavedInv
<1> QED  BY <1>1, StepKinds, EnterKeeps, LeaveKeeps

THEOREM Invariance == Spec => []IInv
<1>1. Init => IInv
  BY InitIInv
<1>2. IInv /\ [Next]_vars => IInv'
  BY NextKeeps
<1> QED  BY <1>1, <1>2, PTL DEF Spec

-----------------------------------------------------------------------------
(* Refinement *)

Stack == [i \in DOMAIN frames |-> Says(frames[i])]

Answers == [question \in Questions |-> Lookup(question)]

\* What the lookups answer under a type scope.
LEMMA TypeAnswers ==
  ASSUME TypeOK, NEW question \in Questions, question # "call"
  PROVE  /\ typeScope = None => Lookup(question) = TypePackage
         /\ Lookup(question) \in Addresses
         /\ typeScope # None =>
              \A frame : frame.type = typeScope => Says(frame)[question] = Lookup(question)
<1>1. /\ typeScope # None => /\ typeScope.fallback \in Addresses
                            /\ typeScope.origins \in [Datatypes -> Addresses \cup {None}]
      /\ TypePackage \in Addresses
  BY ScopeAssumption DEF TypeOK, TypeScope
<1>2. CASE question = "type"
  BY <1>1, <1>2 DEF Lookup, type_package, Says
<1>3. CASE question # "type"
  <2>1. question \in Datatypes
    BY <1>3 DEF Questions
  <2>2. Lookup(question) = type_package_for(question)
    BY <1>3 DEF Lookup
  <2>3. typeScope # None => typeScope.origins[question] \in Addresses \cup {None}
    BY <1>1, <2>1
  <2> QED  BY <1>1, <1>3, <2>2, <2>3 DEF type_package_for, type_package, Says
<1> QED  BY <1>2, <1>3

\* The lookups answer as the innermost scope that says anything about the question.
LEMMA LookupsAreInnermost ==
  ASSUME IInv, NEW question \in Questions
  PROVE  Scopes!Innermost(Stack, question, Lookup(question))
<1>1. /\ frames \in Seq(Frame) /\ DOMAIN frames = 1..Len(frames) /\ DOMAIN Stack = DOMAIN frames
      /\ Len(Stack) = Len(frames)
      /\ \A i \in 1..Len(frames) : Stack[i] = Says(frames[i])
  BY DEF IInv, TypeOK, Stack
<1>2. ASSUME question = "call" PROVE Scopes!Innermost(Stack, question, Lookup(question))
  <2>1. \A i \in 1..Len(frames) : Stack[i][question] = frames[i].call
    BY <1>1, <1>2 DEF Says
  <2>2. Left(frames, Len(frames), "call", callOverride)
    BY DEF IInv, SavedInv
  <2>3. Lookup(question) = call_package
    BY <1>2 DEF Lookup
  <2>4. CASE callOverride = None
    <3>1. \A i \in DOMAIN Stack : Stack[i][question] = None
      BY <1>1, <2>1, <2>2, <2>4 DEF Left
    <3>2. Lookup(question) = CallPackage
      BY <2>3, <2>4 DEF call_package
    <3> QED  BY <1>2, <3>1, <3>2 DEF Scopes!Innermost
  <2>5. CASE callOverride # None
    <3>1. Lookup(question) = callOverride
      BY <2>3, <2>5 DEF call_package
    <3>2. PICK i \in 1..Len(frames) : /\ frames[i]["call"] = callOverride
                                     /\ \A j \in i + 1..Len(frames) : frames[j]["call"] = None
      BY <2>2, <2>5 DEF Left
    <3>3. \A j \in i + 1..Len(frames) : j \in 1..Len(frames)
      BY <3>2
    <3> QED  BY <1>1, <2>1, <2>5, <3>1, <3>2, <3>3 DEF Scopes!Innermost
  <2> QED  BY <2>4, <2>5
<1>3. ASSUME question # "call" PROVE Scopes!Innermost(Stack, question, Lookup(question))
  <2>1. \A i \in 1..Len(frames) : frames[i].type = None => Stack[i][question] = None
    BY <1>1, <1>3 DEF Says
  <2>2. Left(frames, Len(frames), "type", typeScope)
    BY DEF IInv, SavedInv
  <2>3. CASE typeScope = None
    <3>1. \A i \in DOMAIN Stack : Stack[i][question] = None
      BY <1>1, <2>1, <2>2, <2>3 DEF Left
    <3>2. Lookup(question) = TypePackage
      BY <1>3, <2>3, TypeAnswers DEF IInv
    <3> QED  BY <1>3, <3>1, <3>2 DEF Scopes!Innermost
  <2>4. CASE typeScope # None
    <3>1. PICK i \in 1..Len(frames) : /\ frames[i]["type"] = typeScope
                                     /\ \A j \in i + 1..Len(frames) : frames[j]["type"] = None
      BY <2>2, <2>4 DEF Left
    <3>2. \A j \in i + 1..Len(frames) : j \in 1..Len(frames)
      BY <3>1
    <3>3. Stack[i][question] = Lookup(question)
      BY <1>1, <1>3, <2>4, <3>1, TypeAnswers DEF IInv
    <3>4. Lookup(question) # None
      BY <1>3, TypeAnswers, ScopeAssumption DEF IInv
    <3> QED  BY <1>1, <2>1, <3>1, <3>2, <3>3, <3>4 DEF Scopes!Innermost
  <2> QED  BY <2>3, <2>4
<1> QED  BY <1>2, <1>3

AllAnswered == \A question \in Questions : Scopes!Innermost(Stack, question, Answers[question])

\* In every state each lookup answers as the innermost open scope.
THEOREM InnermostAnswers == Spec => []AllAnswered
<1>1. IInv => AllAnswered
  BY LookupsAreInnermost DEF AllAnswered, Answers
<1> QED  BY <1>1, Invariance, PTL

LEMMA SaysTyped ==
  ASSUME NEW frame \in Frame PROVE Says(frame) \in [Questions -> Addresses \cup {None}]
<1> SUFFICES ASSUME NEW question \in Questions PROVE Says(frame)[question] \in Addresses \cup {None}
  BY DEF Says
<1>1. frame.call \in Addresses \cup {None} /\ frame.type \in TypeScope \cup {None}
  BY DEF Frame
<1>2. frame.type # None => /\ frame.type.fallback \in Addresses
                           /\ frame.type.origins \in [Datatypes -> Addresses \cup {None}]
  BY <1>1 DEF TypeScope
<1>3. question \notin {"call", "type"} => question \in Datatypes
  BY DEF Questions
<1> QED  BY <1>1, <1>2, <1>3 DEF Says

LEMMA EnterOpens ==
  ASSUME IInv, AllAnswered', NEW package \in Addresses \cup {None},
         NEW scope \in TypeScope \cup {None}, Enter(package, scope)
  PROVE  Scopes!Open
<1> DEFINE frame == [call |-> package, type |-> scope,
                     previousCall |-> callOverride, previousType |-> typeScope]
<1>1. frames' = Append(frames, frame) /\ frames \in Seq(Frame) /\ frame \in Frame
  BY DEF Enter, IInv, TypeOK, Frame
<1> HIDE DEF frame
<1>2. Says(frame) \in [Questions -> Addresses \cup {None}]
  BY <1>1, SaysTyped
<1>3. [i \in DOMAIN frames' |-> Says(frames'[i])] = Append(Stack, Says(frame))
  <2>1. DOMAIN frames' = 1..Len(frames) + 1 /\ DOMAIN frames = 1..Len(frames)
    BY <1>1
  <2>2. frames'[Len(frames) + 1] = frame /\ \A i \in 1..Len(frames) : frames'[i] = frames[i]
    BY <1>1
  <2>3. Stack = [i \in 1..Len(frames) |-> Says(frames[i])] /\ Len(Stack) = Len(frames)
    BY <1>1, <2>1 DEF Stack
  <2>4. Stack \in Seq([Questions -> Addresses \cup {None}])
    BY <1>1, <2>3, SaysTyped
  <2> DEFINE next == [i \in DOMAIN frames' |-> Says(frames'[i])]
  <2>5. next \in Seq([Questions -> Addresses \cup {None}])
    <3>1. next = [i \in 1..Len(frames) + 1 |-> Says(frames'[i])]
      BY <2>1
    <3>2. \A i \in 1..Len(frames) + 1 : Says(frames'[i]) \in [Questions -> Addresses \cup {None}]
      BY <1>1, <1>2, <2>2, SaysTyped
    <3> QED  BY <1>1, <3>1, <3>2
  <2> QED  BY <1>1, <1>2, <2>1, <2>2, <2>3, <2>4, <2>5
<1>4. Scopes!Answered
  BY DEF Scopes!Answered, AllAnswered, Stack, Answers
<1> QED  BY <1>2, <1>3, <1>4 DEF Scopes!Open, Stack

LEMMA LeaveCloses == ASSUME IInv, AllAnswered', Leave PROVE Scopes!Close
<1>1. frames # <<>> /\ frames' = SubSeq(frames, 1, Len(frames) - 1) /\ frames \in Seq(Frame)
  BY DEF Leave, IInv, TypeOK
<1>2. /\ Len(frames) \in Nat \ {0} /\ frames' \in Seq(Frame) /\ Len(frames') = Len(frames) - 1
      /\ \A i \in 1..Len(frames) - 1 : frames'[i] = frames[i]
  BY <1>1, FrontTyped
<1>3. Stack = [i \in 1..Len(frames) |-> Says(frames[i])] /\ Len(Stack) = Len(frames)
  BY <1>1 DEF Stack
<1>4. Stack \in Seq([Questions -> Addresses \cup {None}]) /\ Stack # <<>>
  BY <1>1, <1>2, <1>3, SaysTyped
<1>5. [i \in DOMAIN frames' |-> Says(frames'[i])] = SubSeq(Stack, 1, Len(Stack) - 1)
  <2>1. [i \in DOMAIN frames' |-> Says(frames'[i])]
          = [i \in 1..Len(frames) - 1 |-> Says(frames[i])]
    BY <1>2
  <2>2. SubSeq(Stack, 1, Len(Stack) - 1) = [i \in 1..Len(frames) - 1 |-> Stack[i]]
    BY <1>2, <1>3, <1>4
  <2>3. \A i \in 1..Len(frames) - 1 : Stack[i] = Says(frames[i])
    BY <1>2, <1>3
  <2> QED  BY <2>1, <2>2, <2>3
<1>6. Scopes!Answered
  BY DEF Scopes!Answered, AllAnswered, Stack, Answers
<1> QED  BY <1>4, <1>5, <1>6 DEF Scopes!Close, Stack

\* Two thread locals and the values their guards keep on the stack implement the stack of
\* scopes: a panic that leaves any number of closures costs no lookup its answer.
THEOREM Implementation == Spec => ImplementsScopeStack
<1>1. Init => Scopes!Init
  <2> SUFFICES ASSUME Init PROVE Scopes!Init
    OBVIOUS
  <2>1. Stack = <<>>
    BY DEF Init, Stack
  <2>2. Answers = [question \in Questions |-> IF question = "call" THEN CallPackage ELSE TypePackage]
    BY DEF Init, Answers, Lookup, call_package, type_package, type_package_for
  <2> QED  BY <2>1, <2>2 DEF Scopes!Init, Stack, Answers
<1>2. IInv /\ AllAnswered' /\ [Next]_vars => [Scopes!Next]_<<Stack, Answers>>
  <2> SUFFICES ASSUME IInv, AllAnswered', [Next]_vars PROVE [Scopes!Next]_<<Stack, Answers>>
    OBVIOUS
  <2>1. ASSUME NEW package \in Addresses \cup {None}, NEW scope \in TypeScope \cup {None},
               Enter(package, scope)
        PROVE  Scopes!Next
    BY <2>1, EnterOpens DEF Scopes!Next
  <2>2. ASSUME Leave PROVE Scopes!Next
    BY <2>2, LeaveCloses DEF Scopes!Next
  <2>3. CASE UNCHANGED <<callOverride, typeScope, frames>>
    BY <2>3 DEF Stack, Answers, Lookup, call_package, type_package, type_package_for
  <2> QED  BY <2>1, <2>2, <2>3, StepKinds
<1> QED
  BY <1>1, <1>2, Invariance, InnermostAnswers, PTL
  DEF Spec, ImplementsScopeStack, Scopes!Spec, Stack, Answers
=============================================================================
