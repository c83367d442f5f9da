-------------------------- MODULE PublicationProofs --------------------------
(***************************************************************************)
(* What a release keeps to for any number of runs of the script, whatever  *)
(* the names are taken by and however often the API may be asked.          *)
(***************************************************************************)
EXTENDS Publication, TLAPS

\* Crate p is behind run r: it has seen it, and uploaded it if it may not skip.
Behind(r, p) == p \in listed /\ (~resumes[r] => publisher[p] = r)

\* Where run r is says what is behind it.
ProgressInv(r) ==
  /\ stage[r] \in {"check", "upload", "await"} =>
       \A i \in 1..Last : i < position[r] => Behind(r, packages[i])
  /\ stage[r] = "await" => publisher[Current(r)] = r
  /\ stage[r] = "finished" => \A p \in Packages : Behind(r, p)

\* Whoever uploads a crate and skips none uploaded the first.
ElectionInv ==
  \A p \in Packages :
    publisher[p] # None /\ ~resumes[publisher[p]] => publisher[packages[1]] = publisher[p]

Taken == names.own \cup names.others

\* The count tells a name that is taken, and a count without a gap that none was missing:
\* what is not taken then is listed, and the versions are verified yet.
NamesInv(r) ==
  /\ stage[r] = "idle" => position[r] = 1 /\ counted[r] = 0
  /\ stage[r] = "count" =>
       /\ counted[r] <= position[r] - 1
       /\ counted[r] = position[r] - 1 =>
            \A i \in 1..Last : i < position[r] => packages[i] \in Taken \cup listed
       /\ counted[r] = 0 => \A i \in 1..Last : i < position[r] => packages[i] \notin Taken
  /\ Taken # {} /\ Taken # Packages /\ ~resumes[r] =>
       /\ stage[r] \notin {"check", "upload", "await", "finished"}
       /\ stage[r] = "verify" =>
            \E i \in 1..Last : i >= position[r] /\ packages[i] \in listed

NoTakers ==
  Taken # {} /\ Taken # Packages =>
    \A p \in Packages : publisher[p] # None => resumes[publisher[p]]

IInv == /\ TypeOK
        /\ \A r \in Runs : ProgressInv(r) /\ NamesInv(r)
        /\ ElectionInv
        /\ NoTakers

-----------------------------------------------------------------------------
(* The crates *)

\* packages names each crate once.
LEMMA OrderOfPackages ==
  /\ Packages = {"derive", "codegen", "sui_move", "call", "ptb", "runtime"}
  /\ \A i \in 1..Last : packages[i] \in Packages
  /\ \A i, j \in 1..Last : packages[i] = packages[j] => i = j
  /\ \A p \in Packages : \E i \in 1..Last : p = packages[i]
<1>1. \A i \in 1..Last : i = 1 \/ i = 2 \/ i = 3 \/ i = 4 \/ i = 5 \/ i = 6
  BY DEF Last
<1>2. /\ packages[1] = "derive" /\ packages[2] = "codegen" /\ packages[3] = "sui_move"
      /\ packages[4] = "call" /\ packages[5] = "ptb" /\ packages[6] = "runtime"
  BY DEF packages
<1>3. 1 \in 1..Last /\ 2 \in 1..Last /\ 3 \in 1..Last /\ 4 \in 1..Last /\ 5 \in 1..Last
      /\ 6 \in 1..Last
  BY DEF Last
<1>4. Packages = {"derive", "codegen", "sui_move", "call", "ptb", "runtime"}
  BY <1>1, <1>2, <1>3 DEF Packages
<1>5. \A i, j \in 1..Last : packages[i] = packages[j] => i = j
  BY <1>1, <1>2
<1> QED  BY <1>4, <1>5 DEF Packages

\* A manifest names crates that come before it.
LEMMA DependenciesComeFirst ==
  ASSUME NEW i \in 1..Last, NEW p \in Dependencies(packages[i])
  PROVE  \E j \in 1..Last : j < i /\ p = packages[j]
<1>1. i = 1 \/ i = 2 \/ i = 3 \/ i = 4 \/ i = 5 \/ i = 6
  BY DEF Last
<1>2. /\ packages[1] = "derive" /\ packages[2] = "codegen" /\ packages[3] = "sui_move"
      /\ packages[4] = "call" /\ packages[5] = "ptb" /\ packages[6] = "runtime"
  BY DEF packages
<1>3. 1 \in 1..Last /\ 2 \in 1..Last /\ 3 \in 1..Last /\ 4 \in 1..Last /\ 5 \in 1..Last
  BY DEF Last
<1>4. <<packages[i], p>> \in Manifests
  BY DEF Dependencies
<1>5. i \notin {1, 2}
  BY <1>2, <1>4 DEF Manifests
<1> QED  BY <1>1, <1>2, <1>3, <1>4, <1>5 DEF Manifests

-----------------------------------------------------------------------------
(* Steps *)

\* Nothing taken from the registry and nothing it took changes.
Grows == /\ names' = names /\ resumes' = resumes
         /\ listed \subseteq listed'
         /\ \A p \in Packages : publisher[p] # None => publisher'[p] = publisher[p]

\* Where a run stays, nothing others do undoes what is behind it.
LEMMA OthersProgress ==
  ASSUME TypeOK, Grows, NEW s \in Runs, ProgressInv(s), NamesInv(s),
         stage'[s] = stage[s], position'[s] = position[s], counted'[s] = counted[s]
  PROVE  ProgressInv(s)' /\ NamesInv(s)'
<1>1. listed \subseteq Uploaded /\ position[s] \in 1..Last /\ s # None
  BY PublicationAssumption DEF TypeOK
<1>2. ASSUME NEW p \in Packages, Behind(s, p)
      PROVE  Behind(s, p)'
  BY <1>1, <1>2 DEF Grows, Behind, Uploaded
<1>3. Current(s)' = Current(s) /\ Current(s) \in Packages
  BY <1>1, OrderOfPackages DEF Current
<1>4. ProgressInv(s)'
  <2>1. stage[s] = "await" => publisher'[Current(s)] = s
    BY <1>1, <1>3 DEF Grows, ProgressInv
  <2>2. stage[s] \in {"check", "upload", "await"} =>
          \A i \in 1..Last : i < position[s] => Behind(s, packages[i])'
    BY <1>2, OrderOfPackages DEF ProgressInv
  <2>3. stage[s] = "finished" => \A p \in Packages : Behind(s, p)'
    BY <1>2 DEF ProgressInv
  <2> QED  BY <1>3, <2>1, <2>2, <2>3 DEF ProgressInv
<1>5. NamesInv(s)'
  <2>1. Taken' = Taken
    BY DEF Grows, Taken
  <2> QED  BY <2>1 DEF Grows, NamesInv
<1> QED  BY <1>4, <1>5

\* The step of a run is about that run, if it changes nothing of the others.
LEMMA StepOfOneRun ==
  ASSUME IInv, Grows, NEW r \in Runs,
         \A s \in Runs \ {r} : /\ stage'[s] = stage[s] /\ position'[s] = position[s]
                               /\ counted'[s] = counted[s],
         ProgressInv(r)', NamesInv(r)'
  PROVE  \A s \in Runs : ProgressInv(s)' /\ NamesInv(s)'
BY OthersProgress DEF IInv

\* A step that leaves the registry alone keeps what the registry alone says.
LEMMA SameRegistry ==
  ASSUME IInv, UNCHANGED <<registry, resumes>>
  PROVE  Grows /\ ElectionInv' /\ NoTakers'
BY DEF IInv, registry, Grows, ElectionInv, NoTakers, Taken

LEMMA ListKeeps == ASSUME IInv, NEW p \in Packages, List(p) PROVE IInv'
<1>1. /\ listed' = listed \cup {p} /\ p \in Uploaded
      /\ UNCHANGED <<names, publisher, stage, position, counted, attempts, resumes>>
  BY DEF List
<1>2. TypeOK'
  BY <1>1 DEF IInv, TypeOK, Uploaded
<1>3. Grows
  BY <1>1 DEF Grows
<1>4. \A s \in Runs : ProgressInv(s)' /\ NamesInv(s)'
  BY <1>1, <1>3, OthersProgress DEF IInv
<1>5. ElectionInv' /\ NoTakers'
  BY <1>1 DEF IInv, ElectionInv, NoTakers, Taken
<1> QED  BY <1>2, <1>4, <1>5 DEF IInv

\* A step of one run that leaves the registry alone.
LEMMA RunKeeps ==
  ASSUME IInv, NEW r \in Runs, UNCHANGED <<registry, resumes>>,
         TypeOK', ProgressInv(r)', NamesInv(r)',
         \A s \in Runs \ {r} : /\ stage'[s] = stage[s] /\ position'[s] = position[s]
                               /\ counted'[s] = counted[s]
  PROVE  IInv'
BY SameRegistry, StepOfOneRun DEF IInv

\* Numbers the runs count with.
LEMMA Numbers == /\ 0 \in 0..(MaxAttempts - 1) /\ 0 \in 0..Last /\ 1 \in 1..Last
                 /\ \A i \in 1..Last : i # Last => i + 1 \in 1..Last
BY PublicationAssumption DEF Last

LEMMA FailsKeeps ==
  ASSUME TypeOK, NEW r \in Runs, Fails(r), UNCHANGED <<resumes, names, publisher, listed>>
  PROVE  /\ TypeOK' /\ ProgressInv(r)' /\ NamesInv(r)'
         /\ \A s \in Runs \ {r} : /\ stage'[s] = stage[s] /\ position'[s] = position[s]
                                  /\ counted'[s] = counted[s]
<1>1. stage'[r] = "failed"
  BY DEF TypeOK, Fails
<1>2. TypeOK'
  BY Numbers DEF TypeOK, Fails, Uploaded, Stages
<1>3. \A s \in Runs \ {r} : /\ stage'[s] = stage[s] /\ position'[s] = position[s]
                            /\ counted'[s] = counted[s]
  BY DEF TypeOK, Fails
<1> QED  BY <1>1, <1>2, <1>3 DEF ProgressInv, NamesInv

\* A run goes on to the next crate, or past the last one.
LEMMA Advances ==
  ASSUME TypeOK, NEW r \in Runs, NEW each \in Stages, NEW after \in Stages,
         Advance(r, each, after)
  PROVE  /\ stage' \in [Runs -> Stages] /\ position' \in [Runs -> 1..Last]
         /\ position[r] # Last => stage'[r] = each /\ position'[r] = position[r] + 1
         /\ position[r] = Last => stage'[r] = after /\ position'[r] = 1
         /\ \A s \in Runs \ {r} : stage'[s] = stage[s] /\ position'[s] = position[s]
BY Numbers DEF TypeOK, Advance

LEMMA StartKeeps == ASSUME IInv, NEW r \in Runs, Start(r) PROVE IInv'
<1>1. stage' = [stage EXCEPT ![r] = "count"] /\ stage[r] = "idle"
      /\ UNCHANGED <<registry, position, counted, attempts, resumes>>
  BY DEF Start
<1>2. TypeOK'
  BY <1>1 DEF IInv, TypeOK, registry, Uploaded, Stages
<1>3. stage'[r] = "count" /\ position'[r] = 1 /\ counted'[r] = 0
  BY <1>1 DEF IInv, TypeOK, NamesInv
<1>4. ProgressInv(r)' /\ NamesInv(r)'
  BY <1>3 DEF ProgressInv, NamesInv
<1> QED  BY <1>1, <1>2, <1>4, RunKeeps DEF IInv, TypeOK

LEMMA CountNameKeeps == ASSUME IInv, NEW r \in Runs, CountName(r) PROVE IInv'
<1> DEFINE found == IF Current(r) \in Named THEN 1 ELSE 0
           count == counted[r] + found
<1>1. stage[r] = "count" /\ UNCHANGED <<registry, resumes>>
  BY DEF CountName
<1>2. /\ TypeOK /\ position[r] \in 1..Last /\ counted[r] \in 0..Last /\ found \in {0, 1}
      /\ counted[r] <= position[r] - 1 /\ Current(r) = packages[position[r]]
  BY <1>1 DEF IInv, TypeOK, NamesInv, Current
<1>3. CASE Fails(r)
  BY <1>1, <1>2, <1>3, FailsKeeps, RunKeeps DEF registry
<1>4. CASE /\ ~(position[r] = Last /\ PartialNames(count) /\ ~resumes[r])
           /\ counted' = [counted EXCEPT ![r] = IF position[r] = Last THEN 0 ELSE count]
           /\ Advance(r, "count", "verify")
           /\ UNCHANGED attempts
  <2>1. /\ stage' \in [Runs -> Stages] /\ position' \in [Runs -> 1..Last]
        /\ position[r] # Last => stage'[r] = "count" /\ position'[r] = position[r] + 1
        /\ position[r] = Last => stage'[r] = "verify" /\ position'[r] = 1
        /\ \A s \in Runs \ {r} : stage'[s] = stage[s] /\ position'[s] = position[s]
    BY <1>2, <1>4, Advances DEF Stages
  <2>2. /\ position[r] # Last => counted'[r] = count
        /\ position[r] = Last => counted'[r] = 0
        /\ counted' \in [Runs -> 0..Last]
        /\ \A s \in Runs \ {r} : counted'[s] = counted[s]
    BY <1>2, <1>4 DEF TypeOK, Last
  <2>3. TypeOK'
    BY <1>1, <1>2, <1>4, <2>1, <2>2 DEF TypeOK, registry, Uploaded
  <2>4. ProgressInv(r)'
    BY <2>1 DEF ProgressInv
  <2>5. Taken' = Taken /\ listed' = listed /\ Named = Taken \cup listed /\ resumes' = resumes
    BY <1>1 DEF Taken, Named, registry
  <2>6. /\ counted[r] = position[r] - 1 =>
             \A i \in 1..Last : i < position[r] => packages[i] \in Taken \cup listed
        /\ counted[r] = 0 => \A i \in 1..Last : i < position[r] => packages[i] \notin Taken
    BY <1>1 DEF IInv, NamesInv
  <2>7. /\ count = position[r] =>
             \A i \in 1..Last : i <= position[r] => packages[i] \in Taken \cup listed
        /\ count = 0 => \A i \in 1..Last : i <= position[r] => packages[i] \notin Taken
        /\ count <= position[r]
    <3>1. \A i \in 1..Last : i <= position[r] => i < position[r] \/ i = position[r]
      BY <1>2
    <3>2. found = 1 <=> packages[position[r]] \in Taken \cup listed
      BY <1>2, <2>5
    <3>3. (count = position[r] => counted[r] = position[r] - 1 /\ found = 1)
          /\ (count = 0 => counted[r] = 0 /\ found = 0) /\ count <= position[r]
      BY <1>2 DEF Last
    <3> HIDE DEF found, count
    <3> QED  BY <2>6, <3>1, <3>2, <3>3
  <2>8. count \in Nat
    BY <1>2
  <2> HIDE DEF found, count
  <2>9. CASE position[r] # Last
    <3>1. \A i \in 1..Last : i < position'[r] => i <= position[r]
      BY <1>2, <2>1, <2>9
    <3>2. position'[r] - 1 = position[r]
      BY <1>2, <2>1, <2>9 DEF Last
    <3>3. NamesInv(r)'
      BY <2>1, <2>2, <2>5, <2>7, <2>8, <2>9, <3>1, <3>2 DEF NamesInv
    <3> QED  BY <1>1, <2>1, <2>2, <2>3, <2>4, <3>3, RunKeeps
  <2>10. CASE position[r] = Last
    <3>1. ASSUME Taken # {}, Taken # Packages, ~resumes[r]
          PROVE  \E i \in 1..Last : i >= 1 /\ packages[i] \in listed
      <4>1. Taken \subseteq Packages
        BY <1>2, NameOwnersAssumption DEF TypeOK, Taken
      <4>2. count # 0
        <5>1. PICK p \in Packages : p \in Taken
          BY <3>1, <4>1
        <5>2. PICK i \in 1..Last : p = packages[i]
          BY OrderOfPackages
        <5>3. i <= position[r]
          BY <2>10 DEF Last
        <5> QED  BY <2>7, <5>1, <5>2, <5>3
      <4>3. count = Last
        BY <1>4, <2>7, <2>8, <2>10, <3>1, <4>2 DEF PartialNames, Last
      <4>4. \A p \in Packages : p \in Taken \cup listed
        BY <2>7, <2>10, <4>3, OrderOfPackages DEF Last
      <4>5. PICK p \in Packages : p \notin Taken
        BY <3>1, <4>1
      <4> QED  BY <4>4, <4>5, OrderOfPackages DEF Last
    <3>2. NamesInv(r)'
      BY <2>1, <2>5, <2>10, <3>1 DEF NamesInv
    <3> QED  BY <1>1, <2>1, <2>2, <2>3, <2>4, <3>2, RunKeeps
  <2> QED  BY <2>9, <2>10
<1> QED  BY <1>3, <1>4 DEF CountName

LEMMA VerifyAbsentKeeps == ASSUME IInv, NEW r \in Runs, VerifyAbsent(r) PROVE IInv'
<1>1. stage[r] = "verify" /\ UNCHANGED <<registry, resumes>>
  BY DEF VerifyAbsent
<1>2. TypeOK /\ position[r] \in 1..Last /\ Current(r) = packages[position[r]]
  BY DEF IInv, TypeOK, Current
<1>3. CASE Fails(r)
  BY <1>1, <1>2, <1>3, FailsKeeps, RunKeeps DEF registry
<1>4. CASE /\ ~(Current(r) \in listed /\ ~resumes[r])
           /\ Advance(r, "verify", "check")
           /\ UNCHANGED <<counted, attempts>>
  <2>1. /\ stage' \in [Runs -> Stages] /\ position' \in [Runs -> 1..Last]
        /\ position[r] # Last => stage'[r] = "verify" /\ position'[r] = position[r] + 1
        /\ position[r] = Last => stage'[r] = "check" /\ position'[r] = 1
        /\ \A s \in Runs \ {r} : stage'[s] = stage[s] /\ position'[s] = position[s]
    BY <1>2, <1>4, Advances DEF Stages
  <2>2. TypeOK'
    BY <1>1, <1>2, <1>4, <2>1 DEF TypeOK, registry, Uploaded
  <2>3. ProgressInv(r)'
    <3>1. position[r] = Last => \A i \in 1..Last : ~(i < position'[r])
      BY <2>1
    <3> QED  BY <2>1, <3>1 DEF ProgressInv
  <2>4. Taken' = Taken /\ listed' = listed /\ resumes' = resumes
    BY <1>1 DEF Taken, registry
  <2>5. ASSUME Taken # {}, Taken # Packages, ~resumes[r]
        PROVE  position[r] # Last
               /\ \E i \in 1..Last : i >= position[r] + 1 /\ packages[i] \in listed
    <3>1. PICK i \in 1..Last : i >= position[r] /\ packages[i] \in listed
      BY <1>1, <2>5 DEF IInv, NamesInv
    <3>2. i # position[r]
      BY <1>2, <1>4, <2>5, <3>1
    <3> QED  BY <1>2, <3>1, <3>2 DEF Last
  <2>6. NamesInv(r)'
    BY <2>1, <2>4, <2>5 DEF NamesInv
  <2> QED  BY <1>1, <1>4, <2>1, <2>2, <2>3, <2>6, RunKeeps
<1> QED  BY <1>3, <1>4 DEF VerifyAbsent

\* A run leaves behind it what it goes past.
LEMMA BehindGrows ==
  ASSUME IInv, NEW r \in Runs, stage[r] \in {"check", "await"}, Behind(r, Current(r)),
         Advance(r, "check", "finished"), UNCHANGED <<registry, resumes, counted>>
  PROVE  ProgressInv(r)' /\ NamesInv(r)'
<1>1. /\ position[r] # Last => stage'[r] = "check" /\ position'[r] = position[r] + 1
      /\ position[r] = Last => stage'[r] = "finished" /\ position'[r] = 1
  BY Advances DEF IInv, Stages
<1>2. position[r] \in 1..Last /\ Current(r) = packages[position[r]]
  BY DEF IInv, TypeOK, Current
<1>3. \A i \in 1..Last : i <= position[r] => Behind(r, packages[i])
  <2>1. \A i \in 1..Last : i < position[r] => Behind(r, packages[i])
    BY DEF IInv, ProgressInv
  <2>2. \A i \in 1..Last : i <= position[r] => i < position[r] \/ i = position[r]
    BY <1>2
  <2> QED  BY <1>2, <2>1, <2>2
<1>4. \A p : Behind(r, p)' <=> Behind(r, p)
  BY DEF Behind, registry
<1>5. CASE position[r] # Last
  <2>1. \A i \in 1..Last : i < position'[r] => i <= position[r]
    BY <1>1, <1>2, <1>5
  <2> QED  BY <1>1, <1>3, <1>4, <1>5, <2>1 DEF ProgressInv, NamesInv, IInv, registry, Taken
<1>6. CASE position[r] = Last
  <2>1. \A p \in Packages : Behind(r, p)
    BY <1>3, <1>6, OrderOfPackages DEF Last
  <2> QED  BY <1>1, <1>4, <1>6, <2>1 DEF ProgressInv, NamesInv, IInv, registry, Taken
<1> QED  BY <1>5, <1>6

LEMMA CheckAgainKeeps == ASSUME IInv, NEW r \in Runs, CheckAgain(r) PROVE IInv'
<1>1. stage[r] = "check" /\ UNCHANGED <<registry, resumes>>
  BY DEF CheckAgain
<1>2. TypeOK
  BY DEF IInv
<1>3. CASE Fails(r)
  BY <1>1, <1>2, <1>3, FailsKeeps, RunKeeps DEF registry
<1>4. CASE /\ Current(r) \in listed /\ resumes[r]
           /\ Advance(r, "check", "finished")
           /\ UNCHANGED <<counted, attempts>>
  <2>1. /\ stage' \in [Runs -> Stages] /\ position' \in [Runs -> 1..Last]
        /\ \A s \in Runs \ {r} : stage'[s] = stage[s] /\ position'[s] = position[s]
    BY <1>2, <1>4, Advances DEF Stages
  <2>2. TypeOK'
    BY <1>1, <1>2, <1>4, <2>1 DEF TypeOK, registry, Uploaded
  <2>3. Behind(r, Current(r))
    BY <1>4 DEF Behind
  <2> QED  BY <1>1, <1>4, <2>1, <2>2, <2>3, BehindGrows, RunKeeps
<1>5. CASE /\ Current(r) \notin listed
           /\ stage' = [stage EXCEPT ![r] = "upload"]
           /\ UNCHANGED <<position, counted, attempts>>
  <2>1. TypeOK'
    BY <1>1, <1>2, <1>5 DEF TypeOK, registry, Uploaded, Stages
  <2>2. ProgressInv(r)' /\ NamesInv(r)'
    BY <1>1, <1>2, <1>5
    DEF IInv, TypeOK, ProgressInv, NamesInv, Behind, registry, Taken
  <2> QED  BY <1>1, <1>2, <1>5, <2>1, <2>2, RunKeeps DEF TypeOK
<1> QED  BY <1>3, <1>4, <1>5 DEF CheckAgain

LEMMA AwaitKeeps == ASSUME IInv, NEW r \in Runs, Await(r) PROVE IInv'
<1>1. stage[r] = "await" /\ UNCHANGED <<registry, resumes>>
  BY DEF Await
<1>2. TypeOK
  BY DEF IInv
<1>3. CASE Fails(r)
  BY <1>1, <1>2, <1>3, FailsKeeps, RunKeeps DEF registry
<1>4. CASE /\ Current(r) \in listed
           /\ Advance(r, "check", "finished")
           /\ attempts' = [attempts EXCEPT ![r] = 0]
           /\ UNCHANGED counted
  <2>1. /\ stage' \in [Runs -> Stages] /\ position' \in [Runs -> 1..Last]
        /\ \A s \in Runs \ {r} : stage'[s] = stage[s] /\ position'[s] = position[s]
    BY <1>2, <1>4, Advances DEF Stages
  <2>2. TypeOK'
    BY <1>1, <1>2, <1>4, <2>1, Numbers DEF TypeOK, registry, Uploaded
  <2>3. Behind(r, Current(r))
    BY <1>1, <1>4 DEF IInv, ProgressInv, Behind
  <2> QED  BY <1>1, <1>4, <2>1, <2>2, <2>3, BehindGrows, RunKeeps
<1>5. CASE /\ Current(r) \notin listed /\ attempts[r] + 1 # MaxAttempts
           /\ attempts' = [attempts EXCEPT ![r] = @ + 1]
           /\ UNCHANGED <<stage, position, counted>>
  <2>1. attempts' \in [Runs -> 0..(MaxAttempts - 1)]
    BY <1>2, <1>5, PublicationAssumption DEF TypeOK
  <2>2. TypeOK'
    BY <1>1, <1>2, <1>5, <2>1 DEF TypeOK, registry, Uploaded
  <2>3. ProgressInv(r)' /\ NamesInv(r)'
    BY <1>1, <1>5 DEF IInv, ProgressInv, NamesInv, Behind, registry, Taken, Current
  <2> QED  BY <1>1, <1>5, <2>2, <2>3, RunKeeps
<1> QED  BY <1>3, <1>4, <1>5 DEF Await

-----------------------------------------------------------------------------
(* Uploads *)

\* The registry takes a crate that a run has come to.
LEMMA Takes ==
  ASSUME IInv, NEW r \in Runs, stage[r] = "upload", Accepted(Current(r)),
         publisher' = [publisher EXCEPT ![Current(r)] = r],
         UNCHANGED <<names, listed, resumes>>
  PROVE  /\ Grows /\ ElectionInv' /\ NoTakers'
         /\ publisher' \in [Packages -> Runs \cup {None}] /\ listed' \subseteq Uploaded'
         /\ publisher'[Current(r)] = r /\ Current(r) \in Packages
<1> DEFINE c == Current(r)
<1>1. /\ TypeOK /\ position[r] \in 1..Last /\ c = packages[position[r]] /\ c \in Packages
      /\ r # None /\ publisher \in [Packages -> Runs \cup {None}]
  BY OrderOfPackages, PublicationAssumption DEF IInv, TypeOK, Current
<1>2. publisher[c] = None
  BY <1>1 DEF Accepted, Uploaded
<1>3. /\ publisher'[c] = r /\ \A p \in Packages \ {c} : publisher'[p] = publisher[p]
      /\ publisher' \in [Packages -> Runs \cup {None}]
  BY <1>1
<1>4. Grows /\ listed' \subseteq Uploaded'
  BY <1>1, <1>2, <1>3 DEF Grows, TypeOK, Uploaded
<1>5. ~resumes[r] => publisher'[packages[1]] = r
  <2>1. CASE position[r] = 1
    BY <1>1, <1>3, <2>1
  <2>2. CASE position[r] # 1
    <3>1. 1 \in 1..Last /\ 1 < position[r]
      BY <1>1, <2>2 DEF Last
    <3>2. Behind(r, packages[1])
      BY <3>1 DEF IInv, ProgressInv
    <3>3. packages[1] # c /\ packages[1] \in Packages
      BY <1>1, <3>1, <2>2, OrderOfPackages
    <3> QED  BY <1>3, <3>2, <3>3 DEF Behind
  <2> QED  BY <2>1, <2>2
<1>6. packages[1] \in Packages
  BY OrderOfPackages, Numbers
<1>7. ElectionInv'
  <2> SUFFICES ASSUME NEW p \in Packages, publisher'[p] # None, ~resumes[publisher'[p]]
               PROVE  publisher'[packages[1]] = publisher'[p]
    BY DEF ElectionInv
  <2>1. CASE p = c
    BY <1>3, <1>5, <2>1
  <2>2. CASE p # c
    <3>1. publisher[p] # None /\ ~resumes[publisher[p]] /\ publisher'[p] = publisher[p]
      BY <1>3, <2>2
    <3>2. publisher[packages[1]] = publisher[p]
      BY <3>1 DEF IInv, ElectionInv
    <3> QED  BY <1>2, <1>3, <1>6, <3>1, <3>2
  <2> QED  BY <2>1, <2>2
<1>8. NoTakers'
  <2> SUFFICES ASSUME Taken # {}, Taken # Packages, NEW p \in Packages, publisher'[p] # None
               PROVE  resumes[publisher'[p]]
    BY DEF NoTakers, Taken
  <2>1. resumes[r]
    BY DEF IInv, NamesInv
  <2> QED  BY <1>3, <2>1 DEF IInv, NoTakers
<1> QED  BY <1>1, <1>3, <1>4, <1>7, <1>8

LEMMA UploadKeeps == ASSUME IInv, NEW r \in Runs, Upload(r) PROVE IInv'
<1>1. /\ stage[r] = "upload" /\ Accepted(Current(r))
      /\ publisher' = [publisher EXCEPT ![Current(r)] = r]
      /\ stage' = [stage EXCEPT ![r] = "await"]
      /\ UNCHANGED <<names, listed, position, counted, attempts, resumes>>
  BY DEF Upload
<1>2. /\ Grows /\ ElectionInv' /\ NoTakers'
      /\ publisher' \in [Packages -> Runs \cup {None}] /\ listed' \subseteq Uploaded'
      /\ publisher'[Current(r)] = r /\ Current(r) \in Packages
  BY <1>1, Takes
<1>3. TypeOK'
  BY <1>1, <1>2 DEF IInv, TypeOK, Stages
<1>4. stage'[r] = "await" /\ position'[r] = position[r] /\ Current(r)' = Current(r)
  BY <1>1 DEF IInv, TypeOK, Current
<1>5. ProgressInv(r)'
  <2>1. \A i \in 1..Last : i < position[r] => Behind(r, packages[i])
    BY <1>1 DEF IInv, ProgressInv
  <2>2. \A i \in 1..Last : i < position[r] => Behind(r, packages[i])'
    <3>1. ASSUME NEW p \in Packages, Behind(r, p)
          PROVE  Behind(r, p)'
      BY <1>2, <3>1, PublicationAssumption DEF IInv, TypeOK, Grows, Behind, Uploaded
    <3> QED  BY <2>1, <3>1, OrderOfPackages
  <2> QED  BY <1>2, <1>4, <2>2 DEF ProgressInv
<1>6. NamesInv(r)'
  BY <1>1, <1>4 DEF IInv, NamesInv, Taken
<1>7. \A s \in Runs \ {r} : /\ stage'[s] = stage[s] /\ position'[s] = position[s]
                            /\ counted'[s] = counted[s]
  BY <1>1 DEF IInv, TypeOK
<1> QED  BY <1>2, <1>3, <1>5, <1>6, <1>7, StepOfOneRun DEF IInv

LEMMA UploadFailsKeeps == ASSUME IInv, NEW r \in Runs, UploadFails(r) PROVE IInv'
<1>1. stage[r] = "upload" /\ Fails(r) /\ UNCHANGED <<names, listed, resumes>>
  BY DEF UploadFails
<1>2. CASE UNCHANGED publisher
  BY <1>1, <1>2, FailsKeeps, RunKeeps DEF IInv, registry
<1>3. CASE Accepted(Current(r)) /\ publisher' = [publisher EXCEPT ![Current(r)] = r]
  <2>1. /\ Grows /\ ElectionInv' /\ NoTakers'
        /\ publisher' \in [Packages -> Runs \cup {None}] /\ listed' \subseteq Uploaded'
    BY <1>1, <1>3, Takes
  <2>2. stage'[r] = "failed"
    BY <1>1 DEF IInv, TypeOK, Fails
  <2>3. TypeOK'
    BY <1>1, <2>1, Numbers DEF IInv, TypeOK, Fails, Stages
  <2>4. \A s \in Runs \ {r} : /\ stage'[s] = stage[s] /\ position'[s] = position[s]
                              /\ counted'[s] = counted[s]
    BY <1>1 DEF IInv, TypeOK, Fails
  <2>5. ProgressInv(r)' /\ NamesInv(r)'
    BY <2>2 DEF ProgressInv, NamesInv
  <2> QED  BY <2>1, <2>3, <2>4, <2>5, StepOfOneRun DEF IInv
<1> QED  BY <1>2, <1>3 DEF UploadFails

LEMMA StopKeeps == ASSUME IInv, NEW r \in Runs, Stop(r) PROVE IInv'
<1>1. Fails(r) /\ UNCHANGED <<registry, resumes>>
  BY DEF Stop
<1> QED  BY <1>1, FailsKeeps, RunKeeps DEF IInv, registry

-----------------------------------------------------------------------------
(* The script *)

LEMMA InitIInv == Init => IInv
<1> SUFFICES ASSUME Init PROVE IInv
  OBVIOUS
<1>1. TypeOK
  BY Numbers, OrderOfPackages DEF Init, TypeOK, Stages, Uploaded
<1>2. \A r \in Runs : stage[r] = "idle" /\ position[r] = 1 /\ counted[r] = 0
  BY DEF Init
<1>3. \A r \in Runs : ProgressInv(r) /\ NamesInv(r)
  BY <1>2 DEF ProgressInv, NamesInv
<1>4. ElectionInv /\ NoTakers
  BY DEF Init, ElectionInv, NoTakers
<1> QED  BY <1>1, <1>3, <1>4 DEF IInv

LEMMA StepIInv == IInv /\ [Next]_vars => IInv'
<1> SUFFICES ASSUME IInv, [Next]_vars PROVE IInv'
  OBVIOUS
<1>1. ASSUME NEW p \in Packages, List(p)  PROVE IInv'
  BY <1>1, ListKeeps
<1>2. ASSUME NEW r \in Runs, Start(r) \/ Stop(r)  PROVE IInv'
  BY <1>2, StartKeeps, StopKeeps
<1>3. ASSUME NEW r \in Runs, Proceed(r)  PROVE IInv'
  BY <1>3, CountNameKeeps, VerifyAbsentKeeps, CheckAgainKeeps, UploadKeeps, UploadFailsKeeps,
     AwaitKeeps DEF Proceed
<1>4. CASE UNCHANGED vars
  BY <1>4 DEF vars, registry, IInv, TypeOK, ProgressInv, NamesInv, ElectionInv, NoTakers, Taken,
     Behind, Current, Uploaded
<1> QED  BY <1>1, <1>2, <1>3, <1>4 DEF Next

LEMMA AlwaysIInv == Spec => []IInv
BY InitIInv, StepIInv, PTL DEF Spec

\* The registry and the runs of publish-crates.sh have their types, for any number of runs.
THEOREM TypeCorrect == Spec => []TypeOK
<1>1. IInv => TypeOK
  BY DEF IInv
<1> QED  BY <1>1, AlwaysIInv, PTL

\* Of any number of overlapping runs at most one without ALLOW_EXISTING publishes; whoever
\* publishes beside it may skip.
THEOREM OneRunPublishes == Spec => []OnlyResumesContinue
<1>1. IInv => OnlyResumesContinue
  <2> SUFFICES ASSUME IInv, NEW p \in Uploaded, NEW q \in Uploaded,
                      ~resumes[publisher[p]], ~resumes[publisher[q]]
               PROVE  publisher[p] = publisher[q]
    BY DEF OnlyResumesContinue
  <2> QED  BY DEF IInv, ElectionInv, Uploaded
<1> QED  BY <1>1, AlwaysIInv, PTL

\* A run that reports success has published the release, whatever else ran.
THEOREM WholeReleases == Spec => []FinishedReleasesAreWhole
<1>1. IInv => FinishedReleasesAreWhole
  <2> SUFFICES ASSUME IInv, NEW r \in Runs, stage[r] = "finished"
               PROVE  listed = Packages /\ (~resumes[r] => \A p \in Packages : publisher[p] = r)
    BY DEF FinishedReleasesAreWhole
  <2>1. \A p \in Packages : Behind(r, p)
    BY DEF IInv, ProgressInv
  <2>2. listed \subseteq Packages
    BY DEF IInv, TypeOK, Uploaded
  <2> QED  BY <2>1, <2>2 DEF Behind
<1> QED  BY <1>1, AlwaysIInv, PTL

\* No crate is uploaded before the crates it needs have been seen on crates.io.
THEOREM DependenciesAreThere == Spec => []UploadsFindTheirDependencies
<1>1. IInv => UploadsFindTheirDependencies
  <2> SUFFICES ASSUME IInv, NEW r \in Runs, stage[r] = "upload",
                      NEW d \in Dependencies(Current(r))
               PROVE  d \in listed
    BY DEF UploadsFindTheirDependencies
  <2>1. position[r] \in 1..Last /\ Current(r) = packages[position[r]]
    BY DEF IInv, TypeOK, Current
  <2>2. PICK j \in 1..Last : j < position[r] /\ d = packages[j]
    BY <2>1, DependenciesComeFirst
  <2> QED  BY <2>2 DEF IInv, ProgressInv, Behind
<1> QED  BY <1>1, AlwaysIInv, PTL

\* A run without ALLOW_EXISTING publishes nothing under names that are taken in part.
THEOREM PartialNamesStop == Spec => []TakenNamesStopARelease
<1>1. IInv => TakenNamesStopARelease
  BY DEF IInv, NoTakers, Taken, TakenNamesStopARelease, Uploaded
<1> QED  BY <1>1, AlwaysIInv, PTL

=============================================================================
