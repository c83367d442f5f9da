----------------------------- MODULE Publication -----------------------------
(***************************************************************************)
(* scripts/publish-crates.sh: the crates of a release go to crates.io one  *)
(* after the other, in the order of their dependencies.  A run counts the  *)
(* names that exist, then looks for versions that exist, then uploads and  *)
(* awaits crate after crate.  It may fail anywhere and is then run again,  *)
(* with ALLOW_EXISTING to skip what is there; the workflow keeps its runs  *)
(* of a tag apart, but nothing keeps two operators of the script apart.    *)
(***************************************************************************)
EXTENDS Integers, FiniteSets

CONSTANTS Runs,        \* executions of the script
          MaxAttempts, \* looks for an uploaded crate before a run gives up; 60
          NameOwners,  \* the [own, others] a release may find names of its crates under
          None

ASSUME PublicationAssumption ==
  /\ IsFiniteSet(Runs)
  /\ None \notin Runs
  /\ MaxAttempts \in Nat \ {0}

\* Mutant of packages: by name within the bindings.
packagesByName == <<"derive", "codegen", "call", "sui_move", "ptb", "runtime">>

\* The crates, in the order the script publishes them.
packages == <<"derive", "codegen", "sui_move", "call", "ptb", "runtime">>

Last == 6

Packages == {packages[i] : i \in 1..Last}

\* <<p, d>>: the published manifest of p names d.  derive uses sui_move in its own tests
\* only, by path, which Cargo leaves out.
Manifests == {<<"sui_move", "derive">>, <<"call", "sui_move">>, <<"ptb", "sui_move">>,
              <<"ptb", "call">>, <<"runtime", "sui_move">>, <<"runtime", "call">>,
              <<"runtime", "ptb">>}

Dependencies(p) == {d \in Packages : <<p, d>> \in Manifests}

ASSUME NameOwnersAssumption ==
  \A names \in NameOwners : names.own \subseteq Packages /\ names.others \subseteq Packages

VARIABLES
  names,      \* the crate names that exist before the release, by their owner
  publisher,  \* publisher[p]: the run whose upload of p the registry took, or None
  listed,     \* the crates whose version the crates.io API shows
  stage,      \* stage[r]: what run r does next
  position,   \* position[r]: the place in packages it is at
  counted,    \* counted[r]: the names it has found
  attempts,   \* attempts[r]: its looks for the crate it uploaded
  resumes     \* resumes[r]: ALLOW_EXISTING is set

registry == <<names, publisher, listed>>
vars == <<registry, stage, position, counted, attempts, resumes>>

Stages == {"idle", "count", "verify", "check", "upload", "await", "finished", "failed"}

Running(r) == stage[r] \notin {"idle", "finished", "failed"}

Current(r) == packages[position[r]]

Uploaded == {p \in Packages : publisher[p] # None}

\* Names the API knows: a version of a new crate brings its name.
Named == names.own \cup names.others \cup listed

-----------------------------------------------------------------------------
(* The registry.  External. *)

\* The API catches up with an upload.
List(p) ==
  /\ p \in Uploaded \ listed
  /\ listed' = listed \cup {p}
  /\ UNCHANGED <<names, publisher, stage, position, counted, attempts, resumes>>

\* What the registry takes: a version it does not have, of a crate that is the
\* publisher's or new, that needs nothing it does not have.
Accepted(p) ==
  /\ p \notin Uploaded
  /\ p \notin names.others
  /\ Dependencies(p) \subseteq Uploaded

-----------------------------------------------------------------------------
(* A run *)

\* The script exits; its counters are gone.
Fails(r) == /\ stage' = [stage EXCEPT ![r] = "failed"]
            /\ position' = [position EXCEPT ![r] = 1]
            /\ counted' = [counted EXCEPT ![r] = 0]
            /\ attempts' = [attempts EXCEPT ![r] = 0]

\* On to the next crate, at stage each or, after the last crate, to stage after.
Advance(r, each, after) ==
  /\ stage' = [stage EXCEPT ![r] = IF position[r] = Last THEN after ELSE each]
  /\ position' = [position EXCEPT ![r] = IF position[r] = Last THEN 1 ELSE @ + 1]

\* The tag, the work tree and the archives are as they should be.
Start(r) ==
  /\ stage[r] = "idle"
  /\ stage' = [stage EXCEPT ![r] = "count"]
  /\ UNCHANGED <<registry, position, counted, attempts, resumes>>

\* Some names of the workspace exist and others do not.
PartialNames(count) == count > 0 /\ count < Last

CountName(r) ==
  /\ stage[r] = "count"
  /\ LET found == IF Current(r) \in Named THEN 1 ELSE 0
         count == counted[r] + found
     IN  IF position[r] = Last /\ PartialNames(count) /\ ~resumes[r]
           THEN Fails(r)
           ELSE /\ counted' = [counted EXCEPT ![r] = IF position[r] = Last THEN 0 ELSE count]
                /\ Advance(r, "count", "verify")
                /\ UNCHANGED attempts
  /\ UNCHANGED <<registry, resumes>>

VerifyAbsent(r) ==
  /\ stage[r] = "verify"
  /\ IF Current(r) \in listed /\ ~resumes[r]
       THEN Fails(r)
       ELSE Advance(r, "verify", "check") /\ UNCHANGED <<counted, attempts>>
  /\ UNCHANGED <<registry, resumes>>

\* Mutant of CheckAgain: what appeared after the first check is skipped by every run.
CheckAgainSkipping(r) ==
  /\ stage[r] = "check"
  /\ IF Current(r) \in listed
       THEN Advance(r, "check", "finished") /\ UNCHANGED <<counted, attempts>>
       ELSE /\ stage' = [stage EXCEPT ![r] = "upload"]
            /\ UNCHANGED <<position, counted, attempts>>
  /\ UNCHANGED <<registry, resumes>>

CheckAgain(r) ==
  /\ stage[r] = "check"
  /\ \/ /\ Current(r) \in listed /\ resumes[r]
        /\ Advance(r, "check", "finished")
        /\ UNCHANGED <<counted, attempts>>
     \/ Current(r) \in listed /\ ~resumes[r] /\ Fails(r)
     \/ /\ Current(r) \notin listed
        /\ stage' = [stage EXCEPT ![r] = "upload"]
        /\ UNCHANGED <<position, counted, attempts>>
  /\ UNCHANGED <<registry, resumes>>

\* cargo publish succeeds.
Upload(r) ==
  /\ stage[r] = "upload"
  /\ Accepted(Current(r))
  /\ publisher' = [publisher EXCEPT ![Current(r)] = r]
  /\ stage' = [stage EXCEPT ![r] = "await"]
  /\ UNCHANGED <<names, listed, position, counted, attempts, resumes>>

\* cargo publish fails, after the registry took the crate or without its taking it.
UploadFails(r) ==
  /\ stage[r] = "upload"
  /\ \/ UNCHANGED publisher
     \/ /\ Accepted(Current(r))
        /\ publisher' = [publisher EXCEPT ![Current(r)] = r]
  /\ Fails(r)
  /\ UNCHANGED <<names, listed, resumes>>

\* Mutant of Await: an uploaded crate is not waited for.
AwaitNothing(r) ==
  /\ stage[r] = "await"
  /\ Advance(r, "check", "finished")
  /\ UNCHANGED <<registry, counted, attempts, resumes>>

\* Mutant of Await: the looks are not counted.
AwaitForEver(r) ==
  /\ stage[r] = "await"
  /\ IF Current(r) \in listed
       THEN Advance(r, "check", "finished") /\ UNCHANGED <<counted, attempts>>
       ELSE UNCHANGED <<stage, position, counted, attempts>>
  /\ UNCHANGED <<registry, resumes>>

\* One look for the uploaded crate; the last one in vain ends the run.
Await(r) ==
  /\ stage[r] = "await"
  /\ \/ /\ Current(r) \in listed
        /\ Advance(r, "check", "finished")
        /\ attempts' = [attempts EXCEPT ![r] = 0]
        /\ UNCHANGED counted
     \/ Current(r) \notin listed /\ attempts[r] + 1 = MaxAttempts /\ Fails(r)
     \/ /\ Current(r) \notin listed /\ attempts[r] + 1 # MaxAttempts
        /\ attempts' = [attempts EXCEPT ![r] = @ + 1]
        /\ UNCHANGED <<stage, position, counted>>
  /\ UNCHANGED <<registry, resumes>>

\* The API answers neither that the crate exists nor that it does not, a check of the
\* archives fails, or the run is killed.
Stop(r) ==
  /\ Running(r)
  /\ Fails(r)
  /\ UNCHANGED <<registry, resumes>>

-----------------------------------------------------------------------------

Init ==
  /\ names \in NameOwners
  /\ publisher = [p \in Packages |-> None]
  /\ listed = {}
  /\ stage = [r \in Runs |-> "idle"]
  /\ position = [r \in Runs |-> 1]
  /\ counted = [r \in Runs |-> 0]
  /\ attempts = [r \in Runs |-> 0]
  /\ resumes \in [Runs -> BOOLEAN]

\* What the script does, if nothing stops it.
Proceed(r) == CountName(r) \/ VerifyAbsent(r) \/ CheckAgain(r) \/ Upload(r) \/ UploadFails(r)
              \/ Await(r)

Next == \/ \E p \in Packages : List(p)
        \/ \E r \in Runs : \/ Start(r)
                           \/ Proceed(r)
                           \/ Stop(r)

Spec == Init /\ [][Next]_vars

\* A script that was started goes on: its loops are bounded, and a request to the registry
\* is assumed to end, for curl has no limit on its time (publish-crates.sh:64).
FairSpec == Spec /\ \A r \in Runs : WF_vars(Proceed(r))

-----------------------------------------------------------------------------
(* Properties *)

\* The registry and the runs have their types.
TypeOK ==
  /\ names \in NameOwners
  /\ publisher \in [Packages -> Runs \cup {None}]
  /\ listed \subseteq Uploaded
  /\ stage \in [Runs -> Stages]
  /\ position \in [Runs -> 1..Last]
  /\ counted \in [Runs -> 0..Last]
  /\ attempts \in [Runs -> 0..(MaxAttempts - 1)]
  /\ resumes \in [Runs -> BOOLEAN]

\* However runs overlap, fail and follow one another, the crates of a release come from
\* more than one run only where a run that may skip existing versions took part: the
\* first crate elects the run, and every other one stops at a version it did not upload
\* (publish-crates.sh, "appeared after the initial check").
OnlyResumesContinue ==
  \A p, q \in Uploaded :
    publisher[p] # publisher[q] => resumes[publisher[p]] \/ resumes[publisher[q]]

\* "Published all move-binding packages" is true when a run says it: every crate is on
\* crates.io, and a run that was not to skip any uploaded them all itself.
FinishedReleasesAreWhole ==
  \A r \in Runs :
    stage[r] = "finished" =>
      /\ listed = Packages
      /\ ~resumes[r] => \A p \in Packages : publisher[p] = r

\* When a crate is uploaded, every crate its manifest names has been seen on crates.io,
\* by this run or by those whose crates it skipped.
UploadsFindTheirDependencies ==
  \A r \in Runs : stage[r] = "upload" => Dependencies(Current(r)) \subseteq listed

\* A release whose names somebody holds in part never begins: without ALLOW_EXISTING
\* nothing is uploaded under names that were taken before, unless all names existed and
\* the count cannot tell whose they are.
TakenNamesStopARelease ==
  names.others # {} /\ names.own \cup names.others # Packages =>
    \A p \in Uploaded : resumes[publisher[p]]

\* A run that was started comes to an end, though the API may never list what it uploaded.
RunsEnd == \A r \in Runs : stage[r] # "idle" ~> stage[r] \in {"finished", "failed"}

=============================================================================
