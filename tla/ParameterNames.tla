--------------------------- MODULE ParameterNames ---------------------------
(***************************************************************************)
(* Names of function parameters in sui-move-codegen: those the network     *)
(* metadata is given (source.rs), those read from Move sources and laid    *)
(* over them (source_names.rs, ir.rs), and the Rust identifiers they       *)
(* become (render/idents.rs).                                              *)
(***************************************************************************)
EXTENDS Integers, Sequences, FiniteSets

CONSTANTS Words,       \* names without the underscores at their end
          ArgWord,     \* ArgWord[i] is the name the i-th parameter gets without sources
          Underscore,  \* the name "_"
          Unrawable    \* crate, self, Self and super: no raw identifier exists for them

\* A name is a word and the number of underscores after it.
Name == [word : Words, tail : Nat]

Plain(word) == [word |-> word, tail |-> 0]

ASSUME NamesAssumption ==
  /\ ArgWord \in Seq(Words)
  /\ \A i, j \in DOMAIN ArgWord : i # j => ArgWord[i] # ArgWord[j]
  /\ Underscore \in Words
  /\ Unrawable \subseteq Words
  /\ \A i \in DOMAIN ArgWord : ArgWord[i] \notin Unrawable \cup {Underscore}

\* format!("arg{index}")
Arg(i) == Plain(ArgWord[i])

-----------------------------------------------------------------------------
(* Names from the sources *)

\* apply_function_parameter_names, for one function: names zipped with parameters.
Overlay(parameters, names) ==
  [i \in DOMAIN parameters |->
     IF parameters[i].name = Arg(i) /\ i \in DOMAIN names
       THEN [parameters[i] EXCEPT !.name = names[i]] ELSE parameters[i]]

-----------------------------------------------------------------------------
(* ParameterIdents *)

Converted(name, i) ==
  IF name = Plain(Underscore) THEN Arg(i)
  ELSE IF name.tail = 0 /\ name.word \in Unrawable THEN [name EXCEPT !.tail = 1]
  ELSE name

\* The fewest underscores that make a new name of a word.
Unused(word, used) ==
  CHOOSE k \in 0..Cardinality(used) :
    /\ [word |-> word, tail |-> k] \notin used
    /\ \A j \in 0..(k - 1) : [word |-> word, tail |-> j] \in used

\* Mutant of NextIdent: the replacement is not compared with the names in use.
NextIdentOnce(name, i, used) ==
  LET candidate == Converted(name, i) IN IF candidate \in used THEN Arg(i) ELSE candidate

\* ParameterIdents::next; the caller adds the result to the names in use.
NextIdent(name, i, used) ==
  LET candidate == Converted(name, i) IN
  IF candidate \in used
    THEN [word |-> ArgWord[i], tail |-> Unused(ArgWord[i], used)]
    ELSE candidate
=============================================================================
