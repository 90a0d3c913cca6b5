------------------------------- MODULE PathNames -------------------------------
(***************************************************************************)
(* Names of files as LKM/utilities.c puts them together and cuts them.  A  *)
(* text is a sequence of components and slashes; a place is the sequence   *)
(* of components that leads to it from the root directory.                 *)
(***************************************************************************)
EXTENDS Integers, FiniteSets, Sequences, SequencesExt

Slash == "/"
Here  == "."
Up    == ".."

\* d_path: how the kernel writes a place.
Text(place) ==
  IF place = <<>> THEN <<Slash>>
  ELSE FlattenSeq([i \in DOMAIN place |-> <<Slash, place[i]>>])

\* A "Slip" is a mistake that could be made in the definition below it; only
\* the experiments with the properties use it.

\* Slip: the name alone.
NameOnly(left, cwd, name) == left \o name

\* getfullPath: strcat to what the buffer held, whatever the name is like.
FullPath(left, cwd, name) == left \o cwd \o <<Slash>> \o name

\* Slip: the slash at the end is not allowed for.
CutAtLast(path) ==
  LET slashes == {i \in DOMAIN path : path[i] = Slash}
      cut == CHOOSE i \in slashes : \A j \in slashes : j <= i
  IN IF slashes = {} THEN path ELSE SubSeq(path, 1, cut - 1)

\* getParentDirFromFullPath: up to the last slash, or to the one before it when
\* the text ends in one; a text without that many is left as it is.
ParentDir(path) ==
  LET slashes == {i \in DOMAIN path : path[i] = Slash}
      count == IF path # <<>> /\ Last(path) = Slash THEN 2 ELSE 1
      cut == CHOOSE i \in slashes : Cardinality({j \in slashes : j >= i}) = count
  IN IF Cardinality(slashes) < count THEN path ELSE SubSeq(path, 1, cut - 1)

-----------------------------------------------------------------------------
(* What a name means, to hold the above against.                           *)

Relative(name) == name # <<>> /\ name[1] # Slash

\* The place a name denotes from a directory, were there no other links.
Denotes(cwd, name) ==
  LET step(at, token) ==
        IF token \in {Slash, Here} THEN at
        ELSE IF token = Up THEN IF at = <<>> THEN at ELSE Front(at)
        ELSE Append(at, token)
  IN FoldLeft(step, IF Relative(name) THEN cwd ELSE <<>>, name)

\* Components with one slash between them and none at the ends.
Plain(name) ==
  /\ name # <<>>
  /\ \A i \in DOMAIN name : (i % 2 = 0) <=> (name[i] = Slash)
  /\ name[Len(name)] # Slash
  /\ \A i \in DOMAIN name : name[i] \notin {Here, Up}
=============================================================================
