------------------------------ MODULE ManagerText ------------------------------
(***************************************************************************)
(* The files of a manager (struct fileList of User/complexuser.c), the     *)
(* text it writes for them, and what its operator means by them.           *)
(***************************************************************************)
EXTENDS ProtectText, SequencesExt

\* scanf("%c") takes whatever comes next, the end of the line included.
NewLine == "newline"
File == [path : Path, type : Letter \cup {NewLine}]

\* A file is written as its path, '@', its letter and the end of the line.
LinesOf(f) ==
  IF f.type = NewLine
  THEN << [path |-> f.path, letter |-> ""], [path |-> "", letter |-> NULL] >>
  ELSE << [path |-> f.path, letter |-> f.type] >>

TextOf(files) == FlattenSeq([i \in DOMAIN files |-> LinesOf(files[i])])

\* What the operator means by a file: a rule with its kind of protection, of no
\* kind when its letter was a newline.
MeantBy(f) ==
  [path |-> f.path, inode |-> Lookup[f.path],
   type |-> IF f.type = NewLine THEN "none" ELSE protectTypeFromStr(f.type)]

\* ... and by a list: its files that can be opened, in their order, up to the
\* first whose letter was a newline, which is the last the kernel gets to see.
Meant(files) ==
  LET unseen(n) == \E i \in 1 .. n - 1 : files[i].type = NewLine
      meant[n \in 0 .. Len(files)] ==
        IF n = 0 THEN <<>>
        ELSE IF unseen(n) \/ files[n].path = "" \/ Lookup[files[n].path] = NULL
        THEN meant[n - 1]
        ELSE Append(meant[n - 1], MeantBy(files[n]))
  IN meant[Len(files)]
=============================================================================
