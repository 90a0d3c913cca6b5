---------------------------- MODULE MCProtectList ----------------------------
(* Small instances of ProtectList.  Files "f" and "g" open, "x" does not; the *)
(* two inodes are on different file systems and share an inode number.        *)
EXTENDS ProtectList, TLC

CONSTANTS i1, i2

MCPath == {"", "f", "g", "x"} \cup Commands
MCInode == {i1, i2}
MCInoOf == i1 :> 1 @@ i2 :> 1
MCLookup == [q \in MCPath |-> IF q = "f" THEN i1 ELSE IF q = "g" THEN i2 ELSE NULL]

At(path, letter) == [path |-> path, letter |-> letter]
Blanks == [path |-> "", letter |-> NULL]

\* Two good lines, a missing file, a blank line inside, a line without
\* '@' that opens, a text past the page, a text past the buffer.
MCTexts == {
  << At("f", "r"), At("g", "h") >>,
  << At("x", "w"), At("g", "r") >>,
  << At("f", "w"), Blanks, At("g", "r") >>,
  << At("f", "h"), At("g", NULL) >>,
  << At("f", "r"), At("f", "r"), At("f", "r"), At("f", "r") >>,
  << At("f", "r"), At("f", "r"), At("f", "r"), At("f", "r"), At("f", "r") >> }

\* Texts reach the control file too, words it does not know; "clear" is in the
\* other run.
MCWords == Commands \ {"clear"}

Check(kind, key, type) == [kind |-> kind, key |-> key, type |-> type]
MCRequests == {
  Check("fd", i1, "read"), Check("fd", NULL, "read"),
  Check("ino", 1, "hide"), Check("path", "g", "hide") }

AddrSymmetry == Permutations(Addr)

\* Two handlers at once, in the memory one text needs.
RaceTexts == { << At("f", "r"), At("g", "h") >> }
RaceSymmetry == AddrSymmetry \cup Permutations(Writers)
=============================================================================
