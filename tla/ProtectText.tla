------------------------------ MODULE ProtectText ------------------------------
(***************************************************************************)
(* The text written to /proc/gsfileprotection/protect, one rule per line,  *)
(* "path@letter", and what create_list of LKM/communicate.c makes of it.   *)
(***************************************************************************)
EXTENDS Naturals, Sequences

CONSTANTS
  Path,      \* path names, "" among them
  Inode,     \* struct inode objects
  Lookup,    \* the inode filp_open finds at a path, NULL when it fails
  PageLines, \* lines that fit in the one page vmalloc(sizeof(char *)) maps
  NULL

Letter == {"r", "w", "h", "o", "d", "n", "m", ""}
ProtectType == {"none", "read", "write", "hide", "rename", "open", "del", "mkdir"}

\* A line; its letter is NULL when the line has no '@'.
Line == [path : Path, letter : Letter \cup {NULL}]

\* The payload of a struct fileList; destroy_list clears the inode.
Entry == [path : Path, type : ProtectType, inode : Inode \cup {NULL}]

ASSUME TextAssumption ==
  /\ NULL \notin Inode \cup Path \cup Letter
  /\ "" \in Path
  /\ Lookup \in [Path -> Inode \cup {NULL}]
  /\ PageLines \in Nat

-----------------------------------------------------------------------------
\* A definition marked "Slip" is a mistake that could be made in the one below
\* it.  Nothing uses it but the experiments that show the properties notice.

\* Slip: the letter is kept as it is.
UntranslatedLetter(letter) == letter

protectTypeFromStr(letter) ==
  CASE letter = "r" -> "read"
    [] letter = "w" -> "write"
    [] letter = "h" -> "hide"
    [] letter = "o" -> "open"
    [] letter = "d" -> "del"
    [] letter = "n" -> "rename"
    [] letter = "m" -> "mkdir"
    [] OTHER -> "none"

\* Slip: an error of filp_open is not noticed.
NotEmpty(line) == line.path # ""
\* "" is never opened, any other path is handed to filp_open.
Opens(line) == line.path # "" /\ Lookup[line.path] # NULL

EntryOf(line) == [path  |-> line.path,
                  type  |-> protectTypeFromStr(line.letter),
                  inode |-> Lookup[line.path]]

\* strsep at '@' leaves p_str1 NULL when there is none, and that is the loop's
\* end test.
HasAt(line) == line.letter # NULL

\* Slip: the loop ends at the first file that does not open.
MissingFile(line) == ~Opens(line)
EndsText(line) == ~HasAt(line) /\ ~Opens(line)

-----------------------------------------------------------------------------
\* What a whole text comes to, read off its lines.

\* create_list dies of it: it does not fit the page, or a line without '@'
\* opens, and its letter is NULL.
Unparsable(text) ==
  \/ Len(text) > PageLines
  \/ \E i \in DOMAIN text :
       /\ ~HasAt(text[i]) /\ Opens(text[i])
       /\ \A j \in 1 .. i - 1 : HasAt(text[j])

\* The lines the loop reads: those in front of the first one without '@'.
LinesRead(text) ==
  CHOOSE n \in 0 .. Len(text) :
    /\ \A i \in 1 .. n : HasAt(text[i])
    /\ n < Len(text) => ~HasAt(text[n + 1])

\* The rules of the first n lines, for every n: those whose file can be opened,
\* in their order.
RulesOf(text) ==
  LET rules[n \in 0 .. Len(text)] ==
        IF n = 0 THEN <<>>
        ELSE IF Opens(text[n]) THEN Append(rules[n - 1], EntryOf(text[n]))
        ELSE rules[n - 1]
  IN rules

\* The rules a text asks for.
Accepted(text) == RulesOf(text)[LinesRead(text)]
=============================================================================
