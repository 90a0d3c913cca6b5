----------------------------- MODULE OlderManager -----------------------------
(***************************************************************************)
(* LKM/client.c, of which User/complexuser2.c is a copy: the manager before *)
(* Manager, which reads its operator with scanf and getchar.  The operator *)
(* types lines; the program takes characters, and stays with its operator  *)
(* only while each read leaves stdin where the next one expects it.        *)
(***************************************************************************)
EXTENDS ManagerText

CONSTANTS
  Char,         \* characters the operator types, but the end of a line
  Digit,        \* ... those among them that %d takes
  Typed,        \* the lines that are typed, each ending with NewLine
  Longer,       \* a path of more than one character, which none opens
  ProtectFile,  \* the inode of /proc/gsfileprotection/protect
  MaxFiles      \* bound of the list

NUL == "NUL"
Other == "other"   \* a number that is no command, or a character that is no kind
Node == [path : Path, type : Char \cup {NewLine, NUL}]

ASSUME OlderAssumption ==
  /\ {"2", "9"} \subseteq Digit /\ Digit \subseteq Char
  /\ {NewLine, NUL, Other} \cap Char = {}
  /\ Char \cup {Longer} \subseteq Path /\ Lookup[Longer] = NULL
  /\ \A line \in Typed :
       /\ line \in Seq(Char \cup {NewLine}) /\ line # <<>> /\ Last(line) = NewLine
       /\ \A i \in 1 .. Len(line) - 1 : line[i] \in Char
  /\ ProtectFile \in Inode
  /\ MaxFiles \in Nat

VARIABLES
  pc,        \* where main stands
  child,     \* the receiver it forked: "none", "starting", "listening" or "gone"
  stdin,     \* characters not read yet
  eof,       \* ... and none will follow
  command,
  path,      \* of the node that is being filled
  files,     \* the list from fileList_root to tail
  rules,     \* what the kernel enforces
  \* history, read by no guard
  stray,     \* the operator once typed what was not asked for
  naming, asked,  \* till then, the path and the files that were typed
  taken      \* the kernel took the list as it is now

program  == <<pc, child, command, path, files, rules>>
operator == <<stray, naming, asked>>
vars == <<program, stdin, eof, operator, taken>>

-----------------------------------------------------------------------------
(* The operator.                                                           *)

Reads == {"menu", "eat path", "path", "eat type", "type"}
Waits == pc \in Reads /\ stdin = <<>> /\ ~eof

\* What was asked for: a number at the menu, one character for the kind; any
\* line is a path.
AsAsked(line) ==
  CASE pc = "menu" -> \A i \in 1 .. Len(line) - 1 : line[i] \in Digit
    [] pc = "type" -> Len(line) = 2
    [] OTHER -> TRUE

\* The path a run of characters spells.
Named(run) == CASE run = <<>> -> ""
                [] Len(run) = 1 -> Head(run)
                [] OTHER -> Longer

\* A line, when the program waits for one.  (Bound: no addition to a full list.)
Answer(line) ==
  /\ Waits
  /\ Len(files) = MaxFiles => line # <<"2", NewLine>>
  /\ stdin' = line
  /\ stray' = (stray \/ ~AsAsked(line))
  /\ naming' = IF pc = "path" /\ ~stray' THEN Named(Front(line)) ELSE ""
  /\ asked' = CASE stray' -> <<>>
                [] ~stray' /\ pc = "type" ->
                     Append(asked, [path |-> naming, type |-> Head(line)])
                [] OTHER -> asked
  /\ UNCHANGED <<program, eof, taken>>

\* The terminal is closed.
EndInput ==
  /\ Waits
  /\ eof' = TRUE
  /\ stray' = TRUE /\ naming' = "" /\ asked' = <<>>
  /\ UNCHANGED <<program, stdin, taken>>

-----------------------------------------------------------------------------
(* The program.  "Slip" marks a mistake that could be made in the          *)
(* definition below it; only the experiments use it.                       *)

Goto(label) == pc' = label

\* The first position of stdin with such a character, or its end.
UpTo(stops) ==
  LET first == SelectInSeq(stdin, LAMBDA ch : ch \in stops)
  IN IF first = 0 THEN Len(stdin) + 1 ELSE first
From(i) == SubSeq(stdin, i, Len(stdin))

Fork ==
  /\ pc = "fork"
  /\ \/ Goto("open") /\ child' = "starting"
     \/ Goto("failed") /\ UNCHANGED child
  /\ UNCHANGED <<stdin, eof, command, path, files, rules, operator, taken>>

\* notificationReceiver gets its socket, or ends without.
ChildStarts ==
  /\ child = "starting"
  /\ child' \in {"listening", "gone"}
  /\ UNCHANGED <<pc, stdin, eof, command, path, files, rules, operator, taken>>

\* The three files; on an error main returns and forgets the child.
OpenFiles ==
  /\ pc = "open"
  /\ Goto("menu") \/ Goto("failed")
  /\ UNCHANGED <<child, stdin, eof, command, path, files, rules, operator, taken>>

\* Slip: only what stands first is a number.
NoSkip == 1
SkipSpace == UpTo(Char)

\* scanf("%d") with nothing before the end of a line: it waits for more.
Skip ==
  /\ pc = "menu" /\ stdin # <<>>
  /\ SkipSpace > Len(stdin)
  /\ stdin' = <<>>
  /\ UNCHANGED <<program, eof, operator, taken>>

\* What the loop of main does for a command.
Obey(number) ==
  CASE number = "2" -> Goto("eat path") /\ UNCHANGED child
    [] number = "9" -> Goto("quit") /\ child' = "gone"
    [] OTHER -> Goto("menu") /\ UNCHANGED child

\* A number.
Command ==
  LET first == SkipSpace
      rest == From(first)
      digits == SelectInSeq(rest, LAMBDA ch : ch \notin Digit) - 1
  IN /\ pc = "menu"
     /\ first <= Len(stdin) /\ stdin[first] \in Digit
     /\ command' = IF digits = 1 THEN stdin[first] ELSE Other
     /\ stdin' = SubSeq(rest, digits + 1, Len(rest))
     /\ Obey(command')
     /\ UNCHANGED <<eof, path, files, rules, operator, taken>>

\* No number or no input: nobody looks at scanf's result, and the command of
\* the last time is obeyed once more.
CommandAgain ==
  LET first == SkipSpace IN
  /\ pc = "menu"
  /\ IF first <= Len(stdin) THEN stdin[first] \notin Digit ELSE eof
  /\ stdin' = From(first)
  /\ Obey(command)
  /\ UNCHANGED <<eof, command, path, files, rules, operator, taken>>

\* Slip: nothing is taken.
EatNothing == stdin
\* The loop of refreshstdin is left after one character, whatever it was.
Eaten == IF stdin = <<>> THEN <<>> ELSE Tail(stdin)

refreshstdin(here, next) ==
  /\ pc = here
  /\ stdin # <<>> \/ eof
  /\ stdin' = Eaten
  /\ Goto(next)
  /\ UNCHANGED <<child, eof, command, path, files, rules, operator, taken>>

\* scanf("%[^\n]"): an empty line is left where it is and the path stays "".
ReadPath ==
  LET end == UpTo({NewLine}) IN
  /\ pc = "path"
  /\ stdin # <<>> \/ eof
  /\ path' = Named(SubSeq(stdin, 1, end - 1))
  /\ stdin' = From(end)
  /\ Goto("eat type")
  /\ UNCHANGED <<child, eof, command, files, rules, operator, taken>>

\* scanf("%c") takes any character; without input the type stays 0.  The file
\* goes to the tail of the list.  (Bound: MaxFiles.)
ReadType ==
  /\ pc = "type" /\ Len(files) < MaxFiles
  /\ stdin # <<>> \/ eof
  /\ files' = Append(files, [path |-> path,
                             type |-> IF stdin = <<>> THEN NUL ELSE Head(stdin)])
  /\ stdin' = IF stdin = <<>> THEN <<>> ELSE Tail(stdin)
  /\ path' = "" /\ taken' = FALSE
  /\ Goto("refresh")
  /\ UNCHANGED <<child, eof, command, rules, operator>>

\* Slip: the end of a line is no letter either.
Cleaned(node) ==
  [path |-> node.path, type |-> IF node.type \in Letter THEN node.type ELSE ""]

\* A node as its line is written; a character that is no letter is no kind.
FileOf(node) ==
  [path |-> node.path, type |-> IF node.type \in Letter \cup {NewLine} THEN node.type ELSE ""]

\* The buffer is written up to its first 0, which may be somebody's type.
Text ==
  LET end == SelectInSeq(files, LAMBDA node : node.type = NUL)
      written == IF end = 0 THEN files ELSE SubSeq(files, 1, end)
  IN TextOf([i \in DOMAIN written |-> FileOf(written[i])])

\* is_fd_protected, for the write to protectfd.
Refused == \E i \in DOMAIN rules : rules[i].inode = ProtectFile /\ rules[i].type = "write"

\* refreshFileList: the kernel takes the text, its hook refuses the write, or
\* the program dies of the text inside the kernel.
refreshFileList ==
  /\ pc = "refresh"
  /\ CASE Refused -> Goto("menu") /\ UNCHANGED <<rules, taken>>
       [] ~Refused /\ Unparsable(Text) ->
            Goto("killed") /\ rules' = <<>> /\ UNCHANGED taken
       [] OTHER -> Goto("menu") /\ rules' = Accepted(Text) /\ taken' = TRUE
  /\ UNCHANGED <<child, stdin, eof, command, path, files, operator>>

\* Killed from outside, in front of a prompt.
Killed ==
  /\ Waits
  /\ Goto("killed")
  /\ UNCHANGED <<child, stdin, eof, command, path, files, rules, operator, taken>>

\* command is not initialised.
Init ==
  /\ pc = "fork" /\ child = "none"
  /\ stdin = <<>> /\ eof = FALSE
  /\ command \in {"2", "9", Other} /\ path = ""
  /\ files = <<>> /\ rules = <<>>
  /\ stray = FALSE /\ naming = "" /\ asked = <<>> /\ taken = FALSE

Program ==
  \/ Fork \/ OpenFiles
  \/ Skip \/ Command \/ CommandAgain
  \/ refreshstdin("eat path", "path") \/ ReadPath
  \/ refreshstdin("eat type", "type") \/ ReadType
  \/ refreshFileList

Next ==
  \/ \E line \in Typed : Answer(line)
  \/ EndInput \/ Program \/ ChildStarts \/ Killed

Spec == Init /\ [][Next]_vars

\* The program is run whenever it can go on; nobody has to type.
FairSpec == Spec /\ WF_vars(Program)

-----------------------------------------------------------------------------
(* Properties.                                                             *)

\* Every variable has a value of its kind; in particular main never waits for
\* the one character it throws away (refreshstdin, LKM/client.c:40-46).
TypeOK ==
  /\ pc \in {"fork", "open", "refresh", "quit", "failed", "killed"} \cup Reads
  /\ child \in {"none", "starting", "listening", "gone"}
  /\ stdin \in Seq(Char \cup {NewLine}) /\ eof \in BOOLEAN
  /\ command \in Digit \cup {Other} /\ path \in Path
  /\ files \in Seq(Node) /\ rules \in Seq(Entry)
  /\ stray \in BOOLEAN /\ naming \in Path /\ asked \in Seq(Node) /\ taken \in BOOLEAN
  /\ Waits => pc \in {"menu", "path", "type"}

\* As long as its operator types a number at the menu and one character for a
\* kind, the list of the program (LKM/client.c:147-175) is what was typed, file
\* by file: no character of one answer is taken for another answer, and none that
\* is to be thrown away is waited for.
Understood ==
  /\ TypeOK
  /\ pc = "menu" /\ ~stray => files = asked

\* What the list means: as with the later manager, but one without a type is the
\* last seen, too.
MeantHere ==
  LET cut == SelectInSeq(files, LAMBDA node : node.type \in {NewLine, NUL})
      seen == IF cut = 0 THEN files ELSE SubSeq(files, 1, cut)
  IN Meant([i \in DOMAIN seen |-> FileOf(seen[i])])

\* Whatever the operator typed, a list the kernel took is enforced as it reads:
\* refreshFileList (LKM/client.c:113-145) and create_list agree on the text,
\* though any character, an end of line and none at all may be the type.
InStep == taken => rules = MeantHere

\* What an operator types who answers as asked is read to its end: main never
\* turns in its loop on a character scanf leaves (LKM/client.c:222-223).
Heard == (stdin # <<>> /\ ~stray) ~> (stdin = <<>> \/ pc \in {"quit", "killed"})
=============================================================================
