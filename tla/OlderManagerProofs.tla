--------------------------- MODULE OlderManagerProofs ---------------------------
(***************************************************************************)
(* Theorems about OlderManager, for any characters, lines and lists: the   *)
(* program stays with an operator who answers as asked, and what the       *)
(* kernel enforces is what the list it took last means.                    *)
(***************************************************************************)
EXTENDS OlderManager, ProtectTextProofs

USE DEF program, operator

-----------------------------------------------------------------------------
(* The inductive invariant.                                                *)

\* What is left of a line ends as the line did, and where a character is to be
\* thrown away there is one.
Ended == stdin # <<>> => stdin[Len(stdin)] = NewLine
Fed == pc \in {"eat path", "eat type"} => stdin # <<>> \/ eof

\* Nothing but its end is left of the line before.
Drained == stdin = <<NewLine>>

\* A line that was typed, or part of one, of such characters.
Of(chars) == \A i \in 1 .. Len(stdin) - 1 : stdin[i] \in chars

\* Where the program stands in the dialog, and where its operator does.
AtMenu == pc = "menu" => files = asked /\ Of(Digit)
AtEatPath == pc = "eat path" => files = asked /\ Drained
AtPath ==
  pc = "path" =>
    /\ files = asked
    /\ stdin # <<>> => Of(Char) /\ naming = Named(SubSeq(stdin, 1, Len(stdin) - 1))
AtEatType == pc = "eat type" => files = asked /\ Drained /\ naming = path
AtType ==
  pc = "type" =>
    IF stdin = <<>> THEN files = asked /\ naming = path
    ELSE /\ Len(stdin) = 2
         /\ asked = Append(files, [path |-> path, type |-> stdin[1]])
AtRefresh == pc = "refresh" => files = asked /\ Drained
AtStart == pc \in {"fork", "open"} => files = asked /\ stdin = <<>>

Together ==
  ~stray => /\ ~eof
            /\ AtMenu /\ AtEatPath /\ AtPath /\ AtEatType /\ AtType /\ AtRefresh /\ AtStart

\* The kernel has the list as it is, or the program knows of a change.
Taken == taken => pc # "refresh" /\ rules = Accepted(Text)

IInv == TypeOK /\ Ended /\ Fed /\ Together /\ Taken

-----------------------------------------------------------------------------
(* Looking for a character.                                                *)

\* The least of some positions.
LEMMA LeastIn ==
  ASSUME NEW n \in Nat, NEW I \in SUBSET (1 .. n), I # {}
  PROVE  Min(I) \in I /\ \A k \in I : Min(I) <= k
<1>1. I \subseteq Nat
  OBVIOUS
<1>2. \E k \in I : \A j \in I : k <= j
  BY <1>1, LeastNumber
<1>. QED  BY <1>2 DEF Min

\* s up to position k has no element of stops, and k is one unless it is behind
\* the end.
Stops(s, stops, k) ==
  /\ k \in 1 .. Len(s) + 1
  /\ \A i \in 1 .. k - 1 : s[i] \notin stops
  /\ k <= Len(s) => s[k] \in stops

\* UpTo finds the first of some characters.
LEMMA UpToIs ==
  ASSUME NEW S, stdin \in Seq(S), NEW stops PROVE Stops(stdin, stops, UpTo(stops))
<1>. DEFINE I == {i \in 1 .. Len(stdin) : stdin[i] \in stops}
<1>1. UpTo(stops) = IF (IF I # {} THEN Min(I) ELSE 0) = 0 THEN Len(stdin) + 1
                    ELSE IF I # {} THEN Min(I) ELSE 0
  BY DEF UpTo, SelectInSeq
<1>2. Len(stdin) \in Nat /\ I \in SUBSET (1 .. Len(stdin))
  OBVIOUS
<1>3. CASE I = {}
  <2>1. UpTo(stops) = Len(stdin) + 1
    BY <1>1, <1>3
  <2>. QED  BY <1>2, <1>3, <2>1 DEF Stops
<1>4. CASE I # {}
  <2>. HIDE DEF I
  <2>1. PICK k \in I : k = Min(I) /\ \A j \in I : k <= j
    BY <1>2, <1>4, LeastIn
  <2>2. UpTo(stops) = k
    BY <1>1, <1>2, <1>4, <2>1
  <2>3. k \in 1 .. Len(stdin) /\ stdin[k] \in stops
    BY <2>1 DEF I
  <2>4. ASSUME NEW i \in 1 .. k - 1 PROVE stdin[i] \notin stops
    <3>1. i \in 1 .. Len(stdin) /\ ~(k <= i)
      BY <1>2, <2>3
    <3>. QED  BY <2>1, <3>1 DEF I
  <2>. QED  BY <1>2, <2>2, <2>3, <2>4 DEF Stops
<1>. QED  BY <1>3, <1>4

\* What is left of a sequence from position k.
LEMMA LastOnes ==
  ASSUME NEW S, NEW s \in Seq(S), NEW k \in 1 .. Len(s) + 1
  PROVE  /\ SubSeq(s, k, Len(s)) \in Seq(S) /\ Len(SubSeq(s, k, Len(s))) = Len(s) - k + 1
         /\ \A i \in 1 .. Len(s) - k + 1 : SubSeq(s, k, Len(s))[i] = s[k + i - 1]
<1>. QED  OBVIOUS

LEMMA TailIs ==
  ASSUME NEW S, NEW s \in Seq(S), s # <<>>
  PROVE  /\ Tail(s) \in Seq(S) /\ Len(s) \in Nat \ {0} /\ Len(Tail(s)) = Len(s) - 1
         /\ Len(Tail(s)) # 0 => Tail(s)[Len(Tail(s))] = s[Len(s)]
<1>1. Tail(s) \in Seq(S) /\ Len(s) \in Nat \ {0} /\ Len(Tail(s)) = Len(s) - 1
  OBVIOUS
<1>2. \A i \in 1 .. Len(s) - 1 : Tail(s)[i] = s[i + 1]
  OBVIOUS
<1>3. Len(s) - 1 # 0 => Len(s) - 1 \in 1 .. Len(s) - 1 /\ (Len(s) - 1) + 1 = Len(s)
  BY <1>1
<1>. QED  BY <1>1, <1>2, <1>3

LEMMA Empty == ASSUME NEW S, NEW s \in Seq(S) PROVE s = <<>> <=> Len(s) = 0
<1>. QED  OBVIOUS

LEMMA Single == ASSUME NEW S, NEW s \in Seq(S), Len(s) = 1 PROVE s = <<s[1]>>
<1>. QED  OBVIOUS

\* The first k - 1 characters of a sequence.
LEMMA FirstOnes ==
  ASSUME NEW S, NEW s \in Seq(S), NEW k \in 1 .. Len(s) + 1
  PROVE  /\ SubSeq(s, 1, k - 1) \in Seq(S) /\ Len(SubSeq(s, 1, k - 1)) = k - 1
         /\ \A i \in 1 .. k - 1 : SubSeq(s, 1, k - 1)[i] = s[i]
<1>. QED  OBVIOUS

\* A run of characters spells a path.
LEMMA NamedType == ASSUME NEW run \in Seq(Char) PROVE Named(run) \in Path
<1>1. CASE run = <<>>
  <2>1. Len(run) # 1
    BY <1>1
  <2>. QED  BY <1>1, <2>1, TextAssumption DEF Named
<1>2. CASE Len(run) = 1
  <2>1. run # <<>> /\ Head(run) \in Char
    BY <1>2
  <2>. QED  BY <1>2, <2>1, OlderAssumption DEF Named
<1>3. CASE run # <<>> /\ Len(run) # 1
  BY <1>3, OlderAssumption DEF Named
<1>. QED  BY <1>1, <1>2, <1>3

-----------------------------------------------------------------------------
(* The invariant is inductive.  The types of a step come first.            *)

Key == Char \cup {NewLine}

\* What the operator types, and what it says.
LEMMA LineType ==
  ASSUME NEW line \in Typed
  PROVE  /\ line \in Seq(Key) /\ line # <<>> /\ Len(line) \in Nat \ {0}
         /\ line[Len(line)] = NewLine /\ \A i \in 1 .. Len(line) - 1 : line[i] \in Char
         /\ Front(line) = SubSeq(line, 1, Len(line) - 1)
         /\ SubSeq(line, 1, Len(line) - 1) \in Seq(Char) /\ Head(line) = line[1]
<1>1. /\ line # <<>> /\ line \in Seq(Key) /\ line[Len(line)] = NewLine
      /\ \A i \in 1 .. Len(line) - 1 : line[i] \in Char
  BY OlderAssumption DEF Last, Key
<1>2. Len(line) \in Nat \ {0} /\ Head(line) = line[1]
  BY <1>1
<1>3. SubSeq(line, 1, Len(line) - 1) \in Seq(Char)
  BY <1>1, <1>2, FirstOnes
<1>. QED  BY <1>1, <1>2, <1>3 DEF Front

\* The text of a list is lines.
LEMMA FileOfType == ASSUME NEW node \in Node PROVE FileOf(node) \in File
<1>1. node.path \in Path /\ "" \in Letter
  BY DEF Node, Letter
<1>. QED  BY <1>1 DEF FileOf, File

LEMMA TypeInit == ASSUME Init PROVE IInv
<1>1. command \in Digit \cup {Other} /\ path \in Path /\ naming \in Path
  BY OlderAssumption, TextAssumption DEF Init
<1>2. stdin \in Seq(Char \cup {NewLine}) /\ files \in Seq(Node) /\ asked \in Seq(Node)
      /\ rules \in Seq(Entry)
  <2>1. \A S : <<>> \in Seq(S)
    OBVIOUS
  <2>2. stdin = <<>> /\ files = <<>> /\ asked = <<>> /\ rules = <<>>
    BY DEF Init
  <2>. QED  BY ONLY <2>1, <2>2
<1>3. TypeOK
  BY <1>1, <1>2 DEF Init, TypeOK, Reads, Waits
<1>4. Ended /\ Fed /\ Together /\ Taken
  BY DEF Init, Ended, Fed, Together, Taken, AtMenu, AtEatPath, AtPath, AtEatType, AtType,
         AtRefresh, AtStart
<1>. QED  BY <1>3, <1>4 DEF IInv

\* While neither the list nor the rules change, the kernel's state is what it was.
LEMMA TakenKept ==
  ASSUME Taken, UNCHANGED <<files, rules, taken>>, pc' # "refresh"
  PROVE  Taken'
<1>1. Text' = Text
  BY DEF Text, SelectInSeq
<1>. QED  BY <1>1 DEF Taken

\* The operator answers.
LEMMA AnswerInv ==
  ASSUME IInv, NEW line \in Typed, Answer(line)
  PROVE  IInv'
<1>. USE DEF IInv
<1>1. /\ line \in Seq(Key) /\ line # <<>> /\ Len(line) \in Nat \ {0}
      /\ line[Len(line)] = NewLine /\ \A i \in 1 .. Len(line) - 1 : line[i] \in Char
      /\ Front(line) = SubSeq(line, 1, Len(line) - 1)
      /\ SubSeq(line, 1, Len(line) - 1) \in Seq(Char) /\ Head(line) = line[1]
  BY LineType
<1>2. /\ pc \in {"menu", "path", "type"} /\ stdin = <<>> /\ ~eof
      /\ stdin' = line /\ stray' = (stray \/ ~AsAsked(line))
      /\ UNCHANGED <<program, eof, taken>>
  BY DEF Answer, TypeOK, Waits
<1>3. naming' = IF pc = "path" /\ ~stray' THEN Named(SubSeq(line, 1, Len(line) - 1)) ELSE ""
  BY <1>1 DEF Answer
<1>4. /\ stray' => asked' = <<>>
      /\ ~stray' /\ pc = "type" => asked' = Append(asked, [path |-> naming, type |-> line[1]])
      /\ ~stray' /\ pc # "type" => asked' = asked
  BY <1>1 DEF Answer
<1>5. TypeOK'
  <2>1. naming' \in Path
    BY <1>1, <1>3, NamedType, TextAssumption
  <2>2. [path |-> naming, type |-> line[1]] \in Node
    BY <1>1 DEF TypeOK, Node, Key
  <2>3. asked' \in Seq(Node)
    <3>1. asked \in Seq(Node) /\ <<>> \in Seq(Node)
      BY DEF TypeOK
    <3>2. Append(asked, [path |-> naming, type |-> line[1]]) \in Seq(Node)
      BY <2>2, <3>1
    <3>. QED  BY <1>4, <3>1, <3>2
  <2>4. stdin' \in Seq(Char \cup {NewLine}) /\ stray' \in BOOLEAN
    BY <1>1, <1>2 DEF Key, TypeOK
  <2>5. ~Waits'
    BY <1>1, <1>2 DEF Waits
  <2>. QED  BY <1>2, <2>1, <2>3, <2>4, <2>5 DEF TypeOK
<1>6. Ended' /\ Fed'
  BY <1>1, <1>2 DEF Ended, Fed
<1>7. ASSUME ~stray' PROVE Together'
  <2>1. Together /\ ~stray /\ AsAsked(line)
    BY <1>2, <1>7
  <2>2. CASE pc = "menu"
    BY <1>1, <1>2, <1>4, <1>7, <2>1, <2>2
       DEF Together, AsAsked, AtMenu, AtEatPath, AtPath, AtEatType, AtType, AtRefresh, AtStart, Of
  <2>3. CASE pc = "path"
    BY <1>1, <1>2, <1>3, <1>4, <1>7, <2>1, <2>3
       DEF Together, AtMenu, AtEatPath, AtPath, AtEatType, AtType, AtRefresh, AtStart, Of
  <2>4. CASE pc = "type"
    <3>1. Len(line) = 2
      BY <2>1, <2>4 DEF AsAsked
    <3>2. files = asked /\ naming = path
      BY <1>2, <2>1, <2>4 DEF Together, AtType
    <3>. QED  BY <1>1, <1>2, <1>4, <1>7, <2>1, <2>4, <3>1, <3>2
       DEF Together, AtMenu, AtEatPath, AtPath, AtEatType, AtType, AtRefresh, AtStart
  <2>. QED  BY <1>2, <2>2, <2>3, <2>4
<1>8. Taken'
  BY <1>2, TakenKept
<1>. QED  BY <1>5, <1>6, <1>7, <1>8 DEF Together

\* The terminal is closed, the program is killed in front of a prompt, or it has
\* not come to one.
LEMMA QuietInv ==
  ASSUME IInv, EndInput \/ Killed \/ Fork \/ OpenFiles \/ ChildStarts
  PROVE  IInv'
<1>. USE DEF IInv
<1>1. CASE EndInput
  <2>1. /\ UNCHANGED <<program, stdin, taken>> /\ eof' = TRUE /\ stray' = TRUE
        /\ naming' = "" /\ asked' = <<>> /\ pc # "refresh"
    BY <1>1 DEF EndInput, Waits, Reads
  <2>2. TypeOK'
    <3>1. naming' \in Path
      BY <2>1, TextAssumption
    <3>2. asked' \in Seq(Node)
      <4>1. \A S : <<>> \in Seq(S)
        OBVIOUS
      <4>. QED  BY <2>1, <4>1
    <3>. QED  BY <2>1, <3>1, <3>2 DEF TypeOK, Waits
  <2>3. Taken'
    BY <2>1, TakenKept
  <2>. QED  BY <2>1, <2>2, <2>3 DEF Ended, Fed, Together
<1>2. CASE Killed
  <2>1. /\ pc' = "killed"
        /\ UNCHANGED <<child, stdin, eof, command, path, files, rules, operator, taken>>
    BY <1>2 DEF Killed, Goto
  <2>2. Taken'
    BY <2>1, TakenKept
  <2>. QED  BY <2>1, <2>2 DEF TypeOK, Waits, Reads, Ended, Fed, Together, AtMenu, AtEatPath, AtPath,
       AtEatType, AtType, AtRefresh, AtStart
<1>3. CASE Fork \/ OpenFiles
  <2>1. /\ pc \in {"fork", "open"} /\ pc' \in {"open", "menu", "failed"}
        /\ child' \in {"none", "starting", "listening", "gone"}
        /\ UNCHANGED <<stdin, eof, command, path, files, rules, operator, taken>>
    BY <1>3 DEF Fork, OpenFiles, Goto, TypeOK
  <2>2. Taken'
    BY <2>1, TakenKept
  <2>3. ~stray => files = asked /\ stdin = <<>>
    BY <2>1 DEF Together, AtStart
  <2>4. ~stray => Of(Digit)'
    BY <2>1, <2>3 DEF Of
  <2>5. ~stray => AtMenu' /\ AtStart'
    BY <2>1, <2>3, <2>4 DEF AtMenu, AtStart
  <2>6. AtEatPath' /\ AtPath' /\ AtEatType' /\ AtType' /\ AtRefresh'
    BY <2>1 DEF AtEatPath, AtPath, AtEatType, AtType, AtRefresh
  <2>7. Together'
    BY <2>1, <2>5, <2>6 DEF Together
  <2>. QED  BY <2>1, <2>2, <2>7 DEF TypeOK, Waits, Reads, Ended, Fed
<1>4. CASE ChildStarts
  <2>1. /\ child' \in {"listening", "gone"}
        /\ UNCHANGED <<pc, stdin, eof, command, path, files, rules, operator, taken>>
    BY <1>4 DEF ChildStarts
  <2>2. Taken'
    BY <2>1 DEF Taken, Text, SelectInSeq
  <2>3. Together'
    BY <2>1 DEF Together, AtMenu, AtEatPath, AtPath, AtEatType, AtType, AtRefresh, AtStart,
         Of, Drained
  <2>. QED  BY <2>1, <2>2, <2>3 DEF TypeOK, Waits, Reads, Ended, Fed
<1>. QED  BY <1>1, <1>2, <1>3, <1>4

\* What is obeyed was read in front of the last end of a line.
LEMMA ObeyInv ==
  ASSUME IInv, pc = "menu", NEW number, Obey(number),
         UNCHANGED <<eof, path, files, rules, operator, taken>>,
         command' \in Digit \cup {Other}, stdin' \in Seq(Key), Ended',
         stdin' # <<>> \/ eof, ~stray => Drained'
  PROVE  IInv'
<1>. USE DEF IInv
<1>1. /\ pc' \in {"eat path", "quit", "menu"}
      /\ child' \in {"none", "starting", "listening", "gone"}
  BY DEF Obey, Goto, TypeOK
<1>2. Taken'
  BY <1>1, TakenKept
<1>3. Together'
  <2>1. ~stray => files = asked /\ ~eof
    BY DEF Together, AtMenu
  <2>2. ASSUME ~stray PROVE Of(Digit)'
    <3>1. stdin' = <<NewLine>>
      BY <2>2 DEF Drained
    <3>2. Len(stdin') = 1
      BY <3>1
    <3>. QED  BY <3>2 DEF Of
  <2>3. ~stray => AtMenu' /\ AtEatPath'
    BY <2>1, <2>2 DEF AtMenu, AtEatPath
  <2>4. AtPath' /\ AtEatType' /\ AtType' /\ AtRefresh' /\ AtStart'
    BY <1>1 DEF AtPath, AtEatType, AtType, AtRefresh, AtStart
  <2>. QED  BY <2>1, <2>3, <2>4 DEF Together
<1>4. Fed'
  BY DEF Fed
<1>. QED  BY <1>1, <1>2, <1>3, <1>4 DEF TypeOK, Waits, Reads, Fed, Key

\* scanf reads a number, or none.
LEMMA CommandInv ==
  ASSUME IInv, Skip \/ Command \/ CommandAgain
  PROVE  IInv'
<1>. USE DEF IInv
<1>. DEFINE first == SkipSpace
            rest == From(first)
<1>1. stdin \in Seq(Key) /\ Len(stdin) \in Nat /\ pc = "menu"
  <2>1. stdin \in Seq(Key)
    BY DEF TypeOK, Key
  <2>2. pc = "menu"
    BY Zenon DEF Skip, Command, CommandAgain
  <2>. QED  BY <2>1, <2>2
<1>2. /\ first \in 1 .. Len(stdin) + 1
      /\ \A i \in 1 .. first - 1 : stdin[i] \notin Char
      /\ first <= Len(stdin) => stdin[first] \in Char
  BY <1>1, UpToIs DEF SkipSpace, Stops
<1>. HIDE DEF first
<1>3. /\ rest \in Seq(Key) /\ Len(rest) = Len(stdin) - first + 1
      /\ \A i \in 1 .. Len(rest) : rest[i] = stdin[first + i - 1]
  BY <1>1, <1>2, LastOnes DEF From
<1>. HIDE DEF rest
<1>4. NewLine \notin Char /\ Digit \subseteq Char
  BY OlderAssumption
<1>5. first <= Len(stdin) => first < Len(stdin) /\ rest[Len(rest)] = NewLine /\ Len(rest) > 0
  <2>1. first <= Len(stdin) => stdin[Len(stdin)] = NewLine
    BY <1>1, <1>2 DEF Ended
  <2>. QED  BY <1>1, <1>2, <1>3, <1>4, <2>1
<1>6. ~stray /\ first <= Len(stdin) => \A i \in 1 .. Len(rest) - 1 : rest[i] \in Digit
  <2>1. ~stray => \A i \in 1 .. Len(stdin) - 1 : stdin[i] \in Digit
    BY <1>1 DEF Together, AtMenu, Of
  <2>. QED  BY <1>1, <1>2, <1>3, <2>1
<1>7. CASE Skip
  <2>1. stdin' = <<>> /\ UNCHANGED <<program, eof, operator, taken>>
    BY <1>7 DEF Skip
  <2>2. Taken'
    BY <1>1, <2>1, TakenKept
  <2>3. Together'
    BY <1>1, <2>1 DEF Together, AtMenu, AtEatPath, AtPath, AtEatType, AtType, AtRefresh, AtStart, Of
  <2>4. stdin' \in Seq(Char \cup {NewLine})
    <3>1. \A S : <<>> \in Seq(S)
      OBVIOUS
    <3>. QED  BY <2>1, <3>1
  <2>. QED  BY <1>1, <2>1, <2>2, <2>3, <2>4 DEF TypeOK, Waits, Ended, Fed
<1>8. CASE Command
  <2>. DEFINE I == {i \in 1 .. Len(rest) : rest[i] \notin Digit}
              k == Min(I)
  <2>1. first <= Len(stdin) /\ stdin[first] \in Digit
    BY <1>8 DEF Command, first
  <2>2. Len(rest) \in Nat /\ I \in SUBSET (1 .. Len(rest)) /\ Len(rest) \in I
    BY <1>3, <1>4, <1>5, <2>1
  <2>3. k \in I /\ \A j \in I : k <= j
    BY <2>2, LeastIn
  <2>4. SelectInSeq(rest, LAMBDA ch : ch \notin Digit) = k
    BY <2>3 DEF SelectInSeq
  <2>5. /\ command' = IF k - 1 = 1 THEN stdin[first] ELSE Other
        /\ stdin' = SubSeq(rest, (k - 1) + 1, Len(rest))
        /\ Obey(command')
        /\ UNCHANGED <<eof, path, files, rules, operator, taken>>
    BY <1>8, <2>4 DEF Command, first, rest
  <2>. HIDE DEF k, I
  <2>6. k \in 1 .. Len(rest) /\ (k - 1) + 1 = k
    BY <2>2, <2>3
  <2>7. /\ stdin' \in Seq(Key) /\ Len(stdin') = Len(rest) - k + 1
        /\ \A i \in 1 .. Len(stdin') : stdin'[i] = rest[k + i - 1]
    <3>1. stdin' = SubSeq(rest, k, Len(rest)) /\ k \in 1 .. Len(rest) + 1
      BY <2>2, <2>5, <2>6
    <3>2. rest \in Seq(Key)
      BY <1>3
    <3>. QED  BY <3>1, <3>2, LastOnes
  <2>8. Ended' /\ stdin' # <<>>
    BY <1>5, <2>1, <2>2, <2>6, <2>7 DEF Ended
  <2>9. ASSUME ~stray PROVE Drained'
    <3>1. k = Len(rest)
      <4>1. k \in I => k \notin 1 .. Len(rest) - 1
        BY <1>6, <2>1, <2>9 DEF I
      <4>. QED  BY <2>2, <2>3, <2>6, <4>1
    <3>2. Len(stdin') = 1 /\ stdin'[1] = NewLine
      BY <1>5, <2>1, <2>2, <2>7, <3>1
    <3>. QED  BY <2>7, <3>2, Single DEF Drained
  <2>10. command' \in Digit \cup {Other}
    BY <2>1, <2>5
  <2>. QED  BY <1>1, <2>5, <2>7, <2>8, <2>9, <2>10, ObeyInv
<1>9. CASE CommandAgain
  <2>1. /\ IF first <= Len(stdin) THEN stdin[first] \notin Digit ELSE eof
        /\ stdin' = rest /\ Obey(command)
        /\ UNCHANGED <<eof, command, path, files, rules, operator, taken>>
    BY <1>9 DEF CommandAgain, first, rest
  <2>2. stray
    <3>1. ASSUME ~stray PROVE FALSE
      <4>1. ~eof /\ \A i \in 1 .. Len(stdin) - 1 : stdin[i] \in Digit
        BY <1>1, <3>1 DEF Together, AtMenu, Of
      <4>. QED  BY <1>1, <1>2, <1>5, <2>1, <4>1
    <3>. QED  BY <3>1
  <2>3. Ended' /\ (stdin' # <<>> \/ eof)
    BY <1>1, <1>2, <1>3, <1>5, <2>1 DEF Ended
  <2>4. command' \in Digit \cup {Other}
    BY <2>1 DEF TypeOK
  <2>. QED  BY <1>1, <1>3, <2>1, <2>2, <2>3, <2>4, ObeyInv
<1>. QED  BY <1>7, <1>8, <1>9

\* Behind the only element of a sequence nothing is left.
LEMMA TailOfOne ==
  ASSUME NEW S, NEW s \in Seq(S), s # <<>>, Len(s) = 1
  PROVE  Tail(s) = <<>>
<1>. DEFINE rest == Tail(s)
<1>1. rest \in Seq(S) /\ Len(rest) = Len(s) - 1
  BY TailIs
<1>. HIDE DEF rest
<1>2. Len(rest) = 0
  BY ONLY <1>1, Len(s) = 1
<1>3. rest = <<>>
  BY ONLY <1>1, <1>2, Empty
<1>. QED  BY <1>3 DEF rest

\* One character is thrown away, which an operator who answers as asked has
\* meant for nothing.
LEMMA EatInv ==
  ASSUME IInv, refreshstdin("eat path", "path") \/ refreshstdin("eat type", "type")
  PROVE  IInv'
<1>. USE DEF IInv
<1>1. /\ pc \in {"eat path", "eat type"}
      /\ pc' = IF pc = "eat path" THEN "path" ELSE "type"
      /\ stdin' = IF stdin = <<>> THEN <<>> ELSE Tail(stdin)
      /\ UNCHANGED <<child, eof, command, path, files, rules, operator, taken>>
  BY DEF refreshstdin, Goto, Eaten
<1>2. stdin \in Seq(Key)
  BY DEF TypeOK, Key
<1>3. stdin' \in Seq(Key) /\ Ended'
  <2>1. CASE stdin = <<>>
    BY <1>1, <1>2, <2>1 DEF Ended
  <2>2. CASE stdin # <<>>
    <3>1. /\ stdin' \in Seq(Key) /\ Len(stdin) \in Nat \ {0} /\ Len(stdin') = Len(stdin) - 1
          /\ Len(stdin') # 0 => stdin'[Len(stdin')] = stdin[Len(stdin)]
      <4>1. stdin' = Tail(stdin)
        BY <1>1, <2>2
      <4>. QED  BY <1>2, <2>2, <4>1, TailIs
    <3>. QED  BY <2>2, <3>1, Empty DEF Ended
  <2>. QED  BY <2>1, <2>2
<1>4. Together'
  <2>1. ASSUME ~stray PROVE Drained /\ ~eof /\ files = asked /\ (pc = "eat type" => naming = path)
    BY <1>1, <2>1 DEF Together, AtEatPath, AtEatType
  <2>2. ASSUME ~stray PROVE stdin' = <<>>
    <3>1. stdin = <<NewLine>>
      BY <2>1, <2>2 DEF Drained
    <3>2. stdin # <<>> /\ Len(stdin) = 1
      BY <3>1
    <3>3. Tail(stdin) = <<>>
      BY ONLY <1>2, <3>2, TailOfOne
    <3>. QED  BY <1>1, <3>2, <3>3
  <2>3. ~stray => AtPath' /\ AtType'
    BY <1>1, <2>1, <2>2 DEF AtPath, AtType
  <2>4. AtMenu' /\ AtEatPath' /\ AtEatType' /\ AtRefresh' /\ AtStart'
    BY <1>1 DEF AtMenu, AtEatPath, AtEatType, AtRefresh, AtStart
  <2>. QED  BY <1>1, <2>1, <2>3, <2>4 DEF Together
<1>5. Taken'
  BY <1>1, TakenKept
<1>6. TypeOK' /\ Fed'
  BY <1>1, <1>3 DEF TypeOK, Waits, Reads, Fed, Key
<1>. QED  BY <1>3, <1>4, <1>5, <1>6

\* The path is the line it was asked for.
LEMMA PathInv ==
  ASSUME IInv, ReadPath
  PROVE  IInv'
<1>. USE DEF IInv
<1>. DEFINE end == UpTo({NewLine})
            run == SubSeq(stdin, 1, end - 1)
<1>1. /\ pc = "path" /\ pc' = "eat type" /\ (stdin # <<>> \/ eof)
      /\ path' = Named(run) /\ stdin' = From(end)
      /\ UNCHANGED <<child, eof, command, files, rules, operator, taken>>
  BY DEF ReadPath, Goto
<1>2. stdin \in Seq(Key) /\ Len(stdin) \in Nat
  BY DEF TypeOK, Key
<1>3. /\ end \in 1 .. Len(stdin) + 1
      /\ \A i \in 1 .. end - 1 : stdin[i] \notin {NewLine}
      /\ end <= Len(stdin) => stdin[end] \in {NewLine}
  BY <1>2, UpToIs DEF Stops
<1>. HIDE DEF end
<1>4. /\ stdin' \in Seq(Key) /\ Len(stdin') = Len(stdin) - end + 1
      /\ \A i \in 1 .. Len(stdin) - end + 1 : stdin'[i] = stdin[end + i - 1]
  BY <1>1, <1>2, <1>3, LastOnes DEF From
<1>5. run \in Seq(Char)
  <2>1. /\ run \in Seq(Key) /\ Len(run) = end - 1
        /\ \A i \in 1 .. end - 1 : run[i] = stdin[i]
    BY <1>2, <1>3, FirstOnes
  <2>. HIDE DEF run
  <2>2. \A i \in 1 .. Len(run) : run[i] \in Char
    BY <1>2, <1>3, <2>1 DEF Key
  <2>. QED  BY <2>1, <2>2
<1>6. stdin # <<>> => end <= Len(stdin)
  <2>1. stdin # <<>> => Len(stdin) > 0 /\ stdin[Len(stdin)] = NewLine
    BY <1>2 DEF Ended
  <2>. QED  BY <1>2, <1>3, <2>1
<1>7. Ended' /\ Fed'
  <2>1. CASE stdin = <<>>
    <3>1. Len(stdin') = 0
      BY <1>2, <1>3, <1>4, <2>1
    <3>2. stdin' = <<>>
      BY <1>4, <3>1, Empty
    <3>. QED  BY <1>1, <2>1, <3>2 DEF Ended, Fed
  <2>2. CASE stdin # <<>>
    <3>1. Len(stdin') > 0 /\ stdin'[Len(stdin')] = stdin[Len(stdin)]
      BY <1>2, <1>3, <1>4, <1>6, <2>2
    <3>2. stdin[Len(stdin)] = NewLine
      BY <2>2 DEF Ended
    <3>3. stdin' # <<>>
      BY <1>4, <3>1, Empty
    <3>. QED  BY <3>1, <3>2, <3>3 DEF Ended, Fed
  <2>. QED  BY <2>1, <2>2
<1>8. Together'
  <2>1. ASSUME ~stray
        PROVE  /\ stdin # <<>> /\ files = asked /\ Of(Char) /\ ~eof
               /\ naming = Named(SubSeq(stdin, 1, Len(stdin) - 1))
    BY <1>1, <2>1 DEF Together, AtPath
  <2>2. ASSUME ~stray PROVE end = Len(stdin)
    <3>1. \A i \in 1 .. Len(stdin) - 1 : stdin[i] # NewLine
      BY <2>1, <2>2, OlderAssumption DEF Of
    <3>. QED  BY <1>2, <1>3, <1>6, <2>1, <2>2, <3>1
  <2>3. ASSUME ~stray PROVE Drained' /\ naming = path'
    <3>1. Len(stdin') = 1 /\ stdin'[1] = NewLine
      BY <1>2, <1>3, <1>4, <1>6, <2>1, <2>2, <2>3
    <3>2. Drained'
      BY <1>4, <3>1, Single DEF Drained
    <3>. QED  BY <1>1, <2>1, <2>2, <2>3, <3>2
  <2>4. ~stray => AtEatType'
    BY <1>1, <2>1, <2>3 DEF AtEatType
  <2>5. AtMenu' /\ AtEatPath' /\ AtPath' /\ AtType' /\ AtRefresh' /\ AtStart'
    BY <1>1 DEF AtMenu, AtEatPath, AtPath, AtType, AtRefresh, AtStart
  <2>. QED  BY <1>1, <2>1, <2>4, <2>5 DEF Together
<1>9. Taken'
  BY <1>1, TakenKept
<1>10. TypeOK'
  <2>1. path' \in Path
    BY <1>1, <1>5, NamedType
  <2>. QED  BY <1>1, <1>4, <1>7, <2>1 DEF TypeOK, Waits, Reads, Fed, Key
<1>. QED  BY <1>7, <1>8, <1>9, <1>10

\* The kind is the character that was typed for it.
LEMMA KindInv ==
  ASSUME IInv, ReadType
  PROVE  IInv'
<1>. USE DEF IInv
<1>1. /\ pc = "type" /\ pc' = "refresh" /\ (stdin # <<>> \/ eof)
      /\ files' = Append(files, [path |-> path,
                                type |-> IF stdin = <<>> THEN NUL ELSE Head(stdin)])
      /\ stdin' = IF stdin = <<>> THEN <<>> ELSE Tail(stdin)
      /\ path' = "" /\ taken' = FALSE
      /\ UNCHANGED <<child, eof, command, rules, operator>>
  BY DEF ReadType, Goto
<1>2. stdin \in Seq(Key) /\ files \in Seq(Node) /\ path \in Path
  BY DEF TypeOK, Key
<1>3. stdin' \in Seq(Key) /\ Ended'
  <2>1. CASE stdin = <<>>
    BY <1>1, <1>2, <2>1 DEF Ended
  <2>2. CASE stdin # <<>>
    <3>1. /\ stdin' \in Seq(Key) /\ Len(stdin) \in Nat \ {0} /\ Len(stdin') = Len(stdin) - 1
          /\ Len(stdin') # 0 => stdin'[Len(stdin')] = stdin[Len(stdin)]
      <4>1. stdin' = Tail(stdin)
        BY <1>1, <2>2
      <4>. QED  BY <1>2, <2>2, <4>1, TailIs
    <3>. QED  BY <2>2, <3>1, Empty DEF Ended
  <2>. QED  BY <2>1, <2>2
<1>4. files' \in Seq(Node)
  <2>1. stdin # <<>> => Head(stdin) \in Key
    BY <1>2
  <2>2. [path |-> path, type |-> IF stdin = <<>> THEN NUL ELSE Head(stdin)] \in Node
    BY <1>2, <2>1 DEF Node, Key
  <2>3. \A node \in Node : Append(files, node) \in Seq(Node)
    BY <1>2
  <2>. QED  BY <1>1, <2>2, <2>3
<1>5. TypeOK'
  BY <1>1, <1>3, <1>4, TextAssumption DEF TypeOK, Waits, Reads, Key
<1>6. Together'
  <2>1. ASSUME ~stray
        PROVE  /\ ~eof /\ stdin # <<>> /\ Len(stdin) = 2
               /\ asked = Append(files, [path |-> path, type |-> stdin[1]])
    BY <1>1, <2>1 DEF Together, AtType
  <2>2. ASSUME ~stray PROVE files' = asked'
    <3>1. Head(stdin) = stdin[1]
      BY <2>1, <2>2
    <3>. QED  BY <1>1, <2>1, <2>2, <3>1
  <2>3. ASSUME ~stray PROVE Drained'
    <3>1. stdin' = Tail(stdin) /\ stdin[2] = NewLine
      BY <1>1, <2>1, <2>3 DEF Ended
    <3>2. Len(Tail(stdin)) = 1 /\ Tail(stdin)[1] = NewLine
      <4>1. /\ Len(Tail(stdin)) = Len(stdin) - 1
            /\ Len(Tail(stdin)) # 0 => Tail(stdin)[Len(Tail(stdin))] = stdin[Len(stdin)]
        BY <1>2, <2>1, <2>3, TailIs
      <4>. QED  BY <2>1, <2>3, <3>1, <4>1
    <3>. QED  BY <1>3, <3>1, <3>2, Single DEF Drained
  <2>4. ~stray => AtRefresh'
    BY <2>2, <2>3 DEF AtRefresh
  <2>5. AtMenu' /\ AtEatPath' /\ AtPath' /\ AtEatType' /\ AtType' /\ AtStart'
    BY <1>1 DEF AtMenu, AtEatPath, AtPath, AtEatType, AtType, AtStart
  <2>. QED  BY <1>1, <2>1, <2>4, <2>5 DEF Together
<1>. QED  BY <1>1, <1>3, <1>5, <1>6 DEF Fed, Taken

\* The files of a list that the text is written for.
Shown(nodes) == [i \in DOMAIN nodes |-> FileOf(nodes[i])]

LEMMA ShownType ==
  ASSUME NEW nodes \in Seq(Node)
  PROVE  Shown(nodes) \in Seq(File) /\ Len(Shown(nodes)) = Len(nodes)
<1>1. Len(nodes) \in Nat /\ DOMAIN nodes = 1 .. Len(nodes)
  OBVIOUS
<1>2. \A i \in 1 .. Len(nodes) : FileOf(nodes[i]) \in File
  BY FileOfType
<1>. QED  BY <1>1, <1>2 DEF Shown

\* A list up to the first node of such a type.
Through(types) ==
  LET end == SelectInSeq(files, LAMBDA node : node.type \in types)
  IN IF end = 0 THEN files ELSE SubSeq(files, 1, end)

LEMMA ThroughIs ==
  ASSUME NEW types, files \in Seq(Node)
  PROVE  \E k \in 0 .. Len(files) :
            /\ Through(types) \in Seq(Node) /\ Len(Through(types)) = k
            /\ \A i \in 1 .. k : Through(types)[i] = files[i]
            /\ \A i \in 1 .. k - 1 : files[i].type \notin types
            /\ k < Len(files) => k > 0 /\ files[k].type \in types
<1>. DEFINE I == {i \in 1 .. Len(files) : files[i].type \in types}
            end == IF I # {} THEN Min(I) ELSE 0
<1>1. Through(types) = IF end = 0 THEN files ELSE SubSeq(files, 1, end)
  BY DEF Through, SelectInSeq
<1>2. Len(files) \in Nat /\ I \in SUBSET (1 .. Len(files))
  OBVIOUS
<1>3. CASE I = {}
  <2>1. Through(types) = files
    BY <1>1, <1>3
  <2>2. \A i \in 1 .. Len(files) - 1 : files[i].type \notin types
    BY <1>2, <1>3
  <2>. QED  BY <1>2, <2>1, <2>2
<1>4. CASE I # {}
  <2>. HIDE DEF I
  <2>1. PICK k \in I : k = Min(I) /\ \A j \in I : k <= j
    BY <1>2, <1>4, LeastIn
  <2>2. k \in 1 .. Len(files) /\ files[k].type \in types
    BY <2>1 DEF I
  <2>3. Through(types) = SubSeq(files, 1, k)
    BY <1>1, <1>4, <2>1, <2>2
  <2>4. \A i \in 1 .. k - 1 : files[i].type \notin types
    <3>1. ASSUME NEW i \in 1 .. k - 1 PROVE files[i].type \notin types
      <4>1. i \in 1 .. Len(files) /\ ~(k <= i)
        BY <1>2, <2>2
      <4>. QED  BY <2>1, <4>1 DEF I
    <3>. QED  BY <3>1
  <2>5. k + 1 \in 1 .. Len(files) + 1 /\ (k + 1) - 1 = k
    BY <1>2, <2>2
  <2>6. /\ Through(types) \in Seq(Node) /\ Len(Through(types)) = k
        /\ \A i \in 1 .. k : Through(types)[i] = files[i]
    BY <2>3, <2>5, FirstOnes
  <2>. QED  BY <1>2, <2>2, <2>4, <2>6
<1>. QED  BY <1>3, <1>4

\* Files after one whose type was an end of line mean nothing.
LEMMA MeantCut ==
  ASSUME NEW all \in Seq(File), NEW seen \in Seq(File), Len(seen) <= Len(all),
         \A i \in 1 .. Len(seen) : seen[i] = all[i],
         Len(seen) < Len(all) => Len(seen) > 0 /\ all[Len(seen)].type = NewLine
  PROVE  Meant(all) = Meant(seen)
<1>. DEFINE n == Len(all)
            m == Len(seen)
<1>1. n \in Nat /\ m \in Nat /\ m <= n
  OBVIOUS
<1>2. PICK g \in [0 .. n -> Seq(Entry)] :
        /\ g[0] = <<>> /\ Meant(all) = g[n]
        /\ \A i \in 1 .. n :
             g[i] = IF Unseen(all, i) \/ ~Opened(all[i]) THEN g[i - 1]
                    ELSE Append(g[i - 1], MeantBy(all[i]))
  BY MeantIs
<1>3. PICK h \in [0 .. m -> Seq(Entry)] :
        /\ h[0] = <<>> /\ Meant(seen) = h[m]
        /\ \A i \in 1 .. m :
             h[i] = IF Unseen(seen, i) \/ ~Opened(seen[i]) THEN h[i - 1]
                    ELSE Append(h[i - 1], MeantBy(seen[i]))
  BY MeantIs
<1>4. ASSUME NEW i \in 1 .. m
      PROVE  seen[i] = all[i] /\ (Unseen(seen, i) <=> Unseen(all, i))
  <2>1. \A j \in 1 .. i - 1 : seen[j] = all[j]
    BY <1>1
  <2>2. Unseen(seen, i) <=> Unseen(all, i)
    BY <2>1, Zenon DEF Unseen
  <2>. QED  BY <2>2
<1>5. \A i \in m + 1 .. n : Unseen(all, i)
  BY <1>1 DEF Unseen
<1>. HIDE DEF n, m
<1>6. g[m] = h[m]
  <2>. DEFINE T == {k \in 0 .. m : g[k] = h[k]}
  <2>1. 0 \in T
    BY <1>1, <1>2, <1>3
  <2>2. ASSUME NEW k \in 1 .. m, k - 1 \in T PROVE k \in T
    <3>1. k \in 1 .. n /\ k \in 0 .. m
      BY <1>1
    <3>2. g[k] = IF Unseen(all, k) \/ ~Opened(all[k]) THEN g[k - 1]
                 ELSE Append(g[k - 1], MeantBy(all[k]))
      BY <1>2, <3>1
    <3>3. h[k] = IF Unseen(seen, k) \/ ~Opened(seen[k]) THEN h[k - 1]
                 ELSE Append(h[k - 1], MeantBy(seen[k]))
      BY <1>3
    <3>4. g[k - 1] = h[k - 1]
      BY <2>2
    <3>5. g[k] = h[k]
      BY <1>4, <3>2, <3>3, <3>4
    <3>. QED  BY <3>1, <3>5
  <2>3. \A k \in 0 .. m : k \in T
    <3>. HIDE DEF T
    <3>. QED  BY <1>1, <2>1, <2>2, CountUp
  <2>. QED  BY <1>1, <2>3
<1>7. g[n] = g[m]
  <2>. DEFINE T == {k \in 0 .. n : k >= m => g[k] = g[m]}
  <2>1. 0 \in T
    BY <1>1
  <2>2. ASSUME NEW k \in 1 .. n, k - 1 \in T PROVE k \in T
    <3>1. CASE k <= m
      BY <1>1, <3>1
    <3>2. CASE k > m
      <4>1. k \in m + 1 .. n /\ k - 1 >= m
        BY <1>1, <3>2
      <4>2. g[k] = g[k - 1]
        BY <1>2, <1>5, <4>1
      <4>3. g[k - 1] = g[m]
        BY <2>2, <4>1
      <4>. QED  BY <1>1, <4>2, <4>3
    <3>. QED  BY <1>1, <3>1, <3>2
  <2>3. \A k \in 0 .. n : k \in T
    <3>. HIDE DEF T
    <3>. QED  BY <1>1, <2>1, <2>2, CountUp
  <2>. QED  BY <1>1, <2>3
<1>. QED  BY <1>2, <1>3, <1>6, <1>7

\* What is written of a list is of the same meaning as the list.
LEMMA TextMeant ==
  ASSUME files \in Seq(Node)
  PROVE  Text \in Seq(Line) /\ Accepted(Text) = MeantHere
<1>. DEFINE all == Shown(Through({NUL}))
            seen == Shown(Through({NewLine, NUL}))
<1>1. Text = TextOf(all)
  BY DEF Text, Through, SelectInSeq, Shown
<1>2. MeantHere = Meant(seen)
  BY DEF MeantHere, Through, SelectInSeq, Shown
<1>3. PICK n \in 0 .. Len(files) :
        /\ Through({NUL}) \in Seq(Node) /\ Len(Through({NUL})) = n
        /\ \A i \in 1 .. n : Through({NUL})[i] = files[i]
        /\ \A i \in 1 .. n - 1 : files[i].type \notin {NUL}
        /\ n < Len(files) => n > 0 /\ files[n].type \in {NUL}
  BY ThroughIs
<1>4. PICK m \in 0 .. Len(files) :
        /\ Through({NewLine, NUL}) \in Seq(Node) /\ Len(Through({NewLine, NUL})) = m
        /\ \A i \in 1 .. m : Through({NewLine, NUL})[i] = files[i]
        /\ \A i \in 1 .. m - 1 : files[i].type \notin {NewLine, NUL}
        /\ m < Len(files) => m > 0 /\ files[m].type \in {NewLine, NUL}
  BY ThroughIs
<1>5. /\ all \in Seq(File) /\ Len(all) = n
      /\ \A i \in 1 .. n : all[i] = FileOf(files[i])
  <2>1. DOMAIN Through({NUL}) = 1 .. n
    BY <1>3
  <2>. QED  BY <1>3, <2>1, ShownType DEF Shown
<1>6. /\ seen \in Seq(File) /\ Len(seen) = m
      /\ \A i \in 1 .. m : seen[i] = FileOf(files[i])
  <2>1. DOMAIN Through({NewLine, NUL}) = 1 .. m
    BY <1>4
  <2>. QED  BY <1>4, <2>1, ShownType DEF Shown
<1>. HIDE DEF all, seen
<1>7. Len(files) \in Nat
  OBVIOUS
<1>8. m <= n
  <2>1. ASSUME n < m PROVE FALSE
    <3>1. n > 0 /\ files[n].type \in {NUL} /\ n \in 1 .. m - 1
      BY <1>3, <1>7, <2>1
    <3>. QED  BY <1>4, <3>1
  <2>. QED  BY <1>7, <2>1
<1>9. m < n => m > 0 /\ all[m].type = NewLine
  <2>1. ASSUME m < n PROVE m > 0 /\ files[m].type = NewLine
    <3>1. m > 0 /\ files[m].type \in {NewLine, NUL} /\ m \in 1 .. n - 1
      BY <1>4, <1>7, <2>1
    <3>. QED  BY <1>3, <3>1
  <2>2. \A node : node.type = NewLine => FileOf(node).type = NewLine
    BY DEF FileOf
  <2>. QED  BY <1>5, <1>7, <2>1, <2>2
<1>10. Meant(all) = Meant(seen)
  <2>1. \A i \in 1 .. Len(seen) : seen[i] = all[i]
    BY <1>5, <1>6, <1>7, <1>8
  <2>. QED  BY <1>5, <1>6, <1>8, <1>9, <2>1, MeantCut
<1>. QED  BY <1>1, <1>2, <1>5, <1>10, TextType, TextUnderstood

\* The list is written, and the kernel takes it, refuses it or kills the program.
LEMMA RefreshInv ==
  ASSUME IInv, refreshFileList
  PROVE  IInv'
<1>. USE DEF IInv
<1>1. /\ pc = "refresh" /\ UNCHANGED <<child, stdin, eof, command, path, files, operator>>
      /\ \/ pc' = "menu" /\ UNCHANGED <<rules, taken>>
         \/ pc' = "killed" /\ rules' = <<>> /\ UNCHANGED taken
         \/ pc' = "menu" /\ rules' = Accepted(Text) /\ taken' = TRUE
  BY DEF refreshFileList, Goto
<1>2. ~taken
  BY <1>1 DEF Taken
<1>3. Text' = Text
  BY <1>1 DEF Text, SelectInSeq
<1>4. rules' \in Seq(Entry)
  <2>1. rules \in Seq(Entry) /\ files \in Seq(Node)
    BY DEF TypeOK
  <2>2. Accepted(Text) \in Seq(Entry) /\ <<>> \in Seq(Entry)
    BY <2>1, TextMeant, AcceptedType
  <2>. QED  BY <1>1, <2>1, <2>2
<1>5. TypeOK'
  BY <1>1, <1>4 DEF TypeOK, Waits, Reads
<1>6. Together'
  <2>1. ASSUME ~stray PROVE files = asked /\ Drained /\ ~eof
    BY <1>1, <2>1 DEF Together, AtRefresh
  <2>2. ASSUME ~stray PROVE Of(Digit)'
    <3>1. stdin' = <<NewLine>>
      BY <1>1, <2>1, <2>2 DEF Drained
    <3>2. Len(stdin') = 1
      BY <3>1
    <3>. QED  BY <3>2 DEF Of
  <2>3. ~stray => AtMenu'
    BY <1>1, <2>1, <2>2 DEF AtMenu
  <2>4. AtEatPath' /\ AtPath' /\ AtEatType' /\ AtType' /\ AtRefresh' /\ AtStart'
    BY <1>1 DEF AtEatPath, AtPath, AtEatType, AtType, AtRefresh, AtStart
  <2>. QED  BY <1>1, <2>1, <2>3, <2>4 DEF Together
<1>7. Ended' /\ Fed'
  BY <1>1 DEF Ended, Fed
<1>8. Taken'
  <2>1. taken' => rules' = Accepted(Text)
    BY <1>1, <1>2
  <2>. QED  BY <1>1, <1>3, <2>1 DEF Taken
<1>. QED  BY <1>5, <1>6, <1>7, <1>8

-----------------------------------------------------------------------------
(* The theorems.                                                           *)

LEMMA InvHolds == Spec => []IInv
<1>1. IInv /\ [Next]_vars => IInv'
  <2>1. ASSUME IInv, UNCHANGED vars PROVE IInv'
    <3>1. Text' = Text
      BY <2>1 DEF vars, Text, SelectInSeq
    <3>2. Taken'
      BY <2>1, <3>1 DEF vars, IInv, Taken
    <3>3. Together'
      BY <2>1 DEF vars, IInv, Together, AtMenu, AtEatPath, AtPath, AtEatType, AtType,
           AtRefresh, AtStart, Of, Drained
    <3>. QED  BY <2>1, <3>2, <3>3 DEF vars, IInv, TypeOK, Waits, Ended, Fed
  <2>. QED  BY <2>1, AnswerInv, QuietInv, CommandInv, EatInv, PathInv, KindInv, RefreshInv
       DEF Next, Program
<1>. QED  BY <1>1, TypeInit, PTL DEF Spec

\* As long as its operator types a number at the menu and one character for a
\* kind, the list of the program is what was typed (LKM/client.c:147-175), however
\* long the lines are; and main never waits for a character to throw away.
THEOREM UnderstoodAlways == Spec => []Understood
<1>1. IInv => Understood
  BY DEF IInv, Understood, Together, AtMenu
<1>. QED  BY <1>1, InvHolds, PTL

\* Whatever the operator typed, a list the kernel took is enforced as it reads.
THEOREM TakenAsMeant == Spec => []InStep
<1>1. IInv => InStep
  BY TextMeant DEF IInv, InStep, TypeOK, Taken
<1>. QED  BY <1>1, InvHolds, PTL
=============================================================================
