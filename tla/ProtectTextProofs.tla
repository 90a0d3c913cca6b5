--------------------------- MODULE ProtectTextProofs ---------------------------
(***************************************************************************)
(* What create_list makes of a text, line by line, for texts of any        *)
(* length.  RulesOf is a recursive function; the induction that a proof    *)
(* about such a function needs comes first, with what is to be shown of a  *)
(* number said as membership in a set.  The second part is about texts     *)
(* that a manager wrote, and what its operator means by them.              *)
(***************************************************************************)
EXTENDS ManagerText, Integers, SequenceTheorems, WellFoundedInduction, TLAPS

-----------------------------------------------------------------------------
(* Numbers and recursion.                                                  *)

\* A set of natural numbers has a least element.
LEMMA LeastNumber ==
  ASSUME NEW T, T \subseteq Nat, T # {}
  PROVE  \E n \in T : \A m \in T : n <= m
<1>1. PICK n \in T : \A m \in T : <<m, n>> \notin OpToRel(<, Nat)
  BY NatLessThanWellFounded, WFMin
<1>2. ASSUME NEW m \in T PROVE n <= m
  <2>1. m \in Nat /\ n \in Nat
    OBVIOUS
  <2>2. ~ (m < n)
    BY <1>1, <2>1 DEF OpToRel
  <2>. QED  BY <2>1, <2>2
<1>. QED  BY <1>2

\* A set with 0 in it, and with every number up to n whose predecessor is in it,
\* has all the numbers up to n.
LEMMA CountUp ==
  ASSUME NEW n \in Nat, NEW T, 0 \in T,
         \A i \in 1 .. n : i - 1 \in T => i \in T
  PROVE  \A i \in 0 .. n : i \in T
<1>. DEFINE Bad == {i \in 0 .. n : i \notin T}
<1>1. SUFFICES ASSUME Bad # {} PROVE FALSE
  OBVIOUS
<1>2. PICK i \in Bad : \A j \in Bad : i <= j
  <2>1. Bad \subseteq Nat
    OBVIOUS
  <2>. QED  BY <1>1, <2>1, LeastNumber
<1>3. i \in 1 .. n /\ i - 1 \in 0 .. n /\ i - 1 < i
  BY <1>2
<1>4. i - 1 \in T
  BY <1>2, <1>3
<1>. QED  BY <1>2, <1>3, <1>4

\* A function can be given by its value at 0 and a step from each value to the
\* next.
LEMMA ByRecursion ==
  ASSUME NEW S, NEW a \in S, NEW n \in Nat, NEW step \in [1 .. n -> [S -> S]]
  PROVE  \E f \in [0 .. n -> S] :
            f[0] = a /\ \A i \in 1 .. n : f[i] = step[i][f[i - 1]]
<1>. DEFINE Is(f, k) == f[0] = a /\ \A i \in 1 .. k : f[i] = step[i][f[i - 1]]
            T == {k \in 0 .. n : \E f \in [0 .. k -> S] : Is(f, k)}
<1>1. 0 \in T
  <2>. DEFINE f == [i \in 0 .. 0 |-> a]
  <2>1. f \in [0 .. 0 -> S] /\ Is(f, 0)
    OBVIOUS
  <2>. HIDE DEF f, Is
  <2>. QED  BY <2>1
<1>2. ASSUME NEW k \in 1 .. n, k - 1 \in T PROVE k \in T
  <2>1. PICK f \in [0 .. k - 1 -> S] : Is(f, k - 1)
    BY <1>2
  <2>. DEFINE g == [i \in 0 .. k |-> IF i = k THEN step[k][f[k - 1]] ELSE f[i]]
  <2>2. step[k][f[k - 1]] \in S
    <3>1. step[k] \in [S -> S] /\ f[k - 1] \in S
      OBVIOUS
    <3>. QED  BY <3>1
  <2>3. g \in [0 .. k -> S]
    BY <2>2
  <2>4. g[k] = step[k][f[k - 1]] /\ \A i \in 0 .. k - 1 : g[i] = f[i]
    OBVIOUS
  <2>5. ASSUME NEW i \in 1 .. k PROVE g[i] = step[i][g[i - 1]]
    <3>1. i - 1 \in 0 .. k - 1 /\ (i # k => i \in 1 .. k - 1)
      OBVIOUS
    <3>. HIDE DEF g
    <3>. QED  BY <2>1, <2>4, <3>1
  <2>6. Is(g, k)
    <3>1. 0 \in 0 .. k - 1
      OBVIOUS
    <3>. HIDE DEF g
    <3>. QED  BY <2>1, <2>4, <2>5, <3>1
  <2>. HIDE DEF g, Is
  <2>. QED  BY <2>3, <2>6
<1>3. n \in T
  <2>. HIDE DEF T
  <2>1. \A i \in 0 .. n : i \in T
    BY <1>1, <1>2, CountUp
  <2>. QED  BY <2>1
<1>. QED  BY <1>3

-----------------------------------------------------------------------------
(* Lines and rules.                                                        *)

\* What a line becomes is a payload.
LEMMA EntryOfType == ASSUME NEW line \in Line PROVE EntryOf(line) \in Entry
<1>1. protectTypeFromStr(line.letter) \in ProtectType
  BY DEF protectTypeFromStr, ProtectType
<1>2. Lookup[line.path] \in Inode \cup {NULL} /\ line.path \in Path
  BY TextAssumption DEF Line
<1>. QED  BY <1>1, <1>2 DEF EntryOf, Entry

\* The equation of RulesOf, line by line: some function satisfies it.
LEMMA RulesStep ==
  ASSUME NEW text \in Seq(Line)
  PROVE  /\ RulesOf(text) \in [0 .. Len(text) -> Seq(Entry)]
         /\ RulesOf(text)[0] = <<>>
         /\ \A n \in 0 .. Len(text) - 1 :
              RulesOf(text)[n + 1] =
                IF Opens(text[n + 1])
                THEN Append(RulesOf(text)[n], EntryOf(text[n + 1]))
                ELSE RulesOf(text)[n]
<1>. DEFINE Equation(f) ==
       f = [n \in 0 .. Len(text) |->
              IF n = 0 THEN <<>>
              ELSE IF Opens(text[n]) THEN Append(f[n - 1], EntryOf(text[n]))
              ELSE f[n - 1]]
            step == [n \in 1 .. Len(text) |->
                       [r \in Seq(Entry) |->
                          IF Opens(text[n]) THEN Append(r, EntryOf(text[n])) ELSE r]]
<1>1. RulesOf(text) = CHOOSE f : Equation(f)
  BY DEF RulesOf
<1>2. \E f : Equation(f)
  <2>1. step \in [1 .. Len(text) -> [Seq(Entry) -> Seq(Entry)]]
    <3>1. \A n \in 1 .. Len(text) : EntryOf(text[n]) \in Entry
      BY EntryOfType
    <3>. QED  BY <3>1
  <2>2. <<>> \in Seq(Entry) /\ Len(text) \in Nat
    OBVIOUS
  <2>3. PICK f \in [0 .. Len(text) -> Seq(Entry)] :
          f[0] = <<>> /\ \A n \in 1 .. Len(text) : f[n] = step[n][f[n - 1]]
    <3>. DEFINE S == Seq(Entry)
                N == Len(text)
                none == <<>>
    <3>1. none \in S /\ N \in Nat /\ step \in [1 .. N -> [S -> S]]
      BY <2>1, <2>2
    <3>. HIDE DEF step, S, N, none
    <3>2. \E f \in [0 .. N -> S] :
             f[0] = none /\ \A n \in 1 .. N : f[n] = step[n][f[n - 1]]
      BY <3>1, ByRecursion
    <3>. QED  BY <3>2 DEF S, N, none
  <2>4. ASSUME NEW n \in 1 .. Len(text)
        PROVE  f[n] = IF Opens(text[n]) THEN Append(f[n - 1], EntryOf(text[n]))
                      ELSE f[n - 1]
    <3>1. f[n - 1] \in Seq(Entry)
      BY <2>3
    <3>. QED  BY <2>3, <3>1
  <2>. DEFINE Value(n) == IF n = 0 THEN <<>>
                          ELSE IF Opens(text[n]) THEN Append(f[n - 1], EntryOf(text[n]))
                          ELSE f[n - 1]
  <2>5. Equation(f)
    <3>1. ASSUME NEW n \in 0 .. Len(text) PROVE f[n] = Value(n)
      <4>1. CASE n = 0
        BY <2>3, <4>1
      <4>2. CASE n # 0
        <5>1. n \in 1 .. Len(text)
          BY <4>2
        <5>2. f[n] = IF Opens(text[n]) THEN Append(f[n - 1], EntryOf(text[n])) ELSE f[n - 1]
          BY <2>4, <5>1
        <5>. QED  BY <4>2, <5>2
      <4>. QED  BY <4>1, <4>2
    <3>2. f = [n \in 0 .. Len(text) |-> Value(n)]
      <4>. HIDE DEF Value
      <4>. QED  BY <2>3, <3>1
    <3>. QED  BY <3>2
  <2>. HIDE DEF Equation
  <2>. QED  BY <2>5
<1>3. Equation(RulesOf(text))
  <2>. HIDE DEF Equation
  <2>. QED  BY <1>1, <1>2
<1>. DEFINE g == RulesOf(text)
<1>. HIDE DEF g
<1>4. g = [n \in 0 .. Len(text) |->
             IF n = 0 THEN <<>>
             ELSE IF Opens(text[n]) THEN Append(g[n - 1], EntryOf(text[n]))
             ELSE g[n - 1]]
  BY <1>3 DEF g
<1>5. DOMAIN g = 0 .. Len(text) /\ g[0] = <<>>
  BY <1>4
<1>6. ASSUME NEW n \in 0 .. Len(text) - 1
      PROVE  g[n + 1] = IF Opens(text[n + 1]) THEN Append(g[n], EntryOf(text[n + 1]))
                        ELSE g[n]
  <2>1. n + 1 \in 0 .. Len(text) /\ n + 1 # 0 /\ (n + 1) - 1 = n
    OBVIOUS
  <2>. QED  BY <1>4, <2>1
<1>7. \A n \in 0 .. Len(text) : g[n] \in Seq(Entry)
  <2>. DEFINE T == {n \in 0 .. Len(text) : g[n] \in Seq(Entry)}
  <2>1. 0 \in T
    BY <1>5
  <2>2. ASSUME NEW n \in 1 .. Len(text), n - 1 \in T PROVE n \in T
    <3>1. EntryOf(text[n]) \in Entry
      BY EntryOfType
    <3>2. n - 1 \in 0 .. Len(text) - 1 /\ (n - 1) + 1 = n
      OBVIOUS
    <3>3. g[n - 1] \in Seq(Entry)
      BY <2>2
    <3>4. g[n] = IF Opens(text[n]) THEN Append(g[n - 1], EntryOf(text[n])) ELSE g[n - 1]
      BY <1>6, <3>2
    <3>5. g[n] \in Seq(Entry)
      BY <3>1, <3>3, <3>4
    <3>. QED  BY <3>5
  <2>3. \A n \in 0 .. Len(text) : n \in T
    <3>1. Len(text) \in Nat
      OBVIOUS
    <3>. HIDE DEF T
    <3>. QED  BY <2>1, <2>2, <3>1, CountUp
  <2>. QED  BY <2>3
<1>. QED  BY <1>4, <1>5, <1>6, <1>7 DEF g

\* There is a first line without '@', or none: LinesRead is what it should be.
LEMMA LinesReadIs ==
  ASSUME NEW text \in Seq(Line), NEW n \in 0 .. Len(text),
         \A i \in 1 .. n : HasAt(text[i]),
         n < Len(text) => ~HasAt(text[n + 1])
  PROVE  LinesRead(text) = n
<1>1. ASSUME NEW m \in 0 .. Len(text),
             \A i \in 1 .. m : HasAt(text[i]),
             m < Len(text) => ~HasAt(text[m + 1])
      PROVE  m = n
  <2>1. ~ (m < n)
    <3>1. m < n => m + 1 \in 1 .. n /\ m < Len(text)
      OBVIOUS
    <3>. QED  BY <1>1, <3>1
  <2>2. ~ (n < m)
    <3>1. n < m => n + 1 \in 1 .. m /\ n < Len(text)
      OBVIOUS
    <3>. QED  BY <1>1, <3>1
  <2>. QED  BY <2>1, <2>2
<1>. DEFINE Is(m) == /\ \A i \in 1 .. m : HasAt(text[i])
                     /\ m < Len(text) => ~HasAt(text[m + 1])
<1>2. LinesRead(text) = CHOOSE m \in 0 .. Len(text) : Is(m)
  BY DEF LinesRead
<1>3. Is(n) /\ \A m \in 0 .. Len(text) : Is(m) => m = n
  BY <1>1
<1>. QED
  <2>. HIDE DEF Is
  <2>. QED  BY <1>2, <1>3
-----------------------------------------------------------------------------
(* The text of a list and what it means.                                   *)

\* FlattenSeq puts one sequence behind the other.
LEMMA FlattenIs ==
  ASSUME NEW E, NEW seqs, seqs \in Seq(Seq(E))
  PROVE  \E f \in [0 .. Len(seqs) -> Seq(E)] :
            /\ f[0] = <<>> /\ FlattenSeq(seqs) = f[Len(seqs)]
            /\ \A i \in 1 .. Len(seqs) : f[i] = f[i - 1] \o seqs[i]
<1>. DEFINE n == Len(seqs)
            Q == Seq(E)
            none == <<>>
            step == [i \in 1 .. n |-> [q \in Q |-> q \o seqs[i]]]
<1>1. n \in Nat /\ none \in Q /\ \A i \in 1 .. n : seqs[i] \in Q
  OBVIOUS
<1>2. \A i \in 1 .. n : \A q \in Q : q \o seqs[i] \in Q
  BY <1>1
<1>. HIDE DEF n, Q, none
<1>3. n \in Nat /\ none \in Q /\ step \in [1 .. n -> [Q -> Q]]
  BY <1>1, <1>2
<1>. HIDE DEF step
<1>4. \E f \in [0 .. n -> Q] : f[0] = none /\ \A i \in 1 .. n : f[i] = step[i][f[i - 1]]
  BY ONLY <1>3, ByRecursion
<1>5. PICK f \in [0 .. n -> Q] : f[0] = none /\ \A i \in 1 .. n : f[i] = step[i][f[i - 1]]
  BY <1>4
<1>6. ASSUME NEW i \in 1 .. n PROVE f[i] = f[i - 1] \o seqs[i]
  <2>1. f[i - 1] \in Q
    BY <1>1, <1>5
  <2>. QED  BY <1>5, <2>1 DEF step
<1>7. f \in [0 .. n -> Q] /\ f[0] = <<>> /\ \A i \in 1 .. n : f[i] = f[i - 1] \o seqs[i]
  BY <1>5, <1>6 DEF none
<1>. USE DEF n, Q
<1>. DEFINE Value(h, i) == IF i = 1 THEN seqs[i] ELSE h[i - 1] \o seqs[i]
            Equation(h) == h = [i \in 1 .. n |-> Value(h, i)]
<1>8. \A i \in 0 .. n : f[i] \in Q
  <2>. HIDE DEF Q, n
  <2>. QED  BY <1>7
<1>9. ASSUME NEW i \in 1 .. n PROVE f[i] = f[i - 1] \o seqs[i]
  BY <1>7
<1>10. n # 0 => f[1] = seqs[1]
  <2>1. n # 0 => seqs[1] \in Q /\ <<>> \o seqs[1] = seqs[1] /\ 1 \in 1 .. n
    BY <1>1
  <2>2. 1 - 1 = 0
    OBVIOUS
  <2>. HIDE DEF Q, n
  <2>. QED  BY <1>7, <1>9, <2>1, <2>2
<1>11. CASE n = 0
  <2>1. FlattenSeq(seqs) = seqs /\ seqs = <<>>
    BY <1>11, EmptySeq DEF FlattenSeq
  <2>2. FlattenSeq(seqs) = f[n]
    BY <1>7, <1>11, <2>1
  <2>. QED  BY <1>7, <1>9, <2>2
<1>12. CASE n # 0
  <2>1. FlattenSeq(seqs) = (CHOOSE h : Equation(h))[n]
    BY <1>12 DEF FlattenSeq
  <2>. DEFINE k == [i \in 1 .. n |-> f[i]]
  <2>2. ASSUME NEW i \in 1 .. n PROVE k[i] = Value(k, i)
    <3>1. CASE i = 1
      <4>1. k[1] = f[1] /\ Value(k, 1) = seqs[1]
        BY <2>2, <3>1
      <4>. QED  BY <1>10, <1>12, <3>1, <4>1
    <3>2. CASE i # 1
      <4>1. i - 1 \in 1 .. n /\ k[i - 1] = f[i - 1]
        BY <1>1, <3>2
      <4>. QED  BY <1>9, <3>2, <4>1
    <3>. QED  BY <3>1, <3>2
  <2>3. Equation(k)
    <3>. HIDE DEF Value
    <3>. QED  BY <2>2
  <2>4. ASSUME NEW h, Equation(h) PROVE h[n] = f[n]
    <3>. DEFINE T == {i \in 0 .. n : i > 0 => h[i] = f[i]}
    <3>1. \A i \in 1 .. n : h[i] = Value(h, i)
      <4>. HIDE DEF Value
      <4>. QED  BY <2>4
    <3>2. 0 \in T
      BY <1>1
    <3>3. ASSUME NEW i \in 1 .. n, i - 1 \in T PROVE i \in T
      <4>1. CASE i = 1
        <5>1. h[i] = seqs[1]
          BY <3>1, <4>1
        <5>. QED  BY <1>10, <1>12, <4>1, <5>1
      <4>2. CASE i # 1
        <5>1. h[i - 1] = f[i - 1]
          BY <3>3, <4>2
        <5>2. h[i] = h[i - 1] \o seqs[i]
          BY <3>1, <4>2
        <5>3. h[i] = f[i]
          BY <1>9, <5>1, <5>2
        <5>. QED  BY <5>3
      <4>. QED  BY <4>1, <4>2
    <3>4. \A i \in 0 .. n : i \in T
      <4>. HIDE DEF T, n
      <4>. QED  BY <1>1, <3>2, <3>3, CountUp
    <3>5. n \in 0 .. n /\ n > 0
      BY <1>1, <1>12
    <3>. QED  BY <3>4, <3>5
  <2>5. FlattenSeq(seqs) = f[n]
    <3>. HIDE DEF Equation, k
    <3>. QED  BY <2>1, <2>3, <2>4
  <2>. QED  BY <1>7, <1>9, <2>5
<1>. QED  BY <1>11, <1>12

\* A file becomes a line, or a line and a bit.
LEMMA LinesType == ASSUME NEW f \in File PROVE LinesOf(f) \in Seq(Line)
<1>1. f.path \in Path /\ (f.type # NewLine => f.type \in Letter)
  BY DEF File
<1>2. /\ [path |-> f.path, letter |-> ""] \in Line /\ [path |-> "", letter |-> NULL] \in Line
      /\ f.type # NewLine => [path |-> f.path, letter |-> f.type] \in Line
  BY <1>1, TextAssumption DEF Line, Letter
<1>3. CASE f.type = NewLine
  <2>. DEFINE a == [path |-> f.path, letter |-> ""]
              b == [path |-> "", letter |-> NULL]
  <2>1. LinesOf(f) = <<a, b>>
    BY <1>3 DEF LinesOf
  <2>2. a \in Line /\ b \in Line
    BY <1>2
  <2>. HIDE DEF a, b
  <2>. QED  BY <2>1, <2>2
<1>4. CASE f.type # NewLine
  <2>. DEFINE a == [path |-> f.path, letter |-> f.type]
  <2>1. LinesOf(f) = <<a>>
    BY <1>4 DEF LinesOf
  <2>2. a \in Line
    BY <1>2, <1>4
  <2>. HIDE DEF a
  <2>. QED  BY <2>1, <2>2
<1>. QED  BY <1>3, <1>4

LEMMA TextIs ==
  ASSUME NEW files, files \in Seq(File)
  PROVE  \E f \in [0 .. Len(files) -> Seq(Line)] :
            /\ f[0] = <<>> /\ TextOf(files) = f[Len(files)]
            /\ \A i \in 1 .. Len(files) : f[i] = f[i - 1] \o LinesOf(files[i])
<1>. DEFINE seqs == [i \in DOMAIN files |-> LinesOf(files[i])]
<1>1. DOMAIN files = 1 .. Len(files) /\ \A i \in 1 .. Len(files) : files[i] \in File
  OBVIOUS
<1>2. /\ seqs \in Seq(Seq(Line)) /\ Len(seqs) = Len(files)
      /\ \A i \in 1 .. Len(files) : seqs[i] = LinesOf(files[i])
  <2>1. \A i \in 1 .. Len(files) : LinesOf(files[i]) \in Seq(Line)
    BY <1>1, LinesType
  <2>2. Len(files) \in Nat
    OBVIOUS
  <2>. QED  BY <1>1, <2>1, <2>2
<1>3. TextOf(files) = FlattenSeq(seqs)
  BY DEF TextOf
<1>. HIDE DEF seqs
<1>4. \E f \in [0 .. Len(seqs) -> Seq(Line)] :
            /\ f[0] = <<>> /\ FlattenSeq(seqs) = f[Len(seqs)]
            /\ \A i \in 1 .. Len(seqs) : f[i] = f[i - 1] \o seqs[i]
  <2>1. seqs \in Seq(Seq(Line))
    BY <1>2
  <2>. QED  BY ONLY <2>1, FlattenIs
<1>. QED  BY <1>2, <1>3, <1>4

LEMMA TextType == ASSUME NEW files \in Seq(File) PROVE TextOf(files) \in Seq(Line)
<1>1. PICK f \in [0 .. Len(files) -> Seq(Line)] : TextOf(files) = f[Len(files)]
  BY TextIs
<1>2. Len(files) \in 0 .. Len(files)
  OBVIOUS
<1>. QED  BY <1>1, <1>2

\* The loop of create_list ends at the first line without '@', if there is one.
LEMMA LinesReadIn ==
  ASSUME NEW text \in Seq(Line)
  PROVE  LinesRead(text) \in 0 .. Len(text)
<1>. DEFINE T == {n \in 0 .. Len(text) : n < Len(text) => ~HasAt(text[n + 1])}
<1>1. Len(text) \in Nat /\ T \subseteq Nat /\ Len(text) \in T
  OBVIOUS
<1>2. PICK n \in T : \A k \in T : n <= k
  BY <1>1, LeastNumber
<1>3. ASSUME NEW i \in 1 .. n PROVE HasAt(text[i])
  <2>1. i - 1 \in 0 .. Len(text) /\ i - 1 < Len(text) /\ (i - 1) + 1 = i
    BY <1>1, <1>2
  <2>2. n \in Nat /\ ~(n <= i - 1)
    BY <1>1, <1>2
  <2>3. i - 1 \notin T
    <3>. HIDE DEF T
    <3>. QED  BY <1>2, <2>2
  <2>. QED  BY <2>1, <2>3
<1>4. n \in 0 .. Len(text) /\ (n < Len(text) => ~HasAt(text[n + 1]))
  BY <1>2
<1>. HIDE DEF T
<1>. QED  BY <1>3, <1>4, LinesReadIs

LEMMA AcceptedType == ASSUME NEW text \in Seq(Line) PROVE Accepted(text) \in Seq(Entry)
<1>1. LinesRead(text) \in 0 .. Len(text) /\ RulesOf(text) \in [0 .. Len(text) -> Seq(Entry)]
  BY LinesReadIn, RulesStep
<1>. QED  BY <1>1 DEF Accepted

\* A newline for a letter comes before file n.
Unseen(files, n) == \E i \in 1 .. n - 1 : files[i].type = NewLine
Opened(f) == f.path # "" /\ Lookup[f.path] # NULL

LEMMA MeantByType == ASSUME NEW f \in File PROVE MeantBy(f) \in Entry
<1>1. f.path \in Path /\ Lookup[f.path] \in Inode \cup {NULL}
  BY TextAssumption DEF File
<1>2. (IF f.type = NewLine THEN "none" ELSE protectTypeFromStr(f.type)) \in ProtectType
  BY DEF protectTypeFromStr, ProtectType
<1>. QED  BY <1>1, <1>2 DEF MeantBy, Entry

\* The equation of Meant, file by file.
LEMMA MeantIs ==
  ASSUME NEW files, files \in Seq(File)
  PROVE  \E g \in [0 .. Len(files) -> Seq(Entry)] :
            /\ g[0] = <<>> /\ Meant(files) = g[Len(files)]
            /\ \A i \in 1 .. Len(files) :
                 g[i] = IF Unseen(files, i) \/ ~Opened(files[i]) THEN g[i - 1]
                        ELSE Append(g[i - 1], MeantBy(files[i]))
<1>. DEFINE n == Len(files)
            Q == Seq(Entry)
            none == <<>>
            Skips(i) == Unseen(files, i) \/ ~Opened(files[i])
            step == [i \in 1 .. n |->
                       [q \in Q |-> IF Skips(i) THEN q ELSE Append(q, MeantBy(files[i]))]]
            Value(h, i) == IF i = 0 THEN <<>>
                           ELSE IF Skips(i) THEN h[i - 1]
                           ELSE Append(h[i - 1], MeantBy(files[i]))
            Equation(h) == h = [i \in 0 .. n |-> Value(h, i)]
<1>1. n \in Nat /\ none \in Q /\ \A i \in 1 .. n : files[i] \in File
  OBVIOUS
<1>2. \A i \in 1 .. n : \A q \in Q : Append(q, MeantBy(files[i])) \in Q
  BY <1>1, MeantByType
<1>3. Meant(files) = (CHOOSE h : Equation(h))[n]
  BY DEF Meant, Unseen, Opened
<1>. HIDE DEF n, Q, none, Skips
<1>4. n \in Nat /\ none \in Q /\ step \in [1 .. n -> [Q -> Q]]
  BY <1>1, <1>2
<1>. HIDE DEF step
<1>5. \E g \in [0 .. n -> Q] : g[0] = none /\ \A i \in 1 .. n : g[i] = step[i][g[i - 1]]
  BY ONLY <1>4, ByRecursion
<1>6. PICK g \in [0 .. n -> Q] : g[0] = none /\ \A i \in 1 .. n : g[i] = step[i][g[i - 1]]
  BY <1>5
<1>7. ASSUME NEW i \in 1 .. n
      PROVE  g[i] = IF Skips(i) THEN g[i - 1] ELSE Append(g[i - 1], MeantBy(files[i]))
  <2>1. g[i - 1] \in Q
    BY <1>1, <1>6
  <2>. QED  BY <1>6, <2>1 DEF step
<1>8. ASSUME NEW i \in 0 .. n PROVE g[i] = Value(g, i)
  <2>1. CASE i = 0
    BY <1>6, <2>1 DEF none
  <2>2. CASE i # 0
    <3>1. i \in 1 .. n
      BY <1>1, <2>2
    <3>. QED  BY <1>7, <2>2, <3>1
  <2>. QED  BY <2>1, <2>2
<1>9. Equation(g)
  <2>. HIDE DEF Value
  <2>. QED  BY <1>6, <1>8
<1>10. ASSUME NEW h, Equation(h) PROVE h[n] = g[n]
  <2>. DEFINE T == {i \in 0 .. n : h[i] = g[i]}
  <2>1. ASSUME NEW i \in 0 .. n PROVE h[i] = Value(h, i)
    <3>. HIDE DEF Value
    <3>. QED  BY <1>10
  <2>2. 0 \in T
    <3>1. 0 \in 0 .. n
      BY <1>1
    <3>2. h[0] = <<>>
      BY <2>1, <3>1
    <3>. QED  BY <1>6, <3>1, <3>2 DEF none
  <2>3. ASSUME NEW i \in 1 .. n, i - 1 \in T PROVE i \in T
    <3>1. i \in 0 .. n /\ i # 0 /\ h[i - 1] = g[i - 1]
      BY <1>1, <2>3
    <3>2. h[i] = IF Skips(i) THEN h[i - 1] ELSE Append(h[i - 1], MeantBy(files[i]))
      BY <2>1, <3>1
    <3>3. h[i] = g[i]
      BY <1>7, <3>1, <3>2
    <3>. QED  BY <3>1, <3>3
  <2>4. \A i \in 0 .. n : i \in T
    <3>. HIDE DEF T
    <3>. QED  BY <1>1, <2>2, <2>3, CountUp
  <2>. QED  BY <1>1, <2>4
<1>11. Meant(files) = g[n]
  <2>. HIDE DEF Equation
  <2>. QED  BY <1>3, <1>9, <1>10
<1>. QED  BY <1>6, <1>7, <1>11 DEF n, Q, none, Skips

\* The first line a file is written as.
HeadLine(f) == [path |-> f.path, letter |-> IF f.type = NewLine THEN "" ELSE f.type]

\* Up to some file, line and file agree; after it the text has a line without
\* '@', and no later file is seen.
Cut(files, text, n, m) ==
  /\ m \in 0 .. n /\ m <= Len(text)
  /\ \A k \in 1 .. m : text[k] = HeadLine(files[k]) /\ ~Unseen(files, k)
  /\ \A k \in m + 1 .. n : Unseen(files, k)
  /\ \/ m = n /\ Len(text) = m /\ \A k \in 1 .. n : files[k].type # NewLine
     \/ /\ Len(text) > m /\ text[m + 1].letter = NULL
        /\ \E k \in 1 .. m : files[k].type = NewLine

\* One file more: after the cut nothing changes.
LEMMA CutAfter ==
  ASSUME NEW files \in Seq(File), NEW i \in 1 .. Len(files),
         NEW s \in Seq(Line), NEW m, Cut(files, s, i - 1, m),
         \E k \in 1 .. m : files[k].type = NewLine, Len(s) > m,
         NEW r \in Seq(Line)
  PROVE  Cut(files, s \o r, i, m)
<1>. DEFINE t == s \o r
<1>1. Len(t) = Len(s) + Len(r) /\ \A k \in 1 .. Len(s) : t[k] = s[k]
  OBVIOUS
<1>2. m \in 0 .. i - 1 /\ Len(s) \in Nat /\ Len(r) \in Nat
  BY DEF Cut
<1>3. Unseen(files, i)
  BY <1>2 DEF Unseen
<1>. HIDE DEF t
<1>4. m \in 0 .. i /\ m <= Len(t) /\ Len(t) > m
  BY <1>1, <1>2
<1>5. \A k \in 1 .. m : t[k] = HeadLine(files[k]) /\ ~Unseen(files, k)
  <2>1. \A k \in 1 .. m : s[k] = HeadLine(files[k]) /\ ~Unseen(files, k)
    BY DEF Cut
  <2>2. \A k \in 1 .. m : k \in 1 .. Len(s)
    BY <1>2
  <2>. QED  BY <1>1, <2>1, <2>2
<1>6. \A k \in m + 1 .. i : Unseen(files, k)
  <2>1. \A k \in m + 1 .. i - 1 : Unseen(files, k)
    BY DEF Cut
  <2>. QED  BY <1>2, <1>3, <2>1
<1>7. t[m + 1].letter = NULL
  <2>1. s[m + 1].letter = NULL
    BY <1>2 DEF Cut
  <2>. QED  BY <1>1, <1>2, <2>1
<1>. QED  BY <1>4, <1>5, <1>6, <1>7 DEF Cut, t

\* Before it, the file adds its line, and a newline makes the cut.
LEMMA CutBefore ==
  ASSUME NEW files, files \in Seq(File), NEW i \in 1 .. Len(files),
         NEW s \in Seq(Line), Cut(files, s, i - 1, i - 1), Len(s) = i - 1,
         \A k \in 1 .. i - 1 : files[k].type # NewLine
  PROVE  Cut(files, s \o LinesOf(files[i]), i, i)
<1>. DEFINE f == files[i]
            r == LinesOf(f)
            t == s \o r
<1>1. r \in Seq(Line) /\ s \in Seq(Line) /\ i \in Nat /\ i > 0 /\ f = files[i]
  <2>1. f \in File /\ i \in Nat /\ i > 0
    OBVIOUS
  <2>. QED  BY <2>1, LinesType
<1>. HIDE DEF f
<1>2. /\ Len(r) \in Nat /\ Len(r) >= 1 /\ r[1] = HeadLine(f)
      /\ f.type = NewLine => Len(r) = 2 /\ r[2].letter = NULL
      /\ f.type # NewLine => Len(r) = 1
  <2>1. CASE f.type = NewLine
    <3>. DEFINE a == [path |-> f.path, letter |-> ""]
                b == [path |-> "", letter |-> NULL]
    <3>1. r = <<a, b>> /\ HeadLine(f) = a /\ b.letter = NULL
      BY <2>1 DEF LinesOf, HeadLine
    <3>. HIDE DEF a, b, r
    <3>2. Len(r) = 2 /\ r[1] = a /\ r[2] = b
      BY <3>1
    <3>. QED  BY <2>1, <3>1, <3>2
  <2>2. CASE f.type # NewLine
    <3>. DEFINE a == [path |-> f.path, letter |-> f.type]
    <3>1. r = <<a>> /\ HeadLine(f) = a
      BY <2>2 DEF LinesOf, HeadLine
    <3>. HIDE DEF a, r
    <3>2. Len(r) = 1 /\ r[1] = a
      BY <3>1
    <3>. QED  BY <2>2, <3>1, <3>2
  <2>. QED  BY <2>1, <2>2
<1>. HIDE DEF r
<1>3. /\ Len(t) = Len(s) + Len(r)
      /\ \A k \in 1 .. Len(s) : t[k] = s[k]
      /\ \A k \in 1 .. Len(r) : t[Len(s) + k] = r[k]
  BY ONLY <1>1
<1>. HIDE DEF t
<1>9. Len(s) = i - 1 /\ Len(t) = (i - 1) + Len(r)
  BY <1>3
<1>4. ~Unseen(files, i)
  BY DEF Unseen
<1>5. \A k \in 1 .. i : t[k] = HeadLine(files[k]) /\ ~Unseen(files, k)
  <2>1. \A k \in 1 .. i - 1 : s[k] = HeadLine(files[k]) /\ ~Unseen(files, k)
    BY DEF Cut
  <2>2. t[i] = HeadLine(files[i])
    <3>1. t[(i - 1) + 1] = r[1]
      BY <1>2, <1>3, <1>9
    <3>2. (i - 1) + 1 = i
      BY <1>1
    <3>. QED  BY <1>1, <1>2, <3>1, <3>2
  <2>3. \A k \in 1 .. i : k = i \/ k \in 1 .. i - 1
    BY <1>1
  <2>4. \A k \in 1 .. i - 1 : t[k] = s[k]
    BY <1>1, <1>3
  <2>. QED  BY <1>4, <2>1, <2>2, <2>3, <2>4
<1>6. i \in 0 .. i /\ i <= Len(t) /\ \A k \in i + 1 .. i : Unseen(files, k)
  BY <1>1, <1>2, <1>3
<1>7. CASE f.type = NewLine
  <2>0. Len(r) = 2 /\ r[2].letter = NULL
    BY <1>2, <1>7
  <2>1. Len(t) > i
    BY ONLY <1>1, <1>9, <2>0
  <2>2. t[i + 1].letter = NULL
    <3>1. (i - 1) + 2 = i + 1 /\ 2 \in 1 .. Len(r)
      BY ONLY <1>1, <2>0
    <3>2. t[i + 1] = r[2]
      BY <1>3, <3>1
    <3>. QED  BY <1>2, <1>7, <3>2
  <2>3. \E k \in 1 .. i : files[k].type = NewLine
    <3>1. i \in 1 .. i
      BY <1>1
    <3>. QED  BY <1>1, <1>7, <3>1
  <2>. QED  BY <1>1, <1>5, <1>6, <2>1, <2>2, <2>3 DEF Cut, t, r, f
<1>8. CASE f.type # NewLine
  <2>0. Len(r) = 1
    BY <1>2, <1>8
  <2>1. Len(t) = i
    BY ONLY <1>1, <1>9, <2>0
  <2>2. \A k \in 1 .. i : files[k].type # NewLine
    <3>1. \A k \in 1 .. i : k = i \/ k \in 1 .. i - 1
      BY <1>1
    <3>. QED  BY <1>1, <1>8, <3>1
  <2>. QED  BY <1>1, <1>5, <1>6, <2>1, <2>2 DEF Cut, t, r, f
<1>. QED  BY <1>7, <1>8

LEMMA TextCut ==
  ASSUME NEW files \in Seq(File)
  PROVE  \E m \in 0 .. Len(files) : Cut(files, TextOf(files), Len(files), m)
<1>. DEFINE n == Len(files)
<1>1. PICK f \in [0 .. n -> Seq(Line)] :
        /\ f[0] = <<>> /\ TextOf(files) = f[n]
        /\ \A i \in 1 .. n : f[i] = f[i - 1] \o LinesOf(files[i])
  BY TextIs
<1>2. n \in Nat
  OBVIOUS
<1>. DEFINE T == {i \in 0 .. n : \E m \in 0 .. i : Cut(files, f[i], i, m)}
<1>3. 0 \in T
  <2>1. f[0] \in Seq(Line) /\ Len(f[0]) = 0
    BY <1>1, <1>2
  <2>2. Cut(files, f[0], 0, 0)
    BY <2>1 DEF Cut
  <2>. QED  BY <1>2, <2>2
<1>4. ASSUME NEW i \in 1 .. n, i - 1 \in T PROVE i \in T
  <2>. DEFINE s == f[i - 1]
              r == LinesOf(files[i])
  <2>1. s \in Seq(Line) /\ f[i] = s \o r /\ r \in Seq(Line)
    <3>1. i - 1 \in 0 .. n /\ files[i] \in File
      BY <1>2
    <3>2. r \in Seq(Line)
      BY <3>1, LinesType
    <3>. HIDE DEF n, r
    <3>3. s \in Seq(Line)
      BY <1>1, <3>1
    <3>. QED  BY <1>1, <3>2, <3>3 DEF r
  <2>2. PICK m \in 0 .. i - 1 : Cut(files, s, i - 1, m)
    BY <1>4
  <2>. HIDE DEF s
  <2>3. CASE Len(s) > m /\ \E k \in 1 .. m : files[k].type = NewLine
    <3>. HIDE DEF r
    <3>1. Cut(files, s \o r, i, m)
      BY <1>2, <2>1, <2>2, <2>3, CutAfter
    <3>2. m \in 0 .. i /\ i \in 0 .. n
      BY <1>2, <2>2
    <3>. HIDE DEF n
    <3>. QED  BY <2>1, <3>1, <3>2
  <2>4. CASE m = i - 1 /\ Len(s) = m /\ \A k \in 1 .. i - 1 : files[k].type # NewLine
    <3>1. Cut(files, s \o LinesOf(files[i]), i, i)
      BY <1>2, <2>1, <2>2, <2>4, CutBefore
    <3>2. i \in 0 .. i /\ i \in 0 .. n
      BY <1>2, <2>2
    <3>. HIDE DEF n
    <3>. QED  BY <2>1, <3>1, <3>2
  <2>. QED  BY <2>2, <2>3, <2>4 DEF Cut
<1>5. \A i \in 0 .. n : i \in T
  <2>. HIDE DEF T, n
  <2>. QED  BY <1>2, <1>3, <1>4, CountUp
<1>. QED  BY <1>1, <1>2, <1>5

\* The line of a file means to create_list what the file means to the operator.
LEMMA HeadLineMeans ==
  ASSUME NEW f \in File
  PROVE  /\ HasAt(HeadLine(f))
         /\ Opens(HeadLine(f)) <=> Opened(f)
         /\ EntryOf(HeadLine(f)) = MeantBy(f)
<1>1. HeadLine(f).path = f.path /\ (f.type # NewLine => f.type \in Letter)
  BY DEF HeadLine, File
<1>2. CASE f.type = NewLine
  <2>1. HeadLine(f).letter = ""
    BY <1>2 DEF HeadLine
  <2>2. "" # NULL /\ protectTypeFromStr("") = "none"
    BY TextAssumption DEF Letter, protectTypeFromStr
  <2>3. HasAt(HeadLine(f)) /\ EntryOf(HeadLine(f)) = MeantBy(f)
    BY <1>1, <1>2, <2>1, <2>2 DEF HasAt, EntryOf, MeantBy
  <2>. QED  BY <1>1, <2>3 DEF Opens, Opened
<1>3. CASE f.type # NewLine
  <2>1. HeadLine(f).letter = f.type
    BY <1>3 DEF HeadLine
  <2>2. f.type # NULL
    BY <1>1, <1>3, TextAssumption
  <2>3. HasAt(HeadLine(f)) /\ EntryOf(HeadLine(f)) = MeantBy(f)
    BY <1>1, <1>3, <2>1, <2>2 DEF HasAt, EntryOf, MeantBy
  <2>. QED  BY <1>1, <2>3 DEF Opens, Opened
<1>. QED  BY <1>2, <1>3

\* The kernel makes of a manager's text what its operator means by the files.
LEMMA TextUnderstood ==
  ASSUME NEW files, files \in Seq(File)
  PROVE  Accepted(TextOf(files)) = Meant(files)
<1>. DEFINE text == TextOf(files)
            n == Len(files)
            ruled == RulesOf(text)
<1>1. text \in Seq(Line) /\ n \in Nat
  BY TextType
<1>2. PICK m \in 0 .. n : Cut(files, text, n, m)
  BY TextCut
<1>3. PICK g \in [0 .. n -> Seq(Entry)] :
        /\ g[0] = <<>> /\ Meant(files) = g[n]
        /\ \A i \in 1 .. n :
             g[i] = IF Unseen(files, i) \/ ~Opened(files[i]) THEN g[i - 1]
                    ELSE Append(g[i - 1], MeantBy(files[i]))
  BY MeantIs
<1>4. \A k \in 1 .. m : files[k] \in File
  OBVIOUS
<1>. HIDE DEF n, text
<1>5. /\ m <= Len(text) /\ Len(text) \in Nat
      /\ \A k \in 1 .. m : text[k] = HeadLine(files[k]) /\ ~Unseen(files, k)
      /\ \A k \in m + 1 .. n : Unseen(files, k)
      /\ m < Len(text) => text[m + 1].letter = NULL
  <2>1. Len(text) \in Nat
    BY <1>1
  <2>. QED  BY <1>2, <2>1 DEF Cut
<1>6. \A k \in 1 .. m : /\ HasAt(text[k])
                        /\ Opens(text[k]) <=> Opened(files[k])
                        /\ EntryOf(text[k]) = MeantBy(files[k])
  BY <1>4, <1>5, HeadLineMeans
<1>7. LinesRead(text) = m
  <2>1. m \in 0 .. Len(text)
    BY <1>1, <1>5
  <2>2. m < Len(text) => ~HasAt(text[m + 1])
    BY <1>5 DEF HasAt
  <2>3. \A k \in 1 .. m : HasAt(text[k])
    BY <1>6
  <2>. QED  BY <1>1, <2>1, <2>2, <2>3, LinesReadIs
<1>8. /\ ruled[0] = <<>>
      /\ \A k \in 0 .. Len(text) - 1 :
           ruled[k + 1] = IF Opens(text[k + 1])
                           THEN Append(ruled[k], EntryOf(text[k + 1])) ELSE ruled[k]
  BY <1>1, RulesStep
<1>9. Accepted(text) = ruled[m]
  BY <1>7 DEF Accepted
<1>. HIDE DEF ruled
<1>10. ruled[m] = g[m]
  <2>. DEFINE T == {k \in 0 .. m : ruled[k] = g[k]}
  <2>1. 0 \in T /\ m \in Nat
    BY <1>1, <1>3, <1>8
  <2>2. ASSUME NEW k \in 1 .. m, k - 1 \in T PROVE k \in T
    <3>1. k \in 1 .. n /\ k - 1 \in 0 .. Len(text) - 1 /\ (k - 1) + 1 = k /\ k \in 0 .. m
      BY <1>1, <1>5
    <3>2. ruled[k] = IF Opens(text[k]) THEN Append(ruled[k - 1], EntryOf(text[k]))
                      ELSE ruled[k - 1]
      BY <1>8, <3>1
    <3>3. g[k] = IF ~Opened(files[k]) THEN g[k - 1]
                 ELSE Append(g[k - 1], MeantBy(files[k]))
      BY <1>3, <1>5, <3>1
    <3>4. ruled[k - 1] = g[k - 1]
      BY <2>2
    <3>5. ruled[k] = g[k]
      BY <1>6, <3>2, <3>3, <3>4
    <3>. QED  BY <3>1, <3>5
  <2>3. \A k \in 0 .. m : k \in T
    <3>. HIDE DEF T
    <3>. QED  BY <2>1, <2>2, CountUp
  <2>. QED  BY <2>1, <2>3
<1>11. g[n] = g[m]
  <2>. DEFINE T == {k \in 0 .. n : k >= m => g[k] = g[m]}
  <2>1. 0 \in T
    BY <1>1
  <2>2. ASSUME NEW k \in 1 .. n, k - 1 \in T PROVE k \in T
    <3>1. CASE k <= m
      BY <1>1, <3>1
    <3>2. CASE k > m
      <4>1. k \in m + 1 .. n /\ k - 1 >= m
        BY <1>1, <3>2
      <4>2. g[k] = g[k - 1]
        BY <1>3, <1>5, <4>1
      <4>3. g[k - 1] = g[m]
        BY <2>2, <4>1
      <4>. QED  BY <1>1, <4>2, <4>3
    <3>. QED  BY <1>1, <3>1, <3>2
  <2>3. \A k \in 0 .. n : k \in T
    <3>. HIDE DEF T
    <3>. QED  BY <1>1, <2>1, <2>2, CountUp
  <2>. QED  BY <1>1, <2>3
<1>12. Accepted(text) = Meant(files)
  BY <1>3, <1>9, <1>10, <1>11
<1>. QED  BY <1>12 DEF text
=============================================================================
