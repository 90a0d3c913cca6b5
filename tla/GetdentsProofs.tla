---------------------------- MODULE GetdentsProofs ----------------------------
(***************************************************************************)
(* What a program sees of a directory through modified_getdents64, for     *)
(* directories, records and buffers of any size and rules that change      *)
(* between any two records.  The walk by d_reclen is a recursive function  *)
(* over a buffer: what it meets comes first, by induction over offsets.    *)
(* What is hidden, the filter asks is_ino_protected: the last part says of *)
(* InodeLife what its answers mean, for any files, numbers and addresses.  *)
(***************************************************************************)
EXTENDS Getdents, InodeLife, SequenceTheorems, WellFoundedInduction, TLAPS

-----------------------------------------------------------------------------
(* Buffers.                                                                *)

\* The offsets where a record starts.
Starts(b) == {o \in 0 .. Len(b) - 1 : b[o + 1].i # 0}
Between(b, h, e) == {o \in Starts(b) : h <= o /\ o < e}
After(b, o) == o + b[o + 1].len

\* From h to e each record ends where a later one starts, and nothing starts
\* inside it.
Linked(b, h, e) ==
  /\ h < e => h \in Starts(b)
  /\ \A o \in Between(b, h, e) :
       /\ o < After(b, o) /\ After(b, o) <= e
       /\ Between(b, o + 1, After(b, o)) = {}
       /\ After(b, o) < e => /\ After(b, o) \in Starts(b)
                             /\ b[o + 1].i < b[After(b, o) + 1].i

\* The records of the directory up to the last one, as the file system gives them.
Laid(b, last) ==
  /\ b # <<>> /\ Linked(b, 0, Len(b))
  /\ \A o \in Starts(b) :
       LET i == b[o + 1].i IN
       /\ i <= last
       /\ b[o + 1].len = Dir[i].len
       /\ After(b, o) < Len(b) => b[After(b, o) + 1].i = i + 1
       /\ After(b, o) = Len(b) => i = last

-----------------------------------------------------------------------------
(* Induction over offsets.                                                 *)

\* A set of natural numbers has a least element.
LEMMA LeastNumber ==
  ASSUME NEW T, T \subseteq Nat, T # {}
  PROVE  \E n \in T : \A m \in T : n <= m
<1>1. PICK n \in T : \A m \in T : <<m, n>> \notin OpToRel(<, Nat)
  BY ONLY T \subseteq Nat, T # {}, NatLessThanWellFounded, WFMin
<1>2. ASSUME NEW m \in T PROVE n <= m
  <2>1. m \in Nat /\ n \in Nat
    OBVIOUS
  <2>2. ~ (m < n)
    BY ONLY <1>1, <2>1, m \in T DEF OpToRel
  <2>. QED  BY ONLY <2>1, <2>2
<1>. QED  BY <1>2

\* A set that has a number up to n whenever it has all between that number and n
\* has all the numbers up to n.
LEMMA CountDown ==
  ASSUME NEW n \in Nat, NEW T,
         \A o \in 0 .. n : (\A q \in o + 1 .. n : q \in T) => o \in T
  PROVE  \A o \in 0 .. n : o \in T
<1>. DEFINE Bad == {k \in 0 .. n : n - k \notin T}
<1>1. SUFFICES ASSUME Bad # {} PROVE FALSE
  <2>. SUFFICES ASSUME NEW o \in 0 .. n, o \notin T PROVE FALSE
    OBVIOUS
  <2>1. n - o \in 0 .. n /\ n - (n - o) = o
    OBVIOUS
  <2>. QED  BY <1>1, <2>1
<1>2. PICK k \in Bad : \A m \in Bad : k <= m
  <2>1. Bad \subseteq Nat
    OBVIOUS
  <2>. HIDE DEF Bad
  <2>. QED  BY <1>1, <2>1, LeastNumber
<1>3. \A q \in n - k + 1 .. n : q \in T
  <2>. SUFFICES ASSUME NEW q \in n - k + 1 .. n, q \notin T PROVE FALSE
    OBVIOUS
  <2>1. n - q \in 0 .. n /\ n - (n - q) = q /\ n - q < k /\ k \in Nat
    OBVIOUS
  <2>2. n - q \in Bad
    BY <2>1
  <2>. QED  BY <1>2, <2>1, <2>2
<1>4. n - k \in 0 .. n /\ n - k \notin T
  OBVIOUS
<1>. QED  BY <1>3, <1>4

\* A set that has 1 and with each number below n the next one has n.
LEMMA CountUp ==
  ASSUME NEW n \in Nat \ {0}, NEW T, 1 \in T, \A k \in 1 .. n - 1 : k \in T => k + 1 \in T
  PROVE  n \in T
<1>. DEFINE Bad == {k \in 1 .. n : k \notin T}
<1>1. SUFFICES ASSUME Bad # {} PROVE FALSE
  OBVIOUS
<1>2. PICK k \in Bad : \A m \in Bad : k <= m
  <2>1. Bad \subseteq Nat
    OBVIOUS
  <2>. HIDE DEF Bad
  <2>. QED  BY <1>1, <2>1, LeastNumber
<1>3. k \in 1 .. n /\ k \notin T /\ k # 1
  OBVIOUS
<1>4. k - 1 \in 1 .. n - 1 /\ k - 1 \in 1 .. n /\ (k - 1) + 1 = k /\ ~(k <= k - 1)
  BY ONLY <1>3, n \in Nat \ {0}
<1>5. k - 1 \in T
  BY ONLY <1>2, <1>4
<1>. QED  BY ONLY <1>3, <1>4, <1>5, \A i \in 1 .. n - 1 : i \in T => i + 1 \in T

-----------------------------------------------------------------------------
(* The walk.                                                               *)

\* What a cell holds are numbers.
LEMMA CellType ==
  ASSUME NEW b, b \in Seq(Cell), NEW c \in 1 .. Len(b)
  PROVE  /\ b[c] \in Cell
         /\ b[c].i \in Nat /\ b[c].i <= Len(Dir)
         /\ b[c].len \in Nat /\ b[c].len < Short
<1>1. b[c] \in Cell
  OBVIOUS
<1>2. Len(Dir) \in Nat /\ Short \in Nat
  BY GetdentsAssumption
<1>. QED  BY ONLY <1>1, <1>2 DEF Cell

\* What is met from an offset on, given what is met from later ones on.
From(b, f, o) ==
  IF o = Len(b) THEN <<>>
  ELSE LET r == b[o + 1] IN
       IF r.i = 0 THEN <<>>
       ELSE <<r.i>> \o IF r.len = 0 \/ o + r.len > Len(b) THEN <<>> ELSE f[o + r.len]

LEMMA FromType ==
  ASSUME NEW b, b \in Seq(Cell), NEW o \in 0 .. Len(b),
         NEW f, f \in [0 .. Len(b) -> Seq(Nat)]
  PROVE  From(b, f, o) \in Seq(Nat)
<1>. DEFINE n == o + b[o + 1].len
<1>0. Len(b) \in Nat
  OBVIOUS
<1>1. CASE o = Len(b) \/ b[o + 1].i = 0
  BY <1>1 DEF From
<1>2. CASE o # Len(b) /\ b[o + 1].i # 0
  <2>1. o + 1 \in 1 .. Len(b)
    BY <1>2
  <2>2. b[o + 1].i \in Nat /\ b[o + 1].len \in Nat
    BY <2>1, CellType
  <2>3. <<b[o + 1].i>> \in Seq(Nat) /\ <<>> \in Seq(Nat)
    BY <2>2
  <2>4. ~(n > Len(b)) => n \in 0 .. Len(b)
    BY ONLY <2>2, <1>0, o \in 0 .. Len(b)
  <2>. HIDE DEF n
  <2>5. ~(n > Len(b)) => f[n] \in Seq(Nat)
    BY ONLY <2>4, f \in [0 .. Len(b) -> Seq(Nat)]
  <2>6. (IF b[o + 1].len = 0 \/ n > Len(b) THEN <<>> ELSE f[n]) \in Seq(Nat)
    BY ONLY <2>3, <2>5
  <2>7. From(b, f, o) =
          <<b[o + 1].i>> \o IF b[o + 1].len = 0 \/ n > Len(b) THEN <<>> ELSE f[n]
    BY ONLY <1>2 DEF From, n
  <2>. QED  BY ONLY <2>3, <2>6, <2>7, ConcatProperties
<1>. QED  BY <1>1, <1>2

LEMMA FromLater ==
  ASSUME NEW b, b \in Seq(Cell), NEW o \in 0 .. Len(b), NEW f, NEW g,
         \A q \in o + 1 .. Len(b) : f[q] = g[q]
  PROVE  From(b, f, o) = From(b, g, o)
<1>. DEFINE n == o + b[o + 1].len
<1>0. Len(b) \in Nat
  OBVIOUS
<1>1. CASE o = Len(b)
  BY ONLY <1>1 DEF From
<1>2. CASE o # Len(b)
  <2>1. o + 1 \in 1 .. Len(b)
    BY <1>2
  <2>2. b[o + 1].len \in Nat
    BY <2>1, CellType
  <2>3. b[o + 1].len # 0 /\ ~(n > Len(b)) => n \in o + 1 .. Len(b)
    BY ONLY <2>2, <1>0, o \in 0 .. Len(b)
  <2>4. b[o + 1].len # 0 /\ ~(n > Len(b)) => f[n] = g[n]
    BY ONLY <2>3, \A q \in o + 1 .. Len(b) : f[q] = g[q]
  <2>. QED  BY ONLY <1>2, <2>4 DEF From
<1>. QED  BY <1>1, <1>2

\* The equation of Walk has a solution, and Walk is one.
LEMMA WalkStep ==
  ASSUME NEW b, b \in Seq(Cell)
  PROVE  \E f \in [0 .. Len(b) -> Seq(Nat)] :
           Walk(b) = f[0] /\ \A o \in 0 .. Len(b) : f[o] = From(b, f, o)
<1>. DEFINE Functions == [0 .. Len(b) -> Seq(Nat)]
            Equation(f) == f = [o \in 0 .. Len(b) |-> From(b, f, o)]
            Solves(f, o) == \A q \in o .. Len(b) : f[q] = From(b, f, q)
            T == {o \in 0 .. Len(b) : \E f \in Functions : Solves(f, o)}
<1>0. Len(b) \in Nat
  OBVIOUS
<1>1. Walk(b) = (CHOOSE f : Equation(f))[0]
  BY DEF Walk, From
<1>2. ASSUME NEW o \in 0 .. Len(b), \A q \in o + 1 .. Len(b) : q \in T
      PROVE  o \in T
  <2>1. PICK f \in Functions : \A q \in o + 1 .. Len(b) : f[q] = From(b, f, q)
    <3>1. CASE o = Len(b)
      <4>. DEFINE f == [q \in 0 .. Len(b) |-> <<>>]
      <4>1. f \in Functions
        OBVIOUS
      <4>2. \A q \in o + 1 .. Len(b) : FALSE
        BY ONLY <3>1, <1>0
      <4>. QED  BY ONLY <4>1, <4>2
    <3>2. CASE o # Len(b)
      <4>1. o + 1 \in o + 1 .. Len(b)
        BY ONLY <3>2, <1>0, o \in 0 .. Len(b)
      <4>2. o + 1 \in T
        BY ONLY <1>2, <4>1
      <4>. QED  BY ONLY <4>2
    <3>. QED  BY ONLY <3>1, <3>2
  <2>. DEFINE g == [f EXCEPT ![o] = From(b, f, o)]
  <2>2. g \in Functions
    <3>1. From(b, f, o) \in Seq(Nat)
      BY FromType
    <3>. QED  BY <3>1
  <2>3. g[o] = From(b, f, o) /\ \A q \in o + 1 .. Len(b) : g[q] = f[q]
    OBVIOUS
  <2>. HIDE DEF g
  <2>4. ASSUME NEW q \in o .. Len(b) PROVE g[q] = From(b, g, q)
    <3>1. q \in 0 .. Len(b) /\ \A x \in q + 1 .. Len(b) : g[x] = f[x]
      BY ONLY <2>3, <1>0, o \in 0 .. Len(b), q \in o .. Len(b)
    <3>2. From(b, g, q) = From(b, f, q)
      BY ONLY b \in Seq(Cell), <3>1, FromLater
    <3>3. q = o \/ q \in o + 1 .. Len(b)
      BY ONLY <1>0, o \in 0 .. Len(b), q \in o .. Len(b)
    <3>. QED  BY ONLY <2>1, <2>3, <3>2, <3>3
  <2>. QED  BY <2>2, <2>4
<1>3. 0 \in T
  <2>. HIDE DEF T
  <2>1. \A o \in 0 .. Len(b) : o \in T
    BY ONLY <1>0, <1>2, CountDown
  <2>. QED  BY ONLY <1>0, <2>1
<1>4. PICK f \in Functions : Solves(f, 0)
  BY <1>3
<1>5. Equation(f)
  <2>1. f = [o \in 0 .. Len(b) |-> f[o]]
    OBVIOUS
  <2>. QED  BY ONLY <1>4, <2>1
<1>6. Equation(CHOOSE h : Equation(h))
  <2>. HIDE DEF Equation
  <2>. QED  BY ONLY <1>5
<1>. DEFINE w == CHOOSE h : Equation(h)
<1>7. w = f
  <2>. HIDE DEF w
  <2>1. w = [o \in 0 .. Len(b) |-> From(b, w, o)]
    BY ONLY <1>6 DEF w
  <2>2. /\ w = [o \in 0 .. Len(b) |-> w[o]]
        /\ \A o \in 0 .. Len(b) : w[o] = From(b, w, o)
    BY ONLY <2>1
  <2>. DEFINE U == {o \in 0 .. Len(b) : w[o] = f[o]}
  <2>3. ASSUME NEW o \in 0 .. Len(b), \A q \in o + 1 .. Len(b) : q \in U
        PROVE  o \in U
    <3>1. \A q \in o + 1 .. Len(b) : w[q] = f[q]
      BY ONLY <2>3
    <3>2. From(b, w, o) = From(b, f, o)
      BY ONLY b \in Seq(Cell), o \in 0 .. Len(b), <3>1, FromLater
    <3>. QED  BY ONLY <1>4, <2>2, <3>2, o \in 0 .. Len(b)
  <2>4. \A o \in 0 .. Len(b) : o \in U
    <3>. HIDE DEF U
    <3>. QED  BY ONLY <1>0, <2>3, CountDown
  <2>5. f = [o \in 0 .. Len(b) |-> f[o]]
    OBVIOUS
  <2>. QED  BY ONLY <2>2, <2>4, <2>5
<1>. QED  BY <1>1, <1>4, <1>7

\* A record that starts in a buffer.
LEMMA StartType ==
  ASSUME NEW b, b \in Seq(Cell), NEW o \in Starts(b)
  PROVE  /\ o \in 0 .. Len(b) - 1 /\ o \in Nat /\ o + 1 \in 1 .. Len(b)
         /\ b[o + 1].i \in 1 .. Len(Dir) /\ b[o + 1].len \in Nat /\ b[o + 1].len < Short
         /\ After(b, o) \in Nat
<1>0. Len(b) \in Nat /\ Len(Dir) \in Nat
  BY GetdentsAssumption
<1>1. o \in 0 .. Len(b) - 1 /\ b[o + 1].i # 0
  BY DEF Starts
<1>2. o + 1 \in 1 .. Len(b) /\ o \in Nat
  BY ONLY <1>0, <1>1
<1>3. /\ b[o + 1].i \in Nat /\ b[o + 1].i <= Len(Dir)
      /\ b[o + 1].len \in Nat /\ b[o + 1].len < Short
  BY <1>2, CellType
<1>. QED  BY ONLY <1>0, <1>1, <1>2, <1>3 DEF After

\* What is met from a record on is that record and what is met after it.
RecordThen(b, f, o) ==
  /\ ~(o < After(b, o) /\ After(b, o) <= Len(b)) => f[o] = <<b[o + 1].i>>
  /\ o < After(b, o) /\ After(b, o) <= Len(b) =>
       /\ Len(f[o]) = Len(f[After(b, o)]) + 1
       /\ f[o][1] = b[o + 1].i
       /\ \A k \in 1 .. Len(f[After(b, o)]) : f[o][k + 1] = f[After(b, o)][k]

LEMMA FromRecord ==
  ASSUME NEW b, b \in Seq(Cell), NEW o \in Starts(b),
         NEW f, f \in [0 .. Len(b) -> Seq(Nat)], f[o] = From(b, f, o)
  PROVE  RecordThen(b, f, o)
<1>. DEFINE x == b[o + 1].i
            n == After(b, o)
<1>0. Len(b) \in Nat
  OBVIOUS
<1>1. /\ o \in 0 .. Len(b) - 1 /\ x # 0 /\ x \in Nat /\ b[o + 1].len \in Nat
      /\ n \in Nat /\ n = o + b[o + 1].len
  BY StartType DEF After
<1>. HIDE DEF n
<1>2. f[o] = <<x>> \o IF b[o + 1].len = 0 \/ n > Len(b) THEN <<>> ELSE f[n]
  BY ONLY <1>0, <1>1, f[o] = From(b, f, o) DEF From
<1>. HIDE DEF x
<1>3. <<x>> \in Seq(Nat) /\ <<x>> \o <<>> = <<x>> /\ Len(<<x>>) = 1 /\ <<x>>[1] = x
  BY ONLY <1>1
<1>4. CASE ~(o < n /\ n <= Len(b))
  <2>1. b[o + 1].len = 0 \/ n > Len(b)
    BY ONLY <1>0, <1>1, <1>4
  <2>2. f[o] = <<x>>
    BY ONLY <1>2, <1>3, <2>1
  <2>. QED  BY ONLY <1>4, <2>2 DEF x, n, RecordThen
<1>5. CASE o < n /\ n <= Len(b)
  <2>1. ~(b[o + 1].len = 0 \/ n > Len(b)) /\ n \in 0 .. Len(b)
    BY ONLY <1>0, <1>1, <1>5
  <2>2. f[n] \in Seq(Nat) /\ Len(f[n]) \in Nat
    BY ONLY <2>1, f \in [0 .. Len(b) -> Seq(Nat)]
  <2>3. f[o] = <<x>> \o f[n]
    BY ONLY <1>2, <2>1
  <2>4. /\ Len(<<x>> \o f[n]) = 1 + Len(f[n])
        /\ \A i \in 1 .. 1 + Len(f[n]) :
             (<<x>> \o f[n])[i] = IF i <= 1 THEN <<x>>[i] ELSE f[n][i - 1]
    BY ONLY <1>3, <2>2, ConcatProperties
  <2>5. f[o][1] = x
    BY ONLY <1>3, <2>2, <2>3, <2>4
  <2>6. \A k \in 1 .. Len(f[n]) : f[o][k + 1] = f[n][k]
    <3>. SUFFICES ASSUME NEW k \in 1 .. Len(f[n]) PROVE f[o][k + 1] = f[n][k]
      OBVIOUS
    <3>1. k + 1 \in 1 .. 1 + Len(f[n]) /\ ~(k + 1 <= 1) /\ (k + 1) - 1 = k
      BY ONLY <2>2, k \in 1 .. Len(f[n])
    <3>. QED  BY ONLY <2>3, <2>4, <3>1
  <2>7. Len(f[o]) = Len(f[n]) + 1
    BY ONLY <2>2, <2>3, <2>4
  <2>. QED  BY ONLY <1>5, <2>5, <2>6, <2>7 DEF x, n, RecordThen
<1>. QED  BY ONLY <1>4, <1>5

\* Whatever is in a buffer, what is met are records that start in it.
LEMMA WalkMeets ==
  ASSUME NEW b, b \in Seq(Cell)
  PROVE  /\ Walk(b) \in Seq(Nat)
         /\ \A n \in DOMAIN Walk(b) : \E o \in Starts(b) : Walk(b)[n] = b[o + 1].i
<1>0. Len(b) \in Nat
  OBVIOUS
<1>1. PICK f \in [0 .. Len(b) -> Seq(Nat)] :
        Walk(b) = f[0] /\ \A o \in 0 .. Len(b) : f[o] = From(b, f, o)
  BY ONLY b \in Seq(Cell), WalkStep
<1>. DEFINE Meets(o) == \A k \in 1 .. Len(f[o]) : \E q \in Starts(b) : f[o][k] = b[q + 1].i
            T == {o \in 0 .. Len(b) : Meets(o)}
<1>2. ASSUME NEW o \in 0 .. Len(b), \A q \in o + 1 .. Len(b) : q \in T
      PROVE  o \in T
  <2>1. CASE o \notin Starts(b)
    <3>1. o = Len(b) \/ b[o + 1].i = 0
      BY ONLY <2>1, <1>0, o \in 0 .. Len(b) DEF Starts
    <3>2. f[o] = <<>>
      BY ONLY <3>1, <1>1, o \in 0 .. Len(b) DEF From
    <3>3. \A k \in 1 .. Len(f[o]) : FALSE
      BY ONLY <3>2
    <3>. QED  BY ONLY <3>3, o \in 0 .. Len(b)
  <2>2. CASE o \in Starts(b)
    <3>. DEFINE x == b[o + 1].i
                n == After(b, o)
    <3>1. x \in Nat /\ n \in Nat
      BY ONLY b \in Seq(Cell), <2>2, StartType
    <3>2. /\ ~(o < n /\ n <= Len(b)) => f[o] = <<x>>
          /\ o < n /\ n <= Len(b) =>
               /\ Len(f[o]) = Len(f[n]) + 1
               /\ f[o][1] = x
               /\ \A k \in 1 .. Len(f[n]) : f[o][k + 1] = f[n][k]
      <4>1. f[o] = From(b, f, o)
        BY ONLY <1>1, o \in 0 .. Len(b)
      <4>2. RecordThen(b, f, o)
        BY ONLY b \in Seq(Cell), f \in [0 .. Len(b) -> Seq(Nat)], <2>2, <4>1, FromRecord
      <4>. QED  BY ONLY <4>2 DEF RecordThen
    <3>0. x = b[o + 1].i
      OBVIOUS
    <3>. HIDE DEF x, n
    <3>3. CASE f[o] = <<x>>
      <4>1. \A k \in 1 .. Len(f[o]) : f[o][k] = x
        BY ONLY <3>3
      <4>. QED  BY ONLY <2>2, <3>0, <4>1, o \in 0 .. Len(b)
    <3>4. CASE /\ o < n /\ n <= Len(b)
               /\ Len(f[o]) = Len(f[n]) + 1
               /\ f[o][1] = x
               /\ \A k \in 1 .. Len(f[n]) : f[o][k + 1] = f[n][k]
      <4>1. n \in o + 1 .. Len(b) /\ n \in 0 .. Len(b)
        BY ONLY <1>0, <3>1, <3>4, o \in 0 .. Len(b)
      <4>2. Meets(n)
        BY ONLY <1>2, <4>1
      <4>3. f[n] \in Seq(Nat)
        BY ONLY <4>1, f \in [0 .. Len(b) -> Seq(Nat)]
      <4>4. ASSUME NEW k \in 1 .. Len(f[o])
            PROVE  \E q \in Starts(b) : f[o][k] = b[q + 1].i
        <5>1. Len(f[n]) \in Nat
          BY ONLY <4>3
        <5>2. k # 1 => k - 1 \in 1 .. Len(f[n]) /\ (k - 1) + 1 = k
          BY ONLY <3>4, <5>1, k \in 1 .. Len(f[o])
        <5>3. k - 1 \in 1 .. Len(f[n]) /\ (k - 1) + 1 = k => f[o][k] = f[n][k - 1]
          BY ONLY <3>4
        <5>4. k - 1 \in 1 .. Len(f[n]) => \E q \in Starts(b) : f[n][k - 1] = b[q + 1].i
          BY ONLY <4>2
        <5>. QED  BY ONLY <2>2, <3>0, <3>4, <5>2, <5>3, <5>4
      <4>. QED  BY ONLY <4>4, o \in 0 .. Len(b)
    <3>. QED  BY ONLY <3>2, <3>3, <3>4
  <2>. QED  BY <2>1, <2>2
<1>3. Meets(0)
  <2>. HIDE DEF T
  <2>1. \A o \in 0 .. Len(b) : o \in T
    BY ONLY <1>0, <1>2, CountDown
  <2>2. 0 \in T
    BY ONLY <1>0, <2>1
  <2>. QED  BY ONLY <2>2 DEF T
<1>4. Walk(b) \in Seq(Nat) /\ DOMAIN Walk(b) = 1 .. Len(f[0])
  BY ONLY <1>0, <1>1
<1>. QED  BY ONLY <1>1, <1>3, <1>4

\* In a linked buffer every record is met, and in the order of the directory.
LEMMA WalkLinked ==
  ASSUME NEW b, b \in Seq(Cell), Linked(b, 0, Len(b))
  PROVE  /\ ToSet(Walk(b)) = {b[o + 1].i : o \in Starts(b)}
         /\ Ascending(Walk(b))
<1>0. Len(b) \in Nat
  OBVIOUS
<1>1. PICK f \in [0 .. Len(b) -> Seq(Nat)] :
        Walk(b) = f[0] /\ \A o \in 0 .. Len(b) : f[o] = From(b, f, o)
  BY ONLY b \in Seq(Cell), WalkStep
<1>. DEFINE Later(o)  == \A k \in 1 .. Len(f[o]) : f[o][k] >= b[o + 1].i
            Rising(o) == \A j, k \in 1 .. Len(f[o]) : j < k => f[o][j] < f[o][k]
            All(o)    == \A q \in Between(b, o, Len(b)) :
                           \E k \in 1 .. Len(f[o]) : f[o][k] = b[q + 1].i
            Good(o)   == o \in Starts(b) => Later(o) /\ Rising(o) /\ All(o)
            T == {o \in 0 .. Len(b) : Good(o)}
<1>2. ASSUME NEW o \in 0 .. Len(b), \A q \in o + 1 .. Len(b) : q \in T, o \in Starts(b)
      PROVE  Later(o) /\ Rising(o) /\ All(o)
  <2>. DEFINE x == b[o + 1].i
              n == After(b, o)
  <2>1. /\ x \in Nat /\ n \in Nat /\ o < Len(b) /\ o \in Nat
    BY ONLY b \in Seq(Cell), <1>0, <1>2, StartType
  <2>2. o \in Between(b, 0, Len(b))
    BY ONLY <1>2, <2>1 DEF Between
  <2>3. /\ o < n /\ n <= Len(b) /\ Between(b, o + 1, n) = {}
        /\ n < Len(b) => n \in Starts(b) /\ x < b[n + 1].i
    BY ONLY <2>2, Linked(b, 0, Len(b)) DEF Linked
  <2>4. RecordThen(b, f, o)
    <3>1. f[o] = From(b, f, o)
      BY ONLY <1>1, o \in 0 .. Len(b)
    <3>. QED  BY ONLY b \in Seq(Cell), f \in [0 .. Len(b) -> Seq(Nat)], <1>2, <3>1, FromRecord
  <2>5. /\ Len(f[o]) = Len(f[n]) + 1
        /\ f[o][1] = x
        /\ \A k \in 1 .. Len(f[n]) : f[o][k + 1] = f[n][k]
    BY ONLY <2>3, <2>4 DEF RecordThen
  <2>0. x = b[o + 1].i
    OBVIOUS
  <2>. HIDE DEF x, n
  <2>6. n \in 0 .. Len(b) /\ n \in o + 1 .. Len(b) /\ f[n] \in Seq(Nat) /\ Len(f[n]) \in Nat
    BY ONLY <1>0, <2>1, <2>3, f \in [0 .. Len(b) -> Seq(Nat)]
  <2>7. \A k \in 1 .. Len(f[o]) : k # 1 => k - 1 \in 1 .. Len(f[n]) /\ f[o][k] = f[n][k - 1]
    <3>. SUFFICES ASSUME NEW k \in 1 .. Len(f[o]), k # 1
                  PROVE  k - 1 \in 1 .. Len(f[n]) /\ f[o][k] = f[n][k - 1]
      OBVIOUS
    <3>1. k - 1 \in 1 .. Len(f[n]) /\ (k - 1) + 1 = k
      BY ONLY <2>5, <2>6, k \in 1 .. Len(f[o]), k # 1
    <3>. QED  BY ONLY <2>5, <3>1
  <2>8. \A k \in 1 .. Len(f[n]) : f[n][k] \in Nat /\ f[n][k] > x
    <3>1. CASE n = Len(b)
      <4>1. f[n] = <<>>
        BY ONLY <1>1, <2>6, <3>1 DEF From
      <4>. QED  BY ONLY <4>1
    <3>2. CASE n < Len(b)
      <4>1. Later(n)
        BY ONLY <1>2, <2>3, <2>6, <3>2
      <4>2. b[n + 1].i \in Nat /\ b[n + 1].i > x
        BY ONLY b \in Seq(Cell), <2>1, <2>3, <3>2, StartType
      <4>. HIDE DEF Rising, All
      <4>. QED  BY ONLY <2>1, <2>6, <4>1, <4>2
    <3>. QED  BY ONLY <1>0, <2>3, <2>6, <3>1, <3>2
  <2>9. Rising(n)
    <3>1. CASE n = Len(b)
      <4>1. f[n] = <<>>
        BY ONLY <1>1, <2>6, <3>1 DEF From
      <4>. QED  BY ONLY <4>1
    <3>2. CASE n < Len(b)
      BY ONLY <1>2, <2>3, <2>6, <3>2
    <3>3. n = Len(b) \/ n < Len(b)
      BY ONLY <1>0, <2>3, <2>6
    <3>. HIDE DEF Rising
    <3>. QED  BY ONLY <3>1, <3>2, <3>3
  <2>10. Later(o)
    <3>1. ASSUME NEW k \in 1 .. Len(f[o]) PROVE f[o][k] >= b[o + 1].i
      <4>1. CASE k = 1
        <5>1. f[o][k] = x /\ x >= x
          BY ONLY <2>1, <2>5, <4>1
        <5>. QED  BY ONLY <2>0, <5>1
      <4>2. CASE k # 1
        <5>1. k - 1 \in 1 .. Len(f[n]) /\ f[o][k] = f[n][k - 1]
          BY ONLY <2>7, <4>2, k \in 1 .. Len(f[o])
        <5>2. f[n][k - 1] \in Nat /\ f[n][k - 1] > x
          BY ONLY <2>8, <5>1
        <5>3. f[n][k - 1] >= x
          BY ONLY <2>1, <5>2
        <5>. QED  BY ONLY <2>0, <5>1, <5>3
      <4>. QED  BY ONLY <4>1, <4>2
    <3>. QED  BY ONLY <3>1
  <2>11. Rising(o)
    <3>. SUFFICES ASSUME NEW j \in 1 .. Len(f[o]), NEW k \in 1 .. Len(f[o]), j < k
                  PROVE  f[o][j] < f[o][k]
      OBVIOUS
    <3>0. j \in Nat /\ k \in Nat /\ j >= 1
      BY ONLY <2>5, <2>6, j \in 1 .. Len(f[o]), k \in 1 .. Len(f[o])
    <3>1. k - 1 \in 1 .. Len(f[n]) /\ f[o][k] = f[n][k - 1]
      BY ONLY <2>7, <3>0, j < k, k \in 1 .. Len(f[o])
    <3>2. CASE j = 1
      BY ONLY <2>1, <2>5, <2>8, <3>1, <3>2
    <3>3. CASE j # 1
      <4>1. j - 1 \in 1 .. Len(f[n]) /\ f[o][j] = f[n][j - 1]
        BY ONLY <2>7, <3>3, j \in 1 .. Len(f[o])
      <4>2. j - 1 < k - 1
        BY ONLY <3>0, j < k
      <4>. QED  BY ONLY <2>9, <3>1, <4>1, <4>2
    <3>. QED  BY ONLY <3>2, <3>3
  <2>12. All(o)
    <3>. SUFFICES ASSUME NEW q \in Between(b, o, Len(b))
                  PROVE  \E k \in 1 .. Len(f[o]) : f[o][k] = b[q + 1].i
      OBVIOUS
    <3>1. q \in Starts(b) /\ o <= q /\ q < Len(b) /\ q \in Nat
      BY ONLY b \in Seq(Cell), q \in Between(b, o, Len(b)), StartType DEF Between
    <3>2. CASE q = o
      <4>1. 1 \in 1 .. Len(f[o])
        BY ONLY <2>5, <2>6
      <4>. QED  BY ONLY <2>0, <2>5, <3>2, <4>1
    <3>3. CASE q # o
      <4>1. q \notin Between(b, o + 1, n)
        BY ONLY <2>3
      <4>2. n <= q /\ n < Len(b)
        BY ONLY <1>0, <2>1, <2>6, <3>1, <3>3, <4>1 DEF Between
      <4>3. q \in Between(b, n, Len(b))
        BY ONLY <3>1, <4>2 DEF Between
      <4>4. All(n)
        BY ONLY <1>2, <2>3, <2>6, <4>2
      <4>5. PICK k \in 1 .. Len(f[n]) : f[n][k] = b[q + 1].i
        BY ONLY <4>3, <4>4
      <4>6. k + 1 \in 1 .. Len(f[o]) /\ f[o][k + 1] = f[n][k]
        BY ONLY <2>5, <2>6, k \in 1 .. Len(f[n])
      <4>. QED  BY ONLY <4>5, <4>6
    <3>. QED  BY ONLY <3>2, <3>3
  <2>. QED  BY ONLY <2>10, <2>11, <2>12
<1>3. Good(0)
  <2>1. ASSUME NEW o \in 0 .. Len(b), \A q \in o + 1 .. Len(b) : q \in T
        PROVE  o \in T
    BY ONLY <1>2, <2>1
  <2>. HIDE DEF T
  <2>2. \A o \in 0 .. Len(b) : o \in T
    BY ONLY <1>0, <2>1, CountDown
  <2>3. 0 \in T
    BY ONLY <1>0, <2>2
  <2>. QED  BY ONLY <2>3 DEF T
<1>4. /\ DOMAIN Walk(b) = 1 .. Len(f[0]) /\ f[0] \in Seq(Nat)
      /\ \A k \in DOMAIN Walk(b) : \E o \in Starts(b) : Walk(b)[k] = b[o + 1].i
  BY ONLY b \in Seq(Cell), <1>0, <1>1, WalkMeets
<1>5. CASE Len(b) = 0
  <2>1. Starts(b) = {} /\ f[0] = <<>>
    BY ONLY <1>0, <1>1, <1>5 DEF Starts, From
  <2>2. DOMAIN Walk(b) = {}
    BY ONLY <1>1, <2>1
  <2>. QED  BY ONLY <2>1, <2>2 DEF ToSet, Ascending
<1>6. CASE Len(b) > 0
  <2>1. 0 \in Starts(b)
    BY ONLY <1>0, <1>6, Linked(b, 0, Len(b)) DEF Linked
  <2>2. Rising(0) /\ All(0)
    BY ONLY <1>3, <2>1
  <2>3. Ascending(Walk(b))
    BY ONLY <1>1, <1>4, <2>2 DEF Ascending
  <2>4. ASSUME NEW o \in Starts(b) PROVE b[o + 1].i \in ToSet(Walk(b))
    <3>1. o \in Between(b, 0, Len(b))
      BY ONLY b \in Seq(Cell), <1>0, <2>4, StartType DEF Between
    <3>2. PICK k \in 1 .. Len(f[0]) : f[0][k] = b[o + 1].i
      BY ONLY <2>2, <3>1
    <3>. QED  BY ONLY <1>1, <1>4, <3>2 DEF ToSet
  <2>5. ASSUME NEW i \in ToSet(Walk(b)) PROVE \E o \in Starts(b) : i = b[o + 1].i
    BY ONLY <1>4, <2>5 DEF ToSet
  <2>6. ToSet(Walk(b)) = {b[o + 1].i : o \in Starts(b)}
    BY ONLY <2>4, <2>5
  <2>. QED  BY ONLY <2>3, <2>6
<1>. QED  BY ONLY <1>0, <1>5, <1>6

-----------------------------------------------------------------------------
(* What the file system hands out.                                         *)

\* One record: its description, and the rest of its cells.
IsRecord(b, i) ==
  /\ b \in Seq(Cell) /\ Len(b) = Dir[i].len
  /\ Dir[i].len \in Nat /\ Dir[i].len > 0
  /\ b[1].i = i /\ b[1].len = Dir[i].len
  /\ \A c \in 2 .. Dir[i].len : b[c].i = 0

LEMMA RecordType ==
  ASSUME NEW i \in 1 .. Len(Dir) PROVE IsRecord(RecordCells(i), i)
<1>. DEFINE m == Dir[i].len
            first == [i |-> i, len |-> m]
            rest == [c \in 1 .. m - 1 |-> NoRecord]
<1>1. /\ m \in Nat /\ m > 0 /\ m < Short /\ Short \in Nat
      /\ Len(Dir) \in Nat /\ i \in 0 .. Len(Dir) /\ m \in 0 .. Short - 1
  <2>. DEFINE R == [ino : Nat, len : 1 .. Short - 1]
  <2>0. Dir \in Seq(R) /\ Short \in Nat
    BY ONLY GetdentsAssumption
  <2>1. Dir[i] \in R /\ Len(Dir) \in Nat /\ Short \in Nat
    <3>. HIDE DEF R
    <3>. QED  BY ONLY <2>0, i \in 1 .. Len(Dir)
  <2>2. m \in 1 .. Short - 1
    BY ONLY <2>1
  <2>. HIDE DEF m
  <2>. QED  BY ONLY <2>1, <2>2, i \in 1 .. Len(Dir)
<1>. HIDE DEF m
<1>2. first \in Cell /\ NoRecord \in Cell
  BY ONLY <1>1 DEF Cell, NoRecord
<1>3. <<first>> \in Seq(Cell) /\ Len(<<first>>) = 1 /\ <<first>>[1] = first
  BY ONLY <1>2
<1>4. rest \in Seq(Cell) /\ Len(rest) = m - 1 /\ \A c \in 1 .. m - 1 : rest[c] = NoRecord
  BY ONLY <1>1, <1>2
<1>5. RecordCells(i) = <<first>> \o rest
  BY DEF RecordCells, m
<1>. HIDE DEF first, rest
<1>6. /\ <<first>> \o rest \in Seq(Cell) /\ Len(<<first>> \o rest) = m
      /\ \A c \in 1 .. m : (<<first>> \o rest)[c] = IF c <= 1 THEN <<first>>[c] ELSE rest[c - 1]
  BY ONLY <1>1, <1>3, <1>4, ConcatProperties
<1>7. RecordCells(i)[1].i = i /\ RecordCells(i)[1].len = m
  <2>1. RecordCells(i)[1] = first
    BY ONLY <1>1, <1>3, <1>5, <1>6
  <2>. QED  BY ONLY <2>1 DEF first
<1>8. ASSUME NEW c \in 2 .. m PROVE RecordCells(i)[c].i = 0
  <2>1. c \in 1 .. m /\ ~(c <= 1) /\ c - 1 \in 1 .. m - 1
    BY ONLY <1>1, c \in 2 .. m
  <2>2. RecordCells(i)[c] = NoRecord
    BY ONLY <1>4, <1>5, <1>6, <2>1
  <2>. QED  BY ONLY <2>2 DEF NoRecord
<1>. QED  BY ONLY <1>1, <1>5, <1>6, <1>7, <1>8 DEF IsRecord, m

\* A record alone.
LEMMA OneRecord ==
  ASSUME NEW i \in 1 .. Len(Dir) PROVE Laid(RecordCells(i), i)
<1>. DEFINE b == RecordCells(i)
            m == Dir[i].len
<1>1. /\ b \in Seq(Cell) /\ Len(b) = m /\ m \in Nat /\ m > 0
      /\ b[1].i = i /\ b[1].len = m /\ i # 0 /\ i \in Nat
      /\ \A c \in 2 .. m : b[c].i = 0
  <2>. HIDE DEF b
  <2>1. IsRecord(b, i) /\ i # 0 /\ i \in Nat
    BY RecordType, GetdentsAssumption DEF b
  <2>. QED  BY ONLY <2>1 DEF IsRecord, m
<1>. HIDE DEF b, m
<1>2. 0 \in Starts(b) /\ After(b, 0) = m
  BY ONLY <1>1 DEF Starts, After
<1>3. ASSUME NEW o \in Starts(b) PROVE o = 0
  <2>1. o \in 0 .. m - 1 /\ b[o + 1].i # 0
    BY ONLY <1>1, <1>3 DEF Starts
  <2>2. o # 0 => o + 1 \in 2 .. m
    BY ONLY <1>1, <2>1
  <2>. QED  BY ONLY <1>1, <2>1, <2>2
<1>4. Between(b, 1, m) = {}
  BY ONLY <1>3 DEF Between
<1>5. Linked(b, 0, m)
  BY ONLY <1>1, <1>2, <1>3, <1>4 DEF Linked, Between
<1>6. b # <<>>
  BY ONLY <1>1
<1>7. b[0 + 1].i = i /\ b[0 + 1].len = m /\ i <= i
  BY ONLY <1>1
<1>8. m = Dir[i].len
  BY DEF m
<1>9. Laid(b, i)
  BY ONLY <1>1, <1>2, <1>3, <1>5, <1>6, <1>7, <1>8 DEF Laid
<1>. QED  BY <1>9 DEF b

\* One record more.
LEMMA NextLaid ==
  ASSUME NEW b, b \in Seq(Cell), NEW i \in 1 .. Len(Dir) - 1, Laid(b, i)
  PROVE  /\ b \o RecordCells(i + 1) \in Seq(Cell)
         /\ Laid(b \o RecordCells(i + 1), i + 1)
         /\ (b \o RecordCells(i + 1))[1] = b[1]
<1>. DEFINE r == RecordCells(i + 1)
            m == Dir[i + 1].len
            n == Len(b)
            w == b \o r
<1>0. Len(Dir) \in Nat /\ i \in Nat /\ i + 1 \in 1 .. Len(Dir)
  BY GetdentsAssumption
<1>1. /\ r \in Seq(Cell) /\ Len(r) = m /\ m \in Nat /\ m > 0
      /\ r[1].i = i + 1 /\ r[1].len = m /\ i + 1 # 0
      /\ \A c \in 2 .. m : r[c].i = 0
  <2>. HIDE DEF r
  <2>1. IsRecord(r, i + 1) /\ i + 1 # 0
    BY ONLY <1>0, RecordType DEF r
  <2>. QED  BY ONLY <2>1 DEF IsRecord, m
<1>2. m = Dir[i + 1].len /\ n \in Nat /\ n = Len(b) /\ n > 0
  BY DEF Laid
<1>. HIDE DEF r, m, n
<1>3. /\ w \in Seq(Cell) /\ Len(w) = n + m
      /\ \A c \in 1 .. n + m : w[c] = IF c <= n THEN b[c] ELSE r[c - n]
  <2>1. /\ b \o r \in Seq(Cell) /\ Len(b \o r) = Len(b) + Len(r)
        /\ \A c \in 1 .. Len(b) + Len(r) :
             (b \o r)[c] = IF c <= Len(b) THEN b[c] ELSE r[c - Len(b)]
    BY ONLY b \in Seq(Cell), <1>1, ConcatProperties
  <2>. QED  BY ONLY <1>1, <1>2, <2>1
<1>. HIDE DEF w
<1>4. \A o \in 0 .. n - 1 : w[o + 1] = b[o + 1]
  <2>. SUFFICES ASSUME NEW o \in 0 .. n - 1 PROVE w[o + 1] = b[o + 1]
    OBVIOUS
  <2>1. o + 1 \in 1 .. n + m /\ o + 1 <= n
    BY ONLY <1>1, <1>2, o \in 0 .. n - 1
  <2>. QED  BY ONLY <1>3, <2>1
<1>5. w[n + 1] = r[1]
  BY ONLY <1>1, <1>2, <1>3
<1>6. Starts(w) = Starts(b) \cup {n}
  <2>1. ASSUME NEW o \in Starts(w) PROVE o \in Starts(b) \cup {n}
    <3>1. o \in 0 .. n + m - 1 /\ w[o + 1].i # 0
      <4>1. o \in 0 .. Len(w) - 1 /\ w[o + 1].i # 0
        BY ONLY <2>1 DEF Starts
      <4>. QED  BY ONLY <1>1, <1>2, <1>3, <4>1
    <3>2. CASE o < n
      BY ONLY <1>2, <1>4, <3>1, <3>2 DEF Starts
    <3>3. CASE o > n
      <4>1. /\ o + 1 \in 1 .. n + m /\ ~(o + 1 <= n)
            /\ (o + 1) - n \in 2 .. m
        BY ONLY <1>1, <1>2, <3>1, <3>3
      <4>2. w[o + 1] = r[(o + 1) - n]
        BY ONLY <1>3, <4>1
      <4>. QED  BY ONLY <1>1, <3>1, <4>1, <4>2
    <3>. QED  BY ONLY <1>1, <1>2, <3>1, <3>2, <3>3
  <2>2. ASSUME NEW o \in Starts(b) PROVE o \in Starts(w)
    <3>1. o \in 0 .. n - 1 /\ b[o + 1].i # 0 /\ o \in 0 .. n + m - 1
      BY ONLY <1>1, <1>2, <2>2 DEF Starts
    <3>2. Len(w) = n + m /\ w[o + 1].i # 0
      BY ONLY <1>3, <1>4, <3>1
    <3>. QED  BY ONLY <1>1, <1>2, <3>1, <3>2 DEF Starts
  <2>3. n \in Starts(w)
    <3>1. n \in 0 .. n + m - 1
      BY ONLY <1>1, <1>2
    <3>2. Len(w) = n + m /\ w[n + 1].i # 0
      BY ONLY <1>1, <1>3, <1>5
    <3>. QED  BY ONLY <1>1, <1>2, <3>1, <3>2 DEF Starts
  <2>. QED  BY ONLY <2>1, <2>2, <2>3
<1>7. \A o \in Starts(b) : /\ o \in 0 .. n - 1
                           /\ w[o + 1] = b[o + 1] /\ After(w, o) = After(b, o)
  BY ONLY <1>2, <1>4 DEF Starts, After
<1>8. w[n + 1].i = i + 1 /\ w[n + 1].len = m /\ After(w, n) = n + m
  BY ONLY <1>1, <1>5 DEF After
<1>9. ASSUME NEW o \in Starts(b)
      PROVE  /\ After(b, o) \in Nat /\ b[o + 1].i \in Nat
             /\ o < After(b, o) /\ After(b, o) <= n
             /\ Between(b, o + 1, After(b, o)) = {}
             /\ b[o + 1].i <= i /\ b[o + 1].len = Dir[b[o + 1].i].len
             /\ After(b, o) < n => After(b, o) \in Starts(b)
                                   /\ b[After(b, o) + 1].i = b[o + 1].i + 1
             /\ After(b, o) = n => b[o + 1].i = i
  <2>1. o \in Between(b, 0, n) /\ After(b, o) \in Nat /\ b[o + 1].i \in Nat
    BY ONLY <1>2, b \in Seq(Cell), o \in Starts(b), StartType DEF Between
  <2>2. Linked(b, 0, n)
    BY ONLY <1>2, Laid(b, i) DEF Laid
  <2>3. /\ o < After(b, o) /\ After(b, o) <= n
        /\ Between(b, o + 1, After(b, o)) = {}
        /\ After(b, o) < n => After(b, o) \in Starts(b)
    BY ONLY <2>1, <2>2 DEF Linked
  <2>4. /\ b[o + 1].i <= i /\ b[o + 1].len = Dir[b[o + 1].i].len
        /\ After(b, o) < n => b[After(b, o) + 1].i = b[o + 1].i + 1
        /\ After(b, o) = n => b[o + 1].i = i
    BY ONLY <1>2, Laid(b, i), o \in Starts(b) DEF Laid
  <2>. QED  BY ONLY <2>1, <2>3, <2>4
<1>10. 0 \in Starts(w)
  BY ONLY <1>2, <1>6, Laid(b, i) DEF Laid, Linked
<1>11. ASSUME NEW o \in Starts(w)
       PROVE  /\ o < After(w, o) /\ After(w, o) <= n + m
              /\ Between(w, o + 1, After(w, o)) = {}
              /\ After(w, o) < n + m => /\ After(w, o) \in Starts(w)
                                        /\ w[o + 1].i < w[After(w, o) + 1].i
                                        /\ w[After(w, o) + 1].i = w[o + 1].i + 1
              /\ w[o + 1].i <= i + 1
              /\ w[o + 1].len = Dir[w[o + 1].i].len
              /\ After(w, o) = n + m => w[o + 1].i = i + 1
  <2>1. CASE o \in Starts(b)
    <3>. DEFINE e == After(b, o)
                x == b[o + 1].i
    <3>1. /\ e \in Nat /\ x \in Nat /\ o < e /\ e <= n /\ x <= i
          /\ b[o + 1].len = Dir[x].len
          /\ e < n => e \in Starts(b) /\ b[e + 1].i = x + 1
          /\ e = n => x = i
          /\ o \in 0 .. n - 1 /\ w[o + 1] = b[o + 1] /\ After(w, o) = e
      BY ONLY <1>7, <1>9, <2>1
    <3>2. Between(b, o + 1, e) = {}
      BY ONLY <1>9, <2>1
    <3>3. x = b[o + 1].i
      OBVIOUS
    <3>. HIDE DEF e, x
    <3>4. Between(w, o + 1, e) = {}
      BY ONLY <1>2, <1>6, <3>1, <3>2 DEF Between
    <3>5. e \in Starts(w) /\ w[e + 1].i = x + 1
      <4>1. CASE e < n
        <5>1. e \in Starts(b) /\ b[e + 1].i = x + 1
          BY ONLY <3>1, <4>1
        <5>. QED  BY ONLY <1>6, <1>7, <5>1
      <4>2. CASE e = n
        BY ONLY <1>6, <1>8, <3>1, <4>2
      <4>. QED  BY ONLY <1>2, <3>1, <4>1, <4>2
    <3>6. w[o + 1].i = x /\ x < x + 1 /\ e < n + m /\ x <= i + 1
      BY ONLY <1>0, <1>1, <1>2, <3>1, <3>3
    <3>. QED  BY ONLY <1>0, <1>1, <1>2, <3>1, <3>4, <3>5, <3>6
  <2>2. CASE o = n
    <3>1. Between(w, n + 1, n + m) = {}
      BY ONLY <1>2, <1>6, <1>7 DEF Between
    <3>2. /\ After(w, n) = n + m /\ w[n + 1].i = i + 1
          /\ w[n + 1].len = Dir[w[n + 1].i].len
      BY ONLY <1>2, <1>8
    <3>3. n < n + m /\ n + m <= n + m /\ ~(n + m < n + m) /\ i + 1 <= i + 1
      BY ONLY <1>0, <1>1, <1>2
    <3>. QED  BY ONLY <2>2, <3>1, <3>2, <3>3
  <2>. QED  BY ONLY <1>6, <1>11, <2>1, <2>2
<1>12. Linked(w, 0, n + m)
  BY ONLY <1>10, <1>11 DEF Linked, Between
<1>13. w # <<>>
  BY ONLY <1>1, <1>2, <1>3
<1>14. Laid(w, i + 1)
  BY ONLY <1>3, <1>11, <1>12, <1>13 DEF Laid
<1>15. w[1] = b[1]
  <2>1. 1 \in 1 .. n + m /\ 1 <= n
    BY ONLY <1>1, <1>2
  <2>. QED  BY ONLY <1>3, <2>1
<1>. QED  BY ONLY <1>3, <1>14, <1>15 DEF w, r

\* The buffer that the real call fills.
LEMMA CellsLaid ==
  ASSUME NEW first \in 1 .. Len(Dir), NEW last \in first .. Len(Dir)
  PROVE  /\ Cells(first, last) \in Seq(Cell)
         /\ Laid(Cells(first, last), last)
         /\ Cells(first, last)[1].i = first
<1>. DEFINE N == last - first + 1
            parts == [n \in 1 .. N |-> RecordCells(first + n - 1)]
            Joined(f, n) == IF n = 1 THEN parts[n] ELSE f[n - 1] \o parts[n]
            Equation(f) == f = [n \in 1 .. N |-> Joined(f, n)]
            Filled(b, i) == b \in Seq(Cell) /\ Laid(b, i) /\ b[1].i = first
            Upto(f, k) == /\ \A n \in 1 .. k : f[n] = Joined(f, n)
                          /\ \A n \in 1 .. k : Filled(f[n], first + n - 1)
            T == {k \in 1 .. N : \E f : Upto(f, k)}
<1>1. Len(Dir) \in Nat /\ first \in Nat /\ last \in Nat /\ N \in Nat \ {0} /\ first <= last
  BY GetdentsAssumption
<1>. HIDE DEF N
<1>2. \A n \in 1 .. N : parts[n] = RecordCells(first + n - 1)
  OBVIOUS
<1>3. ASSUME NEW n \in 1 .. N PROVE first + n - 1 \in 1 .. Len(Dir)
  BY ONLY <1>1, n \in 1 .. N, last \in first .. Len(Dir) DEF N
<1>4. Cells(first, last) = (CHOOSE f : Equation(f))[N]
  <2>1. Len(parts) = N
    BY ONLY <1>1
  <2>2. Cells(first, last) = FlattenSeq(parts)
    BY DEF Cells, N
  <2>. HIDE DEF parts
  <2>. QED  BY ONLY <1>1, <2>1, <2>2 DEF FlattenSeq
<1>. HIDE DEF parts
<1>5. 1 \in T
  <2>. DEFINE f == [n \in {1} |-> parts[1]]
  <2>1. f[1] = parts[1] /\ parts[1] = RecordCells(first) /\ first + 1 - 1 = first
        /\ first \in 1 .. Len(Dir) /\ 1 \in 1 .. N
    BY ONLY <1>1, <1>2, first \in 1 .. Len(Dir)
  <2>2. IsRecord(RecordCells(first), first) /\ Laid(RecordCells(first), first)
    BY ONLY <2>1, RecordType, OneRecord
  <2>3. Filled(RecordCells(first), first)
    BY ONLY <2>2 DEF IsRecord
  <2>. HIDE DEF f, Filled
  <2>4. Upto(f, 1)
    <3>1. \A n \in 1 .. 1 : n = 1
      OBVIOUS
    <3>. QED  BY ONLY <2>1, <2>3, <3>1
  <2>. QED  BY ONLY <2>1, <2>4
<1>6. ASSUME NEW k \in 1 .. N - 1, k \in T PROVE k + 1 \in T
  <2>1. PICK f : Upto(f, k)
    BY ONLY <1>6
  <2>0. /\ k + 1 \in 1 .. N /\ k \in 1 .. N /\ k \in 1 .. k /\ k \in Nat /\ k + 1 # 1
        /\ (k + 1) - 1 = k /\ k + 1 \notin 1 .. k
    BY ONLY <1>1, k \in 1 .. N - 1
  <2>. DEFINE i == first + k - 1
              w == f[k] \o parts[k + 1]
              g == [n \in 1 .. k + 1 |-> IF n = k + 1 THEN w ELSE f[n]]
  <2>2. /\ i \in 1 .. Len(Dir) - 1 /\ i + 1 = first + (k + 1) - 1 /\ i = first + k - 1
    <3>1. first + (k + 1) - 1 \in 1 .. Len(Dir) /\ i \in 1 .. Len(Dir)
      BY ONLY <1>3, <2>0
    <3>. QED  BY ONLY <1>1, <2>0, <3>1
  <2>3. parts[k + 1] = RecordCells(i + 1)
    <3>1. parts[k + 1] = RecordCells(first + (k + 1) - 1)
      BY ONLY <1>2, <2>0
    <3>. QED  BY ONLY <2>2, <3>1
  <2>. HIDE DEF i
  <2>4. Filled(f[k], i)
    BY ONLY <2>0, <2>1, <2>2
  <2>5. Filled(w, i + 1)
    BY ONLY <2>2, <2>3, <2>4, NextLaid
  <2>. HIDE DEF w
  <2>6. g[k + 1] = w /\ \A n \in 1 .. k : g[n] = f[n]
    BY ONLY <2>0
  <2>. HIDE DEF g, Filled
  <2>7. Joined(g, k + 1) = w
    BY ONLY <2>0, <2>6 DEF w
  <2>8. ASSUME NEW n \in 1 .. k PROVE Joined(g, n) = Joined(f, n)
    <3>1. n # 1 => n - 1 \in 1 .. k
      BY ONLY <2>0, n \in 1 .. k
    <3>. QED  BY ONLY <2>6, <3>1
  <2>. HIDE DEF Joined
  <2>9. \A n \in 1 .. k + 1 : n \in 1 .. k \/ n = k + 1
    BY ONLY <2>0
  <2>10. Upto(g, k + 1)
    <3>1. ASSUME NEW n \in 1 .. k + 1
          PROVE  g[n] = Joined(g, n) /\ Filled(g[n], first + n - 1)
      <4>1. CASE n \in 1 .. k
        BY ONLY <2>1, <2>6, <2>8, <4>1
      <4>2. CASE n = k + 1
        BY ONLY <2>2, <2>5, <2>6, <2>7, <4>2
      <4>. QED  BY ONLY <2>9, <4>1, <4>2
    <3>. QED  BY ONLY <3>1
  <2>. HIDE DEF Upto
  <2>. QED  BY ONLY <2>0, <2>10
<1>7. N \in T
  <2>. HIDE DEF T
  <2>. QED  BY ONLY <1>1, <1>5, <1>6, CountUp
<1>8. PICK f : Upto(f, N)
  BY ONLY <1>7
<1>9. Equation([n \in 1 .. N |-> f[n]])
  <2>. DEFINE g == [n \in 1 .. N |-> f[n]]
  <2>0. \A n \in 1 .. N : g[n] = f[n]
    OBVIOUS
  <2>1. ASSUME NEW n \in 1 .. N PROVE g[n] = Joined(g, n)
    <3>1. n # 1 => n - 1 \in 1 .. N
      BY ONLY <1>1, n \in 1 .. N
    <3>2. f[n] = Joined(f, n)
      BY ONLY <1>8
    <3>. HIDE DEF g
    <3>. QED  BY ONLY <2>0, <3>1, <3>2
  <2>2. g = [n \in 1 .. N |-> g[n]]
    OBVIOUS
  <2>. HIDE DEF g, Joined
  <2>3. g = [n \in 1 .. N |-> Joined(g, n)]
    BY ONLY <2>1, <2>2
  <2>. QED  BY <2>3 DEF g
<1>10. Equation(CHOOSE h : Equation(h))
  <2>. HIDE DEF Equation
  <2>. QED  BY ONLY <1>9
<1>. DEFINE w == CHOOSE h : Equation(h)
<1>11. ASSUME NEW n \in 1 .. N PROVE w[n] = Joined(w, n)
  <2>. HIDE DEF w, Joined
  <2>1. w = [m \in 1 .. N |-> Joined(w, m)]
    BY ONLY <1>10 DEF w
  <2>. QED  BY ONLY <2>1
<1>. HIDE DEF w
<1>. DEFINE U == {k \in 1 .. N : w[k] = f[k]}
<1>12. 1 \in U
  <2>1. 1 \in 1 .. N
    BY ONLY <1>1
  <2>2. w[1] = Joined(w, 1) /\ f[1] = Joined(f, 1)
    BY ONLY <1>8, <1>11, <2>1
  <2>. QED  BY ONLY <2>1, <2>2
<1>13. ASSUME NEW k \in 1 .. N - 1, k \in U PROVE k + 1 \in U
  <2>1. k + 1 \in 1 .. N /\ k + 1 # 1 /\ (k + 1) - 1 = k
    BY ONLY <1>1, k \in 1 .. N - 1
  <2>2. w[k + 1] = Joined(w, k + 1) /\ f[k + 1] = Joined(f, k + 1)
    BY ONLY <1>8, <1>11, <2>1
  <2>. QED  BY ONLY <1>13, <2>1, <2>2
<1>14. N \in U
  <2>. HIDE DEF U
  <2>. QED  BY ONLY <1>1, <1>12, <1>13, CountUp
<1>15. Filled(f[N], last)
  <2>1. N \in 1 .. N /\ first + N - 1 = last
    BY ONLY <1>1 DEF N
  <2>. HIDE DEF Filled
  <2>. QED  BY ONLY <1>8, <2>1
<1>. QED  BY ONLY <1>4, <1>14, <1>15 DEF w

-----------------------------------------------------------------------------
(* The inductive invariant.                                                *)

\* The first record of this call, and the one the scan is at.
First == dirp[1].i
Current == IF dirp3 < Len(dirp) THEN dirp[dirp3 + 1].i ELSE pos + 1

\* The program has met the visible records up to the k-th, each once.
Shows(k) ==
  mishaps = {} =>
    /\ Ascending(shown)
    /\ \A n \in DOMAIN shown : shown[n] <= k
    /\ \A i \in 1 .. k : Dir[i].ino \in never => \E n \in DOMAIN shown : shown[n] = i

\* During a call: what the file system gave is in the caller's buffer, and the
\* program has met what came before.
Filled == Laid(dirp, pos) /\ Len(dirp) <= Count /\ First \in Nat \ {0} /\ Shows(First - 1)

\* The scan stands on a record that nobody has touched yet.
Cursor ==
  /\ buf_length = Len(dirp) /\ Len(dirp2) = Len(dirp)
  /\ dirp3 <= Len(dirp) /\ First <= Current /\ Current <= pos + 1
  /\ dirp3 < Len(dirp) => dirp3 \in Starts(dirp)
  /\ \A c \in dirp3 + 1 .. Len(dirp) : dirp2[c] = dirp[c]

\* What is left runs from head to the end, and prev is its last visible record.
Rest ==
  /\ head + modified_buf_length = Len(dirp) /\ head <= dirp3
  /\ prev = -1 => head = dirp3 /\ kept = {}
  /\ prev # -1 => prev \in Between(dirp2, head, dirp3) /\ head \in Starts(dirp2) /\ kept # {}

\* Only records judged visible start in it; who was never hidden is among them.
Judged ==
  /\ \A o \in Between(dirp2, head, dirp3) : dirp2[o + 1].i \in kept
  /\ \A i \in kept : First <= i /\ i < Current /\ Dir[i].ino \notin always
  /\ \A i \in First .. Current - 1 : Dir[i].ino \in never => i \in kept

\* As long as no length has wrapped, they are linked and nobody is missing.
Exact ==
  "wrapped" \notin mishaps =>
    /\ Linked(dirp2, head, dirp3)
    /\ prev # -1 => After(dirp2, prev) = dirp3
    /\ \A i \in kept : \E o \in Between(dirp2, head, dirp3) : dirp2[o + 1].i = i

Called ==
  pc = "alloc" => \/ Filled /\ buf_length = Len(dirp)
                  \/ buf_length = Word - EINVAL
Scan == pc = "scan" => Filled /\ Cursor /\ Rest /\ Judged /\ Exact
Listed ==
  /\ pc = "idle" => Shows(pos)
  /\ pc = "over" /\ result = 0 => Shows(Len(Dir))

IInv == TypeOK /\ ListingHonest /\ Listed /\ Called /\ Scan

-----------------------------------------------------------------------------
(* Returns.                                                                *)

\* Numbers the arithmetic of the hook stays within.
LEMMA Numbers ==
  /\ Short \in Nat /\ Word \in Nat /\ Count \in Nat /\ KmallocMax \in Nat
  /\ EINVAL \in Nat /\ EINVAL >= 1 /\ EINVAL <= Word \div 2 /\ Word \div 2 \in Nat
  /\ Count <= KmallocMax /\ KmallocMax < Word - EINVAL
  /\ Len(Dir) \in Nat /\ Word - EINVAL >= Word \div 2
<1>1. /\ Short \in Nat /\ Word \in Nat /\ Count \in Nat /\ KmallocMax \in Nat
      /\ EINVAL \in 1 .. Word \div 2 /\ Count <= KmallocMax /\ KmallocMax < Word - EINVAL
      /\ Len(Dir) \in Nat
  BY GetdentsAssumption
<1>. QED  BY ONLY <1>1

\* What an unsigned int is as a long.
LEMMA SignedType ==
  ASSUME NEW n \in 0 .. Word - 1
  PROVE  /\ Signed(n) \in Int /\ (Signed(n) = 0 <=> n = 0)
         /\ Signed(n) > 0 => n < Word \div 2 /\ Signed(n) = n
         /\ n >= Word \div 2 => Signed(n) < 0
  BY ONLY Numbers, n \in 0 .. Word - 1 DEF Signed

\* The front of a buffer.
LEMMA FirstCells ==
  ASSUME NEW b, b \in Seq(Cell), NEW n \in 0 .. Len(b)
  PROVE  /\ SubSeq(b, 1, n) \in Seq(Cell) /\ Len(SubSeq(b, 1, n)) = n
         /\ \A c \in 1 .. n : SubSeq(b, 1, n)[c] = b[c]
  OBVIOUS

\* What a return adds to what the program has met.
MetIn(s, b, n) ==
  /\ s \in Seq(1 .. Len(Dir))
  /\ \A k \in DOMAIN s : \/ \E j \in DOMAIN shown : s[k] = shown[j]
                         \/ \E c \in 1 .. n : b[c].i # 0 /\ s[k] = b[c].i

LEMMA Meets ==
  ASSUME NEW b, b \in Seq(Cell), NEW n \in 0 .. Len(b), shown \in Seq(1 .. Len(Dir))
  PROVE  MetIn(shown \o Walk(SubSeq(b, 1, n)), b, n)
<1>. DEFINE r == SubSeq(b, 1, n)
            v == Walk(r)
            s == shown \o Walk(SubSeq(b, 1, n))
<1>1. /\ r \in Seq(Cell) /\ Len(r) = n /\ n \in Nat
      /\ \A c \in 1 .. n : r[c] = b[c]
  BY FirstCells
<1>. HIDE DEF r
<1>2. v \in Seq(Nat) /\ \A k \in DOMAIN v : \E o \in Starts(r) : v[k] = r[o + 1].i
  BY ONLY <1>1, WalkMeets
<1>3. ASSUME NEW k \in DOMAIN v
      PROVE  v[k] \in 1 .. Len(Dir) /\ \E c \in 1 .. n : b[c].i # 0 /\ v[k] = b[c].i
  <2>1. PICK o \in Starts(r) : v[k] = r[o + 1].i
    BY ONLY <1>2
  <2>2. o + 1 \in 1 .. n /\ r[o + 1].i \in 1 .. Len(Dir) /\ r[o + 1].i # 0
    BY ONLY <1>1, StartType DEF Starts
  <2>. QED  BY ONLY <1>1, <2>1, <2>2
<1>. HIDE DEF v
<1>4. v \in Seq(1 .. Len(Dir))
  BY ONLY <1>2, <1>3
<1>5. s = shown \o v
  BY DEF v, r
<1>. HIDE DEF s
<1>6. /\ s \in Seq(1 .. Len(Dir)) /\ Len(s) = Len(shown) + Len(v)
      /\ \A k \in 1 .. Len(shown) + Len(v) :
           s[k] = IF k <= Len(shown) THEN shown[k] ELSE v[k - Len(shown)]
  BY ONLY <1>4, <1>5, shown \in Seq(1 .. Len(Dir)), ConcatProperties
<1>7. ASSUME NEW k \in DOMAIN s
      PROVE  \/ \E j \in DOMAIN shown : s[k] = shown[j]
             \/ \E c \in 1 .. n : b[c].i # 0 /\ s[k] = b[c].i
  <2>1. Len(shown) \in Nat /\ Len(v) \in Nat /\ k \in 1 .. Len(shown) + Len(v)
    BY ONLY <1>4, <1>6, shown \in Seq(1 .. Len(Dir)), k \in DOMAIN s
  <2>2. CASE k <= Len(shown)
    <3>1. k \in DOMAIN shown
      BY ONLY <2>1, <2>2, shown \in Seq(1 .. Len(Dir))
    <3>. QED  BY ONLY <1>6, <2>1, <2>2, <3>1
  <2>3. CASE ~(k <= Len(shown))
    <3>1. k - Len(shown) \in DOMAIN v
      BY ONLY <1>4, <2>1, <2>3
    <3>2. s[k] = v[k - Len(shown)]
      BY ONLY <1>6, <2>1, <2>3
    <3>. QED  BY ONLY <1>3, <3>1, <3>2
  <2>. QED  BY ONLY <2>2, <2>3
<1>8. MetIn(s, b, n)
  BY ONLY <1>6, <1>7 DEF MetIn
<1>. QED  BY ONLY <1>8 DEF s

\* A call that returns n: it is enough that what the program meets beyond what it
\* had met is visible, complete and in order, unless something went wrong.
LEMMA Returns ==
  ASSUME IInv, NEW n \in 0 .. Word - 1, NEW b, b \in Seq(Cell),
         NEW bad \in SUBSET {"unfiltered", "swallowed"}, ReturnWith(n, b, bad),
         buf_length' \in 0 .. Word - 1,
         UNCHANGED <<hidden, dirp2, dirp3, head, prev, modified_buf_length, kept, always, never>>,
         Signed(n) > 0 => n <= Len(b),
         Signed(n) > 0 /\ "unfiltered" \notin mishaps \cup bad =>
           \A c \in 1 .. n : b[c].i # 0 => Dir[b[c].i].ino \notin always,
         Signed(n) > 0 /\ mishaps \cup bad = {} =>
           \E a \in 0 .. pos :
              /\ Shows(a) /\ Linked(SubSeq(b, 1, n), 0, n)
              /\ \A c \in 1 .. n : b[c].i # 0 => a < b[c].i /\ b[c].i <= pos
              /\ \A i \in a + 1 .. pos : Dir[i].ino \in never => \E c \in 1 .. n : b[c].i = i,
         Signed(n) = 0 /\ mishaps \cup bad = {} => Shows(Len(Dir))
  PROVE  IInv'
<1>0. TypeOK /\ pos' = pos /\ never' = never /\ always' = always
      /\ mishaps' = mishaps \cup bad /\ pos \in Nat
  BY Numbers DEF IInv, TypeOK, ReturnWith
<1>1. Signed(n) \in Int /\ (Signed(n) > 0 => n \in 0 .. Len(b))
  <2>1. Signed(n) \in Int
    BY SignedType
  <2>2. Len(b) \in Nat /\ n \in Nat
    BY Numbers
  <2>. QED  BY ONLY <2>1, <2>2, Signed(n) > 0 => n <= Len(b)
<1>. HIDE DEF Shows
<1>2. CASE Signed(n) <= 0
  <2>1. shown' = shown /\ pc' = "over" /\ result' = Signed(n) /\ dirp' = b
    BY ONLY <1>1, <1>2, ReturnWith(n, b, bad) DEF ReturnWith
  <2>2. TypeOK'
    BY ONLY <1>0, <1>1, <2>1, b \in Seq(Cell), buf_length' \in 0 .. Word - 1,
            bad \in SUBSET {"unfiltered", "swallowed"},
            UNCHANGED <<hidden, dirp2, dirp3, head, prev, modified_buf_length, kept, always, never>>
       DEF TypeOK, Cell
  <2>3. ListingHonest'
    BY ONLY <1>0, <2>1, IInv DEF IInv, ListingHonest
  <2>4. Listed'
    <3>1. mishaps' = {} => mishaps = {} /\ mishaps \cup bad = {}
      BY ONLY <1>0
    <3>2. result' = 0 => Shows(Len(Dir))'
      BY ONLY <1>0, <2>1, <3>1, Signed(n) = 0 /\ mishaps \cup bad = {} => Shows(Len(Dir))
         DEF Shows
    <3>. QED  BY ONLY <2>1, <3>2 DEF Listed
  <2>. QED  BY ONLY <2>1, <2>2, <2>3, <2>4 DEF IInv, Called, Scan
<1>3. CASE Signed(n) > 0
  <2>0. n \in 0 .. Len(b) /\ shown \in Seq(1 .. Len(Dir))
    BY ONLY <1>0, <1>1, <1>3 DEF TypeOK
  <2>1. /\ shown' = shown \o Walk(SubSeq(b, 1, n))
        /\ pc' = "idle" /\ result' = Signed(n) /\ dirp' = b
    BY ONLY <1>1, <1>3, ReturnWith(n, b, bad) DEF ReturnWith
  <2>2. /\ shown' \in Seq(1 .. Len(Dir))
        /\ \A k \in DOMAIN shown' : \/ \E j \in DOMAIN shown : shown'[k] = shown[j]
                                    \/ \E c \in 1 .. n : b[c].i # 0 /\ shown'[k] = b[c].i
    <3>1. MetIn(shown \o Walk(SubSeq(b, 1, n)), b, n)
      BY ONLY <2>0, b \in Seq(Cell), Meets
    <3>. QED  BY ONLY <2>1, <3>1 DEF MetIn
  <2>3. TypeOK'
    BY ONLY <1>0, <1>1, <2>1, <2>2, b \in Seq(Cell), buf_length' \in 0 .. Word - 1,
            bad \in SUBSET {"unfiltered", "swallowed"},
            UNCHANGED <<hidden, dirp2, dirp3, head, prev, modified_buf_length, kept, always, never>>
       DEF TypeOK, Cell
  <2>4. ListingHonest'
    <3>. SUFFICES ASSUME "unfiltered" \notin mishaps', NEW k \in DOMAIN shown'
                  PROVE  Dir[shown'[k]].ino \notin always
      BY <1>0 DEF ListingHonest
    <3>1. "unfiltered" \notin mishaps \cup bad
      BY <1>0
    <3>2. \A j \in DOMAIN shown : Dir[shown[j]].ino \notin always
      BY ONLY IInv, <3>1 DEF IInv, ListingHonest
    <3>3. \A c \in 1 .. n : b[c].i # 0 => Dir[b[c].i].ino \notin always
      BY ONLY <1>3, <3>1,
              Signed(n) > 0 /\ "unfiltered" \notin mishaps \cup bad =>
                \A c \in 1 .. n : b[c].i # 0 => Dir[b[c].i].ino \notin always
    <3>. QED  BY ONLY <2>2, <3>2, <3>3, k \in DOMAIN shown'
  <2>5. Shows(pos)'
    <3>. SUFFICES ASSUME mishaps' = {}
                  PROVE  /\ Ascending(shown')
                         /\ \A k \in DOMAIN shown' : shown'[k] <= pos
                         /\ \A i \in 1 .. pos : Dir[i].ino \in never =>
                              \E k \in DOMAIN shown' : shown'[k] = i
      BY <1>0 DEF Shows
    <3>1. mishaps \cup bad = {} /\ mishaps = {}
      BY <1>0
    <3>2. PICK a \in 0 .. pos :
            /\ Shows(a) /\ Linked(SubSeq(b, 1, n), 0, n)
            /\ \A c \in 1 .. n : b[c].i # 0 => a < b[c].i /\ b[c].i <= pos
            /\ \A i \in a + 1 .. pos : Dir[i].ino \in never => \E c \in 1 .. n : b[c].i = i
      BY <1>3, <3>1
    <3>0. a \in Nat /\ a <= pos
      BY ONLY <1>0, a \in 0 .. pos
    <3>. DEFINE r == SubSeq(b, 1, n)
                v == Walk(r)
    <3>3. r \in Seq(Cell) /\ Len(r) = n /\ \A c \in 1 .. n : r[c] = b[c]
      BY ONLY <2>0, b \in Seq(Cell), FirstCells
    <3>4. Linked(r, 0, Len(r))
      BY ONLY <3>2, <3>3
    <3>5. shown' = shown \o v
      BY ONLY <2>1
    <3>. HIDE DEF r
    <3>6. /\ v \in Seq(Nat) /\ ToSet(v) = {r[o + 1].i : o \in Starts(r)} /\ Ascending(v)
      BY ONLY <3>3, <3>4, WalkMeets, WalkLinked
    <3>. HIDE DEF v
    <3>7. /\ Ascending(shown) /\ shown \in Seq(Nat)
          /\ \A j \in DOMAIN shown : shown[j] <= a
          /\ \A i \in 1 .. a : Dir[i].ino \in never => \E j \in DOMAIN shown : shown[j] = i
      BY ONLY <2>0, <3>1, <3>2 DEF Shows
    <3>8. \A k \in DOMAIN v : a < v[k] /\ v[k] <= pos
      <4>. SUFFICES ASSUME NEW k \in DOMAIN v PROVE a < v[k] /\ v[k] <= pos
        OBVIOUS
      <4>1. PICK o \in Starts(r) : v[k] = r[o + 1].i
        BY ONLY <3>6, k \in DOMAIN v DEF ToSet
      <4>2. o + 1 \in 1 .. n /\ r[o + 1].i # 0 /\ r[o + 1] = b[o + 1]
        BY ONLY <3>3, StartType DEF Starts
      <4>. QED  BY ONLY <3>2, <4>1, <4>2
    <3>9. /\ Len(shown') = Len(shown) + Len(v)
          /\ \A k \in 1 .. Len(shown) + Len(v) :
               shown'[k] = IF k <= Len(shown) THEN shown[k] ELSE v[k - Len(shown)]
      BY ONLY <3>5, <3>6, <3>7, ConcatProperties
    <3>10. /\ Len(shown) \in Nat /\ Len(v) \in Nat
           /\ DOMAIN shown = 1 .. Len(shown) /\ DOMAIN v = 1 .. Len(v)
           /\ DOMAIN shown' = 1 .. Len(shown) + Len(v)
      BY ONLY <2>2, <3>6, <3>7, <3>9
    <3>11. ASSUME NEW k \in DOMAIN shown'
           PROVE  /\ k <= Len(shown) => k \in DOMAIN shown /\ shown'[k] = shown[k]
                  /\ k > Len(shown) => /\ k - Len(shown) \in DOMAIN v
                                       /\ shown'[k] = v[k - Len(shown)]
      <4>1. k \in 1 .. Len(shown) + Len(v)
        BY ONLY <3>10, k \in DOMAIN shown'
      <4>. QED  BY ONLY <3>9, <3>10, <4>1
    <3>12. \A k \in DOMAIN shown : shown[k] \in Nat
      BY ONLY <3>7
    <3>13. \A k \in DOMAIN v : v[k] \in Nat
      BY ONLY <3>6
    <3>14. ASSUME NEW j \in DOMAIN shown', NEW k \in DOMAIN shown', j < k
           PROVE  shown'[j] < shown'[k]
      <4>0. j \in Nat /\ k \in Nat
        BY ONLY <3>10, j \in DOMAIN shown', k \in DOMAIN shown'
      <4>1. CASE k <= Len(shown)
        BY ONLY <3>7, <3>10, <3>11, <3>14, <4>0, <4>1 DEF Ascending
      <4>2. CASE k > Len(shown) /\ j <= Len(shown)
        <5>1. shown'[j] <= a /\ shown'[j] \in Nat
          BY ONLY <3>7, <3>11, <3>12, <4>2
        <5>2. a < shown'[k] /\ shown'[k] \in Nat
          BY ONLY <3>8, <3>11, <3>13, <4>2
        <5>. QED  BY ONLY <3>0, <5>1, <5>2
      <4>3. CASE k > Len(shown) /\ j > Len(shown)
        <5>1. j - Len(shown) < k - Len(shown)
          BY ONLY <3>10, <3>14, <4>0
        <5>. QED  BY ONLY <3>6, <3>11, <4>3, <5>1 DEF Ascending
      <4>. QED  BY ONLY <3>10, <3>14, <4>0, <4>1, <4>2, <4>3
    <3>15. ASSUME NEW k \in DOMAIN shown' PROVE shown'[k] <= pos
      <4>1. CASE k <= Len(shown)
        <5>1. shown'[k] <= a /\ shown'[k] \in Nat
          BY ONLY <3>7, <3>11, <3>12, <4>1
        <5>. QED  BY ONLY <1>0, <3>0, <5>1
      <4>2. CASE k > Len(shown)
        BY ONLY <3>8, <3>11, <4>2
      <4>3. k \in Nat
        BY ONLY <3>10, k \in DOMAIN shown'
      <4>. QED  BY ONLY <3>10, <4>1, <4>2, <4>3
    <3>16. ASSUME NEW i \in 1 .. pos, Dir[i].ino \in never
           PROVE  \E k \in DOMAIN shown' : shown'[k] = i
      <4>1. CASE i <= a
        <5>1. i \in 1 .. a
          BY ONLY <1>0, <4>1, i \in 1 .. pos, <3>0
        <5>2. PICK j \in DOMAIN shown : shown[j] = i
          BY ONLY <3>7, <3>16, <5>1
        <5>3. j \in DOMAIN shown' /\ j <= Len(shown)
          BY ONLY <3>10, j \in DOMAIN shown
        <5>. QED  BY ONLY <3>11, <5>2, <5>3
      <4>2. CASE ~(i <= a)
        <5>1. i \in a + 1 .. pos /\ i # 0
          BY ONLY <1>0, <4>2, i \in 1 .. pos, <3>0
        <5>2. PICK c \in 1 .. n : b[c].i = i
          BY ONLY <3>2, <3>16, <5>1
        <5>3. c - 1 \in Starts(r) /\ r[(c - 1) + 1].i = i
          BY ONLY <2>0, <3>3, <5>1, <5>2, c \in 1 .. n DEF Starts
        <5>4. i \in ToSet(v)
          BY ONLY <3>6, <5>3
        <5>5. PICK k \in DOMAIN v : v[k] = i
          BY ONLY <5>4 DEF ToSet
        <5>6. /\ Len(shown) + k \in DOMAIN shown' /\ Len(shown) + k > Len(shown)
              /\ (Len(shown) + k) - Len(shown) = k
          BY ONLY <3>10, k \in DOMAIN v
        <5>. QED  BY ONLY <3>11, <5>5, <5>6
      <4>. QED  BY ONLY <4>1, <4>2
    <3>17. Ascending(shown')
      BY ONLY <3>14 DEF Ascending
    <3>. QED  BY ONLY <3>15, <3>16, <3>17
  <2>6. Listed'
    BY ONLY <2>1, <2>5 DEF Listed
  <2>. QED  BY ONLY <2>1, <2>3, <2>4, <2>6 DEF IInv, Called, Scan
<1>. QED  BY <1>1, <1>2, <1>3

-----------------------------------------------------------------------------
(* The real call, and the ways out without filtering.                      *)

\* What the real call hands out is laid out, and follows what was met.
LEMMA OriginKeeps ==
  ASSUME IInv, NEW last \in 1 .. Len(Dir), OriginGetdents(last)
  PROVE  IInv'
<1>. DEFINE b == Cells(pos + 1, last)
<1>1. /\ TypeOK /\ pc = "idle" /\ pos \in Nat /\ pos <= Len(Dir) /\ Len(Dir) \in Nat
      /\ last \in pos + 1 .. Len(Dir) /\ pos + 1 \in 1 .. Len(Dir)
  BY Numbers DEF IInv, TypeOK, OriginGetdents
<1>2. b \in Seq(Cell) /\ Laid(b, last) /\ b[1].i = pos + 1
  BY ONLY <1>1, CellsLaid
<1>3. dirp' = b /\ Len(b) <= Count /\ buf_length' = Len(b) /\ pos' = last /\ pc' = "alloc"
  BY DEF OriginGetdents
<1>. HIDE DEF b
<1>4. UNCHANGED <<hidden, dirp2, dirp3, head, prev, modified_buf_length, kept,
                  result, shown, mishaps, always, never>>
  BY DEF OriginGetdents
<1>5. Len(b) \in 0 .. Word - 1 /\ last \in 0 .. Len(Dir)
  BY ONLY <1>1, <1>2, <1>3, Numbers
<1>6. TypeOK'
  BY ONLY <1>1, <1>2, <1>3, <1>4, <1>5 DEF TypeOK, Cell
<1>7. ListingHonest'
  BY ONLY IInv, <1>4 DEF IInv, ListingHonest
<1>8. First' = pos + 1 /\ First' \in Nat \ {0} /\ First' - 1 = pos
  BY ONLY <1>1, <1>2, <1>3 DEF First
<1>9. Shows(pos)
  BY ONLY IInv, <1>1 DEF IInv, Listed
<1>10. Shows(First - 1)'
  BY ONLY <1>4, <1>8, <1>9 DEF Shows
<1>11. Filled'
  BY ONLY <1>2, <1>3, <1>8, <1>10 DEF Filled
<1>. QED  BY ONLY <1>3, <1>6, <1>7, <1>11 DEF IInv, Listed, Called, Scan

LEMMA FailsKeeps == ASSUME IInv, OriginFails PROVE IInv'
<1>1. TypeOK /\ pc' = "alloc" /\ dirp' = <<>> /\ buf_length' = (-EINVAL) % Word
  BY DEF IInv, OriginFails
<1>2. UNCHANGED <<hidden, dirp2, dirp3, head, prev, modified_buf_length, kept,
                  pos, result, shown, mishaps, always, never>>
  BY DEF OriginFails
<1>3. buf_length' = Word - EINVAL /\ Word - EINVAL \in 0 .. Word - 1
  <2>1. EINVAL \in 1 .. Word
    BY ONLY Numbers
  <2>. QED  BY ONLY <1>1, <2>1, Numbers
<1>4. TypeOK'
  BY ONLY <1>1, <1>2, <1>3 DEF TypeOK, Cell
<1>5. ListingHonest'
  BY ONLY IInv, <1>2 DEF IInv, ListingHonest
<1>. QED  BY ONLY <1>1, <1>3, <1>4, <1>5 DEF IInv, Listed, Called, Scan

LEMMA EndsKeeps == ASSUME IInv, OriginEnds PROVE IInv'
<1>1. 0 \in 0 .. Word - 1 /\ ~(Signed(0) > 0) /\ 0 \in Nat
  <2>1. 0 \in 0 .. Word - 1
    BY ONLY Numbers
  <2>. QED  BY <2>1, SignedType
<1>2. dirp \in Seq(Cell) /\ {} \in SUBSET {"unfiltered", "swallowed"}
  BY DEF IInv, TypeOK
<1>3. Shows(Len(Dir))
  BY DEF IInv, Listed, OriginEnds
<1>4. /\ ReturnWith(0, dirp, {}) /\ buf_length' \in 0 .. Word - 1
      /\ UNCHANGED <<hidden, dirp2, dirp3, head, prev, modified_buf_length, kept, always, never>>
  BY ONLY <1>1, OriginEnds DEF OriginEnds
<1>. QED  BY ONLY IInv, <1>1, <1>2, <1>3, <1>4, Returns

\* A call that gives up filtering returns an error, or is a mishap.
LEMMA GivesUp ==
  ASSUME IInv, pc = "alloc", NEW bad \in SUBSET {"unfiltered", "swallowed"},
         ReturnWith(buf_length, dirp, bad), UNCHANGED <<hidden, locals, always, never>>,
         Signed(buf_length) > 0 => "unfiltered" \in bad
  PROVE  IInv'
<1>1. dirp \in Seq(Cell) /\ buf_length \in 0 .. Word - 1
  BY DEF IInv, TypeOK
<1>2. /\ buf_length' \in 0 .. Word - 1
      /\ UNCHANGED <<hidden, dirp2, dirp3, head, prev, modified_buf_length, kept, always, never>>
  BY <1>1 DEF locals
<1>3. buf_length # 0 /\ (Signed(buf_length) > 0 => buf_length <= Len(dirp))
  <2>1. CASE buf_length = Word - EINVAL
    <3>1. buf_length >= Word \div 2 /\ buf_length # 0
      BY ONLY <2>1, Numbers
    <3>2. Signed(buf_length) < 0 /\ Signed(buf_length) \in Int
      BY <1>1, <3>1, SignedType
    <3>. QED  BY ONLY <3>1, <3>2
  <2>2. CASE Filled /\ buf_length = Len(dirp)
    <3>1. dirp # <<>>
      BY ONLY <2>2 DEF Filled, Laid
    <3>2. Len(dirp) \in Nat /\ Len(dirp) # 0
      BY ONLY <1>1, <3>1
    <3>. QED  BY ONLY <2>2, <3>2
  <2>. QED  BY ONLY IInv, pc = "alloc", <2>1, <2>2 DEF IInv, Called
<1>4. Signed(buf_length) # 0
  BY ONLY <1>1, <1>3, SignedType
<1>5. Signed(buf_length) > 0 => "unfiltered" \in mishaps \cup bad /\ mishaps \cup bad # {}
  OBVIOUS
<1>. QED  BY ONLY IInv, bad \in SUBSET {"unfiltered", "swallowed"},
              ReturnWith(buf_length, dirp, bad), <1>1, <1>2, <1>3, <1>4, <1>5, Returns

LEMMA OutKeeps == ASSUME IInv, AllocFails \/ CopyInFails PROVE IInv'
<1>1. CASE AllocFails
  <2>. DEFINE bad == IF Signed(buf_length) > 0 THEN {"unfiltered"} ELSE {}
  <2>1. /\ bad \in SUBSET {"unfiltered", "swallowed"}
        /\ Signed(buf_length) > 0 => "unfiltered" \in bad
    OBVIOUS
  <2>2. /\ pc = "alloc" /\ ReturnWith(buf_length, dirp, bad)
        /\ UNCHANGED <<hidden, locals, always, never>>
    BY ONLY <1>1 DEF AllocFails
  <2>. HIDE DEF bad
  <2>. QED  BY ONLY IInv, <2>1, <2>2, GivesUp
<1>2. CASE CopyInFails
  <2>1. /\ pc = "alloc" /\ ReturnWith(buf_length, dirp, {"unfiltered"})
        /\ UNCHANGED <<hidden, locals, always, never>>
    BY ONLY <1>2 DEF CopyInFails
  <2>2. {"unfiltered"} \in SUBSET {"unfiltered", "swallowed"}
    OBVIOUS
  <2>. QED  BY ONLY IInv, <2>1, <2>2, GivesUp
<1>. QED  BY <1>1, <1>2

\* The scan begins on the first record, with nothing judged.
LEMMA CopyInKeeps == ASSUME IInv, CopyIn PROVE IInv'
<1>1. /\ TypeOK /\ pc = "alloc" /\ buf_length <= KmallocMax
      /\ dirp2' = dirp /\ dirp3' = 0 /\ head' = 0 /\ prev' = -1
      /\ modified_buf_length' = buf_length /\ kept' = {} /\ pc' = "scan"
      /\ UNCHANGED <<hidden, buf_length, pos, result, dirp, shown, mishaps, always, never>>
  BY DEF IInv, CopyIn, listing
<1>2. Filled /\ buf_length = Len(dirp)
  <2>1. buf_length # Word - EINVAL
    BY ONLY <1>1, Numbers
  <2>. QED  BY ONLY IInv, <1>1, <2>1 DEF IInv, Called
<1>3. dirp \in Seq(Cell) /\ Len(dirp) \in Nat /\ Len(dirp) > 0 /\ Len(dirp) <= Count
  <2>1. dirp \in Seq(Cell) /\ dirp # <<>> /\ Len(dirp) <= Count
    BY ONLY <1>1, <1>2 DEF TypeOK, Filled, Laid
  <2>. QED  BY ONLY <2>1
<1>4. TypeOK'
  BY ONLY <1>1, <1>2, <1>3, Numbers DEF TypeOK, Cell
<1>5. ListingHonest'
  BY ONLY IInv, <1>1 DEF IInv, ListingHonest
<1>6. Filled'
  BY ONLY <1>1, <1>2 DEF Filled, First, Shows
<1>7. /\ 0 \in Starts(dirp) /\ First \in Nat /\ First <= pos
      /\ Current' = First /\ First' = First
  <2>1. 0 \in Starts(dirp) /\ \A o \in Starts(dirp) : dirp[o + 1].i <= pos
    BY ONLY <1>2, <1>3 DEF Filled, Laid, Linked
  <2>2. dirp[0 + 1].i <= pos /\ 0 + 1 = 1
    BY ONLY <2>1
  <2>3. Current' = dirp[0 + 1].i
    BY ONLY <1>1, <1>3 DEF Current
  <2>. QED  BY ONLY <1>1, <1>2, <2>1, <2>2, <2>3 DEF First, Filled
<1>8. pos \in Nat
  BY ONLY <1>1, Numbers DEF TypeOK
<1>9. Cursor'
  BY ONLY <1>1, <1>2, <1>3, <1>7, <1>8 DEF Cursor
<1>10. Rest'
  BY ONLY <1>1, <1>2, <1>3 DEF Rest
<1>11. Between(dirp2', 0, 0) = {}
  <2>1. \A o \in Starts(dirp2') : ~(0 <= o /\ o < 0)
    BY ONLY <1>1, <1>3, StartType
  <2>. QED  BY ONLY <2>1 DEF Between
<1>12. Judged'
  BY ONLY <1>1, <1>7, <1>11 DEF Judged
<1>13. Exact'
  BY ONLY <1>1, <1>11 DEF Exact, Linked
<1>. QED  BY ONLY <1>1, <1>4, <1>5, <1>6, <1>9, <1>10, <1>12, <1>13
             DEF IInv, Listed, Called, Scan

-----------------------------------------------------------------------------
(* The scan.                                                               *)

\* The record under test is still what the file system gave, and so is what
\* comes after it.
Next3 == dirp3 + Here.len
OnRecord ==
  /\ dirp \in Seq(Cell) /\ dirp2 \in Seq(Cell) /\ Len(dirp2) = Len(dirp)
  /\ Len(dirp) \in Nat /\ dirp3 \in Nat /\ dirp3 < Len(dirp) /\ pos \in Nat
  /\ dirp3 \in Starts(dirp2)
  /\ Current = Here.i /\ dirp2[dirp3 + 1] = Here
  /\ First \in Nat /\ Here.i \in 1 .. Len(Dir) /\ Here.i <= pos /\ First <= Here.i
  /\ HereIno = Dir[Here.i].ino
  /\ Here.len \in Nat /\ Next3 \in Nat /\ dirp3 < Next3 /\ Next3 <= Len(dirp)
  /\ Next3 < Len(dirp) => Next3 \in Starts(dirp) /\ dirp[Next3 + 1].i = Here.i + 1
  /\ Next3 = Len(dirp) => Here.i = pos
  /\ \A c \in Next3 + 1 .. Len(dirp) : dirp2[c] = dirp[c]
  /\ \A c \in dirp3 + 2 .. Next3 : dirp2[c].i = 0

LEMMA HereIs == ASSUME IInv, Scanning PROVE OnRecord
<1>1. /\ dirp \in Seq(Cell) /\ dirp2 \in Seq(Cell) /\ Len(dirp2) = Len(dirp)
      /\ Len(dirp) \in Nat /\ dirp3 \in Nat /\ dirp3 < Len(dirp) /\ pos \in Nat
      /\ Filled /\ Cursor
  <2>1. TypeOK /\ Filled /\ Cursor /\ dirp3 < buf_length
    BY ONLY IInv, Scanning DEF IInv, Scan, Scanning
  <2>2. dirp \in Seq(Cell) /\ dirp2 \in Seq(Cell) /\ dirp3 \in Nat /\ pos \in Nat
    BY ONLY <2>1, Numbers DEF TypeOK
  <2>3. Len(dirp2) = Len(dirp) /\ dirp3 < Len(dirp)
    BY ONLY <2>1 DEF Cursor
  <2>. QED  BY ONLY <2>1, <2>2, <2>3
<1>2. dirp3 \in Starts(dirp) /\ Current = dirp[dirp3 + 1].i /\ First <= Current
  BY ONLY <1>1 DEF Cursor, Current
<1>3. dirp2[dirp3 + 1] = dirp[dirp3 + 1] /\ Here = dirp[dirp3 + 1]
  <2>1. dirp3 + 1 \in dirp3 + 1 .. Len(dirp)
    BY ONLY <1>1
  <2>. QED  BY ONLY <1>1, <2>1 DEF Cursor, Here
<1>4. /\ Here.i \in 1 .. Len(Dir) /\ Here.i # 0 /\ Here.len \in Nat
      /\ Next3 \in Nat /\ Next3 = After(dirp, dirp3)
  BY ONLY <1>1, <1>2, <1>3, Numbers, StartType DEF Next3, After
<1>5. Laid(dirp, pos) /\ Linked(dirp, 0, Len(dirp)) /\ dirp3 \in Between(dirp, 0, Len(dirp))
  BY ONLY <1>1, <1>2 DEF Filled, Laid, Between
<1>6. /\ Here.i <= pos
      /\ Next3 < Len(dirp) => dirp[Next3 + 1].i = Here.i + 1
      /\ Next3 = Len(dirp) => Here.i = pos
  BY ONLY <1>2, <1>3, <1>4, <1>5 DEF Laid
<1>7. /\ dirp3 < Next3 /\ Next3 <= Len(dirp)
      /\ Between(dirp, dirp3 + 1, Next3) = {}
      /\ Next3 < Len(dirp) => Next3 \in Starts(dirp)
  BY ONLY <1>4, <1>5 DEF Linked
<1>8. \A c \in dirp3 + 1 .. Len(dirp) : dirp2[c] = dirp[c]
  BY ONLY <1>1 DEF Cursor
<1>9. \A c \in Next3 + 1 .. Len(dirp) : dirp2[c] = dirp[c]
  BY ONLY <1>1, <1>4, <1>7, <1>8
<1>10. ASSUME NEW c \in dirp3 + 2 .. Next3 PROVE dirp2[c].i = 0
  <2>1. /\ c \in dirp3 + 1 .. Len(dirp) /\ c - 1 \in 0 .. Len(dirp) - 1
        /\ dirp3 + 1 <= c - 1 /\ c - 1 < Next3 /\ (c - 1) + 1 = c
    BY ONLY <1>1, <1>4, <1>7, c \in dirp3 + 2 .. Next3
  <2>2. c - 1 \notin Starts(dirp)
    BY ONLY <1>7, <2>1 DEF Between
  <2>3. dirp[c].i = 0
    BY ONLY <2>1, <2>2 DEF Starts
  <2>. QED  BY ONLY <1>8, <2>1, <2>3
<1>11. dirp3 \in Starts(dirp2)
  BY ONLY <1>1, <1>2, <1>3 DEF Starts
<1>12. HereIno = Dir[Here.i].ino
  BY ONLY <1>4 DEF HereIno
<1>13. First \in Nat
  BY ONLY <1>1 DEF Filled
<1>. QED  BY ONLY <1>1, <1>2, <1>3, <1>4, <1>6, <1>7, <1>9, <1>10, <1>11, <1>12, <1>13
             DEF OnRecord

\* The scan goes on to the next record.
LEMMA CursorKeeps ==
  ASSUME IInv, Scanning, OnRecord, dirp3' = Next3, UNCHANGED <<buf_length, pos, dirp>>,
         Len(dirp2') = Len(dirp2),
         \A c \in Next3 + 1 .. Len(dirp) : dirp2'[c] = dirp2[c]
  PROVE  Cursor' /\ Current' = Here.i + 1 /\ First' = First
<1>1. First' = First
  BY DEF First
<1>2. Current' = Here.i + 1
  BY ONLY OnRecord, dirp3' = Next3, UNCHANGED <<buf_length, pos, dirp>>
     DEF OnRecord, Current
<1>3. buf_length = Len(dirp)
  BY DEF IInv, Scan, Cursor, Scanning
<1>4. First' <= Current' /\ Current' <= pos' + 1
  BY ONLY OnRecord, <1>1, <1>2, UNCHANGED <<buf_length, pos, dirp>>, Numbers DEF OnRecord
<1>5. \A c \in Next3 + 1 .. Len(dirp) : dirp2'[c] = dirp[c]
  BY ONLY OnRecord, \A c \in Next3 + 1 .. Len(dirp) : dirp2'[c] = dirp2[c] DEF OnRecord
<1>6. /\ Len(dirp2') = Len(dirp) /\ Next3 <= Len(dirp)
      /\ Next3 < Len(dirp) => Next3 \in Starts(dirp)
  BY ONLY OnRecord, Len(dirp2') = Len(dirp2) DEF OnRecord
<1>7. Cursor'
  BY ONLY <1>3, <1>4, <1>5, <1>6, dirp3' = Next3, UNCHANGED <<buf_length, pos, dirp>>
     DEF Cursor
<1>. QED  BY ONLY <1>1, <1>2, <1>7

\* What a step of the scan leaves alone.
LEMMA ScanStays ==
  ASSUME IInv, Scanning, UNCHANGED <<hidden, pc, buf_length, pos, result, dirp, shown, always, never>>,
         mishaps' \in {mishaps, mishaps \cup {"wrapped"}}
  PROVE  /\ ListingHonest' /\ Listed' /\ Called' /\ Filled' /\ pc' = "scan"
         /\ hidden \subseteq Inos /\ always \subseteq hidden /\ never \subseteq Inos \ hidden
<1>1. pc = "scan" /\ Filled /\ TypeOK
  BY DEF Scanning, IInv, Scan
<1>2. ListingHonest'
  BY ONLY IInv, UNCHANGED <<hidden, pc, buf_length, pos, result, dirp, shown, always, never>>,
          mishaps' \in {mishaps, mishaps \cup {"wrapped"}} DEF IInv, ListingHonest
<1>3. Shows(First - 1)'
  <2>1. First' = First
    BY DEF First
  <2>2. mishaps' = {} => mishaps = {}
    OBVIOUS
  <2>3. Shows(First - 1)
    BY ONLY <1>1 DEF Filled
  <2>. QED
    BY ONLY <2>1, <2>2, <2>3,
            UNCHANGED <<hidden, pc, buf_length, pos, result, dirp, shown, always, never>> DEF Shows
<1>4. Filled'
  BY ONLY <1>1, <1>3, UNCHANGED <<hidden, pc, buf_length, pos, result, dirp, shown, always, never>>
     DEF Filled, First
<1>5. pc' = "scan"
  BY ONLY <1>1, UNCHANGED <<hidden, pc, buf_length, pos, result, dirp, shown, always, never>>
<1>. QED  BY ONLY <1>1, <1>2, <1>4, <1>5 DEF Listed, Called, TypeOK

\* A visible record is linked behind the last one.
LEMMA KeepKeeps == ASSUME IInv, Keep PROVE IInv'
<1>1. /\ Scanning /\ HereIno \notin hidden /\ prev' = dirp3
      /\ kept' = kept \cup {Here.i} /\ dirp3' = Next3
      /\ UNCHANGED <<hidden, pc, dirp2, head, buf_length, modified_buf_length,
                     pos, result, dirp, shown, mishaps, always, never>>
  BY DEF Keep, NextRecord, Next3, listing
<1>2. OnRecord /\ TypeOK /\ Rest /\ Judged /\ Exact
  BY ONLY IInv, <1>1, HereIs DEF IInv, Scan, Scanning
<1>3. /\ ListingHonest' /\ Listed' /\ Called' /\ Filled' /\ pc' = "scan"
      /\ hidden \subseteq Inos /\ always \subseteq hidden /\ never \subseteq Inos \ hidden
  BY ONLY IInv, <1>1, ScanStays
<1>4. Cursor' /\ Current' = Here.i + 1 /\ First' = First
  BY ONLY IInv, <1>1, <1>2, CursorKeeps
<1>. DEFINE d == dirp3
            n == Next3
            x == Here.i
<1>5. /\ d \in Nat /\ n \in Nat /\ d < n /\ n <= Len(dirp) /\ Len(dirp) \in Nat
      /\ x \in 1 .. Len(Dir) /\ x \in Nat /\ First \in Nat /\ First <= x /\ Current = x
      /\ d \in Starts(dirp2) /\ dirp2[d + 1].i = x /\ After(dirp2, d) = n
      /\ HereIno = Dir[x].ino /\ Len(dirp2) = Len(dirp) /\ dirp2 \in Seq(Cell)
  BY ONLY <1>2, Numbers DEF OnRecord, Next3, After
<1>6. \A c \in d + 2 .. n : dirp2[c].i = 0
  BY ONLY <1>2 DEF OnRecord
<1>7. head \in Nat /\ head <= d /\ Len(dirp) <= Count
  BY ONLY <1>2, <1>3, <1>1, Numbers DEF TypeOK, Rest, Filled
<1>8. TypeOK'
  <2>1. n \in 0 .. Count /\ d \in -1 .. Count /\ x \in 1 .. Len(Dir)
    BY ONLY <1>5, <1>7, Numbers
  <2>. HIDE DEF n, x
  <2>2. dirp3' \in 0 .. Count /\ prev' \in -1 .. Count
    BY ONLY <1>1, <2>1 DEF n
  <2>3. kept' \subseteq 1 .. Len(Dir)
    BY ONLY <1>1, <1>2, <2>1 DEF x, TypeOK
  <2>. QED  BY ONLY <1>1, <1>2, <2>2, <2>3 DEF TypeOK, Cell
<1>9. Between(dirp2, d + 1, n) = {}
  <2>. SUFFICES ASSUME NEW o \in Between(dirp2, d + 1, n) PROVE FALSE
    OBVIOUS
  <2>1. o \in Starts(dirp2) /\ d + 1 <= o /\ o < n /\ o \in Nat
    BY ONLY <1>5, o \in Between(dirp2, d + 1, n), StartType DEF Between
  <2>2. o + 1 \in d + 2 .. n
    BY ONLY <1>5, <2>1
  <2>. QED  BY ONLY <1>6, <2>1, <2>2 DEF Starts
<1>10. Between(dirp2, head, n) = Between(dirp2, head, d) \cup {d}
  <2>1. \A o \in Starts(dirp2) : o \in Nat
    BY ONLY <1>5, StartType
  <2>2. \A o \in Starts(dirp2) : ~(d + 1 <= o /\ o < n)
    BY ONLY <1>9 DEF Between
  <2>. HIDE DEF n, d, x
  <2>3. ASSUME NEW o \in Starts(dirp2)
        PROVE  head <= o /\ o < n <=> (head <= o /\ o < d) \/ o = d
    <3>1. o \in Nat /\ ~(d + 1 <= o /\ o < n)
      BY ONLY <2>1, <2>2, o \in Starts(dirp2)
    <3>. QED  BY ONLY <1>5, <1>7, <3>1
  <2>4. d \in Starts(dirp2)
    BY ONLY <1>5
  <2>. QED  BY ONLY <2>3, <2>4 DEF Between
<1>. HIDE DEF d, n, x
<1>11. dirp3' = n /\ prev' = d /\ kept' = kept \cup {x} /\ dirp3 = d /\ Current' = x + 1
  BY <1>1, <1>4 DEF d, n, x
<1>12. head \in Starts(dirp2)
  <2>1. CASE prev = -1
    BY ONLY <1>2, <1>5, <1>11, <2>1 DEF Rest
  <2>2. CASE prev # -1
    BY ONLY <1>2, <2>2 DEF Rest
  <2>. QED  BY ONLY <2>1, <2>2
<1>13. Rest'
  <2>1. prev' # -1 /\ prev' \in Between(dirp2, head, n) /\ kept' # {}
    BY ONLY <1>5, <1>10, <1>11
  <2>2. head + modified_buf_length = Len(dirp) /\ head <= n
    BY ONLY <1>2, <1>5, <1>7 DEF Rest
  <2>. QED  BY ONLY <1>1, <1>11, <1>12, <2>1, <2>2 DEF Rest
<1>14. Judged'
  <2>1. \A o \in Between(dirp2, head, n) : dirp2[o + 1].i \in kept \cup {x}
    BY ONLY <1>2, <1>5, <1>10, <1>11 DEF Judged
  <2>2. \A i \in kept \cup {x} : First <= i /\ i < x + 1 /\ Dir[i].ino \notin always
    <3>1. \A i \in kept : i \in Nat /\ First <= i /\ i < x /\ Dir[i].ino \notin always
      BY ONLY <1>2, <1>5, Numbers DEF Judged, TypeOK
    <3>2. Dir[x].ino \notin always
      BY ONLY <1>1, <1>3, <1>5
    <3>. QED  BY ONLY <1>5, <3>1, <3>2
  <2>3. \A i \in First .. (x + 1) - 1 : Dir[i].ino \in never => i \in kept \cup {x}
    <3>1. \A i \in First .. x - 1 : Dir[i].ino \in never => i \in kept
      BY ONLY <1>2, <1>5 DEF Judged
    <3>2. \A i \in First .. (x + 1) - 1 : i \in First .. x - 1 \/ i = x
      BY ONLY <1>5
    <3>. QED  BY ONLY <3>1, <3>2
  <2>. QED  BY ONLY <1>1, <1>4, <1>11, <2>1, <2>2, <2>3 DEF Judged
<1>15. ASSUME "wrapped" \notin mishaps
       PROVE  /\ Linked(dirp2, head, n) /\ After(dirp2, d) = n
              /\ \A i \in kept \cup {x} :
                   \E o \in Between(dirp2, head, n) : dirp2[o + 1].i = i
  <2>1. /\ Linked(dirp2, head, d) /\ (prev # -1 => After(dirp2, prev) = d)
        /\ \A i \in kept : \E o \in Between(dirp2, head, d) : dirp2[o + 1].i = i
    BY ONLY <1>2, <1>11, "wrapped" \notin mishaps DEF Exact
  <2>2. ASSUME NEW o \in Between(dirp2, head, n)
        PROVE  /\ o < After(dirp2, o) /\ After(dirp2, o) <= n
               /\ Between(dirp2, o + 1, After(dirp2, o)) = {}
               /\ After(dirp2, o) < n => /\ After(dirp2, o) \in Starts(dirp2)
                                        /\ dirp2[o + 1].i < dirp2[After(dirp2, o) + 1].i
    <3>1. CASE o = d
      BY ONLY <1>5, <1>9, <3>1
    <3>2. CASE o \in Between(dirp2, head, d)
      <4>1. /\ o < After(dirp2, o) /\ After(dirp2, o) <= d /\ After(dirp2, o) \in Nat
            /\ Between(dirp2, o + 1, After(dirp2, o)) = {}
            /\ After(dirp2, o) < d => /\ After(dirp2, o) \in Starts(dirp2)
                                      /\ dirp2[o + 1].i < dirp2[After(dirp2, o) + 1].i
        BY ONLY <1>5, <2>1, <3>2, StartType DEF Linked, Between
      <4>2. dirp2[o + 1].i < x
        BY ONLY <1>2, <1>5, <1>11, <3>2 DEF Judged
      <4>3. After(dirp2, o) = d => /\ After(dirp2, o) \in Starts(dirp2)
                                   /\ dirp2[o + 1].i < dirp2[After(dirp2, o) + 1].i
        BY ONLY <1>5, <4>2
      <4>. QED  BY ONLY <1>5, <4>1, <4>3
    <3>. QED  BY ONLY <1>10, <2>2, <3>1, <3>2
  <2>3. Linked(dirp2, head, n)
    BY ONLY <1>12, <2>2 DEF Linked
  <2>4. ASSUME NEW i \in kept \cup {x}
        PROVE  \E o \in Between(dirp2, head, n) : dirp2[o + 1].i = i
    BY ONLY <1>5, <1>10, <2>1, <2>4
  <2>. QED  BY ONLY <1>5, <2>3, <2>4
<1>16. /\ dirp2' = dirp2 /\ head' = head /\ mishaps' = mishaps
       /\ dirp3' = n /\ prev' = d /\ kept' = kept \cup {x}
  BY ONLY <1>1, <1>11
<1>17. Exact'
  <2>1. CASE "wrapped" \in mishaps
    BY ONLY <1>16, <2>1 DEF Exact
  <2>2. CASE "wrapped" \notin mishaps
    <3>1. Linked(dirp2, head, dirp3)' /\ (After(dirp2, prev) = dirp3)'
      BY ONLY <1>15, <1>16, <2>2
    <3>2. (\A i \in kept : \E o \in Between(dirp2, head, dirp3) : dirp2[o + 1].i = i)'
      BY ONLY <1>15, <1>16, <2>2
    <3>. QED  BY ONLY <3>1, <3>2 DEF Exact
  <2>. QED  BY ONLY <2>1, <2>2
<1>. QED  BY ONLY <1>3, <1>4, <1>8, <1>13, <1>14, <1>17 DEF IInv, Scan

\* Nothing lies between an offset and itself.
LEMMA NothingBetween ==
  ASSUME NEW b, b \in Seq(Cell), NEW o \in Nat PROVE Between(b, o, o) = {}
<1>1. \A q \in Starts(b) : q \in Nat
  BY StartType
<1>. QED  BY ONLY <1>1, o \in Nat DEF Between

\* Hidden records before every visible one are cut off.
LEMMA CutHeadKeeps == ASSUME IInv, CutHead PROVE IInv'
<1>1. /\ Scanning /\ HereIno \in hidden /\ prev = -1 /\ prev' = prev
      /\ head' = Next3 /\ modified_buf_length' = modified_buf_length - Here.len
      /\ dirp3' = Next3
      /\ UNCHANGED <<hidden, pc, dirp2, buf_length, kept, pos, result, dirp, shown, mishaps,
                     always, never>>
  BY DEF CutHead, NextRecord, Next3, listing
<1>2. OnRecord /\ TypeOK /\ Rest /\ Judged
  BY ONLY IInv, <1>1, HereIs DEF IInv, Scan, Scanning
<1>3. /\ ListingHonest' /\ Listed' /\ Called' /\ Filled' /\ pc' = "scan"
      /\ hidden \subseteq Inos /\ always \subseteq hidden /\ never \subseteq Inos \ hidden
  BY ONLY IInv, <1>1, ScanStays
<1>4. Cursor' /\ Current' = Here.i + 1 /\ First' = First
  BY ONLY IInv, <1>1, <1>2, CursorKeeps
<1>5. /\ dirp3 \in Nat /\ Next3 \in Nat /\ dirp3 < Next3 /\ Next3 <= Len(dirp) /\ Len(dirp) \in Nat
      /\ Next3 = dirp3 + Here.len /\ Here.len \in Nat
      /\ Here.i \in Nat /\ First \in Nat /\ First <= Here.i /\ Current = Here.i
      /\ HereIno = Dir[Here.i].ino /\ dirp2 \in Seq(Cell)
  BY ONLY <1>2, Numbers DEF OnRecord, Next3
<1>6. head = dirp3 /\ kept = {} /\ head + modified_buf_length = Len(dirp) /\ Len(dirp) <= Count
  <2>1. Filled
    BY ONLY IInv, <1>1 DEF IInv, Scan, Scanning
  <2>. QED  BY ONLY <1>1, <1>2, <2>1 DEF Rest, Filled
<1>7. modified_buf_length \in Nat
  BY ONLY <1>2, Numbers DEF TypeOK
<1>8. Next3 \in 0 .. Count /\ modified_buf_length' \in 0 .. Count
      /\ Next3 + modified_buf_length' = Len(dirp)
  <2>1. modified_buf_length' = modified_buf_length - Here.len
    BY ONLY <1>1
  <2>2. modified_buf_length = Len(dirp) - dirp3 /\ Here.len <= Len(dirp) - dirp3
    BY ONLY <1>5, <1>6, <1>7
  <2>3. modified_buf_length' \in Nat /\ Next3 + modified_buf_length' = Len(dirp)
    BY ONLY <1>5, <1>7, <2>1, <2>2
  <2>. QED  BY ONLY <1>5, <1>6, <2>3, Numbers
<1>9. TypeOK'
  BY ONLY <1>1, <1>2, <1>8 DEF TypeOK, Cell
<1>10. Rest'
  BY ONLY <1>1, <1>5, <1>6, <1>8 DEF Rest
<1>11. Between(dirp2, Next3, Next3) = {}
  BY ONLY <1>5, NothingBetween
<1>12. Judged'
  <2>1. ASSUME NEW i \in First .. (Here.i + 1) - 1 PROVE Dir[i].ino \notin never
    <3>1. i \in First .. Here.i - 1 \/ i = Here.i
      BY ONLY <1>5, i \in First .. (Here.i + 1) - 1
    <3>2. \A j \in First .. Here.i - 1 : Dir[j].ino \notin never
      BY ONLY <1>2, <1>5, <1>6 DEF Judged
    <3>. QED  BY ONLY <1>1, <1>3, <1>5, <3>1, <3>2
  <2>. QED  BY ONLY <1>1, <1>4, <1>6, <1>11, <2>1 DEF Judged
<1>13. Exact'
  BY ONLY <1>1, <1>5, <1>6, <1>11 DEF Exact, Linked
<1>. QED  BY ONLY <1>3, <1>4, <1>9, <1>10, <1>12, <1>13 DEF IInv, Scan

\* A buffer with the cells from d to n zeroed and the length at p replaced.
Merged(w, b, d, n, p, v) ==
  /\ w \in Seq(Cell) /\ Len(w) = Len(b) /\ w[p + 1].len = v
  /\ \A c \in 1 .. Len(b) : c \in d + 1 .. n => w[c].i = 0
  /\ \A c \in 1 .. Len(b) : c \notin d + 1 .. n => w[c].i = b[c].i
  /\ \A c \in 1 .. Len(b) : c \notin d + 1 .. n /\ c # p + 1 => w[c] = b[c]

LEMMA MergedCells ==
  ASSUME NEW b, b \in Seq(Cell), NEW d \in Nat, NEW n \in Nat, d < n, n <= Len(b),
         NEW p \in 0 .. d - 1, NEW v \in 0 .. Short - 1
  PROVE  Merged([Zeroed(b, d, n - d) EXCEPT ![p + 1].len = v], b, d, n, p, v)
<1>. DEFINE z == Zeroed(b, d, n - d)
            w == [Zeroed(b, d, n - d) EXCEPT ![p + 1].len = v]
<1>0. /\ Len(b) \in Nat /\ p + 1 \in 1 .. Len(b) /\ p + 1 \notin d + 1 .. n
      /\ d + (n - d) = n /\ Short \in Nat /\ Len(Dir) \in Nat
  <2>1. Len(b) \in Nat
    OBVIOUS
  <2>2. p \in Nat /\ p < d
    BY ONLY d \in Nat, p \in 0 .. d - 1
  <2>. QED  BY ONLY <2>1, <2>2, d \in Nat, n \in Nat, d < n, n <= Len(b), Numbers
<1>1. NoRecord \in Cell
  BY ONLY <1>0, v \in 0 .. Short - 1 DEF NoRecord, Cell
<1>2. z = [c \in 1 .. Len(b) |-> IF c \in d + 1 .. n THEN NoRecord ELSE b[c]]
  <2>1. DOMAIN b = 1 .. Len(b)
    OBVIOUS
  <2>. QED  BY ONLY <1>0, <2>1 DEF Zeroed
<1>. HIDE DEF z
<1>3. z \in [1 .. Len(b) -> Cell]
  <2>1. \A c \in 1 .. Len(b) : b[c] \in Cell
    OBVIOUS
  <2>. QED  BY ONLY <1>1, <1>2, <2>1
<1>4. z[p + 1] = b[p + 1] /\ z[p + 1] \in Cell
  BY ONLY <1>0, <1>2, <1>3
<1>. DEFINE x == [z[p + 1] EXCEPT !.len = v]
<1>5. x \in Cell /\ x.len = v /\ x.i = b[p + 1].i
  BY ONLY <1>4, v \in 0 .. Short - 1 DEF Cell
<1>6. w = [z EXCEPT ![p + 1] = x]
  BY DEF z
<1>. HIDE DEF x, w
<1>7. w \in [1 .. Len(b) -> Cell] /\ w[p + 1] = x /\ \A c \in 1 .. Len(b) : c # p + 1 => w[c] = z[c]
  BY ONLY <1>0, <1>3, <1>5, <1>6
<1>8. w \in Seq(Cell) /\ Len(w) = Len(b)
  BY ONLY <1>0, <1>7
<1>9. \A c \in 1 .. Len(b) : c \in d + 1 .. n => w[c].i = 0
  BY ONLY <1>0, <1>2, <1>7 DEF NoRecord
<1>10. \A c \in 1 .. Len(b) : c \notin d + 1 .. n /\ c # p + 1 => w[c] = b[c]
  BY ONLY <1>2, <1>7
<1>11. \A c \in 1 .. Len(b) : c \notin d + 1 .. n => w[c].i = b[c].i
  BY ONLY <1>5, <1>7, <1>10
<1>12. Merged(w, b, d, n, p, v)
  BY ONLY <1>5, <1>7, <1>8, <1>9, <1>10, <1>11 DEF Merged
<1>. QED  BY ONLY <1>12 DEF w

\* Any other hidden record is merged into the visible one before it.
LEMMA MergeKeeps == ASSUME IInv, Merge PROVE IInv'
<1>. DEFINE d == dirp3
            n == Next3
            x == Here.i
            sum == dirp2[prev + 1].len + Here.len
            b == dirp2
            w == dirp2'
<1>1. /\ Scanning /\ HereIno \in hidden /\ prev # -1 /\ dirp3' = Next3
      /\ w = [Zeroed(b, d, Here.len) EXCEPT ![prev + 1].len = Narrow(sum)]
      /\ mishaps' = mishaps \cup IF sum >= Short THEN {"wrapped"} ELSE {}
      /\ UNCHANGED <<hidden, pc, head, prev, buf_length, modified_buf_length, kept, pos,
                     result, dirp, shown, always, never>>
  BY DEF Merge, NextRecord, Next3
<1>2. OnRecord /\ TypeOK /\ Rest /\ Judged /\ Exact
  BY ONLY IInv, <1>1, HereIs DEF IInv, Scan, Scanning
<1>3. /\ ListingHonest' /\ Listed' /\ Called' /\ Filled' /\ pc' = "scan"
      /\ hidden \subseteq Inos /\ always \subseteq hidden /\ never \subseteq Inos \ hidden
  <2>1. mishaps' \in {mishaps, mishaps \cup {"wrapped"}}
    BY ONLY <1>1
  <2>. QED  BY ONLY IInv, <1>1, <2>1, ScanStays
<1>4. /\ d \in Nat /\ n \in Nat /\ d < n /\ n <= Len(b) /\ Len(b) \in Nat /\ n - d = Here.len
      /\ x \in Nat /\ First \in Nat /\ First <= x /\ Current = x /\ Len(b) = Len(dirp)
      /\ Here.len \in Nat /\ HereIno = Dir[x].ino /\ b \in Seq(Cell)
  BY ONLY <1>2, Numbers DEF OnRecord, Next3
<1>5. prev \in Between(b, head, d) /\ head \in Starts(b)
  BY ONLY <1>1, <1>2 DEF Rest
<1>. HIDE DEF d, n, x, b
<1>6. /\ prev \in Starts(b) /\ prev \in Nat /\ prev < d /\ head <= prev /\ head \in Nat
      /\ head < d /\ b[prev + 1].len \in Nat
  BY ONLY <1>4, <1>5, StartType DEF Between
<1>7. sum \in Nat /\ Narrow(sum) \in 0 .. Short - 1 /\ (sum < Short => Narrow(sum) = sum)
  <2>1. sum \in Nat
    BY ONLY <1>4, <1>6 DEF b
  <2>2. Short \in Nat \ {0}
    BY ONLY <1>4, <1>6, CellType, Numbers, StartType
  <2>. HIDE DEF sum
  <2>. QED  BY ONLY <2>1, <2>2 DEF Narrow
<1>. HIDE DEF sum, w
<1>8. /\ w \in Seq(Cell) /\ Len(w) = Len(b) /\ w[prev + 1].len = Narrow(sum)
      /\ \A c \in 1 .. Len(b) : c \in d + 1 .. n => w[c].i = 0
      /\ \A c \in 1 .. Len(b) : c \notin d + 1 .. n => w[c].i = b[c].i
      /\ \A c \in 1 .. Len(b) : c \notin d + 1 .. n /\ c # prev + 1 => w[c] = b[c]
  <2>1. prev \in 0 .. d - 1
    BY ONLY <1>4, <1>6
  <2>2. w = [Zeroed(b, d, n - d) EXCEPT ![prev + 1].len = Narrow(sum)]
    BY ONLY <1>1, <1>4
  <2>3. Merged([Zeroed(b, d, n - d) EXCEPT ![prev + 1].len = Narrow(sum)],
               b, d, n, prev, Narrow(sum))
    BY ONLY <1>4, <1>7, <2>1, MergedCells
  <2>4. Merged(w, b, d, n, prev, Narrow(sum))
    BY ONLY <2>2, <2>3
  <2>. QED  BY ONLY <2>4 DEF Merged
<1>9. dirp3' = n /\ dirp3 = d /\ dirp2' = w /\ dirp2 = b
  BY <1>1 DEF d, n, b, w
<1>10. Cursor' /\ Current' = x + 1 /\ First' = First
  <2>1. \A c \in Next3 + 1 .. Len(dirp) : dirp2'[c] = dirp2[c]
    <3>1. ASSUME NEW c \in n + 1 .. Len(b) PROVE w[c] = b[c]
      <4>1. c \in 1 .. Len(b) /\ c \notin d + 1 .. n /\ c # prev + 1
        BY ONLY <1>4, <1>6, c \in n + 1 .. Len(b)
      <4>. QED  BY ONLY <1>8, <4>1
    <3>2. \A c \in n + 1 .. Len(dirp) : dirp2'[c] = dirp2[c]
      <4>1. \A c \in n + 1 .. Len(dirp) : w[c] = b[c]
        BY ONLY <1>4, <3>1
      <4>. QED  BY ONLY <1>9, <4>1
    <3>3. n = Next3
      BY ONLY <1>1, <1>9
    <3>. QED  BY ONLY <3>2, <3>3
  <2>2. Len(dirp2') = Len(dirp2)
    BY ONLY <1>8, <1>9
  <2>3. Cursor' /\ Current' = Here.i + 1 /\ First' = First
    BY ONLY IInv, <1>1, <1>2, <2>1, <2>2, CursorKeeps
  <2>. QED  BY ONLY <2>3 DEF x
<1>11. ASSUME NEW o \in Starts(w) PROVE o \in Starts(b) /\ ~(d <= o /\ o < n) /\ w[o + 1].i = b[o + 1].i
  <2>1. o \in 0 .. Len(b) - 1 /\ o + 1 \in 1 .. Len(b) /\ w[o + 1].i # 0 /\ o \in Nat
    <3>1. o \in 0 .. Len(w) - 1 /\ w[o + 1].i # 0
      BY ONLY o \in Starts(w) DEF Starts
    <3>. QED  BY ONLY <1>4, <1>8, <3>1
  <2>2. o + 1 \notin d + 1 .. n
    BY ONLY <1>8, <2>1
  <2>3. ~(d <= o /\ o < n)
    BY ONLY <1>4, <2>1, <2>2
  <2>. QED  BY ONLY <1>8, <2>1, <2>2, <2>3 DEF Starts
<1>12. ASSUME NEW o \in Starts(b), o < d PROVE o \in Starts(w) /\ w[o + 1].i = b[o + 1].i
  <2>1. /\ o \in 0 .. Len(b) - 1 /\ o + 1 \in 1 .. Len(b) /\ b[o + 1].i # 0
        /\ o + 1 \notin d + 1 .. n
    BY ONLY <1>4, <1>12, o \in Starts(b) DEF Starts
  <2>2. w[o + 1].i = b[o + 1].i /\ o \in 0 .. Len(w) - 1
    BY ONLY <1>8, <2>1
  <2>. QED  BY ONLY <2>1, <2>2 DEF Starts
<1>13. \A o \in Starts(b) : o \in Nat
  BY ONLY <1>4, StartType
<1>14. ASSUME NEW h \in Nat, NEW e \in Nat, e <= d PROVE Between(w, h, e) = Between(b, h, e)
  BY ONLY <1>4, <1>11, <1>12, <1>13, <1>14 DEF Between
<1>15. ASSUME NEW h \in Nat PROVE Between(w, h, n) = Between(b, h, d)
  <2>1. ASSUME NEW o \in Starts(w) PROVE o < n => o \in Starts(b) /\ o < d
    BY ONLY <1>4, <1>11, <1>13, o \in Starts(w)
  <2>2. ASSUME NEW o \in Starts(b), o < d PROVE o \in Starts(w) /\ o < n
    BY ONLY <1>4, <1>12, <1>13, <2>2, o \in Starts(b)
  <2>. QED  BY ONLY <2>1, <2>2 DEF Between
<1>16. TypeOK'
  <2>1. n \in 0 .. Count
    BY ONLY <1>1, <1>3, <1>4, Numbers DEF Filled
  <2>2. mishaps' \subseteq {"unfiltered", "wrapped", "swallowed"}
    BY ONLY <1>1, <1>2 DEF TypeOK
  <2>. QED  BY ONLY <1>1, <1>2, <1>8, <1>9, <2>1, <2>2 DEF TypeOK, Cell
<1>17. head \in Starts(w)
  BY ONLY <1>5, <1>6, <1>12
<1>18. Rest'
  <2>1. prev \in Between(w, head, n)
    BY ONLY <1>5, <1>6, <1>15
  <2>2. head + modified_buf_length = Len(dirp) /\ head <= n /\ kept # {}
    BY ONLY <1>1, <1>2, <1>4, <1>6 DEF Rest
  <2>. QED  BY ONLY <1>1, <1>9, <1>17, <2>1, <2>2 DEF Rest
<1>19. \A o \in Between(w, head, n) : w[o + 1].i = b[o + 1].i
  BY ONLY <1>11 DEF Between
<1>20. Judged'
  <2>1. \A o \in Between(w, head, n) : w[o + 1].i \in kept
    BY ONLY <1>2, <1>6, <1>9, <1>15, <1>19 DEF Judged
  <2>2. \A i \in kept : First <= i /\ i < x + 1 /\ Dir[i].ino \notin always
    <3>1. \A i \in kept : i \in Nat /\ First <= i /\ i < x /\ Dir[i].ino \notin always
      BY ONLY <1>2, <1>4, Numbers DEF Judged, TypeOK
    <3>. QED  BY ONLY <1>4, <3>1
  <2>3. \A i \in First .. (x + 1) - 1 : Dir[i].ino \in never => i \in kept
    <3>1. \A i \in First .. x - 1 : Dir[i].ino \in never => i \in kept
      BY ONLY <1>2, <1>4 DEF Judged
    <3>2. \A i \in First .. (x + 1) - 1 : i \in First .. x - 1 \/ i = x
      BY ONLY <1>4
    <3>3. Dir[x].ino \notin never
      BY ONLY <1>1, <1>3, <1>4
    <3>. QED  BY ONLY <3>1, <3>2, <3>3
  <2>. QED  BY ONLY <1>1, <1>9, <1>10, <2>1, <2>2, <2>3 DEF Judged
<1>21. ASSUME "wrapped" \notin mishaps'
       PROVE  /\ Linked(w, head, n) /\ After(w, prev) = n
              /\ \A i \in kept : \E o \in Between(w, head, n) : w[o + 1].i = i
  <2>1. "wrapped" \notin mishaps /\ sum < Short
    BY ONLY <1>1, <1>7, <1>21, Numbers
  <2>2. /\ Linked(b, head, d) /\ After(b, prev) = d
        /\ \A i \in kept : \E o \in Between(b, head, d) : b[o + 1].i = i
    BY ONLY <1>1, <1>2, <1>9, <2>1 DEF Exact
  <2>3. After(w, prev) = n
    <3>1. w[prev + 1].len = b[prev + 1].len + Here.len
      BY ONLY <1>7, <1>8, <1>9, <2>1 DEF sum
    <3>2. prev + b[prev + 1].len = d
      BY ONLY <2>2 DEF After
    <3>. DEFINE y == b[prev + 1].len
                h == Here.len
    <3>3. y \in Nat /\ prev \in Nat /\ prev + y = d
      BY ONLY <1>6, <3>2
    <3>4. d \in Nat /\ n \in Nat /\ h \in Nat /\ n - d = h
      BY ONLY <1>4
    <3>. HIDE DEF y, h
    <3>5. prev + (y + h) = n
      BY ONLY <3>3, <3>4
    <3>6. w[prev + 1].len = y + h
      BY <3>1 DEF y, h
    <3>. QED  BY ONLY <3>5, <3>6 DEF After
  <2>4. Between(b, prev + 1, d) = {}
    BY ONLY <1>5, <2>2 DEF Linked
  <2>5. ASSUME NEW o \in Between(b, head, d), o # prev
        PROVE  /\ After(w, o) \in Nat /\ o < After(w, o) /\ After(w, o) < d
               /\ Between(w, o + 1, After(w, o)) = {}
               /\ After(w, o) \in Starts(w)
               /\ w[o + 1].i < w[After(w, o) + 1].i
    <3>. DEFINE e == After(b, o)
    <3>0. o \in Starts(b) /\ o < d /\ o \in Nat /\ e \in Nat /\ o + 1 \in 1 .. Len(b)
      BY ONLY <1>4, <2>5, StartType DEF Between
    <3>1. /\ o < e /\ e <= d /\ Between(b, o + 1, e) = {}
          /\ e < d => e \in Starts(b) /\ b[o + 1].i < b[e + 1].i
      BY ONLY <2>2, <2>5 DEF Linked
    <3>2. After(w, o) = e
      <4>1. o + 1 \notin d + 1 .. n /\ o + 1 # prev + 1
        BY ONLY <1>4, <1>6, <2>5, <3>0
      <4>2. w[o + 1] = b[o + 1]
        BY ONLY <1>8, <3>0, <4>1
      <4>. QED  BY ONLY <4>2 DEF After
    <3>. HIDE DEF e
    <3>3. o < prev
      <4>1. o \notin Between(b, prev + 1, d)
        BY ONLY <2>4
      <4>. QED  BY ONLY <1>4, <1>6, <2>5, <3>0, <4>1 DEF Between
    <3>4. e <= prev
      <4>1. prev \notin Between(b, o + 1, e)
        BY ONLY <3>1
      <4>. QED  BY ONLY <1>6, <3>0, <3>3, <4>1 DEF Between
    <3>5. e < d
      BY ONLY <1>4, <1>6, <3>0, <3>4
    <3>6. e \in Starts(w) /\ w[e + 1].i = b[e + 1].i /\ w[o + 1].i = b[o + 1].i
      BY ONLY <1>12, <3>0, <3>1, <3>5
    <3>7. Between(w, o + 1, e) = {}
      <4>1. o + 1 \in Nat
        BY ONLY <3>0
      <4>. QED  BY ONLY <1>14, <3>0, <3>1, <4>1
    <3>. QED  BY ONLY <3>0, <3>1, <3>2, <3>5, <3>6, <3>7
  <2>6. Between(w, prev + 1, n) = {}
    <3>1. prev + 1 \in Nat
      BY ONLY <1>6
    <3>. QED  BY ONLY <1>15, <2>4, <3>1
  <2>7. ASSUME NEW o \in Between(w, head, n)
        PROVE  /\ o < After(w, o) /\ After(w, o) <= n
               /\ Between(w, o + 1, After(w, o)) = {}
               /\ After(w, o) < n => /\ After(w, o) \in Starts(w)
                                     /\ w[o + 1].i < w[After(w, o) + 1].i
    <3>1. CASE o = prev
      BY ONLY <1>4, <1>6, <2>3, <2>6, <3>1
    <3>2. CASE o # prev
      <4>1. o \in Between(b, head, d)
        BY ONLY <1>6, <1>15, <2>7
      <4>. QED  BY ONLY <1>4, <2>5, <3>2, <4>1
    <3>. QED  BY ONLY <3>1, <3>2
  <2>8. Linked(w, head, n)
    BY ONLY <1>17, <2>7 DEF Linked
  <2>9. \A i \in kept : \E o \in Between(w, head, n) : w[o + 1].i = i
    BY ONLY <1>6, <1>15, <1>19, <2>2
  <2>. QED  BY ONLY <2>3, <2>8, <2>9
<1>22. Exact'
  <2>0. /\ dirp2' = w /\ head' = head /\ dirp3' = n /\ prev' = prev /\ kept' = kept
    BY ONLY <1>1, <1>9
  <2>1. CASE "wrapped" \in mishaps'
    BY ONLY <2>1 DEF Exact
  <2>2. CASE "wrapped" \notin mishaps'
    <3>1. Linked(dirp2, head, dirp3)' /\ (After(dirp2, prev) = dirp3)'
      BY ONLY <1>21, <2>0, <2>2
    <3>2. (\A i \in kept : \E o \in Between(dirp2, head, dirp3) : dirp2[o + 1].i = i)'
      BY ONLY <1>21, <2>0, <2>2
    <3>. QED  BY ONLY <3>1, <3>2 DEF Exact
  <2>. QED  BY ONLY <2>1, <2>2
<1>. QED  BY ONLY <1>3, <1>10, <1>16, <1>18, <1>20, <1>22 DEF IInv, Scan

-----------------------------------------------------------------------------
(* What is left of the buffer.                                             *)

\* r is the cells of b from the offset h on.
Suffix(r, b, h) ==
  /\ r \in Seq(Cell) /\ h + Len(r) = Len(b)
  /\ \A c \in 1 .. Len(r) : r[c] = b[h + c]

\* A record of r at an offset is one of b that much further on.
LEMMA SuffixStarts ==
  ASSUME NEW b, b \in Seq(Cell), NEW h \in Nat, NEW r, Suffix(r, b, h)
  PROVE  /\ \A o \in Starts(r) :
              /\ o \in Nat /\ o + h \in Between(b, h, Len(b))
              /\ r[o + 1] = b[(o + h) + 1] /\ After(b, o + h) = After(r, o) + h
         /\ \A q \in Between(b, h, Len(b)) : q - h \in Starts(r) /\ (q - h) + h = q
<1>1. /\ r \in Seq(Cell) /\ Len(r) \in Nat /\ Len(b) \in Nat /\ h + Len(r) = Len(b)
      /\ \A c \in 1 .. Len(r) : r[c] = b[h + c]
  BY DEF Suffix
<1>2. ASSUME NEW o \in Starts(r)
      PROVE  /\ o \in Nat /\ o + h \in Between(b, h, Len(b))
             /\ r[o + 1] = b[(o + h) + 1] /\ After(b, o + h) = After(r, o) + h
  <2>1. /\ o \in 0 .. Len(r) - 1 /\ o \in Nat /\ o + 1 \in 1 .. Len(r) /\ r[o + 1].i # 0
        /\ r[o + 1].len \in Nat
    BY ONLY <1>1, o \in Starts(r), StartType DEF Starts
  <2>2. h + (o + 1) = (o + h) + 1
    BY ONLY <2>1, h \in Nat
  <2>3. r[o + 1] = b[(o + h) + 1]
    BY ONLY <1>1, <2>1, <2>2
  <2>4. o + h \in 0 .. Len(b) - 1 /\ h <= o + h /\ o + h < Len(b)
    BY ONLY <1>1, <2>1, h \in Nat
  <2>5. o + h \in Between(b, h, Len(b))
    BY ONLY <2>1, <2>3, <2>4 DEF Between, Starts
  <2>6. After(b, o + h) = After(r, o) + h
    <3>1. (o + h) + r[o + 1].len = (o + r[o + 1].len) + h
      BY ONLY <2>1, h \in Nat
    <3>. QED  BY ONLY <2>3, <3>1 DEF After
  <2>. QED  BY ONLY <2>1, <2>3, <2>5, <2>6
<1>3. ASSUME NEW q \in Between(b, h, Len(b)) PROVE q - h \in Starts(r) /\ (q - h) + h = q
  <2>1. q \in Nat /\ h <= q /\ q < Len(b) /\ b[q + 1].i # 0
    BY ONLY b \in Seq(Cell), q \in Between(b, h, Len(b)), StartType DEF Between, Starts
  <2>2. /\ q - h \in 0 .. Len(r) - 1 /\ (q - h) + 1 \in 1 .. Len(r) /\ (q - h) + h = q
        /\ h + ((q - h) + 1) = q + 1
    BY ONLY <1>1, <2>1, h \in Nat
  <2>3. r[(q - h) + 1] = b[q + 1]
    BY ONLY <1>1, <2>2
  <2>. QED  BY ONLY <2>1, <2>2, <2>3 DEF Starts
<1>. QED  BY <1>2, <1>3

\* The end of a linked buffer is linked.
LEMMA SuffixLinked ==
  ASSUME NEW b, b \in Seq(Cell), NEW h \in Nat, NEW r, Suffix(r, b, h), Linked(b, h, Len(b))
  PROVE  Linked(r, 0, Len(r))
<1>1. /\ r \in Seq(Cell) /\ Len(r) \in Nat /\ Len(b) \in Nat /\ h + Len(r) = Len(b)
  BY DEF Suffix
<1>2. \A o \in Starts(r) :
        /\ o \in Nat /\ o + h \in Between(b, h, Len(b))
        /\ r[o + 1] = b[(o + h) + 1] /\ After(b, o + h) = After(r, o) + h
  BY SuffixStarts
<1>3. \A q \in Between(b, h, Len(b)) : q - h \in Starts(r) /\ (q - h) + h = q
  BY SuffixStarts
<1>4. 0 < Len(r) => 0 \in Starts(r)
  <2>1. ASSUME 0 < Len(r) PROVE 0 \in Starts(r)
    <3>1. h < Len(b) /\ h <= h /\ h - h = 0
      BY ONLY <1>1, <2>1, h \in Nat
    <3>2. h \in Between(b, h, Len(b))
      BY ONLY <3>1, Linked(b, h, Len(b)) DEF Linked, Between
    <3>. QED  BY ONLY <1>3, <3>1, <3>2
  <2>. QED  BY <2>1
<1>5. ASSUME NEW o \in Between(r, 0, Len(r))
      PROVE  /\ o < After(r, o) /\ After(r, o) <= Len(r)
             /\ Between(r, o + 1, After(r, o)) = {}
             /\ After(r, o) < Len(r) => /\ After(r, o) \in Starts(r)
                                        /\ r[o + 1].i < r[After(r, o) + 1].i
  <2>. DEFINE q == o + h
              e == After(r, o)
              f == After(b, q)
  <2>1. /\ o \in Starts(r) /\ o \in Nat /\ e \in Nat /\ q \in Nat
        /\ q \in Between(b, h, Len(b)) /\ q = o + h /\ f = e + h /\ r[o + 1] = b[q + 1]
    <3>1. o \in Starts(r)
      BY ONLY o \in Between(r, 0, Len(r)) DEF Between
    <3>2. o \in Nat /\ e \in Nat
      BY ONLY <1>1, <3>1, StartType
    <3>. QED  BY ONLY <1>2, <3>1, <3>2, h \in Nat
  <2>2. /\ q < f /\ f <= Len(b) /\ Between(b, q + 1, f) = {}
        /\ f < Len(b) => f \in Starts(b) /\ b[q + 1].i < b[f + 1].i
    BY ONLY <2>1, Linked(b, h, Len(b)) DEF Linked
  <2>. HIDE DEF q, e, f
  <2>3. o < e /\ e <= Len(r) /\ (e < Len(r) => f < Len(b))
    BY ONLY <1>1, <2>1, <2>2, h \in Nat
  <2>4. Between(r, o + 1, e) = {}
    <3>1. ASSUME NEW k \in Between(r, o + 1, e) PROVE FALSE
      <4>1. k \in Starts(r) /\ o + 1 <= k /\ k < e
        BY ONLY <3>1 DEF Between
      <4>2. k \in Nat /\ k + h \in Starts(b)
        BY ONLY <1>2, <4>1 DEF Between
      <4>3. q + 1 <= k + h /\ k + h < f
        BY ONLY <2>1, <4>1, <4>2, h \in Nat
      <4>. QED  BY ONLY <2>2, <4>2, <4>3 DEF Between
    <3>. QED  BY <3>1
  <2>5. ASSUME e < Len(r) PROVE e \in Starts(r) /\ r[o + 1].i < r[e + 1].i
    <3>1. f \in Starts(b) /\ b[q + 1].i < b[f + 1].i /\ f < Len(b) /\ h <= f /\ f - h = e
      BY ONLY <2>1, <2>2, <2>3, <2>5, h \in Nat
    <3>2. f \in Between(b, h, Len(b))
      BY ONLY <3>1 DEF Between
    <3>3. e \in Starts(r)
      BY ONLY <1>3, <3>1, <3>2
    <3>4. r[e + 1] = b[f + 1]
      BY ONLY <1>2, <2>1, <3>3
    <3>. QED  BY ONLY <2>1, <3>1, <3>3, <3>4
  <2>6. e = After(r, o)
    BY DEF e
  <2>. QED  BY ONLY <2>3, <2>4, <2>5, <2>6
<1>. QED  BY ONLY <1>4, <1>5 DEF Linked

\* When the scan is through, the cursor is at the end, and what is left holds the
\* records judged visible.
Through ==
  /\ dirp \in Seq(Cell) /\ Len(dirp) \in Nat /\ Len(dirp) <= Count /\ pos \in Nat
  /\ First \in Nat \ {0} /\ First <= pos + 1 /\ Shows(First - 1)
  /\ head \in Nat /\ modified_buf_length \in Nat
  /\ head + modified_buf_length = Len(dirp)
  /\ (modified_buf_length = 0 <=> kept = {})
  /\ \A i \in kept : i \in Nat /\ First <= i /\ i <= pos /\ Dir[i].ino \notin always
  /\ \A i \in First .. pos : Dir[i].ino \in never => i \in kept

LeftOver(r) ==
  /\ r \in Seq(Cell) /\ Len(r) = modified_buf_length
  /\ \A o \in Starts(r) : r[o + 1].i \in kept
  /\ "wrapped" \notin mishaps =>
       /\ Linked(r, 0, Len(r))
       /\ \A i \in kept : \E o \in Starts(r) : r[o + 1].i = i

LEMMA ScanOver ==
  ASSUME IInv, pc = "scan", ~Scanning
  PROVE  Through /\ LeftOver(Remaining(modified_buf_length))
<1>1. TypeOK /\ Filled /\ Cursor /\ Rest /\ Judged /\ Exact
  BY DEF IInv, Scan
<1>2. /\ dirp \in Seq(Cell) /\ dirp2 \in Seq(Cell) /\ Len(dirp2) = Len(dirp)
      /\ Len(dirp) \in Nat /\ Len(dirp) <= Count /\ dirp3 \in Nat /\ dirp3 <= Len(dirp)
      /\ pos \in Nat /\ head \in Nat /\ modified_buf_length \in Nat
      /\ First \in Nat \ {0} /\ Shows(First - 1)
  <2>1. /\ dirp \in Seq(Cell) /\ dirp2 \in Seq(Cell) /\ dirp3 \in Nat /\ pos \in Nat
        /\ head \in Nat /\ modified_buf_length \in Nat
    BY ONLY <1>1, Numbers DEF TypeOK
  <2>2. Len(dirp2) = Len(dirp) /\ dirp3 <= Len(dirp)
    BY ONLY <1>1 DEF Cursor
  <2>. QED  BY ONLY <1>1, <2>1, <2>2 DEF Filled
<1>3. dirp3 = Len(dirp)
  <2>1. ASSUME dirp3 < Len(dirp) PROVE Here.len # 0
    <3>1. dirp3 \in Starts(dirp) /\ dirp3 + 1 \in dirp3 + 1 .. Len(dirp)
      BY ONLY <1>1, <1>2, <2>1 DEF Cursor
    <3>2. dirp2[dirp3 + 1] = dirp[dirp3 + 1]
      BY ONLY <1>1, <3>1 DEF Cursor
    <3>3. dirp3 \in Between(dirp, 0, Len(dirp))
      BY ONLY <1>2, <2>1, <3>1 DEF Between
    <3>4. dirp3 < dirp3 + dirp[dirp3 + 1].len
      BY ONLY <1>1, <3>3 DEF Filled, Laid, Linked, After
    <3>5. dirp[dirp3 + 1].len # 0
      BY ONLY <1>2, <3>4
    <3>. QED  BY ONLY <3>2, <3>5 DEF Here
  <2>2. buf_length = Len(dirp)
    BY ONLY <1>1 DEF Cursor
  <2>3. ~(dirp3 < Len(dirp))
    BY ONLY <2>1, <2>2, pc = "scan", ~Scanning DEF Scanning
  <2>. QED  BY ONLY <1>2, <2>3
<1>4. Current = pos + 1 /\ First <= pos + 1
  <2>1. Current = pos + 1
    BY ONLY <1>2, <1>3 DEF Current
  <2>. QED  BY ONLY <1>1, <2>1 DEF Cursor
<1>5. head + modified_buf_length = Len(dirp)
  BY ONLY <1>1 DEF Rest
<1>6. modified_buf_length = 0 <=> kept = {}
  <2>1. CASE prev = -1
    BY ONLY <1>1, <1>2, <1>3, <1>5, <2>1 DEF Rest
  <2>2. CASE prev # -1
    <3>1. prev \in Between(dirp2, head, dirp3) /\ kept # {}
      BY ONLY <1>1, <2>2 DEF Rest
    <3>2. prev \in Nat /\ head <= prev /\ prev < dirp3
      BY ONLY <1>2, <3>1, StartType DEF Between
    <3>. QED  BY ONLY <1>2, <1>3, <1>5, <3>1, <3>2
  <2>. QED  BY ONLY <2>1, <2>2
<1>7. \A i \in kept : i \in Nat /\ First <= i /\ i <= pos /\ Dir[i].ino \notin always
  <2>1. \A i \in kept : i \in Nat /\ First <= i /\ i < pos + 1 /\ Dir[i].ino \notin always
    BY ONLY <1>1, <1>4, Numbers DEF Judged, TypeOK
  <2>. QED  BY ONLY <1>2, <2>1
<1>8. \A i \in First .. pos : Dir[i].ino \in never => i \in kept
  <2>1. (pos + 1) - 1 = pos
    BY ONLY <1>2
  <2>. QED  BY ONLY <1>1, <1>4, <2>1 DEF Judged
<1>9. Through
  BY ONLY <1>2, <1>4, <1>5, <1>6, <1>7, <1>8 DEF Through
<1>. DEFINE r == Remaining(modified_buf_length)
<1>10. Suffix(r, dirp2, head) /\ Len(r) = modified_buf_length
  BY ONLY <1>2, <1>5 DEF Remaining, FromHead, Suffix
<1>. HIDE DEF r
<1>11. /\ \A o \in Starts(r) : /\ o + head \in Between(dirp2, head, Len(dirp2))
                              /\ r[o + 1] = dirp2[(o + head) + 1]
       /\ \A q \in Between(dirp2, head, Len(dirp2)) : q - head \in Starts(r) /\ (q - head) + head = q
  BY ONLY <1>2, <1>10, SuffixStarts
<1>12. \A o \in Starts(r) : r[o + 1].i \in kept
  BY ONLY <1>1, <1>2, <1>3, <1>11 DEF Judged
<1>13. ASSUME "wrapped" \notin mishaps
       PROVE  /\ Linked(r, 0, Len(r))
              /\ \A i \in kept : \E o \in Starts(r) : r[o + 1].i = i
  <2>1. /\ Linked(dirp2, head, Len(dirp2))
        /\ \A i \in kept : \E q \in Between(dirp2, head, Len(dirp2)) : dirp2[q + 1].i = i
    BY ONLY <1>1, <1>2, <1>3, <1>13 DEF Exact
  <2>2. Linked(r, 0, Len(r))
    BY ONLY <1>2, <1>10, <2>1, SuffixLinked
  <2>3. ASSUME NEW i \in kept PROVE \E o \in Starts(r) : r[o + 1].i = i
    <3>1. PICK q \in Between(dirp2, head, Len(dirp2)) : dirp2[q + 1].i = i
      BY ONLY <2>1, i \in kept
    <3>2. q - head \in Starts(r) /\ r[(q - head) + 1] = dirp2[q + 1]
      BY ONLY <1>11
    <3>. QED  BY ONLY <3>1, <3>2
  <2>. QED  BY ONLY <2>2, <2>3
<1>14. LeftOver(r)
  BY ONLY <1>10, <1>12, <1>13 DEF LeftOver, Suffix
<1>. QED  BY ONLY <1>9, <1>14 DEF r

\* The invariant says of the scan's end what FilterExact says.
LEMMA ExactAtTheEnd == ASSUME IInv PROVE FilterExact
<1>. DEFINE r == Remaining(modified_buf_length)
<1>1. TypeOK
  BY DEF IInv
<1>2. ASSUME pc = "scan", ~Scanning
      PROVE  /\ modified_buf_length = 0 <=> kept = {}
             /\ "wrapped" \notin mishaps => ToSet(Walk(r)) = kept /\ Ascending(Walk(r))
  <2>1. Through /\ LeftOver(r)
    BY ONLY IInv, <1>2, ScanOver
  <2>. HIDE DEF r
  <2>2. modified_buf_length = 0 <=> kept = {}
    BY ONLY <2>1 DEF Through
  <2>3. ASSUME "wrapped" \notin mishaps PROVE ToSet(Walk(r)) = kept /\ Ascending(Walk(r))
    <3>1. /\ r \in Seq(Cell) /\ Linked(r, 0, Len(r))
          /\ \A o \in Starts(r) : r[o + 1].i \in kept
          /\ \A i \in kept : \E o \in Starts(r) : r[o + 1].i = i
      BY ONLY <2>1, <2>3 DEF LeftOver
    <3>2. ToSet(Walk(r)) = {r[o + 1].i : o \in Starts(r)} /\ Ascending(Walk(r))
      BY ONLY <3>1, WalkLinked
    <3>3. {r[o + 1].i : o \in Starts(r)} = kept
      BY ONLY <3>1
    <3>. QED  BY ONLY <3>2, <3>3
  <2>. QED  BY ONLY <2>2, <2>3
<1>. QED  BY ONLY <1>1, <1>2 DEF FilterExact

\* m bytes of what is left, and the rest of the caller's buffer.
Copied(b, m) ==
  /\ b \in Seq(Cell) /\ Len(b) = Len(dirp)
  /\ m = modified_buf_length => SubSeq(b, 1, m) = Remaining(m)

LEMMA CopiedCells ==
  ASSUME IInv, pc = "scan", ~Scanning, NEW m \in 0 .. modified_buf_length
  PROVE  Copied(Remaining(m) \o SubSeq(dirp, m + 1, Len(dirp)), m)
<1>. DEFINE r == Remaining(m)
            t == SubSeq(dirp, m + 1, Len(dirp))
            b == Remaining(m) \o SubSeq(dirp, m + 1, Len(dirp))
<1>1. /\ dirp \in Seq(Cell) /\ Len(dirp) \in Nat /\ head \in Nat /\ modified_buf_length \in Nat
      /\ head + modified_buf_length = Len(dirp)
  <2>1. Through
    BY ScanOver
  <2>. QED  BY ONLY <2>1 DEF Through
<1>2. dirp2 \in Seq(Cell) /\ Len(dirp2) = Len(dirp)
  BY ONLY IInv, pc = "scan" DEF IInv, Scan, Cursor, TypeOK
<1>3. m \in Nat /\ m <= modified_buf_length /\ m <= Len(dirp) /\ head + m <= Len(dirp2)
  BY ONLY <1>1, <1>2, m \in 0 .. modified_buf_length
<1>4. r \in Seq(Cell) /\ Len(r) = m
  BY ONLY <1>1, <1>2, <1>3 DEF Remaining, FromHead
<1>5. t \in Seq(Cell) /\ Len(t) = Len(dirp) - m
  BY ONLY <1>1, <1>3
<1>. HIDE DEF r, t
<1>6. b = r \o t
  BY DEF r, t
<1>. HIDE DEF b
<1>7. /\ b \in Seq(Cell) /\ Len(b) = Len(r) + Len(t)
      /\ \A c \in 1 .. Len(r) + Len(t) : b[c] = IF c <= Len(r) THEN r[c] ELSE t[c - Len(r)]
  BY ONLY <1>4, <1>5, <1>6, ConcatProperties
<1>8. Len(b) = Len(dirp)
  BY ONLY <1>1, <1>3, <1>4, <1>5, <1>7
<1>9. SubSeq(b, 1, m) = r
  <2>1. m \in 0 .. Len(b)
    BY ONLY <1>1, <1>3, <1>8
  <2>2. /\ SubSeq(b, 1, m) \in Seq(Cell) /\ Len(SubSeq(b, 1, m)) = m
        /\ \A c \in 1 .. m : SubSeq(b, 1, m)[c] = b[c]
    BY ONLY <1>7, <2>1, FirstCells
  <2>3. ASSUME NEW c \in 1 .. m PROVE SubSeq(b, 1, m)[c] = r[c]
    <3>1. c \in 1 .. Len(r) + Len(t) /\ c <= Len(r)
      BY ONLY <1>1, <1>3, <1>4, <1>5, c \in 1 .. m
    <3>. QED  BY ONLY <1>7, <2>2, <3>1
  <2>. DEFINE u == SubSeq(b, 1, m)
  <2>. HIDE DEF u
  <2>4. u \in Seq(Cell) /\ Len(u) = Len(r) /\ \A c \in 1 .. Len(u) : u[c] = r[c]
    BY ONLY <1>4, <2>2, <2>3 DEF u
  <2>5. u = r
    BY ONLY <1>4, <2>4, SeqEqual
  <2>. QED  BY ONLY <2>5 DEF u
<1>10. Copied(b, m)
  BY ONLY <1>7, <1>8, <1>9 DEF Copied, r
<1>. QED  BY ONLY <1>10 DEF b

\* The call returns what the scan has left.
LEMMA CopyOutKeeps == ASSUME IInv, NEW m \in 0 .. Count, CopyOut(m) PROVE IInv'
<1>. DEFINE n == modified_buf_length
            b == Remaining(m) \o SubSeq(dirp, m + 1, Len(dirp))
            bad == (IF m < modified_buf_length THEN {"unfiltered"} ELSE {})
                     \cup IF modified_buf_length = 0 /\ pos < Len(Dir) THEN {"swallowed"} ELSE {}
<1>1. /\ pc = "scan" /\ ~Scanning /\ m \in 0 .. n /\ ReturnWith(n, b, bad)
      /\ UNCHANGED <<hidden, locals, always, never>>
  BY DEF CopyOut
<1>2. TypeOK /\ Through /\ LeftOver(Remaining(n)) /\ Copied(b, m)
  BY ONLY IInv, <1>1, ScanOver, CopiedCells DEF IInv
<1>3. /\ bad \in SUBSET {"unfiltered", "swallowed"}
      /\ "unfiltered" \notin bad => ~(m < n)
      /\ "swallowed" \notin bad => ~(n = 0 /\ pos < Len(Dir))
  OBVIOUS
<1>. HIDE DEF b, bad
<1>4. /\ n \in Nat /\ n <= Len(dirp) /\ Len(dirp) \in Nat /\ n \in 0 .. Word - 1
      /\ b \in Seq(Cell) /\ Len(b) = Len(dirp) /\ pos \in Nat /\ pos <= Len(Dir)
      /\ First \in Nat \ {0} /\ First <= pos + 1
  <2>1. /\ n \in Nat /\ n <= Len(dirp) /\ Len(dirp) \in Nat /\ n <= Count
        /\ First \in Nat \ {0} /\ First <= pos + 1
    BY ONLY <1>2, Numbers DEF Through
  <2>2. pos \in Nat /\ pos <= Len(Dir)
    BY ONLY <1>2, Numbers DEF TypeOK
  <2>3. n \in 0 .. Word - 1
    BY ONLY <2>1, Numbers
  <2>. QED  BY ONLY <1>2, <2>1, <2>2, <2>3 DEF Copied
<1>5. /\ buf_length' \in 0 .. Word - 1
      /\ UNCHANGED <<hidden, dirp2, dirp3, head, prev, modified_buf_length, kept, always, never>>
  BY ONLY <1>1, <1>2 DEF locals, TypeOK
<1>6. ASSUME "unfiltered" \notin mishaps \cup bad
      PROVE  /\ m = n /\ SubSeq(b, 1, n) = Remaining(n) /\ Remaining(n) \in Seq(Cell)
             /\ Len(Remaining(n)) = n
             /\ \A c \in 1 .. n : b[c].i # 0 => b[c].i \in kept
  <2>1. m = n
    BY ONLY <1>1, <1>3, <1>4, <1>6
  <2>2. SubSeq(b, 1, n) = Remaining(n)
    BY ONLY <1>2, <2>1 DEF Copied
  <2>3. /\ Remaining(n) \in Seq(Cell) /\ Len(Remaining(n)) = n
        /\ \A o \in Starts(Remaining(n)) : Remaining(n)[o + 1].i \in kept
    BY ONLY <1>2 DEF LeftOver
  <2>4. n \in 0 .. Len(b)
    BY ONLY <1>4
  <2>5. \A c \in 1 .. n : Remaining(n)[c] = b[c]
    BY ONLY <1>4, <2>2, <2>4, FirstCells
  <2>6. ASSUME NEW c \in 1 .. n, b[c].i # 0 PROVE b[c].i \in kept
    <3>1. c - 1 \in 0 .. n - 1 /\ (c - 1) + 1 = c
      BY ONLY <1>4, c \in 1 .. n
    <3>2. c - 1 \in Starts(Remaining(n))
      BY ONLY <2>3, <2>5, <2>6, <3>1 DEF Starts
    <3>3. Remaining(n)[(c - 1) + 1].i \in kept
      BY ONLY <2>3, <3>2
    <3>. QED  BY ONLY <2>5, <3>1, <3>3
  <2>. QED  BY ONLY <2>1, <2>2, <2>3, <2>6
<1>7. /\ \A i \in kept : i \in Nat /\ First <= i /\ i <= pos /\ Dir[i].ino \notin always
      /\ \A i \in First .. pos : Dir[i].ino \in never => i \in kept
      /\ Shows(First - 1)
  BY ONLY <1>2 DEF Through
<1>8. "unfiltered" \notin mishaps \cup bad =>
        \A c \in 1 .. n : b[c].i # 0 => Dir[b[c].i].ino \notin always
  BY ONLY <1>6, <1>7
<1>9. First - 1 \in 0 .. pos /\ (First - 1) + 1 = First
  BY ONLY <1>4
<1>. HIDE DEF Shows
<1>10. ASSUME mishaps \cup bad = {}
       PROVE  /\ Shows(First - 1) /\ Linked(SubSeq(b, 1, n), 0, n)
              /\ \A c \in 1 .. n : b[c].i # 0 => First - 1 < b[c].i /\ b[c].i <= pos
              /\ \A i \in (First - 1) + 1 .. pos : Dir[i].ino \in never =>
                   \E c \in 1 .. n : b[c].i = i
  <2>1. "unfiltered" \notin mishaps \cup bad /\ "wrapped" \notin mishaps
    BY ONLY <1>10
  <2>2. /\ Linked(Remaining(n), 0, Len(Remaining(n)))
        /\ \A i \in kept : \E o \in Starts(Remaining(n)) : Remaining(n)[o + 1].i = i
    BY ONLY <1>2, <2>1 DEF LeftOver
  <2>3. Linked(SubSeq(b, 1, n), 0, n)
    BY ONLY <1>6, <2>1, <2>2
  <2>4. ASSUME NEW c \in 1 .. n, b[c].i # 0 PROVE First - 1 < b[c].i /\ b[c].i <= pos
    <3>1. b[c].i \in Nat /\ First <= b[c].i /\ b[c].i <= pos
      BY ONLY <1>6, <1>7, <2>1, <2>4
    <3>. QED  BY ONLY <1>4, <3>1
  <2>5. ASSUME NEW i \in First .. pos, Dir[i].ino \in never PROVE \E c \in 1 .. n : b[c].i = i
    <3>1. PICK o \in Starts(Remaining(n)) : Remaining(n)[o + 1].i = i
      BY ONLY <1>7, <2>2, <2>5
    <3>2. o + 1 \in 1 .. n
      BY ONLY <1>6, <2>1, StartType
    <3>3. n \in 0 .. Len(b)
      BY ONLY <1>4
    <3>4. Remaining(n)[o + 1] = b[o + 1]
      BY ONLY <1>4, <1>6, <2>1, <3>2, <3>3, FirstCells
    <3>. QED  BY ONLY <3>1, <3>2, <3>4
  <2>. QED  BY ONLY <1>7, <1>9, <2>3, <2>4, <2>5
<1>11. ASSUME Signed(n) = 0, mishaps \cup bad = {} PROVE Shows(Len(Dir))
  <2>1. n = 0
    BY ONLY <1>4, <1>11, SignedType
  <2>2. kept = {} /\ pos = Len(Dir)
    <3>1. ~(pos < Len(Dir))
      BY ONLY <1>3, <1>11, <2>1
    <3>. QED  BY ONLY <1>2, <1>4, <2>1, <3>1, Numbers DEF Through
  <2>3. \A i \in First .. pos : Dir[i].ino \notin never
    BY ONLY <1>7, <2>2
  <2>4. /\ Ascending(shown)
        /\ \A k \in DOMAIN shown : shown[k] \in Nat /\ shown[k] <= First - 1
        /\ \A i \in 1 .. First - 1 : Dir[i].ino \in never => \E k \in DOMAIN shown : shown[k] = i
    <3>1. mishaps = {} /\ shown \in Seq(1 .. Len(Dir))
      BY ONLY <1>2, <1>11 DEF TypeOK
    <3>2. \A k \in DOMAIN shown : shown[k] \in Nat
      BY ONLY <3>1, Numbers
    <3>. QED  BY ONLY <1>7, <3>1, <3>2 DEF Shows
  <2>5. \A k \in DOMAIN shown : shown[k] <= Len(Dir)
    BY ONLY <1>4, <2>2, <2>4
  <2>6. ASSUME NEW i \in 1 .. Len(Dir), Dir[i].ino \in never
        PROVE  \E k \in DOMAIN shown : shown[k] = i
    <3>1. i \in First .. pos \/ i \in 1 .. First - 1
      BY ONLY <1>4, <2>2, i \in 1 .. Len(Dir)
    <3>. QED  BY ONLY <2>3, <2>4, <2>6, <3>1
  <2>. QED  BY ONLY <2>4, <2>5, <2>6 DEF Shows
<1>. DEFINE Follows(a) ==
       /\ Shows(a) /\ Linked(SubSeq(b, 1, n), 0, n)
       /\ \A c \in 1 .. n : b[c].i # 0 => a < b[c].i /\ b[c].i <= pos
       /\ \A i \in a + 1 .. pos : Dir[i].ino \in never => \E c \in 1 .. n : b[c].i = i
<1>12. mishaps \cup bad = {} => \E a \in 0 .. pos : Follows(a)
  <2>1. mishaps \cup bad = {} => Follows(First - 1)
    BY <1>10
  <2>. HIDE DEF Follows
  <2>. QED  BY ONLY <1>9, <2>1
<1>13. Signed(n) > 0 => n <= Len(b)
  BY ONLY <1>4
<1>. QED  BY ONLY IInv, <1>1, <1>3, <1>4, <1>5, <1>8, <1>11, <1>12, <1>13, Returns

-----------------------------------------------------------------------------
(* The rules change, the program starts over.                              *)

\* Whoever changes the rules changes nothing of a call, and can only take files
\* out of those hidden all through or at no time.
LEMMA ChangeKeeps == ASSUME IInv, ChangeRules PROVE IInv'
<1>1. /\ hidden' \in SUBSET Inos /\ always' = always \cap hidden' /\ never' = never \ hidden'
      /\ UNCHANGED <<pc, dirp2, dirp3, head, prev, buf_length, modified_buf_length, kept,
                     pos, result, dirp, shown, mishaps>>
  BY DEF ChangeRules, locals, listing
<1>2. always' \subseteq always /\ never' \subseteq never
  BY ONLY <1>1
<1>3. TypeOK'
  BY ONLY IInv, <1>1, Numbers DEF IInv, TypeOK, Inos, Cell
<1>4. ListingHonest'
  BY ONLY IInv, <1>1, <1>2 DEF IInv, ListingHonest
<1>5. ASSUME NEW k, Shows(k) PROVE Shows(k)'
  BY ONLY <1>1, <1>2, <1>5 DEF Shows
<1>6. Listed'
  <2>1. pc = "idle" => Shows(pos)'
    BY ONLY IInv, <1>1, <1>5 DEF IInv, Listed
  <2>2. pc = "over" /\ result = 0 => Shows(Len(Dir))'
    BY ONLY IInv, <1>1, <1>5 DEF IInv, Listed
  <2>. QED  BY ONLY <1>1, <2>1, <2>2 DEF Listed
<1>7. Filled => Filled'
  <2>1. First' = First
    BY ONLY <1>1 DEF First
  <2>2. Shows(First - 1) => Shows(First - 1)'
    BY ONLY <1>1, <1>2, <2>1 DEF Shows
  <2>. QED  BY ONLY <1>1, <2>1, <2>2 DEF Filled
<1>8. Called'
  BY ONLY IInv, <1>1, <1>7 DEF IInv, Called
<1>9. Scan'
  <2>1. ASSUME pc = "scan" PROVE Cursor' /\ Rest' /\ Judged' /\ Exact' /\ Filled'
    <3>1. Filled /\ Cursor /\ Rest /\ Judged /\ Exact
      BY ONLY IInv, <2>1 DEF IInv, Scan
    <3>2. First' = First /\ Current' = Current
      BY ONLY <1>1 DEF First, Current
    <3>3. Cursor'
      BY ONLY <1>1, <3>1, <3>2 DEF Cursor
    <3>4. Rest'
      BY ONLY <1>1, <3>1 DEF Rest
    <3>5. Judged'
      BY ONLY <1>1, <1>2, <3>1, <3>2 DEF Judged
    <3>6. Exact'
      BY ONLY <1>1, <3>1 DEF Exact
    <3>. QED  BY ONLY <1>7, <3>1, <3>3, <3>4, <3>5, <3>6
  <2>. QED  BY ONLY <1>1, <2>1 DEF Scan
<1>. QED  BY ONLY <1>3, <1>4, <1>6, <1>8, <1>9 DEF IInv

\* A program that has met nothing.
LEMMA NothingMet == ASSUME shown = <<>> PROVE Shows(0) /\ ListingHonest
  BY DEF Shows, ListingHonest, Ascending

LEMMA RewindKeeps == ASSUME IInv, Rewind PROVE IInv'
<1>1. /\ pc' = "idle" /\ pos' = 0 /\ shown' = <<>> /\ mishaps' = {}
      /\ always' = hidden /\ never' = Inos \ hidden
      /\ UNCHANGED <<hidden, dirp2, dirp3, head, prev, buf_length, modified_buf_length, kept,
                     result, dirp>>
  BY DEF Rewind, locals
<1>2. TypeOK'
  BY ONLY IInv, <1>1, Numbers DEF IInv, TypeOK, Inos, Cell
<1>3. Shows(pos)'
  BY ONLY <1>1 DEF Shows, Ascending
<1>4. ListingHonest'
  BY ONLY <1>1 DEF ListingHonest
<1>. QED  BY ONLY <1>1, <1>2, <1>3, <1>4 DEF IInv, Listed, Called, Scan

LEMMA StutterKeeps == ASSUME IInv, UNCHANGED vars PROVE IInv'
<1>. USE UNCHANGED vars DEF vars, locals, listing
<1>1. TypeOK'
  BY DEF IInv, TypeOK, Inos, Cell
<1>2. ListingHonest' /\ Listed'
  BY DEF IInv, ListingHonest, Listed, Shows
<1>3. Filled' <=> Filled
  BY DEF Filled, First, Shows
<1>4. Called'
  BY <1>3 DEF IInv, Called
<1>5. Scan'
  BY <1>3 DEF IInv, Scan, Cursor, Rest, Judged, Exact, First, Current
<1>. QED  BY ONLY <1>1, <1>2, <1>4, <1>5 DEF IInv

LEMMA IInvInit == ASSUME Init PROVE IInv
<1>1. /\ pos = 0 /\ pc = "idle" /\ result = 0 /\ shown = <<>>
      /\ hidden = {} /\ always = {} /\ never = Inos
      /\ dirp = <<>> /\ dirp2 = <<>> /\ dirp3 = 0 /\ head = 0 /\ prev = -1
      /\ buf_length = 0 /\ modified_buf_length = 0 /\ kept = {} /\ mishaps = {}
  BY DEF Init
<1>2. 0 \in 0 .. Len(Dir) /\ 0 \in 0 .. Word - 1 /\ 0 \in 0 .. Count /\ -1 \in -1 .. Count
  BY ONLY Numbers
<1>3. TypeOK
  BY ONLY <1>1, <1>2 DEF TypeOK, Inos, Cell
<1>4. ListingHonest /\ Shows(pos)
  BY ONLY <1>1, NothingMet
<1>. QED  BY ONLY <1>1, <1>3, <1>4 DEF IInv, Listed, Called, Scan

LEMMA IInvNext == ASSUME IInv, [Next]_vars PROVE IInv'
<1>1. CASE \E m \in 0 .. Count : CopyOut(m)
  BY <1>1, CopyOutKeeps
<1>2. CASE \E last \in 1 .. Len(Dir) : OriginGetdents(last)
  BY <1>2, OriginKeeps
<1>3. CASE AllocFails \/ CopyInFails
  BY <1>3, OutKeeps
<1>. QED  BY <1>1, <1>2, <1>3, FailsKeeps, EndsKeeps, CopyInKeeps, KeepKeeps, CutHeadKeeps,
              MergeKeeps, ChangeKeeps, RewindKeeps, StutterKeeps DEF Next, CallGetdents, Step

LEMMA IInvAlways == Spec => []IInv
<1>. QED  BY IInvInit, IInvNext, PTL DEF Spec

-----------------------------------------------------------------------------
(* What the filter promises.                                               *)

\* However the rules change under it, the loop of modified_getdents64 leaves a
\* buffer in which a walk by d_reclen meets the records it judged visible and no
\* others, in order, unless a length wrapped: FilterExact.
THEOREM FilterIsExact == Spec => []FilterExact
<1>1. IInv => FilterExact
  BY ExactAtTheEnd
<1>. QED  BY <1>1, IInvAlways, PTL

\* A program that lists the directory through modified_getdents64 never meets a
\* file that was hidden all the while, unless a call gave up filtering:
\* ListingHonest, for directories and buffers of any size.
THEOREM ListingsHonest == Spec => []ListingHonest
<1>1. IInv => ListingHonest
  BY DEF IInv
<1>. QED  BY <1>1, IInvAlways, PTL

\* A listing that runs to its end without a mishap meets each file that was at no
\* time hidden, once: ListingComplete.
THEOREM ListingsComplete == Spec => []ListingComplete
<1>1. IInv => ListingComplete
  <2>. SUFFICES ASSUME IInv, pc = "over", result = 0, mishaps = {}
                PROVE  /\ \A i \in DOMAIN Dir : Dir[i].ino \in never =>
                            \E n \in DOMAIN shown : shown[n] = i
                       /\ Ascending(shown)
    BY DEF ListingComplete
  <2>1. Shows(Len(Dir))
    BY DEF IInv, Listed
  <2>2. DOMAIN Dir = 1 .. Len(Dir)
    BY GetdentsAssumption
  <2>. QED  BY ONLY mishaps = {}, <2>1, <2>2 DEF Shows
<1>. QED  BY <1>1, IInvAlways, PTL

-----------------------------------------------------------------------------
(* The life of the inodes behind the answers.                              *)

\* An inode that has not left its address is the file's; no two files share an
\* address; the number to be read there is the file's; an open file is in memory.
Faithful == \A r \in rules : ~r.lost => home[r.file] = r.inode
Apart == \A f, g \in File : home[f] # NULL /\ home[f] = home[g] => f = g
Numbered == \A f \in File : home[f] # NULL => i_ino[home[f]] = Ino[f]
HeldOpen == \A t \in Tasks : fd[t] # NULL => home[fd[t]] # NULL

LifeInv == InodeTypeOK /\ Faithful /\ Apart /\ Numbered /\ HeldOpen

\* Loading an inode keeps what is in memory where it is.
LEMMA LoadKeeps ==
  ASSUME InodeTypeOK, Apart, Numbered, NEW f \in File, Load(f)
  PROVE  /\ home' \in [File -> Addr \cup {NULL}]
         /\ i_ino' \in [Addr -> {Ino[g] : g \in File} \cup {NULL}]
         /\ Apart' /\ Numbered'
         /\ home'[f] \in Addr
         /\ \A g \in File : home[g] # NULL => home'[g] = home[g]
<1>1. CASE home[f] # NULL
  BY <1>1 DEF Load, memory, InodeTypeOK, Apart, Numbered
<1>2. CASE home[f] = NULL
  <2>1. PICK a \in Addr \ InMemory :
          /\ home' = [home EXCEPT ![f] = a]
          /\ i_ino' = [i_ino EXCEPT ![a] = Ino[f]]
    BY <1>2 DEF Load
  <2>2. \A g \in File : home[g] # a
    BY <2>1, InodeLifeAssumption DEF InMemory
  <2>3. a # NULL
    BY <2>1, InodeLifeAssumption
  <2>4. home' \in [File -> Addr \cup {NULL}] /\ home'[f] \in Addr
    BY <2>1 DEF InodeTypeOK
  <2>5. i_ino' \in [Addr -> {Ino[g] : g \in File} \cup {NULL}]
    BY <2>1 DEF InodeTypeOK
  <2>6. \A g \in File : home[g] # NULL => home'[g] = home[g]
    BY <1>2, <2>1 DEF InodeTypeOK
  <2>7. Apart'
    BY <1>2, <2>1, <2>2 DEF InodeTypeOK, Apart
  <2>8. Numbered'
    <3> SUFFICES ASSUME NEW g \in File, home'[g] # NULL
                 PROVE  i_ino'[home'[g]] = Ino[g]
      BY DEF Numbered
    <3>1. CASE g = f
      BY <3>1, <2>1 DEF InodeTypeOK
    <3>2. CASE g # f
      <4>1. home'[g] = home[g] /\ home[g] # a /\ home[g] \in Addr
        BY <3>2, <2>1, <2>2 DEF InodeTypeOK
      <4> QED  BY <4>1, <2>1 DEF Numbered, InodeTypeOK
    <3> QED  BY <3>1, <3>2
  <2> QED  BY <2>4, <2>5, <2>6, <2>7, <2>8
<1> QED  BY <1>1, <1>2

LEMMA LifeInit == InodeInit => LifeInv
  BY DEF InodeInit, LifeInv, InodeTypeOK, Faithful, Apart, Numbered, HeldOpen

LEMMA MakeKeeps ==
  ASSUME LifeInv, NEW p \in Paths, NEW f \in File, Make(p, f) PROVE LifeInv'
  BY DEF LifeInv, Make, memory, InodeTypeOK, Faithful, Apart, Numbered, HeldOpen

LEMMA UnlinkKeeps ==
  ASSUME LifeInv, NEW p \in Paths, Unlink(p) PROVE LifeInv'
  BY DEF LifeInv, Unlink, memory, InodeTypeOK, Faithful, Apart, Numbered, HeldOpen

LEMMA OpenKeeps ==
  ASSUME LifeInv, NEW t \in Tasks, NEW p \in Paths, Open(t, p) PROVE LifeInv'
<1>1. link[p] \in File /\ link[p] # NULL /\ link[p] \in made
  BY DEF Open, LifeInv, InodeTypeOK
<1>2. /\ home' \in [File -> Addr \cup {NULL}]
      /\ i_ino' \in [Addr -> {Ino[g] : g \in File} \cup {NULL}]
      /\ Apart' /\ Numbered'
      /\ home'[link[p]] \in Addr
      /\ \A g \in File : home[g] # NULL => home'[g] = home[g]
  BY <1>1, LoadKeeps DEF LifeInv, Open
<1>3. InodeTypeOK'
  BY <1>1, <1>2 DEF LifeInv, Open, names, InodeTypeOK
<1>4. Faithful'
  BY <1>2, InodeLifeAssumption DEF LifeInv, Open, InodeTypeOK, Faithful
<1>5. HeldOpen'
  BY <1>1, <1>2, InodeLifeAssumption DEF LifeInv, Open, InodeTypeOK, HeldOpen
<1> QED  BY <1>2, <1>3, <1>4, <1>5 DEF LifeInv

LEMMA CloseKeeps ==
  ASSUME LifeInv, NEW t \in Tasks, Close(t) PROVE LifeInv'
  BY DEF LifeInv, Close, names, memory, InodeTypeOK, Faithful, Apart, Numbered, HeldOpen

LEMMA EvictKeeps ==
  ASSUME LifeInv, NEW f \in File, Evict(f) PROVE LifeInv'
<1>1. InodeTypeOK'
  BY DEF LifeInv, Evict, names, InodeTypeOK
<1>2. Faithful'
  <2> SUFFICES ASSUME NEW s \in rules', ~s.lost PROVE home'[s.file] = s.inode
    BY DEF Faithful
  <2>1. PICK r \in rules : s = [r EXCEPT !.lost = @ \/ r.inode = home[f]]
    BY DEF Evict
  <2>2. r \in [inode : Addr, file : File, lost : BOOLEAN]
    BY DEF LifeInv, InodeTypeOK
  <2>3. ~r.lost /\ r.inode # home[f] /\ s.file = r.file /\ s.inode = r.inode
    BY <2>1, <2>2
  <2>4. home[r.file] = r.inode /\ r.file # f /\ r.file \in File
    BY <2>2, <2>3 DEF LifeInv, Faithful
  <2> QED  BY <2>3, <2>4 DEF Evict, LifeInv, InodeTypeOK
<1>3. Apart' /\ Numbered'
  BY DEF LifeInv, Evict, InodeTypeOK, Apart, Numbered
<1>4. HeldOpen'
  BY DEF LifeInv, Evict, InodeTypeOK, HeldOpen
<1> QED  BY <1>1, <1>2, <1>3, <1>4 DEF LifeInv

LEMMA ReclaimKeeps ==
  ASSUME LifeInv, NEW a \in Addr, Reclaim(a) PROVE LifeInv'
<1>1. InodeTypeOK'
  BY DEF LifeInv, Reclaim, names, InodeTypeOK
<1>2. Faithful' /\ Apart' /\ HeldOpen'
  BY DEF LifeInv, Reclaim, Faithful, Apart, HeldOpen
<1>3. Numbered'
  BY InodeLifeAssumption DEF LifeInv, Reclaim, InMemory, InodeTypeOK, Numbered
<1> QED  BY <1>1, <1>2, <1>3 DEF LifeInv

LEMMA AddRuleKeeps ==
  ASSUME LifeInv, NEW p \in Paths, AddRule(p) PROVE LifeInv'
<1>1. link[p] \in File /\ link[p] # NULL
  BY DEF AddRule, LifeInv, InodeTypeOK
<1>2. /\ home' \in [File -> Addr \cup {NULL}]
      /\ i_ino' \in [Addr -> {Ino[g] : g \in File} \cup {NULL}]
      /\ Apart' /\ Numbered'
      /\ home'[link[p]] \in Addr
      /\ \A g \in File : home[g] # NULL => home'[g] = home[g]
  BY <1>1, LoadKeeps DEF LifeInv, AddRule
<1>3. InodeTypeOK'
  <2>1. [inode |-> home'[link[p]], file |-> link[p], lost |-> FALSE]
          \in [inode : Addr, file : File, lost : BOOLEAN]
    BY <1>1, <1>2
  <2>2. rules' \subseteq [inode : Addr, file : File, lost : BOOLEAN]
    BY <2>1 DEF AddRule, Opened, LifeInv, InodeTypeOK
  <2>3. UNCHANGED <<made, link, fd>>
    BY DEF AddRule, names
  <2> QED  BY <1>2, <2>2, <2>3 DEF LifeInv, InodeTypeOK
<1>4. Faithful'
  BY <1>1, <1>2, InodeLifeAssumption DEF LifeInv, AddRule, Opened, InodeTypeOK, Faithful
<1>5. HeldOpen'
  BY <1>2, InodeLifeAssumption DEF LifeInv, AddRule, InodeTypeOK, HeldOpen
<1> QED  BY <1>2, <1>3, <1>4, <1>5 DEF LifeInv

LEMMA DestroyListKeeps ==
  ASSUME LifeInv, DestroyList PROVE LifeInv'
  BY DEF LifeInv, DestroyList, names, memory, InodeTypeOK, Faithful, Apart, Numbered, HeldOpen

LEMMA LifeNext == LifeInv /\ [InodeNext]_inodeVars => LifeInv'
<1> SUFFICES ASSUME LifeInv, [InodeNext]_inodeVars PROVE LifeInv'
  OBVIOUS
<1>1. CASE \E p \in Paths, f \in File : Make(p, f)
  BY <1>1, MakeKeeps
<1>2. CASE \E p \in Paths : Unlink(p)
  BY <1>2, UnlinkKeeps
<1>3. CASE \E p \in Paths, t \in Tasks : Open(t, p)
  BY <1>3, OpenKeeps
<1>4. CASE \E p \in Paths : AddRule(p)
  BY <1>4, AddRuleKeeps
<1>5. CASE \E t \in Tasks : Close(t)
  BY <1>5, CloseKeeps
<1>6. CASE \E f \in File : Evict(f)
  BY <1>6, EvictKeeps
<1>7. CASE \E a \in Addr : Reclaim(a)
  BY <1>7, ReclaimKeeps
<1>8. CASE DestroyList
  BY <1>8, DestroyListKeeps
<1>9. CASE UNCHANGED inodeVars
  BY <1>9 DEF inodeVars, names, memory, LifeInv, InodeTypeOK, Faithful, Apart, Numbered, HeldOpen
<1> QED  BY <1>1, <1>2, <1>3, <1>4, <1>5, <1>6, <1>7, <1>8, <1>9 DEF InodeNext

LEMMA VerdictsFollow == LifeInv => FdVerdictRight /\ InoVerdictRight
<1> SUFFICES ASSUME LifeInv PROVE FdVerdictRight /\ InoVerdictRight
  OBVIOUS
<1>1. ASSUME NEW t \in Tasks, fd[t] # NULL, IsFdProtected(fd[t]), ~Named(fd[t])
      PROVE  \E r \in rules : r.lost /\ r.inode = home[fd[t]]
  <2>1. PICK r \in rules : r.inode = home[fd[t]]
    BY <1>1 DEF IsFdProtected, SameInode
  <2>2. r.file # fd[t] /\ r.file \in File /\ fd[t] \in File /\ home[fd[t]] # NULL
    BY <1>1, <2>1 DEF Named, LifeInv, InodeTypeOK, HeldOpen
  <2>3. r.lost
    BY <2>1, <2>2 DEF LifeInv, Faithful, Apart
  <2> QED  BY <2>1, <2>3
<1>2. ASSUME NEW t \in Tasks, Named(fd[t]), ~IsFdProtected(fd[t])
      PROVE  \E r \in rules : r.lost /\ r.file = fd[t]
  BY <1>2 DEF Named, IsFdProtected, SameInode, LifeInv, Faithful
<1>3. ASSUME NEW f \in made, IsInoProtected(f), ~Named(f)
      PROVE  \E r \in rules : HasNumber(r, f) /\ (r.lost \/ Ino[r.file] = Ino[f])
  <2>1. PICK r \in rules : i_ino[r.inode] = Ino[f]
    BY <1>3 DEF IsInoProtected, HasNumber
  <2>2. r.inode \in Addr /\ r.file \in File
    BY <2>1 DEF LifeInv, InodeTypeOK
  <2>3. ~r.lost => home[r.file] = r.inode /\ Ino[r.file] = i_ino[r.inode]
    BY <2>1, <2>2, InodeLifeAssumption DEF LifeInv, Faithful, Numbered
  <2> QED  BY <2>1, <2>3 DEF HasNumber
<1>4. ASSUME NEW f \in made, Named(f), ~IsInoProtected(f)
      PROVE  \E r \in rules : r.lost /\ r.file = f
  <2>1. PICK r \in rules : r.file = f
    BY <1>4 DEF Named
  <2>2. r.inode \in Addr /\ f \in File /\ i_ino[r.inode] # Ino[f]
    BY <1>4, <2>1 DEF LifeInv, InodeTypeOK, IsInoProtected, HasNumber
  <2>3. r.lost
    BY <2>1, <2>2, InodeLifeAssumption DEF LifeInv, Faithful, Numbered
  <2> QED  BY <2>1, <2>3
<1>5. FdVerdictRight
  BY <1>1, <1>2 DEF FdVerdictRight
<1>6. InoVerdictRight
  BY <1>3, <1>4 DEF InoVerdictRight
<1> QED  BY <1>5, <1>6

\* Every variable of the life of inodes keeps its kind (LKM/communicate.c:202-289).
THEOREM InodesTyped == InodeSpec => []InodeTypeOK
<1>1. LifeInv => InodeTypeOK
  BY DEF LifeInv
<1> QED  BY <1>1, LifeInit, LifeNext, PTL DEF InodeSpec

\* A check by descriptor (LKM/communicate.c:112) goes wrong only where an inode
\* has left its address since its rule was made.
THEOREM FdVerdictsRight == InodeSpec => []FdVerdictRight
  BY LifeInit, LifeNext, VerdictsFollow, PTL DEF InodeSpec

\* A check by number (LKM/communicate.c:131) goes wrong only there, and where a
\* file that is named has the same number.
THEOREM InoVerdictsRight == InodeSpec => []InoVerdictRight
  BY LifeInit, LifeNext, VerdictsFollow, PTL DEF InodeSpec
=============================================================================
