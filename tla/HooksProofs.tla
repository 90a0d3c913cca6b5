------------------------------ MODULE HooksProofs ------------------------------
(***************************************************************************)
(* Theorems about Hooks, for any tree, names, rules and threads: what a    *)
(* hook makes of a name is how the kernel writes the place the name leads  *)
(* to, so a call that was let through by its name does nothing to what a   *)
(* rule named.                                                             *)
(***************************************************************************)
EXTENDS Hooks, WellFoundedInduction, FiniteSetTheorems, SequenceTheorems, TLAPS

-----------------------------------------------------------------------------
(* Numbers and folds.                                                      *)

\* A set of natural numbers has a least element.
LEMMA LeastNumber ==
  ASSUME NEW T, T \subseteq Nat, T # {}
  PROVE  \E n \in T : \A m \in T : n <= m
<1>1. PICK n \in T : \A m \in T : <<m, n>> \notin OpToRel(<, Nat)
  BY NatLessThanWellFounded, WFMin
<1>2. ASSUME NEW m \in T PROVE n <= m
  <2>1. m \in Nat /\ n \in Nat
    OBVIOUS
  <2>2. ~ (m < n)
    BY <1>1, <2>1 DEF OpToRel
  <2>. QED  BY <2>1, <2>2
<1>. QED  BY <1>2

\* A set with 0 in it, and with every number up to n whose predecessor is in it,
\* has all the numbers up to n.
LEMMA CountUp ==
  ASSUME NEW n \in Nat, NEW T, 0 \in T,
         \A i \in 1 .. n : i - 1 \in T => i \in T
  PROVE  \A i \in 0 .. n : i \in T
<1>. DEFINE Bad == {i \in 0 .. n : i \notin T}
<1>1. SUFFICES ASSUME Bad # {} PROVE FALSE
  OBVIOUS
<1>2. PICK i \in Bad : \A j \in Bad : i <= j
  <2>1. Bad \subseteq Nat
    OBVIOUS
  <2>. QED  BY <1>1, <2>1, LeastNumber
<1>3. i \in 1 .. n /\ i - 1 \in 0 .. n /\ i - 1 < i
  BY <1>2
<1>4. i - 1 \in T
  BY <1>2, <1>3
<1>. QED  BY <1>2, <1>3, <1>4

LEMMA MaxIs ==
  ASSUME NEW n \in Nat, NEW s \in SUBSET (1 .. n), s # {}
  PROVE  Max(s) \in s /\ \A y \in s : Max(s) >= y
<1>. DEFINE T == {n - x : x \in s}
<1>1. T \subseteq Nat /\ T # {}
  <2>1. \A x \in s : x \in 1 .. n /\ n - x \in Nat
    OBVIOUS
  <2>. QED  BY <2>1
<1>2. PICK m \in T : \A k \in T : m <= k
  BY <1>1, LeastNumber
<1>3. PICK x \in s : m = n - x
  BY <1>2
<1>4. ASSUME NEW y \in s PROVE x >= y
  <2>1. n - y \in T /\ x \in Nat /\ y \in Nat
    OBVIOUS
  <2>2. n - x <= n - y
    BY <1>2, <1>3, <2>1
  <2>. QED  BY <2>1, <2>2
<1>. QED  BY <1>4 DEF Max

LEMMA MaxOf ==
  ASSUME NEW n \in Nat, NEW k \in 1 .. n, NEW s \in SUBSET (1 .. k), k \in s
  PROVE  Max(s) = k
<1>1. Max(s) \in s /\ Max(s) >= k
  <2>1. s \in SUBSET (1 .. n)
    OBVIOUS
  <2>. QED  BY <2>1, MaxIs
<1>2. Max(s) \in 1 .. k
  BY <1>1
<1>. QED  BY <1>1, <1>2

\* A fold from the left as the library defines it, with a function for a step:
\* the value at a set of positions from the value without the last of them.
Folded(F, base, seq, g, s) ==
  IF s = {} THEN base ELSE F[g[s \ {Max(s)}]][seq[Max(s)]]

IsFold(F, base, seq, n, Q, g) ==
  /\ g \in [SUBSET (1 .. n) -> Q]
  /\ \A s \in SUBSET (1 .. n) : g[s] = Folded(F, base, seq, g, s)

LEMMA FoldExists ==
  ASSUME NEW n \in Nat, NEW Q, NEW base \in Q, NEW seq \in [1 .. n -> Token],
         NEW F \in [Q -> [Token -> Q]]
  PROVE  \E g : IsFold(F, base, seq, n, Q, g)
<1>. DEFINE Is(g, k) == /\ g \in [SUBSET (1 .. k) -> Q]
                        /\ \A s \in SUBSET (1 .. k) : g[s] = Folded(F, base, seq, g, s)
            T == {k \in 0 .. n : \E g : Is(g, k)}
<1>1. 0 \in T
  <2>. DEFINE g == [s \in SUBSET (1 .. 0) |-> base]
  <2>1. 1 .. 0 = {}
    OBVIOUS
  <2>2. Is(g, 0)
    BY <2>1 DEF Folded
  <2>. HIDE DEF g, Is
  <2>. QED  BY <2>2
<1>2. ASSUME NEW k \in 1 .. n, k - 1 \in T PROVE k \in T
  <2>1. PICK g : Is(g, k - 1)
    BY <1>2
  <2>. DEFINE h == [s \in SUBSET (1 .. k) |->
                      IF k \in s THEN F[g[s \ {k}]][seq[k]] ELSE g[s]]
  <2>2. \A s \in SUBSET (1 .. k) : s \ {k} \in SUBSET (1 .. k - 1)
    OBVIOUS
  <2>3. \A s \in SUBSET (1 .. k - 1) : g[s] \in Q /\ s \in SUBSET (1 .. k) /\ k \notin s
    BY <2>1
  <2>4. \A s \in SUBSET (1 .. k) : k \notin s => s \in SUBSET (1 .. k - 1)
    BY <2>2
  <2>5. h \in [SUBSET (1 .. k) -> Q]
    <3>1. seq[k] \in Token
      OBVIOUS
    <3>2. ASSUME NEW s \in SUBSET (1 .. k)
          PROVE  (IF k \in s THEN F[g[s \ {k}]][seq[k]] ELSE g[s]) \in Q
      <4>1. g[s \ {k}] \in Q
        BY <2>2, <2>3
      <4>2. k \notin s => g[s] \in Q
        BY <2>3, <2>4
      <4>3. F[g[s \ {k}]][seq[k]] \in Q
        BY <3>1, <4>1
      <4>. QED  BY <4>2, <4>3
    <3>. QED  BY <3>2
  <2>6. \A s \in SUBSET (1 .. k - 1) : h[s] = g[s]
    BY <2>3
  <2>7. ASSUME NEW s \in SUBSET (1 .. k) PROVE h[s] = Folded(F, base, seq, h, s)
    <3>1. CASE k \in s
      <4>1. Max(s) = k
        BY <3>1, MaxOf
      <4>2. h[s] = F[g[s \ {k}]][seq[k]] /\ h[s \ {k}] = g[s \ {k}]
        BY <2>2, <2>6, <3>1
      <4>. HIDE DEF h
      <4>. QED  BY <3>1, <4>1, <4>2 DEF Folded
    <3>2. CASE k \notin s
      <4>1. s \in SUBSET (1 .. k - 1) /\ h[s] = g[s]
        BY <2>4, <2>6, <3>2
      <4>2. g[s] = Folded(F, base, seq, g, s)
        BY <2>1, <4>1
      <4>3. s \ {Max(s)} \in SUBSET (1 .. k - 1)
        BY <4>1
      <4>. HIDE DEF h
      <4>. QED  BY <2>6, <4>1, <4>2, <4>3 DEF Folded
    <3>. QED  BY <3>1, <3>2
  <2>8. Is(h, k)
    <3>. HIDE DEF h
    <3>. QED  BY <2>5, <2>7
  <2>9. k \in 0 .. n /\ \E f : Is(f, k)
    <3>. HIDE DEF Is, h
    <3>. QED  BY <2>8
  <2>. HIDE DEF Is, h
  <2>. QED  BY <2>9
<1>3. \A i \in 0 .. n : i \in T
  <2>. HIDE DEF T
  <2>. QED  BY <1>1, <1>2, CountUp
<1>4. n \in 0 .. n
  OBVIOUS
<1>. QED  BY <1>3, <1>4 DEF IsFold

LEMMA UpTo ==
  ASSUME NEW n \in Nat, NEW k \in 1 .. n
  PROVE  /\ Max(1 .. k) = k /\ (1 .. k) \ {k} = 1 .. k - 1
         /\ 1 .. k \in SUBSET (1 .. n) /\ 1 .. k # {}
<1>1. k \in 1 .. k /\ 1 .. k \in SUBSET (1 .. k)
  OBVIOUS
<1>2. Max(1 .. k) = k
  BY <1>1, MaxOf
<1>. QED  BY <1>1, <1>2

-----------------------------------------------------------------------------
(* Places and names.                                                       *)

\* Places, names and texts alike.
Tokens == Seq(Token)

\* One token further from a place, were there no other links.
Along(at, token) ==
  IF token \in {Slash, Here} THEN at
  ELSE IF token = Up THEN IF at = <<>> THEN at ELSE Front(at)
  ELSE Append(at, token)

LEMMA AlongType ==
  ASSUME NEW at \in Tokens, NEW token \in Token
  PROVE  Along(at, token) \in Tokens
<1>1. at # <<>> => Front(at) \in Tokens
  BY DEF Tokens, Front
<1>2. Append(at, token) \in Tokens
  BY DEF Tokens
<1>. QED  BY <1>1, <1>2 DEF Along

\* What a name denotes is the end of a way along its tokens.
IsWay(w, base, name) ==
  /\ w \in [0 .. Len(name) -> Tokens] /\ w[0] = base
  /\ \A k \in 1 .. Len(name) : w[k] = Along(w[k - 1], name[k])

From(at, name) == IF Relative(name) THEN at ELSE <<>>

LEMMA DenotesIs ==
  ASSUME NEW at, NEW name \in Tokens, From(at, name) \in Tokens
  PROVE  \E w : IsWay(w, From(at, name), name) /\ Denotes(at, name) = w[Len(name)]
<1>. DEFINE n == Len(name)
            base == From(at, name)
            Value(h, s) == IF s = {} THEN base ELSE Along(h[s \ {Max(s)}], name[Max(s)])
            Equation(h) == h = [s \in SUBSET (1 .. n) |-> Value(h, s)]
            F == [q \in Tokens |-> [e \in Token |-> Along(q, e)]]
<1>1. DOMAIN name = 1 .. n /\ name \in [1 .. n -> Token] /\ n \in Nat
  BY DEF Tokens
<1>2. Denotes(at, name) = (CHOOSE h : Equation(h))[1 .. n]
  BY <1>1 DEF Denotes, FoldLeft, MapThenFoldSet, Along, From
<1>3. F \in [Tokens -> [Token -> Tokens]]
  BY AlongType
<1>4. PICK g : IsFold(F, base, name, n, Tokens, g)
  <2>. HIDE DEF F, n, base
  <2>. QED  BY <1>1, <1>3, FoldExists DEF base
<1>. HIDE DEF n, base
<1>5. ASSUME NEW s \in SUBSET (1 .. n) PROVE g[s] = Value(g, s)
  <2>1. CASE s # {}
    <3>1. Max(s) \in 1 .. n /\ s \ {Max(s)} \in SUBSET (1 .. n)
      BY <1>1, <2>1, MaxIs
    <3>2. g[s \ {Max(s)}] \in Tokens /\ name[Max(s)] \in Token
      BY <1>1, <1>4, <3>1 DEF IsFold
    <3>3. g[s] = F[g[s \ {Max(s)}]][name[Max(s)]]
      BY <1>4, <2>1 DEF IsFold, Folded
    <3>. QED  BY <2>1, <3>2, <3>3
  <2>2. CASE s = {}
    BY <1>4, <2>2 DEF IsFold, Folded
  <2>. QED  BY <2>1, <2>2
<1>6. Equation(g)
  <2>1. g \in [SUBSET (1 .. n) -> Tokens]
    BY <1>4 DEF IsFold
  <2>. HIDE DEF Value
  <2>. QED  BY <1>5, <2>1
<1>. DEFINE H == CHOOSE h : Equation(h)
            w == [k \in 0 .. n |-> H[1 .. k]]
<1>7. Equation(H)
  <2>. HIDE DEF Equation
  <2>. QED  BY <1>6
<1>. HIDE DEF H
<1>8. \A s \in SUBSET (1 .. n) : H[s] = Value(H, s)
  <2>. HIDE DEF Value
  <2>. QED  BY <1>7
<1>9. w[0] = base
  <2>1. 1 .. 0 = {} /\ 0 \in 0 .. n
    BY <1>1
  <2>. QED  BY <1>8, <2>1
<1>10. ASSUME NEW k \in 1 .. n PROVE w[k] = Along(w[k - 1], name[k])
  <2>1. /\ Max(1 .. k) = k /\ (1 .. k) \ {k} = 1 .. k - 1
        /\ 1 .. k \in SUBSET (1 .. n) /\ 1 .. k # {}
    BY <1>1, UpTo
  <2>2. w[k] = H[1 .. k] /\ w[k - 1] = H[1 .. k - 1]
    BY <1>1
  <2>3. H[1 .. k] = Along(H[1 .. k - 1], name[k])
    BY ONLY <1>8, <2>1
  <2>. QED  BY <2>2, <2>3
<1>11. \A k \in 0 .. n : w[k] \in Tokens
  <2>. DEFINE T == {k \in 0 .. n : w[k] \in Tokens}
  <2>1. 0 \in T
    BY <1>1, <1>9 DEF base
  <2>2. ASSUME NEW k \in 1 .. n, k - 1 \in T PROVE k \in T
    <3>1. w[k - 1] \in Tokens /\ name[k] \in Token
      BY <1>1, <2>2
    <3>2. w[k] \in Tokens /\ k \in 0 .. n
      <4>. HIDE DEF w
      <4>. QED  BY <1>1, <1>10, <3>1, AlongType
    <3>. QED  BY <3>2
  <2>3. \A k \in 0 .. n : k \in T
    <3>. HIDE DEF T
    <3>. QED  BY <1>1, <2>1, <2>2, CountUp
  <2>. QED  BY <2>3
<1>12. IsWay(w, base, name)
  <2>1. w \in [0 .. n -> Tokens]
    BY <1>11
  <2>. HIDE DEF w
  <2>. QED  BY <1>9, <1>10, <2>1 DEF IsWay, n
<1>13. Denotes(at, name) = w[n]
  BY <1>1, <1>2 DEF H
<1>. QED
  <2>. HIDE DEF w
  <2>. QED  BY <1>12, <1>13 DEF n, base

\* ... of two tokens, the first of them ".".
LEMMA DenotesOne ==
  ASSUME NEW at \in Tokens, NEW token \in Token
  PROVE  Denotes(at, <<Here, token>>) = Along(at, token)
<1>. DEFINE name == <<Here, token>>
<1>1. name \in Tokens /\ Len(name) = 2 /\ name[1] = Here /\ name[2] = token
  BY HooksAssumption DEF Tokens
<1>2. From(at, name) = at
  BY <1>1 DEF From, Relative, Here, Slash
<1>. HIDE DEF name
<1>3. PICK w : IsWay(w, at, name) /\ Denotes(at, name) = w[Len(name)]
  BY <1>1, <1>2, DenotesIs
<1>4. w[0] = at /\ w[1] = Along(w[0], Here) /\ w[2] = Along(w[1], token)
  <2>1. 1 \in 1 .. 2 /\ 2 \in 1 .. 2 /\ 1 - 1 = 0 /\ 2 - 1 = 1
    OBVIOUS
  <2>2. \A k \in 1 .. 2 : w[k] = Along(w[k - 1], name[k])
    BY <1>1, <1>3 DEF IsWay
  <2>. QED  BY <1>1, <1>3, <2>1, <2>2 DEF IsWay
<1>. QED  BY <1>1, <1>3, <1>4 DEF name, Along

\* One token further in the tree.
StepTo(at, token) ==
  IF ~IsDirectory(at) THEN NULL
  ELSE LET to == Denotes(at, <<Here, token>>) IN IF At(to) = {} THEN NULL ELSE to

Spot == Tokens \cup {NULL}

LEMMA StepIs ==
  ASSUME NEW at \in Spot, NEW token \in Token
  PROVE  /\ StepTo(at, token) \in Spot
         /\ \/ StepTo(at, token) = NULL
            \/ at \in Tokens /\ StepTo(at, token) = Along(at, token)
<1>1. CASE IsDirectory(at)
  <2>1. at \in Tokens
    BY <1>1 DEF IsDirectory, Spot
  <2>2. Denotes(at, <<Here, token>>) = Along(at, token) /\ Along(at, token) \in Tokens
    BY <2>1, DenotesOne, AlongType
  <2>. QED  BY <1>1, <2>1, <2>2 DEF StepTo, Spot
<1>2. CASE ~IsDirectory(at)
  BY <1>2 DEF StepTo, Spot
<1>. QED  BY <1>1, <1>2

\* A walk from a place, token by token.
IsWalk(w, base, name) ==
  /\ w \in [0 .. Len(name) -> Spot] /\ w[0] = base
  /\ \A k \in 1 .. Len(name) : w[k] = StepTo(w[k - 1], name[k])

\* A walk that comes to an end, or the way to what a name denotes.
IsTrack(w, base, name) ==
  /\ w \in [0 .. Len(name) -> Spot] /\ w[0] = base
  /\ \A k \in 1 .. Len(name) :
       w[k] = NULL \/ (w[k - 1] \in Tokens /\ w[k] = Along(w[k - 1], name[k]))

LEMMA Tracks ==
  ASSUME NEW name \in Tokens, NEW base, NEW w, IsWalk(w, base, name) \/ IsWay(w, base, name)
  PROVE  IsTrack(w, base, name)
<1>1. Len(name) \in Nat /\ \A k \in 1 .. Len(name) : name[k] \in Token
  BY DEF Tokens
<1>2. \A k \in 1 .. Len(name) : k - 1 \in 0 .. Len(name)
  BY <1>1
<1>3. CASE IsWalk(w, base, name)
  <2>1. ASSUME NEW k \in 1 .. Len(name)
        PROVE  w[k] = NULL \/ (w[k - 1] \in Tokens /\ w[k] = Along(w[k - 1], name[k]))
    <3>1. w[k - 1] \in Spot /\ w[k] = StepTo(w[k - 1], name[k]) /\ name[k] \in Token
      BY <1>1, <1>2, <1>3 DEF IsWalk
    <3>. QED  BY <3>1, StepIs
  <2>. QED  BY <1>3, <2>1 DEF IsWalk, IsTrack
<1>4. CASE IsWay(w, base, name)
  <2>1. \A k \in 1 .. Len(name) : w[k - 1] \in Tokens
    BY <1>2, <1>4 DEF IsWay
  <2>. QED  BY <1>4, <2>1 DEF IsWay, IsTrack, Spot
<1>. QED  BY <1>3, <1>4

Start(dir, name) == IF Relative(name) THEN where[dir] ELSE <<>>

LEMMA WalkIs ==
  ASSUME NEW dir, NEW start, NEW name \in Tokens, Start(dir, start) \in Spot
  PROVE  \E w : IsWalk(w, Start(dir, start), name) /\ Walk(dir, start, name) = w[Len(name)]
<1>. DEFINE n == Len(name)
            base == Start(dir, start)
            Value(h, s) == IF s = {} THEN base ELSE StepTo(h[s \ {Max(s)}], name[Max(s)])
            Equation(h) == h = [s \in SUBSET (1 .. n) |-> Value(h, s)]
            F == [q \in Spot |-> [e \in Token |-> StepTo(q, e)]]
<1>1. DOMAIN name = 1 .. n /\ name \in [1 .. n -> Token] /\ n \in Nat
  BY DEF Tokens
<1>2. Walk(dir, start, name) = (CHOOSE h : Equation(h))[1 .. n]
  BY <1>1 DEF Walk, FoldLeft, MapThenFoldSet, StepTo, Start
<1>3. F \in [Spot -> [Token -> Spot]]
  BY StepIs
<1>4. PICK g : IsFold(F, base, name, n, Spot, g)
  <2>. HIDE DEF F, n, base
  <2>. QED  BY <1>1, <1>3, FoldExists DEF base
<1>. HIDE DEF n, base
<1>5. ASSUME NEW s \in SUBSET (1 .. n) PROVE g[s] = Value(g, s)
  <2>1. CASE s # {}
    <3>1. Max(s) \in 1 .. n /\ s \ {Max(s)} \in SUBSET (1 .. n)
      BY <1>1, <2>1, MaxIs
    <3>2. g[s \ {Max(s)}] \in Spot /\ name[Max(s)] \in Token
      BY <1>1, <1>4, <3>1 DEF IsFold
    <3>3. g[s] = F[g[s \ {Max(s)}]][name[Max(s)]]
      BY <1>4, <2>1 DEF IsFold, Folded
    <3>. QED  BY <2>1, <3>2, <3>3
  <2>2. CASE s = {}
    BY <1>4, <2>2 DEF IsFold, Folded
  <2>. QED  BY <2>1, <2>2
<1>6. Equation(g)
  <2>1. g \in [SUBSET (1 .. n) -> Spot]
    BY <1>4 DEF IsFold
  <2>. HIDE DEF Value
  <2>. QED  BY <1>5, <2>1
<1>. DEFINE H == CHOOSE h : Equation(h)
            w == [k \in 0 .. n |-> H[1 .. k]]
<1>7. Equation(H)
  <2>. HIDE DEF Equation
  <2>. QED  BY <1>6
<1>. HIDE DEF H
<1>8. \A s \in SUBSET (1 .. n) : H[s] = Value(H, s)
  <2>. HIDE DEF Value
  <2>. QED  BY <1>7
<1>9. w[0] = base
  <2>1. 1 .. 0 = {} /\ 0 \in 0 .. n
    BY <1>1
  <2>. QED  BY <1>8, <2>1
<1>10. ASSUME NEW k \in 1 .. n PROVE w[k] = StepTo(w[k - 1], name[k])
  <2>1. /\ Max(1 .. k) = k /\ (1 .. k) \ {k} = 1 .. k - 1
        /\ 1 .. k \in SUBSET (1 .. n) /\ 1 .. k # {}
    BY <1>1, UpTo
  <2>2. w[k] = H[1 .. k] /\ w[k - 1] = H[1 .. k - 1]
    BY <1>1
  <2>3. H[1 .. k] = StepTo(H[1 .. k - 1], name[k])
    BY ONLY <1>8, <2>1
  <2>. QED  BY <2>2, <2>3
<1>11. \A k \in 0 .. n : w[k] \in Spot
  <2>. DEFINE T == {k \in 0 .. n : w[k] \in Spot}
  <2>1. 0 \in T
    BY <1>1, <1>9 DEF base
  <2>2. ASSUME NEW k \in 1 .. n, k - 1 \in T PROVE k \in T
    <3>1. w[k - 1] \in Spot /\ name[k] \in Token
      BY <1>1, <2>2
    <3>2. w[k] \in Spot /\ k \in 0 .. n
      <4>. HIDE DEF w
      <4>. QED  BY <1>1, <1>10, <3>1, StepIs
    <3>. QED  BY <3>2
  <2>3. \A k \in 0 .. n : k \in T
    <3>. HIDE DEF T
    <3>. QED  BY <1>1, <2>1, <2>2, CountUp
  <2>. QED  BY <2>3
<1>12. IsWalk(w, base, name)
  <2>1. w \in [0 .. n -> Spot]
    BY <1>11
  <2>. HIDE DEF w
  <2>. QED  BY <1>9, <1>10, <2>1 DEF IsWalk, n
<1>13. Walk(dir, start, name) = w[n]
  BY <1>1, <1>2 DEF H
<1>. QED
  <2>. HIDE DEF w
  <2>. QED  BY <1>12, <1>13 DEF n, base

-----------------------------------------------------------------------------
(* Texts.                                                                  *)

\* A place as d_path writes it; of the root directory, nothing.
Piece(place, i) == <<Slash, place[i]>>
Spell(place) == FlattenSeq([i \in DOMAIN place |-> Piece(place, i)])

LEMMA TextIs == ASSUME NEW place PROVE Text(place) = IF place = <<>> THEN <<Slash>> ELSE Spell(place)
BY DEF Text, Spell, Piece

LEMMA PieceType ==
  ASSUME NEW place \in Tokens, NEW i \in 1 .. Len(place)
  PROVE  Piece(place, i) \in Tokens
<1>1. Slash \in Token /\ place[i] \in Token
  BY HooksAssumption DEF Tokens
<1>. DEFINE c == place[i]
<1>. HIDE DEF c
<1>2. <<Slash, c>> \in Seq(Token)
  BY <1>1 DEF c
<1>. QED  BY <1>2 DEF Tokens, Piece, c

LEMMA Joined == ASSUME NEW a \in Tokens, NEW b \in Tokens PROVE a \o b \in Tokens
BY DEF Tokens

\* ... piece by piece.
IsSpelled(f, place) ==
  /\ f \in [0 .. Len(place) -> Tokens] /\ f[0] = <<>>
  /\ \A i \in 1 .. Len(place) : f[i] = f[i - 1] \o Piece(place, i)

LEMMA SpelledExists == ASSUME NEW place \in Tokens PROVE \E f : IsSpelled(f, place)
<1>. DEFINE n == Len(place)
            Is(f, k) == /\ f \in [0 .. k -> Tokens] /\ f[0] = <<>>
                        /\ \A i \in 1 .. k : f[i] = f[i - 1] \o Piece(place, i)
            T == {k \in 0 .. n : \E f : Is(f, k)}
<1>1. n \in Nat
  BY DEF Tokens
<1>2. 0 \in T
  <2>. DEFINE f == [i \in 0 .. 0 |-> <<>>]
  <2>1. <<>> \in Tokens /\ 0 \in 0 .. n
    BY <1>1 DEF Tokens
  <2>2. Is(f, 0)
    BY <2>1
  <2>. HIDE DEF f, Is
  <2>. QED  BY <2>1, <2>2
<1>3. ASSUME NEW k \in 1 .. n, k - 1 \in T PROVE k \in T
  <2>1. PICK f : Is(f, k - 1)
    BY <1>3
  <2>. DEFINE t == f[k - 1] \o Piece(place, k)
              g == [i \in 0 .. k |-> IF i = k THEN t ELSE f[i]]
  <2>2. t \in Tokens
    <3>1. k - 1 \in 0 .. k - 1
      BY <1>1
    <3>2. f[k - 1] \in Tokens
      BY <2>1, <3>1
    <3>. QED  BY <3>2, PieceType, Joined
  <2>. HIDE DEF t
  <2>3. g \in [0 .. k -> Tokens] /\ g[k] = t /\ \A i \in 0 .. k - 1 : g[i] = f[i]
    <3>1. \A i \in 0 .. k : i # k => i \in 0 .. k - 1
      BY <1>1
    <3>2. \A i \in 0 .. k - 1 : i \in 0 .. k /\ i # k
      BY <1>1
    <3>3. k \in 0 .. k /\ \A i \in 0 .. k - 1 : f[i] \in Tokens
      BY <1>1, <2>1
    <3>. QED  BY <2>2, <3>1, <3>2, <3>3
  <2>. HIDE DEF g
  <2>4. g[0] = <<>>
    <3>1. 0 \in 0 .. k - 1
      BY <1>1
    <3>. QED  BY <2>1, <2>3, <3>1
  <2>5. ASSUME NEW i \in 1 .. k PROVE g[i] = g[i - 1] \o Piece(place, i)
    <3>1. i - 1 \in 0 .. k - 1 /\ (i # k => i \in 1 .. k - 1 /\ i \in 0 .. k - 1)
      BY <1>1
    <3>2. CASE i = k
      BY <2>3, <3>1, <3>2 DEF t
    <3>3. CASE i # k
      BY <2>1, <2>3, <3>1, <3>3
    <3>. QED  BY <3>2, <3>3
  <2>6. Is(g, k) /\ k \in 0 .. n
    BY <1>1, <2>3, <2>4, <2>5
  <2>. HIDE DEF Is
  <2>. QED  BY <2>6
<1>4. \A k \in 0 .. n : k \in T
  <2>. HIDE DEF T, n
  <2>. QED  BY <1>1, <1>2, <1>3, CountUp
<1>5. n \in T
  <2>. HIDE DEF T
  <2>. QED  BY <1>1, <1>4
<1>. QED  BY <1>5 DEF IsSpelled

LEMMA SpellIs ==
  ASSUME NEW place \in Tokens, NEW f, IsSpelled(f, place)
  PROVE  Spell(place) = f[Len(place)]
<1>. DEFINE n == Len(place)
            seqs == [i \in DOMAIN place |-> Piece(place, i)]
            Value(h, i) == IF i = 1 THEN seqs[i] ELSE h[i - 1] \o seqs[i]
            Equation(h) == h = [i \in 1 .. n |-> Value(h, i)]
<1>1. n \in Nat /\ DOMAIN place = 1 .. n
  BY DEF Tokens
<1>2. /\ seqs \in Seq(Tokens) /\ Len(seqs) = n
      /\ \A i \in 1 .. n : seqs[i] = Piece(place, i) /\ seqs[i] \in Tokens
  <2>1. \A i \in 1 .. n : Piece(place, i) \in Tokens
    BY PieceType
  <2>. HIDE DEF n
  <2>. QED  BY <1>1, <2>1
<1>3. /\ f[0] = <<>> /\ \A i \in 0 .. n : f[i] \in Tokens
      /\ \A i \in 1 .. n : f[i] = f[i - 1] \o seqs[i]
  BY <1>2 DEF IsSpelled
<1>4. CASE n = 0
  <2>1. FlattenSeq(seqs) = seqs /\ seqs = <<>>
    BY <1>2, <1>4, EmptySeq DEF FlattenSeq
  <2>. QED  BY <1>3, <1>4, <2>1 DEF Spell
<1>5. CASE n # 0
  <2>1. FlattenSeq(seqs) = (CHOOSE h : Equation(h))[n]
    <3>1. Len(seqs) = n
      BY <1>2
    <3>. HIDE DEF seqs, n
    <3>. QED  BY <1>5, <3>1 DEF FlattenSeq
  <2>. HIDE DEF seqs, n
  <2>2. f[1] = seqs[1]
    <3>1. 1 \in 1 .. n /\ 1 - 1 = 0
      BY <1>1, <1>5
    <3>2. seqs[1] \in Tokens /\ f[1] = <<>> \o seqs[1]
      BY <1>2, <1>3, <3>1
    <3>. QED  BY <3>2 DEF Tokens
  <2>. DEFINE g == [i \in 1 .. n |-> f[i]]
  <2>3. ASSUME NEW i \in 1 .. n PROVE g[i] = Value(g, i)
    <3>1. CASE i = 1
      BY <2>2, <3>1
    <3>2. CASE i # 1
      <4>1. i - 1 \in 1 .. n /\ g[i - 1] = f[i - 1] /\ g[i] = f[i]
        BY <1>1, <3>2
      <4>. QED  BY <1>3, <3>2, <4>1
    <3>. QED  BY <3>1, <3>2
  <2>4. Equation(g)
    <3>. HIDE DEF Value
    <3>. QED  BY <2>3
  <2>5. ASSUME NEW h, Equation(h) PROVE h[n] = f[n]
    <3>. DEFINE T == {i \in 0 .. n : i > 0 => h[i] = f[i]}
    <3>1. \A i \in 1 .. n : h[i] = Value(h, i)
      <4>. HIDE DEF Value
      <4>. QED  BY <2>5
    <3>2. 0 \in T
      BY <1>1
    <3>3. ASSUME NEW i \in 1 .. n, i - 1 \in T PROVE i \in T
      <4>1. CASE i = 1
        BY <2>2, <3>1, <4>1
      <4>2. CASE i # 1
        <5>1. h[i - 1] = f[i - 1]
          BY <3>3, <4>2
        <5>2. h[i] = h[i - 1] \o seqs[i]
          BY <3>1, <4>2
        <5>3. f[i] = f[i - 1] \o seqs[i]
          BY <1>3
        <5>4. h[i] = f[i] /\ i \in 0 .. n
          BY <1>1, <5>1, <5>2, <5>3
        <5>. QED  BY <5>4
      <4>. QED  BY <4>1, <4>2
    <3>4. \A i \in 0 .. n : i \in T
      <4>. HIDE DEF T
      <4>. QED  BY <1>1, <3>2, <3>3, CountUp
    <3>5. n \in 0 .. n /\ n > 0
      BY <1>1, <1>5
    <3>. QED  BY <3>4, <3>5
  <2>6. FlattenSeq(seqs) = f[n]
    <3>. HIDE DEF Equation, g
    <3>. QED  BY <2>1, <2>4, <2>5
  <2>. QED  BY <2>6 DEF Spell, seqs, n
<1>. QED  BY <1>4, <1>5

\* One component more is one piece more.
LEMMA SpellMore ==
  ASSUME NEW place \in Tokens, NEW token \in Token
  PROVE  /\ Spell(<<>>) = <<>> /\ Spell(place) \in Tokens
         /\ Spell(Append(place, token)) = Spell(place) \o <<Slash, token>>
<1>. DEFINE more == Append(place, token)
            n == Len(place)
<1>1. /\ more \in Tokens /\ n \in Nat /\ Len(more) = n + 1 /\ more[n + 1] = token
      /\ \A i \in 1 .. n : more[i] = place[i]
      /\ <<>> \in Tokens /\ Len(<<>>) = 0
  BY DEF Tokens
<1>. HIDE DEF more
<1>2. PICK f : IsSpelled(f, place)
  BY SpelledExists
<1>3. PICK g : IsSpelled(g, more)
  BY <1>1, SpelledExists
<1>4. PICK e : IsSpelled(e, <<>>)
  BY <1>1, SpelledExists
<1>5. Spell(place) = f[n] /\ Spell(more) = g[n + 1] /\ Spell(<<>>) = e[0]
  BY <1>1, <1>2, <1>3, <1>4, SpellIs
<1>6. \A i \in 0 .. n : g[i] = f[i]
  <2>. DEFINE T == {i \in 0 .. n : g[i] = f[i]}
  <2>1. 0 \in T
    BY <1>1, <1>2, <1>3 DEF IsSpelled
  <2>2. ASSUME NEW i \in 1 .. n, i - 1 \in T PROVE i \in T
    <3>1. i \in 1 .. n + 1 /\ i \in 0 .. n /\ Piece(more, i) = Piece(place, i)
      BY <1>1 DEF Piece
    <3>2. g[i] = g[i - 1] \o Piece(more, i) /\ f[i] = f[i - 1] \o Piece(place, i)
      BY <1>1, <1>2, <1>3, <3>1 DEF IsSpelled
    <3>. QED  BY <2>2, <3>1, <3>2
  <2>3. \A i \in 0 .. n : i \in T
    <3>. HIDE DEF T, n
    <3>. QED  BY <1>1, <2>1, <2>2, CountUp
  <2>. QED  BY <2>3
<1>7. g[n + 1] = g[n] \o <<Slash, token>>
  <2>1. n + 1 \in 1 .. n + 1 /\ (n + 1) - 1 = n
    BY <1>1
  <2>. HIDE DEF n
  <2>2. g[n + 1] = g[(n + 1) - 1] \o Piece(more, n + 1)
    BY <1>1, <1>3, <2>1 DEF IsSpelled
  <2>. QED  BY <1>1, <2>1, <2>2 DEF Piece
<1>8. n \in 0 .. n
  BY <1>1
<1>9. f[n] \in Tokens /\ e[0] = <<>>
  BY <1>2, <1>4, <1>8 DEF IsSpelled
<1>. QED  BY <1>5, <1>6, <1>7, <1>8, <1>9 DEF more

LEMMA Regroup ==
  ASSUME NEW a \in Tokens, NEW b \in Tokens, NEW c \in Tokens
  PROVE  (a \o b) \o c = a \o (b \o c)
BY DEF Tokens

LEMMA Singles ==
  ASSUME NEW c \in Token, NEW d \in Token
  PROVE  /\ <<c>> \in Tokens /\ <<d>> \in Tokens /\ <<c, d>> \in Tokens /\ <<c, d>> = <<c>> \o <<d>>
<1>1. <<c>> \in Seq(Token) /\ <<d>> \in Seq(Token) /\ <<c, d>> \in Seq(Token)
  OBVIOUS
<1>. DEFINE x == <<c>>
            y == <<d>>
            z == <<c, d>>
<1>2. Len(x) = 1 /\ Len(y) = 1 /\ Len(z) = 2 /\ x[1] = c /\ y[1] = d /\ z[1] = c /\ z[2] = d
  OBVIOUS
<1>3. x \in Seq(Token) /\ y \in Seq(Token) /\ z \in Seq(Token)
  BY <1>1
<1>. HIDE DEF x, y, z
<1>4. x \o y \in Seq(Token) /\ Len(x \o y) = 2 /\ (x \o y)[1] = x[1] /\ (x \o y)[2] = y[1]
  <2>1. x \o y \in Seq(Token) /\ Len(x \o y) = Len(x) + Len(y)
    BY <1>3
  <2>2. \A i \in 1 .. Len(x) + Len(y) :
          (x \o y)[i] = IF i <= Len(x) THEN x[i] ELSE y[i - Len(x)]
    BY <1>3
  <2>3. 1 \in 1 .. 2 /\ 2 \in 1 .. 2 /\ 2 - 1 = 1 /\ ~(2 <= 1) /\ 1 <= 1 /\ 1 + 1 = 2
    OBVIOUS
  <2>4. Len(x) + Len(y) = 2
    BY <1>2, <2>3
  <2>5. (x \o y)[1] = x[1]
    BY <1>2, <2>2, <2>3, <2>4
  <2>6. (x \o y)[2] = y[2 - 1]
    BY <1>2, <2>2, <2>3, <2>4
  <2>. QED  BY <2>1, <2>3, <2>4, <2>5, <2>6
<1>5. \A i \in 1 .. 2 : (x \o y)[i] = z[i]
  <2>1. \A i \in 1 .. 2 : i = 1 \/ i = 2
    OBVIOUS
  <2>. QED  BY <1>2, <1>4, <2>1
<1>6. z = x \o y
  BY <1>2, <1>3, <1>4, <1>5, SeqEqual
<1>. QED  BY <1>1, <1>6 DEF x, y, z, Tokens

\* The first k tokens of a name.
LEMMA Grow ==
  ASSUME NEW name \in Tokens, NEW k \in 1 .. Len(name)
  PROVE  /\ SubSeq(name, 1, k - 1) \in Tokens /\ SubSeq(name, 1, k) \in Tokens
         /\ SubSeq(name, 1, k) = SubSeq(name, 1, k - 1) \o <<name[k]>>
<1>1. k \in Nat /\ Len(name) \in Nat /\ \A i \in 1 .. Len(name) : name[i] \in Token
  BY DEF Tokens
<1>2. SubSeq(name, 1, k - 1) \in Tokens /\ SubSeq(name, 1, k) \in Tokens
  BY <1>1 DEF Tokens
<1>. DEFINE a == SubSeq(name, 1, k)
            b == SubSeq(name, 1, k - 1)
            c == <<name[k]>>
<1>3. /\ Len(a) = k /\ Len(b) = k - 1 /\ Len(c) = 1
      /\ \A i \in 1 .. k : a[i] = name[i]
      /\ \A i \in 1 .. k - 1 : b[i] = name[i]
  BY <1>1
<1>4. a \in Seq(Token) /\ b \in Seq(Token) /\ c \in Seq(Token) /\ c[1] = name[k]
  BY <1>1, <1>2 DEF Tokens
<1>. HIDE DEF a, b, c
<1>5. /\ b \o c \in Seq(Token) /\ Len(b \o c) = k
      /\ \A i \in 1 .. k : (b \o c)[i] = IF i = k THEN c[1] ELSE b[i]
  <2>1. b \o c \in Seq(Token) /\ Len(b \o c) = Len(b) + Len(c)
    BY <1>4
  <2>2. \A i \in 1 .. Len(b) + Len(c) :
          (b \o c)[i] = IF i <= Len(b) THEN b[i] ELSE c[i - Len(b)]
    BY <1>4
  <2>3. Len(b) + Len(c) = k
    BY <1>1, <1>3
  <2>4. \A i \in 1 .. k : IF i = k THEN ~(i <= k - 1) /\ i - (k - 1) = 1 ELSE i <= k - 1
    BY <1>1
  <2>. QED  BY <1>3, <2>1, <2>2, <2>3, <2>4
<1>6. \A i \in 1 .. k : (b \o c)[i] = a[i]
  <2>1. ASSUME NEW i \in 1 .. k PROVE (b \o c)[i] = a[i]
    <3>1. (b \o c)[i] = IF i = k THEN c[1] ELSE b[i]
      BY <1>5
    <3>2. a[i] = name[i] /\ c[1] = name[k]
      BY <1>3, <1>4
    <3>3. i # k => i \in 1 .. k - 1
      BY <1>1
    <3>4. i # k => b[i] = name[i]
      BY <1>3, <3>3
    <3>. HIDE DEF a, b, c
    <3>. QED  BY ONLY <3>1, <3>2, <3>4
  <2>. QED  BY <2>1
<1>7. a = b \o c
  BY <1>1, <1>3, <1>4, <1>5, <1>6, SeqEqual
<1>. QED  BY <1>2, <1>7 DEF a, b, c

\* Tokens and slashes in turn.
Even(k) == k % 2 = 0
LEMMA EvenFlips == ASSUME NEW k \in Nat, k > 0 PROVE Even(k) <=> ~Even(k - 1)
BY DEF Even

\* Where a walk has come is spelled as where it began and the tokens it took: in
\* front of every component one slash.  The walk begins behind a slash when b is
\* 0 and in front of one when b is 1.
Reached(place, k, b) == IF Even(k + b) THEN Spell(place) \o <<Slash>> ELSE Spell(place)

Alternates(name, m, b) ==
  \A k \in 1 .. m : (name[k] = Slash <=> Even(k + b)) /\ name[k] \notin {Here, Up}
SpelledAt(w, base, name, k, b) ==
  w[k] # NULL => /\ base \in Tokens /\ w[k] \in Tokens
                 /\ Reached(w[k], k, b) = Reached(base, 0, b) \o SubSeq(name, 1, k)

LEMMA WalkSpells ==
  ASSUME NEW name \in Tokens, NEW base \in Spot, NEW w, IsTrack(w, base, name),
         NEW m \in 0 .. Len(name), NEW b \in {0, 1},
         Alternates(name, m, b)
  PROVE  \A k \in 0 .. m : SpelledAt(w, base, name, k, b)
<1>. DEFINE B == Reached(base, 0, b)
            Right(k) == w[k] # NULL =>
                          /\ base \in Tokens /\ w[k] \in Tokens
                          /\ Reached(w[k], k, b) = B \o SubSeq(name, 1, k)
            T == {k \in 0 .. m : Right(k)}
<1>1. Len(name) \in Nat /\ m \in Nat /\ 0 \in 0 .. Len(name)
  BY DEF Tokens
<1>2. Slash \in Token /\ <<Slash>> \in Tokens
  BY HooksAssumption, Singles
<1>3. ASSUME NEW place \in Tokens, NEW k \in Nat PROVE Reached(place, k, b) \in Tokens
  <2>1. Spell(place) \in Tokens
    BY <1>2, SpellMore
  <2>. QED  BY <1>2, <2>1, Joined DEF Reached
<1>4. 0 \in T
  <2>1. w[0] = base /\ base \in Spot
    BY DEF IsTrack
  <2>2. ASSUME base \in Tokens PROVE B \o SubSeq(name, 1, 0) = B
    <3>1. B \in Tokens
      BY <1>3, <2>2
    <3>. HIDE DEF B
    <3>2. SubSeq(name, 1, 0) = <<>>
      BY DEF Tokens
    <3>. QED  BY <3>1, <3>2 DEF Tokens
  <2>3. Right(0)
    BY <2>1, <2>2 DEF Spot
  <2>. HIDE DEF Right
  <2>. QED  BY <1>1, <2>3
<1>5. ASSUME NEW k \in 1 .. m, k - 1 \in T PROVE k \in T
  <2>1. /\ k \in 1 .. Len(name) /\ k \in Nat /\ k > 0 /\ k - 1 \in 0 .. Len(name)
        /\ k \in 0 .. m /\ name[k] \in Token
    BY <1>1 DEF Tokens
  <2>2. w[k] = NULL \/ (w[k - 1] \in Tokens /\ w[k] = Along(w[k - 1], name[k]))
    BY <2>1 DEF IsTrack
  <2>3. SUFFICES ASSUME w[k] # NULL
                 PROVE  /\ base \in Tokens /\ w[k] \in Tokens
                        /\ Reached(w[k], k, b) = B \o SubSeq(name, 1, k)
    BY <2>1
  <2>4. w[k - 1] \in Tokens /\ w[k] = Along(w[k - 1], name[k])
    BY <2>2, <2>3
  <2>5. /\ base \in Tokens
        /\ Reached(w[k - 1], k - 1, b) = B \o SubSeq(name, 1, k - 1)
    <3>1. NULL \notin Tokens
      BY HooksAssumption DEF Tokens
    <3>. QED  BY <1>5, <2>4, <3>1
  <2>. DEFINE at == w[k - 1]
              pre == SubSeq(name, 1, k - 1)
  <2>6. /\ B \in Tokens /\ at \in Tokens /\ Spell(at) \in Tokens
        /\ pre \in Tokens /\ SubSeq(name, 1, k) = pre \o <<name[k]>>
        /\ <<name[k]>> \in Tokens
    BY <1>2, <1>3, <2>1, <2>4, <2>5, Grow, SpellMore, Singles
  <2>7. Even(k + b) <=> ~Even(k - 1 + b)
    <3>1. k + b \in Nat /\ k + b > 0 /\ (k + b) - 1 = k - 1 + b
      BY <2>1
    <3>. QED  BY <3>1, EvenFlips
  <2>. HIDE DEF B, at, pre
  <2>8. (B \o pre) \o <<name[k]>> = B \o SubSeq(name, 1, k)
    <3>1. (B \o pre) \o <<name[k]>> = B \o (pre \o <<name[k]>>)
      <4>. DEFINE x == <<name[k]>>
      <4>1. B \in Tokens /\ pre \in Tokens /\ x \in Tokens
        BY <2>6
      <4>. HIDE DEF x
      <4>2. (B \o pre) \o x = B \o (pre \o x)
        BY ONLY <4>1, Regroup
      <4>. QED  BY <4>2 DEF x
    <3>. QED  BY <2>6, <3>1
  <2>9. CASE Even(k + b)
    <3>1. name[k] = Slash /\ w[k] = at
      BY <2>4, <2>9 DEF Along, at, Alternates
    <3>2. Reached(w[k], k, b) = Spell(at) \o <<Slash>>
      BY <2>9, <3>1 DEF Reached
    <3>3. Spell(at) = B \o pre
      BY <2>5, <2>7, <2>9 DEF Reached, at, pre
    <3>. QED  BY <2>5, <2>6, <2>8, <3>1, <3>2, <3>3
  <2>10. CASE ~Even(k + b)
    <3>1. w[k] = Append(at, name[k])
      <4>1. name[k] \notin {Slash, Here, Up}
        BY <2>1, <2>10 DEF Alternates
      <4>. QED  BY <2>4, <4>1 DEF Along, at
    <3>2. Reached(w[k], k, b) = Spell(at) \o <<Slash, name[k]>> /\ w[k] \in Tokens
      <4>1. w[k] \in Tokens
        BY <2>1, <2>6, <3>1 DEF Tokens
      <4>. QED  BY <2>1, <2>6, <2>10, <3>1, <4>1, SpellMore DEF Reached
    <3>3. Spell(at) \o <<Slash>> = B \o pre
      BY <2>5, <2>7, <2>10 DEF Reached, at, pre
    <3>4. Spell(at) \o <<Slash, name[k]>> = (Spell(at) \o <<Slash>>) \o <<name[k]>>
      <4>. DEFINE x == <<Slash>>
                  y == <<name[k]>>
                  a == Spell(at)
      <4>1. a \in Tokens /\ x \in Tokens /\ y \in Tokens
        BY <1>2, <2>6
      <4>2. <<Slash, name[k]>> = x \o y
        BY <1>2, <2>1, Singles
      <4>. HIDE DEF a, x, y
      <4>3. (a \o x) \o y = a \o (x \o y)
        BY ONLY <4>1, Regroup
      <4>. QED  BY <4>2, <4>3 DEF a, x, y
    <3>. QED  BY <2>5, <2>8, <3>2, <3>3, <3>4
  <2>. QED  BY <2>9, <2>10
<1>6. \A k \in 0 .. m : k \in T
  <2>. HIDE DEF T
  <2>. QED  BY <1>1, <1>4, <1>5, CountUp
<1>. QED  BY <1>6 DEF SpelledAt

LEMMA SpellLong ==
  ASSUME NEW place \in Tokens, place # <<>>
  PROVE  Spell(place) # <<>>
<1>1. Len(place) \in Nat /\ Len(place) > 0
  BY EmptySeq DEF Tokens
<1>. DEFINE n == Len(place)
<1>2. PICK f : IsSpelled(f, place) /\ Spell(place) = f[n]
  BY SpelledExists, SpellIs
<1>3. n \in 1 .. n /\ n - 1 \in 0 .. n
  BY <1>1
<1>4. Spell(place) = f[n - 1] \o Piece(place, n) /\ f[n - 1] \in Tokens
  BY <1>2, <1>3 DEF IsSpelled
<1>. DEFINE a == f[n - 1]
            b == Piece(place, n)
<1>5. a \in Seq(Token) /\ b \in Seq(Token)
  BY <1>3, <1>4, PieceType DEF Tokens
<1>6. Len(b) = 2
  BY DEF Piece
<1>. HIDE DEF a, b
<1>7. a \o b # <<>>
  <2>1. Len(a \o b) = Len(a) + Len(b) /\ Len(a) \in Nat
    BY <1>5
  <2>2. Len(<<>>) = 0
    OBVIOUS
  <2>3. Len(a \o b) # 0
    BY <1>6, <2>1
  <2>. QED  BY <2>2, <2>3
<1>. QED  BY <1>4, <1>7 DEF a, b

\* A name whose last component is token n, with single slashes and no "." or ".."
\* up to there, and behind it nothing or slashes.
Regular(name, n) ==
  /\ name \in Tokens /\ n \in 1 .. Len(name)
  /\ \A k \in 1 .. n : /\ name[k] = Slash <=> Even(k)
                       /\ name[k] \notin {Here, Up}
  /\ name[n] # Slash
  /\ \A k \in n + 1 .. Len(name) : name[k] = Slash

\* Where a call looks for the entry.
LEMMA TargetIs ==
  ASSUME NEW dir, NEW name \in Tokens, Start(dir, name) \in Spot, NEW place \in Target(dir, name)
  PROVE  \E n \in 1 .. Len(name) :
           /\ name[n] # Slash /\ \A k \in n + 1 .. Len(name) : name[k] = Slash
           /\ Walk(dir, name, SubSeq(name, 1, n - 1)) \in Tokens
           /\ place = Append(Walk(dir, name, SubSeq(name, 1, n - 1)), name[n])
           /\ place \in Tokens
<1>. DEFINE parts == {i \in DOMAIN name : name[i] # Slash}
            n == CHOOSE i \in parts : \A j \in parts : j <= i
            at == Walk(dir, name, SubSeq(name, 1, n - 1))
<1>1. Len(name) \in Nat /\ DOMAIN name = 1 .. Len(name)
  BY DEF Tokens
<1>2. parts # {} /\ IsDirectory(at) /\ place = Append(at, name[n])
  BY DEF Target
<1>3. n \in parts /\ \A j \in parts : j <= n
  <2>1. parts \in SUBSET (1 .. Len(name))
    BY <1>1
  <2>. HIDE DEF parts
  <2>2. \E i \in parts : \A j \in parts : j <= i
    <3>1. Max(parts) \in parts /\ \A j \in parts : Max(parts) >= j
      BY <1>1, <1>2, <2>1, MaxIs
    <3>2. \A i \in parts : i \in Nat
      BY <1>1, <2>1
    <3>3. \A j \in parts : j <= Max(parts)
      BY <3>1, <3>2
    <3>. QED  BY <3>1, <3>3
  <2>. QED  BY <2>2
<1>4. n \in 1 .. Len(name) /\ name[n] # Slash /\ \A k \in n + 1 .. Len(name) : name[k] = Slash
  <2>1. n \in 1 .. Len(name) /\ name[n] # Slash
    BY <1>1, <1>3
  <2>2. ASSUME NEW k \in n + 1 .. Len(name), name[k] # Slash PROVE FALSE
    <3>1. k \in parts /\ k > n
      BY <1>1, <2>1, <2>2
    <3>. HIDE DEF parts, n
    <3>2. k <= n
      BY <1>3, <3>1
    <3>. QED  BY <1>1, <2>1, <3>1, <3>2
  <2>. QED  BY <2>1, <2>2
<1>5. at \in Tokens
  <2>. DEFINE pre == SubSeq(name, 1, n - 1)
  <2>. HIDE DEF n
  <2>1. pre \in Tokens
    BY <1>4, Grow
  <2>2. PICK w : IsWalk(w, Start(dir, name), pre) /\ at = w[Len(pre)]
    <3>1. at = Walk(dir, name, pre)
      OBVIOUS
    <3>. HIDE DEF pre, at
    <3>. QED  BY <2>1, <3>1, WalkIs
  <2>3. Len(pre) \in 0 .. Len(pre)
    BY <2>1 DEF Tokens
  <2>4. at \in Spot
    BY <2>2, <2>3 DEF IsWalk
  <2>. QED  BY <1>2, <2>4 DEF IsDirectory, Spot
<1>6. place \in Tokens
  <2>1. name[n] \in Token
    BY <1>4 DEF Tokens
  <2>. HIDE DEF n, at
  <2>. QED  BY <1>2, <1>5, <2>1 DEF Tokens
<1>. HIDE DEF n
<1>. QED  BY <1>2, <1>4, <1>5, <1>6

\* Of a regular name: the directory with one slash behind it is spelled as the
\* directory of the call with the name's tokens up to that slash behind it.
LEMMA TargetSpelled ==
  ASSUME NEW dir, NEW name, NEW n, Regular(name, n),
         where[dir] \in Spot, NEW place \in Target(dir, name)
  PROVE  /\ where[dir] \in Tokens
         /\ \E at \in Tokens :
              /\ place = Append(at, name[n])
              /\ Spell(at) \o <<Slash>> =
                   (Spell(where[dir]) \o <<Slash>>) \o SubSeq(name, 1, n - 1)
<1>1. /\ name \in Tokens /\ n \in 1 .. Len(name) /\ Len(name) \in Nat /\ n \in Nat
      /\ \A k \in 1 .. n : (name[k] = Slash <=> Even(k)) /\ name[k] \notin {Here, Up}
      /\ name[n] # Slash /\ \A k \in n + 1 .. Len(name) : name[k] = Slash
  BY DEF Regular, Tokens
<1>2. Start(dir, name) = where[dir]
  <2>1. 1 \in 1 .. n /\ ~Even(1)
    BY <1>1 DEF Even
  <2>2. name # <<>> /\ name[1] # Slash
    <3>1. Len(<<>>) = 0 /\ Len(name) # 0
      BY <1>1
    <3>. QED  BY <1>1, <2>1, <3>1
  <2>. QED  BY <2>2 DEF Start, Relative
<1>3. PICK p \in 1 .. Len(name) :
        /\ name[p] # Slash /\ \A k \in p + 1 .. Len(name) : name[k] = Slash
        /\ Walk(dir, name, SubSeq(name, 1, p - 1)) \in Tokens
        /\ place = Append(Walk(dir, name, SubSeq(name, 1, p - 1)), name[p])
  BY <1>1, <1>2, TargetIs
<1>4. p = n
  <2>1. p < n => n \in p + 1 .. Len(name)
    BY <1>1
  <2>2. n < p => p \in n + 1 .. Len(name)
    BY <1>1
  <2>. QED  BY <1>1, <1>3, <2>1, <2>2
<1>. DEFINE pre == SubSeq(name, 1, n - 1)
            at == Walk(dir, name, pre)
<1>5. /\ pre \in Tokens /\ Len(pre) = n - 1 /\ Len(pre) \in Nat
      /\ \A k \in 1 .. n - 1 : pre[k] = name[k]
      /\ SubSeq(pre, 1, n - 1) = pre
  <2>1. pre \in Tokens
    BY <1>1, Grow
  <2>2. Len(pre) = n - 1 /\ \A k \in 1 .. n - 1 : pre[k] = name[k]
    BY <1>1 DEF Tokens
  <2>. HIDE DEF pre
  <2>3. SubSeq(pre, 1, n - 1) = pre
    BY <1>1, <2>1, <2>2 DEF Tokens
  <2>. QED  BY <1>1, <2>1, <2>2, <2>3
<1>6. at \in Tokens /\ place = Append(at, name[n])
  BY <1>3, <1>4
<1>. HIDE DEF pre
<1>7. PICK w : IsWalk(w, where[dir], pre) /\ at = w[n - 1]
  BY <1>2, <1>5, WalkIs
<1>8. at # NULL
  BY <1>6, HooksAssumption DEF Tokens
<1>. HIDE DEF at
<1>9. /\ where[dir] \in Tokens
      /\ Reached(at, n - 1, 0) = Reached(where[dir], 0, 0) \o SubSeq(pre, 1, n - 1)
  <2>. DEFINE m == n - 1
  <2>1. m \in 0 .. Len(pre) /\ m \in 0 .. m /\ 0 \in {0, 1}
    BY <1>1, <1>5
  <2>2. Alternates(pre, m, 0)
    <3>1. \A k \in 1 .. m : k \in 1 .. n /\ k + 0 = k
      BY <1>1
    <3>. QED  BY <1>1, <1>5, <3>1 DEF Alternates
  <2>. HIDE DEF m
  <2>3. \A k \in 0 .. m : SpelledAt(w, where[dir], pre, k, 0)
    BY <1>5, <1>7, <2>1, <2>2, Tracks, WalkSpells
  <2>4. at = w[m]
    BY <1>7 DEF m
  <2>5. /\ where[dir] \in Tokens
        /\ Reached(at, m, 0) = Reached(where[dir], 0, 0) \o SubSeq(pre, 1, m)
    BY <1>8, <2>1, <2>3, <2>4 DEF SpelledAt
  <2>. QED  BY <2>5 DEF m
<1>10. Even(n - 1) /\ n - 1 + 0 = n - 1
  <2>1. ~Even(n)
    BY <1>1
  <2>. QED  BY <1>1, <2>1, EvenFlips
<1>11. Even(0 + 0)
  BY DEF Even
<1>12. Spell(at) \o <<Slash>> = (Spell(where[dir]) \o <<Slash>>) \o pre
  BY <1>5, <1>9, <1>10, <1>11 DEF Reached
<1>. QED  BY <1>6, <1>9, <1>12 DEF pre, at

LEMMA TextType == ASSUME NEW place \in Tokens PROVE Text(place) \in Tokens
<1>1. Slash \in Token /\ <<Slash>> \in Tokens
  BY HooksAssumption, Singles
<1>2. Spell(place) \in Tokens
  BY <1>1, SpellMore
<1>. QED  BY <1>1, <1>2, TextIs

\* getNewFullPath, in a clean buffer.
LEMMA FullPathIs ==
  ASSUME NEW text \in Tokens, NEW name \in Tokens
  PROVE  /\ FullPath(<<>>, text, name) = (text \o <<Slash>>) \o name
         /\ FullPath(<<>>, text, name) \in Tokens
<1>1. <<Slash>> \in Tokens
  BY HooksAssumption, Singles
<1>2. <<>> \o text = text
  BY DEF Tokens
<1>3. text \o <<Slash>> \in Tokens
  BY <1>1, Joined
<1>. QED  BY <1>2, <1>3, Joined DEF FullPath

\* The full path of a regular name is how the kernel writes the place it leads
\* to, but from the root directory.
LEMMA FullPathNames ==
  ASSUME NEW dir, NEW name, Regular(name, Len(name)),
         where[dir] \in Spot, where[dir] # <<>>, NEW place \in Target(dir, name)
  PROVE  Text(place) = FullPath(<<>>, TextOf(dir), name)
<1>. DEFINE n == Len(name)
            D == where[dir]
<1>1. name \in Tokens /\ n \in 1 .. n /\ n \in Nat
  BY DEF Regular, Tokens
<1>2. PICK at \in Tokens :
        /\ place = Append(at, name[n])
        /\ Spell(at) \o <<Slash>> = (Spell(D) \o <<Slash>>) \o SubSeq(name, 1, n - 1)
  BY TargetSpelled
<1>3. D \in Tokens
  BY TargetSpelled
<1>. DEFINE x == name[n]
            pre == SubSeq(name, 1, n - 1)
            E == Spell(D) \o <<Slash>>
<1>4. x \in Token /\ pre \in Tokens /\ name = pre \o <<x>> /\ <<x>> \in Tokens
  <2>1. x \in Token
    BY <1>1 DEF Tokens
  <2>2. SubSeq(name, 1, n) = name
    BY <1>1 DEF Tokens
  <2>3. SubSeq(name, 1, n) = pre \o <<x>> /\ pre \in Tokens
    BY <1>1, Grow
  <2>. QED  BY <2>1, <2>2, <2>3, Singles
<1>5. Slash \in Token /\ <<Slash>> \in Tokens /\ Spell(at) \in Tokens /\ Spell(D) \in Tokens
  <2>1. Slash \in Token
    BY HooksAssumption
  <2>. QED  BY <1>2, <1>3, <2>1, Singles, SpellMore
<1>6. E \in Tokens
  BY <1>5, Joined
<1>. HIDE DEF x, pre, E
<1>7. Spell(place) = Spell(at) \o <<Slash, x>> /\ place # <<>>
  <2>1. place = Append(at, x)
    BY <1>2 DEF x
  <2>2. place # <<>>
    <3>1. Len(place) = Len(at) + 1 /\ Len(at) \in Nat /\ Len(<<>>) = 0
      BY <1>2, <2>1 DEF Tokens
    <3>. QED  BY <3>1
  <2>. QED  BY <1>2, <1>4, <2>1, <2>2, SpellMore
<1>8. Spell(at) \o <<Slash, x>> = (Spell(at) \o <<Slash>>) \o <<x>>
  <2>. DEFINE a == Spell(at)
              s == <<Slash>>
              y == <<x>>
  <2>1. a \in Tokens /\ s \in Tokens /\ y \in Tokens
    BY <1>4, <1>5
  <2>2. <<Slash, x>> = s \o y
    BY <1>4, <1>5, Singles
  <2>. HIDE DEF a, s, y
  <2>3. (a \o s) \o y = a \o (s \o y)
    BY ONLY <2>1, Regroup
  <2>. QED  BY <2>2, <2>3 DEF a, s, y
<1>9. (E \o pre) \o <<x>> = E \o (pre \o <<x>>)
  <2>. DEFINE y == <<x>>
  <2>1. y \in Tokens
    BY <1>4
  <2>. HIDE DEF y
  <2>2. (E \o pre) \o y = E \o (pre \o y)
    BY ONLY <1>4, <1>6, <2>1, Regroup
  <2>. QED  BY <2>2 DEF y
<1>10. Text(place) = E \o name
  <2>1. Spell(at) \o <<Slash>> = E \o pre
    BY <1>2 DEF E, pre
  <2>2. Text(place) = Spell(place)
    BY <1>7, TextIs
  <2>. QED  BY <1>4, <1>7, <1>8, <1>9, <2>1, <2>2
<1>11. TextOf(dir) = Spell(D) /\ TextOf(dir) \in Tokens
  <2>1. D # NULL
    BY <1>3, HooksAssumption DEF Tokens
  <2>2. TextOf(dir) = Spell(D)
    BY <2>1, TextIs DEF TextOf
  <2>. QED  BY <1>5, <2>2
<1>12. FullPath(<<>>, TextOf(dir), name) = E \o name
  BY <1>1, <1>11, FullPathIs DEF E
<1>. QED  BY <1>10, <1>12

\* getParentDirFromFullPath cuts at the one slash that has as many from there on.
LEMMA ParentIs ==
  ASSUME NEW path \in Tokens, NEW c \in 1 .. Len(path), path[c] = Slash,
         Cardinality({j \in 1 .. Len(path) : path[j] = Slash /\ j >= c})
           = IF path[Len(path)] = Slash THEN 2 ELSE 1
  PROVE  ParentDir(path) = SubSeq(path, 1, c - 1)
<1>. DEFINE slashes == {i \in DOMAIN path : path[i] = Slash}
            count == IF path # <<>> /\ Last(path) = Slash THEN 2 ELSE 1
            On(i) == {j \in slashes : j >= i}
            cut == CHOOSE i \in slashes : Cardinality(On(i)) = count
<1>1. Len(path) \in Nat /\ DOMAIN path = 1 .. Len(path) /\ path # <<>>
  <2>1. Len(<<>>) = 0
    OBVIOUS
  <2>2. Len(path) \in Nat /\ DOMAIN path = 1 .. Len(path)
    BY DEF Tokens
  <2>. QED  BY <2>1, <2>2
<1>2. c \in slashes /\ Cardinality(On(c)) = count
  <2>1. On(c) = {j \in 1 .. Len(path) : path[j] = Slash /\ j >= c}
    BY <1>1
  <2>2. count = IF path[Len(path)] = Slash THEN 2 ELSE 1
    BY <1>1 DEF Last
  <2>3. c \in slashes
    BY <1>1
  <2>. HIDE DEF slashes, count, On
  <2>. QED  BY <2>1, <2>2, <2>3
<1>3. IsFiniteSet(slashes) /\ slashes \subseteq Nat /\ \A i : On(i) \subseteq slashes
  <2>1. IsFiniteSet(1 .. Len(path))
    <3>1. 1 \in Int /\ Len(path) \in Int
      BY <1>1
    <3>. QED  BY <3>1, FS_Interval
  <2>2. slashes \in SUBSET (1 .. Len(path))
    BY <1>1
  <2>3. IsFiniteSet(slashes)
    <3>. HIDE DEF slashes
    <3>. QED  BY <2>1, <2>2, FS_Subset
  <2>. QED  BY <1>1, <2>2, <2>3
<1>4. \A i, j \in slashes : i <= j => On(j) \subseteq On(i)
  BY <1>3
<1>5. \A i \in slashes : i \in On(i) /\ \A j \in On(i) : i <= j
  BY <1>3
<1>6. ParentDir(path) = IF Cardinality(slashes) < count THEN path ELSE SubSeq(path, 1, cut - 1)
  BY DEF ParentDir
<1>. HIDE DEF slashes, On
<1>7. \A i, j \in slashes : i <= j /\ Cardinality(On(i)) = Cardinality(On(j)) => i = j
  <2>1. SUFFICES ASSUME NEW i \in slashes, NEW j \in slashes, i <= j,
                        Cardinality(On(i)) = Cardinality(On(j))
                 PROVE  i = j
    OBVIOUS
  <2>2. IsFiniteSet(On(i)) /\ On(j) \in SUBSET On(i)
    <3>1. On(i) \in SUBSET slashes /\ On(j) \in SUBSET On(i)
      BY <1>3, <1>4, <2>1
    <3>. QED  BY <1>3, <3>1, FS_Subset
  <2>3. On(i) = On(j)
    BY <2>1, <2>2, FS_Subset
  <2>4. i \in On(j)
    BY <1>5, <2>3
  <2>5. j <= i
    BY <1>5, <2>4
  <2>. QED  BY <1>3, <2>1, <2>5
<1>8. cut = c
  <2>1. cut \in slashes /\ Cardinality(On(cut)) = count
    BY <1>2
  <2>. HIDE DEF cut, count
  <2>2. cut <= c \/ c <= cut
    BY <1>2, <1>3, <2>1
  <2>. QED  BY <1>2, <1>7, <2>1, <2>2
<1>9. ~(Cardinality(slashes) < count)
  <2>1. On(c) \in SUBSET slashes
    BY <1>3
  <2>2. Cardinality(On(c)) <= Cardinality(slashes)
    BY <1>3, <2>1, FS_Subset
  <2>3. Cardinality(slashes) \in Nat /\ count \in Nat
    BY <1>3, FS_CardinalityType
  <2>. HIDE DEF count
  <2>. QED  BY <1>2, <2>2, <2>3
<1>. QED  BY <1>6, <1>8, <1>9

\* One text behind another.
MadeOfTwo(ab, a, b) ==
  /\ Len(a) \in Nat /\ Len(b) \in Nat /\ Len(ab) = Len(a) + Len(b)
  /\ \A i \in 1 .. Len(a) : ab[i] = a[i]
  /\ \A i \in 1 .. Len(b) : ab[Len(a) + i] = b[i]

LEMMA JoinedAt ==
  ASSUME NEW a \in Tokens, NEW b \in Tokens
  PROVE  MadeOfTwo(a \o b, a, b)
<1>1. a \in Seq(Token) /\ b \in Seq(Token) /\ Len(a) \in Nat /\ Len(b) \in Nat
  BY DEF Tokens
<1>2. Len(a \o b) = Len(a) + Len(b)
  BY <1>1
<1>3. \A i \in 1 .. Len(a) + Len(b) :
        (a \o b)[i] = IF i <= Len(a) THEN a[i] ELSE b[i - Len(a)]
  BY <1>1
<1>4. ASSUME NEW i \in 1 .. Len(a) PROVE (a \o b)[i] = a[i]
  <2>1. i \in 1 .. Len(a) + Len(b) /\ i <= Len(a)
    BY <1>1
  <2>. QED  BY <1>3, <2>1
<1>5. ASSUME NEW i \in 1 .. Len(b) PROVE (a \o b)[Len(a) + i] = b[i]
  <2>1. Len(a) + i \in 1 .. Len(a) + Len(b) /\ ~(Len(a) + i <= Len(a)) /\ (Len(a) + i) - Len(a) = i
    BY <1>1
  <2>. QED  BY <1>3, <2>1
<1>. QED  BY <1>1, <1>2, <1>4, <1>5 DEF MadeOfTwo

\* What a name behind a text and a slash is made of.
MadeOf(full, text, name) ==
  /\ full \in Tokens /\ Len(full) = Len(text) + 1 + Len(name)
  /\ \A i \in 1 .. Len(text) : full[i] = text[i]
  /\ full[Len(text) + 1] = Slash
  /\ \A i \in 1 .. Len(name) : full[Len(text) + 1 + i] = name[i]

LEMMA FullTokens ==
  ASSUME NEW text \in Tokens, NEW name \in Tokens
  PROVE  MadeOf((text \o <<Slash>>) \o name, text, name)
<1>. DEFINE s == <<Slash>>
            a == text \o s
            full == a \o name
<1>1. s \in Tokens /\ Len(s) = 1 /\ s[1] = Slash
  BY HooksAssumption, Singles
<1>. HIDE DEF s
<1>2. a \in Tokens
  BY <1>1, Joined
<1>3. /\ Len(text) \in Nat /\ Len(a) = Len(text) + 1
      /\ \A i \in 1 .. Len(text) : a[i] = text[i]
      /\ a[Len(text) + 1] = Slash
  <2>1. MadeOfTwo(a, text, s)
    BY <1>1, JoinedAt
  <2>. HIDE DEF a
  <2>2. 1 \in 1 .. Len(s)
    BY <1>1
  <2>. QED  BY <1>1, <2>1, <2>2 DEF MadeOfTwo
<1>. HIDE DEF a
<1>4. full \in Tokens
  BY <1>2, Joined
<1>5. /\ Len(name) \in Nat /\ Len(full) = Len(a) + Len(name)
      /\ \A i \in 1 .. Len(a) : full[i] = a[i]
      /\ \A i \in 1 .. Len(name) : full[Len(a) + i] = name[i]
  <2>1. MadeOfTwo(full, a, name)
    BY <1>2, JoinedAt
  <2>. HIDE DEF full
  <2>. QED  BY <2>1 DEF MadeOfTwo
<1>. HIDE DEF full
<1>6. Len(text) + 1 \in 1 .. Len(a) /\ \A i \in 1 .. Len(text) : i \in 1 .. Len(a)
  BY <1>3
<1>7. \A i \in 1 .. Len(text) : full[i] = text[i]
  BY <1>3, <1>5, <1>6
<1>8. full[Len(text) + 1] = Slash
  BY <1>3, <1>5, <1>6
<1>9. MadeOf(full, text, name)
  BY <1>3, <1>4, <1>5, <1>7, <1>8 DEF MadeOf
<1>. QED  BY <1>9 DEF full, a, s

\* The slash it is cut at is the one in front of the last component.
LEMMA ParentCut ==
  ASSUME NEW text \in Tokens, NEW name, NEW n, Regular(name, n),
         Len(name) \in {n, n + 1}, NEW full, full = (text \o <<Slash>>) \o name
  PROVE  ParentDir(full) = SubSeq(full, 1, Len(text) + n - 1)
<1>. DEFINE L == Len(text)
            m == Len(name)
            c == L + n
            on == {j \in 1 .. Len(full) : full[j] = Slash /\ j >= c}
<1>1. /\ name \in Tokens /\ n \in 1 .. m /\ m \in Nat /\ n \in Nat /\ L \in Nat
      /\ \A k \in 1 .. n : name[k] = Slash <=> Even(k)
      /\ name[n] # Slash /\ \A k \in n + 1 .. m : name[k] = Slash
  BY DEF Regular, Tokens
<1>2. /\ full \in Tokens /\ Len(full) = L + 1 + m /\ full[L + 1] = Slash
      /\ \A i \in 1 .. m : full[L + 1 + i] = name[i]
  <2>1. MadeOf(full, text, name)
    BY <1>1, FullTokens
  <2>. QED  BY <2>1 DEF MadeOf
<1>. HIDE DEF L, m
<1>3. c \in 1 .. Len(full) /\ full[c] = Slash
  <2>1. CASE n = 1
    BY <1>1, <1>2, <2>1
  <2>2. CASE n # 1
    <3>1. n - 1 \in 1 .. n /\ n - 1 \in 1 .. m /\ L + 1 + (n - 1) = c /\ n > 0
      BY <1>1, <2>2
    <3>2. Even(n - 1)
      <4>1. n \in 1 .. n
        BY <1>1
      <4>2. ~Even(n)
        BY <1>1, <4>1
      <4>. QED  BY <1>1, <3>1, <4>2, EvenFlips
    <3>3. full[c] = name[n - 1]
      <4>. HIDE DEF c
      <4>. QED  BY <1>2, <3>1
    <3>4. c \in 1 .. Len(full)
      BY <1>1, <1>2
    <3>. QED  BY <1>1, <3>1, <3>2, <3>3, <3>4
  <2>. QED  BY <2>1, <2>2
<1>4. full[c + 1] # Slash
  <2>1. c + 1 = L + 1 + n
    BY <1>1
  <2>. QED  BY <1>1, <1>2, <2>1
<1>5. CASE m = n
  <2>1. Len(full) = c + 1
    BY <1>1, <1>2, <1>5
  <2>2. on = {c}
    <3>1. ASSUME NEW j \in on PROVE j = c
      <4>1. j \in c .. c + 1 /\ full[j] = Slash
        BY <1>1, <2>1
      <4>2. j = c \/ j = c + 1
        BY <1>1, <4>1
      <4>. QED  BY <1>4, <4>1, <4>2
    <3>2. c \in on
      BY <1>1, <1>3
    <3>. QED  BY <3>1, <3>2
  <2>3. Cardinality(on) = 1
    BY <2>2, FS_Singleton
  <2>. HIDE DEF c
  <2>4. full[Len(full)] # Slash
    BY <1>4, <2>1
  <2>5. ParentDir(full) = SubSeq(full, 1, c - 1)
    BY <1>2, <1>3, <2>3, <2>4, ParentIs
  <2>6. c - 1 = Len(text) + n - 1
    BY <1>1 DEF c, L
  <2>. QED  BY <2>5, <2>6
<1>6. CASE m = n + 1
  <2>1. Len(full) = c + 2
    BY <1>1, <1>2, <1>6
  <2>2. full[c + 2] = Slash
    <3>1. c + 2 = L + 1 + m /\ m \in 1 .. m /\ m \in n + 1 .. m
      BY <1>1, <1>6
    <3>. HIDE DEF c
    <3>. QED  BY <1>1, <1>2, <3>1
  <2>3. on = {c} \cup {c + 2}
    <3>1. ASSUME NEW j \in on PROVE j \in {c, c + 2}
      <4>1. j \in c .. c + 2 /\ full[j] = Slash
        BY <1>1, <2>1
      <4>2. j = c \/ j = c + 1 \/ j = c + 2
        BY <1>1, <4>1
      <4>. QED  BY <1>4, <4>1, <4>2
    <3>2. c \in on
      BY <1>1, <1>3
    <3>3. c + 2 \in on
      BY <1>1, <2>1, <2>2
    <3>. HIDE DEF on
    <3>. QED  BY <3>1, <3>2, <3>3
  <2>4. Cardinality(on) = 2
    <3>1. IsFiniteSet({c}) /\ Cardinality({c}) = 1
      BY FS_Singleton
    <3>2. c + 2 \notin {c}
      BY <1>1
    <3>3. Cardinality({c} \cup {c + 2}) = 1 + 1
      <4>. DEFINE S == {c}
                  x == c + 2
      <4>1. IsFiniteSet(S) /\ Cardinality(S) = 1 /\ x \notin S
        BY <3>1, <3>2
      <4>. HIDE DEF S, x
      <4>2. Cardinality(S \cup {x}) = 1 + 1
        BY <4>1, FS_AddElement
      <4>. QED  BY <4>2 DEF S, x
    <3>. HIDE DEF on
    <3>. QED  BY <2>3, <3>3
  <2>. HIDE DEF c
  <2>5. full[Len(full)] = Slash
    BY <2>1, <2>2
  <2>6. ParentDir(full) = SubSeq(full, 1, c - 1)
    BY <1>2, <1>3, <2>4, <2>5, ParentIs
  <2>7. c - 1 = Len(text) + n - 1
    BY <1>1 DEF c, L
  <2>. QED  BY <2>6, <2>7
<1>. QED  BY <1>5, <1>6 DEF m

\* The parent of a regular name's full path is how the kernel writes the place
\* that is spelled as the directory and the name up to its last component.
LEMMA ParentSpelled ==
  ASSUME NEW name, NEW n, Regular(name, n), Len(name) \in {n, n + 1},
         NEW D \in Tokens, D # <<>> \/ n = 1, NEW at \in Tokens,
         Spell(at) \o <<Slash>> = (Spell(D) \o <<Slash>>) \o SubSeq(name, 1, n - 1)
  PROVE  Text(at) = ParentDir(FullPath(<<>>, Text(D), name))
<1>. DEFINE text == Text(D)
            L == Len(text)
            full == (text \o <<Slash>>) \o name
            pre == SubSeq(name, 1, n - 1)
<1>1. name \in Tokens /\ n \in 1 .. Len(name) /\ n \in Nat /\ Len(name) \in Nat
  BY DEF Regular, Tokens
<1>2. Spell(at) \o <<Slash>> = (Spell(D) \o <<Slash>>) \o pre
  OBVIOUS
<1>4. text \in Tokens /\ L \in Nat
  <2>1. text \in Tokens
    BY TextType
  <2>. HIDE DEF text
  <2>. QED  BY <2>1 DEF Tokens
<1>6. FullPath(<<>>, Text(D), name) = full
  BY <1>1, <1>4, FullPathIs
<1>7. /\ Spell(at) \in Tokens /\ Spell(D) \in Tokens /\ pre \in Tokens
      /\ Len(pre) = n - 1 /\ \A i \in 1 .. n - 1 : pre[i] = name[i]
  <2>1. Slash \in Token
    BY HooksAssumption
  <2>2. Spell(at) \in Tokens /\ Spell(D) \in Tokens
    BY <1>2, <2>1, SpellMore
  <2>3. pre \in Tokens
    BY <1>1, Grow
  <2>4. Len(pre) = n - 1 /\ \A i \in 1 .. n - 1 : pre[i] = name[i]
    BY <1>1 DEF Tokens
  <2>. QED  BY <2>2, <2>3, <2>4
<1>. HIDE DEF text, pre, full, L
<1>8. /\ full \in Tokens /\ Len(full) = L + 1 + Len(name)
      /\ \A i \in 1 .. L : full[i] = text[i]
      /\ full[L + 1] = Slash
      /\ \A i \in 1 .. Len(name) : full[L + 1 + i] = name[i]
  <2>1. MadeOf(full, text, name)
    BY <1>1, <1>4, FullTokens DEF full
  <2>. QED  BY <2>1 DEF MadeOf, L
<1>9. ParentDir(full) = SubSeq(full, 1, L + n - 1)
  BY <1>4, ParentCut DEF full, L
<1>10. /\ SubSeq(full, 1, L + n - 1) \in Seq(Token) /\ Len(SubSeq(full, 1, L + n - 1)) = L + n - 1
       /\ \A i \in 1 .. L + n - 1 : SubSeq(full, 1, L + n - 1)[i] = full[i]
  <2>. DEFINE k == L + n - 1
  <2>1. k \in 0 .. Len(full) /\ full \in Seq(Token)
    BY <1>1, <1>4, <1>8 DEF Tokens
  <2>. HIDE DEF k
  <2>2. /\ SubSeq(full, 1, k) \in Seq(Token) /\ Len(SubSeq(full, 1, k)) = k
        /\ \A i \in 1 .. k : SubSeq(full, 1, k)[i] = full[i]
    BY <2>1
  <2>. QED  BY <2>2 DEF k
<1>11. SubSeq(full, 1, L + n - 1) = Text(at)
  <2>1. CASE D # <<>>
    <3>. DEFINE S == Spell(at)
                G == (text \o <<Slash>>) \o pre
    <3>1. text = Spell(D)
      BY <2>1, TextIs DEF text
    <3>2. /\ G \in Tokens /\ Len(G) = L + 1 + Len(pre)
          /\ \A i \in 1 .. L : G[i] = text[i]
          /\ G[L + 1] = Slash
          /\ \A i \in 1 .. Len(pre) : G[L + 1 + i] = pre[i]
      <4>1. MadeOf(G, text, pre)
        BY <1>4, <1>7, FullTokens
      <4>. HIDE DEF G
      <4>. QED  BY <4>1 DEF MadeOf, L
    <3>3. S \o <<Slash>> = G
      BY <1>2, <3>1
    <3>. HIDE DEF G, S
    <3>4. /\ S \in Seq(Token) /\ Len(S) \in Nat /\ Len(G) = Len(S) + 1
          /\ \A i \in 1 .. Len(S) : G[i] = S[i]
      <4>. DEFINE s == <<Slash>>
      <4>1. S \in Tokens /\ s \in Tokens /\ Len(s) = 1 /\ G = S \o s
        BY <1>7, <3>3, HooksAssumption, Singles DEF S
      <4>. HIDE DEF s
      <4>2. MadeOfTwo(G, S, s)
        BY <4>1, JoinedAt
      <4>. QED  BY <4>1, <4>2 DEF MadeOfTwo, Tokens
    <3>5. Len(S) = L + n - 1
      <4>. DEFINE g == Len(G)
                  l == Len(S)
                  p == Len(pre)
      <4>1. g = L + 1 + p /\ p = n - 1 /\ g = l + 1 /\ l \in Nat
        BY <1>7, <3>2, <3>4
      <4>. HIDE DEF g, l, p
      <4>2. l = L + n - 1
        BY <1>1, <1>4, <4>1
      <4>. QED  BY <4>2 DEF l
    <3>6. ASSUME NEW i \in 1 .. L + n - 1 PROVE S[i] = full[i]
      <4>1. S[i] = G[i]
        BY <3>4, <3>5
      <4>2. CASE i <= L
        <5>1. i \in 1 .. L
          BY <1>1, <1>4, <4>2
        <5>. QED  BY <1>8, <3>2, <4>1, <5>1
      <4>3. CASE i = L + 1
        BY <1>8, <3>2, <4>1, <4>3
      <4>4. CASE i > L + 1
        <5>. DEFINE j == i - L - 1
        <5>1. j \in 1 .. n - 1 /\ j \in 1 .. Len(name) /\ j \in 1 .. Len(pre) /\ L + 1 + j = i
          BY <1>1, <1>4, <1>7, <4>4
        <5>. HIDE DEF j
        <5>2. G[L + 1 + j] = pre[j] /\ full[L + 1 + j] = name[j] /\ pre[j] = name[j]
          BY <1>7, <1>8, <3>2, <5>1
        <5>. QED  BY <4>1, <5>1, <5>2
      <4>. QED  BY <1>1, <1>4, <4>2, <4>3, <4>4
    <3>7. S = SubSeq(full, 1, L + n - 1)
      <4>. DEFINE r == SubSeq(full, 1, L + n - 1)
                  k == L + n - 1
      <4>1. r \in Seq(Token) /\ Len(r) = k /\ \A i \in 1 .. k : r[i] = S[i]
        BY <1>10, <3>6
      <4>2. Len(S) = k
        BY <3>5
      <4>. HIDE DEF r, k
      <4>3. S = r
        BY <3>4, <4>1, <4>2, SeqEqual
      <4>. QED  BY <4>3 DEF r
    <3>8. at # <<>>
      <4>1. Len(S) # 0
        <5>1. L # 0
          <6>1. text # <<>> /\ text \in Seq(Token)
            BY <1>4, <2>1, <3>1, SpellLong DEF Tokens
          <6>2. Len(text) # 0
            BY <6>1, EmptySeq
          <6>. QED  BY <6>2 DEF L
        <5>. QED  BY <1>1, <1>4, <3>5, <5>1
      <4>2. at = <<>> => S = <<>>
        <5>1. Slash \in Token
          BY HooksAssumption
        <5>. QED  BY <1>2, <5>1, SpellMore DEF S
      <4>3. Len(<<>>) = 0
        OBVIOUS
      <4>. QED  BY <4>1, <4>2, <4>3
    <3>. QED  BY <3>7, <3>8, TextIs DEF S
  <2>2. CASE D = <<>>
    <3>1. n = 1
      BY <2>2
    <3>2. text = <<Slash>> /\ Spell(D) = <<>>
      <4>1. Slash \in Token
        BY HooksAssumption
      <4>. QED  BY <2>2, <4>1, TextIs, SpellMore DEF text
    <3>3. L = 1 /\ text[1] = Slash
      BY <3>2 DEF L
    <3>4. at = <<>>
      <4>. DEFINE S == Spell(at)
                  s == <<Slash>>
      <4>1. S \in Seq(Token) /\ s \in Seq(Token) /\ Len(s) = 1 /\ pre \in Seq(Token) /\ Len(pre) = 0
        BY <1>7, <3>1, HooksAssumption DEF Tokens
      <4>2. S \o s = (<<>> \o s) \o pre
        BY <1>2, <3>2
      <4>. HIDE DEF S, s
      <4>3. <<>> \o s = s
        BY <4>1
      <4>4. Len(S \o s) = Len(S) + 1 /\ Len(s \o pre) = 1 + 0 /\ Len(S) \in Nat
        <5>1. MadeOfTwo(S \o s, S, s) /\ MadeOfTwo(s \o pre, s, pre)
          BY <4>1, JoinedAt DEF Tokens
        <5>. QED  BY <4>1, <5>1 DEF MadeOfTwo
      <4>5. Len(S) = 0
        BY <4>2, <4>3, <4>4
      <4>6. S = <<>>
        BY <4>1, <4>5
      <4>. QED  BY <1>2, <4>6, SpellLong DEF S
    <3>5. SubSeq(full, 1, L + n - 1) = <<Slash>>
      <4>. DEFINE r == SubSeq(full, 1, L + n - 1)
                  k == L + n - 1
                  s == <<Slash>>
      <4>1. k = 1 /\ full[1] = Slash
        <5>1. 1 \in 1 .. L
          BY <3>3
        <5>. QED  BY <1>8, <3>1, <3>3, <5>1
      <4>2. r \in Seq(Token) /\ Len(r) = 1 /\ \A i \in 1 .. 1 : r[i] = Slash
        <5>1. \A i \in 1 .. 1 : i = 1
          OBVIOUS
        <5>. QED  BY <1>10, <4>1, <5>1
      <4>3. s \in Seq(Token) /\ Len(s) = 1 /\ \A i \in 1 .. 1 : s[i] = Slash
        BY HooksAssumption
      <4>. HIDE DEF r, s
      <4>4. r = s
        BY <4>2, <4>3, SeqEqual
      <4>. QED  BY <4>4 DEF r, s
    <3>. QED  BY <3>4, <3>5, TextIs
  <2>. QED  BY <2>1, <2>2
<1>. QED  BY <1>6, <1>9, <1>11

\* What mkdir's hook makes of a regular name is how the kernel writes the
\* directory the new one is to be made in.
LEMMA ParentNames ==
  ASSUME NEW dir, NEW name, NEW n, Regular(name, n), Len(name) \in {n, n + 1},
         where[dir] \in Spot, where[dir] # <<>> \/ n = 1, NEW place \in Target(dir, name)
  PROVE  Text(Front(place)) = ParentDir(FullPath(<<>>, TextOf(dir), name))
<1>. DEFINE D == where[dir]
<1>1. PICK at \in Tokens :
        /\ place = Append(at, name[n])
        /\ Spell(at) \o <<Slash>> = (Spell(D) \o <<Slash>>) \o SubSeq(name, 1, n - 1)
  BY TargetSpelled
<1>2. D \in Tokens
  BY TargetSpelled
<1>3. TextOf(dir) = Text(D)
  BY <1>2, HooksAssumption DEF TextOf, Tokens
<1>4. Front(place) = at
  <2>. DEFINE x == name[n]
  <2>1. x \in Token
    BY DEF Regular, Tokens
  <2>. HIDE DEF x
  <2>2. Front(Append(at, x)) = at
    BY <1>1, <2>1 DEF Tokens, Front
  <2>. QED  BY <1>1, <2>2 DEF x
<1>. HIDE DEF D
<1>5. Text(at) = ParentDir(FullPath(<<>>, Text(D), name))
  BY <1>1, <1>2, ParentSpelled DEF D
<1>. QED  BY <1>3, <1>4, <1>5

LEMMA PlainRegular ==
  ASSUME NEW name \in Tokens, Plain(name)
  PROVE  Regular(name, Len(name))
<1>1. Len(name) \in Nat /\ DOMAIN name = 1 .. Len(name) /\ Len(name) # 0
  <2>1. name \in Seq(Token) /\ name # <<>>
    BY DEF Tokens, Plain
  <2>. QED  BY <2>1, EmptySeq
<1>. DEFINE n == Len(name)
<1>2. n \in 1 .. n /\ n + 1 .. n = {}
  BY <1>1
<1>3. ASSUME NEW k \in 1 .. n PROVE (name[k] = Slash <=> Even(k)) /\ name[k] \notin {Here, Up}
  BY <1>1 DEF Plain, Even
<1>4. name[n] # Slash
  BY DEF Plain
<1>. HIDE DEF n
<1>5. n = Len(name)
  BY DEF n
<1>. QED  BY <1>2, <1>3, <1>4, <1>5 DEF Regular

\* A name straight enough for mkdir.
LEMMA StraightRegular ==
  ASSUME NEW name \in Tokens, Straight("mkdir", name)
  PROVE  \E n \in Nat : /\ Regular(name, n) /\ Len(name) \in {n, n + 1}
                        /\ Len(name) <= 2 => n = 1
<1>1. Len(name) \in Nat /\ name \in Seq(Token)
  BY DEF Tokens
<1>2. CASE Plain(name)
  <2>1. Regular(name, Len(name))
    BY <1>2, PlainRegular
  <2>2. ASSUME Len(name) <= 2 PROVE Len(name) = 1
    <3>1. Len(name) \in 1 .. Len(name) /\ name[Len(name)] # Slash
      BY <2>1 DEF Regular
    <3>2. ~Even(Len(name))
      BY <2>1, <3>1 DEF Regular
    <3>3. Even(2)
      BY DEF Even
    <3>4. Len(name) = 1 \/ Len(name) = 2
      <4>. DEFINE n == Len(name)
      <4>1. n \in Nat /\ n \in 1 .. n /\ n <= 2
        BY <1>1, <2>2, <3>1
      <4>. HIDE DEF n
      <4>2. n = 1 \/ n = 2
        BY <4>1
      <4>. QED  BY <4>2 DEF n
    <3>. QED  BY <3>2, <3>3, <3>4
  <2>. QED  BY <1>1, <2>1, <2>2
<1>3. CASE name # <<>> /\ Last(name) = Slash /\ Plain(Front(name))
  <2>. DEFINE front == Front(name)
              n == Len(front)
  <2>1. Len(name) # 0
    BY <1>1, <1>3, EmptySeq
  <2>2. /\ front \in Tokens /\ Len(name) = n + 1 /\ n \in Nat
        /\ \A k \in 1 .. n : front[k] = name[k]
    <3>. DEFINE r == Len(name) - 1
    <3>1. r \in Nat /\ r \in 0 .. Len(name) /\ Len(name) = r + 1
      BY <1>1, <2>1
    <3>2. front = SubSeq(name, 1, r)
      BY DEF Front
    <3>. HIDE DEF r, front
    <3>3. /\ SubSeq(name, 1, r) \in Seq(Token) /\ Len(SubSeq(name, 1, r)) = r
          /\ \A k \in 1 .. r : SubSeq(name, 1, r)[k] = name[k]
      BY <1>1, <3>1
    <3>. QED  BY <3>1, <3>2, <3>3 DEF Tokens
  <2>. HIDE DEF front
  <2>3. Regular(front, n)
    BY <1>3, <2>2, PlainRegular DEF front
  <2>4. n \in 1 .. n /\ n \in 1 .. Len(name)
    BY <2>2, <2>3 DEF Regular
  <2>5. ASSUME NEW k \in 1 .. n
        PROVE  (name[k] = Slash <=> Even(k)) /\ name[k] \notin {Here, Up}
    <3>1. (front[k] = Slash <=> Even(k)) /\ front[k] \notin {Here, Up}
      BY <2>3 DEF Regular
    <3>. QED  BY <2>2, <3>1
  <2>6. name[n] # Slash
    <3>1. front[n] # Slash
      BY <2>3 DEF Regular
    <3>. QED  BY <2>2, <2>4, <3>1
  <2>7. \A k \in n + 1 .. Len(name) : name[k] = Slash
    <3>1. name[n + 1] = Slash
      BY <1>3, <2>2 DEF Last
    <3>2. \A k \in n + 1 .. Len(name) : k = n + 1
      BY <2>2
    <3>. QED  BY <3>1, <3>2
  <2>. HIDE DEF n
  <2>8. Regular(name, n)
    BY <2>4, <2>5, <2>6, <2>7 DEF Regular
  <2>9. Len(name) <= 2 => n = 1
    BY <2>2, <2>4
  <2>. QED  BY <2>2, <2>8, <2>9
<1>. QED  BY <1>2, <1>3 DEF Straight

\* A path of that kind is how the kernel writes the place a walk or way along it
\* from the root directory comes to.
LEMMA PathSpelled ==
  ASSUME NEW path \in Tokens, NEW m, m = Len(path), m # 0, Alternates(path, m, 1),
         m = 1 => path = <<Slash>>, m # 1 => ~Even(m + 1),
         NEW w, IsTrack(w, <<>>, path), w[m] # NULL
  PROVE  w[m] \in Tokens /\ Text(w[m]) = path
<1>1. m \in Nat /\ path \in Seq(Token) /\ Slash \in Token /\ path # <<>>
  <2>1. Len(<<>>) = 0
    OBVIOUS
  <2>. QED  BY <2>1, HooksAssumption DEF Tokens
<1>3. <<>> \in Spot /\ <<>> \in Tokens
  BY DEF Spot, Tokens
<1>5. m \in 0 .. m /\ m \in 1 .. m /\ m > 0
  BY <1>1
<1>. DEFINE q == w[m]
<1>7. q \in Tokens /\ Reached(q, m, 1) = Reached(<<>>, 0, 1) \o SubSeq(path, 1, m)
  <2>1. 1 \in {0, 1}
    OBVIOUS
  <2>2. \A k \in 0 .. m : SpelledAt(w, <<>>, path, k, 1)
    BY <1>3, <1>5, <2>1, WalkSpells
  <2>. QED  BY <1>5, <2>2 DEF SpelledAt
<1>. HIDE DEF q
<1>8. Reached(<<>>, 0, 1) \o SubSeq(path, 1, m) = path
  <2>1. ~Even(0 + 1)
    BY DEF Even
  <2>2. Reached(<<>>, 0, 1) = <<>>
    BY <1>1, <1>3, <2>1, SpellMore DEF Reached
  <2>3. SubSeq(path, 1, m) = path
    BY <1>1
  <2>4. <<>> \o path = path
    BY <1>1
  <2>. QED  BY <2>2, <2>3, <2>4
<1>9. Reached(q, m, 1) = path
  BY <1>7, <1>8
<1>10. Text(q) = path
  <2>1. CASE m = 1
    <3>1. path = <<Slash>> /\ Even(m + 1)
      BY <2>1 DEF Even
    <3>2. Spell(q) \o <<Slash>> = <<Slash>>
      BY <1>9, <3>1 DEF Reached
    <3>3. Spell(q) = <<>>
      <4>. DEFINE a == Spell(q)
                  s == <<Slash>>
      <4>1. a \in Tokens /\ s \in Tokens /\ Len(s) = 1 /\ a \o s = s
        BY <1>1, <1>7, <3>2, SpellMore, Singles
      <4>. HIDE DEF a, s
      <4>2. MadeOfTwo(a \o s, a, s)
        BY <4>1, JoinedAt
      <4>3. Len(a) = 0
        BY <4>1, <4>2 DEF MadeOfTwo
      <4>4. a = <<>>
        BY <4>1, <4>3, EmptySeq DEF Tokens
      <4>. QED  BY <4>4 DEF a
    <3>4. q = <<>>
      BY <1>7, <3>3, SpellLong
    <3>. QED  BY <3>1, <3>4, TextIs
  <2>2. CASE m # 1
    <3>1. Spell(q) = path
      BY <1>9, <2>2 DEF Reached
    <3>2. q # <<>>
      BY <1>1, <1>3, <3>1, SpellMore
    <3>. QED  BY <3>1, <3>2, TextIs
  <2>. QED  BY <2>1, <2>2
<1>. QED  BY <1>7, <1>10 DEF q

\* A path chdir judges as it is given is how the kernel writes the place it
\* leads to.
LEMMA PathNamesItself ==
  ASSUME NEW dir, NEW path \in Tokens, Straight("chdir", path), Walk(dir, path, path) # NULL
  PROVE  Walk(dir, path, path) \in Tokens /\ Text(Walk(dir, path, path)) = path
<1>1. Len(path) \in Nat /\ path \in Seq(Token) /\ Slash \in Token
  BY HooksAssumption DEF Tokens
<1>2. path # <<>> /\ path[1] = Slash /\ ~Relative(path) /\ Len(path) # 0
  <2>1. CASE path = <<Slash>>
    <3>1. Len(<<Slash>>) = 1 /\ <<Slash>>[1] = Slash /\ <<Slash>> # <<>>
      OBVIOUS
    <3>. QED  BY <2>1, <3>1 DEF Relative
  <2>2. CASE path # <<>> /\ ~Relative(path)
    BY <1>1, <2>2, EmptySeq DEF Relative
  <2>. QED  BY <2>1, <2>2 DEF Straight
<1>3. Start(dir, path) = <<>> /\ <<>> \in Spot /\ <<>> \in Tokens
  BY <1>2 DEF Start, Spot, Tokens
<1>. DEFINE m == Len(path)
<1>4. PICK w : IsWalk(w, <<>>, path) /\ Walk(dir, path, path) = w[m]
  BY <1>3, WalkIs
<1>5. m \in 0 .. m /\ m \in 1 .. m /\ m > 0
  BY <1>1, <1>2
<1>6. /\ Alternates(path, m, 1) /\ (m = 1 => path = <<Slash>>)
      /\ m # 1 => ~Even(m + 1)
  <2>1. CASE path = <<Slash>>
    <3>1. m = 1 /\ 1 .. m = {1}
      BY <2>1
    <3>2. Even(1 + 1) /\ path[1] \notin {Here, Up}
      BY <1>2 DEF Even, Slash, Here, Up
    <3>. QED  BY <1>2, <2>1, <3>1, <3>2 DEF Alternates
  <2>2. CASE Plain(Tail(path))
    <3>. DEFINE tail == Tail(path)
    <3>1. tail \in Tokens /\ Len(tail) = m - 1 /\ \A k \in 1 .. m - 1 : tail[k] = path[k + 1]
      BY <1>1, <1>2 DEF Tokens
    <3>. HIDE DEF tail
    <3>2. Regular(tail, m - 1)
      BY <2>2, <3>1, PlainRegular DEF tail
    <3>3. m - 1 \in 1 .. m - 1 /\ m # 1
      BY <1>1, <3>1, <3>2 DEF Regular
    <3>4. ASSUME NEW k \in 1 .. m
          PROVE  (path[k] = Slash <=> Even(k + 1)) /\ path[k] \notin {Here, Up}
      <4>1. CASE k = 1
        BY <1>2, <4>1 DEF Even, Slash, Here, Up
      <4>2. CASE k # 1
        <5>. DEFINE j == k - 1
        <5>1. j \in 1 .. m - 1 /\ k = j + 1 /\ j \in Nat /\ k \in Nat /\ k > 0 /\ k + 1 > 0 /\ k + 1 \in Nat
          BY <1>1, <4>2
        <5>2. tail[j] = path[k]
          BY <3>1, <5>1
        <5>3. (tail[j] = Slash <=> Even(j)) /\ tail[j] \notin {Here, Up}
          BY <3>2, <5>1 DEF Regular
        <5>4. Even(k) <=> ~Even(j)
          BY <5>1, EvenFlips
        <5>5. Even(k + 1) <=> ~Even(k)
          <6>1. (k + 1) - 1 = k
            BY <5>1
          <6>. QED  BY <5>1, <6>1, EvenFlips
        <5>. QED  BY <5>2, <5>3, <5>4, <5>5
      <4>. QED  BY <4>1, <4>2
    <3>5. path[m] # Slash
      <4>1. tail[m - 1] # Slash
        BY <3>2 DEF Regular
      <4>2. (m - 1) + 1 = m
        BY <1>1
      <4>. QED  BY <3>1, <3>3, <4>1, <4>2
    <3>6. ~Even(m + 1)
      BY <1>5, <3>4, <3>5
    <3>. QED  BY <3>3, <3>4, <3>6 DEF Alternates
  <2>. QED  BY <2>1, <2>2 DEF Straight
<1>7. IsTrack(w, <<>>, path) /\ w[m] # NULL
  BY <1>4, Tracks
<1>8. w[m] \in Tokens /\ Text(w[m]) = path
  <2>. HIDE DEF m
  <2>. QED  BY <1>2, <1>6, <1>7, PathSpelled DEF m
<1>. QED  BY <1>4, <1>8

\* A path as d_path writes it denotes, from anywhere, the place it is the text of.
LEMMA WrittenNamesItself ==
  ASSUME NEW base, NEW path \in Tokens, AsWritten(path)
  PROVE  Text(Denotes(base, path)) = path
<1>. DEFINE m == Len(path)
<1>1. m \in Nat /\ DOMAIN path = 1 .. m /\ Slash \in Token
  BY HooksAssumption DEF Tokens
<1>2. /\ path # <<>> /\ path[1] = Slash /\ m # 0 /\ Alternates(path, m, 1)
      /\ m = 1 => path = <<Slash>>
      /\ m # 1 => ~Even(m + 1)
  <2>1. CASE path = <<Slash>>
    <3>1. m = 1 /\ 1 .. m = {1} /\ path[1] = Slash /\ path # <<>>
      BY <2>1
    <3>2. Even(1 + 1) /\ path[1] \notin {Here, Up}
      BY <3>1 DEF Even, Slash, Here, Up
    <3>. QED  BY <2>1, <3>1, <3>2 DEF Alternates
  <2>2. CASE /\ path # <<>> /\ m % 2 = 0
             /\ \A i \in DOMAIN path : (path[i] = Slash <=> i % 2 = 1) /\ path[i] \notin {Here, Up, Deleted}
    <3>1. m # 0
      BY <2>2, EmptySeq DEF Tokens
    <3>2. \A i \in 1 .. m : Even(i + 1) <=> i % 2 = 1
      BY <1>1 DEF Even
    <3>3. Alternates(path, m, 1)
      BY <1>1, <2>2, <3>2 DEF Alternates
    <3>4. path[1] = Slash
      <4>1. 1 \in DOMAIN path /\ 1 % 2 = 1
        BY <1>1, <3>1
      <4>. QED  BY <2>2, <4>1
    <3>5. ~Even(m + 1) /\ m # 1
      BY <1>1, <2>2 DEF Even
    <3>. QED  BY <2>2, <3>1, <3>3, <3>4, <3>5
  <2>. QED  BY <2>1, <2>2 DEF AsWritten
<1>3. From(base, path) = <<>> /\ <<>> \in Tokens
  BY <1>2 DEF From, Relative, Tokens
<1>4. PICK w : IsWay(w, <<>>, path) /\ Denotes(base, path) = w[m]
  BY <1>3, DenotesIs
<1>5. IsTrack(w, <<>>, path) /\ w[m] # NULL
  <2>1. m \in 0 .. m
    BY <1>1
  <2>2. w[m] \in Tokens
    BY <1>4, <2>1 DEF IsWay
  <2>. QED  BY <1>4, <2>2, Tracks, HooksAssumption DEF Tokens
<1>6. Text(w[m]) = path
  <2>. HIDE DEF m
  <2>. QED  BY <1>2, <1>5, PathSpelled DEF m
<1>. QED  BY <1>4, <1>6

-----------------------------------------------------------------------------
(* What the full path of any name says about the place it denotes.         *)

\* How d_path writes the place of a directory, be there a directory or not.
Written(place) == IF place = NULL THEN <<Slash, Deleted>> ELSE Text(place)

LEMMA WrittenType ==
  ASSUME NEW place \in Spot
  PROVE  /\ Written(place) \in Tokens /\ Len(Written(place)) \in Nat
         /\ Len(Written(place)) > 0 /\ Written(place)[1] = Slash
<1>1. Slash \in Token /\ Deleted \in Token /\ NULL \notin Tokens
  BY HooksAssumption DEF Tokens
<1>2. CASE place = NULL
  <2>1. <<Slash, Deleted>> \in Tokens
    BY <1>1, Singles
  <2>. QED  BY <1>2, <2>1 DEF Written
<1>3. CASE place = <<>>
  <2>1. Written(place) = <<Slash>>
    <3>1. <<>> \in Tokens
      BY DEF Tokens
    <3>2. Text(place) = <<Slash>>
      BY <1>3, TextIs
    <3>. QED  BY <1>1, <1>3, <3>1, <3>2 DEF Written
  <2>2. <<Slash>> \in Tokens
    BY <1>1, Singles
  <2>. QED  BY <2>1, <2>2
<1>4. CASE place \in Tokens /\ place # <<>>
  <2>. DEFINE n == Len(place)
  <2>1. n \in Nat /\ n # 0
    BY <1>4, EmptySeq DEF Tokens
  <2>2. PICK f : IsSpelled(f, place) /\ Spell(place) = f[n]
    BY <1>4, SpelledExists, SpellIs
  <2>. DEFINE T == {k \in 0 .. n : k > 0 => Len(f[k]) > 0 /\ f[k][1] = Slash}
  <2>3. 0 \in T
    BY <2>1
  <2>4. ASSUME NEW k \in 1 .. n, k - 1 \in T PROVE k \in T
    <3>. DEFINE a == f[k - 1]
                b == Piece(place, k)
    <3>1. k \in 0 .. n /\ k - 1 \in 0 .. n
      BY <2>1
    <3>2. a \in Tokens /\ b \in Tokens /\ f[k] = a \o b
      BY <1>4, <2>2, <3>1, PieceType DEF IsSpelled
    <3>3. Len(b) = 2 /\ b[1] = Slash
      BY DEF Piece
    <3>4. CASE k = 1
      <4>1. a = <<>>
        BY <2>2, <3>4 DEF IsSpelled
      <4>2. <<>> \o b = b
        <5>. HIDE DEF b
        <5>. QED  BY <3>2 DEF Tokens
      <4>3. f[k] = b
        BY <3>2, <4>1, <4>2
      <4>4. Len(f[k]) > 0 /\ f[k][1] = Slash
        <5>. HIDE DEF a, b
        <5>1. 2 > 0
          OBVIOUS
        <5>. QED  BY ONLY <3>3, <4>3, <5>1
      <4>. QED  BY <3>1, <4>4
    <3>5. CASE k # 1
      <4>1. Len(a) > 0 /\ a[1] = Slash
        BY <2>1, <2>4, <3>5
      <4>. HIDE DEF a, b
      <4>2. MadeOfTwo(a \o b, a, b)
        BY <3>2, JoinedAt
      <4>3. 1 \in 1 .. Len(a) /\ Len(a) \in Nat
        BY <4>1, <4>2 DEF MadeOfTwo
      <4>4. (a \o b)[1] = Slash /\ Len(a \o b) > 0
        BY <3>3, <4>1, <4>2, <4>3 DEF MadeOfTwo
      <4>. QED  BY <3>1, <3>2, <4>4
    <3>. QED  BY <3>4, <3>5
  <2>5. \A k \in 0 .. n : k \in T
    <3>. HIDE DEF T, n
    <3>. QED  BY <2>1, <2>3, <2>4, CountUp
  <2>6. Len(Spell(place)) > 0 /\ Spell(place)[1] = Slash
    <3>1. n \in T /\ n > 0
      BY <2>1, <2>5
    <3>. QED  BY <2>2, <3>1
  <2>7. Written(place) = Spell(place) /\ Spell(place) \in Tokens
    BY <1>1, <1>4, TextIs, SpellMore DEF Written
  <2>8. Len(Written(place)) \in Nat
    BY <2>7 DEF Tokens
  <2>. QED  BY <2>6, <2>7, <2>8
<1>. QED  BY <1>2, <1>3, <1>4 DEF Spot

\* The full path of a name given in a directory.
FullOf(place, name) == FullPath(<<>>, Written(place), name)

LEMMA FullOfIs ==
  ASSUME NEW place \in Spot, NEW name \in Tokens
  PROVE  /\ FullOf(place, name) = (Written(place) \o <<Slash>>) \o name
         /\ MadeOf(FullOf(place, name), Written(place), name)
         /\ Len(name) \in Nat /\ FullOf(place, name)[1] = Slash
<1>. DEFINE text == Written(place)
<1>1. text \in Tokens /\ Len(text) \in Nat /\ Len(text) > 0 /\ text[1] = Slash
  BY WrittenType
<1>. HIDE DEF text
<1>2. FullOf(place, name) = (text \o <<Slash>>) \o name
  BY <1>1, FullPathIs DEF FullOf, text
<1>3. MadeOf(FullOf(place, name), text, name)
  BY <1>1, <1>2, FullTokens
<1>4. FullOf(place, name)[1] = Slash
  <2>1. 1 \in 1 .. Len(text)
    BY <1>1
  <2>. QED  BY <1>1, <1>3, <2>1 DEF MadeOf
<1>5. Len(name) \in Nat
  BY DEF Tokens
<1>. QED  BY <1>2, <1>3, <1>4, <1>5 DEF text

\* A path written as d_path does has a component in the second place.
LEMMA SecondToken ==
  ASSUME NEW path \in Tokens, AsWritten(path), Len(path) > 1
  PROVE  path[2] \notin {Slash, Deleted}
<1>1. Len(path) \in Nat /\ DOMAIN path = 1 .. Len(path)
  BY DEF Tokens
<1>2. ASSUME path = <<Slash>> PROVE FALSE
  <2>1. Len(path) = 1
    BY <1>2
  <2>. QED  BY <2>1
<1>3. 2 \in DOMAIN path /\ ~(2 % 2 = 1)
  BY <1>1
<1>. QED  BY <1>2, <1>3 DEF AsWritten

\* The full path of a name, when it is written as d_path writes one, is how d_path
\* writes the place the name denotes.
LEMMA FullPathDenoted ==
  ASSUME NEW place \in Spot, NEW name \in Tokens, NEW full, full = FullOf(place, name),
         AsWritten(full)
  PROVE  Text(Denotes(place, name)) = full
<1>. DEFINE text == Written(place)
            L == Len(text)
            n == Len(name)
<1>1. /\ full = (text \o <<Slash>>) \o name /\ full \in Tokens /\ Len(full) = L + 1 + n
      /\ \A i \in 1 .. L : full[i] = text[i]
      /\ full[L + 1] = Slash
      /\ \A i \in 1 .. n : full[L + 1 + i] = name[i]
      /\ n \in Nat /\ L \in Nat /\ L > 0
  BY FullOfIs, WrittenType DEF MadeOf
<1>2. Len(full) > 1 /\ full[2] \notin {Slash, Deleted}
  <2>1. Len(full) > 1
    BY <1>1
  <2>. QED  BY <1>1, <2>1, SecondToken
<1>3. place \in Tokens /\ place # <<>> /\ text = Spell(place)
  <2>1. place # NULL
    <3>1. SUFFICES ASSUME place = NULL PROVE FALSE
      OBVIOUS
    <3>2. text = <<Slash, Deleted>>
      BY <3>1 DEF Written
    <3>3. L = 2 /\ text[2] = Deleted /\ 2 \in 1 .. L
      BY <3>2
    <3>. HIDE DEF text, L
    <3>4. full[2] = Deleted
      BY <1>1, <3>3
    <3>. QED  BY <1>2, <3>4
  <2>2. place \in Tokens /\ text = Text(place)
    BY <2>1 DEF Written, Spot
  <2>3. place # <<>>
    <3>1. SUFFICES ASSUME place = <<>> PROVE FALSE
      OBVIOUS
    <3>2. text = <<Slash>>
      BY <2>2, <3>1, TextIs
    <3>3. L = 1 /\ L + 1 = 2
      BY <3>2
    <3>. HIDE DEF text, L
    <3>. QED  BY <1>1, <1>2, <3>3
  <2>. QED  BY <2>2, <2>3, TextIs
<1>. HIDE DEF text, L, n
<1>4. /\ DOMAIN full = 1 .. L + 1 + n /\ Even(L + 1 + n)
      /\ \A i \in 1 .. L + 1 + n : (full[i] = Slash <=> ~Even(i)) /\ full[i] \notin {Here, Up}
  <2>1. DOMAIN full = 1 .. Len(full)
    BY <1>1 DEF Tokens
  <2>2. full # <<Slash>>
    <3>1. SUFFICES ASSUME full = <<Slash>> PROVE FALSE
      OBVIOUS
    <3>2. Len(full) = 1
      BY <3>1
    <3>. QED  BY <1>2, <3>2
  <2>3. \A i \in Nat : ~Even(i) <=> i % 2 = 1
    BY DEF Even
  <2>4. L + 1 + n \in Nat /\ \A i \in 1 .. L + 1 + n : i \in Nat
    BY <1>1
  <2>5. /\ Len(full) % 2 = 0
        /\ \A i \in DOMAIN full : (full[i] = Slash <=> i % 2 = 1) /\ full[i] \notin {Here, Up, Deleted}
    BY <2>2 DEF AsWritten
  <2>. QED  BY <1>1, <2>1, <2>3, <2>4, <2>5 DEF Even
<1>5. \A k \in 0 .. n : Even(L + 1 + k) <=> ~Even(k)
  <2>. DEFINE T == {k \in 0 .. n : Even(L + 1 + k) <=> ~Even(k)}
  <2>1. 0 \in T
    <3>1. ~Even(L + 1 + 0) /\ Even(0)
      <4>1. L + 1 + 0 = L + 1 /\ L + 1 \in 1 .. L + 1 + n
        BY <1>1
      <4>2. ~Even(L + 1)
        BY <1>1, <1>4, <4>1
      <4>3. Even(0)
        BY DEF Even
      <4>. QED  BY <4>1, <4>2, <4>3
    <3>. QED  BY <1>1, <3>1
  <2>2. ASSUME NEW k \in 1 .. n, k - 1 \in T PROVE k \in T
    <3>1. /\ k \in Nat /\ k > 0 /\ k \in 0 .. n
          /\ L + 1 + k \in Nat /\ L + 1 + k > 0 /\ (L + 1 + k) - 1 = L + 1 + (k - 1)
      BY <1>1
    <3>2. (Even(k) <=> ~Even(k - 1)) /\ (Even(L + 1 + k) <=> ~Even(L + 1 + (k - 1)))
      BY <3>1, EvenFlips
    <3>. QED  BY <2>2, <3>1, <3>2
  <2>3. \A k \in 0 .. n : k \in T
    <3>. HIDE DEF T
    <3>. QED  BY <1>1, <2>1, <2>2, CountUp
  <2>. QED  BY <2>3
<1>6. ~Even(n) /\ n \in 1 .. n
  <2>1. n \in 0 .. n
    BY <1>1
  <2>2. ~Even(n)
    BY <1>4, <1>5, <2>1
  <2>3. n # 0
    BY <2>2 DEF Even
  <2>. QED  BY <1>1, <2>2, <2>3
<1>7. Alternates(name, n, 0)
  <2>1. ASSUME NEW k \in 1 .. n PROVE (name[k] = Slash <=> Even(k + 0)) /\ name[k] \notin {Here, Up}
    <3>1. L + 1 + k \in 1 .. L + 1 + n /\ k \in 0 .. n /\ k + 0 = k
      BY <1>1
    <3>2. full[L + 1 + k] = name[k]
      BY <1>1
    <3>. QED  BY <1>4, <1>5, <3>1, <3>2
  <2>. QED  BY <2>1 DEF Alternates
<1>8. From(place, name) = place
  <2>1. 1 \in 1 .. n /\ ~Even(1 + 0)
    BY <1>1, <1>6 DEF Even
  <2>2. name[1] # Slash
    BY <1>7, <2>1 DEF Alternates
  <2>3. name # <<>>
    BY <1>1, <1>6 DEF n
  <2>. QED  BY <2>2, <2>3 DEF From, Relative
<1>9. PICK w : IsWay(w, place, name) /\ Denotes(place, name) = w[n]
  BY <1>3, <1>8, DenotesIs DEF n
<1>10. n \in 0 .. n /\ w[n] \in Tokens /\ w[n] # NULL
  <2>1. n \in 0 .. n
    BY <1>1
  <2>. QED  BY <1>9, <2>1, HooksAssumption DEF IsWay, n, Tokens
<1>11. Reached(w[n], n, 0) = Reached(place, 0, 0) \o SubSeq(name, 1, n)
  <2>1. 0 \in {0, 1} /\ n \in 0 .. Len(name) /\ place \in Spot
    BY <1>10 DEF n
  <2>2. IsTrack(w, place, name)
    BY <1>9, Tracks
  <2>3. \A k \in 0 .. n : SpelledAt(w, place, name, k, 0)
    BY <1>7, <2>1, <2>2, WalkSpells
  <2>. QED  BY <1>10, <2>3 DEF SpelledAt
<1>12. Spell(w[n]) = full
  <2>1. Even(0 + 0) /\ n + 0 = n
    BY <1>1 DEF Even
  <2>2. SubSeq(name, 1, n) = name
    BY DEF n, Tokens
  <2>. QED  BY <1>1, <1>3, <1>6, <1>11, <2>1, <2>2 DEF Reached
<1>13. w[n] # <<>>
  <2>1. SUFFICES ASSUME w[n] = <<>> PROVE FALSE
    OBVIOUS
  <2>2. Slash \in Token
    BY HooksAssumption
  <2>3. full = <<>>
    BY <1>3, <1>12, <2>1, <2>2, SpellMore
  <2>4. Len(full) = 0
    BY <2>3
  <2>. QED  BY <1>2, <2>4
<1>. QED  BY <1>9, <1>12, <1>13, TextIs

\* The parent that mkdir's hook cuts out of the full path of a straight name, when
\* it is written as d_path writes a path, is how d_path writes the directory of the
\* place the name denotes.
LEMMA ParentDenoted ==
  ASSUME NEW place \in Spot, NEW name \in Tokens, Straight("mkdir", name),
         NEW full, full = FullOf(place, name)
  PROVE  /\ ParentDir(full) \in Tokens /\ ~Relative(ParentDir(full))
         /\ AsWritten(ParentDir(full)) => Text(Front(Denotes(place, name))) = ParentDir(full)
<1>. DEFINE text == Written(place)
            L == Len(text)
<1>1. /\ full = (text \o <<Slash>>) \o name /\ full \in Tokens /\ Len(full) = L + 1 + Len(name)
      /\ \A i \in 1 .. L : full[i] = text[i]
      /\ full[L + 1] = Slash /\ full[1] = Slash
      /\ Len(name) \in Nat /\ L \in Nat /\ L > 0 /\ text \in Tokens
  BY FullOfIs, WrittenType DEF MadeOf
<1>2. PICK n \in Nat : Regular(name, n) /\ Len(name) \in {n, n + 1}
  BY StraightRegular
<1>3. n \in 1 .. Len(name) /\ n > 0
  BY <1>2 DEF Regular
<1>. HIDE DEF text, L
<1>. DEFINE c == L + n - 1
            path == SubSeq(full, 1, c)
<1>4. ParentDir(full) = path
  <2>1. ParentDir(full) = SubSeq(full, 1, Len(text) + n - 1)
    BY <1>1, <1>2, ParentCut
  <2>. QED  BY <2>1 DEF L
<1>5. /\ path \in Tokens /\ Len(path) = c /\ c \in Nat /\ c > 0 /\ \A i \in 1 .. c : path[i] = full[i]
  <2>1. c \in 1 .. Len(full) /\ full \in Seq(Token) /\ c \in Nat
    BY <1>1, <1>2, <1>3 DEF Tokens
  <2>. HIDE DEF c
  <2>2. /\ SubSeq(full, 1, c) \in Seq(Token) /\ Len(SubSeq(full, 1, c)) = c
        /\ \A i \in 1 .. c : SubSeq(full, 1, c)[i] = full[i]
    BY <2>1
  <2>. QED  BY <2>1, <2>2 DEF Tokens
<1>. HIDE DEF path
<1>6. path # <<>> /\ path[1] = Slash
  <2>1. 1 \in 1 .. c
    BY <1>5
  <2>2. path # <<>>
    <3>1. Len(<<>>) = 0 /\ Len(path) # 0
      BY <1>5
    <3>. QED  BY <3>1
  <2>. QED  BY <1>1, <1>5, <2>1, <2>2
<1>7. ASSUME AsWritten(path) PROVE Text(Front(Denotes(place, name))) = path
  <2>1. c > 1 => full[2] \notin {Slash, Deleted}
    <3>1. SUFFICES ASSUME c > 1 PROVE full[2] \notin {Slash, Deleted}
      OBVIOUS
    <3>2. 2 \in 1 .. c /\ path[2] \notin {Slash, Deleted}
      BY <1>5, <1>7, <3>1, SecondToken
    <3>. QED  BY <1>5, <3>2
  <2>2. place # NULL
    <3>1. SUFFICES ASSUME place = NULL PROVE FALSE
      OBVIOUS
    <3>2. text = <<Slash, Deleted>>
      BY <3>1 DEF Written, text
    <3>3. Len(text) = 2 /\ text[2] = Deleted
      BY <3>2
    <3>4. L = 2 /\ 2 \in 1 .. L /\ c > 1
      BY <1>3, <3>3 DEF L
    <3>. QED  BY <1>1, <2>1, <3>3, <3>4
  <2>3. place \in Tokens /\ text = Text(place)
    BY <2>2 DEF Written, Spot, text
  <2>4. place # <<>> \/ n = 1
    <3>1. SUFFICES ASSUME place = <<>>, n # 1 PROVE FALSE
      OBVIOUS
    <3>2. text = <<Slash>>
      BY <2>3, <3>1, TextIs
    <3>3. Len(text) = 1
      BY <3>2
    <3>4. L + 1 = 2 /\ c > 1
      BY <1>3, <3>1, <3>3 DEF L
    <3>. QED  BY <1>1, <2>1, <3>4
  <2>5. From(place, name) = place
    <3>1. name[1] # Slash
      <4>1. 1 \in 1 .. n /\ ~Even(1)
        BY <1>3 DEF Even
      <4>. QED  BY <1>2, <4>1 DEF Regular
    <3>2. name # <<>>
      <4>1. Len(<<>>) = 0 /\ Len(name) # 0
        BY <1>1, <1>3
      <4>. QED  BY <4>1
    <3>. QED  BY <3>1, <3>2 DEF From, Relative
  <2>6. PICK w : IsWay(w, place, name) /\ Denotes(place, name) = w[Len(name)]
    BY <2>3, <2>5, DenotesIs
  <2>7. /\ n \in 0 .. Len(name) /\ n - 1 \in 0 .. Len(name) /\ n - 1 \in 0 .. n - 1
        /\ w[n] \in Tokens /\ w[n - 1] \in Tokens /\ name[n] \in Token
    <3>1. n \in 0 .. Len(name) /\ n - 1 \in 0 .. Len(name) /\ n - 1 \in 0 .. n - 1
      BY <1>1, <1>3
    <3>. QED  BY <1>3, <2>6, <3>1 DEF IsWay, Tokens
  <2>. DEFINE at == w[n - 1]
  <2>8. w[n] = Append(at, name[n])
    <3>1. w[n] = Along(at, name[n])
      BY <1>3, <2>6 DEF IsWay
    <3>2. name[n] \notin {Slash, Here, Up}
      <4>1. n \in 1 .. n
        BY <1>3
      <4>. QED  BY <1>2, <4>1 DEF Regular
    <3>. QED  BY <3>1, <3>2 DEF Along
  <2>9. Denotes(place, name) = w[n]
    <3>1. CASE Len(name) = n
      BY <2>6, <3>1
    <3>2. CASE Len(name) = n + 1
      <4>1. n + 1 \in n + 1 .. Len(name) /\ n + 1 \in 1 .. Len(name) /\ (n + 1) - 1 = n
        BY <3>2
      <4>2. name[n + 1] = Slash
        BY <1>2, <4>1 DEF Regular
      <4>3. w[n + 1] = Along(w[n], name[n + 1])
        BY <2>6, <4>1 DEF IsWay
      <4>. QED  BY <2>6, <3>2, <4>2, <4>3 DEF Along
    <3>. QED  BY <1>2, <3>1, <3>2
  <2>10. Front(Denotes(place, name)) = at
    <3>. DEFINE x == name[n]
    <3>1. x \in Token /\ at \in Tokens
      BY <2>7
    <3>. HIDE DEF x, at
    <3>2. Front(Append(at, x)) = at
      BY <3>1 DEF Tokens, Front
    <3>. QED  BY <2>8, <2>9, <3>2 DEF x
  <2>11. Spell(at) \o <<Slash>> = (Spell(place) \o <<Slash>>) \o SubSeq(name, 1, n - 1)
    <3>. DEFINE m == n - 1
    <3>1. m \in 0 .. Len(name) /\ m \in 0 .. m /\ 0 \in {0, 1} /\ place \in Spot
      BY <2>7
    <3>2. Alternates(name, m, 0)
      <4>1. \A k \in 1 .. m : k \in 1 .. n /\ k + 0 = k
        BY <1>3
      <4>. QED  BY <1>2, <4>1 DEF Regular, Alternates
    <3>3. IsTrack(w, place, name)
      BY <2>6, Tracks
    <3>4. Even(m) /\ m + 0 = m
      <4>1. ~Even(n)
        <5>1. n \in 1 .. n
          BY <1>3
        <5>. QED  BY <1>2, <5>1 DEF Regular
      <4>. QED  BY <1>3, <4>1, EvenFlips
    <3>5. at = w[m] /\ w[m] \in Tokens
      BY <2>7
    <3>. HIDE DEF m, at
    <3>6. \A k \in 0 .. m : SpelledAt(w, place, name, k, 0)
      BY <3>1, <3>2, <3>3, WalkSpells
    <3>7. w[m] # NULL
      BY <3>5, HooksAssumption DEF Tokens
    <3>8. Reached(w[m], m, 0) = Reached(place, 0, 0) \o SubSeq(name, 1, m)
      BY <3>1, <3>6, <3>7 DEF SpelledAt
    <3>9. Even(0 + 0)
      BY DEF Even
    <3>10. Spell(w[m]) \o <<Slash>> = (Spell(place) \o <<Slash>>) \o SubSeq(name, 1, m)
      BY <3>4, <3>8, <3>9 DEF Reached
    <3>. QED  BY <3>5, <3>10 DEF m
  <2>12. at \in Tokens
    BY <2>7
  <2>. HIDE DEF at
  <2>13. Text(at) = ParentDir(FullPath(<<>>, Text(place), name))
    BY <1>2, <2>3, <2>4, <2>11, <2>12, ParentSpelled
  <2>14. full = FullPath(<<>>, Text(place), name)
    BY <2>3 DEF FullOf, text
  <2>. QED  BY <1>4, <2>10, <2>13, <2>14
<1>. QED  BY <1>4, <1>5, <1>6, <1>7 DEF Relative

-----------------------------------------------------------------------------
(* The inductive invariant.                                                *)

Paired(f) == DOMAIN f = Threads /\ \A t \in Threads : DOMAIN f[t] = 1 .. 2

\* A thread that takes no call holds nothing.
Idle(t) ==
  pc[t] = "idle" =>
    arg[t] = 1 /\ \A i \in 1 .. 2 : kernelpath[t][i] = NULL /\ fullpath[t][i] = NULL

\* Only rename comes to a second name.
OneName(t) == arg[t] = 2 => call[t].kind = "rename"

ByFullPath == DOMAIN TypeOf \ {"chdir"}

\* From the moment it is built, the full path is that of the copied name.
Prepared(t) ==
  /\ call[t].kind \in ByFullPath /\ disturbed[t] = {}
  /\ pc[t] \in {"check", "origin"} \/ (arg[t] = 2 /\ pc[t] \in {"copy", "full"})
  => /\ from[t] = where[cwd]
     /\ fullpath[t][1] = FullPath(<<>>, TextOf(cwd), kernelpath[t][1])

\* What passed the check is written as nothing a rule named then.
Weighed(t) ==
  pc[t] = "origin" /\ call[t].kind \in DOMAIN TypeOf /\ disturbed[t] = {}
  => \A o \in seen[t] : where[o] # NULL /\ Text(where[o]) # Judged(t)

ThreadInv(t) == Idle(t) /\ OneName(t) /\ Prepared(t) /\ Weighed(t)

Typed ==
  /\ TypeOK /\ where \in [Object -> Spot]
  /\ Paired(memory) /\ Paired(kernelpath) /\ Paired(fullpath) /\ DOMAIN from = Threads

HInv == Typed /\ \A t \in Threads : ThreadInv(t)

\* A name in the caller's memory, as the kernel reads it.
LEMMA NameType ==
  ASSUME Typed, NEW t \in Threads, NEW i \in 1 .. 2
  PROVE  Read(memory[t][i]) \in Tokens
<1>1. memory[t][i] \in Names \cup NewNames \cup {NULL}
  BY DEF Typed, TypeOK
<1>2. <<>> \in Tokens
  BY DEF Tokens
<1>3. memory[t][i] # NULL => memory[t][i] \in Tokens
  BY <1>1, HooksAssumption DEF Tokens
<1>. QED  BY <1>2, <1>3 DEF Read

\* A call that is not excused looks for the entry of the name that was judged,
\* in the directory the full path was built from.
LEMMA JudgedPlace ==
  ASSUME HInv, NEW t \in Threads, pc[t] = "origin", call[t].kind \in ByFullPath, ~Excused(t)
  PROVE  /\ fullpath[t][1] = FullPath(<<>>, TextOf(cwd), kernelpath[t][1])
         /\ Read(memory[t][1]) = kernelpath[t][1] /\ kernelpath[t][1] \in Tokens
         /\ call[t].dirfd \in {NULL, cwd} /\ Straight(call[t].kind, kernelpath[t][1])
         /\ where[cwd] # <<>> \/ (call[t].kind = "mkdir" /\ Len(kernelpath[t][1]) <= 2)
         /\ where[cwd] \in Spot
         /\ \A o \in seen[t] : where[o] # NULL /\ Text(where[o]) # Judged(t)
<1>1. ThreadInv(t) /\ Typed
  BY DEF HInv
<1>2. /\ disturbed[t] = {} /\ Straight(call[t].kind, kernelpath[t][1])
      /\ Read(memory[t][1]) = kernelpath[t][1] /\ call[t].dirfd \in {NULL, cwd}
      /\ from[t] = <<>> => call[t].kind = "mkdir" /\ Len(kernelpath[t][1]) <= 2
  BY DEF Excused
<1>3. from[t] = where[cwd] /\ fullpath[t][1] = FullPath(<<>>, TextOf(cwd), kernelpath[t][1])
  BY <1>1, <1>2 DEF ThreadInv, Prepared
<1>4. \A o \in seen[t] : where[o] # NULL /\ Text(where[o]) # Judged(t)
  BY <1>1, <1>2 DEF ThreadInv, Weighed, ByFullPath
<1>5. where[cwd] \in Spot
  <2>1. cwd \in Object /\ where \in [Object -> Spot]
    BY <1>1, HooksAssumption DEF Typed, TypeOK
  <2>. QED  BY <2>1
<1>6. kernelpath[t][1] \in Tokens
  BY <1>1, <1>2, NameType
<1>. QED  BY <1>2, <1>3, <1>4, <1>5, <1>6

LEMMA UnlinkSpares ==
  ASSUME HInv, NEW t \in Threads, pc[t] = "origin", call[t].kind \in {"unlink", "unlinkat"},
         ~Excused(t), RealCall(t)
  PROVE  Affected(t) \cap seen[t] = {}
<1>. DEFINE name == kernelpath[t][1]
<1>1. call[t].kind \in ByFullPath /\ call[t].kind \notin {"mkdir", "chdir", "rename", "renameat", "rmdir"}
  BY DEF ByFullPath, TypeOf
<1>2. /\ fullpath[t][1] = FullPath(<<>>, TextOf(cwd), name)
      /\ Read(memory[t][1]) = name /\ name \in Tokens
      /\ call[t].dirfd \in {NULL, cwd} /\ Straight(call[t].kind, name)
      /\ where[cwd] # <<>> /\ where[cwd] \in Spot
      /\ \A o \in seen[t] : where[o] # NULL /\ Text(where[o]) # Judged(t)
  BY <1>1, JudgedPlace
<1>3. Regular(name, Len(name)) /\ Judged(t) = FullPath(<<>>, TextOf(cwd), name)
  <2>1. Plain(name)
    BY <1>1, <1>2 DEF Straight
  <2>2. Judged(t) = fullpath[t][1]
    BY <1>1 DEF Judged
  <2>. HIDE DEF name
  <2>. QED  BY <1>2, <2>1, <2>2, PlainRegular
<1>. HIDE DEF name
<1>4. SUFFICES ASSUME NEW x \in seen[t], where[x] # NULL, where'[x] = NULL PROVE FALSE
  BY <1>1 DEF Affected
<1>5. \/ where' = where
      \/ \E place \in Target(cwd, name) : \E o \in At(place) : where' = [where EXCEPT ![o] = NULL]
  <2>1. UNCHANGED tree \/ Removes(cwd, name, call[t].kind = "rmdir" \/ call[t].removedir)
    <3>1. (IF call[t].dirfd = NULL THEN cwd ELSE call[t].dirfd) = cwd
      BY <1>2
    <3>. QED  BY <1>1, <1>2, <3>1 DEF RealCall
  <2>. QED  BY <2>1 DEF Removes, tree
<1>6. PICK place \in Target(cwd, name) :
        \E o \in At(place) : where' = [where EXCEPT ![o] = NULL]
  BY <1>4, <1>5
<1>7. PICK o \in At(place) : where' = [where EXCEPT ![o] = NULL]
  BY <1>6
<1>8. x = o
  BY <1>4, <1>7
<1>9. where[x] = place
  BY <1>8 DEF At
<1>10. Text(place) = FullPath(<<>>, TextOf(cwd), name)
  BY <1>2, <1>3, <1>6, FullPathNames
<1>. QED  BY <1>2, <1>3, <1>4, <1>9, <1>10

LEMMA RenameSpares ==
  ASSUME HInv, NEW t \in Threads, pc[t] = "origin", call[t].kind = "rename",
         ~Excused(t), RealCall(t)
  PROVE  Affected(t) \cap seen[t] = {}
<1>. DEFINE name == kernelpath[t][1]
            new == Read(memory[t][2])
<1>1. call[t].kind \in ByFullPath
  BY DEF ByFullPath, TypeOf
<1>2. /\ fullpath[t][1] = FullPath(<<>>, TextOf(cwd), name)
      /\ Read(memory[t][1]) = name /\ name \in Tokens /\ Straight(call[t].kind, name)
      /\ where[cwd] # <<>> /\ where[cwd] \in Spot
      /\ \A o \in seen[t] : where[o] # NULL /\ Text(where[o]) # Judged(t)
  BY <1>1, JudgedPlace
<1>3. Regular(name, Len(name)) /\ Judged(t) = FullPath(<<>>, TextOf(cwd), name)
  <2>1. Plain(name)
    BY <1>2 DEF Straight
  <2>2. Judged(t) = fullpath[t][1]
    BY DEF Judged
  <2>. HIDE DEF name
  <2>. QED  BY <1>2, <2>1, <2>2, PlainRegular
<1>. HIDE DEF name
<1>4. new \in Tokens
  <2>1. Typed /\ 2 \in 1 .. 2
    BY DEF HInv
  <2>. QED  BY <2>1, NameType
<1>. HIDE DEF new
<1>5. SUFFICES ASSUME NEW x \in seen[t], x \in Object, where[x] # NULL, where'[x] # NULL,
                      where'[x] # where[x],
                      \A p \in Object : where[p] # NULL /\ IsStrictPrefix(where[p], where[x])
                                          => where'[p] = where[p]
               PROVE  FALSE
  BY DEF Affected
<1>6. where' = where \/ Renames(name, new)
  BY <1>2 DEF RealCall, tree, new
<1>7. PICK p \in Target(cwd, name), q \in Target(cwd, new) :
        /\ At(p) # {} /\ ~IsPrefix(p, q)
        /\ where' = [y \in Object |->
                       IF where[y] = NULL \/ y \in At(q) THEN NULL
                       ELSE IF IsPrefix(p, where[y])
                       THEN q \o SubSeq(where[y], Len(p) + 1, Len(where[y]))
                       ELSE where[y]]
  BY <1>5, <1>6 DEF Renames
<1>8. Start(cwd, name) \in Spot /\ Start(cwd, new) \in Spot
  BY <1>2 DEF Start, Spot, Tokens
<1>9. p \in Tokens /\ q \in Tokens
  BY <1>2, <1>4, <1>7, <1>8, TargetIs
<1>10. IsPrefix(p, p) /\ p # q
  <2>1. IsPrefix(p, p)
    BY <1>9 DEF IsPrefix, Tokens
  <2>. QED  BY <1>7, <2>1
<1>11. PICK o \in Object : where[o] = p /\ p # NULL
  BY <1>7, <1>9, HooksAssumption DEF At, Tokens
<1>12. where'[o] # p
  <2>1. o \notin At(q)
    BY <1>10, <1>11 DEF At
  <2>2. where'[o] = q \o SubSeq(p, Len(p) + 1, Len(p))
    BY <1>7, <1>10, <1>11, <2>1
  <2>3. SubSeq(p, Len(p) + 1, Len(p)) = <<>> /\ q \o <<>> = q
    BY <1>9 DEF Tokens
  <2>. QED  BY <1>10, <2>2, <2>3
<1>13. IsPrefix(p, where[x])
  BY <1>5, <1>7
<1>14. where[x] = p
  <2>1. ~IsStrictPrefix(p, where[x])
    BY <1>5, <1>11, <1>12
  <2>. QED  BY <1>13, <2>1 DEF IsStrictPrefix
<1>15. Text(p) = FullPath(<<>>, TextOf(cwd), name)
  BY <1>2, <1>3, <1>7, FullPathNames
<1>. QED  BY <1>2, <1>3, <1>5, <1>14, <1>15

LEMMA MkdirSpares ==
  ASSUME HInv, NEW t \in Threads, pc[t] = "origin", call[t].kind = "mkdir",
         ~Excused(t), RealCall(t)
  PROVE  Affected(t) \cap seen[t] = {}
<1>. DEFINE name == kernelpath[t][1]
            full == FullPath(<<>>, TextOf(cwd), name)
<1>1. call[t].kind \in ByFullPath
  BY DEF ByFullPath, TypeOf
<1>2. /\ fullpath[t][1] = full
      /\ Read(memory[t][1]) = name /\ name \in Tokens /\ Straight("mkdir", name)
      /\ where[cwd] # <<>> \/ Len(name) <= 2
      /\ where[cwd] \in Spot
      /\ \A o \in seen[t] : where[o] # NULL /\ Text(where[o]) # Judged(t)
  BY <1>1, JudgedPlace
<1>. HIDE DEF name, full
<1>3. PICK n \in Nat : /\ Regular(name, n) /\ Len(name) \in {n, n + 1}
                       /\ Len(name) <= 2 => n = 1
  BY <1>2, StraightRegular
<1>4. SUFFICES ASSUME NEW d \in seen[t], NEW o \in Dirs, where[o] = NULL, where'[o] # NULL,
                      where[d] = Front(where'[o])
               PROVE  FALSE
  BY DEF Affected
<1>5. \/ where' = where
      \/ \E place \in Target(cwd, name), new \in Dirs :
           where[new] = NULL /\ where' = [where EXCEPT ![new] = place]
  <2>1. UNCHANGED tree \/ MakesDir(name)
    BY <1>2 DEF RealCall
  <2>. QED  BY <2>1 DEF MakesDir, tree
<1>6. PICK place \in Target(cwd, name), new \in Dirs :
        where[new] = NULL /\ where' = [where EXCEPT ![new] = place]
  BY <1>4, <1>5
<1>7. where[d] = Front(place)
  <2>1. o = new
    BY <1>4, <1>6
  <2>2. o \in DOMAIN where
    BY HooksAssumption DEF HInv, Typed, TypeOK
  <2>. QED  BY <1>4, <1>6, <2>1, <2>2
<1>8. where[d] # NULL /\ Text(Front(place)) # Judged(t)
  BY <1>2, <1>7
<1>9. TextOf(cwd) \in Tokens
  <2>1. where[cwd] \in Tokens
    BY <1>2, <1>3, <1>6, TargetSpelled
  <2>2. where[cwd] # NULL
    BY <2>1, HooksAssumption DEF Tokens
  <2>. QED  BY <2>1, <2>2, TextType DEF TextOf
<1>10. full # NULL
  <2>1. full \in Tokens
    BY <1>2, <1>9, FullPathIs DEF full
  <2>. QED  BY <2>1, HooksAssumption DEF Tokens
<1>11. Judged(t) = ParentDir(full)
  BY <1>2, <1>10 DEF Judged
<1>12. Text(Front(place)) = ParentDir(full)
  BY <1>2, <1>3, <1>6, ParentNames DEF full
<1>. QED  BY <1>8, <1>11, <1>12

LEMMA ChdirSpares ==
  ASSUME HInv, NEW t \in Threads, pc[t] = "origin", call[t].kind = "chdir",
         ~Excused(t), RealCall(t)
  PROVE  Affected(t) \cap seen[t] = {}
<1>. DEFINE path == kernelpath[t][1]
<1>1. /\ disturbed[t] = {} /\ Straight("chdir", path) /\ Read(memory[t][1]) = path
  BY DEF Excused
<1>2. Judged(t) = path /\ call[t].kind \in DOMAIN TypeOf
  BY DEF Judged, TypeOf
<1>3. ThreadInv(t) /\ Typed
  BY DEF HInv
<1>4. \A o \in seen[t] : where[o] # NULL /\ Text(where[o]) # path
  BY <1>1, <1>2, <1>3 DEF ThreadInv, Weighed
<1>5. path \in Tokens
  BY <1>1, <1>3, NameType
<1>. HIDE DEF path
<1>6. SUFFICES ASSUME NEW d \in seen[t], cwd' = d, cwd # d PROVE FALSE
  BY DEF Affected
<1>7. cwd' = cwd \/ (cwd' \in Dirs /\ where[cwd'] = Walk(cwd, path, path))
  <2>1. UNCHANGED tree \/ ChangesDir(path)
    BY <1>1 DEF RealCall
  <2>. QED  BY <2>1 DEF ChangesDir, tree
<1>8. where[d] = Walk(cwd, path, path) /\ where[d] # NULL
  BY <1>4, <1>6, <1>7
<1>9. Text(where[d]) = path
  BY <1>1, <1>5, <1>8, PathNamesItself
<1>. QED  BY <1>4, <1>9

\* A call that was let through and is not excused leaves what the rules named.
LEMMA OriginSpares ==
  ASSUME HInv, NEW t \in Threads, pc[t] = "origin", call[t].kind \in DOMAIN TypeOf, RealCall(t)
  PROVE  Affected(t) \cap seen[t] = {} \/ Excused(t)
<1>1. call[t].kind \in {"unlink", "unlinkat"} \/ call[t].kind = "rename"
        \/ call[t].kind = "mkdir" \/ call[t].kind = "chdir"
  BY DEF TypeOf
<1>. QED  BY <1>1, UnlinkSpares, RenameSpares, MkdirSpares, ChdirSpares

-----------------------------------------------------------------------------
(* Every step keeps the invariant.                                         *)

\* Pairs of the threads that differ in one place.
Changed(g, f, t, i, x) ==
  /\ Paired(g) /\ g[t][i] = x
  /\ \A j \in 1 .. 2 : j # i => g[t][j] = f[t][j]
  /\ \A u \in Threads \ {t} : g[u] = f[u]

LEMMA PairedExcept ==
  ASSUME NEW f, Paired(f), NEW t \in Threads, NEW i \in 1 .. 2, NEW x
  PROVE  Changed([f EXCEPT ![t][i] = x], f, t, i, x)
BY DEF Paired, Changed

ChangedBoth(g, f, t, x, y) ==
  /\ Paired(g) /\ g[t][1] = x /\ g[t][2] = y
  /\ \A u \in Threads \ {t} : g[u] = f[u]

LEMMA PairedBoth ==
  ASSUME NEW f, Paired(f), NEW t \in Threads, NEW x, NEW y
  PROVE  ChangedBoth([f EXCEPT ![t] = <<x, y>>], f, t, x, y)
<1>. DEFINE g == [f EXCEPT ![t] = <<x, y>>]
<1>1. DOMAIN <<x, y>> = 1 .. 2 /\ <<x, y>>[1] = x /\ <<x, y>>[2] = y
  OBVIOUS
<1>2. g[t] = <<x, y>> /\ DOMAIN g = Threads /\ \A u \in Threads \ {t} : g[u] = f[u]
  BY DEF Paired
<1>3. DOMAIN g[t] = 1 .. 2 /\ g[t][1] = x /\ g[t][2] = y
  BY <1>1, <1>2
<1>4. ChangedBoth(g, f, t, x, y)
  <2>. HIDE DEF g
  <2>. QED  BY <1>2, <1>3 DEF Paired, ChangedBoth
<1>. QED  BY <1>4

\* A thread that stands still.
Same(t) ==
  /\ pc'[t] = pc[t] /\ call'[t] = call[t] /\ arg'[t] = arg[t]
  /\ kernelpath'[t] = kernelpath[t] /\ fullpath'[t] = fullpath[t]
  /\ seen'[t] = seen[t] /\ from'[t] = from[t] /\ disturbed'[t] = disturbed[t]

LEMMA StillKeeps ==
  ASSUME NEW t \in Threads, ThreadInv(t), Same(t), UNCHANGED tree
  PROVE  ThreadInv(t)'
<1>1. where' = where /\ cwd' = cwd /\ TextOf(cwd)' = TextOf(cwd)
  BY DEF tree, TextOf
<1>2. Judged(t)' = Judged(t)
  BY DEF Same, Judged
<1>3. Idle(t)' /\ OneName(t)'
  BY DEF Same, ThreadInv, Idle, OneName
<1>4. Prepared(t)'
  BY <1>1 DEF Same, ThreadInv, Prepared
<1>5. Weighed(t)'
  BY <1>1, <1>2 DEF Same, ThreadInv, Weighed
<1>. QED  BY <1>3, <1>4, <1>5 DEF ThreadInv

LEMMA OneMoves ==
  ASSUME HInv, NEW t \in Threads, Typed', ThreadInv(t)', UNCHANGED tree,
         \A u \in Threads \ {t} : Same(u)
  PROVE  HInv'
<1>1. \A u \in Threads \ {t} : ThreadInv(u)'
  BY StillKeeps DEF HInv
<1>. QED  BY <1>1 DEF HInv

LEMMA NoneMoves ==
  ASSUME HInv, Typed', UNCHANGED tree, \A u \in Threads : Same(u)
  PROVE  HInv'
BY StillKeeps DEF HInv

LEMMA InitInv == Init => HInv
<1>. SUFFICES ASSUME Init PROVE HInv
  OBVIOUS
<1>1. DOMAIN <<NULL, NULL>> = 1 .. 2 /\ <<NULL, NULL>>[1] = NULL /\ <<NULL, NULL>>[2] = NULL
  OBVIOUS
<1>2. \A t \in Threads : memory[t] = <<NULL, NULL>> /\ kernelpath[t] = <<NULL, NULL>>
                         /\ fullpath[t] = <<NULL, NULL>> /\ pc[t] = "idle" /\ arg[t] = 1
  BY DEF Init
<1>3. Paired(memory) /\ Paired(kernelpath) /\ Paired(fullpath) /\ DOMAIN from = Threads
  BY <1>1, <1>2 DEF Init, Paired
<1>4. \A t \in Threads : \A i \in 1 .. 2 :
        memory[t][i] = NULL /\ kernelpath[t][i] = NULL /\ fullpath[t][i] = NULL
  <2>1. \A i \in 1 .. 2 : i = 1 \/ i = 2
    OBVIOUS
  <2>. QED  BY <1>1, <1>2, <2>1
<1>5. TypeOK
  <2>1. DOMAIN where = Object /\ cwd \in Dirs /\ rules \in RuleSets
    BY HooksAssumption DEF Init
  <2>2. NoCall \in [kind : Kinds, dirfd : Dirs \cup {NULL}, removedir : BOOLEAN]
    BY DEF NoCall, Kinds
  <2>3. call \in [Threads -> [kind : Kinds, dirfd : Dirs \cup {NULL}, removedir : BOOLEAN]]
    <3>. HIDE DEF NoCall
    <3>. QED  BY <2>2 DEF Init
  <2>4. /\ pc \in [Threads -> {"idle", "copy", "full", "check", "origin", "free", "dead"}]
        /\ arg \in [Threads -> 1 .. 2] /\ seen \in [Threads -> SUBSET Object]
        /\ disturbed \in [Threads -> SUBSET {"memory", "leftover", "tree"}]
    BY DEF Init
  <2>. QED  BY <1>4, <2>1, <2>3, <2>4 DEF TypeOK
<1>6. Typed
  BY <1>3, <1>5, HooksAssumption DEF Init, Typed, Spot, Tokens
<1>7. ASSUME NEW t \in Threads PROVE ThreadInv(t)
  <2>1. Idle(t) /\ OneName(t)
    BY <1>2, <1>4 DEF Idle, OneName
  <2>2. Prepared(t) /\ Weighed(t)
    BY <1>2 DEF Prepared, Weighed
  <2>. QED  BY <2>1, <2>2 DEF ThreadInv
<1>. QED  BY <1>6, <1>7 DEF HInv

LEMMA SetRulesKeeps == ASSUME HInv, SetRules PROVE HInv'
<1>1. Typed'
  BY DEF HInv, Typed, TypeOK, SetRules, tree, buffers, history, Paired
<1>2. \A u \in Threads : Same(u)
  BY DEF SetRules, Same, buffers, history
<1>. QED  BY <1>1, <1>2, NoneMoves DEF SetRules

LEMMA RewriteKeeps ==
  ASSUME HInv, NEW t \in Threads, NEW i \in 1 .. 2, NEW name \in Names, Rewrite(t, i, name)
  PROVE  HInv'
<1>1. /\ Paired(memory') /\ memory'[t][i] = name
      /\ \A j \in 1 .. 2 : j # i => memory'[t][j] = memory[t][j]
      /\ \A u \in Threads \ {t} : memory'[u] = memory[u]
  <2>1. Paired(memory) /\ memory' = [memory EXCEPT ![t][i] = name]
    BY DEF HInv, Typed, Rewrite
  <2>2. Changed([memory EXCEPT ![t][i] = name], memory, t, i, name)
    BY <2>1, PairedExcept
  <2>3. Changed(memory', memory, t, i, name)
    BY <2>1, <2>2
  <2>. QED  BY <2>3 DEF Changed
<1>2. \A u \in Threads : \A j \in 1 .. 2 : memory'[u][j] \in Names \cup NewNames \cup {NULL}
  BY <1>1 DEF HInv, Typed, TypeOK
<1>3. Typed'
  BY <1>1, <1>2 DEF HInv, Typed, TypeOK, Rewrite, tree, buffers, history, Paired
<1>4. \A u \in Threads : Same(u)
  BY DEF Rewrite, Same, buffers, history
<1>. QED  BY <1>3, <1>4, NoneMoves DEF Rewrite

LEMMA BeginKeeps ==
  ASSUME HInv, NEW t \in Threads, NEW kind \in Calls, NEW name \in Names \cup {NULL},
         NEW new \in NewNames \cup {NULL}, NEW dirfd \in Dirs \cup {NULL},
         NEW removedir \in BOOLEAN, Begin(t, kind, name, new, dirfd, removedir)
  PROVE  HInv'
<1>. DEFINE place == IF kind \in DOMAIN TypeOf THEN "copy" ELSE "origin"
            c == [kind |-> kind, dirfd |-> dirfd, removedir |-> removedir]
<1>1. /\ Paired(memory') /\ memory'[t][1] = name /\ memory'[t][2] = new
      /\ \A u \in Threads \ {t} : memory'[u] = memory[u]
  <2>1. Paired(memory) /\ memory' = [memory EXCEPT ![t] = <<name, new>>]
    BY DEF HInv, Typed, Begin
  <2>2. ChangedBoth([memory EXCEPT ![t] = <<name, new>>], memory, t, name, new)
    BY <2>1, PairedBoth
  <2>3. ChangedBoth(memory', memory, t, name, new)
    BY <2>1, <2>2
  <2>. QED  BY <2>3 DEF ChangedBoth
<1>2. \A u \in Threads : \A j \in 1 .. 2 : memory'[u][j] \in Names \cup NewNames \cup {NULL}
  <2>1. \A j \in 1 .. 2 : j = 1 \/ j = 2
    OBVIOUS
  <2>. QED  BY <1>1, <2>1 DEF HInv, Typed, TypeOK
<1>3. /\ pc \in [Threads -> {"idle", "copy", "full", "check", "origin", "free", "dead"}]
      /\ call \in [Threads -> [kind : Kinds, dirfd : Dirs \cup {NULL}, removedir : BOOLEAN]]
  BY DEF HInv, Typed, TypeOK
<1>4. c \in [kind : Kinds, dirfd : Dirs \cup {NULL}, removedir : BOOLEAN]
  BY HooksAssumption
<1>5. place \in {"copy", "origin"} /\ (place = "copy" <=> kind \in DOMAIN TypeOf)
  OBVIOUS
<1>6. /\ pc' = [pc EXCEPT ![t] = place] /\ call' = [call EXCEPT ![t] = c] /\ c.kind = kind
      /\ pc[t] = "idle"
      /\ UNCHANGED <<where, cwd, rules, arg, kernelpath, fullpath, seen, from, disturbed>>
  BY DEF Begin, Goto, tree, buffers, history
<1>. HIDE DEF place, c
<1>7. /\ pc' \in [Threads -> {"idle", "copy", "full", "check", "origin", "free", "dead"}]
      /\ call' \in [Threads -> [kind : Kinds, dirfd : Dirs \cup {NULL}, removedir : BOOLEAN]]
      /\ pc'[t] = place /\ call'[t] = c
      /\ \A u \in Threads \ {t} : pc'[u] = pc[u] /\ call'[u] = call[u]
  BY <1>3, <1>4, <1>5, <1>6
<1>8. Typed'
  BY <1>1, <1>2, <1>6, <1>7 DEF HInv, Typed, TypeOK, Paired
<1>9. ThreadInv(t)'
  <2>1. arg'[t] = 1
    BY <1>6 DEF HInv, ThreadInv, Idle
  <2>2. Idle(t)' /\ OneName(t)'
    BY <1>5, <1>7, <2>1 DEF Idle, OneName
  <2>3. Prepared(t)'
    <3>1. ByFullPath \subseteq DOMAIN TypeOf
      BY DEF ByFullPath
    <3>. QED  BY <1>5, <1>6, <1>7, <2>1, <3>1 DEF Prepared
  <2>4. Weighed(t)'
    BY <1>5, <1>6, <1>7 DEF Weighed
  <2>. QED  BY <2>2, <2>3, <2>4 DEF ThreadInv
<1>10. \A u \in Threads \ {t} : Same(u)
  BY <1>6, <1>7 DEF Same
<1>. QED  BY <1>6, <1>8, <1>9, <1>10, OneMoves DEF tree

LEMMA CallBeginsKeeps == ASSUME HInv, NEW t \in Threads, CallBegins(t) PROVE HInv'
<1>1. PICK kind \in Calls, name \in Names \cup {NULL} :
        IF kind = "unlinkat"
        THEN \E dirfd \in DirFds, removedir \in BOOLEAN :
               Begin(t, kind, name, NULL, dirfd, removedir)
        ELSE IF kind \in {"rename", "renameat"}
        THEN \E newName \in NewNames : Begin(t, kind, name, newName, NULL, FALSE)
        ELSE Begin(t, kind, name, NULL, NULL, FALSE)
  BY DEF CallBegins
<1>2. NULL \in NewNames \cup {NULL} /\ NULL \in Dirs \cup {NULL} /\ FALSE \in BOOLEAN
  OBVIOUS
<1>3. CASE \E dirfd \in DirFds, removedir \in BOOLEAN : Begin(t, kind, name, NULL, dirfd, removedir)
  <2>1. PICK dirfd \in DirFds, removedir \in BOOLEAN : Begin(t, kind, name, NULL, dirfd, removedir)
    BY <1>3
  <2>2. dirfd \in Dirs \cup {NULL}
    BY HooksAssumption
  <2>. QED  BY <1>2, <2>1, <2>2, BeginKeeps
<1>4. CASE \E newName \in NewNames : Begin(t, kind, name, newName, NULL, FALSE)
  <2>1. PICK newName \in NewNames : Begin(t, kind, name, newName, NULL, FALSE)
    BY <1>4
  <2>. QED  BY <1>2, <2>1, BeginKeeps
<1>5. CASE Begin(t, kind, name, NULL, NULL, FALSE)
  BY <1>2, <1>5, BeginKeeps
<1>. QED  BY <1>1, <1>3, <1>4, <1>5

Places == {"idle", "copy", "full", "check", "origin", "free", "dead"}
Upsets == {"memory", "leftover", "tree"}

LEMMA Moves ==
  ASSUME Typed, NEW t \in Threads, NEW place \in Places, Goto(t, place)
  PROVE  /\ pc' \in [Threads -> Places] /\ pc'[t] = place
         /\ \A u \in Threads \ {t} : pc'[u] = pc[u]
BY DEF Typed, TypeOK, Goto, Places

LEMMA Disturbs ==
  ASSUME Typed, NEW t \in Threads, NEW what \in Upsets, Disturb(t, what)
  PROVE  /\ disturbed' \in [Threads -> SUBSET Upsets] /\ disturbed'[t] # {}
         /\ \A u \in Threads \ {t} : disturbed'[u] = disturbed[u]
<1>1. disturbed \in [Threads -> SUBSET Upsets]
  BY DEF Typed, TypeOK, Upsets
<1>2. disturbed[t] \cup {what} \in SUBSET Upsets /\ disturbed[t] \cup {what} # {}
  BY <1>1
<1>. QED  BY <1>1, <1>2 DEF Disturb

LEMMA AfterCopy ==
  ASSUME NEW t \in Threads, NEW place,
         place = IF call[t].kind = "rmdir" THEN "free"
                 ELSE IF call[t].kind = "chdir" THEN "check" ELSE "full"
  PROVE  place \in {"free", "check", "full"} /\ (place = "check" => call[t].kind = "chdir")
OBVIOUS

LEMMA CopyNameKeeps == ASSUME HInv, NEW t \in Threads, CopyName(t) PROVE HInv'
<1>. DEFINE i == arg[t]
            other == IF Threads = {t} THEN {memory[t][i]} ELSE Names \cup {memory[t][i]}
            place == IF call[t].kind = "rmdir" THEN "free"
                     ELSE IF call[t].kind = "chdir" THEN "check" ELSE "full"
<1>1. /\ pc[t] = "copy" /\ Goto(t, place)
      /\ UNCHANGED <<tree, rules, call, arg, fullpath, seen, from, disturbed>>
  BY DEF CopyName, history
<1>2. /\ Typed /\ ThreadInv(t) /\ Paired(memory) /\ Paired(kernelpath)
      /\ i \in 1 .. 2 /\ memory[t][i] \in Names \cup NewNames \cup {NULL}
  BY DEF HInv, Typed, TypeOK
<1>3. PICK now \in other :
        \E text \in Torn(memory[t][i], now) :
          /\ memory' = [memory EXCEPT ![t][i] = now]
          /\ kernelpath' = [kernelpath EXCEPT ![t][i] = Read(text)]
  BY DEF CopyName
<1>4. PICK text : /\ memory' = [memory EXCEPT ![t][i] = now]
                  /\ kernelpath' = [kernelpath EXCEPT ![t][i] = Read(text)]
  BY <1>3
<1>5. now \in Names \cup NewNames \cup {NULL}
  BY <1>2
<1>6. place \in {"free", "check", "full"} /\ (place = "check" => call[t].kind = "chdir")
  BY AfterCopy
<1>. HIDE DEF i, other, place
<1>7. Changed(memory', memory, t, i, now) /\ Changed(kernelpath', kernelpath, t, i, Read(text))
  <2>1. Changed([memory EXCEPT ![t][i] = now], memory, t, i, now)
    BY <1>2, PairedExcept
  <2>2. Changed([kernelpath EXCEPT ![t][i] = Read(text)], kernelpath, t, i, Read(text))
    BY <1>2, PairedExcept
  <2>. QED  BY <1>4, <2>1, <2>2
<1>8. /\ pc' \in [Threads -> Places] /\ pc'[t] = place
      /\ \A u \in Threads \ {t} : pc'[u] = pc[u]
  <2>1. place \in Places
    BY <1>6 DEF Places
  <2>. QED  BY <1>1, <1>2, <2>1, Moves
<1>9. Typed'
  <2>1. \A u \in Threads : \A j \in 1 .. 2 : memory'[u][j] \in Names \cup NewNames \cup {NULL}
    BY <1>2, <1>5, <1>7 DEF Changed, Typed, TypeOK
  <2>2. Paired(memory') /\ Paired(kernelpath')
    BY <1>7 DEF Changed
  <2>. QED  BY <1>1, <1>2, <1>8, <2>1, <2>2 DEF Typed, TypeOK, Places, tree, Paired
<1>10. ThreadInv(t)'
  <2>1. Idle(t)' /\ Weighed(t)'
    BY <1>6, <1>8 DEF Idle, Weighed
  <2>2. OneName(t)'
    BY <1>1, <1>2 DEF ThreadInv, OneName
  <2>3. Prepared(t)'
    <3>1. SUFFICES ASSUME call[t].kind \in ByFullPath, disturbed[t] = {}, i = 2
                   PROVE  /\ from[t] = where[cwd]
                          /\ fullpath[t][1] = FullPath(<<>>, TextOf(cwd), kernelpath'[t][1])
      <4>1. TextOf(cwd)' = TextOf(cwd) /\ where' = where /\ cwd' = cwd
        BY <1>1 DEF TextOf, tree
      <4>2. "chdir" \notin ByFullPath
        BY DEF ByFullPath
      <4>. QED  BY <1>1, <1>6, <1>8, <4>1, <4>2 DEF Prepared, i
    <3>2. kernelpath'[t][1] = kernelpath[t][1]
      BY <1>7, <3>1 DEF Changed
    <3>. QED  BY <1>1, <1>2, <3>1, <3>2 DEF ThreadInv, Prepared, i
  <2>. QED  BY <2>1, <2>2, <2>3 DEF ThreadInv
<1>11. \A u \in Threads \ {t} : Same(u)
  BY <1>1, <1>7, <1>8 DEF Same, Changed
<1>. QED  BY <1>1, <1>9, <1>10, <1>11, OneMoves DEF tree

LEMMA CopyFailsKeeps == ASSUME HInv, NEW t \in Threads, CopyFails(t) PROVE HInv'
<1>. DEFINE place == IF call[t].kind = "rmdir" THEN "free"
                     ELSE IF call[t].kind = "chdir" THEN "check" ELSE "full"
<1>1. /\ pc[t] = "copy" /\ Goto(t, place) /\ Disturb(t, "memory")
      /\ UNCHANGED <<tree, rules, memory, call, arg, kernelpath, fullpath, seen, from>>
  BY DEF CopyFails, buffers
<1>2. Typed /\ ThreadInv(t)
  BY DEF HInv
<1>3. place \in {"free", "check", "full"}
  BY AfterCopy
<1>. HIDE DEF place
<1>4. /\ pc' \in [Threads -> Places] /\ pc'[t] = place
      /\ \A u \in Threads \ {t} : pc'[u] = pc[u]
  <2>1. place \in Places
    BY <1>3 DEF Places
  <2>. QED  BY <1>1, <1>2, <2>1, Moves
<1>5. /\ disturbed' \in [Threads -> SUBSET Upsets] /\ disturbed'[t] # {}
      /\ \A u \in Threads \ {t} : disturbed'[u] = disturbed[u]
  <2>1. "memory" \in Upsets
    BY DEF Upsets
  <2>. QED  BY <1>1, <1>2, <2>1, Disturbs
<1>6. Typed'
  BY <1>1, <1>2, <1>4, <1>5 DEF Typed, TypeOK, Places, Upsets, tree, Paired
<1>7. ThreadInv(t)'
  <2>1. Idle(t)' /\ Weighed(t)' /\ Prepared(t)'
    BY <1>3, <1>4, <1>5 DEF Idle, Weighed, Prepared
  <2>2. OneName(t)'
    BY <1>1, <1>2 DEF ThreadInv, OneName
  <2>. QED  BY <2>1, <2>2 DEF ThreadInv
<1>8. \A u \in Threads \ {t} : Same(u)
  BY <1>1, <1>4, <1>5 DEF Same
<1>. QED  BY <1>1, <1>6, <1>7, <1>8, OneMoves DEF tree

\* To the name after this one, or to the check.
LEMMA NextIs ==
  ASSUME Typed, NEW t \in Threads, NextName(t), OneName(t), UNCHANGED call
  PROVE  /\ arg' \in [Threads -> 1 .. 2] /\ pc' \in [Threads -> Places] /\ OneName(t)'
         /\ pc'[t] \in {"copy", "check"} /\ (pc'[t] = "copy" => arg[t] = 1)
         /\ \A u \in Threads \ {t} : arg'[u] = arg[u] /\ pc'[u] = pc[u]
<1>1. arg \in [Threads -> 1 .. 2] /\ "copy" \in Places /\ "check" \in Places
  BY DEF Typed, TypeOK, Places
<1>2. CASE call[t].kind = "rename" /\ arg[t] = 1
  <2>1. arg' = [arg EXCEPT ![t] = 2] /\ Goto(t, "copy")
    BY <1>2 DEF NextName
  <2>2. /\ pc' \in [Threads -> Places] /\ pc'[t] = "copy"
        /\ \A u \in Threads \ {t} : pc'[u] = pc[u]
    BY <1>1, <2>1, Moves
  <2>3. /\ arg' \in [Threads -> 1 .. 2] /\ \A u \in Threads \ {t} : arg'[u] = arg[u]
    BY <1>1, <2>1
  <2>4. OneName(t)'
    BY <1>2 DEF OneName
  <2>. QED  BY <1>2, <2>2, <2>3, <2>4
<1>3. CASE ~(call[t].kind = "rename" /\ arg[t] = 1)
  <2>1. arg' = arg /\ Goto(t, "check")
    BY <1>3 DEF NextName
  <2>2. /\ pc' \in [Threads -> Places] /\ pc'[t] = "check"
        /\ \A u \in Threads \ {t} : pc'[u] = pc[u]
    BY <1>1, <2>1, Moves
  <2>3. OneName(t)'
    BY <2>1 DEF OneName
  <2>. QED  BY <1>1, <2>1, <2>2, <2>3
<1>. QED  BY <1>2, <1>3

LEMMA FullNameKeeps == ASSUME HInv, NEW t \in Threads, FullName(t) PROVE HInv'
<1>. DEFINE i == arg[t]
<1>1. /\ pc[t] = "full" /\ NextName(t) /\ from' = (IF i = 1 THEN [from EXCEPT ![t] = where[cwd]] ELSE from)
      /\ UNCHANGED <<tree, rules, memory, call, kernelpath, seen>>
  BY DEF FullName
<1>2. /\ Typed /\ ThreadInv(t) /\ Paired(fullpath) /\ i \in 1 .. 2 /\ DOMAIN from = Threads
  BY DEF HInv, Typed, TypeOK
<1>3. PICK left \in Leftovers :
        /\ fullpath' = [fullpath EXCEPT ![t][i] = FullPath(left, TextOf(cwd), kernelpath[t][i])]
        /\ IF left = <<>> THEN UNCHANGED disturbed ELSE Disturb(t, "leftover")
  BY DEF FullName
<1>. DEFINE text == FullPath(left, TextOf(cwd), kernelpath[t][i])
<1>4. Changed(fullpath', fullpath, t, i, text)
  <2>. HIDE DEF i, text
  <2>1. Changed([fullpath EXCEPT ![t][i] = text], fullpath, t, i, text)
    BY <1>2, PairedExcept
  <2>2. fullpath' = [fullpath EXCEPT ![t][i] = text]
    BY <1>3 DEF text
  <2>. QED  BY <2>1, <2>2
<1>5. /\ arg' \in [Threads -> 1 .. 2] /\ pc' \in [Threads -> Places] /\ OneName(t)'
      /\ pc'[t] \in {"copy", "check"} /\ (pc'[t] = "copy" => arg[t] = 1)
      /\ \A u \in Threads \ {t} : arg'[u] = arg[u] /\ pc'[u] = pc[u]
  BY <1>1, <1>2, NextIs DEF ThreadInv
<1>6. /\ disturbed' \in [Threads -> SUBSET Upsets]
      /\ disturbed'[t] = {} => left = <<>> /\ disturbed[t] = {}
      /\ \A u \in Threads \ {t} : disturbed'[u] = disturbed[u]
  <2>1. CASE left = <<>>
    BY <1>2, <1>3, <2>1 DEF Typed, TypeOK, Upsets
  <2>2. CASE left # <<>>
    <3>1. "leftover" \in Upsets /\ Disturb(t, "leftover")
      BY <1>3, <2>2 DEF Upsets
    <3>. QED  BY <1>2, <3>1, Disturbs
  <2>. QED  BY <2>1, <2>2
<1>7. /\ from'[t] = (IF i = 1 THEN where[cwd] ELSE from[t]) /\ DOMAIN from' = Threads
      /\ \A u \in Threads \ {t} : from'[u] = from[u]
  BY <1>1, <1>2
<1>8. Typed'
  <2>1. Paired(fullpath')
    BY <1>4 DEF Changed
  <2>. QED  BY <1>1, <1>2, <1>5, <1>6, <1>7, <2>1 DEF Typed, TypeOK, Places, Upsets, tree, Paired
<1>9. ThreadInv(t)'
  <2>1. Idle(t)' /\ Weighed(t)'
    BY <1>5 DEF Idle, Weighed
  <2>2. Prepared(t)'
    <3>1. SUFFICES ASSUME call[t].kind \in ByFullPath, disturbed'[t] = {}
                   PROVE  /\ from'[t] = where[cwd]
                          /\ fullpath'[t][1] = FullPath(<<>>, TextOf(cwd), kernelpath[t][1])
      <4>1. TextOf(cwd)' = TextOf(cwd) /\ where' = where /\ cwd' = cwd
        BY <1>1 DEF TextOf, tree
      <4>. QED  BY <1>1, <4>1 DEF Prepared
    <3>2. left = <<>> /\ disturbed[t] = {}
      BY <1>6, <3>1
    <3>3. CASE i = 1
      BY <1>4, <1>7, <3>2, <3>3 DEF Changed
    <3>4. CASE i = 2
      <4>1. fullpath'[t][1] = fullpath[t][1]
        <5>. HIDE DEF text, i
        <5>. QED  BY <1>4, <3>4 DEF Changed
      <4>. QED  BY <1>1, <1>2, <1>7, <3>1, <3>2, <3>4, <4>1 DEF ThreadInv, Prepared
    <3>. QED  BY <1>2, <3>3, <3>4
  <2>. QED  BY <1>5, <2>1, <2>2 DEF ThreadInv
<1>10. \A u \in Threads \ {t} : Same(u)
  <2>. HIDE DEF text, i
  <2>. QED  BY <1>1, <1>4, <1>5, <1>6, <1>7 DEF Same, Changed
<1>. QED  BY <1>1, <1>8, <1>9, <1>10, OneMoves DEF tree

LEMMA FullFailsKeeps == ASSUME HInv, NEW t \in Threads, FullFails(t) PROVE HInv'
<1>. DEFINE i == arg[t]
<1>1. /\ pc[t] = "full" /\ NextName(t) /\ Disturb(t, "memory")
      /\ UNCHANGED <<tree, rules, memory, call, kernelpath, seen, from>>
  BY DEF FullFails
<1>2. Typed /\ ThreadInv(t) /\ Paired(fullpath) /\ i \in 1 .. 2
  BY DEF HInv, Typed, TypeOK
<1>3. PICK text : fullpath' = [fullpath EXCEPT ![t][i] = text]
  BY DEF FullFails
<1>. HIDE DEF i
<1>4. Changed(fullpath', fullpath, t, i, text)
  <2>1. Changed([fullpath EXCEPT ![t][i] = text], fullpath, t, i, text)
    BY <1>2, PairedExcept
  <2>. QED  BY <1>3, <2>1
<1>5. /\ arg' \in [Threads -> 1 .. 2] /\ pc' \in [Threads -> Places] /\ OneName(t)'
      /\ pc'[t] \in {"copy", "check"}
      /\ \A u \in Threads \ {t} : arg'[u] = arg[u] /\ pc'[u] = pc[u]
  BY <1>1, <1>2, NextIs DEF ThreadInv
<1>6. /\ disturbed' \in [Threads -> SUBSET Upsets] /\ disturbed'[t] # {}
      /\ \A u \in Threads \ {t} : disturbed'[u] = disturbed[u]
  <2>1. "memory" \in Upsets
    BY DEF Upsets
  <2>. QED  BY <1>1, <1>2, <2>1, Disturbs
<1>7. Typed'
  <2>1. Paired(fullpath')
    BY <1>4 DEF Changed
  <2>. QED  BY <1>1, <1>2, <1>5, <1>6, <2>1 DEF Typed, TypeOK, Places, Upsets, tree, Paired
<1>8. ThreadInv(t)'
  BY <1>5, <1>6 DEF ThreadInv, Idle, Weighed, Prepared
<1>9. \A u \in Threads \ {t} : Same(u)
  BY <1>1, <1>4, <1>5, <1>6 DEF Same, Changed
<1>. QED  BY <1>1, <1>7, <1>8, <1>9, OneMoves DEF tree

\* Both faults.
LEMMA FaultKeeps ==
  ASSUME HInv, NEW t \in Threads, Goto(t, "dead"),
         UNCHANGED <<tree, rules, memory, call, arg, buffers, history>>
  PROVE  HInv'
<1>1. Typed /\ ThreadInv(t)
  BY DEF HInv
<1>2. /\ pc' \in [Threads -> Places] /\ pc'[t] = "dead"
      /\ \A u \in Threads \ {t} : pc'[u] = pc[u]
  <2>1. "dead" \in Places
    BY DEF Places
  <2>. QED  BY <1>1, <2>1, Moves
<1>3. Typed'
  BY <1>1, <1>2 DEF Typed, TypeOK, Places, tree, buffers, history, Paired
<1>4. ThreadInv(t)'
  BY <1>1, <1>2 DEF ThreadInv, Idle, OneName, Prepared, Weighed
<1>5. \A u \in Threads \ {t} : Same(u)
  BY <1>2 DEF Same, buffers, history
<1>. QED  BY <1>3, <1>4, <1>5, OneMoves

LEMMA CheckKeeps == ASSUME HInv, NEW t \in Threads, Check(t) PROVE HInv'
<1>. DEFINE T == TypeOf[call[t].kind]
            objects == {o \in Object : where[o] # NULL /\ Forbidden(where[o], T)}
            place == IF IsPathProtected(Judged(t), T) THEN "free" ELSE "origin"
<1>1. /\ pc[t] = "check" /\ Goto(t, place) /\ seen' = [seen EXCEPT ![t] = objects]
      /\ UNCHANGED <<tree, rules, memory, call, arg, kernelpath, fullpath, from, disturbed>>
  BY DEF Check, buffers
<1>2. Typed /\ ThreadInv(t)
  BY DEF HInv
<1>3. ASSUME place = "origin", NEW o \in objects
      PROVE  where[o] # NULL /\ Text(where[o]) # Judged(t)
  <2>1. [path |-> Text(where[o]), type |-> T] \in rules /\ where[o] # NULL
    BY DEF Forbidden
  <2>2. ~IsPathProtected(Judged(t), T)
    BY <1>3
  <2>. DEFINE rule == [path |-> Text(where[o]), type |-> T]
  <2>3. rule.path = Text(where[o]) /\ rule.type = T /\ rule \in rules
    BY <2>1
  <2>. HIDE DEF rule, T
  <2>. QED  BY <2>1, <2>2, <2>3 DEF IsPathProtected
<1>4. place \in {"free", "origin"} /\ objects \in SUBSET Object
  OBVIOUS
<1>. HIDE DEF place, objects
<1>5. /\ pc' \in [Threads -> Places] /\ pc'[t] = place
      /\ \A u \in Threads \ {t} : pc'[u] = pc[u]
  <2>1. place \in Places
    BY <1>4 DEF Places
  <2>. QED  BY <1>1, <1>2, <2>1, Moves
<1>6. /\ seen' \in [Threads -> SUBSET Object] /\ seen'[t] = objects
      /\ \A u \in Threads \ {t} : seen'[u] = seen[u]
  BY <1>1, <1>2, <1>4 DEF Typed, TypeOK
<1>7. Typed'
  BY <1>1, <1>2, <1>5, <1>6 DEF Typed, TypeOK, Places, tree, Paired
<1>8. ThreadInv(t)'
  <2>1. TextOf(cwd)' = TextOf(cwd) /\ where' = where /\ cwd' = cwd /\ Judged(t)' = Judged(t)
    BY <1>1 DEF TextOf, tree, Judged
  <2>2. Idle(t)' /\ OneName(t)'
    BY <1>1, <1>2, <1>4, <1>5 DEF ThreadInv, Idle, OneName
  <2>3. Prepared(t)'
    BY <1>1, <1>2, <1>4, <1>5, <2>1 DEF ThreadInv, Prepared
  <2>4. Weighed(t)'
    BY <1>3, <1>5, <1>6, <2>1 DEF Weighed
  <2>. QED  BY <2>2, <2>3, <2>4 DEF ThreadInv
<1>9. \A u \in Threads \ {t} : Same(u)
  BY <1>1, <1>5, <1>6 DEF Same
<1>. QED  BY <1>1, <1>7, <1>8, <1>9, OneMoves DEF tree

\* The kernel's own calls leave a tree.
LEMMA RealCallTyped ==
  ASSUME Typed, NEW t \in Threads, RealCall(t)
  PROVE  where' \in [Object -> Spot] /\ cwd' \in Dirs
<1>. DEFINE name == Read(memory[t][1])
            new == Read(memory[t][2])
            dir == IF call[t].dirfd = NULL THEN cwd ELSE call[t].dirfd
<1>1. name \in Tokens /\ new \in Tokens
  <2>1. 1 \in 1 .. 2 /\ 2 \in 1 .. 2
    OBVIOUS
  <2>. QED  BY <2>1, NameType
<1>2. /\ where \in [Object -> Spot] /\ cwd \in Dirs /\ Dirs \subseteq Object
      /\ NULL \in Spot /\ <<>> \in Spot
  BY HooksAssumption DEF Typed, TypeOK, Spot, Tokens
<1>3. dir \in Dirs
  BY DEF Typed, TypeOK
<1>. HIDE DEF name, new, dir
<1>4. ASSUME NEW at \in Dirs, NEW text \in Tokens, NEW place \in Target(at, text)
      PROVE  place \in Tokens
  <2>1. where[at] \in Spot
    BY <1>2
  <2>2. Start(at, text) \in Spot
    BY <1>2, <2>1 DEF Start
  <2>. QED  BY <1>4, <2>2, TargetIs
<1>5. CASE UNCHANGED tree
  BY <1>2, <1>5 DEF tree
<1>6. CASE \E asDir : Removes(dir, name, asDir)
  <2>1. cwd' = cwd /\ \E o : where' = [where EXCEPT ![o] = NULL]
    BY <1>6 DEF Removes
  <2>. QED  BY <1>2, <2>1
<1>7. CASE MakesDir(name)
  <2>1. PICK place \in Target(cwd, name), o \in Dirs : where' = [where EXCEPT ![o] = place] /\ cwd' = cwd
    BY <1>7 DEF MakesDir
  <2>2. place \in Spot
    BY <1>1, <1>2, <1>4 DEF Spot
  <2>. QED  BY <1>2, <2>1, <2>2
<1>8. CASE Renames(name, new)
  <2>1. PICK p \in Target(cwd, name), q \in Target(cwd, new) :
          /\ where' = [x \in Object |->
                         IF where[x] = NULL \/ x \in At(q) THEN NULL
                         ELSE IF IsPrefix(p, where[x])
                         THEN q \o SubSeq(where[x], Len(p) + 1, Len(where[x]))
                         ELSE where[x]]
          /\ cwd' = cwd
    BY <1>8 DEF Renames
  <2>2. p \in Tokens /\ q \in Tokens /\ Len(p) + 1 \in Nat
    BY <1>1, <1>2, <1>4 DEF Tokens
  <2>3. ASSUME NEW x \in Object, where[x] # NULL
        PROVE  q \o SubSeq(where[x], Len(p) + 1, Len(where[x])) \in Tokens
    <3>. DEFINE s == where[x]
                k == Len(p) + 1
    <3>1. s \in Tokens /\ k \in 1 .. k
      BY <1>2, <2>2, <2>3 DEF Spot, Tokens
    <3>. HIDE DEF s, k
    <3>2. k \in Nat /\ k >= 1
      BY <2>2 DEF k, Tokens
    <3>3. SubSeq(s, k, Len(s)) \in Tokens
      BY <3>1, <3>2 DEF Tokens
    <3>4. q \o SubSeq(s, k, Len(s)) \in Tokens
      BY <2>2, <3>3, Joined
    <3>. QED  BY <3>4 DEF s, k
  <2>4. ASSUME NEW x \in Object
        PROVE  (IF where[x] = NULL \/ x \in At(q) THEN NULL
                ELSE IF IsPrefix(p, where[x])
                THEN q \o SubSeq(where[x], Len(p) + 1, Len(where[x]))
                ELSE where[x]) \in Spot
    <3>. DEFINE moved == q \o SubSeq(where[x], Len(p) + 1, Len(where[x]))
    <3>1. where[x] \in Spot /\ NULL \in Spot /\ (where[x] # NULL => moved \in Spot)
      BY <1>2, <2>3 DEF Spot
    <3>. HIDE DEF moved
    <3>2. (IF where[x] = NULL \/ x \in At(q) THEN NULL
           ELSE IF IsPrefix(p, where[x]) THEN moved ELSE where[x]) \in Spot
      BY ONLY <3>1
    <3>. QED  BY <3>2 DEF moved
  <2>5. where' \in [Object -> Spot]
    BY ONLY <2>1, <2>4
  <2>. QED  BY <1>2, <2>1, <2>5
<1>9. CASE ChangesDir(name)
  BY <1>2, <1>9 DEF ChangesDir
<1>. QED  BY <1>5, <1>6, <1>7, <1>8, <1>9 DEF RealCall, name, new, dir

LEMMA OriginKeeps == ASSUME HInv, NEW t \in Threads, Origin(t) PROVE HInv'
<1>. DEFINE place == IF call[t].kind = "rmdir" THEN "copy" ELSE "free"
            moved(u) == u # t /\ pc[u] \notin {"idle", "dead"} /\ tree' # tree
<1>1. /\ pc[t] = "origin" /\ RealCall(t) /\ Goto(t, place)
      /\ disturbed' = [u \in Threads |->
                         IF moved(u) THEN disturbed[u] \cup {"tree"} ELSE disturbed[u]]
      /\ UNCHANGED <<rules, memory, call, arg, kernelpath, fullpath, seen, from>>
  BY DEF Origin, buffers
<1>2. Typed /\ \A u \in Threads : ThreadInv(u)
  BY DEF HInv
<1>3. place \in {"copy", "free"} /\ (place = "copy" => call[t].kind = "rmdir")
  OBVIOUS
<1>. HIDE DEF place
<1>4. /\ pc' \in [Threads -> Places] /\ pc'[t] = place
      /\ \A u \in Threads \ {t} : pc'[u] = pc[u]
  <2>1. place \in Places
    BY <1>3 DEF Places
  <2>. QED  BY <1>1, <1>2, <2>1, Moves
<1>5. where' \in [Object -> Spot] /\ cwd' \in Dirs
  BY <1>1, <1>2, RealCallTyped
<1>6. \A u \in Threads : /\ disturbed'[u] \in SUBSET Upsets
                         /\ disturbed'[u] = {} => ~moved(u) /\ disturbed[u] = {}
  <2>1. disturbed \in [Threads -> SUBSET Upsets]
    BY <1>2 DEF Typed, TypeOK, Upsets
  <2>2. \A u \in Threads : disturbed'[u] = IF moved(u) THEN disturbed[u] \cup {"tree"} ELSE disturbed[u]
    BY <1>1
  <2>. HIDE DEF moved
  <2>. QED  BY <2>1, <2>2 DEF Upsets
<1>7. Typed'
  <2>1. disturbed' \in [Threads -> SUBSET Upsets]
    BY <1>1, <1>6
  <2>2. DOMAIN where' = Object
    BY <1>5
  <2>. QED  BY <1>1, <1>2, <1>4, <1>5, <2>1, <2>2 DEF Typed, TypeOK, Places, Upsets, Paired
<1>8. ThreadInv(t)'
  <2>1. Idle(t)' /\ Weighed(t)'
    BY <1>3, <1>4 DEF Idle, Weighed
  <2>2. OneName(t)'
    BY <1>1, <1>2 DEF ThreadInv, OneName
  <2>3. Prepared(t)'
    <3>1. "rmdir" \notin ByFullPath
      BY DEF ByFullPath, TypeOf
    <3>. QED  BY <1>1, <1>3, <1>4, <3>1 DEF Prepared
  <2>. QED  BY <2>1, <2>2, <2>3 DEF ThreadInv
<1>9. ASSUME NEW u \in Threads \ {t} PROVE ThreadInv(u)'
  <2>1. /\ pc'[u] = pc[u] /\ call'[u] = call[u] /\ arg'[u] = arg[u]
        /\ kernelpath'[u] = kernelpath[u] /\ fullpath'[u] = fullpath[u]
        /\ seen'[u] = seen[u] /\ from'[u] = from[u]
    BY <1>1, <1>4
  <2>2. CASE tree' = tree
    <3>1. disturbed'[u] = disturbed[u]
      BY <1>1, <2>2
    <3>2. Same(u)
      BY <2>1, <3>1 DEF Same
    <3>. QED  BY <1>2, <2>2, <3>2, StillKeeps
  <2>3. CASE tree' # tree
    <3>1. Idle(u)' /\ OneName(u)'
      BY <1>2, <2>1 DEF ThreadInv, Idle, OneName
    <3>2. disturbed'[u] = {} => pc[u] \in {"idle", "dead"}
      BY <1>6, <2>3
    <3>3. Prepared(u)' /\ Weighed(u)'
      BY <2>1, <3>2 DEF Prepared, Weighed
    <3>. QED  BY <3>1, <3>3 DEF ThreadInv
  <2>. QED  BY <2>2, <2>3
<1>. QED  BY <1>7, <1>8, <1>9 DEF HInv

LEMMA FinishKeeps == ASSUME HInv, NEW t \in Threads, Finish(t) PROVE HInv'
<1>1. /\ pc[t] = "free" /\ Goto(t, "idle")
      /\ kernelpath' = [kernelpath EXCEPT ![t] = <<NULL, NULL>>]
      /\ fullpath' = [fullpath EXCEPT ![t] = <<NULL, NULL>>]
      /\ memory' = [memory EXCEPT ![t] = <<NULL, NULL>>]
      /\ call' = [call EXCEPT ![t] = NoCall] /\ arg' = [arg EXCEPT ![t] = 1]
      /\ seen' = [seen EXCEPT ![t] = {}] /\ from' = [from EXCEPT ![t] = NULL]
      /\ disturbed' = [disturbed EXCEPT ![t] = {}]
      /\ UNCHANGED <<tree, rules>>
  BY DEF Finish, Freed
<1>2. Typed /\ ThreadInv(t) /\ Paired(memory) /\ Paired(kernelpath) /\ Paired(fullpath)
  BY DEF HInv, Typed
<1>3. /\ ChangedBoth(memory', memory, t, NULL, NULL)
      /\ ChangedBoth(kernelpath', kernelpath, t, NULL, NULL)
      /\ ChangedBoth(fullpath', fullpath, t, NULL, NULL)
  <2>1. /\ ChangedBoth([memory EXCEPT ![t] = <<NULL, NULL>>], memory, t, NULL, NULL)
        /\ ChangedBoth([kernelpath EXCEPT ![t] = <<NULL, NULL>>], kernelpath, t, NULL, NULL)
        /\ ChangedBoth([fullpath EXCEPT ![t] = <<NULL, NULL>>], fullpath, t, NULL, NULL)
    BY <1>2, PairedBoth
  <2>. QED  BY <1>1, <2>1
<1>4. /\ pc' \in [Threads -> Places] /\ pc'[t] = "idle"
      /\ \A u \in Threads \ {t} : pc'[u] = pc[u]
  <2>1. "idle" \in Places
    BY DEF Places
  <2>. QED  BY <1>1, <1>2, <2>1, Moves
<1>5. \A j \in 1 .. 2 : memory'[t][j] = NULL /\ kernelpath'[t][j] = NULL /\ fullpath'[t][j] = NULL
  <2>1. \A j \in 1 .. 2 : j = 1 \/ j = 2
    OBVIOUS
  <2>. QED  BY <1>3, <2>1 DEF ChangedBoth
<1>6. NoCall \in [kind : Kinds, dirfd : Dirs \cup {NULL}, removedir : BOOLEAN] /\ NoCall.kind = "open"
  BY DEF NoCall, Kinds
<1>. HIDE DEF NoCall
<1>7. Typed'
  <2>1. \A u \in Threads : \A j \in 1 .. 2 : memory'[u][j] \in Names \cup NewNames \cup {NULL}
    BY <1>2, <1>3, <1>5 DEF ChangedBoth, Typed, TypeOK
  <2>2. Paired(memory') /\ Paired(kernelpath') /\ Paired(fullpath')
    BY <1>3 DEF ChangedBoth
  <2>3. /\ call' \in [Threads -> [kind : Kinds, dirfd : Dirs \cup {NULL}, removedir : BOOLEAN]]
        /\ arg' \in [Threads -> 1 .. 2] /\ seen' \in [Threads -> SUBSET Object]
        /\ disturbed' \in [Threads -> SUBSET {"memory", "leftover", "tree"}]
        /\ DOMAIN from' = Threads
    BY <1>1, <1>2, <1>6 DEF Typed, TypeOK
  <2>4. where' = where /\ cwd' = cwd /\ rules' = rules
    BY <1>1 DEF tree
  <2>. QED  BY <1>2, <1>4, <2>1, <2>2, <2>3, <2>4 DEF Typed, TypeOK, Places
<1>8. ThreadInv(t)'
  <2>1. arg'[t] = 1
    BY <1>1, <1>2 DEF Typed, TypeOK
  <2>. QED  BY <1>4, <1>5, <2>1 DEF ThreadInv, Idle, OneName, Prepared, Weighed
<1>9. \A u \in Threads \ {t} : Same(u)
  <2>1. \A u \in Threads \ {t} :
          /\ call'[u] = call[u] /\ arg'[u] = arg[u] /\ seen'[u] = seen[u]
          /\ from'[u] = from[u] /\ disturbed'[u] = disturbed[u]
    BY <1>1, <1>2 DEF Typed, TypeOK
  <2>. QED  BY <1>3, <1>4, <2>1 DEF Same, ChangedBoth
<1>. QED  BY <1>1, <1>7, <1>8, <1>9, OneMoves DEF tree

LEMMA HInductive == HInv /\ [Next]_vars => HInv'
<1>. SUFFICES ASSUME HInv, [Next]_vars PROVE HInv'
  OBVIOUS
<1>1. CASE SetRules
  BY <1>1, SetRulesKeeps
<1>2. ASSUME NEW t \in Threads, CallBegins(t) PROVE HInv'
  BY <1>2, CallBeginsKeeps
<1>3. ASSUME NEW t \in Threads, NEW i \in 1 .. 2, NEW name \in Names, Rewrite(t, i, name) PROVE HInv'
  BY <1>3, RewriteKeeps
<1>4. ASSUME NEW t \in Threads, HookStep(t) PROVE HInv'
  <2>1. CASE CopyName(t)
    BY <2>1, CopyNameKeeps
  <2>2. CASE CopyFails(t)
    BY <2>2, CopyFailsKeeps
  <2>3. CASE FullName(t)
    BY <2>3, FullNameKeeps
  <2>4. CASE FullFails(t)
    BY <2>4, FullFailsKeeps
  <2>5. CASE FullFaults(t)
    BY <2>5, FaultKeeps DEF FullFaults
  <2>6. CASE CheckFaults(t)
    BY <2>6, FaultKeeps DEF CheckFaults
  <2>7. CASE Check(t)
    BY <2>7, CheckKeeps
  <2>8. CASE Origin(t)
    BY <2>8, OriginKeeps
  <2>9. CASE Finish(t)
    BY <2>9, FinishKeeps
  <2>. QED  BY <1>4, <2>1, <2>2, <2>3, <2>4, <2>5, <2>6, <2>7, <2>8, <2>9 DEF HookStep
<1>5. CASE UNCHANGED vars
  <2>1. UNCHANGED <<tree, rules, memory, pc, call, arg, kernelpath, fullpath, seen, from, disturbed>>
    BY <1>5 DEF vars, buffers, history
  <2>2. Typed'
    BY <2>1 DEF HInv, Typed, TypeOK, tree, Paired
  <2>3. \A u \in Threads : Same(u)
    BY <2>1 DEF Same
  <2>. QED  BY <2>1, <2>2, <2>3, NoneMoves
<1>. QED  BY <1>1, <1>2, <1>3, <1>4, <1>5 DEF Next

\* Only the real call takes a thread from where it makes it.
LEMMA OnlyOrigin ==
  ASSUME HInv, [Next]_vars, NEW t \in Threads, pc[t] = "origin", pc'[t] # "origin"
  PROVE  Origin(t)
<1>1. ASSUME NEW u \in Threads, NEW place, Goto(u, place), u # t PROVE FALSE
  BY <1>1 DEF Goto, HInv, Typed, TypeOK
<1>2. ~(UNCHANGED pc)
  OBVIOUS
<1>3. ~SetRules /\ ~(UNCHANGED vars)
  BY <1>2 DEF SetRules, vars
<1>4. ASSUME NEW u \in Threads, NEW i \in 1 .. 2, NEW name \in Names PROVE ~Rewrite(u, i, name)
  BY <1>2 DEF Rewrite
<1>5. ASSUME NEW u \in Threads, CallBegins(u) PROVE FALSE
  <2>1. PICK kind, name, new, dirfd, removedir : Begin(u, kind, name, new, dirfd, removedir)
    BY <1>5 DEF CallBegins
  <2>2. u # t
    BY <2>1 DEF Begin
  <2>. QED  BY <1>1, <2>1, <2>2 DEF Begin
<1>6. PICK u \in Threads : HookStep(u)
  BY <1>3, <1>4, <1>5 DEF Next
<1>7. \E place : Goto(u, place)
  BY <1>6 DEF HookStep, CopyName, CopyFails, FullName, FullFails, FullFaults, CheckFaults,
              Check, Origin, Finish, NextName
<1>8. u = t
  BY <1>1, <1>7
<1>. QED  BY <1>6, <1>8 DEF HookStep, CopyName, CopyFails, FullName, FullFails, FullFaults,
                            CheckFaults, Check, Finish

\* A hook that returned holds no buffer (LKM/fsprotection.c:92-356), for any
\* tree, names, rules and number of threads: an inductive invariant that also
\* says what the full path in the buffer is of.
THEOREM HooksHoldNothing == Spec => []NothingHeld
<1>1. HInv => NothingHeld
  BY DEF HInv, Typed, ThreadInv, Idle, NothingHeld
<1>. QED  BY <1>1, InitInv, HInductive, PTL DEF Spec

\* A call judged by its name never removes, renames, enters or makes a directory
\* in what a rule of its kind named, but for the excuses (LKM/fsprotection.c:92-142,
\* 271-356).  That is: what getNewFullPath and getParentDirFromFullPath make of
\* any regular name is d_path's text for the place the kernel's walk leads to.
THEOREM RuledKept == Spec => RuledObjectsKept
<1>1. ASSUME HInv, [Next]_vars
      PROVE  [\A t \in Threads :
                pc[t] = "origin" /\ pc'[t] # "origin" /\ call[t].kind \in DOMAIN TypeOf =>
                  Affected(t) \cap seen[t] = {} \/ Excused(t)]_vars
  <2>1. ASSUME NEW t \in Threads, pc[t] = "origin", pc'[t] # "origin",
               call[t].kind \in DOMAIN TypeOf
        PROVE  Affected(t) \cap seen[t] = {} \/ Excused(t)
    <3>1. Origin(t)
      BY <1>1, <2>1, OnlyOrigin
    <3>2. RealCall(t)
      BY <3>1 DEF Origin
    <3>. QED  BY <1>1, <2>1, <3>2, OriginSpares
  <2>. QED  BY <2>1
<1>. QED  BY <1>1, InitInv, HInductive, PTL DEF Spec, RuledObjectsKept

-----------------------------------------------------------------------------
(* What a refusal is for: a second invariant, of the name the hook judges.  *)

Copied(t) == \A i \in 1 .. 2 : kernelpath[t][i] \in Spot

\* Who copies a name: a hook that looks for something, and rmdir.
Looks(t) ==
  /\ pc[t] = "copy" => call[t].kind \in DOMAIN TypeOf \cup {"rmdir"}
  /\ pc[t] \in {"full", "check"} => call[t].kind \in DOMAIN TypeOf

\* The text is still that of the name in the directory it was built from,
\* wherever that directory and the process have gone since.
Built(t) ==
  /\ call[t].kind \in ByFullPath /\ disturbed[t] \cap {"leftover", "memory"} = {}
  /\ pc[t] = "check" \/ (arg[t] = 2 /\ pc[t] \in {"copy", "full"})
  => /\ from[t] \in Spot /\ kernelpath[t][1] \in Tokens
     /\ fullpath[t][1] = FullOf(from[t], kernelpath[t][1])

Judges(t) == Copied(t) /\ Looks(t) /\ Built(t)
AllJudge == \A t \in Threads : Judges(t)

\* A thread that stands still while others may move the tree.
Unmoved(t) ==
  /\ pc'[t] = pc[t] /\ call'[t] = call[t] /\ arg'[t] = arg[t]
  /\ kernelpath'[t] = kernelpath[t] /\ fullpath'[t] = fullpath[t]
  /\ from'[t] = from[t] /\ disturbed[t] \subseteq disturbed'[t]

LEMMA UnmovedJudges == ASSUME NEW t \in Threads, Judges(t), Unmoved(t) PROVE Judges(t)'
<1>1. Copied(t)' /\ Looks(t)'
  BY DEF Judges, Copied, Looks, Unmoved
<1>2. Built(t)'
  <2>1. disturbed'[t] \cap {"leftover", "memory"} = {} => disturbed[t] \cap {"leftover", "memory"} = {}
    BY DEF Unmoved
  <2>. QED  BY <2>1 DEF Judges, Built, Unmoved
<1>. QED  BY <1>1, <1>2 DEF Judges

LEMMA Elsewhere ==
  ASSUME NEW f, DOMAIN f = Threads, NEW t \in Threads, NEW u \in Threads \ {t}, NEW x
  PROVE  [f EXCEPT ![t] = x][u] = f[u]
OBVIOUS

LEMMA OthersUnmoved ==
  ASSUME HInv, NEW t \in Threads, CallBegins(t) \/ HookStep(t), NEW u \in Threads \ {t}
  PROVE  Unmoved(u)
<1>1. /\ DOMAIN pc = Threads /\ DOMAIN call = Threads /\ DOMAIN arg = Threads
      /\ DOMAIN from = Threads /\ DOMAIN disturbed = Threads
      /\ DOMAIN kernelpath = Threads /\ DOMAIN fullpath = Threads
  BY DEF HInv, Typed, TypeOK, Paired
<1>2. \A place : Goto(t, place) => pc'[u] = pc[u]
  BY <1>1 DEF Goto
<1>3. \A what : Disturb(t, what) => disturbed'[u] = disturbed[u]
  BY <1>1 DEF Disturb
<1>4. NextName(t) => pc'[u] = pc[u] /\ arg'[u] = arg[u]
  BY <1>1, <1>2 DEF NextName
<1>5. CASE CallBegins(t)
  <2>1. PICK kind, name, new, dirfd, removedir : Begin(t, kind, name, new, dirfd, removedir)
    BY <1>5 DEF CallBegins
  <2>2. pc'[u] = pc[u]
    BY <1>2, <2>1 DEF Begin
  <2>3. call'[u] = call[u]
    BY <1>1, <2>1 DEF Begin
  <2>. QED  BY <2>1, <2>2, <2>3 DEF Begin, Unmoved, buffers, history
<1>6. CASE CopyName(t)
  <2>1. PICK x : kernelpath' = [kernelpath EXCEPT ![t][arg[t]] = x]
    BY <1>6 DEF CopyName
  <2>2. pc'[u] = pc[u] /\ kernelpath'[u] = kernelpath[u]
    BY <1>1, <1>2, <1>6, <2>1 DEF CopyName
  <2>. QED  BY <1>6, <2>2 DEF CopyName, Unmoved, history
<1>7. CASE CopyFails(t)
  BY <1>2, <1>3, <1>7 DEF CopyFails, Unmoved, buffers
<1>8. CASE FullName(t)
  <2>1. PICK x : fullpath' = [fullpath EXCEPT ![t][arg[t]] = x]
    BY <1>8 DEF FullName
  <2>2. fullpath'[u] = fullpath[u] /\ from'[u] = from[u]
    BY <1>1, <1>8, <2>1 DEF FullName
  <2>3. disturbed'[u] = disturbed[u]
    BY <1>3, <1>8 DEF FullName
  <2>. QED  BY <1>4, <1>8, <2>2, <2>3 DEF FullName, Unmoved
<1>9. CASE FullFails(t)
  <2>1. PICK x : fullpath' = [fullpath EXCEPT ![t][arg[t]] = x]
    BY <1>9 DEF FullFails
  <2>2. fullpath'[u] = fullpath[u]
    BY <1>1, <2>1
  <2>. QED  BY <1>3, <1>4, <1>9, <2>2 DEF FullFails, Unmoved
<1>10. CASE FullFaults(t) \/ CheckFaults(t)
  BY <1>2, <1>10 DEF FullFaults, CheckFaults, Unmoved, buffers, history
<1>11. CASE Check(t)
  BY <1>2, <1>11 DEF Check, Unmoved, buffers
<1>12. CASE Origin(t)
  <2>1. disturbed[u] \subseteq disturbed'[u]
    BY <1>12 DEF Origin
  <2>. QED  BY <1>2, <1>12, <2>1 DEF Origin, Unmoved, buffers
<1>13. CASE Finish(t)
  <2>1. pc'[u] = pc[u]
    BY <1>2, <1>13 DEF Finish
  <2>2. kernelpath'[u] = kernelpath[u] /\ fullpath'[u] = fullpath[u] /\ call'[u] = call[u]
    BY <1>1, <1>13, Elsewhere DEF Finish, Freed
  <2>3. arg'[u] = arg[u] /\ from'[u] = from[u] /\ disturbed'[u] = disturbed[u]
    BY <1>1, <1>13, Elsewhere DEF Finish
  <2>. QED  BY <2>1, <2>2, <2>3 DEF Unmoved
<1>. QED  BY <1>5, <1>6, <1>7, <1>8, <1>9, <1>10, <1>11, <1>12, <1>13 DEF HookStep

\* What is copied, be it torn or not, is a name.
LEMMA TornType ==
  ASSUME NEW a \in Tokens \cup {NULL}, NEW b \in Tokens \cup {NULL}, NEW text \in Torn(a, b)
  PROVE  Read(text) \in Tokens
<1>1. <<>> \in Tokens
  BY DEF Tokens
<1>2. CASE a = NULL \/ b = NULL
  BY <1>1, <1>2 DEF Torn, Read
<1>3. CASE a # NULL /\ b # NULL
  <2>1. a \in Seq(Token) /\ b \in Seq(Token) /\ Len(a) \in Nat /\ Len(b) \in Nat
    BY <1>3 DEF Tokens
  <2>2. CASE text = a
    BY <1>3, <2>2 DEF Read
  <2>3. CASE text # a
    <3>1. PICK k \in 0 .. (IF Len(a) < Len(b) THEN Len(a) ELSE Len(b)) :
            text = SubSeq(a, 1, k) \o SubSeq(b, k + 1, Len(b))
      BY <1>3, <2>3 DEF Torn
    <3>2. k \in 0 .. Len(a) /\ k \in 0 .. Len(b) /\ k + 1 \in 1 .. Len(b) + 1
      BY <2>1
    <3>3. SubSeq(a, 1, k) \in Seq(Token)
      BY <2>1, <3>2
    <3>4. SubSeq(b, k + 1, Len(b)) \in Seq(Token)
      BY <2>1, <3>2
    <3>5. text \in Seq(Token)
      BY <3>1, <3>3, <3>4
    <3>6. text # NULL
      BY <3>5, HooksAssumption
    <3>. QED  BY <3>5, <3>6 DEF Read, Tokens
  <2>. QED  BY <2>2, <2>3
<1>. QED  BY <1>2, <1>3

LEMMA JudgesInit == Init => AllJudge
<1>. SUFFICES ASSUME Init, NEW t \in Threads PROVE Judges(t)
  BY DEF AllJudge
<1>1. /\ pc[t] = "idle" /\ kernelpath[t] = <<NULL, NULL>>
  BY DEF Init
<1>2. \A i \in 1 .. 2 : kernelpath[t][i] = NULL
  <2>1. \A i \in 1 .. 2 : i = 1 \/ i = 2
    OBVIOUS
  <2>. QED  BY <1>1, <2>1
<1>. QED  BY <1>1, <1>2 DEF Judges, Copied, Looks, Built, Spot

LEMMA BeginJudges ==
  ASSUME HInv, AllJudge, NEW t \in Threads, CallBegins(t)
  PROVE  Judges(t)'
<1>1. PICK kind, name, new, dirfd, removedir : Begin(t, kind, name, new, dirfd, removedir)
  BY DEF CallBegins
<1>. DEFINE place == IF kind \in DOMAIN TypeOf THEN "copy" ELSE "origin"
<1>2. /\ pc[t] = "idle" /\ Goto(t, place)
      /\ call' = [call EXCEPT ![t] = [kind |-> kind, dirfd |-> dirfd, removedir |-> removedir]]
      /\ arg' = arg /\ kernelpath' = kernelpath
  BY <1>1 DEF Begin, buffers
<1>3. DOMAIN pc = Threads /\ DOMAIN call = Threads /\ arg[t] = 1
  BY <1>2 DEF HInv, Typed, TypeOK, ThreadInv, Idle
<1>4. place \in {"copy", "origin"} /\ (place = "copy" => kind \in DOMAIN TypeOf)
  OBVIOUS
<1>. HIDE DEF place
<1>5. pc'[t] = place /\ call'[t].kind = kind /\ arg'[t] = 1
  BY <1>2, <1>3 DEF Goto
<1>6. Copied(t)'
  BY <1>2 DEF AllJudge, Judges, Copied
<1>7. Looks(t)' /\ Built(t)'
  BY <1>4, <1>5 DEF Looks, Built
<1>. QED  BY <1>6, <1>7 DEF Judges

LEMMA CopyNameJudges ==
  ASSUME HInv, AllJudge, NEW t \in Threads, CopyName(t)
  PROVE  Judges(t)'
<1>. DEFINE i == arg[t]
            other == IF Threads = {t} THEN {memory[t][i]} ELSE Names \cup {memory[t][i]}
            place == IF call[t].kind = "rmdir" THEN "free"
                     ELSE IF call[t].kind = "chdir" THEN "check" ELSE "full"
<1>1. /\ pc[t] = "copy" /\ Goto(t, place)
      /\ UNCHANGED <<call, arg, fullpath, from, disturbed>>
  BY DEF CopyName, history
<1>2. /\ Typed /\ Judges(t) /\ Paired(kernelpath)
      /\ i \in 1 .. 2 /\ memory[t][i] \in Names \cup NewNames \cup {NULL}
  BY DEF HInv, Typed, TypeOK, AllJudge
<1>3. PICK now \in other :
        \E text \in Torn(memory[t][i], now) :
          kernelpath' = [kernelpath EXCEPT ![t][i] = Read(text)]
  BY DEF CopyName
<1>4. PICK text \in Torn(memory[t][i], now) : kernelpath' = [kernelpath EXCEPT ![t][i] = Read(text)]
  BY <1>3
<1>5. memory[t][i] \in Tokens \cup {NULL} /\ now \in Tokens \cup {NULL}
  <2>1. now \in Names \cup NewNames \cup {NULL}
    BY <1>2
  <2>. QED  BY <1>2, <2>1, HooksAssumption DEF Tokens
<1>6. Read(text) \in Tokens
  BY <1>5, TornType
<1>7. /\ place \in {"free", "check", "full"} /\ (place = "check" => call[t].kind = "chdir")
      /\ place # "free" => call[t].kind # "rmdir"
  BY AfterCopy
<1>. HIDE DEF i, other, place
<1>8. pc'[t] = place
  BY <1>1, <1>2 DEF Typed, TypeOK, Goto
<1>9. Changed(kernelpath', kernelpath, t, i, Read(text))
  <2>1. Changed([kernelpath EXCEPT ![t][i] = Read(text)], kernelpath, t, i, Read(text))
    BY <1>2, PairedExcept
  <2>. QED  BY <1>4, <2>1
<1>10. Copied(t)'
  <2>1. \A j \in 1 .. 2 : kernelpath[t][j] \in Spot
    BY <1>2 DEF Judges, Copied
  <2>2. \A j \in 1 .. 2 : kernelpath'[t][j] \in Spot
    BY <1>6, <1>9, <2>1 DEF Changed, Spot
  <2>. QED  BY <2>2 DEF Copied
<1>11. Looks(t)'
  BY <1>1, <1>2, <1>7, <1>8 DEF Judges, Looks
<1>12. Built(t)'
  <2>1. "chdir" \notin ByFullPath
    BY DEF ByFullPath
  <2>2. arg[t] = 2 => kernelpath'[t][1] = kernelpath[t][1]
    BY <1>9 DEF Changed, i
  <2>. QED  BY <1>1, <1>2, <1>7, <1>8, <2>1, <2>2 DEF Judges, Built
<1>. QED  BY <1>10, <1>11, <1>12 DEF Judges

\* Every failure leaves the names and is remembered.
LEMMA FailJudges ==
  ASSUME HInv, AllJudge, NEW t \in Threads, CopyFails(t) \/ FullFails(t)
  PROVE  Judges(t)'
<1>1. Typed /\ Judges(t) /\ OneName(t)
  BY DEF HInv, ThreadInv, AllJudge
<1>2. Disturb(t, "memory") /\ UNCHANGED <<call, kernelpath>>
  BY DEF CopyFails, FullFails, buffers
<1>3. "memory" \in disturbed'[t]
  BY <1>1, <1>2 DEF Typed, TypeOK, Disturb
<1>4. Copied(t)' /\ Built(t)'
  BY <1>1, <1>2, <1>3 DEF Judges, Copied, Built
<1>5. CASE CopyFails(t)
  <2>. DEFINE place == IF call[t].kind = "rmdir" THEN "free"
                       ELSE IF call[t].kind = "chdir" THEN "check" ELSE "full"
  <2>1. place \in {"free", "check", "full"} /\ (place # "free" => call[t].kind # "rmdir")
    OBVIOUS
  <2>2. pc[t] = "copy" /\ Goto(t, place)
    BY <1>5 DEF CopyFails
  <2>. HIDE DEF place
  <2>3. pc'[t] = place
    BY <1>1, <2>2 DEF Typed, TypeOK, Goto
  <2>4. Looks(t)'
    BY <1>1, <1>2, <2>1, <2>2, <2>3 DEF Judges, Looks
  <2>. QED  BY <1>4, <2>4 DEF Judges
<1>6. CASE FullFails(t)
  <2>1. pc[t] = "full" /\ NextName(t)
    BY <1>6 DEF FullFails
  <2>2. pc'[t] \in {"copy", "check"}
    BY <1>1, <1>2, <2>1, NextIs
  <2>3. Looks(t)'
    BY <1>1, <1>2, <2>1, <2>2 DEF Judges, Looks
  <2>. QED  BY <1>4, <2>3 DEF Judges
<1>. QED  BY <1>5, <1>6

LEMMA FullNameJudges ==
  ASSUME HInv, AllJudge, NEW t \in Threads, FullName(t)
  PROVE  Judges(t)'
<1>. DEFINE i == arg[t]
<1>1. /\ Typed /\ Judges(t) /\ OneName(t) /\ Paired(fullpath) /\ i \in 1 .. 2
      /\ DOMAIN from = Threads /\ where[cwd] \in Spot
  <2>1. cwd \in Object /\ where \in [Object -> Spot]
    BY HooksAssumption DEF HInv, Typed, TypeOK
  <2>. QED  BY <2>1 DEF HInv, ThreadInv, Typed, TypeOK, AllJudge
<1>2. /\ pc[t] = "full" /\ NextName(t) /\ UNCHANGED <<call, kernelpath>>
      /\ kernelpath[t][i] # NULL
      /\ from' = IF i = 1 THEN [from EXCEPT ![t] = where[cwd]] ELSE from
  BY DEF FullName
<1>3. PICK left \in Leftovers :
        /\ fullpath' = [fullpath EXCEPT ![t][i] = FullPath(left, TextOf(cwd), kernelpath[t][i])]
        /\ IF left = <<>> THEN UNCHANGED disturbed ELSE Disturb(t, "leftover")
  BY DEF FullName
<1>. DEFINE text == FullPath(left, TextOf(cwd), kernelpath[t][i])
<1>4. Changed(fullpath', fullpath, t, i, text)
  <2>. HIDE DEF i, text
  <2>1. Changed([fullpath EXCEPT ![t][i] = text], fullpath, t, i, text)
    BY <1>1, PairedExcept
  <2>2. fullpath' = [fullpath EXCEPT ![t][i] = text]
    BY <1>3 DEF text
  <2>. QED  BY <2>1, <2>2
<1>5. pc'[t] \in {"copy", "check"}
  BY <1>1, <1>2, NextIs
<1>6. Copied(t)' /\ Looks(t)'
  BY <1>1, <1>2, <1>5 DEF Judges, Copied, Looks
<1>7. disturbed'[t] \cap {"leftover", "memory"} = {}
        => left = <<>> /\ disturbed[t] \cap {"leftover", "memory"} = {}
  <2>1. disturbed \in [Threads -> SUBSET {"memory", "leftover", "tree"}]
    BY <1>1 DEF Typed, TypeOK
  <2>2. left # <<>> => "leftover" \in disturbed'[t]
    BY <1>3, <2>1 DEF Disturb
  <2>3. left = <<>> => disturbed' = disturbed
    BY <1>3
  <2>. QED  BY <2>2, <2>3
<1>8. Built(t)'
  <2>1. SUFFICES ASSUME call[t].kind \in ByFullPath, left = <<>>,
                        disturbed[t] \cap {"leftover", "memory"} = {}
                 PROVE  /\ from'[t] \in Spot /\ kernelpath[t][1] \in Tokens
                        /\ fullpath'[t][1] = FullOf(from'[t], kernelpath[t][1])
    BY <1>2, <1>7 DEF Built
  <2>2. CASE i = 1
    <3>1. from'[t] = where[cwd]
      BY <1>1, <1>2, <2>2
    <3>2. kernelpath[t][1] \in Tokens
      BY <1>1, <1>2, <2>2 DEF Judges, Copied, Spot
    <3>3. TextOf(cwd) = Written(where[cwd])
      BY DEF TextOf, Written
    <3>4. text = FullOf(where[cwd], kernelpath[t][1])
      BY <2>1, <2>2, <3>3 DEF FullOf
    <3>5. fullpath'[t][1] = text
      <4>. HIDE DEF text
      <4>. QED  BY <1>4, <2>2 DEF Changed
    <3>. QED  BY <1>1, <3>1, <3>2, <3>4, <3>5
  <2>3. CASE i = 2
    <3>1. from'[t] = from[t]
      BY <1>2, <2>3
    <3>2. fullpath'[t][1] = fullpath[t][1]
      <4>. HIDE DEF text, i
      <4>. QED  BY <1>4, <2>3 DEF Changed
    <3>. QED  BY <1>1, <1>2, <2>1, <2>3, <3>1, <3>2 DEF Judges, Built
  <2>. QED  BY <1>1, <2>2, <2>3
<1>. QED  BY <1>6, <1>8 DEF Judges

\* The hook is past its names.
LEMMA PastJudges ==
  ASSUME HInv, AllJudge, NEW t \in Threads,
         FullFaults(t) \/ CheckFaults(t) \/ Check(t) \/ Origin(t)
  PROVE  Judges(t)'
<1>1. Typed /\ Judges(t) /\ UNCHANGED <<call, kernelpath>>
  BY DEF HInv, AllJudge, FullFaults, CheckFaults, Check, Origin, buffers
<1>2. Copied(t)'
  BY <1>1 DEF Judges, Copied
<1>3. /\ pc'[t] \in {"dead", "free", "origin", "copy"}
      /\ pc'[t] = "copy" => call[t].kind = "rmdir"
  <2>1. DOMAIN pc = Threads
    BY <1>1 DEF Typed, TypeOK
  <2>2. CASE FullFaults(t) \/ CheckFaults(t)
    BY <2>1, <2>2 DEF FullFaults, CheckFaults, Goto
  <2>3. CASE Check(t)
    BY <2>1, <2>3 DEF Check, Goto
  <2>4. CASE Origin(t)
    BY <2>1, <2>4 DEF Origin, Goto
  <2>. QED  BY <2>2, <2>3, <2>4
<1>4. "rmdir" \notin ByFullPath
  BY DEF ByFullPath, TypeOf
<1>5. Looks(t)'
  BY <1>1, <1>3 DEF Looks
<1>6. Built(t)'
  BY <1>1, <1>3, <1>4 DEF Built
<1>. QED  BY <1>2, <1>5, <1>6 DEF Judges

LEMMA FinishJudges ==
  ASSUME HInv, NEW t \in Threads, Finish(t)
  PROVE  Judges(t)'
<1>1. Typed /\ Goto(t, "idle") /\ kernelpath' = [kernelpath EXCEPT ![t] = <<NULL, NULL>>]
  BY DEF HInv, Finish, Freed
<1>2. pc'[t] = "idle" /\ kernelpath'[t] = <<NULL, NULL>>
  BY <1>1 DEF Typed, TypeOK, Paired, Goto
<1>3. \A i \in 1 .. 2 : kernelpath'[t][i] = NULL
  <2>1. \A i \in 1 .. 2 : i = 1 \/ i = 2
    OBVIOUS
  <2>. QED  BY <1>2, <2>1
<1>. QED  BY <1>2, <1>3 DEF Judges, Copied, Looks, Built, Spot

LEMMA JudgesInductive == HInv /\ AllJudge /\ [Next]_vars => AllJudge'
<1>. SUFFICES ASSUME HInv, AllJudge, [Next]_vars PROVE AllJudge'
  OBVIOUS
<1>1. ASSUME UNCHANGED <<pc, call, arg, kernelpath, fullpath, from, disturbed>> PROVE AllJudge'
  <2>1. \A u \in Threads : Unmoved(u)
    BY <1>1 DEF Unmoved
  <2>. QED  BY <2>1, UnmovedJudges DEF AllJudge
<1>2. CASE SetRules \/ UNCHANGED vars
  BY <1>1, <1>2 DEF SetRules, vars, buffers, history
<1>3. ASSUME NEW t \in Threads, NEW i \in 1 .. 2, NEW name \in Names, Rewrite(t, i, name)
      PROVE  AllJudge'
  BY <1>1, <1>3 DEF Rewrite, buffers, history
<1>4. ASSUME NEW t \in Threads, CallBegins(t) \/ HookStep(t) PROVE AllJudge'
  <2>1. \A u \in Threads \ {t} : Judges(u)'
    BY <1>4, OthersUnmoved, UnmovedJudges DEF AllJudge
  <2>2. Judges(t)'
    <3>1. CASE CallBegins(t)
      BY <3>1, BeginJudges
    <3>2. CASE HookStep(t)
      <4>1. CASE CopyName(t)
        BY <4>1, CopyNameJudges
      <4>2. CASE CopyFails(t) \/ FullFails(t)
        BY <4>2, FailJudges
      <4>3. CASE FullName(t)
        BY <4>3, FullNameJudges
      <4>4. CASE FullFaults(t) \/ CheckFaults(t) \/ Check(t) \/ Origin(t)
        BY <4>4, PastJudges
      <4>5. CASE Finish(t)
        BY <4>5, FinishJudges
      <4>. QED  BY <3>2, <4>1, <4>2, <4>3, <4>4, <4>5 DEF HookStep
    <3>. QED  BY <1>4, <3>1, <3>2
  <2>. QED  BY <2>1, <2>2 DEF AllJudge
<1>. QED  BY <1>2, <1>3, <1>4 DEF Next

\* Only the check takes a thread from it to where it gives up the call.
LEMMA OnlyCheck ==
  ASSUME HInv, [Next]_vars, NEW t \in Threads, pc[t] = "check",
         pc'[t] \notin {"check", "origin", "dead"}
  PROVE  Check(t) /\ IsPathProtected(Judged(t), TypeOf[call[t].kind])
<1>1. ASSUME NEW u \in Threads, NEW place, Goto(u, place), u # t PROVE FALSE
  BY <1>1 DEF Goto, HInv, Typed, TypeOK
<1>2. ~(UNCHANGED pc)
  OBVIOUS
<1>3. ~SetRules /\ ~(UNCHANGED vars)
  BY <1>2 DEF SetRules, vars
<1>4. ASSUME NEW u \in Threads, NEW i \in 1 .. 2, NEW name \in Names PROVE ~Rewrite(u, i, name)
  BY <1>2 DEF Rewrite
<1>5. ASSUME NEW u \in Threads, CallBegins(u) PROVE FALSE
  <2>1. PICK kind, name, new, dirfd, removedir : Begin(u, kind, name, new, dirfd, removedir)
    BY <1>5 DEF CallBegins
  <2>2. u # t
    BY <2>1 DEF Begin
  <2>. QED  BY <1>1, <2>1, <2>2 DEF Begin
<1>6. PICK u \in Threads : HookStep(u)
  BY <1>3, <1>4, <1>5 DEF Next
<1>7. \E place : Goto(u, place)
  BY <1>6 DEF HookStep, CopyName, CopyFails, FullName, FullFails, FullFaults, CheckFaults,
              Check, Origin, Finish, NextName
<1>8. u = t
  BY <1>1, <1>7
<1>9. DOMAIN pc = Threads
  BY DEF HInv, Typed, TypeOK
<1>10. ~CheckFaults(t)
  BY <1>9 DEF CheckFaults, Goto
<1>11. Check(t)
  BY <1>6, <1>8, <1>10 DEF HookStep, CopyName, CopyFails, FullName, FullFails, FullFaults, Origin, Finish
<1>12. IsPathProtected(Judged(t), TypeOf[call[t].kind])
  <2>1. Goto(t, IF IsPathProtected(Judged(t), TypeOf[call[t].kind]) THEN "free" ELSE "origin")
    BY <1>11 DEF Check
  <2>. QED  BY <1>9, <2>1 DEF Goto
<1>. QED  BY <1>11, <1>12

\* A refusal, and the rule it is for.
LEMMA RefusalIsMeant ==
  ASSUME RulesAsWritten, HInv, AllJudge, NEW t \in Threads, pc[t] = "check",
         IsPathProtected(Judged(t), TypeOf[call[t].kind]),
         disturbed[t] \cap {"leftover", "memory"} = {},
         call[t].kind = "mkdir" => Straight("mkdir", kernelpath[t][1]),
         call[t].kind = "chdir" => ~Relative(kernelpath[t][1])
  PROVE  Forbidden(Asked(t), TypeOf[call[t].kind])
<1>. DEFINE type == TypeOf[call[t].kind]
<1>1. PICK rule \in rules : rule.path = Judged(t) /\ rule.type = type
  BY DEF IsPathProtected
<1>. HIDE DEF type
<1>2. /\ rule.path \in Tokens /\ rule = [path |-> rule.path, type |-> rule.type]
      /\ AsWritten(rule.path) \/ Relative(rule.path)
  <2>1. rules \in RuleSets
    BY DEF HInv, Typed, TypeOK
  <2>2. rule \in [path : Seq(Token), type : STRING]
    BY <2>1, HooksAssumption
  <2>3. AsWritten(rule.path) \/ Relative(rule.path)
    BY <2>1 DEF RulesAsWritten
  <2>. QED  BY <2>2, <2>3 DEF Tokens
<1>3. SUFFICES Text(Asked(t)) = Judged(t)
  BY <1>1, <1>2 DEF Forbidden, type
<1>4. call[t].kind \in DOMAIN TypeOf /\ Judges(t)
  BY DEF AllJudge, Judges, Looks
<1>5. CASE call[t].kind = "chdir"
  <2>1. Judged(t) = kernelpath[t][1] /\ Asked(t) = Denotes(from[t], kernelpath[t][1])
    BY <1>5 DEF Judged, Asked
  <2>2. kernelpath[t][1] \in Tokens /\ AsWritten(kernelpath[t][1])
    BY <1>1, <1>2, <1>5, <2>1
  <2>. QED  BY <2>1, <2>2, WrittenNamesItself
<1>6. CASE call[t].kind # "chdir"
  <2>. DEFINE name == kernelpath[t][1]
              full == fullpath[t][1]
  <2>1. from[t] \in Spot /\ name \in Tokens /\ full = FullOf(from[t], name)
    BY <1>4, <1>6 DEF Judges, Built, ByFullPath
  <2>. HIDE DEF name, full
  <2>2. full \in Tokens /\ ~Relative(full) /\ full # NULL
    <3>1. full \in Tokens /\ full[1] = Slash
      BY <2>1, FullOfIs DEF MadeOf
    <3>. QED  BY <3>1, HooksAssumption DEF Relative, Tokens
  <2>3. CASE call[t].kind = "mkdir"
    <3>1. Judged(t) = ParentDir(full) /\ Asked(t) = Front(Denotes(from[t], name))
      BY <2>2, <2>3 DEF Judged, Asked, full, name
    <3>2. Straight("mkdir", name)
      BY <2>3 DEF name
    <3>3. /\ ~Relative(ParentDir(full))
          /\ AsWritten(ParentDir(full)) => Text(Front(Denotes(from[t], name))) = ParentDir(full)
      BY <2>1, <3>2, ParentDenoted
    <3>. QED  BY <1>1, <1>2, <3>1, <3>3
  <2>4. CASE call[t].kind # "mkdir"
    <3>1. Judged(t) = full /\ Asked(t) = Denotes(from[t], name)
      BY <1>6, <2>4 DEF Judged, Asked, full, name
    <3>2. AsWritten(full)
      BY <1>1, <1>2, <2>2, <3>1
    <3>3. Text(Denotes(from[t], name)) = full
      BY <2>1, <3>2, FullPathDenoted
    <3>. QED  BY <3>1, <3>3
  <2>. QED  BY <2>3, <2>4
<1>. QED  BY <1>5, <1>6

\* With rules written as d_path writes paths, a call is refused only for a rule on
\* the very thing its name denotes from the directory the call was made in, but for
\* the exceptions (LKM/fsprotection.c:92-142, 271-356; LKM/utilities.c:69-165).  The
\* name may be any text: no roundabout spelling makes the text of another's rule.
THEOREM RefusalsRight == ASSUME RulesAsWritten PROVE Spec => RefusedRightly
<1>1. ASSUME HInv, AllJudge, [Next]_vars
      PROVE  [\A t \in Threads :
                pc[t] = "check" /\ pc'[t] \notin {"check", "origin", "dead"} =>
                  \/ disturbed[t] \cap {"leftover", "memory"} # {}
                  \/ call[t].kind = "mkdir" /\ ~Straight("mkdir", kernelpath[t][1])
                  \/ call[t].kind = "chdir" /\ Relative(kernelpath[t][1])
                  \/ Forbidden(Asked(t), TypeOf[call[t].kind])]_vars
  <2>1. ASSUME NEW t \in Threads, pc[t] = "check", pc'[t] \notin {"check", "origin", "dead"}
        PROVE  \/ disturbed[t] \cap {"leftover", "memory"} # {}
               \/ call[t].kind = "mkdir" /\ ~Straight("mkdir", kernelpath[t][1])
               \/ call[t].kind = "chdir" /\ Relative(kernelpath[t][1])
               \/ Forbidden(Asked(t), TypeOf[call[t].kind])
    <3>1. IsPathProtected(Judged(t), TypeOf[call[t].kind])
      BY <1>1, <2>1, OnlyCheck
    <3>. QED  BY <1>1, <2>1, <3>1, RefusalIsMeant
  <2>. QED  BY <2>1
<1>2. HInv /\ AllJudge /\ [Next]_vars => (HInv /\ AllJudge)'
  BY HInductive, JudgesInductive
<1>3. Init => HInv /\ AllJudge
  BY InitInv, JudgesInit
<1>. QED  BY <1>1, <1>2, <1>3, PTL DEF Spec, RefusedRightly
=============================================================================
