----------------------------- MODULE ManagerProofs -----------------------------
(***************************************************************************)
(* Theorems about Manager, for every number of managers, nodes and typed   *)
(* lines: the linked list of a manager is a sequence of nodes whatever is  *)
(* added and removed, it implements RuleBook, and the kernel's rules are   *)
(* what the list it took last means.                                       *)
(***************************************************************************)
EXTENDS Manager, ProtectTextProofs, FiniteSetTheorems

USE DEF procVars, listVars, kernel

-----------------------------------------------------------------------------
(* The list of a manager as a sequence of nodes.                           *)

\* The pointers of manager m lead through the nodes of s, each once, and s is
\* all it has allocated.
Chain(m, s) ==
  /\ s \in Seq(Cell) /\ ToSet(s) = allocated[m] /\ IsInjective(s)
  /\ fileList_root[m] = IF s = <<>> THEN NULL ELSE s[1]
  /\ tail[m] = IF s = <<>> THEN NULL ELSE s[Len(s)]
  /\ \A i \in 1 .. Len(s) : next[m][s[i]] = IF i = Len(s) THEN NULL ELSE s[i + 1]

Inv ==
  /\ TypeOK
  /\ \A m \in Managers : Chain(m, Nodes(m)) /\ (pc[m] = "menu" => order[m] = NULL)

\* There are no more nodes than addresses.
LEMMA Fits ==
  ASSUME NEW s \in Seq(Cell), IsInjective(s)
  PROVE  Cardinality(Cell) \in Nat /\ Len(s) <= Cardinality(Cell)
<1>1. IsFiniteSet(Cell) /\ Cardinality(Cell) \in Nat
  BY ManagerAssumption, FS_CardinalityType
<1>2. s \in Injection(1 .. Len(s), Cell)
  BY DEF IsInjective, Injection
<1>3. Cardinality(1 .. Len(s)) <= Cardinality(Cell)
  BY <1>1, <1>2, FS_Injection
<1>4. Cardinality(1 .. Len(s)) = Len(s)
  <2>. DEFINE n == Len(s)
  <2>1. 1 \in Int /\ n \in Int /\ n >= 0
    OBVIOUS
  <2>. HIDE DEF n
  <2>2. Cardinality(1 .. n) = IF 1 > n THEN 0 ELSE n - 1 + 1
    BY ONLY <2>1, FS_Interval
  <2>3. Cardinality(1 .. n) = n
    BY <2>1, <2>2
  <2>. QED  BY <2>3 DEF n
<1>. QED  BY <1>1, <1>3, <1>4

\* Nth follows the pointers: the nodes of the chain, then nothing.
LEMMA NthIs ==
  ASSUME NEW m \in Managers, NEW s, Chain(m, s)
  PROVE  Nth(m) = [k \in 0 .. Cardinality(Cell) |-> IF k < Len(s) THEN s[k + 1] ELSE NULL]
<1>. DEFINE N == Cardinality(Cell)
            Value(f, k) == IF k = 0 THEN fileList_root[m]
                           ELSE IF f[k - 1] = NULL THEN NULL ELSE next[m][f[k - 1]]
            Equation(f) == f = [k \in 0 .. N |-> Value(f, k)]
            g == [k \in 0 .. N |-> IF k < Len(s) THEN s[k + 1] ELSE NULL]
<1>1. Nth(m) = CHOOSE f : Equation(f)
  BY DEF Nth
<1>2. /\ s \in Seq(Cell) /\ N \in Nat /\ Len(s) <= N /\ NULL \notin Cell
      /\ \A i \in 1 .. Len(s) : s[i] \in Cell
      /\ \A i \in 1 .. Len(s) : next[m][s[i]] = IF i = Len(s) THEN NULL ELSE s[i + 1]
      /\ fileList_root[m] = IF Len(s) = 0 THEN NULL ELSE s[1]
  <2>1. s \in Seq(Cell) /\ IsInjective(s) /\ NULL \notin Cell
    BY ManagerAssumption DEF Chain
  <2>2. N \in Nat /\ Len(s) <= N
    BY <2>1, Fits
  <2>3. s = <<>> <=> Len(s) = 0
    BY <2>1, EmptySeq
  <2>4. \A i \in 1 .. Len(s) : s[i] \in Cell
    BY <2>1
  <2>. HIDE DEF N
  <2>. QED  BY <2>1, <2>2, <2>3, <2>4 DEF Chain
<1>3. ASSUME NEW k \in 0 .. N PROVE g[k] = Value(g, k)
  <2>1. CASE k = 0
    BY <1>2, <2>1
  <2>2. CASE k \in 1 .. Len(s)
    <3>1. g[k - 1] = s[k]
      BY <1>2, <2>2
    <3>2. g[k - 1] # NULL /\ next[m][g[k - 1]] = IF k = Len(s) THEN NULL ELSE s[k + 1]
      <4>. HIDE DEF g
      <4>. QED  BY <1>2, <2>2, <3>1
    <3>3. g[k] = IF k = Len(s) THEN NULL ELSE s[k + 1]
      BY <1>2, <2>2
    <3>. HIDE DEF g
    <3>. QED  BY <2>2, <3>2, <3>3
  <2>3. CASE k > Len(s)
    <3>1. g[k - 1] = NULL /\ g[k] = NULL /\ k # 0
      BY <1>2, <2>3
    <3>. HIDE DEF g
    <3>. QED  BY <3>1
  <2>. QED  BY <1>2, <2>1, <2>2, <2>3
<1>4. Equation(g)
  <2>. HIDE DEF Value
  <2>. QED  BY <1>3
<1>5. ASSUME NEW f, Equation(f) PROVE f = g
  <2>. DEFINE T == {k \in 0 .. N : f[k] = g[k]}
  <2>1. ASSUME NEW k \in 0 .. N PROVE f[k] = Value(f, k)
    <3>. HIDE DEF Value
    <3>. QED  BY <1>5
  <2>. HIDE DEF g
  <2>2. 0 \in T
    BY <1>2, <1>3, <2>1
  <2>3. ASSUME NEW k \in 1 .. N, k - 1 \in T PROVE k \in T
    <3>1. f[k - 1] = g[k - 1] /\ k \in 0 .. N
      BY <2>3
    <3>2. f[k] = Value(f, k) /\ g[k] = Value(g, k)
      <4>. HIDE DEF Value
      <4>. QED  BY <1>3, <2>1, <3>1
    <3>. QED  BY <3>1, <3>2
  <2>4. \A k \in 0 .. N : k \in T
    <3>. HIDE DEF T, N
    <3>. QED  BY <1>2, <2>2, <2>3, CountUp
  <2>5. \A k \in 0 .. N : f[k] = g[k]
    BY <2>4
  <2>6. f = [k \in 0 .. N |-> f[k]] /\ g = [k \in 0 .. N |-> g[k]]
    <3>1. f = [k \in 0 .. N |-> f[k]]
      <4>. HIDE DEF Value
      <4>. QED  BY <1>5
    <3>2. g = [k \in 0 .. N |-> g[k]]
      BY DEF g
    <3>. QED  BY <3>1, <3>2
  <2>. QED  BY <2>5, <2>6
<1>. QED
  <2>. HIDE DEF Equation, g
  <2>1. Nth(m) = g
    BY <1>1, <1>4, <1>5
  <2>. QED  BY <2>1 DEF g

\* Nodes lists the chain.
LEMMA ChainNodes == \A m \in Managers : \A s : Chain(m, s) => Nodes(m) = s
<1>. SUFFICES ASSUME NEW m \in Managers, NEW s, Chain(m, s) PROVE Nodes(m) = s
  OBVIOUS
<1>. DEFINE N == Cardinality(Cell)
            met == {k \in DOMAIN Nth(m) : Nth(m)[k] # NULL}
<1>1. /\ s \in Seq(Cell) /\ N \in Nat /\ Len(s) <= N
      /\ \A i \in 1 .. Len(s) : s[i] \in Cell /\ s[i] # NULL
  BY Fits, ManagerAssumption DEF Chain
<1>2. /\ DOMAIN Nth(m) = 0 .. N
      /\ \A k \in 0 .. N : Nth(m)[k] = IF k < Len(s) THEN s[k + 1] ELSE NULL
  BY NthIs
<1>3. met = 0 .. Len(s) - 1
  BY <1>1, <1>2
<1>4. Cardinality(met) = Len(s)
  <2>1. 0 \in Int /\ Len(s) - 1 \in Int /\ (0 > Len(s) - 1 <=> Len(s) = 0)
    BY <1>1
  <2>. DEFINE e == Len(s) - 1
  <2>a. 0 \in Int /\ e \in Int
    BY <2>1
  <2>. HIDE DEF e
  <2>2. Cardinality(0 .. e) = IF 0 > e THEN 0 ELSE e - 0 + 1
    BY ONLY <2>a, FS_Interval
  <2>3. Cardinality(0 .. e) = Len(s)
    BY <1>1, <2>1, <2>2 DEF e
  <2>. QED  BY <1>3, <2>3 DEF e
<1>5. Nodes(m) = [i \in 1 .. Len(s) |-> Nth(m)[i - 1]]
  BY <1>4 DEF Nodes
<1>6. \A i \in 1 .. Len(s) : Nth(m)[i - 1] = s[i]
  BY <1>1, <1>2
<1>7. s = [i \in 1 .. Len(s) |-> s[i]]
  BY <1>1
<1>. QED  BY <1>5, <1>6, <1>7

LEMMA ChainNodesNext == (\A m \in Managers : \A s : Chain(m, s) => Nodes(m) = s)'
BY ChainNodes, PTL

\* What Files shows: what the nodes of the chain hold.
LEMMA ChainFiles ==
  \A m \in Managers : \A s : Chain(m, s) => Files(m) = [i \in 1 .. Len(s) |-> file[m][s[i]]]
<1>. SUFFICES ASSUME NEW m \in Managers, NEW s, Chain(m, s)
              PROVE  Files(m) = [i \in 1 .. Len(s) |-> file[m][s[i]]]
  OBVIOUS
<1>1. Nodes(m) = s /\ DOMAIN s = 1 .. Len(s)
  BY ChainNodes DEF Chain
<1>. QED  BY <1>1 DEF Files

LEMMA ChainFilesNext ==
  (\A m \in Managers : \A s : Chain(m, s) => Files(m) = [i \in 1 .. Len(s) |-> file[m][s[i]]])'
BY ChainFiles, PTL

\* RemoveAt closes the gap.
LEMMA RemoveAtIs ==
  ASSUME NEW S, NEW s \in Seq(S), NEW n \in 1 .. Len(s)
  PROVE  /\ RemoveAt(s, n) \in Seq(S)
         /\ RemoveAt(s, n) = [i \in 1 .. Len(s) - 1 |-> IF i < n THEN s[i] ELSE s[i + 1]]
<1>. DEFINE a == SubSeq(s, 1, n - 1)
            b == SubSeq(s, n + 1, Len(s))
            r == [i \in 1 .. Len(s) - 1 |-> IF i < n THEN s[i] ELSE s[i + 1]]
<1>1. /\ a \in Seq(S) /\ Len(a) = n - 1
      /\ \A i \in 1 .. n - 1 : a[i] = s[i]
  <2>1. \A i \in 1 .. n - 1 : s[i] \in S
    OBVIOUS
  <2>2. n - 1 \in Nat
    OBVIOUS
  <2>. QED  BY <2>1, <2>2
<1>2. /\ b \in Seq(S) /\ Len(b) = Len(s) - n
      /\ \A i \in 1 .. Len(s) - n : b[i] = s[n + i]
  <2>1. \A i \in n + 1 .. Len(s) : s[i] \in S
    OBVIOUS
  <2>. QED  BY <2>1
<1>. HIDE DEF a, b
<1>3. /\ a \o b \in Seq(S) /\ Len(a \o b) = Len(s) - 1
      /\ \A i \in 1 .. Len(s) - 1 : (a \o b)[i] = IF i <= n - 1 THEN a[i] ELSE b[i - (n - 1)]
  <2>1. Len(a) + Len(b) = Len(s) - 1
    BY <1>1, <1>2
  <2>2. /\ a \o b \in Seq(S) /\ Len(a \o b) = Len(a) + Len(b)
        /\ \A i \in 1 .. Len(a) + Len(b) :
             (a \o b)[i] = IF i <= Len(a) THEN a[i] ELSE b[i - Len(a)]
    BY <1>1, <1>2, ConcatProperties, Zenon
  <2>. QED  BY <1>1, <2>1, <2>2
<1>4. \A i \in 1 .. Len(s) - 1 : (a \o b)[i] = IF i < n THEN s[i] ELSE s[i + 1]
  <2>1. ASSUME NEW i \in 1 .. Len(s) - 1 PROVE (a \o b)[i] = IF i < n THEN s[i] ELSE s[i + 1]
    <3>1. CASE i < n
      BY <1>1, <1>3, <3>1
    <3>2. CASE ~(i < n)
      <4>1. i - (n - 1) \in 1 .. Len(s) - n /\ n + (i - (n - 1)) = i + 1
        BY <3>2
      <4>2. (a \o b)[i] = b[i - (n - 1)]
        BY <1>3, <3>2
      <4>. QED  BY <1>2, <3>2, <4>1, <4>2
    <3>. QED  BY <3>1, <3>2
  <2>. QED  BY <2>1
<1>5. a \o b = r
  <2>1. a \o b = [i \in 1 .. Len(s) - 1 |-> (a \o b)[i]]
    <3>. DEFINE x == a \o b
    <3>1. x \in Seq(S) /\ Len(x) = Len(s) - 1
      BY <1>3
    <3>. HIDE DEF x
    <3>2. x = [i \in 1 .. Len(s) - 1 |-> x[i]]
      BY <3>1
    <3>. QED  BY <3>2 DEF x
  <2>. QED  BY <1>4, <2>1
<1>. QED  BY <1>3, <1>5 DEF RemoveAt, a, b

-----------------------------------------------------------------------------
(* The list after a step.                                                  *)

\* A list nobody touched.
LEMMA SameChain ==
  ASSUME NEW m, NEW s, Chain(m, s),
         fileList_root'[m] = fileList_root[m], tail'[m] = tail[m],
         allocated'[m] = allocated[m], next'[m] = next[m]
  PROVE  Chain(m, s)'
BY DEF Chain

\* The list of a manager that ended.
LEMMA NoChain ==
  ASSUME NEW m, fileList_root'[m] = NULL, tail'[m] = NULL, allocated'[m] = {}
  PROVE  Chain(m, <<>>)'
BY DEF Chain, ToSet, IsInjective

\* addFile puts the node behind the last.
LEMMA AddChain ==
  ASSUME TypeOK, NEW m \in Managers, NEW s, Chain(m, s),
         NEW c \in Cell, NEW line \in Typed, NEW type \in Answers, AddFile(m, c, line, type)
  PROVE  Chain(m, Append(s, c))'
<1>. DEFINE n == Len(s)
            t == Append(s, c)
<1>1. /\ s \in Seq(Cell) /\ ToSet(s) = allocated[m] /\ IsInjective(s)
      /\ n \in Nat /\ (s = <<>> <=> n = 0)
  <2>1. s \in Seq(Cell)
    BY DEF Chain
  <2>. QED  BY <2>1, EmptySeq DEF Chain
<1>2. /\ t \in Seq(Cell) /\ t # <<>> /\ Len(t) = n + 1
      /\ \A i \in 1 .. n : t[i] = s[i]
      /\ t[n + 1] = c
  BY <1>1, AppendProperties
<1>3. DOMAIN s = 1 .. n /\ DOMAIN t = 1 .. n + 1 /\ \A i \in 1 .. n : s[i] \in Cell
  BY <1>1, <1>2
<1>4. /\ c \notin allocated[m]
      /\ allocated'[m] = allocated[m] \cup {c} /\ tail'[m] = c
      /\ fileList_root'[m] = IF tail[m] = NULL THEN c ELSE fileList_root[m]
      /\ next'[m][c] = NULL
  <2>1. /\ c \notin allocated[m]
        /\ allocated'[m] = allocated[m] \cup {c} /\ tail'[m] = c
    BY DEF AddFile, TypeOK
  <2>2. tail[m] # NULL => tail[m] \in Cell /\ tail[m] \in allocated[m]
    <3>1. s # <<>> => s[n] \in Cell /\ s[n] \in ToSet(s)
      BY <1>1, <1>3 DEF ToSet
    <3>. QED  BY <1>1, <3>1 DEF Chain
  <2>3. CASE tail[m] = NULL
    <3>1. next' = [next EXCEPT ![m][c] = NULL]
      BY <2>3 DEF AddFile
    <3>2. fileList_root'[m] = c
      BY <2>3 DEF AddFile, TypeOK
    <3>3. next'[m][c] = NULL
      BY <3>1 DEF TypeOK
    <3>. QED  BY <2>1, <2>3, <3>2, <3>3
  <2>4. CASE tail[m] # NULL
    <3>1. next' = [next EXCEPT ![m][c] = NULL, ![m][tail[m]] = c]
      BY <2>4 DEF AddFile
    <3>2. fileList_root'[m] = fileList_root[m]
      BY <2>4 DEF AddFile
    <3>3. next'[m][c] = NULL
      BY <2>1, <2>2, <2>4, <3>1 DEF TypeOK
    <3>. QED  BY <2>1, <2>4, <3>2, <3>3
  <2>. QED  BY <2>3, <2>4
<1>5. \A d \in Cell \ {c} : next'[m][d] = IF d = tail[m] THEN c ELSE next[m][d]
  <2>1. CASE tail[m] = NULL
    <3>1. next' = [next EXCEPT ![m][c] = NULL]
      BY <2>1 DEF AddFile
    <3>. QED  BY <2>1, <3>1, ManagerAssumption DEF TypeOK
  <2>2. CASE tail[m] # NULL
    <3>1. next' = [next EXCEPT ![m][c] = NULL, ![m][tail[m]] = c]
      BY <2>2 DEF AddFile
    <3>. QED  BY <2>2, <3>1 DEF TypeOK
  <2>. QED  BY <2>1, <2>2
<1>6. tail[m] = IF n = 0 THEN NULL ELSE s[n]
  BY <1>1 DEF Chain
<1>7. \A i \in 1 .. n : s[i] \in allocated[m] /\ s[i] # c
  BY <1>1, <1>3, <1>4 DEF ToSet
<1>8. ToSet(t) = allocated'[m]
  <2>1. \A i \in 1 .. n : i \in 1 .. n + 1
    BY <1>1
  <2>2. n + 1 \in 1 .. n + 1
    BY <1>1
  <2>3. \A i \in 1 .. n + 1 : i = n + 1 \/ i \in 1 .. n
    BY <1>1
  <2>. HIDE DEF t, n
  <2>. QED  BY <1>1, <1>2, <1>3, <1>4, <2>1, <2>2, <2>3 DEF ToSet
<1>9. IsInjective(t)
  <2>1. \A i \in 1 .. n + 1 : i = n + 1 \/ i \in 1 .. n
    BY <1>1
  <2>. HIDE DEF t, n
  <2>. QED  BY <1>1, <1>2, <1>3, <1>7, <2>1 DEF IsInjective
<1>10. fileList_root'[m] = t[1]
  <2>1. tail[m] = NULL <=> n = 0
    BY <1>1, <1>3, <1>6, ManagerAssumption
  <2>2. CASE n = 0
    <3>. HIDE DEF t, n
    <3>. QED  BY <1>2, <1>4, <2>1, <2>2
  <2>3. CASE n # 0
    <3>1. fileList_root[m] = s[1]
      BY <1>1, <2>3 DEF Chain
    <3>. HIDE DEF t, n
    <3>. QED  BY <1>1, <1>2, <1>4, <2>1, <2>3, <3>1
  <2>. QED  BY <2>2, <2>3
<1>11. ASSUME NEW i \in 1 .. n + 1
       PROVE  next'[m][t[i]] = IF i = n + 1 THEN NULL ELSE t[i + 1]
  <2>. HIDE DEF t
  <2>1. CASE i = n + 1
    BY <1>2, <1>4, <2>1
  <2>2. CASE i \in 1 .. n
    <3>1. t[i] = s[i] /\ s[i] \in Cell \ {c}
      BY <1>2, <1>3, <1>7, <2>2
    <3>2. CASE i = n
      BY <1>2, <1>5, <1>6, <2>2, <3>1, <3>2
    <3>3. CASE i # n
      <4>1. i + 1 \in 1 .. n /\ n \in 1 .. n
        BY <2>2, <3>3
      <4>2. s[i] # s[n]
        BY <1>1, <1>3, <2>2, <3>3, <4>1 DEF IsInjective
      <4>3. next[m][s[i]] = s[i + 1]
        BY <2>2, <3>3 DEF Chain
      <4>. QED  BY <1>1, <1>2, <1>5, <1>6, <2>2, <3>1, <4>1, <4>2, <4>3
    <3>. QED  BY <3>2, <3>3
  <2>. QED  BY <1>1, <2>1, <2>2
<1>12. tail'[m] = t[n + 1]
  BY <1>2, <1>4
<1>. HIDE DEF t, n
<1>13. Chain(m, t)'
  BY <1>2, <1>8, <1>9, <1>10, <1>11, <1>12 DEF Chain
<1>. QED  BY <1>13 DEF t

\* What removeFile does to the pointers: those around the n-th node close up.
Unlinked(m, s, n) ==
  /\ allocated'[m] = allocated[m] \ {s[n]}
  /\ fileList_root'[m] = IF n = 1 THEN next[m][s[n]] ELSE fileList_root[m]
  /\ tail'[m] = IF s[n] # tail[m] THEN tail[m] ELSE IF n = 1 THEN NULL ELSE s[n - 1]
  /\ \A d \in Cell \ {s[n]} :
       next'[m][d] = IF n > 1 /\ d = s[n - 1] THEN next[m][s[n]] ELSE next[m][d]

LEMMA RemoveChain ==
  ASSUME NEW m \in Managers, NEW s, Chain(m, s), NEW n \in 1 .. Len(s), Unlinked(m, s, n)
  PROVE  Chain(m, RemoveAt(s, n))'
<1>. DEFINE L == Len(s)
            c == s[n]
            t == RemoveAt(s, n)
<1>1. /\ s \in Seq(Cell) /\ ToSet(s) = allocated[m] /\ IsInjective(s)
      /\ L \in Nat /\ n \in 1 .. L /\ DOMAIN s = 1 .. L /\ s # <<>>
      /\ \A i \in 1 .. L : s[i] \in Cell
  <2>1. s \in Seq(Cell)
    BY DEF Chain
  <2>. QED  BY <2>1, EmptySeq DEF Chain
<1>2. /\ t \in Seq(Cell) /\ t = [i \in 1 .. L - 1 |-> IF i < n THEN s[i] ELSE s[i + 1]]
  BY <1>1, RemoveAtIs
<1>. HIDE DEF t, L
<1>3. /\ Len(t) = L - 1 /\ DOMAIN t = 1 .. L - 1 /\ (t = <<>> <=> L = 1)
      /\ \A i \in 1 .. L - 1 : t[i] = IF i < n THEN s[i] ELSE s[i + 1]
  <2>1. DOMAIN t = 1 .. L - 1 /\ \A i \in 1 .. L - 1 : t[i] = IF i < n THEN s[i] ELSE s[i + 1]
    BY <1>2
  <2>2. Len(t) = L - 1
    BY <1>1, <1>2, <2>1
  <2>3. t = <<>> <=> Len(t) = 0
    BY <1>2, EmptySeq
  <2>. QED  BY <1>1, <2>1, <2>2, <2>3
<1>4. \A i, j \in 1 .. L : s[i] = s[j] => i = j
  BY <1>1 DEF IsInjective
<1>5. ToSet(t) = allocated[m] \ {c}
  <2>1. ASSUME NEW x \in ToSet(t) PROVE x \in ToSet(s) /\ x # c
    <3>1. PICK i \in 1 .. L - 1 : x = t[i]
      BY <1>3, <2>1 DEF ToSet
    <3>2. i \in 1 .. L /\ i + 1 \in 1 .. L
      BY <1>1, <3>1
    <3>3. \E j \in 1 .. L : x = s[j] /\ j # n
      <4>1. CASE i < n
        BY <1>1, <1>3, <3>1, <3>2, <4>1
      <4>2. CASE ~(i < n)
        <5>1. x = s[i + 1] /\ i + 1 # n
          BY <1>1, <1>3, <3>1, <4>2
        <5>. QED  BY <3>2, <5>1
      <4>. QED  BY <4>1, <4>2
    <3>. QED  BY <1>1, <1>4, <3>3 DEF ToSet
  <2>2. ASSUME NEW x \in ToSet(s), x # c PROVE x \in ToSet(t)
    <3>1. PICK i \in 1 .. L : x = s[i]
      BY <1>1, <2>2 DEF ToSet
    <3>2. CASE i < n
      <4>1. i \in 1 .. L - 1 /\ t[i] = x
        BY <1>1, <1>3, <3>1, <3>2
      <4>. QED  BY <1>3, <4>1 DEF ToSet
    <3>3. CASE i > n
      <4>1. i - 1 \in 1 .. L - 1 /\ ~(i - 1 < n) /\ (i - 1) + 1 = i
        BY <1>1, <3>1, <3>3
      <4>2. t[i - 1] = x
        BY <1>3, <3>1, <4>1
      <4>. QED  BY <1>3, <4>1, <4>2 DEF ToSet
    <3>4. i # n
      BY <2>2, <3>1
    <3>. QED  BY <1>1, <3>1, <3>2, <3>3, <3>4
  <2>. QED  BY <1>1, <2>1, <2>2
<1>6. IsInjective(t)
  <2>1. ASSUME NEW i \in 1 .. L - 1, NEW j \in 1 .. L - 1, t[i] = t[j] PROVE i = j
    <3>1. /\ i \in 1 .. L /\ j \in 1 .. L /\ i + 1 \in 1 .. L /\ j + 1 \in 1 .. L
      BY <1>1
    <3>. QED  BY <1>1, <1>3, <1>4, <2>1, <3>1
  <2>. QED  BY <1>3, <2>1 DEF IsInjective
<1>7. /\ fileList_root[m] = s[1] /\ tail[m] = s[L]
      /\ \A i \in 1 .. L : next[m][s[i]] = IF i = L THEN NULL ELSE s[i + 1]
  BY <1>1 DEF Chain, L
<1>8. /\ allocated'[m] = allocated[m] \ {c}
      /\ fileList_root'[m] = IF n = 1 THEN next[m][c] ELSE s[1]
      /\ tail'[m] = IF c # s[L] THEN s[L] ELSE IF n = 1 THEN NULL ELSE s[n - 1]
      /\ \A d \in Cell \ {c} :
           next'[m][d] = IF n > 1 /\ d = s[n - 1] THEN next[m][c] ELSE next[m][d]
  BY <1>7 DEF Unlinked
<1>9. next[m][c] = IF n = L THEN NULL ELSE s[n + 1]
  BY <1>1, <1>7
<1>. HIDE DEF c
<1>10. fileList_root'[m] = IF t = <<>> THEN NULL ELSE t[1]
  BY <1>1, <1>3, <1>8, <1>9
<1>11. tail'[m] = IF t = <<>> THEN NULL ELSE t[L - 1]
  <2>1. c = s[L] <=> n = L
    BY <1>1, <1>4 DEF c
  <2>2. CASE n = L
    BY <1>1, <1>3, <1>8, <2>1, <2>2
  <2>3. CASE n # L
    <3>1. L - 1 \in 1 .. L - 1 /\ ~(L - 1 < n) /\ (L - 1) + 1 = L
      BY <1>1, <2>3
    <3>2. t[L - 1] = s[L]
      BY <1>3, <3>1
    <3>. QED  BY <1>1, <1>3, <1>8, <2>1, <2>3, <3>1, <3>2
  <2>. QED  BY <2>2, <2>3
<1>12. ASSUME NEW i \in 1 .. L - 1
       PROVE  next'[m][t[i]] = IF i = L - 1 THEN NULL ELSE t[i + 1]
  <2>1. CASE i < n
    <3>1. i \in 1 .. L /\ t[i] = s[i] /\ s[i] \in Cell \ {c} /\ i # L
      BY <1>1, <1>3, <1>4, <2>1 DEF c
    <3>2. CASE i = n - 1
      <4>1. next'[m][t[i]] = IF n = L THEN NULL ELSE s[n + 1]
        BY <1>1, <1>8, <1>9, <3>1, <3>2
      <4>2. i # L - 1 => t[i + 1] = s[n + 1]
        BY <1>1, <1>3, <3>2
      <4>. QED  BY <1>1, <3>2, <4>1, <4>2
    <3>3. CASE i # n - 1
      <4>1. n > 1 => n - 1 \in 1 .. L /\ s[i] # s[n - 1]
        BY <1>1, <1>4, <3>1, <3>3
      <4>2. next'[m][t[i]] = s[i + 1]
        BY <1>1, <1>7, <1>8, <3>1, <4>1
      <4>3. i # L - 1 /\ t[i + 1] = s[i + 1]
        BY <1>1, <1>3, <2>1, <3>3
      <4>. QED  BY <4>2, <4>3
    <3>. QED  BY <3>2, <3>3
  <2>2. CASE ~(i < n)
    <3>1. i + 1 \in 1 .. L /\ t[i] = s[i + 1] /\ s[i + 1] \in Cell \ {c}
      BY <1>1, <1>3, <1>4, <2>2 DEF c
    <3>2. n > 1 => n - 1 \in 1 .. L /\ s[i + 1] # s[n - 1]
      BY <1>1, <1>4, <2>2, <3>1
    <3>3. next'[m][t[i]] = IF i + 1 = L THEN NULL ELSE s[(i + 1) + 1]
      BY <1>7, <1>8, <3>1, <3>2
    <3>4. i # L - 1 => t[i + 1] = s[(i + 1) + 1]
      BY <1>1, <1>3, <2>2
    <3>. QED  BY <1>1, <3>3, <3>4
  <2>. QED  BY <2>1, <2>2
<1>13. Chain(m, t)'
  <2>1. tail'[m] = IF t = <<>> THEN NULL ELSE t[Len(t)]
    BY <1>3, <1>11
  <2>2. \A i \in 1 .. Len(t) : next'[m][t[i]] = IF i = Len(t) THEN NULL ELSE t[i + 1]
    BY <1>3, <1>12
  <2>3. ToSet(t) = allocated'[m]
    BY <1>5, <1>8
  <2>4. t \in Seq(Cell)
    BY <1>2
  <2>. QED  BY <1>6, <1>10, <2>1, <2>2, <2>3, <2>4 DEF Chain
<1>. QED  BY <1>13 DEF t

\* The entry numbers of removeFile count the chain from 0.
LEMMA RemoveHeadUnlinks ==
  ASSUME TypeOK, NEW m \in Managers, NEW s, Chain(m, s), RemoveHead(m)
  PROVE  1 \in 1 .. Len(s) /\ fileList_root[m] = s[1] /\ Unlinked(m, s, 1)
<1>1. s \in Seq(Cell) /\ fileList_root[m] # NULL
  BY DEF Chain, RemoveHead
<1>2. s # <<>> /\ Len(s) \in Nat \ {0} /\ fileList_root[m] = s[1] /\ s[1] \in Cell
  BY <1>1, EmptySeq DEF Chain
<1>3. /\ allocated'[m] = allocated[m] \ {s[1]}
      /\ fileList_root'[m] = next[m][s[1]]
      /\ tail'[m] = IF s[1] = tail[m] THEN NULL ELSE tail[m]
      /\ next' = [next EXCEPT ![m][s[1]] = NULL]
  BY <1>2 DEF RemoveHead, Release, TailBack, TypeOK
<1>4. \A d \in Cell \ {s[1]} : next'[m][d] = next[m][d]
  BY <1>2, <1>3 DEF TypeOK
<1>. QED  BY <1>2, <1>3, <1>4 DEF Unlinked

LEMMA RemoveLaterUnlinks ==
  ASSUME TypeOK, NEW m \in Managers, NEW s, Chain(m, s), NEW number \in Nat,
         RemoveLater(m, number)
  PROVE  number + 1 \in 1 .. Len(s) /\ Nth(m)[number] = s[number + 1]
         /\ Unlinked(m, s, number + 1)
<1>1. /\ s \in Seq(Cell) /\ Len(s) \in Nat /\ Cardinality(Cell) \in Nat
      /\ Len(s) <= Cardinality(Cell) /\ IsInjective(s)
  BY Fits DEF Chain
<1>2. /\ DOMAIN Nth(m) = 0 .. Cardinality(Cell)
      /\ \A k \in 0 .. Cardinality(Cell) : Nth(m)[k] = IF k < Len(s) THEN s[k + 1] ELSE NULL
  BY NthIs
<1>3. number \in 0 .. Cardinality(Cell) /\ Nth(m)[number] # NULL /\ number > 0
  BY <1>2 DEF RemoveLater, Count
<1>4. /\ number < Len(s) /\ number + 1 \in 1 .. Len(s) /\ number \in 1 .. Len(s)
      /\ Nth(m)[number] = s[number + 1] /\ Nth(m)[number - 1] = s[number]
  <2>1. number < Len(s)
    BY <1>2, <1>3
  <2>2. number - 1 \in 0 .. Cardinality(Cell) /\ number - 1 < Len(s) /\ (number - 1) + 1 = number
    BY <1>1, <1>3, <2>1
  <2>. QED  BY <1>1, <1>2, <1>3, <2>1, <2>2
<1>. DEFINE c == s[number + 1]
            before == s[number]
<1>5. c \in Cell /\ before \in Cell /\ before # c
  BY <1>1, <1>4 DEF IsInjective
<1>6. /\ allocated'[m] = allocated[m] \ {c}
      /\ fileList_root'[m] = fileList_root[m]
      /\ tail'[m] = IF c = tail[m] THEN before ELSE tail[m]
      /\ next' = [next EXCEPT ![m][before] = next[m][c], ![m][c] = NULL]
  BY <1>4 DEF RemoveLater, Count, Release, TailBack, TypeOK
<1>7. \A d \in Cell \ {c} : next'[m][d] = IF d = before THEN next[m][c] ELSE next[m][d]
  BY <1>5, <1>6 DEF TypeOK
<1>8. number + 1 # 1 /\ number + 1 > 1 /\ (number + 1) - 1 = number
  BY <1>3
<1>. HIDE DEF c, before
<1>. DEFINE n == number + 1
<1>9. n # 1 /\ n > 1 /\ s[n - 1] = before /\ s[n] = c
  BY <1>8 DEF c, before
<1>. HIDE DEF n
<1>10. Unlinked(m, s, n)
  <2>1. tail'[m] = IF s[n] # tail[m] THEN tail[m] ELSE IF n = 1 THEN NULL ELSE s[n - 1]
    BY <1>6, <1>9
  <2>2. \A d \in Cell \ {s[n]} :
           next'[m][d] = IF n > 1 /\ d = s[n - 1] THEN next[m][s[n]] ELSE next[m][d]
    BY <1>7, <1>9
  <2>. QED  BY <1>6, <1>9, <2>1, <2>2 DEF Unlinked
<1>. QED  BY <1>4, <1>10 DEF n

-----------------------------------------------------------------------------
(* What an operation makes of the files.                                   *)

\* A list shows files.
LEMMA FilesType ==
  ASSUME TypeOK, NEW m \in Managers, NEW s, Chain(m, s)
  PROVE  Files(m) \in Seq(File) /\ Len(Files(m)) = Len(s)
<1>1. s \in Seq(Cell) /\ Files(m) = [i \in 1 .. Len(s) |-> file[m][s[i]]]
  BY ChainFiles DEF Chain
<1>2. \A i \in 1 .. Len(s) : file[m][s[i]] \in File
  <2>1. \A i \in 1 .. Len(s) : s[i] \in Cell
    BY <1>1
  <2>. QED  BY <2>1 DEF TypeOK, File
<1>3. Len(s) \in Nat
  BY <1>1
<1>. QED  BY <1>1, <1>2, <1>3

\* The same nodes with the same files in them.
LEMMA SameFiles ==
  ASSUME NEW m \in Managers, NEW s, Chain(m, s), Chain(m, s)', file'[m] = file[m]
  PROVE  Files(m)' = Files(m)
<1>1. Files(m) = [i \in 1 .. Len(s) |-> file[m][s[i]]]
  BY ChainFiles
<1>2. Files(m)' = [i \in 1 .. Len(s) |-> file'[m][s[i]]]
  BY ChainFilesNext
<1>. QED  BY <1>1, <1>2

LEMMA NoFiles == ASSUME NEW m \in Managers, Chain(m, <<>>)' PROVE Files(m)' = <<>>
<1>1. Files(m)' = [i \in 1 .. Len(<<>>) |-> file'[m][<<>>[i]]]
  BY ChainFilesNext
<1>. DEFINE t == Files(m)'
<1>2. t \in Seq({}) /\ Len(t) = 0
  <2>1. t = [i \in 1 .. 0 |-> file'[m][<<>>[i]]]
    BY <1>1
  <2>. HIDE DEF t
  <2>. QED  BY <2>1
<1>. HIDE DEF t
<1>3. t = <<>>
  BY <1>2, EmptySeq
<1>. QED  BY <1>3 DEF t

\* addFile shows one file more, the last.
LEMMA AddShows ==
  ASSUME TypeOK, NEW m \in Managers, NEW s, Chain(m, s),
         NEW c \in Cell, NEW line \in Typed, NEW type \in Answers, AddFile(m, c, line, type)
  PROVE  Files(m)' = Append(Files(m), [path |-> Trim[line], type |-> type])
<1>. DEFINE f == [path |-> Trim[line], type |-> type]
            n == Len(s)
            t == Append(s, c)
            old == Files(m)
            new == Files(m)'
<1>1. s \in Seq(Cell) /\ n \in Nat /\ ToSet(s) = allocated[m]
  BY DEF Chain
<1>2. /\ t \in Seq(Cell) /\ Len(t) = n + 1 /\ t[n + 1] = c
      /\ \A i \in 1 .. n : t[i] = s[i]
  BY <1>1, AppendProperties
<1>3. /\ file'[m][c] = f
      /\ \A d \in Cell \ {c} : file'[m][d] = file[m][d]
      /\ c \notin allocated[m]
  BY DEF AddFile, TypeOK
<1>4. old = [i \in 1 .. n |-> file[m][s[i]]]
  BY ChainFiles
<1>5. new = [i \in 1 .. n + 1 |-> file'[m][t[i]]]
  <2>1. Chain(m, t)'
    BY AddChain
  <2>2. new = [i \in 1 .. Len(t) |-> file'[m][t[i]]]
    <3>. HIDE DEF t
    <3>. QED  BY <2>1, ChainFilesNext
  <2>. QED  BY <1>2, <2>2
<1>6. \A i \in 1 .. n : s[i] \in Cell \ {c}
  BY <1>1, <1>3 DEF ToSet
<1>7. old \in Seq(File) /\ f \in File
  <2>1. Trim[line] \in Path /\ type \in Letter \cup {NewLine}
    BY ManagerAssumption
  <2>. QED  BY <2>1, FilesType DEF File
<1>. HIDE DEF f, n, t, old, new
<1>8. \A i \in 1 .. n : new[i] = old[i]
  BY <1>1, <1>2, <1>3, <1>4, <1>5, <1>6
<1>9. new[n + 1] = f
  BY <1>1, <1>2, <1>3, <1>5
<1>10. Len(old) = n
  BY <1>1, <1>4, <1>7
<1>11. Append(old, f) = [i \in 1 .. n + 1 |-> IF i <= n THEN old[i] ELSE f]
  <2>. DEFINE a == Append(old, f)
  <2>1. /\ a \in Seq(File) /\ Len(a) = Len(old) + 1 /\ a[Len(old) + 1] = f
        /\ \A i \in 1 .. Len(old) : a[i] = old[i]
    BY ONLY <1>7, AppendProperties
  <2>. HIDE DEF a
  <2>2. a = [i \in 1 .. n + 1 |-> a[i]]
    BY <1>10, <2>1
  <2>3. \A i \in 1 .. n + 1 : a[i] = IF i <= n THEN old[i] ELSE f
    BY <1>1, <1>10, <2>1
  <2>4. a = [i \in 1 .. n + 1 |-> IF i <= n THEN old[i] ELSE f]
    BY <2>2, <2>3
  <2>. QED  BY <2>4 DEF a
<1>12. new = [i \in 1 .. n + 1 |-> new[i]]
  BY <1>5
<1>13. \A i \in 1 .. n + 1 : new[i] = IF i <= n THEN old[i] ELSE f
  BY <1>1, <1>8, <1>9
<1>14. new = Append(old, f)
  BY <1>11, <1>12, <1>13
<1>. QED  BY <1>14 DEF f, old, new

\* removeFile shows one file less, the one whose number was given.
LEMMA RemoveShows ==
  ASSUME TypeOK, NEW m \in Managers, NEW s, Chain(m, s), NEW n \in 1 .. Len(s),
         Unlinked(m, s, n), \A d \in Cell \ {s[n]} : file'[m][d] = file[m][d]
  PROVE  n \in DOMAIN Files(m) /\ Files(m)' = RemoveAt(Files(m), n)
<1>. DEFINE L == Len(s)
            t == RemoveAt(s, n)
            old == Files(m)
            new == Files(m)'
<1>1. s \in Seq(Cell) /\ L \in Nat /\ IsInjective(s) /\ n \in 1 .. L
  BY DEF Chain
<1>2. t \in Seq(Cell) /\ t = [i \in 1 .. L - 1 |-> IF i < n THEN s[i] ELSE s[i + 1]]
  BY <1>1, RemoveAtIs
<1>3. old = [i \in 1 .. L |-> file[m][s[i]]] /\ old \in Seq(File) /\ Len(old) = L
  BY ChainFiles, FilesType
<1>4. new = [i \in 1 .. Len(t) |-> file'[m][t[i]]]
  <2>1. Chain(m, t)'
    BY RemoveChain
  <2>. HIDE DEF t
  <2>. QED  BY <2>1, ChainFilesNext
<1>5. \A i \in 1 .. L : s[i] \in Cell /\ (i # n => s[i] # s[n])
  BY <1>1 DEF IsInjective
<1>. HIDE DEF L, t, old, new
<1>6. Len(t) = L - 1
  BY <1>1, <1>2
<1>7. RemoveAt(old, n) = [i \in 1 .. L - 1 |-> IF i < n THEN old[i] ELSE old[i + 1]]
  <2>1. old \in Seq(File) /\ n \in 1 .. Len(old)
    BY <1>1, <1>3
  <2>2. RemoveAt(old, n) = [i \in 1 .. Len(old) - 1 |-> IF i < n THEN old[i] ELSE old[i + 1]]
    BY ONLY <2>1, RemoveAtIs
  <2>. QED  BY <1>3, <2>2
<1>8. ASSUME NEW i \in 1 .. L - 1
      PROVE  new[i] = IF i < n THEN old[i] ELSE old[i + 1]
  <2>1. new[i] = file'[m][t[i]]
    BY <1>4, <1>6
  <2>2. CASE i < n
    <3>1. i \in 1 .. L /\ i # n /\ t[i] = s[i]
      BY <1>1, <1>2, <2>2
    <3>. QED  BY <1>3, <1>5, <2>1, <2>2, <3>1
  <2>3. CASE ~(i < n)
    <3>1. i + 1 \in 1 .. L /\ i + 1 # n /\ t[i] = s[i + 1]
      BY <1>1, <1>2, <2>3
    <3>. QED  BY <1>3, <1>5, <2>1, <2>3, <3>1
  <2>. QED  BY <2>2, <2>3
<1>9. new = [i \in 1 .. L - 1 |-> new[i]]
  BY <1>4, <1>6
<1>10. new = RemoveAt(old, n)
  BY <1>7, <1>8, <1>9
<1>11. n \in DOMAIN old
  BY <1>1, <1>3
<1>. QED  BY <1>10, <1>11 DEF old, new

\* An order to add a file adds it.
LEMMA AdditionObeyed ==
  ASSUME NEW list, NEW f \in File
  PROVE  /\ Book!Addition(f) \in Book!Orders
         /\ Book!Obeyed(list, Book!Addition(f)) = Append(list, f)
<1>1. Book!Addition(f) = [kind |-> "add", file |-> f]
  BY DEF Book!Addition
<1>2. Book!Addition(f).kind = "add" /\ Book!Addition(f).file = f
  BY <1>1
<1>. QED  BY <1>1, <1>2 DEF Book!Orders, Book!Obeyed

\* An order to remove a number removes the entry that has it, if one has.
LEMMA RemovalObeyed ==
  ASSUME NEW list \in Seq(File), NEW number \in Int
  PROVE  /\ Book!Removal(number) \in Book!Orders
         /\ number \in 0 .. Len(list) - 1 =>
              Book!Obeyed(list, Book!Removal(number)) = RemoveAt(list, number + 1)
         /\ number \notin 0 .. Len(list) - 1 =>
              Book!Obeyed(list, Book!Removal(number)) = list
<1>1. Book!Removal(number) = [kind |-> "remove", number |-> number]
  BY DEF Book!Removal
<1>2. Book!Removal(number).kind = "remove" /\ Book!Removal(number).number = number
  BY <1>1
<1>3. Book!RemoveAt(list, number + 1) = RemoveAt(list, number + 1)
  BY DEF Book!RemoveAt, RemoveAt
<1>4. Book!Removal(number) \in Book!Orders
  BY <1>1 DEF Book!Orders
<1>5. "remove" # "add"
  OBVIOUS
<1>6. ASSUME number \in 0 .. Len(list) - 1
      PROVE  Book!Obeyed(list, Book!Removal(number)) = RemoveAt(list, number + 1)
  BY <1>2, <1>3, <1>5, <1>6 DEF Book!Obeyed
<1>7. ASSUME number \notin 0 .. Len(list) - 1
      PROVE  Book!Obeyed(list, Book!Removal(number)) = list
  BY <1>2, <1>5, <1>7 DEF Book!Obeyed
<1>. QED  BY <1>4, <1>6, <1>7

\* What the operator of a manager may see of one step of it.
Shows(m) ==
  \/ /\ m \in up /\ order[m] = NULL /\ up' = up
     /\ order'[m] \in Book!Orders /\ order' = [order EXCEPT ![m] = order'[m]]
     /\ Files(m)' = Book!Obeyed(Files(m), order'[m])
  \/ /\ m \in up /\ up' = up
     /\ order' = [order EXCEPT ![m] = NULL] /\ Files(m)' = Files(m)
  \/ /\ m \notin up /\ up' = up \cup {m}
     /\ order' = order /\ Files(m)' = Files(m)
  \/ /\ m \in up /\ up' = up \ {m}
     /\ order' = [order EXCEPT ![m] = NULL] /\ Files(m)' = <<>>

\* An order that is obeyed is one of these.
LEMMA ObeyedShows ==
  ASSUME order \in [Managers -> Book!Orders \cup {NULL}], NEW m \in Managers, NEW o,
         m \in up, order[m] = NULL, up' = up,
         o \in Book!Orders, order' = [order EXCEPT ![m] = o],
         Files(m)' = Book!Obeyed(Files(m), o)
  PROVE  Shows(m)
<1>1. order'[m] = o
  OBVIOUS
<1>. QED  BY <1>1 DEF Shows

\* A manager's own list.
LEMMA OwnList ==
  ASSUME TypeOK, NEW m \in Managers, NEW s, Chain(m, s), ManagerStep(m),
         pc[m] = "menu" => order[m] = NULL
  PROVE  (\E t : Chain(m, t)') /\ Shows(m)
<1>0. order \in [Managers -> Book!Orders \cup {NULL}]
  BY DEF TypeOK
<1>1. ASSUME NEW c \in Cell, NEW line \in Typed, NEW type \in Answers, AddFile(m, c, line, type)
      PROVE  (\E t : Chain(m, t)') /\ Shows(m)
  <2>. DEFINE f == [path |-> Trim[line], type |-> type]
  <2>1. f \in File
    <3>1. Trim[line] \in Path /\ type \in Letter \cup {NewLine}
      BY ManagerAssumption
    <3>. QED  BY <3>1 DEF File
  <2>2. Chain(m, Append(s, c))'
    BY <1>1, AddChain
  <2>3. Files(m)' = Append(Files(m), f)
    BY <1>1, AddShows
  <2>4. /\ m \in up /\ up' = up /\ order[m] = NULL
        /\ order' = [order EXCEPT ![m] = Book!Addition(f)]
    BY <1>1 DEF AddFile
  <2>. HIDE DEF f
  <2>5. /\ Book!Addition(f) \in Book!Orders
        /\ Files(m)' = Book!Obeyed(Files(m), Book!Addition(f))
    BY <2>1, <2>3, AdditionObeyed
  <2>6. Shows(m)
    BY <1>0, <2>4, <2>5, ObeyedShows
  <2>. QED  BY <2>2, <2>6
<1>2. ASSUME RemoveHead(m) PROVE (\E t : Chain(m, t)') /\ Shows(m)
  <2>1. 1 \in 1 .. Len(s) /\ fileList_root[m] = s[1] /\ Unlinked(m, s, 1)
    BY <1>2, RemoveHeadUnlinks
  <2>2. \A d \in Cell \ {s[1]} : file'[m][d] = file[m][d]
    BY <1>2, <2>1 DEF RemoveHead, Release, TypeOK
  <2>3. Chain(m, RemoveAt(s, 1))'
    BY <2>1, RemoveChain
  <2>4. 1 \in DOMAIN Files(m) /\ Files(m)' = RemoveAt(Files(m), 1)
    BY <2>1, <2>2, RemoveShows
  <2>5. /\ m \in up /\ up' = up /\ order[m] = NULL
        /\ order' = [order EXCEPT ![m] = Book!Removal(0)]
    BY <1>2 DEF RemoveHead
  <2>6. Files(m) \in Seq(File) /\ 0 \in 0 .. Len(Files(m)) - 1 /\ 0 + 1 = 1
    BY <2>4, FilesType
  <2>7. /\ Book!Removal(0) \in Book!Orders
        /\ Files(m)' = Book!Obeyed(Files(m), Book!Removal(0))
    BY <2>4, <2>6, RemovalObeyed
  <2>8. Shows(m)
    BY <1>0, <2>5, <2>7, ObeyedShows
  <2>. QED  BY <2>3, <2>8
<1>3. ASSUME NEW number \in 1 .. Cardinality(Cell), RemoveLater(m, number)
      PROVE  (\E t : Chain(m, t)') /\ Shows(m)
  <2>. DEFINE n == number + 1
  <2>1. number \in Nat
    OBVIOUS
  <2>2. n \in 1 .. Len(s) /\ Nth(m)[number] = s[n] /\ Unlinked(m, s, n)
    BY <1>3, <2>1, RemoveLaterUnlinks
  <2>a. Files(m) \in Seq(File) /\ Len(Files(m)) = Len(s)
    BY FilesType
  <2>b. number \in Int /\ number \in 0 .. Len(Files(m)) - 1
    BY <2>1, <2>2, <2>a
  <2>c. /\ Book!Removal(number) \in Book!Orders
        /\ Book!Obeyed(Files(m), Book!Removal(number)) = RemoveAt(Files(m), n)
    BY <2>a, <2>b, RemovalObeyed
  <2>. HIDE DEF n
  <2>3. \A d \in Cell \ {s[n]} : file'[m][d] = file[m][d]
    BY <1>3, <2>2 DEF RemoveLater, Count, Release, TypeOK
  <2>4. Chain(m, RemoveAt(s, n))'
    BY <2>2, RemoveChain
  <2>5. Files(m)' = RemoveAt(Files(m), n)
    BY <2>2, <2>3, RemoveShows
  <2>6. /\ m \in up /\ up' = up /\ order[m] = NULL
        /\ order' = [order EXCEPT ![m] = Book!Removal(number)]
    BY <1>3 DEF RemoveLater
  <2>7. Shows(m)
    BY <1>0, <2>5, <2>6, <2>c, ObeyedShows
  <2>. QED  BY <2>4, <2>7
<1>4. ASSUME UNCHANGED listVars PROVE (\E t : Chain(m, t)') /\ Files(m)' = Files(m)
  <2>1. Chain(m, s)'
    BY <1>4, SameChain
  <2>2. Files(m)' = Files(m)
    BY <1>4, <2>1, SameFiles
  <2>. QED  BY <2>1, <2>2
<1>5. ASSUME NEW number \in -1 .. Cardinality(Cell), RemoveNothing(m, number)
      PROVE  (\E t : Chain(m, t)') /\ Shows(m)
  <2>1. (\E t : Chain(m, t)') /\ Files(m)' = Files(m)
    BY <1>4, <1>5 DEF RemoveNothing
  <2>2. Files(m) \in Seq(File) /\ Len(Files(m)) = Len(s)
    BY FilesType
  <2>3. number \notin 0 .. Len(Files(m)) - 1
    <3>1. /\ s \in Seq(Cell) /\ IsInjective(s) /\ Len(s) \in Nat
          /\ Cardinality(Cell) \in Nat /\ Len(s) <= Cardinality(Cell)
      BY Fits DEF Chain
    <3>2. /\ DOMAIN Nth(m) = 0 .. Cardinality(Cell)
          /\ \A k \in 0 .. Cardinality(Cell) :
               Nth(m)[k] = IF k < Len(s) THEN s[k + 1] ELSE NULL
      BY NthIs
    <3>3. ASSUME number \in 0 .. Len(s) - 1 PROVE FALSE
      <4>1. number \in DOMAIN Nth(m) /\ Nth(m)[number] = s[number + 1]
        BY <3>1, <3>2, <3>3
      <4>2. s[number + 1] \in Cell
        BY <3>1, <3>3
      <4>. QED  BY <1>5, <4>1, <4>2, ManagerAssumption DEF RemoveNothing
    <3>. QED  BY <2>2, <3>3
  <2>4. /\ number \in Int
        /\ Cardinality(Cell) \in Nat
    BY ManagerAssumption, FS_CardinalityType
  <2>5. /\ Book!Removal(number) \in Book!Orders
        /\ Files(m)' = Book!Obeyed(Files(m), Book!Removal(number))
    BY <2>1, <2>2, <2>3, <2>4, RemovalObeyed
  <2>6. /\ m \in up /\ up' = up /\ order[m] = NULL
        /\ order' = [order EXCEPT ![m] = Book!Removal(number)]
    BY <1>5 DEF RemoveNothing
  <2>7. Shows(m)
    BY <1>0, <2>5, <2>6, ObeyedShows
  <2>. QED  BY <2>1, <2>7
<1>6. ASSUME RefreshRefused(m) \/ Refresh(m)
      PROVE  (\E t : Chain(m, t)') /\ Shows(m)
  <2>1. /\ UNCHANGED listVars /\ m \in up /\ up' = up
        /\ order' = [order EXCEPT ![m] = NULL]
    BY <1>6 DEF RefreshRefused, Refresh
  <2>. QED  BY <1>4, <2>1 DEF Shows
<1>7. ASSUME Start(m) PROVE (\E t : Chain(m, t)') /\ Shows(m)
  <2>1. /\ UNCHANGED listVars /\ m \notin up /\ up' = up \cup {m} /\ order' = order
    BY <1>7 DEF Start
  <2>. QED  BY <1>4, <2>1 DEF Shows
<1>8. ASSUME RefreshDies(m) \/ Quit(m) PROVE (\E t : Chain(m, t)') /\ Shows(m)
  <2>1. Gone(m) /\ m \in up
    BY <1>8 DEF RefreshDies, Quit
  <2>2. Chain(m, <<>>)'
    BY <2>1, NoChain DEF Gone, TypeOK
  <2>3. Files(m)' = <<>>
    BY <2>2, NoFiles
  <2>4. up' = up \ {m} /\ order' = [order EXCEPT ![m] = NULL]
    BY <2>1 DEF Gone
  <2>. QED  BY <2>1, <2>2, <2>3, <2>4 DEF Shows
<1>. QED  BY <1>1, <1>2, <1>3, <1>5, <1>6, <1>7, <1>8 DEF ManagerStep

\* Another manager's list is in another process.
LEMMA OtherList ==
  ASSUME TypeOK, NEW m \in Managers, ManagerStep(m),
         NEW o \in Managers, o # m, NEW s, Chain(o, s)
  PROVE  Chain(o, s)' /\ Files(o)' = Files(o)
<1>. DEFINE Kept == /\ fileList_root'[o] = fileList_root[o] /\ tail'[o] = tail[o]
                    /\ allocated'[o] = allocated[o] /\ next'[o] = next[o]
                    /\ file'[o] = file[o]
<1>1. ASSUME NEW c \in Cell, NEW line \in Typed, NEW type \in Answers, AddFile(m, c, line, type)
      PROVE  Kept
  <2>1. /\ fileList_root'[o] = fileList_root[o] /\ next'[o] = next[o]
    <3>1. CASE tail[m] = NULL
      <4>1. /\ fileList_root' = [fileList_root EXCEPT ![m] = c]
            /\ next' = [next EXCEPT ![m][c] = NULL]
        BY <1>1, <3>1 DEF AddFile
      <4>. QED  BY <4>1 DEF TypeOK
    <3>2. CASE tail[m] # NULL
      <4>1. /\ next' = [next EXCEPT ![m][c] = NULL, ![m][tail[m]] = c]
            /\ fileList_root' = fileList_root
        BY <1>1, <3>2, Zenon DEF AddFile
      <4>. QED  BY <4>1 DEF TypeOK
    <3>. QED  BY <3>1, <3>2
  <2>2. /\ allocated' = [allocated EXCEPT ![m] = @ \cup {c}]
        /\ file' = [file EXCEPT ![m][c] = [path |-> Trim[line], type |-> type]]
        /\ tail' = [tail EXCEPT ![m] = c]
    BY <1>1 DEF AddFile
  <2>. QED  BY <2>1, <2>2 DEF TypeOK
<1>2. ASSUME RemoveHead(m) PROVE Kept
  BY <1>2 DEF RemoveHead, Release, TypeOK
<1>3. ASSUME NEW number \in 1 .. Cardinality(Cell), RemoveLater(m, number) PROVE Kept
  BY <1>3 DEF RemoveLater, Count, Release, TypeOK
<1>4. ASSUME Gone(m) PROVE Kept
  BY <1>4 DEF Gone, TypeOK
<1>5. ASSUME UNCHANGED listVars PROVE Kept
  BY <1>5
<1>6. ASSUME \/ \E number \in -1 .. Cardinality(Cell) : RemoveNothing(m, number)
             \/ RefreshRefused(m) \/ Refresh(m) \/ Start(m)
      PROVE  UNCHANGED listVars
  BY <1>6 DEF RemoveNothing, RefreshRefused, Refresh, Start
<1>7. ASSUME RefreshDies(m) \/ Quit(m) PROVE Gone(m)
  BY <1>7 DEF RefreshDies, Quit
<1>8. Kept
  <2>. HIDE DEF Kept
  <2>. QED  BY <1>1, <1>2, <1>3, <1>4, <1>5, <1>6, <1>7 DEF ManagerStep
<1>9. Chain(o, s)'
  BY <1>8, SameChain
<1>10. Files(o)' = Files(o)
  BY <1>8, <1>9, SameFiles
<1>. QED  BY <1>9, <1>10

-----------------------------------------------------------------------------
(* The invariant.                                                          *)

\* Orders stay orders, and there is none where the menu is shown.
LEMMA OrderStep ==
  ASSUME Inv, NEW m \in Managers, ManagerStep(m)
  PROVE  /\ order' \in [Managers -> Book!Orders \cup {NULL}]
         /\ \A o \in Managers : pc'[o] = "menu" => order'[o] = NULL
<1>1. /\ order \in [Managers -> Book!Orders \cup {NULL}] /\ pc \in [Managers -> {"menu", "refresh"}]
      /\ \A o \in Managers : pc[o] = "menu" => order[o] = NULL
  BY DEF Inv, TypeOK
<1>2. \/ \E x \in Book!Orders : /\ order' = [order EXCEPT ![m] = x]
                                /\ pc' = [pc EXCEPT ![m] = "refresh"]
      \/ order' = [order EXCEPT ![m] = NULL] /\ pc' = [pc EXCEPT ![m] = "menu"]
      \/ order' = order /\ pc' = pc
  <2>1. ASSUME NEW c \in Cell, NEW line \in Typed, NEW type \in Answers,
               AddFile(m, c, line, type)
        PROVE  <1>2!1
    <3>1. [path |-> Trim[line], type |-> type] \in File
      BY ManagerAssumption DEF File
    <3>. QED  BY <2>1, <3>1, AdditionObeyed DEF AddFile
  <2>2. ASSUME RemoveHead(m) PROVE <1>2!1
    <3>1. Book!Removal(0) \in Book!Orders
      BY DEF Book!Orders, Book!Removal
    <3>2. order' = [order EXCEPT ![m] = Book!Removal(0)] /\ pc' = [pc EXCEPT ![m] = "refresh"]
      BY <2>2 DEF RemoveHead
    <3>. QED  BY <3>1, <3>2
  <2>3. ASSUME NEW number \in 1 .. Cardinality(Cell), RemoveLater(m, number)
        PROVE  <1>2!1
    <3>1. number \in Int
      BY ManagerAssumption, FS_CardinalityType
    <3>2. Book!Removal(number) \in Book!Orders
      BY <3>1 DEF Book!Orders, Book!Removal
    <3>. QED  BY <2>3, <3>2 DEF RemoveLater
  <2>4. ASSUME NEW number \in -1 .. Cardinality(Cell), RemoveNothing(m, number)
        PROVE  <1>2!1
    <3>1. number \in Int
      BY ManagerAssumption, FS_CardinalityType
    <3>2. Book!Removal(number) \in Book!Orders
      BY <3>1 DEF Book!Orders, Book!Removal
    <3>. QED  BY <2>4, <3>2 DEF RemoveNothing
  <2>5. ASSUME RefreshRefused(m) \/ Refresh(m) \/ RefreshDies(m) \/ Quit(m)
        PROVE  <1>2!2
    BY <2>5 DEF RefreshRefused, Refresh, RefreshDies, Quit, Gone
  <2>6. ASSUME Start(m) PROVE <1>2!3
    BY <2>6 DEF Start
  <2>. QED  BY <2>1, <2>2, <2>3, <2>4, <2>5, <2>6 DEF ManagerStep
<1>. QED  BY <1>1, <1>2

LEMMA TypeStep ==
  ASSUME Inv, NEW m \in Managers, ManagerStep(m)
  PROVE  TypeOK'
<1>. USE DEF Inv
<1>0. order' \in [Managers -> Book!Orders \cup {NULL}]
  BY OrderStep
<1>1. ASSUME NEW c \in Cell, NEW line \in Typed, NEW type \in Answers, AddFile(m, c, line, type)
      PROVE  TypeOK'
  <2>1. [path |-> Trim[line], type |-> type] \in [path : Path, type : Letter \cup {NewLine}]
    BY ManagerAssumption
  <2>2. fileList_root' \in [Managers -> Cell \cup {NULL}]
        /\ next' \in [Managers -> [Cell -> Cell \cup {NULL}]]
    <3>1. CASE tail[m] = NULL
      <4>1. /\ fileList_root' = [fileList_root EXCEPT ![m] = c]
            /\ next' = [next EXCEPT ![m][c] = NULL]
        BY <1>1, <3>1 DEF AddFile
      <4>. QED  BY <4>1 DEF TypeOK
    <3>2. CASE tail[m] # NULL
      <4>1. /\ next' = [next EXCEPT ![m][c] = NULL, ![m][tail[m]] = c]
            /\ fileList_root' = fileList_root
        BY <1>1, <3>2, Zenon DEF AddFile
      <4>. QED  BY <4>1 DEF TypeOK
    <3>. QED  BY <3>1, <3>2
  <2>3. /\ allocated' = [allocated EXCEPT ![m] = @ \cup {c}]
        /\ file' = [file EXCEPT ![m][c] = [path |-> Trim[line], type |-> type]]
        /\ tail' = [tail EXCEPT ![m] = c]
        /\ pc' = [pc EXCEPT ![m] = "refresh"]
        /\ inStep' = IF inStep = m THEN NULL ELSE inStep
        /\ up' = up /\ rules' = rules
        /\ protect_enabeled' = protect_enabeled /\ renewed' = renewed
    BY <1>1, Zenon DEF AddFile
  <2>. QED  BY <1>0, <2>1, <2>2, <2>3 DEF TypeOK
<1>2. NoFile \in [path : Path, type : Letter \cup {NewLine}]
  BY TextAssumption DEF NoFile, Letter
<1>3. ASSUME RemoveHead(m) PROVE TypeOK'
  <2>1. fileList_root[m] \in Cell
    BY <1>3 DEF RemoveHead, TypeOK
  <2>. QED  BY <1>0, <1>2, <1>3, <2>1 DEF RemoveHead, Release, TailBack, TypeOK
<1>4. ASSUME NEW number \in 1 .. Cardinality(Cell), RemoveLater(m, number) PROVE TypeOK'
  <2>1. PICK s : Chain(m, s)
    BY <1>4
  <2>2. number \in Nat /\ number + 1 \in 1 .. Len(s) /\ s \in Seq(Cell)
        /\ Nth(m)[number] = s[number + 1]
    BY <1>4, <2>1, RemoveLaterUnlinks DEF Chain
  <2>3. Nth(m)[number - 1] = s[number]
    <3>1. Len(s) <= Cardinality(Cell) /\ Cardinality(Cell) \in Nat
      BY <2>1, Fits DEF Chain
    <3>2. Nth(m) = [k \in 0 .. Cardinality(Cell) |-> IF k < Len(s) THEN s[k + 1] ELSE NULL]
      BY <2>1, NthIs
    <3>3. Len(s) \in Nat /\ number >= 1
      BY <2>2
    <3>4. number - 1 \in 0 .. Cardinality(Cell) /\ number - 1 < Len(s)
          /\ (number - 1) + 1 = number
      BY <2>2, <3>1, <3>3
    <3>. QED  BY <3>2, <3>4
  <2>4. s[number] \in Cell /\ s[number + 1] \in Cell
    BY <2>2
  <2>. DEFINE before == s[number]
              c == s[number + 1]
  <2>5. /\ next' = [next EXCEPT ![m][before] = next[m][c], ![m][c] = NULL]
        /\ tail' = [tail EXCEPT ![m] = IF c = @ THEN before ELSE @]
        /\ allocated' = [allocated EXCEPT ![m] = @ \ {c}]
        /\ file' = [file EXCEPT ![m][c] = NoFile]
        /\ pc' = [pc EXCEPT ![m] = "refresh"]
        /\ inStep' = IF inStep = m THEN NULL ELSE inStep
        /\ up' = up /\ fileList_root' = fileList_root /\ rules' = rules
        /\ protect_enabeled' = protect_enabeled /\ renewed' = renewed
    BY <1>4, <2>2, <2>3 DEF RemoveLater, Count, Release, TailBack
  <2>6. before \in Cell /\ c \in Cell
    BY <2>4
  <2>. HIDE DEF before, c
  <2>7. next' \in [Managers -> [Cell -> Cell \cup {NULL}]]
    <3>1. next \in [Managers -> [Cell -> Cell \cup {NULL}]]
      BY DEF TypeOK
    <3>. QED  BY ONLY <2>5, <2>6, <3>1
  <2>8. /\ file' \in [Managers -> [Cell -> [path : Path, type : Letter \cup {NewLine}]]]
        /\ allocated' \in [Managers -> SUBSET Cell]
        /\ tail' \in [Managers -> Cell \cup {NULL}]
        /\ pc' \in [Managers -> {"menu", "refresh"}]
    BY <1>2, <2>5, <2>6 DEF TypeOK
  <2>9. inStep' \in Managers \cup {NULL}
    BY <2>5 DEF TypeOK
  <2>. QED  BY <1>0, <2>5, <2>7, <2>8, <2>9 DEF TypeOK
<1>5. ASSUME \/ \E number \in -1 .. Cardinality(Cell) : RemoveNothing(m, number)
             \/ RefreshRefused(m)
      PROVE  TypeOK'
  BY <1>0, <1>5 DEF RemoveNothing, RefreshRefused, TypeOK
<1>6. ASSUME Refresh(m) PROVE TypeOK'
  <2>1. Accepted(TextOf(Files(m))) \in Seq(Entry)
    BY FilesType, TextType, AcceptedType
  <2>. QED  BY <1>0, <1>6, <2>1 DEF Refresh, TypeOK
<1>7. ASSUME Gone(m)
      PROVE  /\ up' \subseteq Managers /\ pc' \in [Managers -> {"menu", "refresh"}]
             /\ fileList_root' \in [Managers -> Cell \cup {NULL}]
             /\ tail' \in [Managers -> Cell \cup {NULL}]
             /\ allocated' \in [Managers -> SUBSET Cell]
             /\ next' \in [Managers -> [Cell -> Cell \cup {NULL}]]
             /\ file' \in [Managers -> [Cell -> [path : Path, type : Letter \cup {NewLine}]]]
  BY <1>2, <1>7 DEF Gone, TypeOK
<1>8. ASSUME RefreshDies(m) PROVE TypeOK'
  <2>1. /\ Gone(m) /\ rules' = <<>> /\ inStep' = NULL
        /\ protect_enabeled' = protect_enabeled /\ renewed' = renewed
    BY <1>8 DEF RefreshDies
  <2>. QED  BY <1>0, <1>7, <2>1 DEF TypeOK
<1>9. ASSUME Quit(m) PROVE TypeOK'
  <2>1. /\ Gone(m) /\ rules' = rules /\ inStep' = IF inStep = m THEN NULL ELSE inStep
        /\ protect_enabeled' = protect_enabeled /\ renewed' = renewed
    BY <1>9 DEF Quit
  <2>. QED  BY <1>0, <1>7, <2>1 DEF TypeOK
<1>10. ASSUME Start(m) PROVE TypeOK'
  <2>1. renewed' \in BOOLEAN
    <3>1. CASE up = {}
      BY <1>10, <3>1 DEF Start, TypeOK
    <3>2. CASE up # {}
      <4>1. renewed' = renewed
        BY <1>10, <3>2, Zenon DEF Start
      <4>. QED  BY <4>1 DEF TypeOK
    <3>. QED  BY <3>1, <3>2
  <2>. QED  BY <1>0, <1>10, <2>1 DEF Start, TypeOK
<1>. QED
  BY <1>1, <1>3, <1>4, <1>5, <1>6, <1>8, <1>9, <1>10 DEF ManagerStep

LEMMA InitInv == ASSUME Init PROVE Inv /\ \A m \in Managers : Files(m) = <<>>
<1>1. TypeOK
  <2>1. NoFile \in [path : Path, type : Letter \cup {NewLine}]
    BY TextAssumption DEF NoFile, Letter
  <2>. DEFINE F == [path : Path, type : Letter \cup {NewLine}]
  <2>2. NoFile \in F
    BY <2>1
  <2>. HIDE DEF F
  <2>3. file \in [Managers -> [Cell -> F]]
    BY <2>2 DEF Init
  <2>4. rules \in Seq(Entry)
    BY DEF Init
  <2>5. /\ next \in [Managers -> [Cell -> Cell \cup {NULL}]]
        /\ up \subseteq Managers /\ pc \in [Managers -> {"menu", "refresh"}]
        /\ fileList_root \in [Managers -> Cell \cup {NULL}]
        /\ tail \in [Managers -> Cell \cup {NULL}]
        /\ allocated \in [Managers -> SUBSET Cell]
        /\ protect_enabeled \in BOOLEAN /\ renewed \in BOOLEAN
        /\ inStep \in Managers \cup {NULL}
        /\ order \in [Managers -> Book!Orders \cup {NULL}]
    BY DEF Init
  <2>. QED  BY <2>3, <2>4, <2>5 DEF TypeOK, F
<1>2. ASSUME NEW m \in Managers PROVE Chain(m, Nodes(m)) /\ Files(m) = <<>>
  <2>. DEFINE none == <<>>
  <2>1. /\ none \in Seq(Cell) /\ ToSet(none) = {} /\ IsInjective(none) /\ Len(none) = 0
        /\ none = <<>>
    BY DEF ToSet, IsInjective
  <2>2. fileList_root[m] = NULL /\ tail[m] = NULL /\ allocated[m] = {}
    BY DEF Init
  <2>. HIDE DEF none
  <2>3. Chain(m, none)
    BY <2>1, <2>2 DEF Chain
  <2>4. Nodes(m) = none
    BY <2>3, ChainNodes
  <2>5. Files(m) \in Seq(File) /\ Len(Files(m)) = 0
    BY <1>1, <2>1, <2>3, FilesType
  <2>. QED  BY <2>3, <2>4, <2>5, EmptySeq
<1>3. \A m \in Managers : order[m] = NULL
  BY DEF Init
<1>. QED  BY <1>1, <1>2, <1>3 DEF Inv

\* Steps that leave the lists alone.
LEMMA ListsKept ==
  ASSUME Inv, UNCHANGED listVars, NEW m \in Managers
  PROVE  Chain(m, Nodes(m))' /\ Files(m)' = Files(m)
<1>1. PICK s : s = Nodes(m) /\ Chain(m, s)
  BY DEF Inv
<1>2. Chain(m, s)'
  BY <1>1, SameChain
<1>3. Nodes(m)' = s
  BY <1>2, ChainNodesNext
<1>4. Files(m)' = Files(m)
  BY <1>1, <1>2, SameFiles
<1>. QED  BY <1>2, <1>3, <1>4 DEF Chain

LEMMA NextInv == ASSUME Inv, [Next]_vars PROVE Inv'
<1>1. ASSUME NEW m \in Managers, ManagerStep(m) PROVE Inv'
  <2>1. ASSUME NEW o \in Managers PROVE Chain(o, Nodes(o))'
    <3>1. PICK t : Chain(o, t)'
      <4>1. PICK s : Chain(o, s)
        BY DEF Inv
      <4>2. CASE o = m
        BY <1>1, <4>1, <4>2, OwnList DEF Inv
      <4>3. CASE o # m
        BY <1>1, <4>1, <4>3, OtherList DEF Inv
      <4>. QED  BY <4>2, <4>3
    <3>2. Nodes(o)' = t
      BY <3>1, ChainNodesNext
    <3>. QED  BY <3>1, <3>2 DEF Chain
  <2>. QED  BY <1>1, <2>1, TypeStep, OrderStep DEF Inv
<1>2. ASSUME Switch PROVE Inv'
  <2>1. TypeOK'
    BY <1>2 DEF Inv, Switch, TypeOK
  <2>2. UNCHANGED <<pc, listVars, order>>
    BY <1>2 DEF Switch
  <2>. QED  BY <2>1, <2>2, ListsKept DEF Inv
<1>3. ASSUME UNCHANGED vars PROVE Inv'
  <2>1. TypeOK'
    BY <1>3 DEF Inv, vars, TypeOK
  <2>2. UNCHANGED <<pc, listVars, order>>
    BY <1>3 DEF vars
  <2>. QED  BY <2>1, <2>2, ListsKept DEF Inv
<1>. QED  BY <1>1, <1>2, <1>3 DEF Next

LEMMA InvHolds == Spec => []Inv
<1>1. Init => Inv
  BY InitInv
<1>2. Inv /\ [Next]_vars => Inv'
  BY NextInv
<1>. QED  BY <1>1, <1>2, PTL DEF Spec

\* The list of every manager (addFile and removeFile, User/complexuser.c:116-214)
\* is a chain of exactly the nodes it allocated, each reached once, and its tail
\* is the last of them, through every sequence of operations, ends and restarts.
THEOREM ShapeKept == Spec => []ListShape
<1>1. Inv => ListShape
  <2>. SUFFICES ASSUME Inv PROVE ListShape
    OBVIOUS
  <2>1. ASSUME NEW m \in Managers
        PROVE  /\ ToSet(Nodes(m)) = allocated[m] /\ IsInjective(Nodes(m))
               /\ tail[m] = IF Nodes(m) = <<>> THEN NULL ELSE Last(Nodes(m))
    BY DEF Inv, Chain, Last
  <2>. QED  BY <2>1 DEF ListShape, Inv
<1>. QED  BY <1>1, InvHolds, PTL

-----------------------------------------------------------------------------
(* The numbered lists.                                                     *)

\* What the pointers of addFile and removeFile do (User/complexuser.c:252-345)
\* is what the operator asked for: an added file is the new last entry, the
\* entry whose number was given is gone and no other, a number that is not in
\* the list changes nothing, a list empties with its manager's end only, and no
\* step touches the list of another manager.
THEOREM BookImplemented == Spec => ImplementsBook
<1>. DEFINE files == [m \in Managers |-> Files(m)]
<1>1. ASSUME Init PROVE Book!Init
  <2>1. \A m \in Managers : Files(m) = <<>>
    BY <1>1, InitInv
  <2>. QED  BY <1>1, <2>1 DEF Init, Book!Init
<1>2. ASSUME UNCHANGED <<up, listVars, order>>, Inv PROVE UNCHANGED Book!vars
  <2>1. \A m \in Managers : Files(m)' = Files(m)
    BY <1>2, ListsKept
  <2>2. files' = files
    BY <2>1
  <2>. QED  BY <1>2, <2>2 DEF Book!vars
<1>3. ASSUME NEW m \in Managers, ManagerStep(m), Inv
      PROVE  Shows(m) /\ \A o \in Managers \ {m} : Files(o)' = Files(o)
  <2>1. \A o \in Managers : \E s : Chain(o, s)
    BY <1>3 DEF Inv
  <2>2. Shows(m)
    BY <1>3, <2>1, OwnList DEF Inv
  <2>3. \A o \in Managers \ {m} : Files(o)' = Files(o)
    BY <1>3, <2>1, OtherList DEF Inv
  <2>. QED  BY <2>2, <2>3
<1>4. ASSUME NEW m \in Managers, Shows(m), \A o \in Managers \ {m} : Files(o)' = Files(o)
      PROVE  Book!Next
  <2>1. files' = [files EXCEPT ![m] = Files(m)'] /\ files[m] = Files(m)
    BY <1>4
  <2>2. Files(m)' = Files(m) => files' = files
    BY <1>4
  <2>. HIDE DEF files
  <2>3. CASE /\ m \in up /\ order[m] = NULL /\ up' = up
             /\ order'[m] \in Book!Orders /\ order' = [order EXCEPT ![m] = order'[m]]
             /\ Files(m)' = Book!Obeyed(Files(m), order'[m])
    <3>1. files' = [files EXCEPT ![m] = Book!Obeyed(@, order'[m])]
      BY <2>1, <2>3
    <3>2. Book!Order(m)
      BY <2>3, <3>1 DEF Book!Order, files
    <3>. QED  BY <3>2 DEF Book!Next
  <2>4. CASE /\ m \in up /\ up' = up
             /\ order' = [order EXCEPT ![m] = NULL] /\ Files(m)' = Files(m)
    <3>1. Book!Written(m)
      BY <2>2, <2>4 DEF Book!Written, files
    <3>. QED  BY <3>1 DEF Book!Next
  <2>5. CASE /\ m \notin up /\ up' = up \cup {m}
             /\ order' = order /\ Files(m)' = Files(m)
    <3>1. Book!Begin(m)
      BY <2>2, <2>5 DEF Book!Begin, files
    <3>. QED  BY <3>1 DEF Book!Next
  <2>6. CASE /\ m \in up /\ up' = up \ {m}
             /\ order' = [order EXCEPT ![m] = NULL] /\ Files(m)' = <<>>
    <3>1. files' = [files EXCEPT ![m] = <<>>]
      BY <2>1, <2>6
    <3>2. Book!End(m)
      BY <2>6, <3>1 DEF Book!End, files
    <3>. QED  BY <3>2 DEF Book!Next
  <2>. QED  BY <1>4, <2>3, <2>4, <2>5, <2>6 DEF Shows
<1>5. ASSUME Inv, [Next]_vars PROVE [Book!Next]_Book!vars
  <2>1. ASSUME NEW m \in Managers, ManagerStep(m) PROVE Book!Next
    BY <1>3, <1>4, <1>5, <2>1
  <2>2. ASSUME Switch \/ UNCHANGED vars PROVE UNCHANGED Book!vars
    <3>1. UNCHANGED <<up, listVars, order>>
      BY <2>2 DEF Switch, vars
    <3>. QED  BY <1>2, <1>5, <3>1
  <2>. QED  BY <1>5, <2>1, <2>2 DEF Next
<1>. QED  BY <1>1, <1>5, InvHolds, PTL DEF Spec, ImplementsBook, Book!Spec

-----------------------------------------------------------------------------
(* The manager and the kernel.                                             *)

\* Who is in step runs, and is in step.
InSync == inStep \in up \cup {NULL} /\ InStep

LEMMA SyncStep ==
  ASSUME Inv, InSync, NEW m \in Managers, ManagerStep(m)
  PROVE  InSync'
<1>1. \A o \in Managers : o # NULL /\ \E s : Chain(o, s)
  BY ManagerAssumption DEF Inv
<1>2. \A o \in Managers : o # m => Files(o)' = Files(o)
  BY <1>1, OtherList DEF Inv
<1>3. up \subseteq Managers /\ up' \subseteq Managers
  BY TypeStep DEF Inv, TypeOK
<1>4. ASSUME inStep' = (IF inStep = m THEN NULL ELSE inStep), rules' = rules,
             up' = up \/ up' = up \ {m}
      PROVE  InSync'
  BY <1>1, <1>2, <1>3, <1>4 DEF InSync, InStep
<1>5. ASSUME NEW c \in Cell, NEW line \in Typed, NEW type \in Answers, AddFile(m, c, line, type)
      PROVE  InSync'
  BY <1>4, <1>5, Zenon DEF AddFile
<1>6. ASSUME RemoveHead(m) PROVE InSync'
  BY <1>4, <1>6 DEF RemoveHead
<1>7. ASSUME NEW number \in 1 .. Cardinality(Cell), RemoveLater(m, number) PROVE InSync'
  BY <1>4, <1>7 DEF RemoveLater
<1>8. ASSUME UNCHANGED <<up, listVars, rules, inStep>> PROVE InSync'
  <2>1. \A o \in Managers : Files(o)' = Files(o)
    BY <1>8, ListsKept
  <2>. QED  BY <1>3, <1>8, <2>1 DEF InSync, InStep
<1>9. ASSUME \/ \E number \in -1 .. Cardinality(Cell) : RemoveNothing(m, number)
             \/ RefreshRefused(m)
      PROVE  InSync'
  BY <1>8, <1>9 DEF RemoveNothing, RefreshRefused
<1>10. ASSUME Refresh(m) PROVE InSync'
  <2>1. /\ rules' = Accepted(TextOf(Files(m))) /\ inStep' = m /\ up' = up /\ m \in up
        /\ UNCHANGED listVars
    BY <1>10 DEF Refresh
  <2>2. Files(m)' = Files(m) /\ Files(m) \in Seq(File)
    BY <2>1, ListsKept, FilesType DEF Inv
  <2>3. Accepted(TextOf(Files(m))) = Meant(Files(m))
    BY <2>2, TextUnderstood
  <2>. QED  BY <2>1, <2>2, <2>3 DEF InSync, InStep
<1>11. ASSUME RefreshDies(m) PROVE InSync'
  <2>1. inStep' = NULL
    BY <1>11 DEF RefreshDies
  <2>. QED  BY <1>1, <1>3, <2>1 DEF InSync, InStep
<1>12. ASSUME Quit(m) PROVE InSync'
  BY <1>4, <1>12 DEF Quit, Gone
<1>13. ASSUME Start(m) PROVE InSync'
  <2>1. /\ m \notin up /\ up' = up \cup {m} /\ rules' = rules /\ inStep' = inStep
        /\ UNCHANGED listVars
    BY <1>13 DEF Start
  <2>2. \A o \in Managers : Files(o)' = Files(o)
    BY <2>1, ListsKept
  <2>. QED  BY <1>1, <1>3, <2>1, <2>2 DEF InSync, InStep
<1>. QED
  BY <1>5, <1>6, <1>7, <1>9, <1>10, <1>11, <1>12, <1>13 DEF ManagerStep

\* Whenever the kernel took a manager's list last and the list has not changed
\* since, the kernel enforces what the list means: refreshFileList
\* (User/complexuser.c:217-249) and create_list (LKM/communicate.c:229-271) agree
\* on every text, for lists of any length.
THEOREM StaysInStep == Spec => []InStep
<1>1. Init => InSync
  BY DEF Init, InSync, InStep
<1>2. Inv /\ InSync /\ [Next]_vars => InSync'
  <2>. SUFFICES ASSUME Inv, InSync, [Next]_vars PROVE InSync'
    OBVIOUS
  <2>1. CASE \E m \in Managers : ManagerStep(m)
    BY <2>1, SyncStep
  <2>2. CASE Switch \/ UNCHANGED vars
    <3>1. UNCHANGED <<up, listVars, rules, inStep>>
      BY <2>2 DEF Switch, vars
    <3>2. \A o \in Managers : Files(o)' = Files(o)
      BY <3>1, ListsKept
    <3>3. up \subseteq Managers
      BY DEF Inv, TypeOK
    <3>. QED  BY <3>1, <3>2, <3>3 DEF InSync, InStep
  <2>. QED  BY <2>1, <2>2 DEF Next
<1>3. InSync => InStep
  BY DEF InSync
<1>. QED  BY <1>1, <1>2, <1>3, InvHolds, PTL DEF Spec
=============================================================================
