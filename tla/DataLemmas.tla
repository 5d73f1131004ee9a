----------------------------- MODULE DataLemmas -----------------------------
(***************************************************************************)
(* Facts about data the other proofs rest on: induction over the natural   *)
(* numbers and over finite sets, what FlattenSeq computes, sums over       *)
(* finite sets, and the function that a fold from the left is.             *)
(*                                                                         *)
(* Induction is stated of a set instead of a predicate: it is the set of   *)
(* what has the property.  It follows from the least element of a set of   *)
(* finite sets, which the library has for sets too.                        *)
(***************************************************************************)
EXTENDS Integers, Sequences, SequencesExt, FiniteSets, FiniteSetTheorems, TLAPS

\* A set of subsets of a finite set has one of which it has no smaller one.
LEMMA SmallestSubset ==
    ASSUME NEW S, IsFiniteSet(S), NEW F \in SUBSET (SUBSET S), F # {}
    PROVE  \E m \in F : \A t \in F : ~(t \subseteq m /\ t # m)
  <1>1. F \subseteq FiniteSubsetsOf(S)
    BY FS_FiniteSubsetsOfFinite
  <1>2. IsWellFoundedOn(StrictSubsetOrdering(S), FiniteSubsetsOf(S))
    BY FS_StrictSubsetOrderingWellFounded
  <1>3. PICK m \in F : \A t \in F : ~ (<<t, m>> \in StrictSubsetOrdering(S))
    BY <1>1, <1>2, WFMin, Zenon
  <1>4. \A t \in F : <<t, m>> \in (SUBSET S) \X (SUBSET S)
    OBVIOUS
  <1>5. \A t \in F : ~(t \subseteq m /\ t # m)
    BY <1>3, <1>4 DEF StrictSubsetOrdering
  <1> QED
    BY <1>5

\* Induction: the set of the numbers that have a property is that of all.
LEMMA Induction ==
    ASSUME NEW T \in SUBSET Nat, 0 \in T, \A n \in T : n + 1 \in T
    PROVE  \A n \in Nat : n \in T
  <1> SUFFICES ASSUME NEW n \in Nat, n \notin T PROVE FALSE
    OBVIOUS
  <1> DEFINE S == 1..n
             F == {s \in SUBSET S : \E k \in 0..n : s = 1..k /\ k \notin T}
  <1>1. IsFiniteSet(S) /\ F \in SUBSET (SUBSET S) /\ F # {}
    <2>1. IsFiniteSet(S)
      BY FS_Interval
    <2>2. S \in F
      OBVIOUS
    <2> QED
      BY <2>1, <2>2
  <1>2. PICK m \in F : \A t \in F : ~(t \subseteq m /\ t # m)
    <2> HIDE DEF S, F
    <2> QED
      BY <1>1, SmallestSubset
  <1>3. PICK k \in 0..n : m = 1..k /\ k \notin T
    OBVIOUS
  <1>4. k # 0 /\ k - 1 \in 0..n /\ k - 1 \notin T
    <2>1. k # 0
      BY <1>3
    <2>2. k - 1 \in T => (k - 1) + 1 \in T
      OBVIOUS
    <2> QED
      BY <1>3, <2>1, <2>2
  <1>5. 1..(k - 1) \in F
    BY <1>4
  <1>6. 1..(k - 1) \subseteq m /\ 1..(k - 1) # m
    <2>1. k \in 1..k /\ k \notin 1..(k - 1)
      BY <1>4
    <2> QED
      BY <1>3, <2>1
  <1> QED
    BY <1>2, <1>5, <1>6

-----------------------------------------------------------------------------
(***************************************************************************)
(* FlattenSeq.                                                             *)
(***************************************************************************)

\* Where the elements of the sequences are, and of the first n of them.
Places(seqs)  == {p \in (1..Len(seqs)) \X (Nat \ {0}) : p[2] <= Len(seqs[p[1]])}
Rows(seqs, n) == {p \in Places(seqs) : p[1] <= n}
Row(seqs, n)  == {<<n, i>> : i \in 1..Len(seqs[n])}
At(seqs)      == [p \in Places(seqs) |-> seqs[p[1]][p[2]]]

\* The function FlattenSeq is defined by.
Flattens(seqs, f) ==
    f = [i \in 1..Len(seqs) |-> IF i = 1 THEN seqs[i] ELSE f[i - 1] \o seqs[i]]

\* There is one: it is built from its values up to n.
LEMMA FlattensExists ==
    ASSUME NEW S, NEW seqs \in Seq(Seq(S))
    PROVE  \E f \in [1..Len(seqs) -> Seq(S)] : Flattens(seqs, f)
  <1> DEFINE N == Len(seqs)
             UpTo(f, n) ==
               \A i \in 1..N : i <= n => f[i] = IF i = 1 THEN seqs[i] ELSE f[i - 1] \o seqs[i]
             T == {n \in Nat : \E f \in [1..N -> Seq(S)] : UpTo(f, n)}
  <1>0. N \in Nat /\ \A i \in 1..N : seqs[i] \in Seq(S)
    OBVIOUS
  <1>a. seqs \in [1..N -> Seq(S)]
    OBVIOUS
  <1> HIDE DEF N
  <1>1. 0 \in T
    <2>1. UpTo(seqs, 0)
      BY <1>0
    <2> QED
      BY <1>a, <2>1
  <1>2. ASSUME NEW n \in T PROVE n + 1 \in T
    <2>1. PICK f \in [1..N -> Seq(S)] : UpTo(f, n)
      OBVIOUS
    <2>2. n \in Nat
      OBVIOUS
    <2> DEFINE next(i) == IF i = 1 THEN seqs[i] ELSE f[i - 1] \o seqs[i]
               g == [i \in 1..N |-> IF i # n + 1 THEN f[i] ELSE next(i)]
    <2>3. ASSUME NEW i \in 1..N PROVE next(i) \in Seq(S)
      <3>1. CASE i = 1
        BY <1>0, <3>1
      <3>2. CASE i # 1
        <4>1. i - 1 \in 1..N
          BY <1>0, <3>2
        <4>2. f[i - 1] \in Seq(S) /\ seqs[i] \in Seq(S)
          BY <1>0, <4>1
        <4>3. f[i - 1] \o seqs[i] \in Seq(S)
          BY <4>2
        <4> QED
          BY <3>2, <4>3
      <3> QED
        BY <3>1, <3>2
    <2> HIDE DEF next
    <2>4. g \in [1..N -> Seq(S)]
      BY <2>3
    <2>5. ASSUME NEW i \in 1..N, i <= n + 1
          PROVE  g[i] = IF i = 1 THEN seqs[i] ELSE g[i - 1] \o seqs[i]
      <3>1. i \in Int /\ 1 <= i
        BY <1>0
      <3>2. CASE i = 1
        <4>1. i = n + 1 => g[i] = seqs[i]
          BY <3>2 DEF next
        <4>2. i # n + 1 => i <= n /\ g[i] = f[i]
          BY <2>2, <2>5, <3>1
        <4>3. i <= n => f[i] = seqs[i]
          BY <2>1, <3>2
        <4> QED
          BY <3>2, <4>1, <4>2, <4>3
      <3>3. CASE i # 1
        <4>1. i - 1 \in 1..N /\ i - 1 # n + 1
          BY <1>0, <2>2, <2>5, <3>3
        <4>2. g[i - 1] = f[i - 1]
          BY <4>1
        <4>3. i = n + 1 => g[i] = f[i - 1] \o seqs[i]
          BY <3>3 DEF next
        <4>4. i # n + 1 => i <= n /\ g[i] = f[i]
          BY <2>2, <2>5, <3>1
        <4>5. i <= n => f[i] = f[i - 1] \o seqs[i]
          BY <2>1, <3>3
        <4> QED
          BY <3>3, <4>2, <4>3, <4>4, <4>5
      <3> QED
        BY <3>2, <3>3
    <2>6. n + 1 \in Nat
      BY <2>2
    <2> HIDE DEF g
    <2> QED
      BY <2>4, <2>5, <2>6
  <1>3. T \in SUBSET Nat
    OBVIOUS
  <1> HIDE DEF T
  <1>4. N \in T
    BY <1>0, <1>1, <1>2, <1>3, Induction
  <1>5. PICK f \in [1..N -> Seq(S)] : UpTo(f, N)
    BY <1>4 DEF T
  <1>6. \A i \in 1..N : i <= N
    BY <1>0
  <1>7. \A i \in 1..N : f[i] = IF i = 1 THEN seqs[i] ELSE f[i - 1] \o seqs[i]
    BY <1>5, <1>6
  <1>8. f = [i \in 1..N |-> IF i = 1 THEN seqs[i] ELSE f[i - 1] \o seqs[i]]
    BY <1>7
  <1> QED
    BY <1>8 DEF Flattens, N

\* Every such function gives sequences.
LEMMA FlattensTyped ==
    ASSUME NEW S, NEW seqs \in Seq(Seq(S)), NEW f, Flattens(seqs, f)
    PROVE  f \in [1..Len(seqs) -> Seq(S)]
  <1> DEFINE N == Len(seqs)
             T == {n \in Nat : n + 1 <= N => f[n + 1] \in Seq(S)}
  <1>0. N \in Nat /\ \A i \in 1..N : seqs[i] \in Seq(S)
    OBVIOUS
  <1>1. f = [i \in 1..N |-> IF i = 1 THEN seqs[i] ELSE f[i - 1] \o seqs[i]]
    BY DEF Flattens
  <1>2. \A i \in 1..N : f[i] = IF i = 1 THEN seqs[i] ELSE f[i - 1] \o seqs[i]
    BY <1>1
  <1> HIDE DEF N
  <1>3. 0 \in T
    <2>1. 0 + 1 = 1 /\ (1 <= N => 1 \in 1..N)
      BY <1>0
    <2>2. 1 <= N => f[1] = seqs[1] /\ seqs[1] \in Seq(S)
      BY <1>0, <1>2, <2>1
    <2> QED
      BY <2>1, <2>2
  <1>4. ASSUME NEW n \in T PROVE n + 1 \in T
    <2> DEFINE k == n + 1
    <2>1. k \in Nat /\ k # 0 /\ (k <= N => f[k] \in Seq(S))
      OBVIOUS
    <2> HIDE DEF k
    <2>2. ASSUME k + 1 <= N PROVE f[k + 1] \in Seq(S)
      <3>1. k + 1 \in 1..N /\ k <= N /\ k + 1 # 1 /\ (k + 1) - 1 = k
        BY <1>0, <2>1, <2>2
      <3>2. f[k + 1] = f[k] \o seqs[k + 1]
        BY <1>2, <3>1
      <3>3. f[k] \in Seq(S) /\ seqs[k + 1] \in Seq(S)
        BY <1>0, <2>1, <3>1
      <3> QED
        BY <3>2, <3>3
    <2>3. k \in T
      BY <2>1, <2>2
    <2> QED
      BY <2>3 DEF k
  <1>5. T \in SUBSET Nat
    OBVIOUS
  <1>6. \A n \in Nat : n \in T
    <2> HIDE DEF T
    <2> QED
      BY <1>3, <1>4, <1>5, Induction
  <1>7. \A i \in 1..N : i - 1 \in Nat /\ (i - 1) + 1 = i /\ i <= N
    BY <1>0
  <1>8. \A i \in 1..N : f[i] \in Seq(S)
    BY <1>6, <1>7
  <1>9. f = [i \in 1..N |-> f[i]]
    BY <1>1, Zenon
  <1> QED
    BY <1>8, <1>9 DEF N

LEMMA FlattenIs ==
    ASSUME NEW S, NEW seqs \in Seq(Seq(S)), Len(seqs) # 0
    PROVE  \E f \in [1..Len(seqs) -> Seq(S)] : Flattens(seqs, f) /\ FlattenSeq(seqs) = f[Len(seqs)]
  <1> DEFINE f == CHOOSE g : g = [i \in 1..Len(seqs) |-> IF i = 1 THEN seqs[i] ELSE g[i - 1] \o seqs[i]]
  <1>1. FlattenSeq(seqs) = f[Len(seqs)]
    BY Zenon DEF FlattenSeq
  <1>2. Flattens(seqs, f)
    <2>1. PICK g : Flattens(seqs, g)
      BY FlattensExists
    <2> QED
      BY <2>1, Zenon DEF Flattens
  <1> HIDE DEF f
  <1>3. f \in [1..Len(seqs) -> Seq(S)]
    BY <1>2, FlattensTyped
  <1> QED
    BY <1>1, <1>2, <1>3

\* P takes each position of s to one of the places A, where its value is.
Tells(s, A, value, P) ==
    /\ P \in [1..Len(s) -> A]
    /\ \A i \in 1..Len(s) : s[i] = value[P[i]]
    /\ \A i, j \in 1..Len(s) : P[i] = P[j] => i = j
    /\ \A p \in A : \E i \in 1..Len(s) : P[i] = p

LEMMA TellsBoth ==
    ASSUME NEW S, NEW s \in Seq(S), NEW t \in Seq(S), NEW A, NEW B, A \cap B = {}, NEW value,
           NEW P, Tells(s, A, value, P), NEW R, Tells(t, B, value, R)
    PROVE  \E Q : Tells(s \o t, A \cup B, value, Q)
  <1> DEFINE k == Len(s)
             m == Len(t)
             st == s \o t
             Q == [i \in 1..(k + m) |-> IF i <= k THEN P[i] ELSE R[i - k]]
  <1>1. k \in Nat /\ m \in Nat
    OBVIOUS
  <1>2. /\ Len(st) = k + m
        /\ \A i \in 1..k : st[i] = s[i]
        /\ \A i \in (k + 1)..(k + m) : st[i] = t[i - k]
    OBVIOUS
  <1>3. /\ P \in [1..k -> A]
        /\ \A i \in 1..k : s[i] = value[P[i]]
        /\ \A i, j \in 1..k : P[i] = P[j] => i = j
        /\ \A p \in A : \E i \in 1..k : P[i] = p
    BY DEF Tells
  <1>4. /\ R \in [1..m -> B]
        /\ \A i \in 1..m : t[i] = value[R[i]]
        /\ \A i, j \in 1..m : R[i] = R[j] => i = j
        /\ \A p \in B : \E i \in 1..m : R[i] = p
    BY DEF Tells
  <1> HIDE DEF k, m, st
  <1>5. \A i \in 1..(k + m) :
          \/ i \in 1..k /\ Q[i] = P[i]
          \/ i \in (k + 1)..(k + m) /\ i - k \in 1..m /\ Q[i] = R[i - k]
    BY <1>1
  <1>6. \A i \in 1..k : i \in 1..(k + m) /\ Q[i] = P[i]
    BY <1>1
  <1>7. \A i \in 1..m : k + i \in 1..(k + m) /\ Q[k + i] = R[i]
    BY <1>1
  <1>8. Q \in [1..(k + m) -> A \cup B]
    <2>1. \A i \in 1..(k + m) : Q[i] \in A \cup B
      BY <1>3, <1>4, <1>5
    <2>2. Q = [i \in 1..(k + m) |-> Q[i]]
      OBVIOUS
    <2> HIDE DEF Q
    <2> QED
      BY <2>1, <2>2
  <1> HIDE DEF Q
  <1>9. \A i \in 1..(k + m) : st[i] = value[Q[i]]
    BY <1>2, <1>3, <1>4, <1>5
  <1>10. ASSUME NEW i \in 1..(k + m), NEW j \in 1..(k + m), Q[i] = Q[j] PROVE i = j
    <2>1. CASE i \in 1..k /\ j \in 1..k
      BY <1>3, <1>6, <1>10, <2>1
    <2>2. CASE i - k \in 1..m /\ j - k \in 1..m /\ Q[i] = R[i - k] /\ Q[j] = R[j - k]
      <3>1. i - k = j - k
        BY <1>4, <1>10, <2>2
      <3> QED
        BY <1>1, <3>1
    <2>3. \A x \in 1..(k + m) :
            (x \in 1..k /\ Q[x] \in A) \/ (x - k \in 1..m /\ Q[x] = R[x - k] /\ Q[x] \in B)
      BY <1>3, <1>4, <1>5
    <2> QED
      BY <1>10, <2>1, <2>2, <2>3
  <1>11. \A p \in A \cup B : \E i \in 1..(k + m) : Q[i] = p
    BY <1>3, <1>4, <1>6, <1>7
  <1>12. Tells(st, A \cup B, value, Q)
    BY <1>2, <1>8, <1>9, <1>10, <1>11 DEF Tells
  <1> QED
    BY <1>12 DEF st

LEMMA TellsRow ==
    ASSUME NEW S, NEW seqs \in Seq(Seq(S)), NEW n \in 1..Len(seqs)
    PROVE  \E P : Tells(seqs[n], Row(seqs, n), At(seqs), P)
  <1> DEFINE s == seqs[n]
             P == [i \in 1..Len(s) |-> <<n, i>>]
  <1>1. s \in Seq(S) /\ Len(s) \in Nat
    OBVIOUS
  <1>2. \A i \in 1..Len(s) : <<n, i>> \in Row(seqs, n) /\ <<n, i>> \in Places(seqs)
    BY <1>1 DEF Row, Places
  <1>3. \A i \in 1..Len(s) : s[i] = At(seqs)[P[i]]
    BY <1>2 DEF At
  <1>4. \A i, j \in 1..Len(s) : P[i] = P[j] => i = j
    OBVIOUS
  <1>5. \A p \in Row(seqs, n) : \E i \in 1..Len(s) : P[i] = p
    BY DEF Row
  <1>6. P \in [1..Len(s) -> Row(seqs, n)]
    BY <1>2
  <1> HIDE DEF P
  <1> QED
    BY <1>3, <1>4, <1>5, <1>6 DEF Tells

LEMMA RowsGrow ==
    ASSUME NEW S, NEW seqs \in Seq(Seq(S)), NEW n \in Nat, n + 1 \in 1..Len(seqs)
    PROVE  /\ Rows(seqs, n + 1) = Rows(seqs, n) \cup Row(seqs, n + 1)
           /\ Rows(seqs, n) \cap Row(seqs, n + 1) = {}
  <1>1. Len(seqs[n + 1]) \in Nat /\ Len(seqs) \in Nat
    OBVIOUS
  <1>2. \A p \in Row(seqs, n + 1) : p \in Places(seqs) /\ p[1] = n + 1
    BY <1>1 DEF Row, Places
  <1>3. \A p \in Places(seqs) : p[1] = n + 1 => p \in Row(seqs, n + 1)
    BY <1>1 DEF Row, Places
  <1>4. \A p \in Places(seqs) : p[1] \in Nat
    BY DEF Places
  <1> QED
    BY <1>2, <1>3, <1>4 DEF Rows

\* Every element of every sequence comes at one position, and nothing else does.
LEMMA FlattenPlaces ==
    ASSUME NEW S, NEW seqs \in Seq(Seq(S))
    PROVE  /\ FlattenSeq(seqs) \in Seq(S)
           /\ \E P : Tells(FlattenSeq(seqs), Places(seqs), At(seqs), P)
  <1> DEFINE N == Len(seqs)
  <1>0. N \in Nat
    OBVIOUS
  <1>a. \A p \in Places(seqs) : p[1] <= N /\ p[1] \in 1..N
    BY DEF Places
  <1>1. CASE N = 0
    <2>1. FlattenSeq(seqs) = seqs /\ seqs = <<>>
      BY <1>1 DEF FlattenSeq
    <2>2. Places(seqs) = {} /\ 1..Len(seqs) = {}
      BY <1>1 DEF Places
    <2>3. Tells(seqs, Places(seqs), At(seqs), [i \in {} |-> i])
      BY <2>2 DEF Tells
    <2>4. <<>> \in Seq(S)
      OBVIOUS
    <2> QED
      BY <2>1, <2>3, <2>4
  <1>2. CASE N # 0
    <2>1. PICK f \in [1..N -> Seq(S)] : Flattens(seqs, f) /\ FlattenSeq(seqs) = f[N]
      BY <1>2, FlattenIs
    <2>2. \A i \in 1..N : f[i] = IF i = 1 THEN seqs[i] ELSE f[i - 1] \o seqs[i]
      BY <2>1 DEF Flattens
    <2>3. \A i \in 1..N : seqs[i] \in Seq(S)
      OBVIOUS
    <2> DEFINE T == {n \in Nat : n + 1 <= N => \E P : Tells(f[n + 1], Rows(seqs, n + 1), At(seqs), P)}
    <2>4. Rows(seqs, 0) = {}
      BY <1>a DEF Rows
    <2>5. 1 \in 1..Len(seqs)
      BY <1>2
    <2>6. Rows(seqs, 1) = Row(seqs, 1)
      <3>1. ASSUME NEW n \in Nat, NEW m, n = 0, m = n + 1
            PROVE  Rows(seqs, m) = Rows(seqs, n) \cup Row(seqs, m)
        <4>1. n + 1 \in 1..Len(seqs)
          BY <2>5, <3>1
        <4> QED
          BY <3>1, <4>1, RowsGrow
      <3>2. Rows(seqs, 1) = Rows(seqs, 0) \cup Row(seqs, 1)
        BY <3>1
      <3> QED
        BY <2>4, <3>2
    <2>7. \E P : Tells(seqs[1], Rows(seqs, 1), At(seqs), P)
      BY <2>5, <2>6, TellsRow
    <2> HIDE DEF N
    <2>8. 0 \in T
      <3>1. 1 \in 1..N
        BY <1>0, <1>2
      <3>2. f[1] = seqs[1]
        BY <2>2, <3>1
      <3> QED
        BY <2>7, <3>2
    <2>9. ASSUME NEW n \in T PROVE n + 1 \in T
      <3>1. n \in Nat /\ n + 1 \in Nat
        OBVIOUS
      <3>2. ASSUME (n + 1) + 1 <= N
            PROVE  \E P : Tells(f[(n + 1) + 1], Rows(seqs, (n + 1) + 1), At(seqs), P)
        <4> DEFINE k == n + 1
        <4>1. k \in Nat /\ k \in 1..N /\ k + 1 \in 1..N /\ (k + 1) - 1 = k /\ k + 1 # 1
          BY <1>0, <3>1, <3>2
        <4>2. PICK P : Tells(f[k], Rows(seqs, k), At(seqs), P)
          BY <4>1
        <4> HIDE DEF k
        <4>3. f[k + 1] = f[k] \o seqs[k + 1]
          BY <2>2, <4>1
        <4>4. f[k] \in Seq(S) /\ seqs[k + 1] \in Seq(S)
          BY <2>1, <2>3, <4>1
        <4>5. k + 1 \in 1..Len(seqs)
          BY <4>1 DEF N
        <4>6. PICK R : Tells(seqs[k + 1], Row(seqs, k + 1), At(seqs), R)
          BY <4>5, TellsRow
        <4>7. /\ Rows(seqs, k + 1) = Rows(seqs, k) \cup Row(seqs, k + 1)
              /\ Rows(seqs, k) \cap Row(seqs, k + 1) = {}
          BY <4>1, <4>5, RowsGrow
        <4>8. \E Q : Tells(f[k] \o seqs[k + 1], Rows(seqs, k) \cup Row(seqs, k + 1), At(seqs), Q)
          BY <4>2, <4>4, <4>6, <4>7, TellsBoth
        <4>9. \E Q : Tells(f[k + 1], Rows(seqs, k + 1), At(seqs), Q)
          BY <4>3, <4>7, <4>8
        <4> QED
          BY <4>9 DEF k
      <3> QED
        BY <3>1, <3>2
    <2>10. T \in SUBSET Nat
      OBVIOUS
    <2> HIDE DEF T
    <2>11. N - 1 \in T /\ N - 1 \in Nat /\ (N - 1) + 1 = N
      <3>1. N - 1 \in Nat /\ (N - 1) + 1 = N
        BY <1>0, <1>2
      <3> QED
        BY <2>8, <2>9, <2>10, <3>1, Induction
    <2>12. \E P : Tells(f[N], Rows(seqs, N), At(seqs), P)
      BY <1>0, <2>11 DEF T
    <2>13. Rows(seqs, N) = Places(seqs)
      BY <1>a DEF Rows, N
    <2>14. f[N] \in Seq(S)
      <3>1. N \in 1..N
        BY <1>0, <1>2
      <3> QED
        BY <2>1, <3>1
    <2> QED
      BY <2>1, <2>12, <2>13, <2>14
  <1> QED
    BY <1>1, <1>2

\* What has one place in the sequences is at one position.
LEMMA FlattenOnce ==
    ASSUME NEW S, NEW seqs \in Seq(Seq(S)), NEW l, NEW p \in Places(seqs),
           At(seqs)[p] = l, \A q \in Places(seqs) : At(seqs)[q] = l => q = p
    PROVE  Cardinality({i \in 1..Len(FlattenSeq(seqs)) : FlattenSeq(seqs)[i] = l}) = 1
  <1> DEFINE s == FlattenSeq(seqs)
  <1>1. PICK P : Tells(s, Places(seqs), At(seqs), P)
    BY FlattenPlaces
  <1> HIDE DEF s
  <1>2. PICK i \in 1..Len(s) : P[i] = p
    BY <1>1 DEF Tells
  <1>3. \A j \in 1..Len(s) : s[j] = l <=> j = i
    BY <1>1, <1>2 DEF Tells
  <1>4. {j \in 1..Len(s) : s[j] = l} = {i}
    BY <1>3
  <1> QED
    BY <1>4, FS_Singleton DEF s

\* There are as many places as the sequence has elements.
LEMMA TellsCount ==
    ASSUME NEW S, NEW s \in Seq(S), NEW A, NEW value, NEW P, Tells(s, A, value, P)
    PROVE  Cardinality(A) = Len(s)
  <1> DEFINE n == Len(s)
  <1>1. n \in Nat
    OBVIOUS
  <1>2. IsFiniteSet(1..n) /\ Cardinality(1..n) = n
    BY <1>1, FS_Interval, SMTT(30)
  <1> HIDE DEF n
  <1>3. P \in Bijection(1..n, A)
    BY DEF Tells, Bijection, Injection, Surjection, IsInjective, n
  <1>4. ExistsBijection(1..n, A)
    BY <1>3 DEF ExistsBijection
  <1> QED
    BY <1>2, <1>4, FS_Bijection DEF n

\* What is in a flattened sequence is in one of its sequences.
LEMMA FlattenHas ==
    ASSUME NEW S, NEW seqs \in Seq(Seq(S))
    PROVE  \A e : e \in ToSet(FlattenSeq(seqs)) <=> \E k \in 1..Len(seqs) : e \in ToSet(seqs[k])
  <1> DEFINE s == FlattenSeq(seqs)
  <1>1. s \in Seq(S) /\ \E P : Tells(s, Places(seqs), At(seqs), P)
    BY FlattenPlaces
  <1>2. PICK P : Tells(s, Places(seqs), At(seqs), P)
    BY <1>1
  <1> HIDE DEF s
  <1>3. DOMAIN s = 1..Len(s)
    BY <1>1
  <1>4. \A k \in 1..Len(seqs) : DOMAIN seqs[k] = 1..Len(seqs[k]) /\ Len(seqs[k]) \in Nat
    OBVIOUS
  <1>5. ASSUME NEW i \in 1..Len(s)
        PROVE  \E k \in 1..Len(seqs) : s[i] \in ToSet(seqs[k])
    <2>1. P[i] \in Places(seqs) /\ s[i] = seqs[P[i][1]][P[i][2]]
      BY <1>2 DEF Tells, At
    <2>2. P[i][1] \in 1..Len(seqs) /\ P[i][2] \in 1..Len(seqs[P[i][1]])
      BY <1>4, <2>1 DEF Places
    <2> QED
      BY <1>4, <2>1, <2>2 DEF ToSet
  <1>6. ASSUME NEW k \in 1..Len(seqs), NEW j \in 1..Len(seqs[k])
        PROVE  seqs[k][j] \in ToSet(s)
    <2>1. <<k, j>> \in Places(seqs)
      BY <1>4 DEF Places
    <2>2. PICK i \in 1..Len(s) : P[i] = <<k, j>>
      BY <1>2, <2>1 DEF Tells
    <2>3. s[i] = At(seqs)[<<k, j>>]
      BY <1>2, <2>2 DEF Tells
    <2>4. At(seqs)[<<k, j>>] = seqs[k][j]
      BY <2>1 DEF At
    <2> QED
      BY <1>3, <2>3, <2>4 DEF ToSet
  <1>7. ASSUME NEW e \in ToSet(s) PROVE \E k \in 1..Len(seqs) : e \in ToSet(seqs[k])
    <2>1. PICK i \in 1..Len(s) : e = s[i]
      BY <1>3 DEF ToSet
    <2> QED
      BY <1>5, <2>1
  <1>8. ASSUME NEW k \in 1..Len(seqs), NEW e \in ToSet(seqs[k]) PROVE e \in ToSet(s)
    <2>1. PICK j \in 1..Len(seqs[k]) : e = seqs[k][j]
      BY <1>4 DEF ToSet
    <2> QED
      BY <1>6, <2>1
  <1>9. \A e : e \in ToSet(s) <=> \E k \in 1..Len(seqs) : e \in ToSet(seqs[k])
    BY <1>7, <1>8
  <1> QED
    BY <1>9 DEF s

-----------------------------------------------------------------------------
(***************************************************************************)
(* Sums over finite sets.                                                  *)
(***************************************************************************)

\* Induction over the subsets of a finite set, element by element.
LEMMA SetInduction ==
    ASSUME NEW S, IsFiniteSet(S), NEW T, {} \in T,
           \A s \in SUBSET S, x \in S : s \in T => s \cup {x} \in T
    PROVE  \A s \in SUBSET S : s \in T
  <1> SUFFICES ASSUME NEW s \in SUBSET S, s \notin T PROVE FALSE
    OBVIOUS
  <1> DEFINE F == (SUBSET S) \ T
  <1>1. F \in SUBSET (SUBSET S) /\ F # {}
    OBVIOUS
  <1>2. PICK m \in F : \A t \in F : ~(t \subseteq m /\ t # m)
    <2> HIDE DEF F
    <2> QED
      BY <1>1, SmallestSubset
  <1>3. PICK x \in m : TRUE
    OBVIOUS
  <1>4. m \ {x} \in SUBSET S /\ m \ {x} \in T
    BY <1>2
  <1>5. (m \ {x}) \cup {x} = m
    OBVIOUS
  <1> QED
    BY <1>4, <1>5

SumOf(g, S) == MapThenSumSet(LAMBDA x : g[x], S)

\* f gives the sums of g over the subsets of S, whichever element is added last.
Adds(g, S, f) ==
    /\ f \in [SUBSET S -> Nat]
    /\ f[{}] = 0
    /\ \A u \in SUBSET S : \A x \in u : f[u] = g[x] + f[u \ {x}]

LEMMA AddsExists ==
    ASSUME NEW S, IsFiniteSet(S), NEW g, \A x \in S : g[x] \in Nat
    PROVE  \E f : Adds(g, S, f)
  <1> DEFINE T == {s \in SUBSET S : \E f : Adds(g, s, f)}
  <1>1. {} \in T
    <2>1. Adds(g, {}, [u \in SUBSET {} |-> 0])
      BY DEF Adds
    <2> QED
      BY <2>1
  <1>2. ASSUME NEW s \in SUBSET S, NEW x \in S, s \in T PROVE s \cup {x} \in T
    <2>1. PICK f : Adds(g, s, f)
      BY <1>2
    <2>2. CASE x \in s
      <3>1. s \cup {x} = s
        BY <2>2
      <3> QED
        BY <1>2, <3>1
    <2>3. CASE x \notin s
      <3> DEFINE h == [u \in SUBSET (s \cup {x}) |-> IF x \in u THEN g[x] + f[u \ {x}] ELSE f[u]]
      <3>1. \A u \in SUBSET (s \cup {x}) :
               /\ x \in u => h[u] = g[x] + f[u \ {x}] /\ u \ {x} \in SUBSET s
               /\ x \notin u => h[u] = f[u] /\ u \in SUBSET s
        OBVIOUS
      <3>2. \A u \in SUBSET s : f[u] \in Nat
        BY <2>1 DEF Adds
      <3>3. g[x] \in Nat
        OBVIOUS
      <3>4. h \in [SUBSET (s \cup {x}) -> Nat]
        <4>1. \A u \in SUBSET (s \cup {x}) : h[u] \in Nat
          BY <3>1, <3>2, <3>3
        <4>2. h = [u \in SUBSET (s \cup {x}) |-> h[u]]
          OBVIOUS
        <4> HIDE DEF h
        <4> QED
          BY <4>1, <4>2
      <3> HIDE DEF h
      <3>5. h[{}] = 0
        BY <2>1, <3>1 DEF Adds
      <3>6. ASSUME NEW u \in SUBSET (s \cup {x}), NEW y \in u
            PROVE  h[u] = g[y] + h[u \ {y}]
        <4>0. u \ {y} \in SUBSET (s \cup {x})
          OBVIOUS
        <4>1. CASE x \notin u
          <5>1. h[u] = f[u] /\ h[u \ {y}] = f[u \ {y}] /\ u \in SUBSET s
            BY <3>1, <4>0, <4>1
          <5>2. f[u] = g[y] + f[u \ {y}]
            BY <2>1, <5>1 DEF Adds
          <5> QED
            BY <5>1, <5>2
        <4>2. CASE x \in u /\ y = x
          <5>1. h[u] = g[x] + f[u \ {x}]
            BY <3>1, <4>2
          <5>2. h[u \ {x}] = f[u \ {x}]
            <6>1. x \notin u \ {x}
              OBVIOUS
            <6> QED
              BY <3>1, <4>0, <4>2, <6>1
          <5> QED
            BY <4>2, <5>1, <5>2
        <4>3. CASE x \in u /\ y # x
          <5> DEFINE v == (u \ {x}) \ {y}
          <5>1. h[u] = g[x] + f[u \ {x}] /\ u \ {x} \in SUBSET s /\ y \in u \ {x}
            BY <3>1, <4>3
          <5>2. f[u \ {x}] = g[y] + f[v]
            BY <2>1, <5>1 DEF Adds
          <5>3. h[u \ {y}] = g[x] + f[v]
            <6>1. (u \ {y}) \ {x} = v /\ x \in u \ {y}
              BY <4>3
            <6> QED
              BY <3>1, <4>0, <6>1
          <5>4. g[y] \in Nat /\ f[v] \in Nat
            <6>1. y \in S /\ v \in SUBSET s
              BY <5>1
            <6> QED
              BY <3>2, <6>1
          <5> HIDE DEF v
          <5> QED
            BY <3>3, <5>1, <5>2, <5>3, <5>4
        <4> QED
          BY <4>1, <4>2, <4>3
      <3>7. Adds(g, s \cup {x}, h)
        BY <3>4, <3>5, <3>6 DEF Adds
      <3> QED
        BY <3>7
    <2> QED
      BY <2>2, <2>3
  <1> HIDE DEF T
  <1>3. \A s \in SUBSET S : s \in T
    BY <1>1, <1>2, SetInduction
  <1> QED
    BY <1>3 DEF T

\* The sum over a subset is what any such f gives for it.
LEMMA SumIs ==
    ASSUME NEW S, IsFiniteSet(S), NEW g, NEW f, Adds(g, S, f), NEW s \in SUBSET S
    PROVE  SumOf(g, s) = f[s]
  <1> DEFINE Iter(h) == h = [u \in SUBSET s |-> IF u = {} THEN 0
                                                ELSE g[CHOOSE x \in u : TRUE] + h[u \ {CHOOSE x \in u : TRUE}]]
             h == CHOOSE k : Iter(k)
  <1>1. SumOf(g, s) = h[s]
    BY Zenon DEF SumOf, MapThenSumSet, MapThenFoldSet
  <1>2. \A u \in SUBSET s : u # {} => (CHOOSE x \in u : TRUE) \in u
    OBVIOUS
  <1>3. Iter(h)
    <2> DEFINE k == [u \in SUBSET s |-> f[u]]
    <2>1. \A u \in SUBSET s : u \in SUBSET S /\ \A x : u \ {x} \in SUBSET s
      OBVIOUS
    <2>2. ASSUME NEW u \in SUBSET s
          PROVE  k[u] = IF u = {} THEN 0
                        ELSE g[CHOOSE x \in u : TRUE] + k[u \ {CHOOSE x \in u : TRUE}]
      <3>1. CASE u = {}
        BY <3>1 DEF Adds
      <3>2. CASE u # {}
        <4> DEFINE y == CHOOSE x \in u : TRUE
        <4>1. y \in u
          BY <1>2, <3>2
        <4> HIDE DEF y
        <4>2. f[u] = g[y] + f[u \ {y}]
          BY <2>1, <4>1 DEF Adds
        <4>3. k[u] = f[u] /\ k[u \ {y}] = f[u \ {y}]
          BY <2>1
        <4> QED
          BY <3>2, <4>2, <4>3 DEF y
      <3> QED
        BY <3>1, <3>2
    <2>3. k = [u \in SUBSET s |-> k[u]]
      OBVIOUS
    <2> HIDE DEF k
    <2>4. Iter(k)
      BY <2>2, <2>3
    <2> HIDE DEF Iter
    <2> QED
      BY <2>4, Zenon
  <1> HIDE DEF h
  <1>4. \A u \in SUBSET s : h[u] = IF u = {} THEN 0
                                   ELSE g[CHOOSE x \in u : TRUE] + h[u \ {CHOOSE x \in u : TRUE}]
    BY <1>3
  <1>5. h[s] = f[s]
    <2> SUFFICES ASSUME h[s] # f[s] PROVE FALSE
      OBVIOUS
    <2> DEFINE F == {u \in SUBSET s : h[u] # f[u]}
    <2>1. F \in SUBSET (SUBSET s) /\ F # {}
      OBVIOUS
    <2>2. IsFiniteSet(s)
      BY FS_Subset
    <2>3. PICK m \in F : \A t \in F : ~(t \subseteq m /\ t # m)
      <3> HIDE DEF F
      <3> QED
        BY <2>1, <2>2, SmallestSubset
    <2>4. m \in SUBSET s /\ m \in SUBSET S /\ h[m] # f[m]
      OBVIOUS
    <2>5. m # {}
      BY <1>4, <2>4 DEF Adds
    <2> DEFINE y == CHOOSE x \in m : TRUE
    <2>6. y \in m
      BY <1>2, <2>4, <2>5
    <2>7. h[m] = g[y] + h[m \ {y}]
      BY <1>4, <2>4, <2>5
    <2> HIDE DEF y
    <2>8. f[m] = g[y] + f[m \ {y}]
      BY <2>4, <2>6 DEF Adds
    <2>9. h[m \ {y}] = f[m \ {y}]
      BY <2>3, <2>4, <2>6
    <2> QED
      BY <2>4, <2>7, <2>8, <2>9
  <1> QED
    BY <1>1, <1>5

LEMMA SumEmpty ==
    ASSUME NEW g
    PROVE  SumOf(g, {}) = 0
  <1>1. IsFiniteSet({})
    BY FS_EmptySet
  <1>2. PICK f : Adds(g, {}, f)
    BY <1>1, AddsExists
  <1>3. SumOf(g, {}) = f[{}]
    BY <1>1, <1>2, SumIs
  <1> QED
    BY <1>2, <1>3 DEF Adds

\* The sum is a number, and any element can be added last.
LEMMA SumAdds ==
    ASSUME NEW S, IsFiniteSet(S), NEW g, \A x \in S : g[x] \in Nat, NEW s \in SUBSET S
    PROVE  /\ SumOf(g, s) \in Nat
           /\ \A x \in s : SumOf(g, s) = g[x] + SumOf(g, s \ {x})
           /\ \A x \in S : x \notin s => SumOf(g, s \cup {x}) = g[x] + SumOf(g, s)
  <1>1. PICK f : Adds(g, S, f)
    BY AddsExists
  <1>2. \A u \in SUBSET S : SumOf(g, u) = f[u] /\ f[u] \in Nat
    <2>1. \A u \in SUBSET S : SumOf(g, u) = f[u]
      BY <1>1, SumIs
    <2> QED
      BY <1>1, <2>1 DEF Adds
  <1>3. ASSUME NEW x \in s PROVE SumOf(g, s) = g[x] + SumOf(g, s \ {x})
    BY <1>1, <1>2 DEF Adds
  <1>4. ASSUME NEW x \in S, x \notin s PROVE SumOf(g, s \cup {x}) = g[x] + SumOf(g, s)
    <2>1. (s \cup {x}) \ {x} = s /\ s \cup {x} \in SUBSET S
      BY <1>4
    <2>2. f[s \cup {x}] = g[x] + f[s]
      BY <1>1, <2>1 DEF Adds
    <2> QED
      BY <1>2, <2>1, <2>2
  <1> QED
    BY <1>2, <1>3, <1>4

\* Sums of what is not smaller are not smaller, also with a factor.
LEMMA SumAtLeast ==
    ASSUME NEW S, IsFiniteSet(S), NEW c \in Nat, NEW g, NEW h,
           \A x \in S : g[x] \in Nat /\ h[x] \in Nat /\ c * g[x] <= h[x]
    PROVE  c * SumOf(g, S) <= SumOf(h, S)
  <1> DEFINE T == {s \in SUBSET S : c * SumOf(g, s) <= SumOf(h, s)}
  <1>1. {} \in T
    BY SumEmpty
  <1>2. ASSUME NEW s \in SUBSET S, NEW x \in S, s \in T PROVE s \cup {x} \in T
    <2>1. CASE x \in s
      <3>1. s \cup {x} = s
        BY <2>1
      <3> QED
        BY <1>2, <3>1
    <2>2. CASE x \notin s
      <3> DEFINE a == SumOf(g, s)
                 b == SumOf(h, s)
      <3>1. a \in Nat /\ b \in Nat /\ c * a <= b
        BY <1>2, SumAdds
      <3>2. SumOf(g, s \cup {x}) = g[x] + a /\ SumOf(h, s \cup {x}) = h[x] + b
        BY <2>2, SumAdds
      <3>3. g[x] \in Nat /\ h[x] \in Nat /\ c * g[x] <= h[x]
        OBVIOUS
      <3> HIDE DEF a, b
      <3>4. c * (g[x] + a) <= h[x] + b
        <4>1. \A k, m \in Nat : c * (k + m) = c * k + c * m
          OBVIOUS
        <4>2. c * g[x] \in Nat /\ c * a \in Nat
          BY <3>1, <3>3
        <4> QED
          BY <3>1, <3>3, <4>1, <4>2
      <3> QED
        BY <3>2, <3>4
    <2> QED
      BY <2>1, <2>2
  <1> HIDE DEF T
  <1>3. \A s \in SUBSET S : s \in T
    BY <1>1, <1>2, SetInduction
  <1> QED
    BY <1>3 DEF T

LEMMA SumAtMost ==
    ASSUME NEW S, IsFiniteSet(S), NEW c \in Nat, NEW g, NEW h,
           \A x \in S : g[x] \in Nat /\ h[x] \in Nat /\ h[x] <= c * g[x]
    PROVE  SumOf(h, S) <= c * SumOf(g, S)
  <1> DEFINE T == {s \in SUBSET S : SumOf(h, s) <= c * SumOf(g, s)}
  <1>1. {} \in T
    BY SumEmpty
  <1>2. ASSUME NEW s \in SUBSET S, NEW x \in S, s \in T PROVE s \cup {x} \in T
    <2>1. CASE x \in s
      <3>1. s \cup {x} = s
        BY <2>1
      <3> QED
        BY <1>2, <3>1
    <2>2. CASE x \notin s
      <3> DEFINE a == SumOf(g, s)
                 b == SumOf(h, s)
      <3>1. a \in Nat /\ b \in Nat /\ b <= c * a
        BY <1>2, SumAdds
      <3>2. SumOf(g, s \cup {x}) = g[x] + a /\ SumOf(h, s \cup {x}) = h[x] + b
        BY <2>2, SumAdds
      <3>3. g[x] \in Nat /\ h[x] \in Nat /\ h[x] <= c * g[x]
        OBVIOUS
      <3> HIDE DEF a, b
      <3>4. h[x] + b <= c * (g[x] + a)
        <4>1. \A k, m \in Nat : c * (k + m) = c * k + c * m
          OBVIOUS
        <4>2. c * g[x] \in Nat /\ c * a \in Nat
          BY <3>1, <3>3
        <4> QED
          BY <3>1, <3>3, <4>1, <4>2
      <3> QED
        BY <3>2, <3>4
    <2> QED
      BY <2>1, <2>2
  <1> HIDE DEF T
  <1>3. \A s \in SUBSET S : s \in T
    BY <1>1, <1>2, SetInduction
  <1> QED
    BY <1>3 DEF T

\* The sum depends on the values only.
LEMMA SumSame ==
    ASSUME NEW S, IsFiniteSet(S), NEW g, NEW h, \A x \in S : g[x] \in Nat /\ h[x] = g[x]
    PROVE  SumOf(h, S) = SumOf(g, S)
  <1>1. SumOf(g, S) \in Nat /\ SumOf(h, S) \in Nat
    BY SumAdds
  <1>2. \A x \in S : h[x] <= 1 * g[x] /\ 1 * g[x] <= h[x]
    OBVIOUS
  <1>3. SumOf(h, S) <= 1 * SumOf(g, S)
    BY <1>2, SumAtMost
  <1>4. 1 * SumOf(g, S) <= SumOf(h, S)
    BY <1>2, SumAtLeast
  <1> QED
    BY <1>1, <1>3, <1>4

\* One value more.
LEMMA SumMore ==
    ASSUME NEW S, IsFiniteSet(S), NEW g, NEW h, NEW y \in S, NEW c \in Nat,
           \A x \in S : g[x] \in Nat,
           \A x \in S : h[x] = IF x = y THEN g[y] + c ELSE g[x]
    PROVE  SumOf(h, S) = SumOf(g, S) + c
  <1>1. \A x \in S : h[x] \in Nat
    OBVIOUS
  <1>2. SumOf(g, S) = g[y] + SumOf(g, S \ {y}) /\ SumOf(h, S) = h[y] + SumOf(h, S \ {y})
    BY <1>1, SumAdds
  <1>3. IsFiniteSet(S \ {y})
    BY FS_Subset
  <1>4. SumOf(h, S \ {y}) = SumOf(g, S \ {y})
    BY <1>3, SumSame
  <1>5. SumOf(g, S \ {y}) \in Nat
    BY SumAdds
  <1> QED
    BY <1>2, <1>4, <1>5

\* A finite set of numbers has a bound.
LEMMA Bounded ==
    ASSUME NEW S \in SUBSET Nat, IsFiniteSet(S)
    PROVE  \E b \in Nat : \A x \in S : x < b
  <1> DEFINE T == {s \in SUBSET S : \E b \in Nat : \A x \in s : x < b}
  <1>1. {} \in T
    <2>1. 0 \in Nat
      OBVIOUS
    <2> QED
      BY <2>1
  <1>2. ASSUME NEW s \in SUBSET S, NEW x \in S, s \in T PROVE s \cup {x} \in T
    <2>1. PICK b \in Nat : \A y \in s : y < b
      BY <1>2
    <2>2. x \in Nat /\ \A y \in s : y \in Nat
      OBVIOUS
    <2> DEFINE c == b + x + 1
    <2>3. c \in Nat /\ \A y \in s \cup {x} : y < c
      BY <2>1, <2>2
    <2> HIDE DEF c
    <2> QED
      BY <2>3
  <1> HIDE DEF T
  <1>3. \A s \in SUBSET S : s \in T
    BY <1>1, <1>2, SetInduction
  <1> QED
    BY <1>3 DEF T

-----------------------------------------------------------------------------
(***************************************************************************)
(* Folds from the left over the places of a sequence.                      *)
(***************************************************************************)

\* A set of numbers up to n that is not empty has a largest one.
LEMMA MaxThere ==
    ASSUME NEW n \in Nat, NEW s \in SUBSET (1..n), s # {}
    PROVE  Max(s) \in s /\ \A x \in s : x <= Max(s)
  <1> DEFINE Has(u) == \E x \in u : \A y \in u : x >= y
             T == {m \in Nat : \A u \in SUBSET (1..m) : u # {} => Has(u)}
  <1>1. 0 \in T
    <2>1. 1..0 = {}
      OBVIOUS
    <2> QED
      BY <2>1
  <1>2. ASSUME NEW m \in T PROVE m + 1 \in T
    <2>1. m \in Nat /\ m + 1 \in Nat
      OBVIOUS
    <2>2. ASSUME NEW u \in SUBSET (1..(m + 1)), u # {} PROVE Has(u)
      <3>1. CASE m + 1 \in u
        BY <2>1, <3>1
      <3>2. CASE m + 1 \notin u
        <4>1. u \in SUBSET (1..m)
          BY <2>1, <3>2
        <4> QED
          BY <2>2, <4>1
      <3> QED
        BY <3>1, <3>2
    <2> QED
      BY <2>1, <2>2
  <1>3. n \in T
    <2> HIDE DEF T
    <2>1. T \in SUBSET Nat
      BY DEF T
    <2> QED
      BY <1>1, <1>2, <2>1, Induction
  <1>4. Has(s)
    BY <1>3
  <1>5. Max(s) \in s /\ \A y \in s : Max(s) >= y
    BY <1>4, Zenon DEF Max
  <1>6. \A y \in s : y \in Nat
    OBVIOUS
  <1> QED
    BY <1>5, <1>6

LEMMA MaxIs ==
    ASSUME NEW n \in Nat, NEW s \in SUBSET (1..n), NEW m \in s, \A x \in s : x <= m
    PROVE  Max(s) = m
  <1>1. Max(s) \in s /\ \A x \in s : x <= Max(s)
    BY MaxThere
  <1>2. \A x \in s : x \in Nat
    OBVIOUS
  <1>3. Max(s) <= m /\ m <= Max(s) /\ m \in Nat /\ Max(s) \in Nat
    <2> DEFINE k == Max(s)
    <2>1. k \in s /\ m <= k
      BY <1>1
    <2> HIDE DEF k
    <2>2. k <= m /\ k \in Nat /\ m \in Nat
      BY <1>2, <2>1
    <2> QED
      BY <2>1, <2>2 DEF k
  <1> QED
    BY <1>3

\* The function a fold from the left over n places is defined by.
FoldsLeft(n, base, op, f) ==
    f = [s \in SUBSET (1..n) |->
            IF s = {} THEN base ELSE op[<<Max(s), f[s \ {Max(s)}]>>]]

\* There is one: it is built from its values for fewer places.
LEMMA FoldExists ==
    ASSUME NEW n \in Nat, NEW A, NEW base \in A, NEW op \in [(1..n) \X A -> A]
    PROVE  \E f \in [SUBSET (1..n) -> A] : FoldsLeft(n, base, op, f)
  <1> DEFINE Folds(m) == \E f \in [SUBSET (1..m) -> A] : FoldsLeft(m, base, op, f)
             T == {m \in Nat : m <= n => Folds(m)}
  <1>1. 0 \in T
    <2> DEFINE f == [s \in SUBSET (1..0) |-> base]
    <2>1. 1..0 = {}
      OBVIOUS
    <2>2. f \in [SUBSET (1..0) -> A] /\ \A s \in SUBSET (1..0) : s = {}
      BY <2>1
    <2>3. FoldsLeft(0, base, op, f)
      BY <2>2 DEF FoldsLeft
    <2> QED
      BY <2>2, <2>3
  <1>2. ASSUME NEW m \in T PROVE m + 1 \in T
    <2> SUFFICES ASSUME m + 1 <= n PROVE Folds(m + 1)
      <3> HIDE DEF Folds
      <3> QED
        OBVIOUS
    <2>1. m \in Nat /\ m <= n /\ m + 1 \in Nat
      OBVIOUS
    <2>2. PICK f \in [SUBSET (1..m) -> A] : FoldsLeft(m, base, op, f)
      BY <2>1
    <2> DEFINE last == m + 1
               g == [s \in SUBSET (1..last) |-> IF last \in s THEN op[<<last, f[s \ {last}]>>] ELSE f[s]]
    <2>3. \A s \in SUBSET (1..last) : s \ {last} \in SUBSET (1..m) /\ (last \notin s => s \in SUBSET (1..m))
      BY <2>1
    <2>4. \A s \in SUBSET (1..m) : last \notin s /\ s \in SUBSET (1..last)
      BY <2>1
    <2>5. last \in 1..n /\ last \in Nat
      BY <2>1
    <2> HIDE DEF last
    <2>6. \A s \in SUBSET (1..last) : g[s] \in A
      <3> SUFFICES ASSUME NEW s \in SUBSET (1..last) PROVE g[s] \in A
        OBVIOUS
      <3>1. f[s \ {last}] \in A /\ (last \notin s => f[s] \in A)
        BY <2>3
      <3>2. op[<<last, f[s \ {last}]>>] \in A
        BY <2>5, <3>1
      <3> QED
        BY <3>1, <3>2
    <2>7. \A s \in SUBSET (1..m) : g[s] = f[s]
      BY <2>4
    <2>8. ASSUME NEW s \in SUBSET (1..last)
          PROVE  g[s] = IF s = {} THEN base ELSE op[<<Max(s), g[s \ {Max(s)}]>>]
      <3>1. CASE last \in s
        <4>1. \A x \in s : x <= last
          BY <2>5
        <4>2. Max(s) = last
          BY <2>5, <3>1, <4>1, MaxIs
        <4>3. g[s \ {last}] = f[s \ {last}]
          BY <2>3, <2>7
        <4>4. g[s] = op[<<last, f[s \ {last}]>>]
          BY <3>1
        <4> HIDE DEF g
        <4> QED
          BY <3>1, <4>2, <4>3, <4>4
      <3>2. CASE last \notin s
        <4>1. s \in SUBSET (1..m)
          BY <2>3, <3>2
        <4>2. f[s] = IF s = {} THEN base ELSE op[<<Max(s), f[s \ {Max(s)}]>>]
          BY <2>2, <4>1 DEF FoldsLeft
        <4>3. s \ {Max(s)} \in SUBSET (1..m)
          BY <4>1
        <4>4. g[s] = f[s] /\ g[s \ {Max(s)}] = f[s \ {Max(s)}]
          BY <2>7, <4>1, <4>3
        <4> HIDE DEF g
        <4> QED
          BY <4>2, <4>4
      <3> QED
        BY <3>1, <3>2
    <2>9. g \in [SUBSET (1..last) -> A]
      BY <2>6
    <2>10. FoldsLeft(last, base, op, g)
      <3>1. DOMAIN g = SUBSET (1..last)
        OBVIOUS
      <3>2. g = [s \in SUBSET (1..last) |-> g[s]]
        OBVIOUS
      <3> HIDE DEF g
      <3>3. g = [s \in SUBSET (1..last) |-> IF s = {} THEN base ELSE op[<<Max(s), g[s \ {Max(s)}]>>]]
        BY <2>8, <3>2
      <3> QED
        BY <3>3 DEF FoldsLeft
    <2> QED
      BY <2>9, <2>10 DEF last
  <1>3. n \in T
    <2> HIDE DEF T
    <2>1. T \in SUBSET Nat
      BY DEF T
    <2> QED
      BY <1>1, <1>2, <2>1, Induction
  <1>4. Folds(n)
    <2> HIDE DEF Folds
    <2> QED
      BY <1>3
  <1> QED
    BY <1>4

\* The places of a prefix, the last of them taken away.
LEMMA Prefix ==
    ASSUME NEW n \in Nat, NEW k \in 1..n
    PROVE  1..k \in SUBSET (1..n) /\ 1..k # {} /\ Max(1..k) = k /\ (1..k) \ {k} = 1..(k - 1)
  <1>1. 1..k \in SUBSET (1..n) /\ k \in 1..k /\ \A x \in 1..k : x <= k
    OBVIOUS
  <1>2. Max(1..k) = k
    BY <1>1, MaxIs
  <1>3. (1..k) \ {k} = 1..(k - 1)
    OBVIOUS
  <1> QED
    BY <1>1, <1>2, <1>3

\* What is shifted out of a number is its last bit.
LEMMA Halved ==
    ASSUME NEW i \in Nat, NEW b \in {0, 1}
    PROVE  (2 * i + b) \div 2 = i /\ (2 * i + b) % 2 = b
  OBVIOUS

=============================================================================
