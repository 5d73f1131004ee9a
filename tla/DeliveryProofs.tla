--------------------------- MODULE DeliveryProofs ---------------------------
(***************************************************************************)
(* Theorems about Delivery, for any pipelines, lists of files, executors,  *)
(* ABIs, versions, frequencies and number of restarts.                     *)
(***************************************************************************)
EXTENDS Delivery, FiniteSetTheorems, DataLemmas, TLAPS

-----------------------------------------------------------------------------
(***************************************************************************)
(* prepare_all_models: what is in the list of benchmarks and what is pushed.*)
(***************************************************************************)

\* What prepare_all_models knows of a model.
LEMMA ModelFacts ==
    ASSUME NEW k \in 1..Len(Benchmarks)
    PROVE  /\ Len(Benchmarks) \in Nat
           /\ Benchmarks[k].files \in Seq(Model)
           /\ Benchmarks[k].devices \in Seq(DeviceType)
           /\ IsInjective(Benchmarks[k].devices)
  BY PreparationAssumption

\* The types of a model that are asked for, each once.
LEMMA TypesSelected ==
    ASSUME NEW asked, NEW k \in 1..Len(Benchmarks), NEW m, m = Benchmarks[k], AskedFor(asked, m)
    PROVE  /\ TypesAsked(asked, m) \in Seq(DeviceType)
           /\ IsInjective(TypesAsked(asked, m))
           /\ ToSet(TypesAsked(asked, m)) = ToSet(m.devices) \cap asked.types
  <1> DEFINE N == Len(m.devices)
             seqs == [j \in 1..N |-> IF m.devices[j] \in asked.types THEN <<m.devices[j]>> ELSE <<>>]
             s == TypesAsked(asked, m)
  <1>1. m.devices \in Seq(DeviceType) /\ N \in Nat /\ IsInjective(m.devices)
    BY ModelFacts
  <1>2. \A j \in 1..N : m.devices[j] \in DeviceType
    BY <1>1
  <1>3. s = FlattenSeq(seqs)
    BY DEF TypesAsked
  <1>4. Len(seqs) = N /\ seqs \in Seq(Seq(DeviceType))
    <2>1. \A j \in 1..N : (IF m.devices[j] \in asked.types THEN <<m.devices[j]>> ELSE <<>>) \in Seq(DeviceType)
      BY <1>2
    <2>2. seqs \in [1..N -> Seq(DeviceType)]
      BY <2>1
    <2> QED
      BY <1>1, <2>2
  <1>5. s \in Seq(DeviceType) /\ \E P : Tells(s, Places(seqs), At(seqs), P)
    <2> HIDE DEF seqs, s
    <2> QED
      BY <1>3, <1>4, FlattenPlaces
  <1>6. PICK P : Tells(s, Places(seqs), At(seqs), P)
    BY <1>5
  <1>7. ASSUME NEW p \in Places(seqs)
        PROVE  /\ p[1] \in 1..N /\ p[2] = 1 /\ p = <<p[1], p[2]>>
               /\ m.devices[p[1]] \in asked.types /\ At(seqs)[p] = m.devices[p[1]]
    <2>1. p[1] \in 1..N /\ p[2] \in Nat \ {0} /\ p = <<p[1], p[2]>> /\ p[2] <= Len(seqs[p[1]])
      BY <1>4 DEF Places
    <2>2. m.devices[p[1]] \in asked.types
      BY <2>1
    <2>3. seqs[p[1]] = <<m.devices[p[1]]>>
      BY <2>1, <2>2
    <2>4. p[2] = 1
      <3> HIDE DEF seqs
      <3> QED
        BY <2>1, <2>3
    <2>5. At(seqs)[p] = seqs[p[1]][p[2]]
      BY DEF At
    <2> QED
      BY <2>1, <2>2, <2>3, <2>4, <2>5
  <1>8. ASSUME NEW j \in 1..N, m.devices[j] \in asked.types
        PROVE  <<j, 1>> \in Places(seqs)
    <2>1. seqs[j] = <<m.devices[j]>> /\ Len(seqs[j]) = 1
      BY <1>8
    <2> QED
      BY <1>4, <2>1 DEF Places
  <1> HIDE DEF s, seqs
  <1>9. DOMAIN s = 1..Len(s) /\ DOMAIN m.devices = 1..N
    BY <1>1, <1>5
  <1>10. IsInjective(s)
    <2> SUFFICES ASSUME NEW i \in 1..Len(s), NEW j \in 1..Len(s), s[i] = s[j] PROVE i = j
      BY <1>9 DEF IsInjective
    <2>1. P[i] \in Places(seqs) /\ P[j] \in Places(seqs)
      BY <1>6 DEF Tells
    <2>2. m.devices[P[i][1]] = m.devices[P[j][1]]
      BY <1>6, <1>7, <2>1 DEF Tells
    <2>3. P[i][1] = P[j][1]
      BY <1>1, <1>7, <1>9, <2>1, <2>2 DEF IsInjective
    <2>4. P[i] = P[j]
      BY <1>7, <2>1, <2>3
    <2> QED
      BY <1>6, <2>4 DEF Tells
  <1>11. ToSet(s) \subseteq ToSet(m.devices) \cap asked.types
    <2> SUFFICES ASSUME NEW i \in 1..Len(s) PROVE s[i] \in ToSet(m.devices) \cap asked.types
      BY <1>9 DEF ToSet
    <2>1. P[i] \in Places(seqs) /\ s[i] = At(seqs)[P[i]]
      BY <1>6 DEF Tells
    <2> QED
      BY <1>7, <1>9, <2>1 DEF ToSet
  <1>12. ToSet(m.devices) \cap asked.types \subseteq ToSet(s)
    <2> SUFFICES ASSUME NEW j \in 1..N, m.devices[j] \in asked.types PROVE m.devices[j] \in ToSet(s)
      BY <1>9 DEF ToSet
    <2>1. <<j, 1>> \in Places(seqs)
      BY <1>8
    <2>2. PICK i \in 1..Len(s) : P[i] = <<j, 1>>
      BY <1>6, <2>1 DEF Tells
    <2>3. s[i] = m.devices[j]
      BY <1>6, <1>7, <2>1, <2>2 DEF Tells
    <2> QED
      BY <1>9, <2>3 DEF ToSet
  <1> QED
    BY <1>5, <1>10, <1>11, <1>12 DEF s

\* The pairs of a model and a device type that were asked for, and the item of
\* each.
Wants(asked) ==
    {x \in (1..Len(Benchmarks)) \X asked.types :
        /\ AskedFor(asked, Benchmarks[x[1]])
        /\ x[2] \in ToSet(Benchmarks[x[1]].devices)}

ItemOf(x) ==
    LET m == Benchmarks[x[1]]
    IN  [executor |-> m.executor, name |-> m.name, quantize |-> m.quantize, type |-> x[2]]

LEMMA ListTells ==
    ASSUME NEW asked
    PROVE  /\ BenchmarkList(asked) \in Seq({ItemOf(x) : x \in (1..Len(Benchmarks)) \X DeviceType})
           /\ \E W : Tells(BenchmarkList(asked), Wants(asked), [x \in Wants(asked) |-> ItemOf(x)], W)
  <1> DEFINE N == Len(Benchmarks)
             S == {ItemOf(x) : x \in (1..N) \X DeviceType}
             T(k) == TypesAsked(asked, Benchmarks[k])
             seqs == [k \in 1..N |-> Items(asked, Benchmarks[k])]
             list == BenchmarkList(asked)
  <1>1. N \in Nat
    BY PreparationAssumption
  <1>2. ASSUME NEW k \in 1..N
        PROVE  /\ T(k) \in Seq(DeviceType)
               /\ \A i \in 1..Len(T(k)) : <<k, T(k)[i]>> \in Wants(asked)
               /\ \A i, j \in 1..Len(T(k)) : T(k)[i] = T(k)[j] => i = j
               /\ \A t : <<k, t>> \in Wants(asked) => \E i \in 1..Len(T(k)) : T(k)[i] = t
    <2>1. CASE AskedFor(asked, Benchmarks[k])
      <3>1. /\ T(k) \in Seq(DeviceType)
            /\ IsInjective(T(k))
            /\ ToSet(T(k)) = ToSet(Benchmarks[k].devices) \cap asked.types
        BY <2>1, TypesSelected
      <3> HIDE DEF T
      <3>2. DOMAIN T(k) = 1..Len(T(k))
        BY <3>1
      <3>3. \A i \in 1..Len(T(k)) : T(k)[i] \in ToSet(Benchmarks[k].devices) \cap asked.types
        BY <3>1, <3>2 DEF ToSet
      <3>4. \A i, j \in 1..Len(T(k)) : T(k)[i] = T(k)[j] => i = j
        BY <3>1, <3>2 DEF IsInjective
      <3>5. \A t : <<k, t>> \in Wants(asked) => t \in ToSet(Benchmarks[k].devices) \cap asked.types
        BY DEF Wants
      <3>6. \A t : t \in ToSet(T(k)) => \E i \in 1..Len(T(k)) : T(k)[i] = t
        BY <3>2 DEF ToSet
      <3> QED
        BY <2>1, <3>1, <3>3, <3>4, <3>5, <3>6 DEF Wants
    <2>2. CASE ~AskedFor(asked, Benchmarks[k])
      <3>1. T(k) = <<>>
        BY <2>2 DEF TypesAsked
      <3>2. \A t : <<k, t>> \notin Wants(asked)
        BY <2>2 DEF Wants
      <3> HIDE DEF T
      <3> QED
        BY <3>1, <3>2
    <2> QED
      BY <2>1, <2>2
  <1>3. \A k \in 1..N : seqs[k] = [i \in 1..Len(T(k)) |-> ItemOf(<<k, T(k)[i]>>)]
    BY DEF Items, ItemOf
  <1> HIDE DEF T
  <1>4. ASSUME NEW k \in 1..N
        PROVE  /\ seqs[k] \in Seq(S)
               /\ Len(T(k)) \in Nat /\ Len(seqs[k]) = Len(T(k))
               /\ \A i \in 1..Len(T(k)) : seqs[k][i] = ItemOf(<<k, T(k)[i]>>)
    <2>1. Len(T(k)) \in Nat /\ \A i \in 1..Len(T(k)) : T(k)[i] \in DeviceType
      BY <1>2
    <2>2. \A i \in 1..Len(T(k)) : ItemOf(<<k, T(k)[i]>>) \in S
      BY <2>1
    <2>3. seqs[k] \in [1..Len(T(k)) -> S]
      <3> HIDE DEF S, seqs
      <3> QED
        BY <1>3, <2>2
    <2> HIDE DEF S, seqs
    <2>4. seqs[k] \in Seq(S) /\ Len(seqs[k]) = Len(T(k))
      BY <2>1, <2>3
    <2>5. \A i \in 1..Len(T(k)) : seqs[k][i] = ItemOf(<<k, T(k)[i]>>)
      BY <1>3
    <2> QED
      BY <2>1, <2>4, <2>5
  <1>5. seqs \in Seq(Seq(S)) /\ Len(seqs) = N
    <2>1. seqs \in [1..N -> Seq(S)]
      <3> HIDE DEF S
      <3> QED
        BY <1>4
    <2> HIDE DEF S
    <2> QED
      BY <1>1, <2>1
  <1>6. list \in Seq(S) /\ \E P : Tells(list, Places(seqs), At(seqs), P)
    <2>1. list = FlattenSeq(seqs)
      BY DEF BenchmarkList
    <2> HIDE DEF seqs, S, list
    <2> QED
      BY <1>5, <2>1, FlattenPlaces
  <1>7. PICK P : Tells(list, Places(seqs), At(seqs), P)
    BY <1>6
  <1> HIDE DEF seqs, list
  <1>8. ASSUME NEW p \in Places(seqs)
        PROVE  /\ p[1] \in 1..N /\ p[2] \in 1..Len(T(p[1])) /\ p = <<p[1], p[2]>>
               /\ At(seqs)[p] = ItemOf(<<p[1], T(p[1])[p[2]]>>)
    <2>1. p[1] \in 1..N /\ p[2] \in Nat \ {0} /\ p = <<p[1], p[2]>> /\ p[2] <= Len(seqs[p[1]])
      BY <1>5 DEF Places
    <2>2. Len(seqs[p[1]]) = Len(T(p[1])) /\ Len(T(p[1])) \in Nat
      BY <1>4, <2>1
    <2>3. p[2] \in 1..Len(T(p[1]))
      BY <2>1, <2>2
    <2>4. At(seqs)[p] = seqs[p[1]][p[2]]
      BY DEF At
    <2> QED
      BY <1>4, <2>1, <2>3, <2>4
  <1> DEFINE Pair(p) == <<p[1], T(p[1])[p[2]]>>
             W == [i \in 1..Len(list) |-> Pair(P[i])]
  <1>9. \A i \in 1..Len(list) : P[i] \in Places(seqs) /\ list[i] = At(seqs)[P[i]]
    BY <1>7 DEF Tells
  <1>10. \A i \in 1..Len(list) : W[i] \in Wants(asked) /\ list[i] = ItemOf(W[i])
    BY <1>2, <1>8, <1>9
  <1>11. ASSUME NEW i \in 1..Len(list), NEW j \in 1..Len(list), W[i] = W[j] PROVE i = j
    <2>1. P[i][1] = P[j][1] /\ T(P[i][1])[P[i][2]] = T(P[j][1])[P[j][2]]
      BY <1>11
    <2>2. P[i][2] = P[j][2]
      <3>1. /\ P[i][1] \in 1..N
            /\ P[i][2] \in 1..Len(T(P[i][1])) /\ P[j][2] \in 1..Len(T(P[i][1]))
            /\ T(P[i][1])[P[i][2]] = T(P[i][1])[P[j][2]]
        BY <1>8, <1>9, <2>1
      <3> QED
        BY <1>2, <3>1, SMTT(30)
    <2>3. P[i] = P[j]
      BY <1>8, <1>9, <2>1, <2>2, ZenonT(40)
    <2> QED
      BY <1>7, <2>3 DEF Tells
  <1>12. ASSUME NEW x \in Wants(asked) PROVE \E i \in 1..Len(list) : W[i] = x
    <2>1. x[1] \in 1..N /\ x = <<x[1], x[2]>>
      BY DEF Wants
    <2>2. PICK i \in 1..Len(T(x[1])) : T(x[1])[i] = x[2]
      BY <1>2, <2>1
    <2>3. <<x[1], i>> \in Places(seqs)
      <3>1. Len(seqs[x[1]]) = Len(T(x[1])) /\ Len(T(x[1])) \in Nat
        BY <1>4, <2>1
      <3> QED
        BY <1>5, <2>1, <2>2, <3>1 DEF Places
    <2>4. PICK j \in 1..Len(list) : P[j] = <<x[1], i>>
      BY <1>7, <2>3 DEF Tells
    <2>5. W[j] = x
      BY <2>1, <2>2, <2>4
    <2> QED
      BY <2>5
  <1>13. Tells(list, Wants(asked), [x \in Wants(asked) |-> ItemOf(x)], W)
    <2>1. W \in [1..Len(list) -> Wants(asked)]
      BY <1>10
    <2>2. \A i \in 1..Len(list) : list[i] = [x \in Wants(asked) |-> ItemOf(x)][W[i]]
      BY <1>10
    <2> HIDE DEF W
    <2> QED
      BY <1>11, <1>12, <2>1, <2>2 DEF Tells
  <1> QED
    BY <1>6, <1>13 DEF list

\* What is pushed: the protos, and the files of the models in the list.
LEMMA PushHas ==
    ASSUME NEW asked
    PROVE  /\ PushList(asked) \in Seq(Model)
           /\ ToSet(PushList(asked)) = Generated \cup UNION {ToSet(Benchmarks[x[1]].files) : x \in Wants(asked)}
  <1> DEFINE N == Len(Benchmarks)
             F(k) == ModelFiles(asked, Benchmarks[k])
             seqs == [k \in 1..N |-> F(k)]
             s == FlattenSeq(seqs)
             push == PushList(asked)
  <1>1. N \in Nat /\ Protos \in Seq(Model)
    BY PreparationAssumption
  <1>2. ASSUME NEW k \in 1..N
        PROVE  /\ F(k) \in Seq(Model)
               /\ \A x \in Wants(asked) : x[1] = k => F(k) = Benchmarks[k].files
               /\ F(k) = <<>> \/ \E x \in Wants(asked) : x[1] = k /\ F(k) = Benchmarks[k].files
    <2> DEFINE T == TypesAsked(asked, Benchmarks[k])
    <2>1. Benchmarks[k].files \in Seq(Model)
      BY ModelFacts
    <2>2. CASE AskedFor(asked, Benchmarks[k])
      <3>1. T \in Seq(DeviceType) /\ ToSet(T) = ToSet(Benchmarks[k].devices) \cap asked.types
        BY <2>2, TypesSelected
      <3>2. F(k) = IF T = <<>> THEN <<>> ELSE Benchmarks[k].files
        BY DEF ModelFiles
      <3> HIDE DEF T, F
      <3>3. CASE T = <<>>
        <4>1. ToSet(T) = {}
          BY <3>3 DEF ToSet
        <4>2. \A x \in Wants(asked) : x[1] # k
          BY <3>1, <4>1 DEF Wants
        <4> QED
          BY <3>2, <3>3, <4>2
      <3>4. CASE T # <<>>
        <4>1. T[1] \in ToSet(T)
          BY <3>1, <3>4 DEF ToSet
        <4>2. <<k, T[1]>> \in Wants(asked)
          BY <2>2, <3>1, <4>1 DEF Wants
        <4>3. <<k, T[1]>>[1] = k
          OBVIOUS
        <4> QED
          BY <2>1, <3>2, <3>4, <4>2, <4>3
      <3> QED
        BY <3>3, <3>4
    <2>3. CASE ~AskedFor(asked, Benchmarks[k])
      <3>1. F(k) = <<>>
        BY <2>3 DEF ModelFiles, TypesAsked
      <3>2. \A x \in Wants(asked) : x[1] # k
        BY <2>3 DEF Wants
      <3> HIDE DEF F
      <3> QED
        BY <3>1, <3>2
    <2> QED
      BY <2>2, <2>3
  <1> HIDE DEF F
  <1>3. seqs \in Seq(Seq(Model)) /\ Len(seqs) = N
    <2>1. seqs \in [1..N -> Seq(Model)]
      BY <1>2
    <2> QED
      BY <1>1, <2>1
  <1>4. push = Protos \o s
    BY DEF PushList, F
  <1>5. s \in Seq(Model) /\ \A e : e \in ToSet(s) <=> \E k \in 1..N : e \in ToSet(seqs[k])
    <2> HIDE DEF seqs
    <2>1. s \in Seq(Model)
      BY <1>3, FlattenPlaces
    <2>2. \A e : e \in ToSet(s) <=> \E k \in 1..Len(seqs) : e \in ToSet(seqs[k])
      BY <1>3, FlattenHas
    <2> QED
      BY <1>3, <2>1, <2>2
  <1>6. \A k \in 1..N : seqs[k] = F(k)
    OBVIOUS
  <1> HIDE DEF seqs, s, push
  <1>7. ToSet(push) = ToSet(Protos) \cup ToSet(s)
    <2>1. DOMAIN Protos = 1..Len(Protos) /\ DOMAIN s = 1..Len(s) /\ DOMAIN push = 1..Len(push)
      BY <1>1, <1>4, <1>5
    <2>2. ToSet(push) \subseteq ToSet(Protos) \cup ToSet(s)
      <3> SUFFICES ASSUME NEW i \in 1..Len(push) PROVE push[i] \in ToSet(Protos) \cup ToSet(s)
        BY <2>1 DEF ToSet
      <3>1. \/ i \in 1..Len(Protos) /\ push[i] = Protos[i]
            \/ i - Len(Protos) \in 1..Len(s) /\ push[i] = s[i - Len(Protos)]
        BY <1>1, <1>4, <1>5
      <3> QED
        BY <2>1, <3>1 DEF ToSet
    <2>3. ASSUME NEW i \in 1..Len(Protos) PROVE Protos[i] \in ToSet(push)
      <3>1. i \in 1..Len(push) /\ push[i] = Protos[i]
        BY <1>1, <1>4, <1>5
      <3> QED
        BY <2>1, <3>1 DEF ToSet
    <2>4. ASSUME NEW i \in 1..Len(s) PROVE s[i] \in ToSet(push)
      <3>1. Len(Protos) + i \in 1..Len(push) /\ push[Len(Protos) + i] = s[i]
        BY <1>1, <1>4, <1>5
      <3> QED
        BY <2>1, <3>1 DEF ToSet
    <2> QED
      BY <2>1, <2>2, <2>3, <2>4 DEF ToSet
  <1>8. ToSet(s) = UNION {ToSet(Benchmarks[x[1]].files) : x \in Wants(asked)}
    <2>1. ASSUME NEW k \in 1..N, NEW e \in ToSet(F(k))
          PROVE  \E x \in Wants(asked) : e \in ToSet(Benchmarks[x[1]].files)
      <3>1. F(k) # <<>>
        BY <2>1 DEF ToSet
      <3> QED
        BY <1>2, <2>1, <3>1
    <2>2. ASSUME NEW x \in Wants(asked)
          PROVE  x[1] \in 1..N /\ ToSet(Benchmarks[x[1]].files) = ToSet(F(x[1]))
      <3>1. x[1] \in 1..N
        BY DEF Wants
      <3> QED
        BY <1>2, <3>1
    <2> QED
      BY <1>5, <1>6, <2>1, <2>2
  <1> QED
    <2>1. push \in Seq(Model)
      BY <1>1, <1>4, <1>5
    <2> QED
      BY <1>7, <1>8, <2>1 DEF push, Generated

-----------------------------------------------------------------------------
(***************************************************************************)
(* What the jobs are made of.                                              *)
(***************************************************************************)

LEMMA JobFacts ==
    ASSUME <<target, job>> \in Cases, NEW p \in Pipeline
    PROVE  /\ job[p].executor \in ExecutorType /\ job[p].executor \in job[p].asked.executors
           /\ job[p].push = PushList(job[p].asked) /\ job[p].push \in Seq(Model)
           /\ job[p].local \in {"right", "wrong"}
           /\ job[p].abi \in AndroidAbi \cup LinuxAbi
           /\ job[p].images \subseteq Image
           /\ job[p].version \in [Model \cup Image -> Version]
  <1>1. job[p].push = PushList(job[p].asked)
    BY DeliveryAssumption
  <1>2. PushList(job[p].asked) \in Seq(Model)
    BY PushHas
  <1> QED
    BY <1>1, <1>2, DeliveryAssumption

LEMMA ToPushType ==
    ASSUME <<target, job>> \in Cases, NEW p \in Pipeline
    PROVE  /\ ToPush(p) \in Seq(Model)
           /\ Len(ToPush(p)) \in Nat
           /\ \A k \in 1..Len(ToPush(p)) : ToPush(p)[k] \in Model
  <1>1. ToPush(p) \in Seq(Model)
    BY JobFacts DEF ToPush
  <1> QED
    BY <1>1

\* A chain of sequences has what one of them has.
LEMMA Chained ==
    ASSUME NEW S, NEW s \in Seq(S), NEW t \in Seq(S), NEW e, Contains(s, e) \/ Contains(t, e)
    PROVE  Contains(s \o t, e)
  <1>1. CASE Contains(s, e)
    <2>1. PICK k \in 1..Len(s) : s[k] = e
      BY <1>1 DEF Contains
    <2>2. k \in 1..Len(s \o t) /\ (s \o t)[k] = e
      BY <2>1
    <2> QED
      BY <2>2 DEF Contains
  <1>2. CASE Contains(t, e)
    <2>1. PICK k \in 1..Len(t) : t[k] = e
      BY <1>2 DEF Contains
    <2>2. Len(s) + k \in 1..Len(s \o t) /\ (s \o t)[Len(s) + k] = e
      BY <2>1
    <2> QED
      BY <2>2 DEF Contains
  <1> QED
    BY <1>1, <1>2

LEMMA Joining ==
    ASSUME NEW S, NEW s \in Seq(S), NEW t \in Seq(S)
    PROVE  s \o t \in Seq(S)
  OBVIOUS

LEMMA One ==
    ASSUME NEW S, NEW e \in S, NEW c \in BOOLEAN
    PROVE  /\ (IF c THEN <<e>> ELSE <<>>) \in Seq(S)
           /\ c => Contains(IF c THEN <<e>> ELSE <<>>, e)
  <1>1. <<e>> \in Seq(S) /\ <<>> \in Seq(S)
    OBVIOUS
  <1>2. Contains(<<e>>, e)
    <2>1. 1 \in 1..Len(<<e>>) /\ <<e>>[1] = e
      OBVIOUS
    <2> QED
      BY <2>1 DEF Contains
  <1> QED
    BY <1>1, <1>2

\* Every archive that an executor, or the images, come from is fetched.
LEMMA ArchivesHave ==
    ASSUME NEW asked, NEW input
    PROVE  /\ Archives(asked, input) \in Seq(Archive)
           /\ input = "url" => Contains(Archives(asked, input), "imagenet_less")
           /\ "MACE" \in asked.executors => Contains(Archives(asked, input), "mace")
           /\ "TFLITE" \in asked.executors => Contains(Archives(asked, input), "tensorflow")
           /\ "MNN" \in asked.executors => Contains(Archives(asked, input), "MNN")
  <1> DEFINE a == IF input = "url" THEN <<"imagenet_less">> ELSE <<>>
             b == IF "MACE" \in asked.executors THEN <<"mace">> ELSE <<>>
             c == IF "TFLITE" \in asked.executors THEN <<"tensorflow">> ELSE <<>>
             d == IF "MNN" \in asked.executors THEN <<"MNN">> ELSE <<>>
             ab == a \o b
             abc == ab \o c
  <1>1. a \in Seq(Archive) /\ (input = "url" => Contains(a, "imagenet_less"))
    BY One DEF Archive
  <1>2. b \in Seq(Archive) /\ ("MACE" \in asked.executors => Contains(b, "mace"))
    BY One DEF Archive
  <1>3. c \in Seq(Archive) /\ ("TFLITE" \in asked.executors => Contains(c, "tensorflow"))
    BY One DEF Archive
  <1>4. d \in Seq(Archive) /\ ("MNN" \in asked.executors => Contains(d, "MNN"))
    BY One DEF Archive
  <1>5. Archives(asked, input) = abc \o d
    BY DEF Archives
  <1> HIDE DEF a, b, c, d
  <1>6. ab \in Seq(Archive) /\ \A e : Contains(a, e) \/ Contains(b, e) => Contains(ab, e)
    BY <1>1, <1>2, Joining, Chained
  <1> HIDE DEF ab
  <1>7. abc \in Seq(Archive) /\ \A e : Contains(ab, e) \/ Contains(c, e) => Contains(abc, e)
    BY <1>3, <1>6, Joining, Chained
  <1> HIDE DEF abc
  <1>8. abc \o d \in Seq(Archive) /\ \A e : Contains(abc, e) \/ Contains(d, e) => Contains(abc \o d, e)
    BY <1>4, <1>7, Joining, Chained
  <1> QED
    BY <1>1, <1>2, <1>3, <1>4, <1>5, <1>6, <1>7, <1>8

\* The tasks are the files to push, then the archives.
LEMMA TasksType ==
    ASSUME <<target, job>> \in Cases, NEW p \in Pipeline
    PROVE  /\ Len(Tasks(p)) \in Nat /\ Len(ToPush(p)) <= Len(Tasks(p))
           /\ \A k \in 1..Len(Tasks(p)) : Tasks(p)[k] \in HostFile
           /\ \A k \in 1..Len(ToPush(p)) :
                /\ k \in 1..Len(Tasks(p))
                /\ Tasks(p)[k] = ToPush(p)[k]
           /\ \A a : Contains(Archives(job[p].asked, job[p].input), a)
                     => \E k \in 1..Len(Tasks(p)) : Tasks(p)[k] = a
  <1> DEFINE l == Archives(job[p].asked, job[p].input)
  <1>1. l \in Seq(HostFile)
    <2>1. l \in Seq(Archive)
      BY ArchivesHave
    <2> HIDE DEF l
    <2> QED
      BY <2>1 DEF HostFile
  <1>2. ToPush(p) \in Seq(HostFile)
    BY ToPushType DEF HostFile
  <1>3. Tasks(p) = ToPush(p) \o l
    BY DEF Tasks
  <1> HIDE DEF l
  <1>4. Tasks(p) \in Seq(HostFile) /\ Len(ToPush(p)) <= Len(Tasks(p))
    BY <1>1, <1>2, <1>3
  <1>5. \A k \in 1..Len(ToPush(p)) : k \in 1..Len(Tasks(p)) /\ Tasks(p)[k] = ToPush(p)[k]
    BY <1>1, <1>2, <1>3
  <1>6. ASSUME NEW a, Contains(l, a)
        PROVE  \E k \in 1..Len(Tasks(p)) : Tasks(p)[k] = a
    <2>1. PICK k \in 1..Len(l) : l[k] = a
      BY <1>6 DEF Contains
    <2>2. /\ Len(ToPush(p)) + k \in 1..Len(Tasks(p))
          /\ Tasks(p)[Len(ToPush(p)) + k] = a
      BY <1>1, <1>2, <1>3, <2>1
    <2> QED
      BY <2>2
  <1> QED
    BY <1>4, <1>5, <1>6 DEF l

\* What a window's setup pushes is no model.
LEMMA StagedType ==
    ASSUME <<target, job>> \in Cases, NEW p \in Pipeline
    PROVE  Staged(p) \subseteq Image \cup Library /\ Staged(p) \cap Model = {}
  <1>1. Environment(job[p].executor, job[p].abi) \subseteq Library
    BY JobFacts DEF Library
  <1>2. "labels" \in Library
    BY DEF Library
  <1>3. Staged(p) \subseteq Image \cup Library
    BY <1>1, <1>2, JobFacts DEF Staged
  <1> QED
    BY <1>3, DeliveryAssumption

LEMMA WantedType ==
    ASSUME <<target, job>> \in Cases, NEW p \in Pipeline, NEW f \in Model \cup Image \cup Library
    PROVE  Wanted(p, f) \in {"dsp"} \cup Version \cup AndroidAbi \cup LinuxAbi
  <1>1. f = "dsp" \/ (f # "dsp" /\ f \in Library) \/ (f \notin Library /\ f # "dsp" /\ f \in Model \cup Image)
    OBVIOUS
  <1> QED
    BY <1>1, JobFacts DEF Wanted

LEMMA OfferedType ==
    ASSUME <<target, job>> \in Cases, NEW p \in Pipeline, NEW f \in Model \cup Image \cup Library
    PROVE  Offered(p, f) \in Content
  BY WantedType DEF Offered, Content

\* No file is wanted wrong, half or not at all.
LEMMA WantedGood ==
    ASSUME <<target, job>> \in Cases, NEW p \in Pipeline, NEW f \in Model \cup Image \cup Library
    PROVE  Wanted(p, f) \notin {"absent", "part", "wrong"}
  BY WantedType, DeliveryAssumption

LEMMA BigCoresType ==
    ASSUME NEW n \in Readable
    PROVE  BigCores(Read(n)) \in Nat
  <1>1. Read(n) \in Seq(Nat) /\ Len(Read(n)) \in Nat
    BY DeliveryAssumption DEF Read
  <1>2. IsFiniteSet(1..Len(Read(n)))
    BY <1>1, FS_Interval
  <1>3. IsFiniteSet({c \in 1..Len(Read(n)) : Read(n)[c] # Slowest(Read(n))})
    BY <1>2, FS_Subset
  <1> QED
    BY <1>3, FS_CardinalityType DEF BigCores

-----------------------------------------------------------------------------
(***************************************************************************)
(* Types, and the place of a pipeline in its lists.                        *)
(***************************************************************************)

LEMMA InitType == Init => TypeOK
  <1> SUFFICES ASSUME Init PROVE TypeOK
    OBVIOUS
  <1>1. <<target, job>> \in Cases
    <2>1. PICK x \in Cases : target = x[1] /\ job = x[2]
      BY DEF Init
    <2>2. \A y \in Cases : y = <<y[1], y[2]>>
      BY DeliveryAssumption
    <2> QED
      BY <2>1, <2>2
  <1>2. \A p \in Pipeline : IndexOK(p)
    <2> SUFFICES ASSUME NEW p \in Pipeline PROVE IndexOK(p)
      OBVIOUS
    <2>1. pc[p] = "fetch" /\ at[p] = 1
      BY DEF Init
    <2>2. Len(Tasks(p)) \in Nat
      BY <1>1, TasksType
    <2> QED
      BY <2>1, <2>2 DEF IndexOK, Preparing
  <1>3. ControlOK
    BY <1>2, DeliveryAssumption DEF Init, ControlOK, Preparing
  <1>4. FilesOK
    <2>1. host \in [Pipeline -> [HostFile -> HostState]]
      BY <1>1, JobFacts DEF Init, HostState
    <2> QED
      BY <2>1 DEF Init, FilesOK, Content
  <1>5. StartOK
    BY DeliveryAssumption DEF Init, StartOK
  <1> QED
    BY <1>1, <1>3, <1>4, <1>5 DEF TypeOK

\* Only the pipeline that takes a step moves.
LEMMA OthersStay ==
    ASSUME ControlOK, FilesOK, StartOK, NEW p \in Pipeline, NEW q \in Pipeline, q # p,
           Work(p) \/ Raise(p) \/ Restart(p)
    PROVE  /\ pc'[q] = pc[q] /\ at'[q] = at[q] /\ window'[q] = window[q]
           /\ host'[q] = host[q] /\ tree'[q] = tree[q]
  <1> USE DEF ControlOK, FilesOK, StartOK, Goto, Stop, hosts, starting
  <1>1. CASE Prepare(p)
    BY <1>1 DEF Prepare, StartDownload, EndDownload, Accept, Refuse, EndUnpack, AllPrepared
  <1>2. CASE Push(p)
    BY <1>2 DEF Push, SkipPush, Compare, StartPush, EndPush, AllPushed
  <1>3. CASE Acquire(p) \/ EndSetup(p) \/ EndWindow(p)
    BY <1>3 DEF Acquire, EndSetup, EndWindow
  <1>4. CASE Raise(p) \/ Restart(p)
    BY <1>4 DEF Raise, Restart
  <1> QED
    BY <1>1, <1>2, <1>3, <1>4 DEF Work

LEMMA ArgsStay ==
    ASSUME NEW p \in Pipeline, Work(p) \/ Raise(p) \/ Restart(p)
    PROVE  UNCHANGED <<target, job>>
  BY DEF Work, Prepare, StartDownload, EndDownload, Accept, Refuse, EndUnpack, AllPrepared, Push, SkipPush, Compare,
         StartPush, EndPush, AllPushed, Acquire, EndSetup, EndWindow, Raise, Restart, args

LEMMA IndexKept ==
    ASSUME NEW q \in Pipeline, UNCHANGED job, pc'[q] = pc[q], at'[q] = at[q], IndexOK(q)
    PROVE  IndexOK(q)'
  BY DEF IndexOK, Tasks, Task, ToPush, Fetching, Pushing

\* A pipeline may be at the beginning of any list.
LEMMA AtFirst ==
    ASSUME <<target, job>> \in Cases, NEW p \in Pipeline, UNCHANGED job, at'[p] = 1,
           pc'[p] \notin {"download", "verify", "unpack", "differs", "copy"}
    PROVE  IndexOK(p)'
  <1>1. Len(Tasks(p)) \in Nat /\ Len(ToPush(p)) \in Nat
    BY TasksType, ToPushType
  <1>2. Tasks(p)' = Tasks(p) /\ ToPush(p)' = ToPush(p)
    BY DEF Tasks, ToPush
  <1> QED
    BY <1>1, <1>2 DEF IndexOK

LEMMA PrepareIndex ==
    ASSUME TypeOK, NEW p \in Pipeline, Prepare(p)
    PROVE  /\ pc' \in [Pipeline -> Preparing \cup {"push", "differs", "copy", "lock"} \cup InLock \cup Ended]
           /\ at' \in [Pipeline -> Nat \ {0}]
           /\ IndexOK(p)'
  <1> USE DEF TypeOK, ControlOK, Goto, Preparing
  <1>0. /\ Len(Tasks(p)) \in Nat /\ Len(ToPush(p)) \in Nat
        /\ Tasks(p)' = Tasks(p) /\ ToPush(p)' = ToPush(p)
    BY ArgsStay, TasksType, ToPushType DEF Tasks, ToPush, Work
  <1>1. CASE StartDownload(p) \/ EndDownload(p)
    <2>1. /\ pc'[p] \in {"download", "verify"} /\ at' = at
          /\ Fetching(p)
      BY <1>1 DEF StartDownload, EndDownload, IndexOK
    <2>2. Fetching(p)'
      BY <1>0, <2>1 DEF Fetching
    <2>3. IndexOK(p)'
      BY <1>0, <2>1, <2>2 DEF IndexOK, Fetching
    <2> QED
      BY <1>1, <2>3 DEF StartDownload, EndDownload
  <1>2. CASE Accept(p)
    <2>1. Fetching(p)
      BY <1>2 DEF Accept, AtCheck, IndexOK
    <2>2. CASE ToUnpack(p)
      <3>1. pc'[p] = "unpack" /\ at' = at /\ Task(p)' = Task(p) /\ Task(p) \in Archive
        BY <1>0, <1>2, <2>2 DEF Accept, ToUnpack, Task
      <3>2. IndexOK(p)'
        BY <1>0, <2>1, <3>1 DEF IndexOK, Fetching
      <3> QED
        BY <1>2, <2>2, <3>1, <3>2 DEF Accept
    <2>3. CASE ~ToUnpack(p)
      <3>1. pc'[p] = "fetch" /\ at'[p] = at[p] + 1
        BY <1>2, <2>3 DEF Accept
      <3>2. IndexOK(p)'
        BY <1>0, <2>1, <3>1 DEF IndexOK, Fetching
      <3> QED
        BY <1>2, <2>3, <3>2 DEF Accept
    <2> QED
      BY <2>2, <2>3
  <1>3. CASE EndUnpack(p)
    <2>1. pc'[p] = "fetch" /\ at'[p] = at[p] + 1 /\ Fetching(p)
      BY <1>3 DEF EndUnpack, IndexOK
    <2>2. IndexOK(p)'
      BY <1>0, <2>1 DEF IndexOK, Fetching
    <2> QED
      BY <1>3, <2>2 DEF EndUnpack
  <1>4. CASE Refuse(p) \/ AllPrepared(p)
    <2>1. pc'[p] \in {"dead", "push"} /\ at'[p] = 1
      BY <1>4 DEF Refuse, AllPrepared, Stop
    <2>2. IndexOK(p)'
      BY <2>1, AtFirst, ArgsStay DEF Work
    <2> QED
      BY <1>4, <2>2 DEF Refuse, AllPrepared, Stop, Ended
  <1> QED
    BY <1>1, <1>2, <1>3, <1>4 DEF Prepare

LEMMA PushIndex ==
    ASSUME TypeOK, NEW p \in Pipeline, Push(p)
    PROVE  /\ pc' \in [Pipeline -> Preparing \cup {"push", "differs", "copy", "lock"} \cup InLock \cup Ended]
           /\ at' \in [Pipeline -> Nat \ {0}]
           /\ IndexOK(p)'
  <1> USE DEF TypeOK, ControlOK, Goto, Preparing
  <1>0. /\ Len(ToPush(p)) \in Nat
        /\ ToPush(p)' = ToPush(p)
    BY ArgsStay, ToPushType DEF ToPush, Work
  <1>1. CASE SkipPush(p) \/ EndPush(p)
    <2>1. pc'[p] = "push" /\ at'[p] = at[p] + 1 /\ Pushing(p)
      BY <1>1 DEF SkipPush, Compare, EndPush, IndexOK
    <2>2. IndexOK(p)'
      BY <1>0, <2>1 DEF IndexOK, Pushing
    <2> QED
      BY <1>1, <2>2 DEF SkipPush, Compare, EndPush
  <1>2. CASE Compare(p) \/ StartPush(p)
    <2>1. pc'[p] \in {"differs", "copy"} /\ at' = at /\ Pushing(p)
      BY <1>2 DEF Compare, StartPush, IndexOK
    <2>2. IndexOK(p)'
      BY <1>0, <2>1 DEF IndexOK, Pushing
    <2> QED
      BY <1>2, <2>2 DEF Compare, StartPush
  <1>3. CASE AllPushed(p)
    <2>1. pc[p] = "push" /\ pc'[p] = "lock" /\ at' = at
      BY <1>3 DEF AllPushed
    <2>2. IndexOK(p)'
      BY <1>0, <2>1 DEF IndexOK
    <2> QED
      BY <1>3, <2>2 DEF AllPushed
  <1> QED
    BY <1>1, <1>2, <1>3 DEF Push

LEMMA RunIndex ==
    ASSUME TypeOK, NEW p \in Pipeline,
           Acquire(p) \/ EndSetup(p) \/ EndWindow(p) \/ Raise(p) \/ Restart(p)
    PROVE  /\ pc' \in [Pipeline -> Preparing \cup {"push", "differs", "copy", "lock"} \cup InLock \cup Ended]
           /\ at' \in [Pipeline -> Nat \ {0}]
           /\ IndexOK(p)'
  <1> USE DEF TypeOK, ControlOK, Goto, Preparing, InLock, Ended
  <1>0. /\ Len(ToPush(p)) \in Nat
        /\ ToPush(p)' = ToPush(p)
        /\ UNCHANGED job
    BY ArgsStay, ToPushType DEF ToPush, Work
  <1>1. ASSUME at' = at, pc[p] \in {"lock", "setup", "run"}, pc'[p] \in {"lock", "setup", "run"}
        PROVE  IndexOK(p)'
    <2>1. at[p] <= Len(ToPush(p)) + 1
      BY <1>1 DEF IndexOK
    <2>2. at'[p] <= Len(ToPush(p)') + 1
      BY <1>0, <1>1, <2>1
    <2>3. pc'[p] \notin Preparing \cup {"differs", "copy"}
      BY <1>1
    <2> QED
      BY <2>2, <2>3 DEF IndexOK
  <1>2. ASSUME at'[p] = 1, pc'[p] \in {"dead", "done"}
        PROVE  IndexOK(p)'
    <2>1. pc'[p] \notin {"download", "verify", "unpack", "differs", "copy"}
      BY <1>2
    <2> QED
      BY <1>0, <1>2, <2>1, AtFirst
  <1>3. IndexOK(p)'
    <2>1. CASE Acquire(p)
      BY <1>1, <2>1 DEF Acquire
    <2>2. CASE EndSetup(p)
      BY <1>1, <1>2, <2>2 DEF EndSetup, Stop
    <2>3. CASE EndWindow(p)
      BY <1>1, <1>2, <2>3 DEF EndWindow, Stop
    <2>4. CASE Raise(p)
      BY <1>2, <2>4 DEF Raise, Stop
    <2>5. CASE Restart(p)
      <3>1. Len(Tasks(p)) \in Nat /\ Tasks(p)' = Tasks(p)
        BY <1>0, TasksType DEF Tasks, ToPush
      <3>2. at[p] <= Len(ToPush(p)) + 1 /\ at' = at /\ pc'[p] = "fetch"
        BY <2>5 DEF Restart, IndexOK
      <3>3. Len(ToPush(p)) <= Len(Tasks(p))
        BY TasksType
      <3> QED
        BY <1>0, <3>1, <3>2, <3>3 DEF IndexOK
    <2> QED
      BY <2>1, <2>2, <2>3, <2>4, <2>5
  <1> QED
    BY <1>3 DEF Acquire, EndSetup, EndWindow, Raise, Restart, Stop

LEMMA ControlStep ==
    ASSUME TypeOK, NEW p \in Pipeline, Work(p) \/ Raise(p) \/ Restart(p)
    PROVE  ControlOK'
  <1>1. /\ pc' \in [Pipeline -> Preparing \cup {"push", "differs", "copy", "lock"} \cup InLock \cup Ended]
        /\ at' \in [Pipeline -> Nat \ {0}]
        /\ IndexOK(p)'
    BY PrepareIndex, PushIndex, RunIndex DEF Work
  <1>2. \A q \in Pipeline : IndexOK(q)'
    <2> SUFFICES ASSUME NEW q \in Pipeline, q # p PROVE IndexOK(q)'
      BY <1>1
    <2>1. UNCHANGED job /\ pc'[q] = pc[q] /\ at'[q] = at[q]
      BY ArgsStay, OthersStay DEF TypeOK
    <2>2. IndexOK(q)
      BY DEF TypeOK, ControlOK
    <2> QED
      BY <2>1, <2>2, IndexKept
  <1>3. window' \in [Pipeline -> 1..MaxWindows] /\ restarts' \in 0..MaxRestarts
    <2>1. \/ UNCHANGED window
          \/ window' = [window EXCEPT ![p] = 1]
          \/ window[p] < MaxWindows /\ window' = [window EXCEPT ![p] = @ + 1]
      BY DEF Work, Prepare, Push, StartDownload, EndDownload, Accept, Refuse, EndUnpack, AllPrepared,
             SkipPush, Compare, StartPush, EndPush, AllPushed, Acquire, EndSetup, EndWindow, Raise, Restart, Stop
    <2>2. UNCHANGED restarts \/ (restarts < MaxRestarts /\ restarts' = restarts + 1)
      BY DEF Work, Prepare, Push, StartDownload, EndDownload, Accept, Refuse, EndUnpack, AllPrepared,
             SkipPush, Compare, StartPush, EndPush, AllPushed, Acquire, EndSetup, EndWindow, Raise, Restart
    <2>3. /\ MaxWindows \in Nat \ {0} /\ MaxRestarts \in Nat
          /\ window \in [Pipeline -> 1..MaxWindows] /\ restarts \in 0..MaxRestarts
      BY DeliveryAssumption DEF TypeOK, ControlOK
    <2> QED
      BY <2>1, <2>2, <2>3
  <1> QED
    BY <1>1, <1>2, <1>3 DEF ControlOK

\* What a copy may leave.
LEMMA CopiedType ==
    ASSUME TypeOK, NEW p \in Pipeline, NEW f \in Model, NEW c \in Copied(p, f)
    PROVE  /\ c \in Content
           /\ c \in {Offered(p, f), "part"} \/ (f \in touched[p] /\ c = device[f])
  <1>1. Offered(p, f) \in Content
    BY OfferedType DEF TypeOK
  <1>2. c = Offered(p, f) \/ (f \in touched[p] /\ (c = device[f] \/ c = "part"))
    BY DEF Copied
  <1> QED
    BY <1>1, <1>2 DEF TypeOK, FilesOK, Content

LEMMA PushedType ==
    ASSUME TypeOK, NEW p \in Pipeline, Pushing(p)
    PROVE  Pushed(p) \in Model
  <1>1. at[p] \in 1..Len(ToPush(p))
    BY ToPushType DEF TypeOK, ControlOK, Pushing
  <1> QED
    BY <1>1, ToPushType DEF TypeOK, Pushed

LEMMA TaskType ==
    ASSUME TypeOK, NEW p \in Pipeline, Fetching(p)
    PROVE  at[p] \in 1..Len(Tasks(p)) /\ Task(p) \in HostFile
  <1>1. at[p] \in 1..Len(Tasks(p))
    BY TasksType DEF TypeOK, ControlOK, Fetching
  <1> QED
    BY <1>1, TasksType DEF TypeOK, Task

LEMMA FilesStep ==
    ASSUME TypeOK, NEW p \in Pipeline, Work(p) \/ Raise(p) \/ Restart(p)
    PROVE  FilesOK'
  <1> USE DEF TypeOK, FilesOK
  <1>0. /\ pc[p] \in {"download", "verify", "unpack"} => Fetching(p)
        /\ pc[p] \in {"differs", "copy"} => Pushing(p)
    BY DEF ControlOK, IndexOK
  <1>1. CASE StartDownload(p) \/ EndDownload(p)
    <2>1. Task(p) \in HostFile
      BY <1>0, <1>1, TaskType DEF StartDownload, EndDownload
    <2>2. PICK c \in HostState : host' = [host EXCEPT ![p][Task(p)] = c]
      BY <1>1 DEF StartDownload, EndDownload, HostState
    <2>3. host' \in [Pipeline -> [HostFile -> HostState]]
      BY <2>1, <2>2
    <2> QED
      BY <1>1, <2>3 DEF StartDownload, EndDownload
  <1>2. CASE Accept(p) \/ EndUnpack(p)
    <2>1. CASE UNCHANGED tree
      BY <1>2, <2>1 DEF Accept, EndUnpack
    <2>2. CASE ~UNCHANGED tree
      <3>1. PICK c \in {"part", "whole"} : tree' = [tree EXCEPT ![p][Task(p)] = c]
        BY <1>2, <2>2 DEF Accept, EndUnpack
      <3>2. tree' \in [Pipeline -> [Archive -> {"absent", "part", "whole"}]]
        BY <3>1
      <3> QED
        BY <1>2, <3>2 DEF Accept, EndUnpack
    <2> QED
      BY <2>1, <2>2
  <1>3. CASE Refuse(p) \/ AllPrepared(p) \/ SkipPush(p) \/ Compare(p) \/ AllPushed(p) \/ EndWindow(p) \/ Raise(p) \/ Restart(p)
    BY <1>3 DEF Refuse, AllPrepared, SkipPush, Compare, AllPushed, EndWindow, Raise, Restart, hosts
  <1>4. CASE StartPush(p)
    BY <1>0, <1>4, PushedType DEF StartPush, hosts, Content
  <1>5. CASE EndPush(p)
    <2>1. Pushed(p) \in Model
      BY <1>0, <1>5, PushedType DEF EndPush
    <2>2. PICK c \in Copied(p, Pushed(p)) : device' = [device EXCEPT ![Pushed(p)] = c]
      BY <1>5 DEF EndPush
    <2>3. c \in Content
      BY <2>1, CopiedType
    <2> QED
      BY <1>5, <2>2, <2>3 DEF EndPush, hosts
  <1>6. CASE Acquire(p)
    <2>1. DOMAIN device = Model \cup Image \cup Library /\ "part" \in Content
      BY DEF Content
    <2>2. device' \in [Model \cup Image \cup Library -> Content]
      BY <1>6, <2>1 DEF Acquire
    <2> QED
      BY <1>6, <2>2 DEF Acquire, hosts
  <1>7. CASE EndSetup(p)
    <2>1. DOMAIN device = Model \cup Image \cup Library
      OBVIOUS
    <2>2. \A f \in DOMAIN device : Offered(p, f) \in Content
      BY <2>1, OfferedType
    <2>3. device' \in [Model \cup Image \cup Library -> Content]
      BY <1>7, <2>1, <2>2 DEF EndSetup
    <2> QED
      BY <1>7, <2>3 DEF EndSetup, hosts
  <1> QED
    BY <1>1, <1>2, <1>3, <1>4, <1>5, <1>6, <1>7 DEF Work, Prepare, Push

LEMMA ThreadsType ==
    ASSUME TypeOK, NEW p \in Pipeline, NEW n \in Readable
    PROVE  ThreadsFor(p, n) \in 0..NumThreads
  <1>1. BigCores(Read(n)) \in Nat /\ threads[p] \in 0..NumThreads /\ NumThreads \in Nat
    BY BigCoresType, DeliveryAssumption DEF TypeOK, StartOK
  <1> QED
    BY <1>1 DEF ThreadsFor, AtMost

LEMMA StartStep ==
    ASSUME TypeOK, NEW p \in Pipeline, Work(p) \/ Raise(p) \/ Restart(p)
    PROVE  StartOK'
  <1>0. /\ cores \in [Pipeline -> 0..Len(Freq)]
        /\ threads \in [Pipeline -> 0..NumThreads]
        /\ touched \in [Pipeline -> SUBSET Model]
        /\ Len(Freq) \in Nat /\ NumThreads \in Nat
    BY DeliveryAssumption DEF TypeOK, StartOK
  <1>1. cores' \in [Pipeline -> 0..Len(Freq)] /\ threads' \in [Pipeline -> 0..NumThreads]
    <2>1. CASE EndSetup(p) /\ ~Stop(p, "dead")
      <3>1. PICK n \in Readable : /\ cores' = [cores EXCEPT ![p] = n]
                                  /\ threads' = [threads EXCEPT ![p] = ThreadsFor(p, n)]
        BY <2>1 DEF EndSetup
      <3>2. n \in 0..Len(Freq) /\ ThreadsFor(p, n) \in 0..NumThreads
        BY ThreadsType, DeliveryAssumption
      <3> QED
        BY <1>0, <3>1, <3>2
    <2>2. CASE ~EndSetup(p) \/ Stop(p, "dead")
      <3>1. /\ UNCHANGED cores \/ cores' = [cores EXCEPT ![p] = 0]
            /\ UNCHANGED threads \/ threads' = [threads EXCEPT ![p] = NumThreads]
        BY <2>2 DEF Work, Prepare, Push, StartDownload, EndDownload, Accept, Refuse, EndUnpack, AllPrepared,
               SkipPush, Compare, StartPush, EndPush, AllPushed, Acquire, EndWindow, Raise, Restart, Stop, starting
      <3> QED
        BY <1>0, <3>1, SMTT(30)
    <2> QED
      BY <2>1, <2>2
  <1>2. touched' \in [Pipeline -> SUBSET Model]
    <2>1. CASE SkipPush(p) \/ StartPush(p) \/ EndPush(p)
      <3>1. Pushed(p) \in Model
        BY <2>1, PushedType DEF SkipPush, StartPush, EndPush, TypeOK, ControlOK, IndexOK
      <3>2. Seen(p, Pushed(p)) \in SUBSET Model
        BY <1>0, <3>1 DEF Seen
      <3>3. CASE SkipPush(p)
        BY <1>0, <3>2, <3>3 DEF SkipPush
      <3>4. CASE StartPush(p)
        BY <1>0, <3>1, <3>2, <3>4 DEF StartPush, Touch
      <3>5. CASE EndPush(p)
        BY <1>0, <3>1, <3>5 DEF EndPush
      <3> QED
        BY <2>1, <3>3, <3>4, <3>5
    <2>2. CASE ~(SkipPush(p) \/ StartPush(p) \/ EndPush(p))
      <3>1. \/ UNCHANGED touched
            \/ touched' = [touched EXCEPT ![p] = {}]
        BY <2>2 DEF Work, Prepare, Push, StartDownload, EndDownload, Accept, Refuse, EndUnpack, AllPrepared,
               SkipPush, Compare, AllPushed, Acquire, EndSetup, EndWindow, Raise, Restart, Stop
      <3> QED
        BY <1>0, <3>1
    <2> QED
      BY <2>1, <2>2
  <1> QED
    BY <1>1, <1>2 DEF StartOK

\* No pipeline runs off its list of files in either loop over it, and every
\* variable keeps its type, for any jobs, lists and number of restarts
\* (bench_engine.py:336-362, benchmark.py:303-313).
THEOREM TypeCorrect == Spec => []TypeOK
  <1>1. TypeOK /\ [Next]_vars => TypeOK'
    <2> SUFFICES ASSUME TypeOK, [Next]_vars PROVE TypeOK'
      OBVIOUS
    <2>1. CASE UNCHANGED vars
      BY <2>1 DEF vars, args, hosts, starting, TypeOK, ControlOK, FilesOK, StartOK, IndexOK, Tasks, Task,
                  ToPush, Fetching, Pushing
    <2>2. ASSUME NEW p \in Pipeline, Work(p) \/ Raise(p) \/ Restart(p)
          PROVE  TypeOK'
      <3>1. <<target, job>>' \in Cases
        BY <2>2, ArgsStay DEF TypeOK
      <3> QED
        BY <2>2, <3>1, ControlStep, FilesStep, StartStep DEF TypeOK
    <2> QED
      BY <2>1, <2>2 DEF Next
  <1> QED
    BY <1>1, InitType, PTL DEF Spec

-----------------------------------------------------------------------------
(***************************************************************************)
(* The host.  What a pipeline has dealt with is there, whole and with the  *)
(* right checksum, except for the file it is at; and the file that a       *)
(* download is writing was not right when it began.                        *)
(***************************************************************************)

Delivering == {"push", "differs", "copy", "lock"} \cup InLock

Fetched(p, f) == host[p][f] = "right" /\ (f \in Archive => tree[p][f] = "whole")

HostInv(p) ==
    /\ \A k \in 1..Len(Tasks(p)) :
        /\ pc[p] \in Delivering => Fetched(p, Tasks(p)[k])
        /\ pc[p] \in Preparing /\ k < at[p] =>
            Fetched(p, Tasks(p)[k]) \/ (pc[p] # "fetch" /\ Tasks(p)[k] = Task(p))
    /\ pc[p] = "download" => host[p][Task(p)] = "part"
    /\ pc[p] = "unpack" => host[p][Task(p)] = "right"
    /\ pc[p] \in Ended => at[p] = 1

HostsInv == \A p \in Pipeline : HostInv(p)

LEMMA InitHosts == Init => HostsInv
  <1> SUFFICES ASSUME Init, NEW p \in Pipeline PROVE HostInv(p)
    BY DEF HostsInv
  <1>1. pc[p] = "fetch" /\ at[p] = 1
    BY DEF Init
  <1> QED
    BY <1>1 DEF HostInv, Delivering, InLock, Ended

LEMMA HostKept ==
    ASSUME NEW q \in Pipeline, UNCHANGED job, pc'[q] = pc[q], at'[q] = at[q], host'[q] = host[q], tree'[q] = tree[q],
           HostInv(q)
    PROVE  HostInv(q)'
  BY ZenonT(40) DEF HostInv, Tasks, Task, ToPush, Fetched

LEMMA DownloadHost ==
    ASSUME TypeOK, HostsInv, NEW p \in Pipeline, StartDownload(p) \/ EndDownload(p)
    PROVE  HostInv(p)'
  <1>1. Tasks(p)' = Tasks(p) /\ Task(p)' = Task(p)
    BY DEF StartDownload, EndDownload, args, Tasks, Task, ToPush
  <1>2. Fetching(p)
    BY DEF StartDownload, EndDownload, TypeOK, ControlOK, IndexOK
  <1>3. Task(p) \in HostFile /\ host \in [Pipeline -> [HostFile -> HostState]]
    BY <1>2, TaskType DEF TypeOK, FilesOK
  <1>4. /\ pc[p] \in Preparing /\ pc'[p] \in {"download", "verify"}
        /\ UNCHANGED <<at, tree>>
    BY DEF StartDownload, EndDownload, Goto, TypeOK, ControlOK, Preparing
  <1>5. \A f \in HostFile : f # Task(p) => host'[p][f] = host[p][f]
    <2>1. PICK c : host' = [host EXCEPT ![p][Task(p)] = c]
      BY DEF StartDownload, EndDownload
    <2> QED
      BY <1>3, <2>1
  <1>6. pc'[p] = "download" => host'[p][Task(p)] = "part"
    BY <1>3 DEF StartDownload, EndDownload, Goto, TypeOK, ControlOK
  <1>7. ASSUME NEW k \in 1..Len(Tasks(p)), k < at[p], Tasks(p)[k] # Task(p)
        PROVE  Fetched(p, Tasks(p)[k])'
    <2>1. Fetched(p, Tasks(p)[k])
      BY <1>4, <1>7 DEF HostsInv, HostInv
    <2>2. Tasks(p)[k]' = Tasks(p)[k]
      BY <1>1
    <2>3. Tasks(p)[k] \in HostFile
      BY TasksType DEF TypeOK
    <2> QED
      BY <1>4, <1>5, <1>7, <2>1, <2>2, <2>3 DEF Fetched
  <1> QED
    BY <1>1, <1>4, <1>6, <1>7 DEF HostInv, Delivering, InLock, Ended, Preparing

LEMMA AcceptHost ==
    ASSUME TypeOK, HostsInv, NEW p \in Pipeline, Accept(p)
    PROVE  HostInv(p)'
  <1>1. Tasks(p)' = Tasks(p) /\ UNCHANGED host
    BY DEF Accept, args, Tasks, ToPush
  <1>2. Fetching(p)
    BY DEF Accept, AtCheck, TypeOK, ControlOK, IndexOK
  <1>3. /\ at[p] \in 1..Len(Tasks(p)) /\ Task(p) = Tasks(p)[at[p]]
        /\ pc[p] \in {"fetch", "verify"} /\ host[p][Task(p)] = "right"
    BY <1>2, TaskType DEF Accept, AtCheck, Verified, Task
  <1>4. \A k \in 1..Len(Tasks(p)) : k < at[p] => Fetched(p, Tasks(p)[k]) \/ Tasks(p)[k] = Task(p)
    BY <1>3 DEF HostsInv, HostInv, Preparing
  <1>5. CASE ToUnpack(p)
    <2>1. /\ pc'[p] = "unpack" /\ UNCHANGED at
          /\ tree' = [tree EXCEPT ![p][Task(p)] = "part"]
      BY <1>5 DEF Accept, Goto, TypeOK, ControlOK
    <2>2. Task(p)' = Task(p)
      BY <1>1, <2>1 DEF Task
    <2>3. ASSUME NEW k \in 1..Len(Tasks(p)), k < at[p], Tasks(p)[k] # Task(p)
          PROVE  Fetched(p, Tasks(p)[k])'
      <3>1. tree'[p][Tasks(p)[k]] = tree[p][Tasks(p)[k]]
        BY <2>1, <2>3 DEF TypeOK, FilesOK
      <3> QED
        BY <1>1, <1>4, <2>3, <3>1 DEF Fetched
    <2> QED
      BY <1>1, <1>3, <2>1, <2>2, <2>3 DEF HostInv, Delivering, InLock, Ended, Preparing
  <1>6. CASE ~ToUnpack(p)
    <2>1. /\ pc'[p] = "fetch" /\ at'[p] = at[p] + 1 /\ UNCHANGED tree
          /\ Task(p) \notin Archive
      BY <1>6 DEF Accept, ToUnpack, Goto, TypeOK, ControlOK
    <2>2. ASSUME NEW k \in 1..Len(Tasks(p)), k < at[p] + 1
          PROVE  Fetched(p, Tasks(p)[k])'
      <3>1. Fetched(p, Tasks(p)[k]) \/ Tasks(p)[k] = Task(p)
        BY <1>3, <1>4, <2>2
      <3> QED
        BY <1>1, <1>3, <2>1, <3>1 DEF Fetched
    <2> QED
      BY <1>1, <2>1, <2>2 DEF HostInv, Delivering, InLock, Ended, Preparing
  <1> QED
    BY <1>5, <1>6

LEMMA UnpackHost ==
    ASSUME TypeOK, HostsInv, NEW p \in Pipeline, EndUnpack(p)
    PROVE  HostInv(p)'
  <1>1. /\ Tasks(p)' = Tasks(p) /\ UNCHANGED host
        /\ pc[p] = "unpack" /\ pc'[p] = "fetch" /\ at'[p] = at[p] + 1
        /\ tree' = [tree EXCEPT ![p][Task(p)] = "whole"]
    BY DEF EndUnpack, args, Tasks, ToPush, Goto, TypeOK, ControlOK
  <1>2. Fetching(p) /\ Task(p) \in Archive /\ host[p][Task(p)] = "right"
    BY <1>1 DEF TypeOK, ControlOK, IndexOK, HostsInv, HostInv
  <1>3. at[p] \in 1..Len(Tasks(p)) /\ Task(p) = Tasks(p)[at[p]]
    BY <1>2, TaskType DEF Task
  <1>4. tree'[p][Task(p)] = "whole" /\ \A a : a # Task(p) => tree'[p][a] = tree[p][a]
    BY <1>1, <1>2 DEF TypeOK, FilesOK
  <1>5. ASSUME NEW k \in 1..Len(Tasks(p)), k < at[p] + 1
        PROVE  Fetched(p, Tasks(p)[k])'
    <2>1. Fetched(p, Tasks(p)[k]) \/ Tasks(p)[k] = Task(p)
      BY <1>1, <1>3, <1>5 DEF HostsInv, HostInv, Preparing
    <2> QED
      BY <1>1, <1>2, <1>4, <2>1 DEF Fetched
  <1> QED
    BY <1>1, <1>5 DEF HostInv, Delivering, InLock, Ended, Preparing

\* All tasks are done.
LEMMA PreparedHost ==
    ASSUME TypeOK, HostsInv, NEW p \in Pipeline, AllPrepared(p)
    PROVE  HostInv(p)'
  <1>1. /\ Tasks(p)' = Tasks(p) /\ UNCHANGED <<host, tree>>
        /\ pc[p] = "fetch" /\ pc'[p] = "push"
    BY DEF AllPrepared, args, hosts, Tasks, ToPush, Goto, TypeOK, ControlOK
  <1>2. Len(Tasks(p)) \in Nat /\ at[p] \in Nat /\ ~(at[p] <= Len(Tasks(p)))
    BY TasksType DEF AllPrepared, Fetching, TypeOK, ControlOK
  <1>3. \A k \in 1..Len(Tasks(p)) : Fetched(p, Tasks(p)[k])
    BY <1>1, <1>2 DEF HostsInv, HostInv, Preparing
  <1>4. \A k \in 1..Len(Tasks(p)) : Fetched(p, Tasks(p)[k])'
    BY <1>1, <1>3 DEF Fetched
  <1> QED
    BY <1>1, <1>4 DEF HostInv, Ended, Preparing

\* The other actions leave the host alone.
LEMMA RunHost ==
    ASSUME TypeOK, HostsInv, NEW p \in Pipeline,
           \/ Refuse(p) \/ Push(p) \/ Acquire(p) \/ EndSetup(p) \/ EndWindow(p) \/ Raise(p) \/ Restart(p)
    PROVE  HostInv(p)'
  <1>1. UNCHANGED <<job, host, tree>>
    BY DEF Refuse, Push, SkipPush, Compare, StartPush, EndPush, AllPushed, Acquire, EndSetup, EndWindow, Raise, Restart,
           args, hosts
  <1>2. Tasks(p)' = Tasks(p)
    BY <1>1 DEF Tasks, ToPush
  <1>3. \/ pc'[p] \in Ended /\ at'[p] = 1
        \/ pc[p] \in Delivering /\ pc'[p] \in Delivering
        \/ pc'[p] = "fetch" /\ pc[p] \in Ended /\ at'[p] = at[p]
    <2> USE DEF Delivering, InLock, Ended, Goto, Stop, TypeOK, ControlOK
    <2>1. CASE Push(p)
      BY <2>1 DEF Push, SkipPush, Compare, StartPush, EndPush, AllPushed
    <2>2. CASE Acquire(p) \/ EndSetup(p) \/ EndWindow(p)
      BY <2>2 DEF Acquire, EndSetup, EndWindow
    <2>3. CASE Refuse(p) \/ Raise(p) \/ Restart(p)
      BY <2>3 DEF Refuse, Raise, Restart
    <2> QED
      BY <2>1, <2>2, <2>3
  <1>4. CASE pc'[p] \in Ended /\ at'[p] = 1
    BY <1>2, <1>4 DEF HostInv, Delivering, InLock, Ended, Preparing
  <1>5. CASE pc[p] \in Delivering /\ pc'[p] \in Delivering
    <2>1. \A k \in 1..Len(Tasks(p)) : Fetched(p, Tasks(p)[k])'
      BY <1>1, <1>2, <1>5 DEF HostsInv, HostInv, Fetched
    <2> QED
      BY <1>2, <1>5, <2>1 DEF HostInv, Delivering, InLock, Ended, Preparing
  <1>6. CASE pc'[p] = "fetch" /\ pc[p] \in Ended /\ at'[p] = at[p]
    <2>1. at'[p] = 1
      BY <1>6 DEF HostsInv, HostInv
    <2> QED
      BY <1>2, <1>6, <2>1 DEF HostInv, Delivering, InLock, Ended, Preparing
  <1> QED
    BY <1>3, <1>4, <1>5, <1>6

LEMMA HostsStep == TypeOK /\ HostsInv /\ [Next]_vars => HostsInv'
  <1> SUFFICES ASSUME TypeOK, HostsInv, [Next]_vars, NEW q \in Pipeline PROVE HostInv(q)'
    BY DEF HostsInv
  <1>1. CASE UNCHANGED vars
    BY <1>1, HostKept DEF vars, args, hosts, HostsInv
  <1>2. ASSUME NEW p \in Pipeline, Work(p) \/ Raise(p) \/ Restart(p)
        PROVE  HostInv(q)'
    <2>1. CASE q # p
      BY <1>2, <2>1, ArgsStay, OthersStay, HostKept DEF TypeOK, HostsInv
    <2>2. CASE q = p
      BY <1>2, <2>2, DownloadHost, AcceptHost, UnpackHost, PreparedHost, RunHost DEF Work, Prepare
    <2> QED
      BY <2>1, <2>2
  <1> QED
    BY <1>1, <1>2 DEF Next

LEMMA HostsCorrect == Spec => []HostsInv
  BY InitHosts, HostsStep, TypeCorrect, PTL DEF Spec

\* A file that has once the right checksum is never fetched again and never
\* lost, however often its pipeline is interrupted and started again
\* (bench_engine.py:72-83, 277-283).
THEOREM HostTheorem == Spec => HostKeepsGood
  <1>1. TypeOK /\ HostsInv /\ [Next]_vars =>
            [\A p \in Pipeline, f \in HostFile \ Generated : host[p][f] = "right" => host'[p][f] = "right"]_vars
    <2> SUFFICES ASSUME TypeOK, HostsInv, Next,
                        NEW q \in Pipeline, NEW f \in HostFile \ Generated, host[q][f] = "right"
                 PROVE  host'[q][f] = "right"
      OBVIOUS
    <2>1. PICK p \in Pipeline : Work(p) \/ Raise(p) \/ Restart(p)
      BY DEF Next
    <2>2. CASE q # p
      BY <2>1, <2>2, OthersStay DEF TypeOK
    <2>3. CASE q = p /\ (StartDownload(p) \/ EndDownload(p))
      <3>1. Task(p) = f => host[p][f] # "right"
        BY <2>3 DEF StartDownload, EndDownload, Missing, HostsInv, HostInv
      <3>2. PICK c : host' = [host EXCEPT ![p][Task(p)] = c]
        BY <2>3 DEF StartDownload, EndDownload
      <3> QED
        BY <2>3, <3>1, <3>2 DEF TypeOK, FilesOK
    <2>4. CASE q = p /\ ~(StartDownload(p) \/ EndDownload(p))
      <3>1. UNCHANGED host
        BY <2>1, <2>4 DEF Work, Prepare, Push, Accept, Refuse, EndUnpack, AllPrepared, SkipPush, Compare, StartPush,
               EndPush, AllPushed, Acquire, EndSetup, EndWindow, Raise, Restart, hosts
      <3> QED
        BY <3>1
    <2> QED
      BY <2>2, <2>3, <2>4
  <1> QED
    BY <1>1, TypeCorrect, HostsCorrect, PTL DEF Spec, HostKeepsGood

-----------------------------------------------------------------------------
(***************************************************************************)
(* The device.  What is pushed comes from files that were verified and     *)
(* archives that were unpacked, and what the setup of a window pushes      *)
(* stays as long as it has the lock.                                       *)
(***************************************************************************)

LEMMA LibraryNames ==
    {"dsp", "mace", "hexagon_controller", "tensorflowlite", "MNN", "MNN_Express"} \subseteq Library
  <1> DEFINE E(x) == Environment(x, "arm64-v8a")
  <1>1. E("SNPE") \subseteq Library /\ E("MACE") \subseteq Library /\ E("TFLITE") \subseteq Library
        /\ E("MNN") \subseteq Library
    BY DEF Library, ExecutorType, AndroidAbi
  <1>2. "dsp" \in E("SNPE") /\ {"mace", "hexagon_controller"} \subseteq E("MACE")
    BY DEF Environment, ExecutorLibraries, AndroidAbi
  <1>3. "tensorflowlite" \in E("TFLITE") /\ {"MNN", "MNN_Express"} \subseteq E("MNN")
    BY DEF Environment, ExecutorLibraries, AndroidAbi
  <1> QED
    BY <1>1, <1>2, <1>3

\* An executor's library comes with the archive of that executor only.
LEMMA LibraryOf ==
    ASSUME NEW x \in ExecutorType, NEW abi, NEW f \in Environment(x, abi)
    PROVE  /\ f \in {"mace", "hexagon_controller"} => x = "MACE"
           /\ f = "tensorflowlite" => x = "TFLITE"
           /\ f \in {"MNN", "MNN_Express"} => x = "MNN"
  BY DEF Environment, ExecutorLibraries, ExecutorType

\* A file that is pushed comes from no archive but those that were fetched.
LEMMA ArchiveFetched ==
    ASSUME <<target, job>> \in Cases, NEW p \in Pipeline, NEW f \in Staged(p), NEW a \in ArchiveOf(p, f)
    PROVE  a \in Archive /\ \E k \in 1..Len(Tasks(p)) : Tasks(p)[k] = a
  <1> DEFINE l == Archives(job[p].asked, job[p].input)
             x == job[p].executor
  <1>1. f \in Environment(x, job[p].abi) \/ f \in {"labels"} \cup Image
    BY JobFacts DEF Staged
  <1>2. f \in Library => f \notin Image
    BY DeliveryAssumption
  <1>3. /\ f \in {"mace", "hexagon_controller"} => x = "MACE"
        /\ f = "tensorflowlite" => x = "TFLITE"
        /\ f \in {"MNN", "MNN_Express"} => x = "MNN"
    BY <1>1, <1>2, LibraryNames, LibraryOf, JobFacts
  <1>4. \/ a = "mace" /\ x = "MACE"
        \/ a = "tensorflow" /\ x = "TFLITE"
        \/ a = "MNN" /\ x = "MNN"
        \/ a = "imagenet_less" /\ job[p].input = "url"
    BY <1>3 DEF ArchiveOf
  <1>5. x \in job[p].asked.executors
    BY JobFacts
  <1>6. Contains(l, a)
    <2>1. \/ a = "mace" /\ "MACE" \in job[p].asked.executors
          \/ a = "tensorflow" /\ "TFLITE" \in job[p].asked.executors
          \/ a = "MNN" /\ "MNN" \in job[p].asked.executors
          \/ a = "imagenet_less" /\ job[p].input = "url"
      BY <1>4, <1>5
    <2> QED
      BY <2>1, ArchivesHave
  <1> QED
    BY <1>4, <1>6, TasksType DEF Archive

LEMMA ModelOffered ==
    ASSUME TypeOK, HostsInv, NEW p \in Pipeline, pc[p] \in Delivering, NEW k \in 1..Len(ToPush(p))
    PROVE  Offered(p, ToPush(p)[k]) = Wanted(p, ToPush(p)[k])
  <1> DEFINE f == ToPush(p)[k]
  <1>1. f \in Model /\ k \in 1..Len(Tasks(p)) /\ Tasks(p)[k] = f
    BY ToPushType, TasksType DEF TypeOK
  <1>2. host[p][f] = "right"
    BY <1>1 DEF HostsInv, HostInv, Fetched
  <1>3. f \notin Image /\ f \notin Library
    BY <1>1, DeliveryAssumption
  <1> HIDE DEF f
  <1>4. ArchiveOf(p, f) = {}
    BY <1>3, LibraryNames DEF ArchiveOf
  <1>5. Offered(p, f) = Wanted(p, f)
    BY <1>2, <1>4 DEF Offered
  <1> QED
    BY <1>5 DEF f

LEMMA StagedOffered ==
    ASSUME TypeOK, HostsInv, NEW p \in Pipeline, pc[p] \in Delivering, NEW f \in Staged(p)
    PROVE  Offered(p, f) = Wanted(p, f)
  <1>1. f \notin Model
    BY StagedType DEF TypeOK
  <1>2. ASSUME NEW a \in ArchiveOf(p, f)
        PROVE  tree[p][a] = "whole"
    <2>1. PICK k \in 1..Len(Tasks(p)) : Tasks(p)[k] = a
      BY ArchiveFetched DEF TypeOK
    <2>2. a \in Archive /\ Fetched(p, a)
      BY <2>1, ArchiveFetched DEF TypeOK, HostsInv, HostInv
    <2> QED
      BY <2>2 DEF Fetched
  <1> QED
    BY <1>1, <1>2 DEF Offered

\* A file that is looked at in the list, to be pushed, is right on the host.
LEMMA PushedOffered ==
    ASSUME TypeOK, HostsInv, NEW p \in Pipeline, pc[p] \in {"push", "differs", "copy"}, Pushing(p)
    PROVE  /\ Pushed(p) \in Model
           /\ Offered(p, Pushed(p)) = Wanted(p, Pushed(p))
           /\ Wanted(p, Pushed(p)) \notin {"absent", "part", "wrong"}
  <1>1. at[p] \in 1..Len(ToPush(p)) /\ Pushed(p) = ToPush(p)[at[p]]
    BY ToPushType DEF TypeOK, ControlOK, Pushing, Pushed
  <1>2. Pushed(p) \in Model
    BY PushedType
  <1> QED
    BY <1>1, <1>2, ModelOffered, WantedGood DEF TypeOK, Delivering

OneHolder == \A p, q \in Pipeline : pc[p] \in InLock /\ pc[q] \in InLock => p = q

LEMMA HolderStep ==
    ASSUME TypeOK, OneHolder, NEW p \in Pipeline, Work(p) \/ Raise(p) \/ Restart(p)
    PROVE  OneHolder'
  <1>1. \A q \in Pipeline : q # p => pc'[q] = pc[q]
    BY OthersStay DEF TypeOK
  <1>2. CASE Acquire(p)
    BY <1>1, <1>2 DEF Acquire, LockFree, OneHolder, InLock
  <1>3. CASE ~Acquire(p)
    <2>1. pc'[p] \in InLock => pc[p] \in InLock
      BY <1>3 DEF Work, Prepare, Push, StartDownload, EndDownload, Accept, Refuse, EndUnpack, AllPrepared,
             SkipPush, Compare, StartPush, EndPush, AllPushed, EndSetup, EndWindow, Raise, Restart, Stop, Goto,
             TypeOK, ControlOK, InLock
    <2> QED
      BY <1>1, <2>1 DEF OneHolder
  <1> QED
    BY <1>2, <1>3

DeviceInv == OneHolder /\ NothingUnverified /\ SetupIntact

LEMMA VerifiedStep ==
    ASSUME TypeOK, HostsInv, NothingUnverified, NEW p \in Pipeline, Work(p) \/ Raise(p) \/ Restart(p)
    PROVE  NothingUnverified'
  <1>0. DOMAIN device = Model \cup Image \cup Library /\ \A f \in DOMAIN device : device[f] # "wrong"
    BY DEF TypeOK, FilesOK, NothingUnverified
  <1>1. CASE StartPush(p)
    BY <1>0, <1>1 DEF StartPush, NothingUnverified
  <1>2. CASE EndPush(p)
    <2>1. pc[p] = "copy" /\ Pushing(p)
      BY <1>2 DEF EndPush, TypeOK, ControlOK, IndexOK
    <2>2. PICK c \in Copied(p, Pushed(p)) : device' = [device EXCEPT ![Pushed(p)] = c]
      BY <1>2 DEF EndPush
    <2>3. c # "wrong"
      BY <1>0, <2>1, PushedOffered, CopiedType
    <2> QED
      BY <1>0, <2>2, <2>3 DEF NothingUnverified
  <1>3. CASE Acquire(p)
    BY <1>0, <1>3 DEF Acquire, NothingUnverified
  <1>4. CASE EndSetup(p)
    <2>1. pc[p] \in Delivering
      BY <1>4 DEF EndSetup, Delivering, InLock
    <2>2. \A f \in Staged(p) : f \in Model \cup Image \cup Library /\ Offered(p, f) # "wrong"
      BY <2>1, StagedOffered, StagedType, WantedGood DEF TypeOK
    <2>3. device' = [f \in DOMAIN device |-> IF f \in Staged(p) THEN Offered(p, f) ELSE device[f]]
      BY <1>4 DEF EndSetup
    <2> QED
      BY <1>0, <2>2, <2>3 DEF NothingUnverified
  <1>5. CASE ~(StartPush(p) \/ EndPush(p) \/ Acquire(p) \/ EndSetup(p))
    <2>1. UNCHANGED device
      BY <1>5 DEF Work, Prepare, Push, StartDownload, EndDownload, Accept, Refuse, EndUnpack, AllPrepared,
             SkipPush, Compare, AllPushed, EndWindow, Raise, Restart
    <2> QED
      BY <1>0, <2>1 DEF NothingUnverified
  <1> QED
    BY <1>1, <1>2, <1>3, <1>4, <1>5

\* Outside of the setup only models are pushed.
LEMMA SetupKept ==
    ASSUME TypeOK, NEW p \in Pipeline, StartPush(p) \/ EndPush(p),
           NEW f \in Image \cup Library
    PROVE  device'[f] = device[f]
  <1>1. Pushed(p) \in Model
    BY PushedType DEF StartPush, EndPush, TypeOK, ControlOK, IndexOK
  <1>2. f # Pushed(p)
    BY <1>1, DeliveryAssumption
  <1>3. PICK c : device' = [device EXCEPT ![Pushed(p)] = c]
    BY DEF StartPush, EndPush
  <1> QED
    BY <1>1, <1>2, <1>3 DEF TypeOK, FilesOK

LEMMA SetupStep ==
    ASSUME TypeOK, HostsInv, OneHolder, SetupIntact, NEW p \in Pipeline, Work(p) \/ Raise(p) \/ Restart(p)
    PROVE  SetupIntact'
  <1> SUFFICES ASSUME NEW q \in Pipeline, pc'[q] = "run", NEW f \in Staged(q)
               PROVE  device'[f] = Wanted(q, f)
    BY ArgsStay DEF SetupIntact, Staged, Wanted
  <1>1. f \in Image \cup Library
    BY StagedType DEF TypeOK
  <1>2. CASE EndSetup(p)
    <2>1. pc[p] = "setup" /\ (pc'[p] = "run" \/ Stop(p, "dead"))
      BY <1>2 DEF EndSetup, Goto, TypeOK, ControlOK
    <2>2. CASE q = p
      <3>1. Offered(p, f) = Wanted(p, f)
        BY <2>1, <2>2, StagedOffered DEF Delivering, InLock
      <3>2. f \in DOMAIN device /\ f \in Staged(p)
        BY <1>1, <2>2 DEF TypeOK, FilesOK
      <3>3. device'[f] = Offered(p, f)
        BY <1>2, <3>2 DEF EndSetup
      <3> QED
        BY <2>2, <3>1, <3>3
    <2>3. CASE q # p
      BY <2>1, <2>3, OthersStay DEF TypeOK, OneHolder, InLock
    <2> QED
      BY <2>2, <2>3
  <1>3. CASE ~EndSetup(p)
    <2>1. pc[q] = "run"
      <3>1. CASE q # p
        BY <3>1, OthersStay DEF TypeOK
      <3>2. CASE q = p
        BY <1>3, <3>2 DEF Work, Prepare, Push, StartDownload, EndDownload, Accept, Refuse, EndUnpack, AllPrepared,
               SkipPush, Compare, StartPush, EndPush, AllPushed, Acquire, EndWindow, Raise, Restart, Stop, Goto,
               TypeOK, ControlOK
      <3> QED
        BY <3>1, <3>2
    <2>2. ~Acquire(p)
      BY <2>1 DEF Acquire, LockFree, InLock
    <2>3. device'[f] = device[f]
      <3>1. CASE StartPush(p) \/ EndPush(p)
        BY <1>1, <3>1, SetupKept
      <3>2. CASE ~(StartPush(p) \/ EndPush(p))
        BY <1>3, <2>2, <3>2 DEF Work, Prepare, Push, StartDownload, EndDownload, Accept, Refuse, EndUnpack,
               AllPrepared, SkipPush, Compare, AllPushed, EndWindow, Raise, Restart
      <3> QED
        BY <3>1, <3>2
    <2> QED
      BY <2>1, <2>3 DEF SetupIntact
  <1> QED
    BY <1>2, <1>3

LEMMA InitDevice == Init => DeviceInv
  <1> SUFFICES ASSUME Init PROVE DeviceInv
    OBVIOUS
  <1>1. \A p \in Pipeline : pc[p] = "fetch"
    BY DEF Init
  <1>2. \A f \in DOMAIN device : device[f] = "absent"
    BY DEF Init
  <1> QED
    BY <1>1, <1>2 DEF DeviceInv, OneHolder, NothingUnverified, SetupIntact, InLock

LEMMA DeviceCorrect == Spec => []DeviceInv
  <1>1. TypeOK /\ HostsInv /\ DeviceInv /\ [Next]_vars => DeviceInv'
    <2> SUFFICES ASSUME TypeOK, HostsInv, DeviceInv, [Next]_vars PROVE DeviceInv'
      OBVIOUS
    <2>1. CASE UNCHANGED vars
      BY <2>1 DEF vars, args, DeviceInv, OneHolder, NothingUnverified, SetupIntact, Staged, Wanted
    <2>2. ASSUME NEW p \in Pipeline, Work(p) \/ Raise(p) \/ Restart(p)
          PROVE  DeviceInv'
      BY <2>2, HolderStep, VerifiedStep, SetupStep DEF DeviceInv
    <2> QED
      BY <2>1, <2>2 DEF Next
  <1> QED
    BY <1>1, InitDevice, TypeCorrect, HostsCorrect, PTL DEF Spec

\* Nothing that an interrupted download, a wrong server or an interrupted
\* unpacking left on a host ever gets to the device, for any jobs and however
\* often pipelines are lost (bench_engine.py:80-82, 282, 365-369).
THEOREM VerifiedTheorem == Spec => []NothingUnverified
  <1>1. DeviceInv => NothingUnverified
    BY DEF DeviceInv
  <1> QED
    BY <1>1, DeviceCorrect, PTL

\* While models run, everything the window's setup pushes is on the device, as
\* the pipeline wants it, whatever other pipelines push before they have the
\* lock, or had pushed when they were lost (bench_engine.py:434-461).
THEOREM SetupTheorem == Spec => []SetupIntact
  <1>1. DeviceInv => SetupIntact
    BY DEF DeviceInv
  <1> QED
    BY <1>1, DeviceCorrect, PTL

-----------------------------------------------------------------------------
(***************************************************************************)
(* Libraries.                                                              *)
(***************************************************************************)

MayInv == \A p \in Pipeline : MayRun(target, job[p])

\* prepare_device_env pushes what the binary is linked with, for each executor
\* that the device's class admits for the ABI.
LEMMA LinkedPushed ==
    ASSUME NEW x \in ExecutorType, NEW abi \in AndroidAbi \cup LinuxAbi, NEW d, NEW asked,
           x \in AvailableExecutors(d, asked, abi)
    PROVE  Linked(x, abi) \ {"cdsprpc"} \subseteq Environment(x, abi) \ {"dsp"}
  <1>1. x \in {"TFLITE", "MNN", "TNN"} => abi \in AndroidAbi
    BY DEF AvailableExecutors, CommonExecutors, AndroidAbi, LinuxAbi
  <1>2. x = "HIAI" => abi = "arm64-v8a"
    BY DEF AvailableExecutors, CommonExecutors
  <1> QED
    BY <1>1, <1>2 DEF Linked, Environment, ExecutorLibraries, ExecutorType

LEMMA MayCorrect == Spec => []MayInv
  <1>1. Init => MayInv
    BY DEF Init, MayInv
  <1>2. MayInv /\ [Next]_vars => MayInv'
    <2> SUFFICES ASSUME MayInv, [Next]_vars PROVE UNCHANGED <<target, job>>
      BY DEF MayInv, MayRun
    <2>1. CASE UNCHANGED vars
      BY <2>1 DEF vars, args
    <2>2. CASE Next
      BY <2>2, ArgsStay DEF Next
    <2> QED
      BY <2>1, <2>2
  <1> QED
    BY <1>1, <1>2, PTL DEF Spec

\* Whatever executor and ABI main chooses for a device, every library the
\* binary is linked with is there while it runs, for that ABI: what the classes
\* of devices admit, what prepare_device_env pushes and what the BUILD files
\* link agree (device.py:64-80, bench_engine.py:151-269, executors/BUILD).
THEOREM LibrariesTheorem == Spec => []LibrariesThere
  <1>1. TypeOK /\ MayInv /\ SetupIntact => LibrariesThere
    <2> SUFFICES ASSUME TypeOK, MayInv, SetupIntact, NEW p \in Pipeline, pc[p] = "run",
                        NEW l \in Linked(job[p].executor, job[p].abi) \ {"cdsprpc"}
                 PROVE  device[l] = job[p].abi
      BY DEF LibrariesThere
    <2>1. job[p].executor \in AvailableExecutors(target, job[p].asked.executors, job[p].abi)
      BY DEF MayInv, MayRun
    <2>2. l \in Environment(job[p].executor, job[p].abi) /\ l # "dsp"
      BY <2>1, LinkedPushed, JobFacts DEF TypeOK
    <2>3. l \in Staged(p) /\ l \in Library
      BY <2>2, JobFacts DEF Staged, Library, TypeOK
    <2>4. Wanted(p, l) = job[p].abi
      BY <2>2, <2>3 DEF Wanted
    <2> QED
      BY <2>3, <2>4 DEF SetupIntact
  <1> QED
    BY <1>1, TypeCorrect, MayCorrect, SetupTheorem, PTL

-----------------------------------------------------------------------------
(***************************************************************************)
(* The pushes before the lock.  A file on which all agree is never another *)
(* version; a file that others pushed is there, if only in part; and what  *)
(* a pipeline has pushed is its own, or was pushed by others since.        *)
(***************************************************************************)

Agree(p, f) == \A q \in Pipeline : Wanted(q, f) = Wanted(p, f)

Own(p, f) ==
    \/ device[f] = Wanted(p, f)
    \/ f \in touched[p] /\ (Agree(p, f) => device[f] = "part")

AgreedInv == \A p \in Pipeline, f \in Model : Agree(p, f) => device[f] \in {"absent", "part", Wanted(p, f)}

TouchedInv == \A p \in Pipeline : \A f \in touched[p] : device[f] # "absent"

OwnInv(p) ==
    /\ pc[p] \in {"lock"} \cup InLock => \A k \in 1..Len(ToPush(p)) : Own(p, ToPush(p)[k])
    /\ pc[p] \in {"push", "differs", "copy"} => \A k \in 1..Len(ToPush(p)) :
        k < at[p] => Own(p, ToPush(p)[k]) \/ (pc[p] = "copy" /\ ToPush(p)[k] = Pushed(p))

ModelsInv == AgreedInv /\ TouchedInv /\ \A p \in Pipeline : OwnInv(p)

LEMMA InitModels == Init => ModelsInv
  <1> SUFFICES ASSUME Init PROVE ModelsInv
    OBVIOUS
  <1>1. \A f \in Model : device[f] = "absent"
    BY DEF Init
  <1>2. \A p \in Pipeline : pc[p] = "fetch" /\ touched[p] = {}
    BY DEF Init
  <1> QED
    BY <1>1, <1>2 DEF ModelsInv, AgreedInv, TouchedInv, OwnInv, InLock

\* The setup of a window pushes no models.
LEMMA ModelsStay ==
    ASSUME TypeOK, NEW p \in Pipeline, Work(p) \/ Raise(p) \/ Restart(p), ~StartPush(p), ~EndPush(p),
           NEW f \in Model
    PROVE  device'[f] = device[f]
  <1>1. f \notin Staged(p) /\ f \in DOMAIN device
    BY StagedType DEF TypeOK, FilesOK
  <1>2. CASE Acquire(p) \/ EndSetup(p)
    BY <1>1, <1>2 DEF Acquire, EndSetup
  <1>3. CASE ~(Acquire(p) \/ EndSetup(p))
    BY <1>3 DEF Work, Prepare, Push, StartDownload, EndDownload, Accept, Refuse, EndUnpack, AllPrepared,
           SkipPush, Compare, AllPushed, EndWindow, Raise, Restart
  <1> QED
    BY <1>2, <1>3

\* A step of one's own leaves what the others touched; a push adds to it.
LEMMA TouchedStep ==
    ASSUME TypeOK, NEW p \in Pipeline, Work(p) \/ Raise(p) \/ Restart(p), NEW q \in Pipeline
    PROVE  /\ q # p => touched'[q] = touched[q] \cup (IF StartPush(p) \/ EndPush(p) THEN {Pushed(p)} ELSE {})
           /\ touched'[p] \subseteq touched[p] \cup (IF SkipPush(p) \/ StartPush(p) THEN {Pushed(p)} ELSE {})
           /\ touched[p] \ {Pushed(p)} \subseteq touched'[p] \/ pc'[p] \in Ended
           /\ ~StartPush(p) /\ ~SkipPush(p) => touched'[p] = touched[p] \/ pc'[p] \in Ended
  <1> USE DEF TypeOK, StartOK
  <1>1. CASE StartPush(p)
    BY <1>1 DEF StartPush, Touch, Seen, SkipPush
  <1>2. CASE EndPush(p)
    BY <1>2 DEF EndPush, StartPush, SkipPush
  <1>3. CASE SkipPush(p)
    BY <1>3 DEF SkipPush, Seen, StartPush, EndPush
  <1>4. CASE ~(StartPush(p) \/ EndPush(p) \/ SkipPush(p))
    <2>1. \/ UNCHANGED touched
          \/ pc' = [pc EXCEPT ![p] = "dead"] /\ touched' = [touched EXCEPT ![p] = {}]
          \/ pc' = [pc EXCEPT ![p] = "done"] /\ touched' = [touched EXCEPT ![p] = {}]
      BY <1>4 DEF Work, Prepare, Push, StartDownload, EndDownload, Accept, Refuse, EndUnpack, AllPrepared, Compare,
             AllPushed, Acquire, EndSetup, EndWindow, Raise, Restart, Stop, Goto
    <2> QED
      BY <1>4, <2>1 DEF Ended, ControlOK
  <1> QED
    BY <1>1, <1>2, <1>3, <1>4

\* What is on the device of a file after a step of p.
LEMMA AfterStep ==
    ASSUME TypeOK, HostsInv, ModelsInv, NEW p \in Pipeline, Work(p) \/ Raise(p) \/ Restart(p), NEW f \in Model
    PROVE  \/ device'[f] = device[f]
           \/ StartPush(p) /\ f = Pushed(p) /\ device'[f] = "part"
           \/ /\ EndPush(p) /\ f = Pushed(p)
              /\ \/ device'[f] = Wanted(p, f)
                 \/ ~Agree(p, f) /\ f \in touched[p] /\ device'[f] = "part"
  <1>1. CASE StartPush(p)
    BY <1>1, PushedType DEF StartPush, TypeOK, FilesOK, ControlOK, IndexOK
  <1>2. CASE EndPush(p)
    <2>1. pc[p] = "copy" /\ Pushing(p)
      BY <1>2 DEF EndPush, TypeOK, ControlOK, IndexOK
    <2>2. PICK c \in Copied(p, Pushed(p)) : device' = [device EXCEPT ![Pushed(p)] = c]
      BY <1>2 DEF EndPush
    <2>3. \/ c = Wanted(p, Pushed(p))
          \/ Pushed(p) \in touched[p] /\ (c = device[Pushed(p)] \/ (c = "part" /\ ~Agree(p, Pushed(p))))
      BY <2>1, PushedOffered DEF Copied, Agree
    <2> QED
      BY <1>2, <2>1, <2>2, <2>3, PushedOffered DEF TypeOK, FilesOK
  <1>3. CASE ~StartPush(p) /\ ~EndPush(p)
    BY <1>3, ModelsStay
  <1> QED
    BY <1>1, <1>2, <1>3

LEMMA AgreedStep ==
    ASSUME TypeOK, HostsInv, ModelsInv, NEW p \in Pipeline, Work(p) \/ Raise(p) \/ Restart(p)
    PROVE  AgreedInv' /\ TouchedInv'
  <1>1. \A q \in Pipeline, f \in Model : Wanted(q, f)' = Wanted(q, f)
    BY ArgsStay DEF Wanted
  <1>2. AgreedInv'
    <2> SUFFICES ASSUME NEW q \in Pipeline, NEW f \in Model, Agree(q, f)
                 PROVE  device'[f] \in {"absent", "part", Wanted(q, f)}
      BY <1>1 DEF AgreedInv, Agree
    <2>1. Wanted(p, f) = Wanted(q, f)
      BY DEF Agree
    <2> QED
      BY <2>1, AfterStep DEF ModelsInv, AgreedInv
  <1>3. TouchedInv'
    <2> SUFFICES ASSUME NEW q \in Pipeline, NEW f \in touched'[q] PROVE device'[f] # "absent"
      BY DEF TouchedInv
    <2>1. f \in Model
      BY StartStep DEF StartOK
    <2>2. Wanted(p, f) # "absent"
      BY <2>1, WantedGood DEF TypeOK
    <2>3. f \in touched[q] \/ (f = Pushed(p) /\ (SkipPush(p) \/ StartPush(p) \/ EndPush(p)))
      BY TouchedStep
    <2>4. CASE f \in touched[q]
      BY <2>1, <2>2, <2>4, AfterStep DEF ModelsInv, TouchedInv
    <2>5. CASE StartPush(p) /\ f = Pushed(p)
      BY <2>1, <2>5 DEF StartPush, TypeOK, FilesOK
    <2>6. CASE EndPush(p) /\ f = Pushed(p)
      <3>1. pc[p] = "copy" /\ Pushing(p)
        BY <2>6 DEF EndPush, TypeOK, ControlOK, IndexOK
      <3>2. PICK c \in Copied(p, f) : device' = [device EXCEPT ![f] = c]
        BY <2>6 DEF EndPush
      <3>3. c # "absent"
        BY <2>2, <2>6, <3>1, PushedOffered DEF Copied, ModelsInv, TouchedInv
      <3> QED
        BY <2>1, <3>2, <3>3 DEF TypeOK, FilesOK
    <2>7. CASE SkipPush(p) /\ f = Pushed(p)
      <3>1. pc[p] = "push" /\ Pushing(p) /\ device[f] = Offered(p, f) /\ UNCHANGED device
        BY <2>7 DEF SkipPush, SameOnDevice
      <3> QED
        BY <2>2, <2>7, <3>1, PushedOffered
    <2> QED
      BY <2>3, <2>4, <2>5, <2>6, <2>7
  <1> QED
    BY <1>2, <1>3

\* What p has just pushed is its own, or another one pushed it at the same time.
LEMMA OwnPushed ==
    ASSUME TypeOK, HostsInv, ModelsInv, NEW p \in Pipeline, EndPush(p), NEW f, f = Pushed(p)
    PROVE  Own(p, f)'
  <1>1. pc[p] = "copy" /\ Pushing(p)
    BY DEF EndPush, TypeOK, ControlOK, IndexOK
  <1>2. /\ f \in Model
        /\ Offered(p, f) = Wanted(p, f)
        /\ Wanted(p, f) \notin {"absent", "part", "wrong"}
    BY <1>1, PushedOffered
  <1>3. PICK c \in Copied(p, f) : device' = [device EXCEPT ![f] = c]
    BY DEF EndPush
  <1>4. device'[f] = c /\ touched'[p] = touched[p]
    BY <1>2, <1>3 DEF EndPush, TypeOK, FilesOK, StartOK
  <1>5. \A q \in Pipeline : Wanted(q, f)' = Wanted(q, f)
    BY DEF EndPush, args, Wanted
  <1>6. CASE c = Wanted(p, f)
    BY <1>4, <1>5, <1>6 DEF Own
  <1>7. CASE c # Wanted(p, f)
    <2>1. f \in touched[p] /\ (c = device[f] \/ (c = "part" /\ ~Agree(p, f)))
      BY <1>2, <1>7 DEF Copied, Agree
    <2>2. Agree(p, f) => c = "part"
      BY <1>2, <1>7, <2>1 DEF ModelsInv, AgreedInv, TouchedInv
    <2>3. Agree(p, f)' <=> Agree(p, f)
      BY <1>5 DEF Agree
    <2> QED
      BY <1>4, <2>1, <2>2, <2>3 DEF Own
  <1> QED
    BY <1>6, <1>7

\* A file stays a pipeline's own, or touched, until it looks at it again.
LEMMA OwnKept ==
    ASSUME TypeOK, HostsInv, ModelsInv, NEW p \in Pipeline, Work(p) \/ Raise(p) \/ Restart(p),
           NEW q \in Pipeline, NEW f \in Model, Own(q, f), pc'[q] \notin Ended,
           ~(q = p /\ StartPush(p) /\ f = Pushed(p))
    PROVE  Own(q, f)'
  <1>1. \A r \in Pipeline : Wanted(r, f)' = Wanted(r, f)
    BY ArgsStay DEF Wanted
  <1>2. Agree(q, f)' <=> Agree(q, f)
    BY <1>1 DEF Agree
  <1>3. CASE q # p
    <2>1. touched'[q] = touched[q] \cup (IF StartPush(p) \/ EndPush(p) THEN {Pushed(p)} ELSE {})
      BY <1>3, TouchedStep
    <2>2. CASE device'[f] = device[f]
      BY <1>1, <1>2, <2>1, <2>2 DEF Own
    <2>3. CASE StartPush(p) /\ f = Pushed(p) /\ device'[f] = "part"
      BY <1>1, <1>2, <2>1, <2>3 DEF Own
    <2>4. CASE /\ EndPush(p) /\ f = Pushed(p)
               /\ \/ device'[f] = Wanted(p, f)
                  \/ ~Agree(p, f) /\ device'[f] = "part"
      <3>1. f \in touched'[q]
        BY <2>1, <2>4
      <3>2. Agree(q, f) => Wanted(q, f) = Wanted(p, f) /\ Agree(p, f)
        BY DEF Agree
      <3> QED
        BY <1>1, <1>2, <2>4, <3>1, <3>2 DEF Own
    <2> QED
      BY <2>2, <2>3, <2>4, AfterStep
  <1>4. CASE q = p /\ f = Pushed(p) /\ EndPush(p)
    BY <1>4, OwnPushed
  <1>5. CASE q = p /\ f = Pushed(p) /\ SkipPush(p)
    <2>1. pc[p] = "push" /\ Pushing(p) /\ device[f] = Offered(p, f) /\ UNCHANGED device
      BY <1>5 DEF SkipPush, Compare, SameOnDevice
    <2>2. device'[f] = Wanted(p, f)
      BY <1>5, <2>1, PushedOffered
    <2> QED
      BY <1>1, <1>5, <2>2 DEF Own
  <1>6. CASE q = p /\ ~(f = Pushed(p) /\ (EndPush(p) \/ SkipPush(p)))
    <2>1. f \in touched[p] => f \in touched'[p]
      BY <1>6, TouchedStep
    <2>2. device'[f] = device[f]
      BY <1>6, AfterStep
    <2> QED
      BY <1>1, <1>2, <1>6, <2>1, <2>2 DEF Own
  <1> QED
    BY <1>3, <1>4, <1>5, <1>6

LEMMA OwnStep ==
    ASSUME TypeOK, HostsInv, ModelsInv, NEW p \in Pipeline, Work(p) \/ Raise(p) \/ Restart(p),
           NEW q \in Pipeline
    PROVE  OwnInv(q)'
  <1>1. ToPush(q)' = ToPush(q)
    BY ArgsStay DEF ToPush
  <1>2. \A k \in 1..Len(ToPush(q)) : ToPush(q)[k] \in Model
    BY ToPushType DEF TypeOK
  <1>3. /\ pc[q] \in {"lock"} \cup InLock => \A k \in 1..Len(ToPush(q)) : Own(q, ToPush(q)[k])
        /\ pc[q] \in {"push", "differs", "copy"} => \A k \in 1..Len(ToPush(q)) :
             k < at[q] => Own(q, ToPush(q)[k]) \/ (pc[q] = "copy" /\ ToPush(q)[k] = Pushed(q))
    BY DEF ModelsInv, OwnInv
  <1>4. at[q] \in Nat \ {0} /\ Len(ToPush(q)) \in Nat
    BY ToPushType DEF TypeOK, ControlOK
  <1>5. ASSUME pc'[q] \in {"lock"} \cup InLock, NEW k \in 1..Len(ToPush(q)), NEW f, f = ToPush(q)[k]
        PROVE  Own(q, f)'
    <2>1. pc[q] \in {"lock"} \cup InLock \/ (q = p /\ AllPushed(p))
      <3>1. CASE q # p
        BY <1>5, <3>1, OthersStay DEF TypeOK
      <3>2. CASE q = p
        BY <1>5, <3>2 DEF Work, Prepare, Push, StartDownload, EndDownload, Accept, Refuse, EndUnpack, AllPrepared,
               SkipPush, Compare, StartPush, EndPush, Acquire, EndSetup, EndWindow, Raise, Restart, Stop, Goto,
               TypeOK, ControlOK, InLock
      <3> QED
        BY <3>1, <3>2
    <2>2. Own(q, f)
      <3>1. CASE q = p /\ AllPushed(p)
        BY <1>3, <1>4, <1>5, <3>1 DEF AllPushed, Pushing
      <3> QED
        BY <1>3, <1>5, <2>1, <3>1
    <2>3. ~(q = p /\ StartPush(p)) /\ pc'[q] \notin Ended
      BY <1>5, <2>1 DEF StartPush, AllPushed, Pushing, InLock, Ended
    <2> QED
      BY <1>2, <1>5, <2>2, <2>3, OwnKept
  <1>6. ASSUME pc'[q] \in {"push", "differs", "copy"}, NEW k \in 1..Len(ToPush(q)), k < at'[q],
               NEW f, f = ToPush(q)[k]
        PROVE  Own(q, f)' \/ (pc'[q] = "copy" /\ f = Pushed(q)')
    <2>1. pc'[q] \notin Ended
      BY <1>6 DEF Ended
    <2>2. CASE q # p
      <3>1. pc'[q] = pc[q] /\ at'[q] = at[q]
        BY <2>2, OthersStay DEF TypeOK
      <3>2. Pushed(q)' = Pushed(q)
        BY <1>1, <3>1 DEF Pushed
      <3> QED
        BY <1>2, <1>3, <1>6, <2>1, <2>2, <3>1, <3>2, OwnKept
    <2>3. CASE q = p /\ StartPush(p)
      <3>1. pc[p] = "differs" /\ pc'[p] = "copy" /\ at' = at
        BY <2>3 DEF StartPush, Goto, TypeOK, ControlOK
      <3>2. Pushed(q)' = Pushed(q)
        BY <1>1, <3>1 DEF Pushed
      <3>3. CASE f = Pushed(q)
        BY <2>3, <3>1, <3>2, <3>3
      <3>4. CASE f # Pushed(q)
        BY <1>2, <1>3, <1>6, <2>1, <2>3, <3>1, <3>4, OwnKept
      <3> QED
        BY <3>3, <3>4
    <2>4. CASE q = p /\ EndPush(p)
      <3>1. pc[p] = "copy" /\ at'[p] = at[p] + 1
        BY <2>4 DEF EndPush, TypeOK, ControlOK
      <3>2. CASE f = Pushed(q)
        BY <2>4, <3>2, OwnPushed
      <3>3. CASE f # Pushed(q)
        <4>1. k < at[q]
          BY <1>4, <1>6, <2>4, <3>1, <3>3 DEF Pushed
        <4>2. ~StartPush(p)
          BY <3>1 DEF StartPush
        <4> QED
          BY <1>2, <1>3, <1>6, <2>1, <2>4, <3>1, <3>3, <4>1, <4>2, OwnKept
      <3> QED
        BY <3>2, <3>3
    <2>5. CASE q = p /\ SkipPush(p)
      <3>1. pc[p] = "push" /\ at'[p] = at[p] + 1 /\ Pushing(p) /\ device[Pushed(p)] = Offered(p, Pushed(p))
        BY <2>5 DEF SkipPush, Compare, SameOnDevice, TypeOK, ControlOK
      <3>2. Own(p, Pushed(p))
        BY <3>1, PushedOffered DEF Own
      <3>3. Own(q, f)
        BY <1>3, <1>4, <1>6, <2>5, <3>1, <3>2 DEF Pushed
      <3>4. ~StartPush(p)
        BY <2>5 DEF StartPush, SkipPush
      <3> QED
        BY <1>2, <1>6, <2>1, <3>3, <3>4, OwnKept
    <2>6. CASE q = p /\ Compare(p)
      <3>1. pc[p] = "push" /\ at' = at /\ ~StartPush(p)
        BY <2>6 DEF Compare, StartPush
      <3> QED
        BY <1>2, <1>3, <1>6, <2>1, <2>6, <3>1, OwnKept
    <2>7. CASE q = p /\ ~(StartPush(p) \/ EndPush(p) \/ SkipPush(p) \/ Compare(p))
      <3>1. at'[p] = 1
        BY <1>6, <2>7 DEF Work, Prepare, Push, StartDownload, EndDownload, Accept, Refuse, EndUnpack, AllPrepared,
               AllPushed, Acquire, EndSetup, EndWindow, Raise, Restart, Stop, Goto, TypeOK, ControlOK
      <3> QED
        BY <1>6, <2>7, <3>1
    <2> QED
      BY <2>2, <2>3, <2>4, <2>5, <2>6, <2>7
  <1> QED
    BY <1>1, <1>5, <1>6 DEF OwnInv, Own, Agree

LEMMA ModelsCorrect == Spec => []ModelsInv
  <1>1. TypeOK /\ HostsInv /\ ModelsInv /\ [Next]_vars => ModelsInv'
    <2> SUFFICES ASSUME TypeOK, HostsInv, ModelsInv, [Next]_vars PROVE ModelsInv'
      OBVIOUS
    <2>1. CASE UNCHANGED vars
      <3>1. AgreedInv' /\ TouchedInv'
        BY <2>1 DEF vars, args, ModelsInv, AgreedInv, TouchedInv, Agree, ToPush, Pushed, Wanted
      <3>2. ASSUME NEW q \in Pipeline PROVE OwnInv(q)'
        <4>1. OwnInv(q)
          BY DEF ModelsInv
        <4> QED
          BY <2>1, <4>1, SMTT(30) DEF vars, args, OwnInv, Own, Agree, ToPush, Pushed, Wanted
      <3> QED
        BY <3>1, <3>2 DEF ModelsInv
    <2>2. ASSUME NEW p \in Pipeline, Work(p) \/ Raise(p) \/ Restart(p)
          PROVE  ModelsInv'
      BY <2>2, AgreedStep, OwnStep DEF ModelsInv
    <2> QED
      BY <2>1, <2>2 DEF Next
  <1> QED
    BY <1>1, InitModels, TypeCorrect, HostsCorrect, PTL DEF Spec

\* After its pushes a pipeline has its own version of every model on the
\* device, unless another one pushed that file since it looked; and where all
\* agree on the file it is at worst half pushed, for any number of pipelines
\* (benchmark.py:255, sh_commands.py:33-55).
THEOREM OwnTheorem == Spec => []OwnUnlessTouched
  <1>1. TypeOK /\ ModelsInv => OwnUnlessTouched
    <2> SUFFICES ASSUME TypeOK, ModelsInv, NEW p \in Pipeline, pc[p] \in {"lock"} \cup InLock,
                        NEW f \in ToSet(ToPush(p))
                 PROVE  Own(p, f)
      BY DEF OwnUnlessTouched, Own, Agree
    <2>1. PICK k \in 1..Len(ToPush(p)) : f = ToPush(p)[k]
      BY ToPushType DEF ToSet, TypeOK
    <2> QED
      BY <2>1 DEF ModelsInv, OwnInv
  <1> QED
    BY <1>1, TypeCorrect, ModelsCorrect, PTL

\* Once a model has been delivered to all who push it, and none of them is
\* between its comparison and the end of its push, it is never pushed again,
\* however many pipelines come, are lost and start again: what a run reads does
\* not change under it (sh_commands.py:40-54).
THEOREM QuietTheorem == Spec => QuietOnceDelivered
  <1>1. ASSUME TypeOK, HostsInv, Next, NEW f \in Model, Delivered(f)
        PROVE  Delivered(f)'
    <2>1. PICK p \in Pipeline : Work(p) \/ Raise(p) \/ Restart(p)
      BY <1>1 DEF Next
    <2>2. ASSUME Pushing(p), Pushed(p) = f, pc[p] \in {"push", "differs", "copy"}
          PROVE  pc[p] = "push" /\ device[f] = Offered(p, f)
      <3>1. f \in ToSet(ToPush(p))
        BY <1>1, <2>2, ToPushType DEF ToSet, Pushed, Pushing, TypeOK, ControlOK
      <3>2. Offered(p, f) = Wanted(p, f)
        BY <1>1, <2>2, PushedOffered
      <3> QED
        BY <1>1, <2>2, <3>1, <3>2 DEF Delivered
    <2>3. ~((Compare(p) \/ StartPush(p) \/ EndPush(p)) /\ Pushed(p) = f)
      BY <1>1, <2>2 DEF Compare, SameOnDevice, StartPush, EndPush, TypeOK, ControlOK, IndexOK
    <2>4. device'[f] = device[f]
      <3>1. CASE StartPush(p) \/ EndPush(p)
        <4>1. PICK c : device' = [device EXCEPT ![Pushed(p)] = c]
          BY <3>1 DEF StartPush, EndPush
        <4> QED
          BY <1>1, <2>3, <3>1, <4>1 DEF TypeOK, FilesOK
      <3>2. CASE ~(StartPush(p) \/ EndPush(p))
        BY <1>1, <2>1, <3>2, ModelsStay
      <3> QED
        BY <3>1, <3>2
    <2>5. \A q \in Pipeline : ToPush(q)' = ToPush(q) /\ Wanted(q, f)' = Wanted(q, f)
      BY <2>1, ArgsStay DEF ToPush, Wanted
    <2>6. ASSUME NEW q \in Pipeline, f \in ToSet(ToPush(q))
          PROVE  ~(pc'[q] \in {"differs", "copy"} /\ Pushed(q)' = f)
      <3>1. CASE q # p
        <4>1. pc'[q] = pc[q] /\ Pushed(q)' = Pushed(q)
          BY <1>1, <2>1, <2>5, <3>1, OthersStay DEF TypeOK, Pushed
        <4> QED
          BY <1>1, <2>6, <4>1 DEF Delivered
      <3>2. CASE q = p /\ (Compare(p) \/ StartPush(p))
        <4>1. Pushed(p)' = Pushed(p)
          BY <2>5, <3>2 DEF Compare, StartPush, Pushed
        <4> QED
          BY <2>3, <3>2, <4>1
      <3>3. CASE q = p /\ ~(Compare(p) \/ StartPush(p))
        BY <1>1, <2>1, <3>3 DEF Work, Prepare, Push, StartDownload, EndDownload, Accept, Refuse, EndUnpack,
               AllPrepared, SkipPush, EndPush, AllPushed, Acquire, EndSetup, EndWindow, Raise, Restart,
               Stop, Goto, TypeOK, ControlOK
      <3> QED
        BY <3>1, <3>2, <3>3
    <2> QED
      BY <1>1, <2>4, <2>5, <2>6 DEF Delivered
  <1>2. TypeOK /\ HostsInv /\ [Next]_vars => [\A f \in Model : Delivered(f) => Delivered(f)']_vars
    BY <1>1
  <1> QED
    BY <1>2, TypeCorrect, HostsCorrect, PTL DEF QuietOnceDelivered, Spec

-----------------------------------------------------------------------------
(***************************************************************************)
(* What prepare_all_models and get_cpu_mask compute.                       *)
(***************************************************************************)

\* Whatever bench_factory lists and whatever is asked for: the benchmark list
\* has each model once for each of its device types that was asked for, and
\* nothing else; and what is pushed is what these need (bench_engine.py:336-358).
THEOREM ListTheorem == Spec => []ListedAsAsked
  <1>1. TypeOK => ListedAsAsked
    <2> SUFFICES ASSUME TypeOK, NEW p \in Pipeline, pc[p] = "push"
                 PROVE  LET asked == job[p].asked
                            list  == BenchmarkList(asked)
                        IN  /\ Len(list) = Cardinality(Wants(asked))
                            /\ \A x \in Wants(asked) : \E k \in 1..Len(list) :
                                /\ list[k].type = x[2]
                                /\ LET m == Benchmarks[x[1]]
                                   IN  <<list[k].executor, list[k].name, list[k].quantize>>
                                       = <<m.executor, m.name, m.quantize>>
                            /\ ToSet(ToPush(p)) =
                                    Generated \cup UNION {ToSet(Benchmarks[x[1]].files) : x \in Wants(asked)}
      BY Zenon DEF ListedAsAsked, Wants
    <2> DEFINE asked == job[p].asked
               list  == BenchmarkList(asked)
    <2>1. PICK W : Tells(list, Wants(asked), [x \in Wants(asked) |-> ItemOf(x)], W)
      BY ListTells
    <2>2. Len(list) = Cardinality(Wants(asked))
      BY <2>1, ListTells, TellsCount
    <2>3. ASSUME NEW x \in Wants(asked)
          PROVE  \E k \in 1..Len(list) :
                    /\ list[k].type = x[2]
                    /\ LET m == Benchmarks[x[1]]
                       IN  <<list[k].executor, list[k].name, list[k].quantize>>
                           = <<m.executor, m.name, m.quantize>>
      <3>1. PICK k \in 1..Len(list) : W[k] = x
        BY <2>1 DEF Tells
      <3>2. list[k] = ItemOf(x)
        BY <2>1, <3>1 DEF Tells
      <3> QED
        BY <3>2 DEF ItemOf
    <2>4. ToPush(p) = PushList(asked)
      BY DeliveryAssumption DEF TypeOK, ToPush
    <2>5. ToSet(ToPush(p)) = Generated \cup UNION {ToSet(Benchmarks[x[1]].files) : x \in Wants(asked)}
      BY <2>4, PushHas
    <2> QED
      BY <2>2, <2>3, <2>5, Zenon
  <1> QED
    BY <1>1, TypeCorrect, PTL

\* The bit of a core.
Bit(freqs, c) == IF freqs[c] # Slowest(freqs) THEN 1 ELSE 0

\* The string of bits has the bit of the first core last.
LEMMA BitsAre ==
    ASSUME NEW freqs \in Seq(Nat)
    PROVE  /\ CpuBits(freqs) \in Seq({0, 1})
           /\ Len(CpuBits(freqs)) = Len(freqs)
           /\ \A c \in 1..Len(freqs) : CpuBits(freqs)[Len(freqs) + 1 - c] = Bit(freqs, c)
  <1> DEFINE n == Len(freqs)
             A == Seq({0, 1})
             op == [x \in (1..n) \X A |-> <<Bit(freqs, x[1])>> \o x[2]]
             Iter(f) == f = [s \in SUBSET (1..n) |-> IF s = {} THEN <<>>
                                                     ELSE <<Bit(freqs, Max(s))>> \o f[s \ {Max(s)}]]
             it == CHOOSE f : Iter(f)
  <1>1. n \in Nat /\ DOMAIN freqs = 1..n
    OBVIOUS
  <1>2. CpuBits(freqs) = it[1..n]
    <2>1. CpuBits(freqs) =
            LET iter[s \in SUBSET DOMAIN freqs] ==
                    IF s = {} THEN <<>>
                    ELSE <<IF freqs[Max(s)] # Slowest(freqs) THEN 1 ELSE 0>> \o iter[s \ {Max(s)}]
            IN  iter[DOMAIN freqs]
      BY Zenon DEF CpuBits, FoldLeft, MapThenFoldSet
    <2> HIDE DEF n
    <2> QED
      BY <1>1, <2>1, Zenon DEF Bit
  <1>3. Iter(it)
    <2>1. \A x \in (1..n) \X A : <<Bit(freqs, x[1])>> \o x[2] \in A
      BY DEF Bit
    <2>2. op \in [(1..n) \X A -> A] /\ <<>> \in A
      BY <2>1
    <2>3. PICK f \in [SUBSET (1..n) -> A] : FoldsLeft(n, <<>>, op, f)
      <3> HIDE DEF n, A, op
      <3> QED
        BY <1>1, <2>2, FoldExists
    <2>4. ASSUME NEW s \in SUBSET (1..n), s # {}
          PROVE  op[<<Max(s), f[s \ {Max(s)}]>>] = <<Bit(freqs, Max(s))>> \o f[s \ {Max(s)}]
      <3>1. Max(s) \in 1..n
        BY <1>1, <2>4, MaxThere
      <3>2. f[s \ {Max(s)}] \in A
        OBVIOUS
      <3> HIDE DEF n, A
      <3> QED
        BY <3>1, <3>2
    <2>5. Iter(f)
      <3> HIDE DEF n, A, op
      <3> QED
        BY <2>3, <2>4 DEF FoldsLeft
    <2> HIDE DEF Iter
    <2> QED
      BY <2>5, Zenon
  <1> DEFINE Good(k) == /\ it[1..k] \in A
                        /\ Len(it[1..k]) = k
                        /\ \A c \in 1..k : it[1..k][k + 1 - c] = Bit(freqs, c)
             T == {k \in Nat : k <= n => Good(k)}
  <1> HIDE DEF it
  <1>4. 0 \in T
    <2>1. 1..0 = {} /\ {} \in SUBSET (1..n)
      OBVIOUS
    <2>2. it[1..0] = <<>>
      BY <1>3, <2>1
    <2>3. it[1..0] \in A /\ Len(it[1..0]) = 0
      BY <2>2
    <2>4. Good(0)
      <3> HIDE DEF A
      <3> QED
        BY <2>1, <2>3
    <2> HIDE DEF Good
    <2> QED
      BY <2>4
  <1>5. ASSUME NEW k \in T PROVE k + 1 \in T
    <2> SUFFICES ASSUME k + 1 <= n PROVE Good(k + 1)
      <3> HIDE DEF Good
      <3> QED
        OBVIOUS
    <2> DEFINE b == it[1..k]
               d == it[1..(k + 1)]
    <2>1. k \in Nat /\ k <= n /\ k + 1 \in 1..n /\ (k + 1) - 1 = k
      BY <1>1
    <2>2. b \in A /\ Len(b) = k /\ \A c \in 1..k : b[k + 1 - c] = Bit(freqs, c)
      BY <2>1
    <2>3. d = <<Bit(freqs, k + 1)>> \o b
      <3>1. /\ 1..(k + 1) \in SUBSET (1..n) /\ 1..(k + 1) # {} /\ Max(1..(k + 1)) = k + 1
            /\ (1..(k + 1)) \ {k + 1} = 1..k
        BY <1>1, <2>1, Prefix
      <3> HIDE DEF n
      <3> QED
        BY <1>3, <3>1
    <2>4. Bit(freqs, k + 1) \in {0, 1}
      BY DEF Bit
    <2> HIDE DEF b, d
    <2>5. d \in A /\ Len(d) = k + 1 /\ d[1] = Bit(freqs, k + 1) /\ \A i \in 1..k : d[i + 1] = b[i]
      BY <2>1, <2>2, <2>3, <2>4
    <2>6. ASSUME NEW c \in 1..(k + 1) PROVE d[(k + 1) + 1 - c] = Bit(freqs, c)
      <3>1. CASE c = k + 1
        <4>1. (k + 1) + 1 - c = 1
          BY <2>1, <3>1
        <4> QED
          BY <2>5, <3>1, <4>1
      <3>2. CASE c # k + 1
        <4>1. c \in 1..k /\ k + 1 - c \in 1..k /\ (k + 1 - c) + 1 = (k + 1) + 1 - c
          BY <2>1, <3>2
        <4>2. d[(k + 1 - c) + 1] = b[k + 1 - c]
          BY <2>5, <4>1
        <4> QED
          BY <2>2, <4>1, <4>2
      <3> QED
        BY <3>1, <3>2
    <2> QED
      BY <2>5, <2>6 DEF d
  <1>6. n \in T
    <2> HIDE DEF T, n
    <2>1. T \in SUBSET Nat
      BY DEF T
    <2> QED
      BY <1>1, <1>4, <1>5, <2>1, Induction
  <1>7. Good(n)
    <2> HIDE DEF n, A, Good
    <2> QED
      BY <1>1, <1>6
  <1> QED
    BY <1>2, <1>7

\* The mask is put together from the first bit of the string to the last.
LEMMA MaskIs ==
    ASSUME NEW freqs \in Seq(Nat)
    PROVE  \E m \in [0..Len(freqs) -> Nat] :
              /\ m[0] = 0
              /\ \A k \in 1..Len(freqs) : m[k] = 2 * m[k - 1] + CpuBits(freqs)[k]
              /\ CpuMask(freqs) = m[Len(freqs)]
  <1> DEFINE n == Len(freqs)
             bits == CpuBits(freqs)
             op == [x \in (1..n) \X Nat |-> 2 * x[2] + bits[x[1]]]
             Iter(f) == f = [s \in SUBSET (1..n) |-> IF s = {} THEN 0
                                                     ELSE 2 * f[s \ {Max(s)}] + bits[Max(s)]]
             it == CHOOSE f : Iter(f)
  <1>1. n \in Nat
    OBVIOUS
  <1>2. bits \in Seq({0, 1}) /\ Len(bits) = n
    BY BitsAre
  <1>3. DOMAIN bits = 1..n /\ \A k \in 1..n : bits[k] \in {0, 1}
    <2> HIDE DEF n, bits
    <2> QED
      BY <1>1, <1>2
  <1>4. CpuMask(freqs) = it[1..n]
    <2>1. CpuMask(freqs) =
            LET iter[s \in SUBSET DOMAIN bits] ==
                    IF s = {} THEN 0 ELSE 2 * iter[s \ {Max(s)}] + bits[Max(s)]
            IN  iter[DOMAIN bits]
      BY Zenon DEF CpuMask, FoldLeft, MapThenFoldSet
    <2> HIDE DEF n, bits
    <2> QED
      BY <1>3, <2>1, Zenon
  <1> HIDE DEF n, bits
  <1>5. Iter(it)
    <2>1. op \in [(1..n) \X Nat -> Nat] /\ 0 \in Nat
      BY <1>3
    <2>2. PICK f \in [SUBSET (1..n) -> Nat] : FoldsLeft(n, 0, op, f)
      <3> HIDE DEF op
      <3> QED
        BY <1>1, <2>1, FoldExists
    <2>3. ASSUME NEW s \in SUBSET (1..n), s # {}
          PROVE  op[<<Max(s), f[s \ {Max(s)}]>>] = 2 * f[s \ {Max(s)}] + bits[Max(s)]
      <3>1. Max(s) \in 1..n
        BY <1>1, <2>3, MaxThere
      <3>2. f[s \ {Max(s)}] \in Nat
        OBVIOUS
      <3> QED
        BY <3>1, <3>2
    <2>4. Iter(f)
      <3> HIDE DEF op
      <3> QED
        BY <2>2, <2>3 DEF FoldsLeft
    <2> HIDE DEF Iter
    <2> QED
      BY <2>4, Zenon
  <1> HIDE DEF it
  <1> DEFINE m == [k \in 0..n |-> it[1..k]]
  <1>6. it[1..0] = 0
    <2>1. 1..0 = {} /\ {} \in SUBSET (1..n)
      OBVIOUS
    <2> QED
      BY <1>5, <2>1
  <1>7. ASSUME NEW k \in 1..n
        PROVE  it[1..k] = 2 * it[1..(k - 1)] + bits[k]
    <2>1. 1..k \in SUBSET (1..n) /\ 1..k # {} /\ Max(1..k) = k /\ (1..k) \ {k} = 1..(k - 1)
      BY <1>1, Prefix
    <2> QED
      BY <1>5, <2>1
  <1> HIDE DEF Iter
  <1>8. \A k \in Nat : k <= n => it[1..k] \in Nat
    <2> DEFINE T == {k \in Nat : k <= n => it[1..k] \in Nat}
    <2>1. 0 \in T
      BY <1>6
    <2>2. ASSUME NEW k \in T PROVE k + 1 \in T
      <3> SUFFICES ASSUME k + 1 <= n PROVE it[1..(k + 1)] \in Nat
        OBVIOUS
      <3>1. k + 1 \in 1..n /\ (k + 1) - 1 = k /\ it[1..k] \in Nat
        BY <1>1
      <3>2. it[1..(k + 1)] = 2 * it[1..k] + bits[k + 1]
        BY <1>7, <3>1
      <3>3. bits[k + 1] \in {0, 1}
        BY <1>3, <3>1
      <3> QED
        BY <3>1, <3>2, <3>3
    <2> HIDE DEF T
    <2>3. T \in SUBSET Nat
      BY DEF T
    <2>4. \A k \in Nat : k \in T
      BY <2>1, <2>2, <2>3, Induction
    <2> QED
      BY <2>4 DEF T
  <1>9. m \in [0..n -> Nat]
    BY <1>1, <1>8
  <1>10. m[0] = 0 /\ CpuMask(freqs) = m[n]
    BY <1>1, <1>4, <1>6
  <1>11. \A k \in 1..n : m[k] = 2 * m[k - 1] + bits[k]
    BY <1>1, <1>7
  <1> HIDE DEF m
  <1> QED
    BY <1>9, <1>10, <1>11 DEF n, bits

\* taskset reads the bits from the last to the first: the mask names the cores
\* that are not the slowest.
LEMMA MaskCores ==
    ASSUME NEW freqs \in Seq(Nat), NEW N \in Nat, Len(freqs) <= N
    PROVE  CoresOf(CpuMask(freqs), N) = {c \in 1..Len(freqs) : freqs[c] # Slowest(freqs)}
  <1> DEFINE n == Len(freqs)
             mask == CpuMask(freqs)
             bits == CpuBits(freqs)
             Halves(f) == f = [k \in 0..N |-> IF k = 0 THEN mask ELSE f[k - 1] \div 2]
             sh == CHOOSE f : Halves(f)
  <1>1. n \in Nat /\ n <= N
    OBVIOUS
  <1>2. PICK m \in [0..n -> Nat] : m[0] = 0 /\ (\A k \in 1..n : m[k] = 2 * m[k - 1] + bits[k]) /\ mask = m[n]
    BY MaskIs
  <1>3. \A c \in 1..n : bits[n + 1 - c] = Bit(freqs, c)
    BY BitsAre
  <1>4. \A k \in 1..n : bits[k] \in {0, 1}
    <2>1. bits \in Seq({0, 1}) /\ Len(bits) = n
      BY BitsAre
    <2> HIDE DEF bits, n
    <2> QED
      BY <2>1
  <1>5. CoresOf(mask, N) = {c \in 1..N : sh[c - 1] % 2 = 1}
    BY Zenon DEF CoresOf
  <1> HIDE DEF n, mask, bits
  <1>6. \A k \in 1..n : m[k - 1] \in Nat /\ m[k] \div 2 = m[k - 1] /\ m[k] % 2 = bits[k]
    <2> SUFFICES ASSUME NEW k \in 1..n
                 PROVE  m[k - 1] \in Nat /\ m[k] \div 2 = m[k - 1] /\ m[k] % 2 = bits[k]
      OBVIOUS
    <2>1. k - 1 \in 0..n
      BY <1>1
    <2>2. m[k - 1] \in Nat /\ bits[k] \in {0, 1} /\ m[k] = 2 * m[k - 1] + bits[k]
      BY <1>2, <1>4, <2>1
    <2>3. (2 * m[k - 1] + bits[k]) \div 2 = m[k - 1] /\ (2 * m[k - 1] + bits[k]) % 2 = bits[k]
      BY <2>2, Halved
    <2> QED
      BY <2>2, <2>3
  <1> DEFINE h == [k \in 0..N |-> IF k <= n THEN m[n - k] ELSE 0]
  <1>7. ASSUME NEW k \in 0..N PROVE h[k] = IF k = 0 THEN mask ELSE h[k - 1] \div 2
    <2>1. CASE k = 0
      <3>1. n - 0 = n /\ 0 \in 0..N
        BY <1>1
      <3> QED
        BY <1>1, <1>2, <2>1, <3>1
    <2>2. CASE k # 0 /\ k <= n
      <3>1. k - 1 \in 0..N /\ k - 1 <= n /\ n - k + 1 \in 1..n /\ n - (k - 1) = n - k + 1 /\ (n - k + 1) - 1 = n - k
        BY <1>1, <2>2
      <3>2. h[k] = m[n - k] /\ h[k - 1] = m[n - k + 1]
        BY <2>2, <3>1
      <3>3. m[n - k + 1] \div 2 = m[n - k]
        BY <1>6, <3>1
      <3> HIDE DEF h
      <3> QED
        BY <2>2, <3>2, <3>3
    <2>3. CASE k > n
      <3>1. k - 1 \in 0..N /\ k # 0 /\ n - n = 0 /\ (k - 1 <= n => k - 1 = n)
        BY <1>1, <2>3
      <3>2. h[k] = 0
        BY <1>1, <2>3
      <3>3. h[k - 1] = 0
        BY <1>2, <3>1
      <3>4. 0 \div 2 = 0
        OBVIOUS
      <3> HIDE DEF h
      <3> QED
        BY <3>1, <3>2, <3>3, <3>4
    <2> QED
      BY <1>1, <2>1, <2>2, <2>3
  <1>8. Halves(h)
    <2>1. h = [k \in 0..N |-> h[k]]
      OBVIOUS
    <2> HIDE DEF h
    <2> QED
      BY <1>7, <2>1
  <1>9. Halves(sh)
    <2> HIDE DEF h, Halves
    <2> QED
      BY <1>8, Zenon
  <1> HIDE DEF sh
  <1>10. \A k \in 0..N : sh[k] = h[k]
    <2> DEFINE T == {k \in Nat : k <= N => sh[k] = h[k]}
    <2>1. 0 \in T
      <3>1. 0 \in 0..N
        OBVIOUS
      <3>2. sh[0] = mask /\ h[0] = mask
        <4> HIDE DEF h
        <4> QED
          BY <1>7, <1>9, <3>1
      <3> HIDE DEF h
      <3> QED
        BY <3>2
    <2>2. ASSUME NEW k \in T PROVE k + 1 \in T
      <3> HIDE DEF h
      <3> SUFFICES ASSUME k + 1 <= N PROVE sh[k + 1] = h[k + 1]
        OBVIOUS
      <3>1. k + 1 \in 0..N /\ k + 1 # 0 /\ (k + 1) - 1 = k /\ sh[k] = h[k]
        OBVIOUS
      <3>2. sh[k + 1] = sh[k] \div 2
        BY <1>9, <3>1
      <3>3. h[k + 1] = h[k] \div 2
        BY <1>7, <3>1
      <3> QED
        BY <3>1, <3>2, <3>3
    <2> HIDE DEF T
    <2>3. T \in SUBSET Nat
      BY DEF T
    <2>4. \A k \in Nat : k \in T
      BY <2>1, <2>2, <2>3, Induction
    <2> HIDE DEF h
    <2> QED
      BY <2>4 DEF T
  <1>11. ASSUME NEW c \in 1..N
         PROVE  sh[c - 1] % 2 = 1 <=> c <= n /\ freqs[c] # Slowest(freqs)
    <2>1. c - 1 \in 0..N /\ sh[c - 1] = IF c - 1 <= n THEN m[n - (c - 1)] ELSE 0
      BY <1>10
    <2>2. CASE c <= n
      <3>1. c - 1 <= n /\ n - (c - 1) = n + 1 - c /\ n + 1 - c \in 1..n /\ c \in 1..n
        BY <1>1, <2>2
      <3>2. sh[c - 1] = m[n + 1 - c]
        BY <2>1, <3>1
      <3>3. sh[c - 1] % 2 = Bit(freqs, c)
        BY <1>3, <1>6, <3>1, <3>2
      <3> QED
        BY <2>2, <3>3 DEF Bit
    <2>3. CASE ~(c <= n)
      <3>1. c - 1 <= n => n - (c - 1) = 0
        BY <1>1, <2>3
      <3>2. sh[c - 1] = 0
        BY <1>2, <2>1, <3>1
      <3>3. 0 % 2 = 0
        OBVIOUS
      <3> QED
        BY <2>3, <3>2, <3>3
    <2> QED
      BY <2>2, <2>3
  <1>12. CoresOf(mask, N) = {c \in 1..n : freqs[c] # Slowest(freqs)}
    BY <1>1, <1>5, <1>11
  <1> QED
    BY <1>12 DEF mask, n

\* There is a slowest core.
LEMMA SlowestIs ==
    ASSUME NEW freqs \in Seq(Nat), freqs # <<>>
    PROVE  \E e \in 1..Len(freqs) :
              Slowest(freqs) = freqs[e] /\ \A c \in 1..Len(freqs) : freqs[e] <= freqs[c]
  <1> DEFINE n == Len(freqs)
             Least(k) == \E e \in 1..k : \A c \in 1..k : freqs[e] <= freqs[c]
             T == {k \in Nat : k + 1 <= n => Least(k + 1)}
  <1>1. n \in Nat /\ n # 0 /\ DOMAIN freqs = 1..n /\ \A c \in 1..n : freqs[c] \in Nat
    OBVIOUS
  <1> HIDE DEF n
  <1>2. 0 \in T
    <2>1. n >= 1 /\ 1 \in 1..n /\ \A c \in 1..1 : c = 1
      BY <1>1
    <2>2. freqs[1] <= freqs[1]
      BY <1>1, <2>1
    <2>3. Least(1)
      BY <2>1, <2>2
    <2> QED
      BY <2>3
  <1>3. ASSUME NEW k \in T PROVE k + 1 \in T
    <2> SUFFICES ASSUME (k + 1) + 1 <= n PROVE Least((k + 1) + 1)
      <3> HIDE DEF Least
      <3> QED
        OBVIOUS
    <2> DEFINE l == (k + 1) + 1
    <2>1. k \in Nat /\ k + 1 <= n /\ l \in 1..n /\ \A c \in 1..l : c \in 1..n /\ (c = l \/ c \in 1..(k + 1))
      BY <1>1
    <2>2. PICK e \in 1..(k + 1) : \A c \in 1..(k + 1) : freqs[e] <= freqs[c]
      BY <2>1
    <2>3. e \in 1..l /\ l \in 1..l /\ e \in 1..n
      BY <1>1, <2>1
    <2> HIDE DEF l
    <2>4. CASE freqs[e] <= freqs[l]
      <3>1. \A c \in 1..l : freqs[e] <= freqs[c]
        BY <2>1, <2>2, <2>4
      <3> QED
        BY <2>3, <3>1 DEF l
    <2>5. CASE ~(freqs[e] <= freqs[l])
      <3>1. \A c \in 1..l : freqs[l] <= freqs[c]
        <4> SUFFICES ASSUME NEW c \in 1..l PROVE freqs[l] <= freqs[c]
          OBVIOUS
        <4>1. freqs[l] \in Nat /\ freqs[e] \in Nat /\ freqs[c] \in Nat
          BY <1>1, <2>1, <2>3
        <4>2. CASE c = l
          BY <4>1, <4>2
        <4>3. CASE c \in 1..(k + 1)
          BY <2>2, <2>5, <4>1, <4>3
        <4> QED
          BY <2>1, <4>2, <4>3
      <3> QED
        BY <2>3, <3>1 DEF l
    <2> QED
      BY <2>4, <2>5
  <1>4. Least(n)
    <2> HIDE DEF Least
    <2>1. n - 1 \in Nat /\ (n - 1) + 1 = n
      BY <1>1
    <2>2. n - 1 \in T
      <3> HIDE DEF T
      <3>1. T \in SUBSET Nat
        BY DEF T
      <3> QED
        BY <1>2, <1>3, <2>1, <3>1, Induction
    <2> QED
      BY <1>1, <2>1, <2>2
  <1>5. PICK e \in 1..n : \A c \in 1..n : freqs[e] <= freqs[c]
    BY <1>4
  <1>6. ToSet(freqs) = {freqs[c] : c \in 1..n}
    BY <1>1 DEF ToSet
  <1>7. Slowest(freqs) \in ToSet(freqs) /\ \A y \in ToSet(freqs) : Slowest(freqs) =< y
    <2>1. \E x \in ToSet(freqs) : \A y \in ToSet(freqs) : x =< y
      BY <1>5, <1>6
    <2> QED
      BY <2>1, Zenon DEF Slowest, Min
  <1>8. PICK d \in 1..n : Slowest(freqs) = freqs[d]
    BY <1>6, <1>7
  <1>9. \A c \in 1..n : freqs[d] <= freqs[c]
    BY <1>6, <1>7, <1>8
  <1> QED
    BY <1>8, <1>9 DEF n

\* Not the slowest: faster than another one.
LEMMA FastIs ==
    ASSUME NEW freqs \in Seq(Nat)
    PROVE  {c \in 1..Len(freqs) : freqs[c] # Slowest(freqs)}
           = {c \in 1..Len(freqs) : \E e \in 1..Len(freqs) : freqs[c] > freqs[e]}
  <1>1. Len(freqs) \in Nat /\ \A c \in 1..Len(freqs) : freqs[c] \in Nat
    OBVIOUS
  <1>2. CASE freqs = <<>>
    BY <1>2
  <1>3. CASE freqs # <<>>
    <2>1. PICK e \in 1..Len(freqs) : Slowest(freqs) = freqs[e] /\ \A c \in 1..Len(freqs) : freqs[e] <= freqs[c]
      BY <1>3, SlowestIs
    <2>2. \A c \in 1..Len(freqs) : freqs[c] # Slowest(freqs) <=> freqs[c] > freqs[e]
      BY <1>1, <2>1
    <2>3. \A c, d \in 1..Len(freqs) : freqs[c] > freqs[d] => freqs[c] > freqs[e]
      BY <1>1, <2>1
    <2> QED
      BY <2>2, <2>3
  <1> QED
    BY <1>2, <1>3

\* What a pipeline that runs has found out about the cores of the device.
Bound(p) ==
    pc[p] = "run" =>
        /\ cores[p] \in Readable /\ ~CannotStart(p, cores[p])
        /\ threads[p] <= BigCores(Read(cores[p]))

BoundInv == \A p \in Pipeline : Bound(p)

LEMMA BoundStep ==
    ASSUME TypeOK, BoundInv, NEW p \in Pipeline, Work(p) \/ Raise(p) \/ Restart(p)
    PROVE  BoundInv'
  <1>0. /\ pc \in [Pipeline -> Preparing \cup {"push", "differs", "copy", "lock"} \cup InLock \cup Ended]
        /\ cores \in [Pipeline -> 0..Len(Freq)] /\ threads \in [Pipeline -> 0..NumThreads]
        /\ Len(Freq) \in Nat /\ NumThreads \in Nat
    BY DeliveryAssumption DEF TypeOK, ControlOK, StartOK
  <1>1. \A q \in Pipeline, n \in Readable : CannotStart(q, n)' <=> CannotStart(q, n)
    BY ArgsStay DEF CannotStart, Read
  <1>2. ASSUME NEW q \in Pipeline, q # p PROVE Bound(q)'
    <2>1. pc'[q] = pc[q]
      BY <1>2, OthersStay DEF TypeOK
    <2>2. cores'[q] = cores[q] /\ threads'[q] = threads[q]
      BY <1>0, <1>2 DEF Work, Prepare, Push, StartDownload, EndDownload, Accept, Refuse, EndUnpack, AllPrepared,
             SkipPush, Compare, StartPush, EndPush, AllPushed, Acquire, EndSetup, EndWindow, Raise, Restart, Stop, starting
    <2>3. Read(cores[q])' = Read(cores[q]) /\ BigCores(Read(cores[q]))' = BigCores(Read(cores[q]))
      BY <2>2 DEF Read, BigCores, Slowest
    <2> QED
      BY <1>1, <2>1, <2>2, <2>3 DEF BoundInv, Bound
  <1>3. Bound(p)'
    <2> SUFFICES ASSUME pc'[p] = "run"
                 PROVE  /\ cores'[p] \in Readable /\ ~CannotStart(p, cores[p])'
                        /\ (threads[p] <= BigCores(Read(cores[p])))'
      BY DEF Bound
    <2>1. EndSetup(p) /\ ~Stop(p, "dead")
      BY <1>0 DEF Work, Prepare, Push, StartDownload, EndDownload, Accept, Refuse, EndUnpack, AllPrepared,
             SkipPush, Compare, StartPush, EndPush, AllPushed, Acquire, EndSetup, EndWindow, Raise, Restart, Stop, Goto,
             Preparing, InLock, Ended
    <2>2. PICK n \in Readable : /\ ~CannotStart(p, n)
                                /\ cores' = [cores EXCEPT ![p] = n]
                                /\ threads' = [threads EXCEPT ![p] = ThreadsFor(p, n)]
      BY <2>1 DEF EndSetup
    <2>3. cores'[p] = n /\ threads'[p] = ThreadsFor(p, n)
      BY <1>0, <2>2
    <2>4. ThreadsFor(p, n) <= BigCores(Read(n))
      BY <1>0, BigCoresType DEF ThreadsFor, AtMost
    <2>5. BigCores(Read(cores[p]))' = BigCores(Read(n))
      BY <2>3 DEF Read, BigCores, Slowest
    <2>6. ~CannotStart(p, cores[p])'
      BY <2>2, <2>3, ArgsStay DEF CannotStart, Read
    <2> QED
      BY <2>3, <2>4, <2>5, <2>6
  <1> QED
    BY <1>2, <1>3 DEF BoundInv

\* Whatever frequencies a device has, and however many of its cores can be
\* read: taskset and the threads get the cores that are faster than the slowest
\* of these, all of them and no others, and TFLite gets at least one
\* (bench_engine.py:392-408, 467-476).
THEOREM BoundTheorem == Spec => []BoundToBigCores
  <1>1. Init => BoundInv
    BY DEF Init, BoundInv, Bound
  <1>2. TypeOK /\ BoundInv /\ [Next]_vars => BoundInv'
    <2> SUFFICES ASSUME TypeOK, BoundInv, [Next]_vars PROVE BoundInv'
      OBVIOUS
    <2>1. CASE UNCHANGED vars
      <3>1. ASSUME NEW p \in Pipeline PROVE Bound(p)'
        <4>1. UNCHANGED <<job, pc, cores, threads>>
          BY <2>1 DEF vars, args, starting
        <4> QED
          BY <4>1 DEF BoundInv, Bound, CannotStart, Read, BigCores, Slowest
      <3> QED
        BY <3>1 DEF BoundInv
    <2>2. ASSUME NEW p \in Pipeline, Work(p) \/ Raise(p) \/ Restart(p) PROVE BoundInv'
      BY <2>2, BoundStep
    <2> QED
      BY <2>1, <2>2 DEF Next
  <1>3. TypeOK /\ BoundInv => BoundToBigCores
    <2> SUFFICES ASSUME TypeOK, BoundInv, NEW p \in Pipeline, pc[p] = "run"
                 PROVE  LET fast == {c \in 1..cores[p] : \E e \in 1..cores[p] : Freq[c] > Freq[e]}
                        IN  /\ CoresOf(CpuMask(Read(cores[p])), Len(Freq)) = fast
                            /\ threads[p] <= Cardinality(fast)
                            /\ job[p].executor = "TFLITE" => fast # {}
      BY Zenon DEF BoundToBigCores
    <2> DEFINE n == cores[p]
               freqs == Read(n)
               fast == {c \in 1..n : \E e \in 1..n : Freq[c] > Freq[e]}
    <2>1. n \in Readable /\ n \in 0..Len(Freq) /\ ~CannotStart(p, n) /\ threads[p] <= BigCores(freqs)
      BY DeliveryAssumption DEF BoundInv, Bound
    <2>2. freqs \in Seq(Nat) /\ Len(freqs) = n /\ \A c \in 1..n : freqs[c] = Freq[c]
      BY <2>1, DeliveryAssumption, SMTT(30) DEF Read
    <2> HIDE DEF n, freqs
    <2>3. {c \in 1..n : freqs[c] # Slowest(freqs)} = fast
      <3>1. {c \in 1..Len(freqs) : freqs[c] # Slowest(freqs)}
            = {c \in 1..Len(freqs) : \E e \in 1..Len(freqs) : freqs[c] > freqs[e]}
        BY <2>2, FastIs
      <3> QED
        BY <2>2, <3>1
    <2>4. BigCores(freqs) = Cardinality(fast)
      BY <2>2, <2>3 DEF BigCores
    <2>5. CoresOf(CpuMask(freqs), Len(Freq)) = fast
      <3>1. Len(Freq) \in Nat /\ Len(freqs) <= Len(Freq)
        BY <2>1, <2>2, DeliveryAssumption
      <3>2. CoresOf(CpuMask(freqs), Len(Freq)) = {c \in 1..Len(freqs) : freqs[c] # Slowest(freqs)}
        BY <2>2, <3>1, MaskCores
      <3> QED
        BY <2>2, <2>3, <3>2
    <2> HIDE DEF fast
    <2>6. job[p].executor = "TFLITE" => fast # {}
      <3> SUFFICES ASSUME job[p].executor = "TFLITE", fast = {} PROVE FALSE
        OBVIOUS
      <3>1. BigCores(freqs) = 0
        BY <2>4, FS_EmptySet
      <3> QED
        BY <2>1, <3>1 DEF CannotStart, freqs
    <2>7. threads[p] <= Cardinality(fast)
      BY <2>1, <2>4
    <2> QED
      BY <2>5, <2>6, <2>7, Zenon DEF n, freqs, fast
  <1> QED
    BY <1>1, <1>2, <1>3, TypeCorrect, PTL DEF Spec

-----------------------------------------------------------------------------
(***************************************************************************)
(* How long a pipeline can go on.                                          *)
(***************************************************************************)

FetchesLeft(p) == Len(Tasks(p)) + 1 - at[p]
PushesLeft(p)  == Len(ToPush(p)) + 1 - at[p]
WindowsLeft(p) == MaxWindows - window[p]
ToWindows      == 3 * MaxWindows + 1
ToPushes(p)    == 3 * Len(ToPush(p)) + ToWindows + 1

\* The most steps that are left to a pipeline, if it is not started again.
StepsLeft(p) ==
    CASE pc[p] = "fetch"    -> 4 * FetchesLeft(p) + ToPushes(p)
      [] pc[p] = "download" -> 4 * FetchesLeft(p) + ToPushes(p) - 1
      [] pc[p] = "verify"   -> 4 * FetchesLeft(p) + ToPushes(p) - 2
      [] pc[p] = "unpack"   -> 4 * FetchesLeft(p) + ToPushes(p) - 3
      [] pc[p] = "push"     -> 3 * PushesLeft(p) + ToWindows
      [] pc[p] = "differs"  -> 3 * PushesLeft(p) + ToWindows - 1
      [] pc[p] = "copy"     -> 3 * PushesLeft(p) + ToWindows - 2
      [] pc[p] = "lock"     -> 3 * WindowsLeft(p) + 3
      [] pc[p] = "setup"    -> 3 * WindowsLeft(p) + 2
      [] pc[p] = "run"      -> 3 * WindowsLeft(p) + 1
      [] OTHER              -> 0

LEMMA LengthsStay ==
    ASSUME UNCHANGED <<target, job>>, NEW p
    PROVE  /\ Tasks(p)' = Tasks(p) /\ ToPush(p)' = ToPush(p)
           /\ Len(Tasks(p))' = Len(Tasks(p)) /\ Len(ToPush(p))' = Len(ToPush(p))
  BY DEF Tasks, ToPush

\* What the steps are counted from.
LEMMA LeftFacts ==
    ASSUME TypeOK, NEW p \in Pipeline
    PROVE  /\ Len(Tasks(p)) \in Nat /\ Len(ToPush(p)) \in Nat
           /\ at[p] \in Nat /\ at[p] > 0
           /\ window[p] \in Nat /\ window[p] > 0 /\ window[p] <= MaxWindows
           /\ MaxWindows \in Nat
           /\ pc[p] \in Preparing => at[p] <= Len(Tasks(p)) + 1
           /\ pc[p] \in {"download", "verify", "unpack"} => at[p] <= Len(Tasks(p))
           /\ pc[p] \notin Preparing => at[p] <= Len(ToPush(p)) + 1
           /\ pc[p] \in {"differs", "copy"} => at[p] <= Len(ToPush(p))
  <1>1. Len(Tasks(p)) \in Nat /\ Len(ToPush(p)) \in Nat
    BY TasksType, ToPushType DEF TypeOK
  <1>2. MaxWindows \in Nat \ {0} /\ window[p] \in 1..MaxWindows /\ at[p] \in Nat \ {0}
    BY DeliveryAssumption DEF TypeOK, ControlOK
  <1>3. IndexOK(p)
    BY DEF TypeOK, ControlOK
  <1> HIDE DEF Preparing
  <1>4. /\ pc[p] \in Preparing => at[p] <= Len(Tasks(p)) + 1
        /\ pc[p] \notin Preparing => at[p] <= Len(ToPush(p)) + 1
        /\ pc[p] \in {"differs", "copy"} => at[p] <= Len(ToPush(p))
        /\ pc[p] \in {"download", "verify", "unpack"} => at[p] <= Len(Tasks(p))
    BY <1>3 DEF IndexOK, Fetching, Pushing
  <1> QED
    BY <1>1, <1>2, <1>4

LEMMA StepsAreNat ==
    ASSUME TypeOK, NEW p \in Pipeline
    PROVE  /\ StepsLeft(p) \in Nat
           /\ pc[p] \notin Ended => StepsLeft(p) > 0
  <1>1. /\ pc[p] \in Preparing => FetchesLeft(p) \in Nat
        /\ pc[p] \in {"download", "verify", "unpack"} => FetchesLeft(p) > 0
        /\ pc[p] \notin Preparing => PushesLeft(p) \in Nat
        /\ WindowsLeft(p) \in Nat
        /\ ToWindows \in Nat /\ ToWindows > 0
        /\ ToPushes(p) \in Nat /\ ToPushes(p) > 0
    <2>1. /\ pc[p] \in Preparing => FetchesLeft(p) \in Nat
          /\ pc[p] \in {"download", "verify", "unpack"} => FetchesLeft(p) > 0
      BY LeftFacts DEF FetchesLeft
    <2>2. pc[p] \notin Preparing => PushesLeft(p) \in Nat
      BY LeftFacts DEF PushesLeft
    <2>3. /\ WindowsLeft(p) \in Nat
          /\ ToWindows \in Nat /\ ToWindows > 0
          /\ ToPushes(p) \in Nat /\ ToPushes(p) > 0
      BY LeftFacts, SMTT(30) DEF WindowsLeft, ToWindows, ToPushes
    <2> QED
      BY <2>1, <2>2, <2>3
  <1>2. pc[p] \in Preparing \cup {"push", "differs", "copy", "lock"} \cup InLock \cup Ended
    BY DEF TypeOK, ControlOK
  <1>3. CASE pc[p] \in Preparing
    BY <1>1, <1>3 DEF StepsLeft, Preparing
  <1>4. CASE pc[p] \in {"push", "differs", "copy"}
    <2>1. PushesLeft(p) \in Nat
      BY <1>1, <1>4 DEF Preparing
    <2>2. pc[p] \in {"differs", "copy"} => PushesLeft(p) > 0
      BY LeftFacts DEF PushesLeft
    <2> QED
      BY <1>1, <1>4, <2>1, <2>2 DEF StepsLeft
  <1>5. CASE pc[p] \in {"lock"} \cup InLock \cup Ended
    BY <1>1, <1>5 DEF StepsLeft, InLock, Ended
  <1> QED
    BY <1>2, <1>3, <1>4, <1>5

\* A pipeline that ends.
LEMMA StopShorter ==
    ASSUME TypeOK, NEW p \in Pipeline, pc[p] \notin Ended, pc'[p] \in Ended
    PROVE  StepsLeft(p)' < StepsLeft(p)
  <1>1. StepsLeft(p)' = 0
    BY DEF StepsLeft, Ended
  <1> QED
    BY <1>1, StepsAreNat

LEMMA PrepareShorter ==
    ASSUME TypeOK, NEW p \in Pipeline, Prepare(p)
    PROVE  StepsLeft(p)' < StepsLeft(p)
  <1>0. /\ Len(Tasks(p))' = Len(Tasks(p)) /\ Len(ToPush(p))' = Len(ToPush(p))
        /\ pc \in [Pipeline -> Preparing \cup {"push", "differs", "copy", "lock"} \cup InLock \cup Ended]
        /\ at \in [Pipeline -> Nat \ {0}]
    BY ArgsStay, LengthsStay DEF Work, TypeOK, ControlOK
  <1>a. ToPushes(p)' = ToPushes(p) /\ ToPushes(p) \in Nat
    BY <1>0, LeftFacts DEF ToPushes, ToWindows
  <1>b. ASSUME pc[p] \in Preparing, at'[p] = at[p]
        PROVE  FetchesLeft(p) \in Nat /\ FetchesLeft(p)' = FetchesLeft(p)
    BY <1>0, <1>b, LeftFacts DEF FetchesLeft
  <1>c. ASSUME pc[p] \in Preparing, at'[p] = at[p] + 1
        PROVE  FetchesLeft(p) \in Nat /\ FetchesLeft(p)' = FetchesLeft(p) - 1
    BY <1>0, <1>c, LeftFacts DEF FetchesLeft
  <1>1. CASE StartDownload(p)
    <2>1. pc[p] = "fetch" /\ pc'[p] = "download" /\ at' = at
      BY <1>0, <1>1 DEF StartDownload, Goto
    <2> QED
      BY <1>a, <1>b, <2>1 DEF StepsLeft, Preparing
  <1>2. CASE EndDownload(p)
    <2>1. pc[p] = "download" /\ pc'[p] = "verify" /\ at' = at
      BY <1>0, <1>2 DEF EndDownload, Goto
    <2> QED
      BY <1>a, <1>b, <2>1 DEF StepsLeft, Preparing
  <1>3. CASE Accept(p)
    <2>1. /\ pc[p] \in {"fetch", "verify"}
          /\ \/ pc'[p] = "unpack" /\ at' = at
             \/ pc'[p] = "fetch" /\ at'[p] = at[p] + 1
      BY <1>0, <1>3 DEF Accept, AtCheck, Goto
    <2>2. CASE pc'[p] = "unpack"
      BY <1>a, <1>b, <2>1, <2>2 DEF StepsLeft, Preparing
    <2>3. CASE pc'[p] = "fetch"
      BY <1>a, <1>c, <2>1, <2>3 DEF StepsLeft, Preparing
    <2> QED
      BY <2>1, <2>2, <2>3
  <1>4. CASE EndUnpack(p)
    <2>1. pc[p] = "unpack" /\ pc'[p] = "fetch" /\ at'[p] = at[p] + 1
      BY <1>0, <1>4 DEF EndUnpack, Goto
    <2> QED
      BY <1>a, <1>c, <2>1 DEF StepsLeft, Preparing
  <1>5. CASE Refuse(p)
    <2>1. pc[p] \in {"fetch", "verify"} /\ pc'[p] = "dead"
      BY <1>0, <1>5 DEF Refuse, AtCheck, Stop, Goto
    <2> QED
      BY <2>1, StopShorter DEF Ended
  <1>6. CASE AllPrepared(p)
    <2>1. pc[p] = "fetch" /\ pc'[p] = "push" /\ at'[p] = 1
      BY <1>0, <1>6 DEF AllPrepared, Goto
    <2>2. 3 * PushesLeft(p)' + ToWindows < ToPushes(p)
      BY <1>0, <2>1, LeftFacts DEF PushesLeft, ToPushes, ToWindows
    <2>3. FetchesLeft(p) \in Nat
      BY <2>1, LeftFacts DEF FetchesLeft, Preparing
    <2>4. StepsLeft(p)' = 3 * PushesLeft(p)' + ToWindows
      BY <2>1 DEF StepsLeft, ToWindows
    <2>5. PushesLeft(p)' \in Int /\ ToWindows \in Int
      BY <1>0, <2>1, LeftFacts DEF PushesLeft, ToWindows
    <2> QED
      BY <1>a, <2>1, <2>2, <2>3, <2>4, <2>5 DEF StepsLeft
  <1> QED
    BY <1>1, <1>2, <1>3, <1>4, <1>5, <1>6 DEF Prepare

LEMMA PushShorter ==
    ASSUME TypeOK, NEW p \in Pipeline, Push(p)
    PROVE  StepsLeft(p)' < StepsLeft(p)
  <1> USE DEF WindowsLeft, ToWindows
  <1>0. /\ Len(ToPush(p))' = Len(ToPush(p))
        /\ pc \in [Pipeline -> Preparing \cup {"push", "differs", "copy", "lock"} \cup InLock \cup Ended]
        /\ at \in [Pipeline -> Nat \ {0}]
    BY ArgsStay, LengthsStay DEF Work, TypeOK, ControlOK
  <1>1. \/ pc[p] \in {"push", "copy"} /\ pc'[p] = "push" /\ at'[p] = at[p] + 1
        \/ pc[p] = "push" /\ pc'[p] = "differs" /\ at' = at
        \/ pc[p] = "differs" /\ pc'[p] = "copy" /\ at' = at
        \/ pc[p] = "push" /\ pc'[p] = "lock" /\ at' = at /\ window' = window
    BY <1>0 DEF Push, SkipPush, Compare, StartPush, EndPush, AllPushed, Goto
  <1>2. CASE pc'[p] = "push"
    <2>0. pc[p] \in {"push", "copy"} /\ at'[p] = at[p] + 1
      BY <1>1, <1>2
    <2>1. PushesLeft(p) \in Int /\ PushesLeft(p)' = PushesLeft(p) - 1
      BY <1>0, <2>0, LeftFacts DEF PushesLeft
    <2> QED
      BY <1>2, <2>0, <2>1, LeftFacts, SMTT(30) DEF StepsLeft
  <1>3. CASE pc'[p] \in {"differs", "copy"}
    <2>1. PushesLeft(p) \in Int /\ PushesLeft(p)' = PushesLeft(p)
      BY <1>0, <1>1, <1>3, LeftFacts DEF PushesLeft
    <2>2. ToWindows \in Int
      BY LeftFacts
    <2>3. \/ pc[p] = "push" /\ pc'[p] = "differs"
          \/ pc[p] = "differs" /\ pc'[p] = "copy"
      BY <1>1, <1>3
    <2> QED
      BY <2>1, <2>2, <2>3 DEF StepsLeft
  <1>4. CASE pc'[p] = "lock"
    <2>1. PushesLeft(p) \in Nat
      BY <1>1, <1>4, LeftFacts DEF Preparing, PushesLeft
    <2> QED
      BY <1>1, <1>4, <2>1, LeftFacts, SMTT(30) DEF StepsLeft
  <1> QED
    BY <1>1, <1>2, <1>3, <1>4

LEMMA WindowShorter ==
    ASSUME TypeOK, NEW p \in Pipeline, Acquire(p) \/ EndSetup(p) \/ EndWindow(p) \/ Raise(p)
    PROVE  StepsLeft(p)' < StepsLeft(p)
  <1>0. /\ pc \in [Pipeline -> Preparing \cup {"push", "differs", "copy", "lock"} \cup InLock \cup Ended]
        /\ window \in [Pipeline -> 1..MaxWindows]
    BY DEF TypeOK, ControlOK
  <1>1. \/ pc[p] \notin Ended /\ pc'[p] \in Ended
        \/ pc[p] = "lock" /\ pc'[p] = "setup" /\ window' = window
        \/ pc[p] = "setup" /\ pc'[p] = "run" /\ window' = window
        \/ pc[p] = "run" /\ pc'[p] = "lock" /\ window'[p] = window[p] + 1
    BY <1>0 DEF Acquire, EndSetup, EndWindow, Raise, Stop, Goto, Ended
  <1>2. ASSUME pc[p] \in {"lock", "setup", "run"}, pc'[p] \in {"lock", "setup", "run"}
        PROVE  StepsLeft(p)' < StepsLeft(p)
    BY <1>1, <1>2, LeftFacts, SMTT(30) DEF StepsLeft, WindowsLeft, Ended
  <1> QED
    BY <1>1, <1>2, StopShorter

\* Other pipelines do not make one's way longer.
LEMMA OthersAsLong ==
    ASSUME TypeOK, NEW p \in Pipeline, NEW q \in Pipeline, q # p,
           Work(p) \/ Raise(p) \/ Restart(p)
    PROVE  StepsLeft(q)' = StepsLeft(q)
  <1>1. pc'[q] = pc[q] /\ at'[q] = at[q] /\ window'[q] = window[q]
    BY OthersStay DEF TypeOK
  <1>2. Len(Tasks(q))' = Len(Tasks(q)) /\ Len(ToPush(q))' = Len(ToPush(q))
    BY ArgsStay, LengthsStay
  <1> QED
    BY <1>1, <1>2 DEF StepsLeft, FetchesLeft, PushesLeft, WindowsLeft, ToWindows, ToPushes

\* Every step a pipeline takes, and every failure, leaves it fewer steps than
\* before, and what the others do to the device and its lock costs it none: no
\* loop over files, models or windows goes on for ever, and only starting
\* benchmark.py again makes the way longer, for any job and any device.
THEOREM StepsTheorem ==
    Spec => [][\E p \in Pipeline :
                  /\ StepsLeft(p) \in Nat
                  /\ StepsLeft(p)' < StepsLeft(p) \/ Restart(p)
                  /\ \A q \in Pipeline \ {p} : StepsLeft(q)' = StepsLeft(q)]_vars
  <1> DEFINE Fewer == \E p \in Pipeline :
                        /\ StepsLeft(p) \in Nat
                        /\ StepsLeft(p)' < StepsLeft(p) \/ Restart(p)
                        /\ \A q \in Pipeline \ {p} : StepsLeft(q)' = StepsLeft(q)
  <1>1. ASSUME TypeOK, Next PROVE Fewer
    <2>1. PICK p \in Pipeline : Work(p) \/ Raise(p) \/ Restart(p)
      BY <1>1 DEF Next
    <2>2. StepsLeft(p) \in Nat
      BY <1>1, StepsAreNat
    <2>3. StepsLeft(p)' < StepsLeft(p) \/ Restart(p)
      BY <1>1, <2>1, PrepareShorter, PushShorter, WindowShorter DEF Work
    <2>4. \A q \in Pipeline \ {p} : StepsLeft(q)' = StepsLeft(q)
      BY <1>1, <2>1, OthersAsLong
    <2> QED
      BY <2>2, <2>3, <2>4
  <1>2. TypeOK /\ [Next]_vars => [Fewer]_vars
    BY <1>1
  <1> QED
    BY <1>2, TypeCorrect, PTL DEF Spec

=============================================================================
