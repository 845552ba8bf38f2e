-------------------------- MODULE ServerListProofs --------------------------
(***************************************************************************)
(* Theorems about the list of servers of one message server, for any       *)
(* servers, any number of descriptors, answers of any length and any       *)
(* number of joins.                                                        *)
(***************************************************************************)
EXTENDS ServerList, SequenceProofs, FiniteSetTheorems

-----------------------------------------------------------------------------
(* The pass of remove_bad_servers. *)

PassState == [kept : Seq(Entry), dropped : BOOLEAN]
Start == [kept |-> <<>>, dropped |-> FALSE]

LEMMA OverType ==
  ASSUME NEW pass \in PassState, NEW x \in Entry
  PROVE  Over(pass, x) \in PassState
  BY DEF Over, PassState

\* Pass is the function that its definition describes.
LEMMA PassSteps ==
  ASSUME NEW list \in Seq(Entry)
  PROVE  /\ Pass(list)[0] = Start
         /\ \A n \in 1..Len(list) : Pass(list)[n] = Over(Pass(list)[n - 1], list[n])
<1> DEFINE N == Len(list)
           G == [a \in PassState \X (1..N) |-> Over(a[1], list[a[2]])]
           Eq(f) == f = [n \in 0..N |-> IF n = 0 THEN Start ELSE Over(f[n - 1], list[n])]
<1>1. N \in Nat /\ \A n \in 1..N : list[n] \in Entry
  BY LenProperties, ElementOfSeq
<1>2. Start \in PassState
  BY DEF Start, PassState
<1>3. G \in [PassState \X (1..N) -> PassState]
  BY <1>1, OverType
<1>4. PICK g \in [0..N -> PassState] :
        g[0] = Start /\ \A n \in 1..N : g[n] = G[<<g[n - 1], n>>]
  <2> HIDE DEF N, G, Eq
  <2>1. \E g \in [0..N -> PassState] : Recursive(g, N, Start, G)
    BY <1>1, <1>2, <1>3, Recursion
  <2> QED BY <2>1 DEF Recursive
<1>5. Eq(g)
  <2>1. \A n \in 1..N : g[n] = Over(g[n - 1], list[n])
    <3>1. ASSUME NEW n \in 1..N PROVE g[n] = Over(g[n - 1], list[n])
      <4>1. n - 1 \in 0..N
        BY <1>1
      <4>2. <<g[n - 1], n>> \in PassState \X (1..N)
        BY <4>1, <1>4
      <4> QED BY <4>2, <1>4
    <3> QED BY <3>1
  <2>2. g = [n \in 0..N |-> g[n]]
    BY <1>4
  <2>3. \A n \in 0..N : g[n] = IF n = 0 THEN Start ELSE Over(g[n - 1], list[n])
    <3>1. \A n \in 0..N : n = 0 \/ n \in 1..N
      BY <1>1
    <3> HIDE DEF N, G
    <3> QED BY <1>4, <2>1, <3>1
  <2> HIDE DEF N, G
  <2> QED BY <2>2, <2>3
<1>6. Pass(list) = CHOOSE f : Eq(f)
  BY DEF Pass, Start
<1>7. Eq(Pass(list))
  <2> HIDE DEF Eq
  <2> QED BY <1>5, <1>6
<1> HIDE DEF G
<1>8. Pass(list)[0] = Start
  BY <1>1, <1>7
<1>9. ASSUME NEW n \in 1..N
      PROVE  Pass(list)[n] = Over(Pass(list)[n - 1], list[n])
  <2>1. n \in 0..N /\ n # 0
    BY <1>1
  <2> HIDE DEF N
  <2> QED BY <1>7, <2>1
<1> QED BY <1>8, <1>9

LEMMA PassType ==
  ASSUME NEW list \in Seq(Entry), NEW n \in 0..Len(list)
  PROVE  Pass(list)[n] \in PassState
<1> DEFINE N == Len(list)
           H == {k \in Nat : k <= N => Pass(list)[k] \in PassState}
<1>1. N \in Nat /\ \A k \in 1..N : list[k] \in Entry
  BY LenProperties, ElementOfSeq
<1>2. 0 \in H
  <2>1. <<>> \in Seq(Entry) /\ Pass(list)[0] = Start
    BY PassSteps
  <2>2. Start \in PassState
    BY DEF PassState, Start
  <2> QED BY <2>1, <2>2
<1>3. ASSUME NEW k \in Nat, k \in H PROVE k + 1 \in H
  <2> SUFFICES ASSUME k + 1 <= N PROVE Pass(list)[k + 1] \in PassState
    OBVIOUS
  <2>1. k + 1 \in 1..N /\ (k + 1) - 1 = k /\ Pass(list)[k] \in PassState
    BY <1>1, <1>3
  <2>2. Pass(list)[k + 1] = Over(Pass(list)[k], list[k + 1])
    <3> HIDE DEF H
    <3>1. Pass(list)[k + 1] = Over(Pass(list)[(k + 1) - 1], list[k + 1])
      BY <2>1, PassSteps
    <3> QED BY <2>1, <3>1
  <2> QED BY <1>1, <2>1, <2>2, OverType
<1>4. n \in H
  <2> HIDE DEF H
  <2> QED BY <1>1, <1>2, <1>3, NumberInduction
<1> QED BY <1>1, <1>4

-----------------------------------------------------------------------------
(* What a pass leaves: a list in its old order, of entries of the list. *)

\* kept is what is left of the first n entries of list, in their order.
LeftOf(kept, list, n) ==
  \E f \in [1..Len(kept) -> 1..n] :
    /\ \A i, j \in 1..Len(kept) : i < j => f[i] < f[j]
    /\ \A i \in 1..Len(kept) : kept[i] = list[f[i]]

\* One more entry is looked at, and kept or not.
LEMMA LeftOfSkip ==
  ASSUME NEW list, NEW kept \in Seq(Entry), NEW n \in Nat, LeftOf(kept, list, n)
  PROVE  LeftOf(kept, list, n + 1)
<1>1. PICK f \in [1..Len(kept) -> 1..n] :
        /\ \A i, j \in 1..Len(kept) : i < j => f[i] < f[j]
        /\ \A i \in 1..Len(kept) : kept[i] = list[f[i]]
  BY DEF LeftOf
<1>2. f \in [1..Len(kept) -> 1..(n + 1)]
  BY LenProperties
<1> QED BY <1>1, <1>2 DEF LeftOf

LEMMA LeftOfAppend ==
  ASSUME NEW list, NEW kept \in Seq(Entry), NEW n \in Nat, LeftOf(kept, list, n),
         list[n + 1] \in Entry
  PROVE  LeftOf(Append(kept, list[n + 1]), list, n + 1)
<1> DEFINE l == Len(kept)
           more == Append(kept, list[n + 1])
<1>1. PICK f \in [1..l -> 1..n] :
        /\ \A i, j \in 1..l : i < j => f[i] < f[j]
        /\ \A i \in 1..l : kept[i] = list[f[i]]
  BY DEF LeftOf
<1> DEFINE g == [i \in 1..(l + 1) |-> IF i = l + 1 THEN n + 1 ELSE f[i]]
<1>2. /\ l \in Nat /\ Len(more) = l + 1
      /\ more[l + 1] = list[n + 1] /\ \A i \in 1..l : more[i] = kept[i]
  BY LenProperties, AppendProperties
<1> HIDE DEF l, more
<1>3. \A i \in 1..(l + 1) : i = l + 1 \/ (i \in 1..l /\ i # l + 1)
  BY <1>2
<1>4. \A i \in 1..l : g[i] = f[i] /\ f[i] \in 1..n /\ i \in 1..(l + 1)
  BY <1>1, <1>2
<1>5. g[l + 1] = n + 1
  BY <1>2
<1>6. g \in [1..(l + 1) -> 1..(n + 1)]
  <2>1. \A i \in 1..(l + 1) : g[i] \in 1..(n + 1)
    BY <1>3, <1>4, <1>5
  <2> QED BY <2>1
<1> HIDE DEF g
<1>7. ASSUME NEW i \in 1..(l + 1), NEW j \in 1..(l + 1), i < j
      PROVE  g[i] < g[j]
  <2>1. i \in 1..l
    BY <1>2, <1>7
  <2>2. CASE j = l + 1
    BY <1>4, <1>5, <2>1, <2>2
  <2>3. CASE j # l + 1
    BY <1>1, <1>3, <1>4, <1>7, <2>1, <2>3
  <2> QED BY <2>2, <2>3
<1>8. \A i \in 1..(l + 1) : more[i] = list[g[i]]
  BY <1>1, <1>2, <1>3, <1>4, <1>5
<1> QED BY <1>2, <1>6, <1>7, <1>8 DEF LeftOf, more

LEMMA PassKept ==
  ASSUME NEW list \in Seq(Entry), NEW n \in 0..Len(list)
  PROVE  LeftOf(Pass(list)[n].kept, list, n)
<1> DEFINE N == Len(list)
           K(k) == Pass(list)[k].kept
           H == {k \in Nat : k <= N => LeftOf(K(k), list, k)}
<1>1. N \in Nat /\ \A k \in 1..N : list[k] \in Entry
  BY LenProperties, ElementOfSeq
<1>2. 0 \in H
  <2>1. K(0) = <<>>
    BY PassSteps DEF Start
  <2>2. LeftOf(<<>>, list, 0)
    <3> DEFINE e == [i \in 1..0 |-> 1]
    <3>1. Len(<<>>) = 0 /\ \A i \in 1..0 : FALSE
      OBVIOUS
    <3>2. e \in [1..0 -> 1..0]
      OBVIOUS
    <3> HIDE DEF e
    <3> QED BY <3>1, <3>2 DEF LeftOf
  <2> HIDE DEF K
  <2> QED BY <2>1, <2>2
<1>3. ASSUME NEW k \in Nat, k \in H PROVE k + 1 \in H
  <2> SUFFICES ASSUME k + 1 <= N PROVE LeftOf(K(k + 1), list, k + 1)
    OBVIOUS
  <2>1. /\ k + 1 \in 1..N /\ (k + 1) - 1 = k /\ k \in 0..N
        /\ LeftOf(K(k), list, k)
    BY <1>1, <1>3
  <2>2. Pass(list)[k + 1] = Over(Pass(list)[k], list[k + 1])
    <3> HIDE DEF H, K
    <3>1. Pass(list)[k + 1] = Over(Pass(list)[(k + 1) - 1], list[k + 1])
      BY <2>1, PassSteps
    <3> QED BY <2>1, <3>1
  <2>3. K(k) \in Seq(Entry)
    <3>1. Pass(list)[k] \in PassState
      BY <2>1, PassType
    <3> QED BY <3>1 DEF PassState
  <2>4. K(k + 1) = K(k) \/ K(k + 1) = Append(K(k), list[k + 1])
    BY <2>2 DEF Over
  <2>5. list[k + 1] \in Entry
    BY <1>1, <2>1
  <2> HIDE DEF H, K
  <2> QED BY <2>1, <2>3, <2>4, <2>5, LeftOfSkip, LeftOfAppend
<1>4. n \in H
  <2> HIDE DEF H
  <2> QED BY <1>1, <1>2, <1>3, NumberInduction
<1> QED BY <1>1, <1>4

-----------------------------------------------------------------------------
(* The live entries. *)

Lives(so_far, x) == IF Bad(x) THEN so_far ELSE Append(so_far, x)

LEMMA LiveSteps ==
  ASSUME NEW list \in Seq(Entry)
  PROVE  /\ LiveTo(list)[0] = <<>>
         /\ \A n \in 1..Len(list) : LiveTo(list)[n] = Lives(LiveTo(list)[n - 1], list[n])
<1> DEFINE N == Len(list)
           V == Seq(Entry)
           G == [a \in V \X (1..N) |-> Lives(a[1], list[a[2]])]
           Eq(f) == f = [n \in 0..N |->
                           IF n = 0 THEN <<>>
                           ELSE IF Bad(list[n]) THEN f[n - 1] ELSE Append(f[n - 1], list[n])]
<1>1. N \in Nat /\ \A n \in 1..N : list[n] \in Entry
  BY LenProperties, ElementOfSeq
<1>2. <<>> \in V
  OBVIOUS
<1>3. G \in [V \X (1..N) -> V]
  <2>1. ASSUME NEW s \in V, NEW n \in 1..N PROVE Lives(s, list[n]) \in V
    BY <1>1, AppendProperties DEF Lives
  <2> HIDE DEF V, N
  <2> QED BY <2>1
<1>4. PICK g \in [0..N -> V] :
        g[0] = <<>> /\ \A n \in 1..N : g[n] = G[<<g[n - 1], n>>]
  <2> HIDE DEF N, G, Eq, V
  <2>1. \E g \in [0..N -> V] : Recursive(g, N, <<>>, G)
    BY <1>1, <1>2, <1>3, Recursion
  <2> QED BY <2>1 DEF Recursive
<1>5. Eq(g)
  <2>1. \A n \in 1..N : g[n] = Lives(g[n - 1], list[n])
    <3>1. ASSUME NEW n \in 1..N PROVE g[n] = Lives(g[n - 1], list[n])
      <4>1. n - 1 \in 0..N
        BY <1>1
      <4>2. <<g[n - 1], n>> \in V \X (1..N)
        BY <4>1, <1>4
      <4> QED BY <4>2, <1>4
    <3> QED BY <3>1
  <2>2. g = [n \in 0..N |-> g[n]]
    BY <1>4
  <2>3. \A n \in 0..N : g[n] = IF n = 0 THEN <<>>
                               ELSE IF Bad(list[n]) THEN g[n - 1]
                               ELSE Append(g[n - 1], list[n])
    <3>1. \A n \in 0..N : n = 0 \/ n \in 1..N
      BY <1>1
    <3> HIDE DEF N, G, V
    <3> QED BY <1>4, <2>1, <3>1 DEF Lives
  <2> HIDE DEF N, G, V
  <2> QED BY <2>2, <2>3
<1>6. LiveTo(list) = CHOOSE f : Eq(f)
  BY DEF LiveTo
<1>7. Eq(LiveTo(list))
  <2> HIDE DEF Eq
  <2> QED BY <1>5, <1>6
<1> HIDE DEF G, V
<1>8. LiveTo(list)[0] = <<>>
  BY <1>1, <1>7
<1>9. ASSUME NEW n \in 1..N
      PROVE  LiveTo(list)[n] = Lives(LiveTo(list)[n - 1], list[n])
  <2>1. n \in 0..N /\ n # 0
    BY <1>1
  <2> HIDE DEF N
  <2> QED BY <1>7, <2>1 DEF Lives
<1> QED BY <1>8, <1>9

\* The first entries of a list decide what is live among them.
LEMMA LiveAppend ==
  ASSUME NEW list \in Seq(Entry), NEW x \in Entry
  PROVE  Live(Append(list, x)) = Lives(Live(list), x)
<1> DEFINE N == Len(list)
           more == Append(list, x)
           H == {k \in Nat : k <= N => LiveTo(more)[k] = LiveTo(list)[k]}
<1>1. /\ N \in Nat /\ more \in Seq(Entry) /\ Len(more) = N + 1
      /\ more[N + 1] = x /\ \A k \in 1..N : more[k] = list[k]
  BY LenProperties, AppendProperties
<1>2. /\ LiveTo(list)[0] = <<>> /\ LiveTo(more)[0] = <<>>
      /\ \A k \in 1..N : LiveTo(list)[k] = Lives(LiveTo(list)[k - 1], list[k])
      /\ \A k \in 1..(N + 1) : LiveTo(more)[k] = Lives(LiveTo(more)[k - 1], more[k])
  <2> HIDE DEF more
  <2> QED BY <1>1, LiveSteps
<1> HIDE DEF N, more
<1>3. 0 \in H
  BY <1>2
<1>4. ASSUME NEW k \in Nat, k \in H PROVE k + 1 \in H
  <2> SUFFICES ASSUME k + 1 <= N PROVE LiveTo(more)[k + 1] = LiveTo(list)[k + 1]
    OBVIOUS
  <2>1. /\ k + 1 \in 1..N /\ k + 1 \in 1..(N + 1) /\ (k + 1) - 1 = k
        /\ LiveTo(more)[k] = LiveTo(list)[k]
    BY <1>1, <1>4
  <2>2. LiveTo(more)[k + 1] = Lives(LiveTo(more)[(k + 1) - 1], more[k + 1])
    BY <1>2, <2>1
  <2>3. LiveTo(list)[k + 1] = Lives(LiveTo(list)[(k + 1) - 1], list[k + 1])
    BY <1>2, <2>1
  <2> QED BY <1>1, <2>1, <2>2, <2>3
<1>5. LiveTo(more)[N] = LiveTo(list)[N]
  <2>1. N \in H
    <3> HIDE DEF H
    <3> QED BY <1>1, <1>3, <1>4, NumberInduction
  <2> QED BY <1>1, <2>1
<1>6. N + 1 \in 1..(N + 1) /\ (N + 1) - 1 = N
  BY <1>1
<1>7. LiveTo(more)[N + 1] = Lives(LiveTo(more)[(N + 1) - 1], more[N + 1])
  BY <1>2, <1>6
<1> QED BY <1>1, <1>5, <1>6, <1>7 DEF Live, N, more

\* What an entry adds to the pass, as the lemmas below use it.
LEMMA PassStep ==
  ASSUME NEW list \in Seq(Entry), NEW k \in Nat, k + 1 <= Len(list)
  PROVE  /\ Pass(list)[k] \in PassState
         /\ Pass(list)[k + 1] = Over(Pass(list)[k], list[k + 1])
         /\ list[k + 1] \in Entry
         /\ LiveTo(list)[k + 1] = Lives(LiveTo(list)[k], list[k + 1])
<1>1. k + 1 \in 1..Len(list) /\ (k + 1) - 1 = k /\ k \in 0..Len(list)
  BY LenProperties
<1>2. Pass(list)[k + 1] = Over(Pass(list)[(k + 1) - 1], list[k + 1])
  BY <1>1, PassSteps
<1>3. LiveTo(list)[k + 1] = Lives(LiveTo(list)[(k + 1) - 1], list[k + 1])
  BY <1>1, LiveSteps
<1> QED BY <1>1, <1>2, <1>3, PassType, ElementOfSeq

LEMMA PassLive ==
  ASSUME NEW list \in Seq(Entry), NEW n \in 0..Len(list)
  PROVE  Live(Pass(list)[n].kept) = LiveTo(list)[n]
<1> DEFINE N == Len(list)
           K(k) == Pass(list)[k].kept
           H == {k \in Nat : k <= N => Live(K(k)) = LiveTo(list)[k]}
<1>1. N \in Nat
  BY LenProperties
<1>2. 0 \in H
  <2>1. K(0) = <<>>
    BY PassSteps DEF Start
  <2>2. Live(<<>>) = <<>> /\ LiveTo(list)[0] = <<>>
    <3>1. <<>> \in Seq(Entry) /\ Len(<<>>) = 0
      OBVIOUS
    <3>2. LiveTo(<<>>)[0] = <<>> /\ LiveTo(list)[0] = <<>>
      BY <3>1, LiveSteps
    <3> QED BY <3>1, <3>2 DEF Live
  <2> HIDE DEF K
  <2> QED BY <2>1, <2>2
<1>3. ASSUME NEW k \in Nat, k \in H PROVE k + 1 \in H
  <2> SUFFICES ASSUME k + 1 <= N PROVE Live(K(k + 1)) = LiveTo(list)[k + 1]
    OBVIOUS
  <2> DEFINE x == list[k + 1]
  <2>1. /\ Pass(list)[k] \in PassState
        /\ Pass(list)[k + 1] = Over(Pass(list)[k], x)
        /\ x \in Entry
        /\ LiveTo(list)[k + 1] = Lives(LiveTo(list)[k], x)
    BY PassStep
  <2>2. Live(K(k)) = LiveTo(list)[k]
    BY <1>1, <1>3
  <2>3. K(k) \in Seq(Entry)
    BY <2>1 DEF PassState
  <2>4. \/ Bad(x) /\ K(k + 1) = K(k)
        \/ K(k + 1) = Append(K(k), x)
    BY <2>1 DEF Over
  <2> HIDE DEF H, K, x
  <2>5. Live(K(k + 1)) = Lives(Live(K(k)), x)
    <3>1. CASE Bad(x) /\ K(k + 1) = K(k)
      BY <3>1 DEF Lives
    <3>2. CASE K(k + 1) = Append(K(k), x)
      BY <2>1, <2>3, <3>2, LiveAppend
    <3> QED BY <2>4, <3>1, <3>2
  <2> QED BY <2>1, <2>2, <2>5
<1>4. n \in H
  <2> HIDE DEF H
  <2> QED BY <1>1, <1>2, <1>3, NumberInduction
<1> QED BY <1>1, <1>4

-----------------------------------------------------------------------------
(* The entries to remove. *)

\* The positions among the first n at which list has one.
DeadAt(list, n) == {i \in 1..n : Bad(list[i])}

LEMMA DeadFinite ==
  ASSUME NEW list, NEW n \in Nat
  PROVE  IsFiniteSet(DeadAt(list, n)) /\ Cardinality(DeadAt(list, n)) \in Nat
<1>1. IsFiniteSet(1..n)
  BY FS_Interval
<1>2. IsFiniteSet(DeadAt(list, n))
  BY <1>1, FS_Subset DEF DeadAt
<1> QED BY <1>2, FS_CardinalityType

LEMMA DeadMore ==
  ASSUME NEW list, NEW n \in Nat
  PROVE  Cardinality(DeadAt(list, n + 1)) =
           Cardinality(DeadAt(list, n)) + (IF Bad(list[n + 1]) THEN 1 ELSE 0)
<1>1. CASE Bad(list[n + 1])
  <2>1. DeadAt(list, n + 1) = DeadAt(list, n) \cup {n + 1} /\ n + 1 \notin DeadAt(list, n)
    BY <1>1 DEF DeadAt
  <2>2. Cardinality(DeadAt(list, n) \cup {n + 1}) = Cardinality(DeadAt(list, n)) + 1
    BY <2>1, DeadFinite, FS_AddElement
  <2> QED BY <1>1, <2>1, <2>2
<1>2. CASE ~Bad(list[n + 1])
  <2>1. DeadAt(list, n + 1) = DeadAt(list, n)
    BY <1>2 DEF DeadAt
  <2> QED BY <1>2, <2>1, DeadFinite
<1> QED BY <1>1, <1>2

LEMMA DeadIsDeadAt ==
  ASSUME NEW list \in Seq(Entry)
  PROVE  Dead(list) = Cardinality(DeadAt(list, Len(list)))
  BY LenProperties DEF Dead, DeadAt

LEMMA DeadAppend ==
  ASSUME NEW list \in Seq(Entry), NEW x \in Entry
  PROVE  Dead(Append(list, x)) = Dead(list) + (IF Bad(x) THEN 1 ELSE 0)
<1> DEFINE N == Len(list)
           more == Append(list, x)
<1>1. /\ N \in Nat /\ more \in Seq(Entry) /\ Len(more) = N + 1
      /\ more[N + 1] = x /\ \A k \in 1..N : more[k] = list[k]
  BY LenProperties, AppendProperties
<1>2. Dead(list) = Cardinality(DeadAt(list, N))
  BY DeadIsDeadAt
<1> HIDE DEF N, more
<1>3. DeadAt(more, N) = DeadAt(list, N)
  BY <1>1 DEF DeadAt
<1>4. Dead(more) = Cardinality(DeadAt(more, N + 1))
  BY <1>1, DeadIsDeadAt
<1>5. Cardinality(DeadAt(more, N + 1)) =
        Cardinality(DeadAt(more, N)) + (IF Bad(more[N + 1]) THEN 1 ELSE 0)
  BY <1>1, DeadMore
<1> QED BY <1>1, <1>2, <1>3, <1>4, <1>5 DEF more

\* Of the entries to remove a pass keeps at most every other one.
LEMMA PassDead ==
  ASSUME NEW list \in Seq(Entry), NEW n \in 0..Len(list)
  PROVE  /\ Dead(Pass(list)[n].kept) \in Nat
         /\ 2 * Dead(Pass(list)[n].kept) + (IF Pass(list)[n].dropped THEN 1 ELSE 0)
              <= Cardinality(DeadAt(list, n))
<1> DEFINE N == Len(list)
           K(k) == Pass(list)[k].kept
           D(k) == IF Pass(list)[k].dropped THEN 1 ELSE 0
           C(k) == Cardinality(DeadAt(list, k))
           H == {k \in Nat : k <= N => Dead(K(k)) \in Nat /\ 2 * Dead(K(k)) + D(k) <= C(k)}
<1>1. N \in Nat
  BY LenProperties
<1>2. 0 \in H
  <2>1. K(0) = <<>> /\ D(0) = 0
    BY PassSteps DEF Start
  <2>2. Dead(<<>>) = 0
    <3>1. {i \in DOMAIN <<>> : Bad(<<>>[i])} = {}
      OBVIOUS
    <3> QED BY <3>1, FS_EmptySet DEF Dead
  <2>3. C(0) = 0
    <3>1. DeadAt(list, 0) = {}
      BY DEF DeadAt
    <3> QED BY <3>1, FS_EmptySet
  <2> HIDE DEF K, D, C
  <2> QED BY <2>1, <2>2, <2>3
<1>3. ASSUME NEW k \in Nat, k \in H PROVE k + 1 \in H
  <2> SUFFICES ASSUME k + 1 <= N
               PROVE  /\ Dead(K(k + 1)) \in Nat
                      /\ 2 * Dead(K(k + 1)) + D(k + 1) <= C(k + 1)
    OBVIOUS
  <2> DEFINE x == list[k + 1]
  <2>1. /\ Pass(list)[k] \in PassState
        /\ Pass(list)[k + 1] = Over(Pass(list)[k], x)
        /\ x \in Entry
    BY PassStep
  <2>2. Dead(K(k)) \in Nat /\ 2 * Dead(K(k)) + D(k) <= C(k)
    BY <1>1, <1>3
  <2>3. K(k) \in Seq(Entry) /\ D(k) \in {0, 1}
    BY <2>1 DEF PassState
  <2>4. C(k) \in Nat /\ C(k + 1) = C(k) + (IF Bad(x) THEN 1 ELSE 0)
    BY DeadFinite, DeadMore
  <2>5. \/ Bad(x) /\ D(k) = 0 /\ K(k + 1) = K(k) /\ D(k + 1) = 1
        \/ (~Bad(x) \/ D(k) = 1) /\ K(k + 1) = Append(K(k), x) /\ D(k + 1) = 0
    BY <2>1 DEF Over, PassState
  <2> HIDE DEF H, K, D, C, x
  <2>6. CASE Bad(x) /\ D(k) = 0 /\ K(k + 1) = K(k) /\ D(k + 1) = 1
    <3>1. C(k + 1) = C(k) + 1
      BY <2>4, <2>6
    <3> QED BY <2>2, <2>4, <2>6, <3>1
  <2>7. CASE (~Bad(x) \/ D(k) = 1) /\ K(k + 1) = Append(K(k), x) /\ D(k + 1) = 0
    <3>1. Dead(K(k + 1)) = Dead(K(k)) + (IF Bad(x) THEN 1 ELSE 0)
      BY <2>1, <2>3, <2>7, DeadAppend
    <3>2. CASE Bad(x)
      <4>1. Dead(K(k + 1)) = Dead(K(k)) + 1 /\ C(k + 1) = C(k) + 1 /\ D(k) = 1
        BY <2>4, <2>7, <3>1, <3>2
      <4> QED BY <2>2, <2>4, <2>7, <4>1
    <3>3. CASE ~Bad(x)
      <4>1. Dead(K(k + 1)) = Dead(K(k)) /\ C(k + 1) = C(k)
        BY <2>2, <2>4, <3>1, <3>3
      <4> QED BY <2>2, <2>3, <2>4, <2>7, <4>1
    <3> QED BY <3>2, <3>3
  <2> QED BY <2>5, <2>6, <2>7
<1>4. n \in H
  <2> HIDE DEF H
  <2> QED BY <1>1, <1>2, <1>3, NumberInduction
<1> QED BY <1>1, <1>4

\* What remove_bad_servers returns.
THEOREM RemoveBadServersKeeps ==
  ASSUME NEW list \in Seq(Entry)
  PROVE  /\ RemoveBadServers(list) \in Seq(Entry)
         /\ LeftOf(RemoveBadServers(list), list, Len(list))
         /\ Live(RemoveBadServers(list)) = Live(list)
         /\ 2 * Dead(RemoveBadServers(list)) <= Dead(list)
<1> DEFINE N == Len(list)
<1>1. N \in Nat /\ N \in 0..N
  BY LenProperties
<1>2. RemoveBadServers(list) \in Seq(Entry)
  BY <1>1, PassType DEF RemoveBadServers, PassState
<1>3. LeftOf(RemoveBadServers(list), list, N)
  BY <1>1, PassKept DEF RemoveBadServers
<1>4. Live(RemoveBadServers(list)) = Live(list)
  BY <1>1, PassLive DEF RemoveBadServers, Live
<1>5. 2 * Dead(RemoveBadServers(list)) <= Dead(list)
  <2> DEFINE kept == RemoveBadServers(list)
             d == IF Pass(list)[N].dropped THEN 1 ELSE 0
  <2>1. Dead(kept) \in Nat /\ 2 * Dead(kept) + d <= Cardinality(DeadAt(list, N))
    BY <1>1, PassDead DEF RemoveBadServers
  <2>2. Cardinality(DeadAt(list, N)) \in Nat /\ d \in {0, 1}
    BY <1>1, DeadFinite
  <2>3. Dead(list) = Cardinality(DeadAt(list, N))
    BY DeadIsDeadAt
  <2> HIDE DEF kept, d, N
  <2>4. 2 * Dead(kept) <= Dead(list)
    BY <2>1, <2>2, <2>3
  <2> QED BY <2>4 DEF kept
<1> QED BY <1>2, <1>3, <1>4, <1>5

-----------------------------------------------------------------------------
(* The stages of an iteration, and the number socket and accept return. *)

LEMMA AfterFacts ==
  /\ Order[1] = "listen"
  /\ After("listen") = "stdin" /\ After("stdin") = "udp" /\ After("udp") = "treat"
<1>1. DOMAIN Order = 1..4
  BY DEF Order
<1>2. /\ Order[1] = "listen" /\ Order[2] = "stdin"
      /\ Order[3] = "udp" /\ Order[4] = "treat"
  BY DEF Order
<1>3. \A n \in 1..4 : n = 1 \/ n = 2 \/ n = 3 \/ n = 4
  OBVIOUS
<1>4. (CHOOSE n \in DOMAIN Order : Order[n] = "listen") = 1
  BY <1>1, <1>2, <1>3
<1>5. (CHOOSE n \in DOMAIN Order : Order[n] = "stdin") = 2
  BY <1>1, <1>2, <1>3
<1>6. (CHOOSE n \in DOMAIN Order : Order[n] = "udp") = 3
  BY <1>1, <1>2, <1>3
<1>7. /\ After("listen") = Order[1 + 1]
      /\ After("stdin") = Order[1 + 2]
      /\ After("udp") = Order[1 + 3]
  BY <1>4, <1>5, <1>6, Zenon DEF After
<1> QED BY <1>2, <1>7

LEMMA LowestIsFree ==
  ASSUME Free # {}
  PROVE  Lowest \in Fd /\ Lowest \notin inUse
<1>1. Free \subseteq Nat
  BY SizeAssumption DEF Free, Fd
<1>2. \E f \in Free : \A g \in Free : f <= g
  BY <1>1, LeastNumber
<1>3. Lowest \in Free
  BY <1>2 DEF Lowest
<1> QED BY <1>3 DEF Free

LEMMA FdValues == Closed \notin Fd /\ Unopened \notin Fd
  BY SizeAssumption DEF Closed, Unopened, Fd

-----------------------------------------------------------------------------
(* Lists whose entries hold descriptors of their own. *)

Held(list, used) ==
  \A i \in 1..Len(list) : list[i].fd \in Fd => list[i].fd \in used
Unshared(list) ==
  \A i, j \in 1..Len(list) : list[i].fd \in Fd /\ list[i].fd = list[j].fd => i = j
Owned(list, used) == Held(list, used) /\ Unshared(list)

LEMMA OwnedMeans ==
  ASSUME nodes \in Seq(Entry)
  PROVE  DescriptorsOwned <=> Owned(nodes, inUse)
<1>1. DOMAIN nodes = 1..Len(nodes)
  BY LenProperties
<1>2. Fds(nodes) \subseteq inUse <=> Held(nodes, inUse)
  BY <1>1 DEF Fds, Held
<1> QED BY <1>1, <1>2 DEF DescriptorsOwned, Owned, Unshared

\* A pass leaves them so, since it keeps each entry once.
LEMMA OwnedLeft ==
  ASSUME NEW list \in Seq(Entry), NEW kept \in Seq(Entry), NEW used,
         LeftOf(kept, list, Len(list)), Owned(list, used)
  PROVE  Owned(kept, used)
<1>1. PICK f \in [1..Len(kept) -> 1..Len(list)] :
        /\ \A i, j \in 1..Len(kept) : i < j => f[i] < f[j]
        /\ \A i \in 1..Len(kept) : kept[i] = list[f[i]]
  BY DEF LeftOf
<1>2. Held(kept, used)
  BY <1>1 DEF Owned, Held
<1>3. ASSUME NEW i \in 1..Len(kept), NEW j \in 1..Len(kept),
             kept[i].fd \in Fd, kept[i].fd = kept[j].fd
      PROVE  i = j
  <2>1. f[i] = f[j]
    BY <1>1, <1>3 DEF Owned, Unshared
  <2>2. f[i] \in Int /\ f[j] \in Int /\ i \in Int /\ j \in Int
    BY <1>1, LenProperties
  <2>3. ~(i < j) /\ ~(j < i)
    BY <1>1, <2>1, <2>2
  <2> QED BY <2>2, <2>3
<1> QED BY <1>2, <1>3 DEF Owned, Unshared

\* Entries that are not open may be put before them.
LEMMA OwnedPushed ==
  ASSUME NEW list \in Seq(Entry), NEW front \in Seq(Entry), NEW used, Owned(list, used),
         \A i \in 1..Len(front) : front[i].fd \notin Fd
  PROVE  Owned(front \o list, used)
<1> DEFINE m == Len(front)
           n == Len(list)
           all == front \o list
<1>1. m \in Nat /\ n \in Nat
  BY LenProperties
<1>2. Len(all) = m + n
  BY ConcatProperties
<1>3. \A i \in 1..(m + n) : all[i] = IF i <= m THEN front[i] ELSE list[i - m]
  BY ConcatProperties
<1> HIDE DEF m, n, all
<1>4. ASSUME NEW i \in 1..(m + n), all[i].fd \in Fd
      PROVE  i > m /\ i - m \in 1..n /\ all[i] = list[i - m]
  <2>1. CASE i <= m
    <3>1. i \in 1..m /\ all[i] = front[i]
      BY <1>1, <1>3, <2>1
    <3> QED BY <1>4, <3>1 DEF m
  <2>2. CASE i > m
    BY <1>1, <1>3, <2>2
  <2> QED BY <1>1, <2>1, <2>2
<1>5. Held(all, used)
  BY <1>2, <1>4 DEF Owned, Held, n
<1>6. ASSUME NEW i \in 1..(m + n), NEW j \in 1..(m + n),
             all[i].fd \in Fd, all[i].fd = all[j].fd
      PROVE  i = j
  <2>1. /\ i - m \in 1..n /\ all[i] = list[i - m]
        /\ j - m \in 1..n /\ all[j] = list[j - m]
    BY <1>4, <1>6
  <2>2. i - m = j - m
    BY <1>6, <2>1 DEF Owned, Unshared, n
  <2> QED BY <1>1, <2>2
<1> QED BY <1>2, <1>5, <1>6 DEF Owned, Unshared, all

\* So may one that holds a descriptor that none of them has.
LEMMA OwnedAccepted ==
  ASSUME NEW list \in Seq(Entry), NEW used, Owned(list, used),
         NEW f \in Fd, f \notin used
  PROVE  Owned(<<[server |-> Inbound, fd |-> f]>> \o list, used \cup {f})
<1> DEFINE x == [server |-> Inbound, fd |-> f]
           n == Len(list)
           all == <<x>> \o list
<1>1. x \in Entry /\ x.fd = f
  BY DEF Entry
<1> HIDE DEF x
<1>2. <<x>> \in Seq(Entry) /\ Len(<<x>>) = 1 /\ <<x>>[1] = x /\ n \in Nat
  BY <1>1, LenProperties
<1>3. Len(all) = n + 1 /\ \A i \in 1..(n + 1) : all[i] = IF i = 1 THEN x ELSE list[i - 1]
  <2>1. Len(all) = 1 + n /\ \A i \in 1..(1 + n) : all[i] = IF i <= 1 THEN <<x>>[i] ELSE list[i - 1]
    BY <1>2, ConcatProperties
  <2> HIDE DEF n, all
  <2> QED BY <1>2, <2>1
<1> HIDE DEF all
<1>4. ASSUME NEW i \in 1..(n + 1), i # 1
      PROVE  all[i] = list[i - 1] /\ i - 1 \in 1..n
  BY <1>2, <1>3, <1>4
<1>5. Held(all, used \cup {f})
  <2> SUFFICES ASSUME NEW i \in 1..(n + 1), all[i].fd \in Fd
               PROVE  all[i].fd \in used \cup {f}
    BY <1>3 DEF Held
  <2>1. CASE i = 1
    BY <1>1, <1>3, <2>1
  <2>2. CASE i # 1
    BY <1>4, <2>2 DEF Owned, Held
  <2> QED BY <2>1, <2>2
<1>6. ASSUME NEW i \in 1..(n + 1), NEW j \in 1..(n + 1),
             all[i].fd \in Fd, all[i].fd = all[j].fd
      PROVE  i = j
  <2>1. ASSUME NEW k \in 1..n, list[k].fd \in Fd PROVE list[k].fd # f
    BY <2>1 DEF Owned, Held
  <2>2. CASE i = 1 /\ j # 1
    BY <1>1, <1>3, <1>4, <1>6, <2>1, <2>2
  <2>3. CASE i # 1 /\ j = 1
    BY <1>1, <1>3, <1>4, <1>6, <2>1, <2>3
  <2>4. CASE i # 1 /\ j # 1
    <3>1. i - 1 = j - 1
      BY <1>4, <1>6, <2>4 DEF Owned, Unshared
    <3> QED BY <1>2, <3>1
  <2> QED BY <2>2, <2>3, <2>4
<1>7. Unshared(all)
  BY <1>3, <1>6 DEF Unshared
<1> QED BY <1>5, <1>7 DEF Owned, all, x

\* An entry may take a descriptor that none of them has, or lose its own.
LEMMA OwnedSet ==
  ASSUME NEW list \in Seq(Entry), NEW used, Owned(list, used),
         NEW c \in 1..Len(list), NEW f \in Fd \cup {Closed, Unopened}, f \notin used
  PROVE  /\ [list EXCEPT ![c].fd = f] \in Seq(Entry)
         /\ Owned([list EXCEPT ![c].fd = f], used \cup {f})
         /\ f \notin Fd => Owned([list EXCEPT ![c].fd = f], used)
<1> DEFINE e == [list[c] EXCEPT !.fd = f]
           more == [list EXCEPT ![c] = e]
<1>1. /\ list \in [1..Len(list) -> Entry] /\ Len(list) \in Nat
      /\ \A i \in 1..Len(list) : list[i] \in Entry
  BY LenProperties
<1>2. e \in Entry /\ e.fd = f
  BY <1>1 DEF Entry
<1> HIDE DEF e
<1>3. /\ more \in Seq(Entry) /\ Len(more) = Len(list)
      /\ \A j \in 1..Len(list) : more[j] = IF j = c THEN e ELSE list[j]
  BY <1>1, <1>2, ExceptSeq
<1> HIDE DEF more
<1>4. Held(more, used \cup {f})
  BY <1>2, <1>3 DEF Owned, Held
<1>5. f \notin Fd => Held(more, used)
  BY <1>2, <1>3 DEF Owned, Held
<1>6. ASSUME NEW i \in 1..Len(list), NEW j \in 1..Len(list),
             more[i].fd \in Fd, more[i].fd = more[j].fd
      PROVE  i = j
  <2>1. ASSUME NEW k \in 1..Len(list), k # c, list[k].fd \in Fd
        PROVE  list[k].fd # f
    BY <2>1 DEF Owned, Held
  <2>2. CASE i = c /\ j = c
    BY <2>2
  <2>3. CASE i = c /\ j # c
    BY <1>2, <1>3, <1>6, <2>1, <2>3
  <2>4. CASE i # c /\ j = c
    BY <1>2, <1>3, <1>6, <2>1, <2>4
  <2>5. CASE i # c /\ j # c
    BY <1>3, <1>6, <2>5 DEF Owned, Unshared
  <2> QED BY <2>2, <2>3, <2>4, <2>5
<1>7. Unshared(more)
  BY <1>3, <1>6 DEF Unshared
<1> QED BY <1>3, <1>4, <1>5, <1>7 DEF Owned, more, e

\* Entries are closed together with their descriptors.
LEMMA OwnedMarked ==
  ASSUME nodes \in Seq(Entry), Owned(nodes, inUse), NEW P
  PROVE  /\ Marked(P) \in Seq(Entry)
         /\ P \subseteq DOMAIN nodes =>
              Owned(Marked(P), inUse \ {nodes[i].fd : i \in P})
<1> DEFINE N == Len(nodes)
           M == Marked(P)
<1>1. /\ DOMAIN nodes = 1..N /\ N \in Nat
      /\ \A i \in 1..N : nodes[i] \in Entry
  BY LenProperties
<1>2. \A i \in 1..N : /\ M[i] \in Entry
                      /\ i \in P => M[i].fd = Closed
                      /\ i \notin P => M[i] = nodes[i]
  BY <1>1 DEF Marked, Entry
<1>3. M = [i \in 1..N |-> M[i]]
  BY <1>1 DEF Marked
<1> HIDE DEF M
<1>4. M \in [1..N -> Entry]
  BY <1>2, <1>3
<1>5. M \in Seq(Entry) /\ Len(M) = N
  BY <1>1, <1>4, FunctionIsSeq
<1>6. ASSUME P \subseteq DOMAIN nodes
      PROVE  Owned(M, inUse \ {nodes[i].fd : i \in P})
  <2>1. ASSUME NEW i \in 1..N, M[i].fd \in Fd PROVE i \notin P /\ M[i] = nodes[i]
    BY <1>2, <2>1, FdValues
  <2>2. Held(M, inUse \ {nodes[i].fd : i \in P})
    <3> SUFFICES ASSUME NEW i \in 1..N, M[i].fd \in Fd
                 PROVE  M[i].fd \in inUse /\ \A j \in P : M[i].fd # nodes[j].fd
      BY <1>5 DEF Held
    <3>1. i \notin P /\ M[i] = nodes[i]
      BY <2>1
    <3> QED BY <1>1, <1>6, <3>1 DEF Owned, Held, Unshared
  <2>3. Unshared(M)
    BY <1>5, <2>1 DEF Owned, Unshared
  <2> QED BY <2>2, <2>3 DEF Owned
<1> QED BY <1>5, <1>6 DEF M

-----------------------------------------------------------------------------
(* The inductive invariant. *)

\* Up to "treat" the reported descriptors are still those the program held when
\* select returned, and none of them has been given out since.
ReadsFresh ==
  at \notin {"select", "exit"} =>
    rfds \cap since = {} /\ (at # "treat" => rfds \subseteq inUse)

\* isCommSent says whether this join has asked a server.
OneAsked ==
  IF isCommSent THEN \E f \in Fd : asked = {f} ELSE asked = {} /\ opened = {}

IInv == TypeOK /\ DescriptorsOwned /\ ReadsFresh /\ OneAsked

LEMMA InitInv == Init => IInv
<1> SUFFICES ASSUME Init PROVE IInv
  OBVIOUS
<1> USE DEF Init
<1>1. TypeOK
  <2>1. nodes \in Seq(Entry) /\ cursor \in Nat \ {0} /\ joins \in 0..MaxJoins
    BY SizeAssumption
  <2>2. isJoinComplete \in BOOLEAN /\ isCommSent \in BOOLEAN /\ at # "join"
    OBVIOUS
  <2> QED BY <2>1, <2>2 DEF TypeOK
<1>2. DescriptorsOwned
  BY DEF DescriptorsOwned, Fds
<1>3. ReadsFresh /\ OneAsked
  BY DEF ReadsFresh, OneAsked
<1> QED BY <1>1, <1>2, <1>3 DEF IInv

LEMMA SelectType ==
  ASSUME TypeOK, Select
  PROVE  TypeOK'
<1>1. nodes' \in Seq(Entry)
  BY RemoveBadServersKeeps DEF TypeOK, Select
<1>2. rfds' \subseteq Fd /\ todo' \subseteq {"listen", "stdin", "udp"}
  BY DEF Select, Fds
<1> QED BY <1>1, <1>2, AfterFacts DEF TypeOK, Select, joining

LEMMA PushedType ==
  ASSUME nodes \in Seq(Entry), NEW answer \in Answer
  PROVE  \E front \in Seq(Entry) :
           /\ Pushed(answer) = front \o nodes
           /\ \A i \in 1..Len(front) : front[i].fd = Unopened
<1>1. PICK n \in Nat : answer \in [1..n -> Other \cup {Host}]
  BY SizeAssumption DEF Answer, BoundedSeq, SeqOf
<1> DEFINE list == [i \in DOMAIN answer |-> [server |-> answer[i], fd |-> Unopened]]
           front == Reverse(list)
<1>2. list \in [1..n -> Entry] /\ \A i \in 1..n : list[i].fd = Unopened
  BY <1>1 DEF Entry
<1> HIDE DEF list
<1>3. Len(list) = n
  BY <1>2, FunctionIsSeq
<1>4. front = [i \in 1..n |-> list[(n - i) + 1]]
  BY <1>3 DEF Reverse
<1> HIDE DEF front
<1>5. \A i \in 1..n : (n - i) + 1 \in 1..n
  OBVIOUS
<1>6. front \in [1..n -> Entry] /\ \A i \in 1..n : front[i].fd = Unopened
  BY <1>2, <1>4, <1>5
<1>7. front \in Seq(Entry) /\ Len(front) = n
  BY <1>6, FunctionIsSeq
<1>8. Pushed(answer) = front \o nodes
  BY DEF Pushed, front, list
<1> QED BY <1>6, <1>7, <1>8

LEMMA AcceptedType ==
  ASSUME nodes \in Seq(Entry), NEW f \in Fd
  PROVE  /\ <<[server |-> Inbound, fd |-> f]>> \in Seq(Entry)
         /\ <<[server |-> Inbound, fd |-> f]>> \o nodes \in Seq(Entry)
<1> DEFINE x == [server |-> Inbound, fd |-> f]
<1>1. x \in Entry
  BY DEF Entry
<1> HIDE DEF x
<1>2. <<x>> \in Seq(Entry)
  BY <1>1
<1>3. <<x>> \o nodes \in Seq(Entry)
  BY <1>2, ConcatProperties
<1> QED BY <1>2, <1>3 DEF x

\* A step keeps the types, given that inUse and nodes keep theirs.
LEMMA NextType ==
  ASSUME IInv, Next
  PROVE  TypeOK'
<1>1. TypeOK /\ Owned(nodes, inUse)
  BY OwnedMeans DEF IInv, TypeOK
<1> USE <1>1
<1>2. CASE Select
  BY <1>2, SelectType
<1>3. CASE Skip
  BY <1>3, AfterFacts DEF TypeOK, Skip, joining, waiting, history
<1>4. CASE TcpNewComm
  <2>1. Lowest \in Fd
    BY <1>4, LowestIsFree DEF TcpNewComm
  <2>2. nodes' \in Seq(Entry)
    BY <1>4, <2>1, AcceptedType DEF TypeOK, TcpNewComm
  <2> QED BY <1>4, <2>1, <2>2, AfterFacts DEF TypeOK, TcpNewComm, joining, waiting
<1>5. CASE AcceptFails \/ OtherCommand
  BY <1>5, AfterFacts DEF TypeOK, AcceptFails, OtherCommand, joining, waiting, history
<1>6. ASSUME NEW answer \in Answer, HandleJoin(answer)
      PROVE  TypeOK'
  <2>1. nodes' \in Seq(Entry)
    <3>1. nodes \in Seq(Entry) /\ nodes' = Pushed(answer)
      BY <1>6 DEF TypeOK, HandleJoin
    <3> QED BY <3>1, PushedType, ConcatProperties
  <2>2. joins' \in 0..MaxJoins
    BY <1>6, SizeAssumption DEF TypeOK, HandleJoin
  <2>3. /\ isJoinComplete' = isJoinComplete /\ isJoinComplete \in BOOLEAN
        /\ ~isJoinComplete /\ isCommSent' = FALSE /\ at' = "join"
    BY <1>6 DEF TypeOK, HandleJoin
  <2>4. /\ cursor' = 1 /\ opened' = {} /\ asked' = {} /\ since' = since
        /\ inUse' = inUse /\ rfds' = rfds /\ todo' = todo
    BY <1>6 DEF HandleJoin, waiting
  <2>5. cursor' \in Nat \ {0}
    BY <2>4
  <2> QED BY <2>1, <2>2, <2>3, <2>4, <2>5, Zenon DEF TypeOK
<1>7. CASE NothingToOpen
  BY <1>7 DEF TypeOK, NothingToOpen, waiting, history
<1>8. CASE Connects
  <2>1. Lowest \in Fd /\ Lowest \notin inUse /\ cursor \in 1..Len(nodes)
    BY <1>8, LowestIsFree, LenProperties DEF TypeOK, Connects, AtEntry
  <2>2. nodes' \in Seq(Entry)
    BY <1>8, <2>1, OwnedSet DEF TypeOK, Connects, SetFd
  <2> QED BY <1>8, <2>1, <2>2 DEF TypeOK, Connects, waiting
<1>9. CASE ConnectFails
  <2>1. Lowest \in Fd /\ cursor \in 1..Len(nodes) /\ Closed \notin inUse
    BY <1>9, LowestIsFree, LenProperties, FdValues DEF TypeOK, ConnectFails, AtEntry
  <2>2. nodes' \in Seq(Entry)
    BY <1>9, <2>1, OwnedSet DEF TypeOK, ConnectFails, SetFd
  <2> QED BY <1>9, <2>1, <2>2 DEF TypeOK, ConnectFails, KeepsSent, waiting, history
<1>10. CASE SocketFails \/ JoinComplete
  BY <1>10, AfterFacts DEF TypeOK, SocketFails, JoinComplete, AtEntry, joining, waiting, history
<1>11. CASE HandleClientComms
  <2>1. nodes' \in Seq(Entry) /\ inUse' \subseteq Fd
    <3>1. CASE UNCHANGED <<nodes, inUse>>
      BY <3>1 DEF TypeOK
    <3>2. ASSUME NEW P, Close(P) PROVE nodes' \in Seq(Entry) /\ inUse' \subseteq Fd
      BY <3>2, OwnedMarked DEF TypeOK, Close
    <3> QED BY <1>11, <3>1, <3>2 DEF HandleClientComms
  <2> QED BY <1>11, <2>1, AfterFacts DEF TypeOK, HandleClientComms, joining, waiting, history
<1>12. CASE TreatCommunications
  <2>1. PICK P \in SUBSET Reported : Close(P)
    BY <1>12 DEF TreatCommunications
  <2>2. nodes' \in Seq(Entry) /\ inUse' \subseteq Fd
    BY <2>1, OwnedMarked DEF TypeOK, Close
  <2> QED BY <1>12, <2>2 DEF TypeOK, TreatCommunications, joining, waiting, history
<1> QED BY <1>2, <1>3, <1>4, <1>5, <1>6, <1>7, <1>8, <1>9, <1>10, <1>11, <1>12 DEF Next

\* A step leaves each descriptor with one entry.
LEMMA NextOwned ==
  ASSUME IInv, Next
  PROVE  Owned(nodes, inUse)'
<1>1. TypeOK /\ nodes \in Seq(Entry) /\ Owned(nodes, inUse)
  BY OwnedMeans DEF IInv, TypeOK
<1> SUFFICES Owned(nodes', inUse')
  BY DEF Owned, Held, Unshared
<1> USE <1>1
<1>2. CASE Select
  <2>1. nodes' = RemoveBadServers(nodes) /\ inUse' = inUse
    BY <1>2 DEF Select
  <2> QED BY <2>1, RemoveBadServersKeeps, OwnedLeft
<1>3. CASE \/ Skip \/ AcceptFails \/ OtherCommand
           \/ NothingToOpen \/ SocketFails \/ JoinComplete
  BY <1>3 DEF Skip, AcceptFails, OtherCommand, NothingToOpen, SocketFails, JoinComplete
<1>4. CASE TcpNewComm
  <2>1. Lowest \in Fd /\ Lowest \notin inUse
    BY <1>4, LowestIsFree DEF TcpNewComm
  <2>2. Owned(<<[server |-> Inbound, fd |-> Lowest]>> \o nodes, inUse \cup {Lowest})
    BY <2>1, OwnedAccepted
  <2> QED BY <1>4, <2>2 DEF TcpNewComm
<1>5. ASSUME NEW answer \in Answer, HandleJoin(answer)
      PROVE  Owned(nodes', inUse')
  <2>1. Owned(Pushed(answer), inUse)
    BY PushedType, OwnedPushed, FdValues
  <2> QED BY <1>5, <2>1 DEF HandleJoin
<1>6. CASE Connects
  <2>1. Lowest \in Fd /\ Lowest \notin inUse /\ cursor \in 1..Len(nodes)
    BY <1>6, LowestIsFree, LenProperties DEF Connects, AtEntry
  <2> QED BY <1>6, <2>1, OwnedSet DEF Connects, SetFd
<1>7. CASE ConnectFails
  <2>1. Closed \notin inUse /\ Closed \notin Fd /\ cursor \in 1..Len(nodes)
    BY <1>7, LenProperties, FdValues DEF TypeOK, ConnectFails, AtEntry
  <2>2. Owned([nodes EXCEPT ![cursor].fd = Closed], inUse)
    BY <2>1, OwnedSet
  <2>3. Owned(nodes', inUse) /\ inUse \subseteq inUse'
    BY <1>7, <2>2 DEF ConnectFails, SetFd
  <2> QED BY <2>3 DEF Owned, Held
<1>8. CASE HandleClientComms
  <2>1. CASE UNCHANGED <<nodes, inUse>>
    BY <2>1
  <2>2. ASSUME NEW P \in SUBSET (DOMAIN nodes \ Unwritable), Close(P \cup Unwritable)
        PROVE  Owned(nodes', inUse')
    <3>1. P \cup Unwritable \subseteq DOMAIN nodes
      BY DEF Unwritable
    <3> QED BY <2>2, <3>1, OwnedMarked DEF Close
  <2> QED BY <1>8, <2>1, <2>2 DEF HandleClientComms
<1>9. CASE TreatCommunications
  <2>1. PICK P \in SUBSET Reported : Close(P)
    BY <1>9 DEF TreatCommunications
  <2>2. P \subseteq DOMAIN nodes
    BY DEF Reported
  <2> QED BY <2>1, <2>2, OwnedMarked DEF Close
<1> QED BY <1>2, <1>3, <1>4, <1>5, <1>6, <1>7, <1>8, <1>9 DEF Next

\* A step leaves what select reported fresh: a descriptor given out now was not
\* in use, and so was not reported.
LEMMA NextFresh ==
  ASSUME IInv, Next
  PROVE  ReadsFresh'
<1>1. TypeOK /\ DescriptorsOwned /\ ReadsFresh
  BY DEF IInv
<1> USE AfterFacts
<1>2. CASE Select
  <2>1. nodes \in Seq(Entry) /\ Owned(nodes, inUse)
    BY <1>1, OwnedMeans DEF TypeOK
  <2>2. Owned(nodes', inUse) /\ nodes' \in Seq(Entry)
    BY <1>2, <2>1, RemoveBadServersKeeps, OwnedLeft DEF Select
  <2>3. Fds(nodes') \subseteq inUse
    BY <2>2, LenProperties DEF Owned, Held, Fds
  <2> QED BY <1>2, <2>3 DEF Select, ReadsFresh
<1>3. CASE Skip \/ OtherCommand
  BY <1>1, <1>3 DEF ReadsFresh, Skip, OtherCommand, waiting, history
<1>4. CASE TcpNewComm
  <2>1. Lowest \notin inUse
    BY <1>4, LowestIsFree DEF TcpNewComm
  <2> QED BY <1>1, <1>4, <2>1 DEF ReadsFresh, TcpNewComm, waiting
<1>5. CASE AcceptFails \/ TreatCommunications
  BY <1>5 DEF ReadsFresh, AcceptFails, TreatCommunications
<1>6. ASSUME NEW answer \in Answer, HandleJoin(answer)
      PROVE  ReadsFresh'
  BY <1>1, <1>6 DEF ReadsFresh, HandleJoin, waiting
<1>7. CASE NothingToOpen
  BY <1>1, <1>7 DEF ReadsFresh, NothingToOpen, waiting, history
<1>8. CASE Connects
  <2>1. Lowest \notin inUse /\ at = "join"
    BY <1>8, LowestIsFree DEF Connects, AtEntry
  <2> QED BY <1>1, <1>8, <2>1 DEF ReadsFresh, Connects, waiting
<1>9. CASE ConnectFails
  <2>1. at = "join"
    BY <1>9 DEF ConnectFails, AtEntry
  <2> QED BY <1>1, <1>9, <2>1 DEF ReadsFresh, ConnectFails, waiting, history
<1>10. CASE SocketFails \/ JoinComplete
  BY <1>1, <1>10 DEF ReadsFresh, SocketFails, JoinComplete, AtEntry, waiting, history
<1>11. CASE HandleClientComms
  BY <1>1, <1>11 DEF ReadsFresh, HandleClientComms, waiting, history
<1> QED BY <1>2, <1>3, <1>4, <1>5, <1>6, <1>7, <1>8, <1>9, <1>10, <1>11 DEF Next

\* A step leaves one server asked, or none while none is connected: only
\* Connects and the start of a join change whom a join has asked.
LEMMA NextAsked ==
  ASSUME IInv, Next
  PROVE  OneAsked'
<1>1. TypeOK /\ OneAsked
  BY DEF IInv
<1>2. CASE /\ ~Connects
           /\ ~\E answer \in Answer : HandleJoin(answer)
  <2>1. asked' = asked /\ opened' = opened /\ isCommSent' = isCommSent
    BY <1>2 DEF Next, Select, Skip, TcpNewComm, AcceptFails, OtherCommand, NothingToOpen,
                ConnectFails, KeepsSent, SocketFails, JoinComplete, HandleClientComms,
                TreatCommunications, joining, history
  <2> QED BY <1>1, <2>1 DEF OneAsked
<1>3. ASSUME NEW answer \in Answer, HandleJoin(answer)
      PROVE  OneAsked'
  BY <1>3 DEF OneAsked, HandleJoin
<1>4. CASE Connects
  <2>1. Lowest \in Fd
    BY <1>4, LowestIsFree DEF Connects
  <2>2. isCommSent' = TRUE /\ asked' = IF isCommSent THEN asked ELSE asked \cup {Lowest}
    BY <1>4 DEF Connects
  <2>3. \E f \in Fd : asked' = {f}
    <3>1. CASE isCommSent
      BY <1>1, <2>2, <3>1 DEF OneAsked
    <3>2. CASE ~isCommSent
      BY <1>1, <2>1, <2>2, <3>2 DEF OneAsked
    <3> QED BY <3>1, <3>2
  <2> QED BY <2>2, <2>3 DEF OneAsked
<1> QED BY <1>2, <1>3, <1>4

LEMMA StepInv == IInv /\ [Next]_vars => IInv'
<1> SUFFICES ASSUME IInv, [Next]_vars PROVE IInv'
  OBVIOUS
<1>1. CASE Next
  <2>1. TypeOK' /\ ReadsFresh' /\ OneAsked'
    BY <1>1, NextType, NextFresh, NextAsked
  <2>2. Owned(nodes', inUse')
    BY <1>1, NextOwned DEF Owned, Held, Unshared
  <2>3. nodes' \in Seq(Entry)
    BY <2>1 DEF TypeOK
  <2>4. DescriptorsOwned'
    <3>1. DOMAIN nodes' = 1..Len(nodes')
      BY <2>3, LenProperties
    <3>2. Fds(nodes') \subseteq inUse'
      BY <2>2, <3>1 DEF Fds, Owned, Held
    <3> QED BY <2>2, <3>1, <3>2 DEF DescriptorsOwned, Owned, Unshared, Fds
  <2> QED BY <2>1, <2>4 DEF IInv
<1>2. CASE UNCHANGED vars
  BY <1>2 DEF IInv, TypeOK, DescriptorsOwned, Fds, ReadsFresh, OneAsked,
              vars, joining, waiting, history
<1> QED BY <1>1, <1>2

LEMMA Inductive == Spec => []IInv
  BY InitInv, StepInv, PTL DEF Spec

-----------------------------------------------------------------------------
(* The theorems. *)

\* The variables keep the values of their types (the list and the flags of
\* main.c and identity.c).
THEOREM TypeCorrect == Spec => []TypeOK
<1>1. IInv => TypeOK
  BY DEF IInv
<1> QED BY <1>1, Inductive, PTL

\* No entry of the list keeps a closed descriptor and no two share one, whatever
\* fails, is closed or is given out again (message.c, identity.c, main.c).
THEOREM DescriptorsAlwaysOwned == Spec => []DescriptorsOwned
<1>1. IInv => DescriptorsOwned
  BY DEF IInv
<1> QED BY <1>1, Inductive, PTL

\* A join asks exactly one of the servers it connects to for messages, if it
\* connects to any, for lists of any length and any connections failing; a join
\* that is tried again asks again (join_to_old_servers).
THEOREM OneServerAsked == Spec => []AskedOnce
<1>1. IInv => AskedOnce
  <2> SUFFICES ASSUME OneAsked PROVE AskedOnce
    BY DEF IInv
  <2>1. CASE isCommSent
    <3>1. PICK f \in Fd : asked = {f}
      BY <2>1 DEF OneAsked
    <3>2. Cardinality(asked) = 1
      BY <3>1, FS_Singleton
    <3> QED BY <3>1, <3>2 DEF AskedOnce
  <2>2. CASE ~isCommSent
    <3>1. asked = {} /\ opened = {} /\ Cardinality({}) = 0
      BY <2>2, FS_EmptySet DEF OneAsked
    <3> QED BY <3>1 DEF AskedOnce
  <2> QED BY <2>1, <2>2
<1> QED BY <1>1, Inductive, PTL

\* What an iteration reads is a connection that select reported, never a newer
\* one with the same number (the loop of main.c).
THEOREM OnlyReportedRead == Spec => []ReadsReported
<1>1. IInv => ReadsReported
  BY DEF IInv, ReadsFresh, ReadsReported
<1> QED BY <1>1, Inductive, PTL

\* A pass of remove_bad_servers loses no entry that is open or yet to open, keeps
\* them in order, and leaves at most half of those to remove, for every list the
\* program can have.
THEOREM PassKeeps == Spec => PassKeepsOpen
<1>1. IInv /\ [Next]_vars =>
        [Select => Live(nodes') = Live(nodes) /\ 2 * Dead(nodes') <= Dead(nodes)]_vars
  BY RemoveBadServersKeeps DEF IInv, TypeOK, Select
<1> QED BY <1>1, Inductive, PTL DEF Spec, PassKeepsOpen

=============================================================================
