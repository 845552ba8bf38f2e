--------------------------- MODULE SequenceProofs ---------------------------
(***************************************************************************)
(* What the other proof modules share: induction and recursion on numbers, *)
(* and what Latest and Push of Window return, for sequences over any set.  *)
(***************************************************************************)
EXTENDS Window, SequenceTheorems, WellFoundedInduction, TLAPS

-----------------------------------------------------------------------------
(* Induction. *)

\* A set of numbers that is not empty has a least one.
LEMMA LeastNumber ==
  ASSUME NEW T, T \subseteq Nat, T # {}
  PROVE  \E n \in T : \A m \in T : n <= m
<1> DEFINE R == {ss \in Nat \X Nat : ss[1] < ss[2]}
<1>1. IsWellFoundedOn(R, Nat)
  BY NatLessThanWellFounded DEF OpToRel
<1>2. PICK n \in T : \A m \in T : ~ (<<m, n>> \in R)
  <2> HIDE DEF R
  <2> QED BY <1>1, WFMin
<1>3. ASSUME NEW m \in T PROVE n <= m
  <2>1. m \in Nat /\ n \in Nat /\ <<m, n>> \notin R
    BY <1>2
  <2>2. ~(m < n)
    BY <2>1
  <2> QED BY <2>1, <2>2
<1> QED BY <1>3

\* Induction, over a set in place of a predicate: the provers instantiate no
\* operators, and every instance this project needs is a set.
LEMMA NumberInduction ==
  ASSUME NEW G, 0 \in G, \A n \in Nat : n \in G => n+1 \in G
  PROVE  \A n \in Nat : n \in G
<1> SUFFICES ASSUME Nat \ G # {} PROVE FALSE
  OBVIOUS
<1>1. PICK n \in Nat \ G : \A m \in Nat \ G : n <= m
  BY LeastNumber
<1>2. n # 0 /\ n - 1 \in Nat
  BY <1>1
<1>3. n - 1 \in G
  BY <1>1, <1>2
<1>4. (n - 1) + 1 \in G
  BY <1>2, <1>3
<1> QED BY <1>1, <1>4

\* g is b at 0 and follows from its value before, by the steps G, up to N.
Recursive(g, N, b, G) ==
  g[0] = b /\ \A n \in 1..N : g[n] = G[<<g[n - 1], n>>]

\* There is such a function: what a definition by recursion on 0..N needs.
LEMMA Recursion ==
  ASSUME NEW V, NEW b \in V, NEW N \in Nat, NEW G \in [V \X (1..N) -> V]
  PROVE  \E g \in [0..N -> V] : Recursive(g, N, b, G)
<1> DEFINE Ok(n, g) == g[0] = b /\ \A i \in 1..n : g[i] = G[<<g[i-1], i>>]
           H == {n \in Nat : n <= N => \E g \in [0..n -> V] : Ok(n, g)}
<1>1. 0 \in H
  <2>1. [i \in 0..0 |-> b] \in [0..0 -> V]
    OBVIOUS
  <2>2. Ok(0, [i \in 0..0 |-> b])
    OBVIOUS
  <2> QED BY <2>1, <2>2
<1>2. ASSUME NEW n \in Nat, n \in H PROVE n + 1 \in H
  <2> SUFFICES ASSUME n + 1 <= N PROVE \E g \in [0..(n+1) -> V] : Ok(n+1, g)
    OBVIOUS
  <2>1. PICK g \in [0..n -> V] : Ok(n, g)
    BY <1>2
  <2> DEFINE h == [i \in 0..(n+1) |-> IF i = n+1 THEN G[<<g[n], n+1>>] ELSE g[i]]
  <2>2. <<g[n], n+1>> \in V \X (1..N)
    OBVIOUS
  <2>3. h \in [0..(n+1) -> V]
    BY <2>2
  <2>4. h[0] = b
    BY <2>1
  <2>5. ASSUME NEW i \in 1..(n+1) PROVE h[i] = G[<<h[i-1], i>>]
    <3>1. CASE i = n+1
      <4>1. h[i] = G[<<g[n], n+1>>] /\ h[i-1] = g[n] /\ i - 1 = n
        BY <3>1
      <4> HIDE DEF h
      <4> QED BY <3>1, <4>1
    <3>2. CASE i # n+1
      BY <2>1, <3>2
    <3> QED BY <3>1, <3>2
  <2> QED BY <2>3, <2>4, <2>5
<1>3. N \in H
  <2> HIDE DEF H
  <2> QED BY <1>1, <1>2, NumberInduction
<1> QED BY <1>3 DEF Recursive

-----------------------------------------------------------------------------
(* Windows. *)

\* A function on 1..n is a sequence of length n.
LEMMA FunctionIsSeq ==
  ASSUME NEW S, NEW n \in Nat, NEW f \in [1..n -> S]
  PROVE  f \in Seq(S) /\ Len(f) = n /\ DOMAIN f = 1..n
  OBVIOUS

\* Latest(w, n) is the end of w, at most n long.
LEMMA LatestProperties ==
  ASSUME NEW S, NEW w \in Seq(S), NEW n \in Nat
  PROVE  /\ Latest(w, n) \in Seq(S)
         /\ Len(Latest(w, n)) = Lesser(n, Len(w))
         /\ \A i \in 1..Lesser(n, Len(w)) :
              Latest(w, n)[i] = w[Len(w) - Lesser(n, Len(w)) + i]
<1> DEFINE k == Lesser(n, Len(w))
           f == [i \in 1..k |-> w[Len(w) - k + i]]
<1>1. k \in Nat /\ k <= Len(w) /\ Len(w) \in Nat
  BY LenProperties DEF Lesser
<1>2. \A i \in 1..k : Len(w) - k + i \in 1..Len(w)
  BY <1>1
<1>3. \A i \in 1..k : w[Len(w) - k + i] \in S
  BY <1>2, ElementOfSeq
<1>4. f \in [1..k -> S]
  BY <1>3
<1>5. f \in Seq(S) /\ Len(f) = k
  <2> HIDE DEF f, k
  <2> QED BY <1>1, <1>4, FunctionIsSeq
<1>6. Latest(w, n) = f
  BY DEF Latest
<1> QED BY <1>5, <1>6

\* Pushing x onto w keeps the end of w and puts x behind it.
LEMMA PushProperties ==
  ASSUME NEW S, NEW w \in Seq(S), NEW x \in S,
         NEW cap \in Nat \ {0}, Len(w) <= cap,
         NEW k \in Nat, k = Lesser(Len(w) + 1, cap)
  PROVE  /\ Push(w, x, cap) \in Seq(S)
         /\ Len(Push(w, x, cap)) = k
         /\ Push(w, x, cap)[k] = x
         /\ \A i \in 1..(k - 1) : Push(w, x, cap)[i] = w[Len(w) + 1 - k + i]
<1> DEFINE l == Len(w)
           v == Append(w, x)
<1>1. l \in Nat /\ k \in 1..(l + 1) /\ k = Lesser(cap, l + 1)
  BY LenProperties DEF Lesser
<1>2. /\ v \in Seq(S)
      /\ Len(v) = l + 1
      /\ v[l + 1] = x
      /\ \A i \in 1..l : v[i] = w[i]
  BY AppendProperties
<1>3. /\ Push(w, x, cap) \in Seq(S)
      /\ Len(Push(w, x, cap)) = k
      /\ \A i \in 1..k : Push(w, x, cap)[i] = v[l + 1 - k + i]
  <2>1. Push(w, x, cap) = Latest(v, cap)
    BY DEF Push
  <2> HIDE DEF v, l
  <2>2. /\ Latest(v, cap) \in Seq(S)
        /\ Len(Latest(v, cap)) = Lesser(cap, Len(v))
        /\ \A i \in 1..Lesser(cap, Len(v)) :
             Latest(v, cap)[i] = v[Len(v) - Lesser(cap, Len(v)) + i]
    BY <1>2, LatestProperties
  <2>3. Lesser(cap, Len(v)) = k /\ Len(v) = l + 1
    BY <1>1, <1>2
  <2>4. /\ Push(w, x, cap) \in Seq(S)
        /\ Len(Push(w, x, cap)) = k
        /\ \A i \in 1..k : Push(w, x, cap)[i] = v[Len(v) - k + i]
    BY <2>1, <2>2, <2>3
  <2>5. \A i \in 1..k : Len(v) - k + i = l + 1 - k + i
    BY <1>1, <2>3
  <2> QED BY <2>4, <2>5
<1>4. l + 1 - k + k = l + 1 /\ k \in 1..k
  BY <1>1
<1>5. \A i \in 1..(k - 1) : i \in 1..k /\ l + 1 - k + i \in 1..l
  BY <1>1
<1> HIDE DEF v, l
<1>6. \A i \in 1..(k - 1) : v[l + 1 - k + i] = w[l + 1 - k + i]
  BY <1>2, <1>5
<1> QED BY <1>2, <1>3, <1>4, <1>5, <1>6 DEF l

\* Whatever stood in w is what stands in it after a push, or x; and a
\* window is never longer than the capacity, nor empty once pushed onto.
LEMMA PushMembers ==
  ASSUME NEW S, NEW w \in Seq(S), NEW x \in S,
         NEW cap \in Nat \ {0}, Len(w) <= cap
  PROVE  /\ Push(w, x, cap) \in Seq(S)
         /\ Len(Push(w, x, cap)) \in 1..cap
         /\ \A i \in DOMAIN Push(w, x, cap) :
              Push(w, x, cap)[i] = x \/ \E j \in DOMAIN w : Push(w, x, cap)[i] = w[j]
<1> DEFINE v == Push(w, x, cap)
           l == Len(w)
           k == Lesser(l + 1, cap)
<1>1. l \in Nat /\ k \in 1..cap /\ k \in Nat /\ k <= l + 1
  BY LenProperties DEF Lesser
<1>2. /\ v \in Seq(S) /\ Len(v) = k /\ v[k] = x
      /\ \A i \in 1..(k - 1) : v[i] = w[l + 1 - k + i]
  BY <1>1, PushProperties
<1>3. DOMAIN v = 1..k /\ DOMAIN w = 1..l
  BY <1>2, LenProperties
<1> HIDE DEF v, k, l
<1>4. \A i \in 1..k : i = k \/ (i \in 1..(k - 1) /\ l + 1 - k + i \in 1..l)
  BY <1>1
<1>5. \A i \in 1..k : v[i] = x \/ \E j \in 1..l : v[i] = w[j]
  BY <1>2, <1>4
<1> QED BY <1>1, <1>2, <1>3, <1>5 DEF v

=============================================================================
