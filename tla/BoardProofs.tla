---------------------------- MODULE BoardProofs ----------------------------
(***************************************************************************)
(* Proofs about Board, for every capacity and every message, stamp and     *)
(* number of additions.                                                    *)
(***************************************************************************)
EXTENDS Board, SequenceProofs

\* A remainder is a slot, and the quotient that goes with it.
LEMMA Remainder ==
  ASSUME NEW a \in Nat, NEW n \in Nat \ {0}
  PROVE  /\ a % n \in 0..(n - 1)
         /\ \E q \in Nat : a = n * q + (a % n)
<1>1. a = n * (a \div n) + (a % n) /\ a \div n \in Nat /\ a % n \in 0..(n - 1)
  OBVIOUS
<1> QED BY <1>1

\* Below the capacity an index is its own slot.
LEMMA RemainderBelow ==
  ASSUME NEW n \in Nat \ {0}, NEW a \in 0..(n - 1)
  PROVE  a % n = a
  OBVIOUS

\* A multiple of n by a positive number is at least n.
LEMMA Multiple ==
  ASSUME NEW n \in Nat \ {0}, NEW d \in Nat \ {0}
  PROVE  n * d >= n
  OBVIOUS

\* Indices less than a capacity apart have slots of their own.
LEMMA SlotsApart ==
  ASSUME NEW n \in Nat \ {0}, NEW a \in Nat, NEW b \in Nat,
         a < b, b - a < n
  PROVE  a % n # b % n
<1> SUFFICES ASSUME a % n = b % n PROVE FALSE
  OBVIOUS
<1>0. PICK p \in Nat, q \in Nat : a = n * p + (a % n) /\ b = n * q + (b % n)
  BY Remainder
<1>1. b - a = n * q - n * p
  <2>1. a % n \in Int /\ n * p \in Int /\ n * q \in Int
    BY Remainder
  <2> DEFINE r == a % n
             x == n * p
             y == n * q
  <2>2. r \in Int /\ x \in Int /\ y \in Int /\ a = x + r /\ b = y + r
    BY <1>0, <2>1
  <2> HIDE DEF r, x, y
  <2>3. b - a = y - x
    BY <2>2
  <2> QED BY <2>3 DEF x, y
<1>2. n * q - n * p = n * (q - p)
  BY <1>0
<1>3. CASE q - p > 0
  <2>1. n * (q - p) >= n
    BY <1>0, <1>3, Multiple
  <2> QED BY <1>1, <1>2, <2>1
<1>4. CASE q - p <= 0
  <2>1. n * (p - q) >= 0
    BY <1>0, <1>4
  <2>2. n * (q - p) = -(n * (p - q))
    BY <1>0
  <2>3. n * (q - p) \in Int /\ n * (p - q) \in Int
    BY <1>0
  <2> QED BY <1>1, <1>2, <2>1, <2>2, <2>3
<1> QED BY <1>0, <1>3, <1>4

-----------------------------------------------------------------------------
(* The ring. *)

\* An addition fills the slots in order and from then on only overwrites.
Filled == \A j \in Slot : slots[j] # NoItem <=> j < size

\* The flag of create_matrix plays no part in what is kept.
RingOK ==
  /\ slots \in [Slot -> Item \cup {NoItem}]
  /\ size \in Nat
  /\ Filled

LEMMA NoItemIsNoItem == NoItem \notin Item
  BY BoardAssumption DEF Item

\* The index of an addition made has a message in its slot.
LEMMA ElementKept ==
  ASSUME RingOK, NEW index \in Nat, index < size
  PROVE  Element(index) \in Item
<1>1. index % Capacity \in Slot /\ index % Capacity <= index
  <2>1. PICK q \in Nat : index = Capacity * q + (index % Capacity)
    BY Remainder, CapacityAssumption
  <2>2. index % Capacity \in Slot /\ index % Capacity \in Nat
    BY Remainder, CapacityAssumption DEF Slot
  <2>3. Capacity * q \in Nat
    BY CapacityAssumption
  <2> QED BY <2>1, <2>2, <2>3
<1>2. index % Capacity < size
  BY <1>1 DEF RingOK, Slot
<1> QED BY <1>1, <1>2 DEF RingOK, Filled, Element

\* What is kept: as many messages as fit, the last ones.
KeptOK ==
  /\ Kept \in Seq(Item)
  /\ Len(Kept) = Lesser(size, Capacity)
  /\ \A i \in 1..Lesser(size, Capacity) :
       Kept[i] = Element(size - Lesser(size, Capacity) + i - 1)

LEMMA KeptProperties == RingOK => KeptOK
<1> SUFFICES ASSUME RingOK PROVE KeptOK
  OBVIOUS
<1> DEFINE k == Lesser(size, Capacity)
           f == [i \in 1..k |-> Element(size - k + i - 1)]
<1>1. k \in Nat /\ k <= size
  BY CapacityAssumption DEF Lesser, RingOK
<1>2. \A i \in 1..k : size - k + i - 1 \in Nat /\ size - k + i - 1 < size
  BY <1>1 DEF RingOK
<1>3. f \in [1..k -> Item]
  BY <1>2, ElementKept
<1>4. f \in Seq(Item) /\ Len(f) = k
  <2> HIDE DEF f, k
  <2> QED BY <1>1, <1>3, FunctionIsSeq
<1> QED BY <1>4 DEF Kept, KeptOK

\* A walk over indices whose slots are all filled stops at none of them.
LEMMA WalkFilled ==
  ASSUME NEW first \in Nat, NEW last \in Nat,
         \A k \in first..(last - 1) : Element(k) # NoItem
  PROVE  Walk(first, last) = [i \in 1..(last - first) |-> Element(first + i - 1)]
  BY DEF Walk

\* A walk that begins at an empty slot ends there.
LEMMA WalkEmpty ==
  ASSUME NEW first \in Nat, NEW last \in Nat, first < last,
         Element(first) = NoItem
  PROVE  Walk(first, last) = <<>>
<1> DEFINE stops == {k \in first..(last - 1) : Element(k) = NoItem}
           end == CHOOSE k \in stops : \A l \in stops : k <= l
<1>1. first \in stops /\ \A l \in stops : first <= l /\ l \in Nat
  OBVIOUS
<1>2. end \in stops /\ \A l \in stops : end <= l
  <2> HIDE DEF stops
  <2> QED BY <1>1
<1>3. end = first
  BY <1>1, <1>2
<1>4. Walk(first, last) = [i \in 1..(end - first) |-> Element(first + i - 1)]
  BY <1>1 DEF Walk
<1>5. Walk(first, last) = [i \in 1..0 |-> Element(first + i - 1)]
  <2> HIDE DEF end
  <2> QED BY <1>3, <1>4
<1> QED BY <1>5

\* get_first_n_messages returns the last n messages kept, in all its cases:
\* an empty ring, a ring that holds n, and one that does not, where the
\* overflow flag may even be wrong.
LEMMA GetFirstIsLatest ==
  ASSUME RingOK, overflow \in BOOLEAN, NEW n \in 1..Capacity
  PROVE  GetFirst(n) = Latest(Kept, n)
<1> DEFINE k == Lesser(size, Capacity)
           l == Lesser(n, k)
           g == [i \in 1..l |-> Kept[k - l + i]]
<1>1. /\ Len(Kept) = k
      /\ \A i \in 1..k : Kept[i] = Element(size - k + i - 1)
  BY KeptProperties DEF KeptOK
<1>2. Latest(Kept, n) = g
  <2> HIDE DEF k
  <2> QED BY <1>1 DEF Latest
<1>3. k \in Nat /\ k <= size /\ l \in Nat /\ l <= k /\ l <= n /\ size \in Nat
      /\ n \in Nat /\ Capacity \in Nat
  BY CapacityAssumption DEF Lesser, RingOK
<1>4. CASE size = 0
  <2>1. l = 0
    BY <1>3, <1>4
  <2>2. g = <<>>
    BY <2>1
  <2> QED BY <1>2, <1>4, <2>2 DEF GetFirst
<1>5. CASE size # 0 /\ size - n >= 0
  <2>1. l = n
    BY <1>3, <1>5 DEF Lesser
  <2>2. \A i \in (size - n)..(size - 1) : Element(i) # NoItem
    BY <1>3, <1>5, ElementKept, NoItemIsNoItem
  <2>3. GetFirst(n) = [i \in 1..n |-> Element(size - n + i - 1)]
    <3>1. GetFirst(n) = Walk(size - n, size)
      BY <1>5 DEF GetFirst
    <3>2. size - n \in Nat /\ size - (size - n) = n
      BY <1>3, <1>5
    <3>3. Walk(size - n, size)
            = [i \in 1..(size - (size - n)) |-> Element(size - n + i - 1)]
      BY <1>3, <2>2, <3>2, WalkFilled
    <3> QED BY <3>1, <3>2, <3>3
  <2>4. \A i \in 1..n : Kept[k - l + i] = Element(size - n + i - 1)
    <3> TAKE i \in 1..n
    <3>1. k - l + i \in 1..k /\ size - k + (k - l + i) - 1 = size - n + i - 1
      BY <1>3, <2>1
    <3> QED BY <1>1, <3>1
  <2> HIDE DEF k, l
  <2> QED BY <1>2, <2>1, <2>3, <2>4
<1>6. CASE size # 0 /\ size - n < 0
  <2>1. k = size /\ l = size /\ size < Capacity
    BY <1>3, <1>6 DEF Lesser
  <2>2. GetFirst(n) = Walk(0, size)
    <3>1. \A i \in 0..(size - 1) : Element(i) # NoItem
      BY <1>3, ElementKept, NoItemIsNoItem
    <3>2. Walk(0, size) = [i \in 1..size |-> Element(0 + i - 1)]
      BY <1>3, <3>1, WalkFilled
    <3>3. \A i \in 1..size : Element(0 + i - 1) \in Item
      BY <1>3, ElementKept
    <3>4. Walk(0, size) \in Seq(Item)
      BY <1>3, <3>2, <3>3, FunctionIsSeq
    <3>5. Walk(Capacity + (size - n), Capacity) = <<>>
      <4> DEFINE a == Capacity + (size - n)
      <4>1. a \in Nat /\ a < Capacity /\ size <= a /\ a \in 0..(Capacity - 1)
        BY <1>3, <1>6
      <4>2. a % Capacity = a
        BY <4>1, RemainderBelow, CapacityAssumption
      <4>3. Element(a) = NoItem
        BY <1>3, <4>1, <4>2 DEF RingOK, Filled, Slot, Element
      <4> HIDE DEF a
      <4>4. Walk(a, Capacity) = <<>>
        BY <1>3, <4>1, <4>3, WalkEmpty
      <4> QED BY <4>4 DEF a
    <3>6. <<>> \o Walk(0, size) = Walk(0, size)
      BY <3>4, ConcatEmptySeq
    <3> DEFINE e == IF overflow THEN Walk(Capacity + (size - n), Capacity) ELSE <<>>
    <3>7. e = <<>>
      BY <3>5
    <3>8. GetFirst(n) = e \o Walk(0, size)
      BY <1>3, <1>6 DEF GetFirst
    <3> HIDE DEF e
    <3> QED BY <3>6, <3>7, <3>8
  <2>3. GetFirst(n) = [i \in 1..size |-> Element(i - 1)]
    <3>1. \A i \in 0..(size - 1) : Element(i) # NoItem
      BY <1>3, ElementKept, NoItemIsNoItem
    <3>2. Walk(0, size) = [i \in 1..(size - 0) |-> Element(0 + i - 1)]
      BY <1>3, <3>1, WalkFilled
    <3> QED BY <1>3, <2>2, <3>2
  <2>4. \A i \in 1..size : Kept[k - l + i] = Element(i - 1)
    <3> TAKE i \in 1..size
    <3>1. k - l + i = i /\ i \in 1..k /\ size - k + i - 1 = i - 1
      BY <1>3, <2>1
    <3> QED BY <1>1, <3>1
  <2> HIDE DEF k, l
  <2> QED BY <1>2, <2>1, <2>3, <2>4
<1> QED BY <1>3, <1>4, <1>5, <1>6

\* add_element pushes onto what is kept: the slot written is the one of the
\* message that falls out, or an empty one, and no other message is touched.
LEMMA AddElementPushes ==
  ASSUME RingOK, overflow \in BOOLEAN, NEW x \in Item, AddElement(x)
  PROVE  RingOK' /\ overflow' \in BOOLEAN /\ Kept' = Push(Kept, x, Capacity)
<1> DEFINE at == size % Capacity
           k == Lesser(size, Capacity)
           kk == Lesser(size + 1, Capacity)
<1>1. at \in Slot /\ at \in Nat /\ size \in Nat /\ size' = size + 1
      /\ slots' = [slots EXCEPT ![at] = x] /\ overflow' \in BOOLEAN
  BY Remainder, CapacityAssumption DEF AddElement, RingOK, Slot
<1>2. size < Capacity => at = size
  BY <1>1, RemainderBelow, CapacityAssumption
<1> HIDE DEF at
<1>3. slots' \in [Slot -> Item \cup {NoItem}]
  BY <1>1 DEF RingOK
<1>4. Filled'
  <2> SUFFICES ASSUME NEW j \in Slot PROVE slots'[j] # NoItem <=> j < size'
    BY DEF Filled
  <2>1. CASE j = at
    <3>1. slots'[j] = x
      BY <1>1, <2>1 DEF RingOK
    <3>2. j < size + 1
      BY <1>1, <1>2, <2>1, CapacityAssumption DEF Slot
    <3> QED BY <1>1, <3>1, <3>2, NoItemIsNoItem
  <2>2. CASE j # at
    <3>1. slots'[j] = slots[j]
      BY <1>1, <2>2 DEF RingOK
    <3>2. j < size <=> j < size + 1
      BY <1>1, <1>2, <2>2, CapacityAssumption DEF Slot
    <3> QED BY <1>1, <3>1, <3>2 DEF RingOK, Filled
  <2> QED BY <2>1, <2>2
<1>5. RingOK'
  BY <1>1, <1>3, <1>4 DEF RingOK
<1>6. /\ Kept' \in Seq(Item)
      /\ Len(Kept') = kk
      /\ \A i \in 1..kk : Kept'[i] = slots'[(size + 1 - kk + i - 1) % Capacity]
  <2>1. (RingOK => KeptOK)'
    BY KeptProperties, PTL
  <2> QED BY <1>1, <1>5, <2>1 DEF KeptOK, Element
<1>7. /\ Kept \in Seq(Item)
      /\ Len(Kept) = k
      /\ \A i \in 1..k : Kept[i] = slots[(size - k + i - 1) % Capacity]
  BY KeptProperties DEF KeptOK, Element
<1>8. /\ k \in Nat /\ k <= Capacity /\ k <= size
      /\ kk \in 1..(k + 1) /\ kk <= Capacity /\ kk = Lesser(k + 1, Capacity)
  BY <1>1, CapacityAssumption DEF Lesser
<1> HIDE DEF k, kk
<1>9. /\ Push(Kept, x, Capacity) \in Seq(Item)
      /\ Len(Push(Kept, x, Capacity)) = kk
      /\ Push(Kept, x, Capacity)[kk] = x
      /\ \A i \in 1..(kk - 1) : Push(Kept, x, Capacity)[i] = Kept[k + 1 - kk + i]
  <2>1. Len(Kept) <= Capacity /\ kk = Lesser(Len(Kept) + 1, Capacity)
    BY <1>7, <1>8
  <2>2. /\ Push(Kept, x, Capacity) \in Seq(Item)
        /\ Len(Push(Kept, x, Capacity)) = kk
        /\ Push(Kept, x, Capacity)[kk] = x
        /\ \A i \in 1..(kk - 1) :
             Push(Kept, x, Capacity)[i] = Kept[Len(Kept) + 1 - kk + i]
    <3> DEFINE w == Kept
    <3>1. /\ w \in Seq(Item) /\ Len(w) <= Capacity
          /\ kk \in Nat /\ kk = Lesser(Len(w) + 1, Capacity)
      BY <1>7, <1>8, <2>1
    <3> HIDE DEF w
    <3>2. /\ Push(w, x, Capacity) \in Seq(Item)
          /\ Len(Push(w, x, Capacity)) = kk
          /\ Push(w, x, Capacity)[kk] = x
          /\ \A i \in 1..(kk - 1) : Push(w, x, Capacity)[i] = w[Len(w) + 1 - kk + i]
      BY <3>1, PushProperties, CapacityAssumption
    <3> QED BY <3>2 DEF w
  <2> QED BY <1>7, <2>2
<1>10. Kept'[kk] = x
  <2>1. kk \in 1..kk /\ size + 1 - kk + kk - 1 = size
    BY <1>1, <1>8
  <2>2. Kept'[kk] = slots'[at]
    BY <1>6, <2>1 DEF at
  <2> QED BY <1>1, <2>2 DEF RingOK
<1>11. ASSUME NEW i \in 1..(kk - 1)
       PROVE  Kept'[i] = Kept[k + 1 - kk + i]
  <2> DEFINE p == size + 1 - kk + i - 1
  <2>1. /\ i \in 1..kk
        /\ k + 1 - kk + i \in 1..k
        /\ size - k + (k + 1 - kk + i) - 1 = p
        /\ p \in Nat /\ p < size /\ size - p < Capacity
    BY <1>1, <1>8, CapacityAssumption
  <2> HIDE DEF p
  <2>2. Kept'[i] = slots'[p % Capacity]
    BY <1>6, <2>1 DEF p
  <2>3. Kept[k + 1 - kk + i] = slots[p % Capacity]
    BY <1>7, <2>1
  <2>4. p % Capacity # at /\ p % Capacity \in Slot
    BY <1>1, <2>1, SlotsApart, Remainder, CapacityAssumption DEF at, Slot
  <2> QED BY <1>1, <2>2, <2>3, <2>4 DEF RingOK
<1>12. Kept' = Push(Kept, x, Capacity)
  <2>1. \A i \in 1..kk : Kept'[i] = Push(Kept, x, Capacity)[i]
    <3> TAKE i \in 1..kk
    <3>1. CASE i = kk
      BY <1>9, <1>10, <3>1
    <3>2. CASE i # kk
      <4>1. i \in 1..(kk - 1)
        BY <1>8, <3>2
      <4> QED BY <1>9, <1>11, <4>1
    <3> QED BY <3>1, <3>2
  <2> QED BY <1>6, <1>9, <2>1, SeqEqual
<1> QED BY <1>1, <1>5, <1>12

-----------------------------------------------------------------------------
(* The inductive invariant.  TypeOK and StampsIncrease are not inductive   *)
(* without Filled: an empty slot among those kept would be read as a       *)
(* message, and what is kept would not grow by what is added.              *)

IInv == TypeOK /\ Filled /\ StampsIncrease

LEMMA IInvRing == IInv => RingOK /\ overflow \in BOOLEAN /\ clock \in Nat
  BY DEF IInv, TypeOK, RingOK

LEMMA InitIInv == Init => IInv
<1> SUFFICES ASSUME Init PROVE IInv
  OBVIOUS
<1>1. TypeOK /\ Filled
  BY CapacityAssumption DEF Init, TypeOK, Filled, Slot
<1>2. Lesser(size, Capacity) = 0
  BY CapacityAssumption DEF Init, Lesser
<1>3. DOMAIN Kept = {}
  BY <1>2 DEF Kept
<1> QED BY <1>1, <1>3 DEF IInv, StampsIncrease

\* A message stamped at or above the clock keeps the stamps increasing.
LEMMA StampsPushed ==
  ASSUME IInv, NEW x \in Item, AddElement(x), x.lc >= clock, clock' = x.lc + 1
  PROVE  StampsIncrease'
<1> DEFINE w == Kept
           k == Lesser(Len(w) + 1, Capacity)
           v == Kept'
<1>1. /\ w \in Seq(Item) /\ Len(w) \in Nat /\ Len(w) <= Capacity
      /\ x.lc \in Nat /\ clock \in Nat
  BY IInvRing, KeptProperties, CapacityAssumption DEF KeptOK, Lesser, RingOK, Item
<1>2. v = Push(w, x, Capacity)
  BY IInvRing, AddElementPushes
<1>3. k \in 1..(Len(w) + 1)
  BY <1>1, CapacityAssumption DEF Lesser
<1>4. /\ \A i, j \in 1..Len(w) : i < j => w[i].lc < w[j].lc
      /\ \A i \in 1..Len(w) : w[i].lc < clock /\ w[i].lc \in Nat
  <2>1. DOMAIN w = 1..Len(w)
    BY <1>1, LenProperties
  <2>2. \A i \in 1..Len(w) : w[i] \in Item
    BY <1>1, ElementOfSeq
  <2> QED BY <2>1, <2>2 DEF IInv, StampsIncrease, Item
<1> HIDE DEF w, k, v
<1>5. /\ v \in Seq(Item)
      /\ Len(v) = k
      /\ v[k] = x
      /\ \A i \in 1..(k - 1) : v[i] = w[Len(w) + 1 - k + i]
  <2>1. k \in Nat /\ k = Lesser(Len(w) + 1, Capacity)
    BY <1>3 DEF k
  <2>2. w \in Seq(Item) /\ Len(w) <= Capacity /\ x \in Item
    BY <1>1
  <2>3. /\ Push(w, x, Capacity) \in Seq(Item)
        /\ Len(Push(w, x, Capacity)) = k
        /\ Push(w, x, Capacity)[k] = x
        /\ \A i \in 1..(k - 1) : Push(w, x, Capacity)[i] = w[Len(w) + 1 - k + i]
    BY ONLY <2>1, <2>2, PushProperties, CapacityAssumption
  <2> QED BY ONLY <1>2, <2>3
<1>6. DOMAIN v = 1..k
  BY <1>5, LenProperties
<1>7. \A i \in 1..(k - 1) : Len(w) + 1 - k + i \in 1..Len(w)
  BY <1>1, <1>3
<1>8. \A i \in 1..(k - 1) : v[i].lc \in Nat /\ v[i].lc < clock
  BY <1>4, <1>5, <1>7
<1>9. \A i \in 1..k : v[i].lc < clock'
  <2> TAKE i \in 1..k
  <2>1. CASE i = k
    BY <1>1, <1>5, <2>1
  <2>2. CASE i # k
    <3>1. i \in 1..(k - 1)
      BY <1>3, <2>2
    <3> QED BY <1>1, <1>8, <3>1
  <2> QED BY <2>1, <2>2
<1>10. \A i, j \in 1..k : i < j => v[i].lc < v[j].lc
  <2> SUFFICES ASSUME NEW i \in 1..k, NEW j \in 1..k, i < j
               PROVE  v[i].lc < v[j].lc
    OBVIOUS
  <2>1. i \in 1..(k - 1)
    BY <1>3
  <2>2. CASE j = k
    <3>1. v[i].lc \in Nat /\ v[i].lc < clock
      BY <1>8, <2>1
    <3>2. v[j].lc = x.lc
      BY <1>5, <2>2
    <3> QED BY <1>1, <3>1, <3>2
  <2>3. CASE j # k
    <3>1. j \in 1..(k - 1)
      BY <1>3, <2>3
    <3>2. Len(w) + 1 - k + i < Len(w) + 1 - k + j
      BY <1>1, <1>3
    <3> QED BY <1>4, <1>5, <1>7, <2>1, <3>1, <3>2
  <2> QED BY <2>2, <2>3
<1> QED BY <1>6, <1>9, <1>10 DEF StampsIncrease, v

\* new_message and add_element: one step of the bounded log.
LEMMA NewMessageStep ==
  ASSUME IInv, NEW m \in Message, NEW lc \in Nat, lc >= clock,
         NewMessage(lc, m), UNCHANGED reply
  PROVE  IInv' /\ Log!Add(m)
<1> DEFINE x == [lc |-> lc, msg |-> m]
<1>1. x \in Item /\ x.lc = lc /\ AddElement(x) /\ clock' = lc + 1
  BY DEF NewMessage, Item
<1> HIDE DEF x
<1>2. RingOK' /\ overflow' \in BOOLEAN /\ Kept' = Push(Kept, x, Capacity)
  BY <1>1, IInvRing, AddElementPushes
<1>3. StampsIncrease'
  BY <1>1, StampsPushed
<1>4. IInv'
  BY <1>1, <1>2, <1>3 DEF IInv, TypeOK, RingOK
<1>5. clock \in Nat /\ clock' > clock /\ clock' - 1 = lc
  BY <1>1, IInvRing
<1>6. Kept' = Push(Kept, [lc |-> clock' - 1, msg |-> m], Capacity)
  BY <1>2, <1>5 DEF x
<1> QED BY <1>4, <1>5, <1>6 DEF Log!Add, Log!Push, Push, Log!Latest, Latest, Log!Lesser, Lesser

\* An answer: one step of the bounded log that changes only the reply.
LEMMA ReadStep ==
  ASSUME IInv, NEW n \in 1..Capacity, reply' = Latest(Kept, n),
         UNCHANGED <<slots, size, overflow, clock>>
  PROVE  IInv' /\ Log!Read(n)
<1>1. Kept' = Kept
  BY DEF Kept, Element
<1>2. reply' \in Seq(Item)
  <2>1. Kept \in Seq(Item) /\ n \in Nat
    BY IInvRing, KeptProperties, CapacityAssumption DEF KeptOK
  <2> QED BY <2>1, LatestProperties
<1>3. IInv'
  BY <1>1, <1>2 DEF IInv, TypeOK, Filled, StampsIncrease
<1> QED BY <1>1, <1>3 DEF Log!Read, Log!Latest, Latest, Log!Lesser, Lesser

\* Every step keeps the invariant and is a step of the bounded log.
LEMMA NextStep ==
  ASSUME IInv, [Next]_vars
  PROVE  IInv' /\ [Log!Next]_(Log!vars)
<1>1. ASSUME NEW m \in Message, HandlePublish(m)
      PROVE  IInv' /\ Log!Add(m)
  <2>1. clock \in Nat /\ clock >= clock
    BY IInvRing
  <2> QED BY <1>1, <2>1, NewMessageStep DEF HandlePublish
<1>2. ASSUME NEW m \in Message, NEW lc \in Stamps, ParseMessage(lc, m)
      PROVE  IInv' /\ Log!Add(m)
  <2> DEFINE raised == Greater(clock, lc)
  <2>1. raised \in Nat /\ raised >= clock
    BY IInvRing, BoardAssumption DEF Greater
  <2>2. NewMessage(raised, m) /\ UNCHANGED reply
    BY <1>2 DEF ParseMessage
  <2> HIDE DEF raised
  <2> QED BY <2>1, <2>2, NewMessageStep
<1>3. ASSUME NEW num \in Asked, HandleGetMessages(num)
      PROVE  \E n \in 1..Capacity : IInv' /\ Log!Read(n)
  <2> DEFINE n == IF num < 0 THEN Capacity ELSE Lesser(num, Capacity)
             few == Lesser(n, size)
  <2>1. n \in 1..Capacity /\ num # 0
    BY <1>3, BoardAssumption, CapacityAssumption DEF HandleGetMessages, Lesser
  <2>2. reply' = GetFirst(few) /\ UNCHANGED <<slots, size, overflow, clock>>
    BY <1>3 DEF HandleGetMessages
  <2> HIDE DEF n
  <2>3. Len(Kept) = Lesser(size, Capacity) /\ size \in Nat
    BY IInvRing, KeptProperties DEF KeptOK, RingOK
  <2>4. GetFirst(few) = Latest(Kept, n)
    <3>1. CASE size = 0
      <4>1. Lesser(n, Len(Kept)) = 0
        BY <2>1, <2>3, <3>1, CapacityAssumption DEF Lesser
      <4>2. Latest(Kept, n) = <<>>
        BY <4>1 DEF Latest
      <4> QED BY <3>1, <4>2 DEF GetFirst
    <3>2. CASE size # 0
      <4>1. few \in 1..Capacity
        BY <2>1, <2>3, <3>2, CapacityAssumption DEF Lesser
      <4>2. Lesser(few, Len(Kept)) = Lesser(n, Len(Kept))
        BY <2>1, <2>3, CapacityAssumption DEF Lesser
      <4> HIDE DEF few
      <4>3. GetFirst(few) = Latest(Kept, few)
        BY <4>1, IInvRing, GetFirstIsLatest
      <4>4. Latest(Kept, few) = Latest(Kept, n)
        BY <4>2 DEF Latest
      <4> QED BY <4>3, <4>4
    <3> QED BY <3>1, <3>2
  <2> QED BY <2>1, <2>2, <2>4, ReadStep
<1>4. ASSUME HandleSgetMessages
      PROVE  IInv' /\ Log!Read(Capacity)
  <2>1. Capacity \in 1..Capacity
    BY CapacityAssumption
  <2>2. GetFirst(Capacity) = Latest(Kept, Capacity)
    BY <2>1, IInvRing, GetFirstIsLatest
  <2> QED BY <1>4, <2>1, <2>2, ReadStep DEF HandleSgetMessages
<1>5. ASSUME UNCHANGED vars
      PROVE  IInv' /\ UNCHANGED Log!vars
  <2>1. Kept' = Kept
    BY <1>5 DEF vars, Kept, Element
  <2> QED BY <1>5, <2>1
      DEF vars, Log!vars, IInv, TypeOK, Filled, StampsIncrease
<1>6. Capacity \in 1..Capacity
  BY CapacityAssumption
<1> QED BY <1>1, <1>2, <1>3, <1>4, <1>5, <1>6 DEF Next, Log!Next

-----------------------------------------------------------------------------
(* The theorems. *)

\* Whatever is published, received and asked for, the ring, the clock and the
\* answers hold values of their types: no empty slot is ever sent.
THEOREM TypeCorrect == Spec => []TypeOK
<1>1. IInv /\ [Next]_vars => IInv'
  BY NextStep
<1>2. IInv => TypeOK
  BY DEF IInv
<1> QED BY InitIInv, <1>1, <1>2, PTL DEF Spec

\* From the oldest message kept to the newest the stamps grow, and the clock
\* is past them (new_message, parse_message).
THEOREM StampsAlwaysIncrease == Spec => []StampsIncrease
<1>1. IInv /\ [Next]_vars => IInv'
  BY NextStep
<1>2. IInv => StampsIncrease
  BY DEF IInv
<1> QED BY InitIInv, <1>1, <1>2, PTL DEF Spec

\* The ring of util_matrix.c with get_first_n_messages implements the bounded
\* log, for every capacity and either value of the flag at the start.
THEOREM RingImplementsLog == Spec => LogSpec
<1>1. Init => Log!Init
  <2> SUFFICES ASSUME Init PROVE Log!Init
    OBVIOUS
  <2>1. Lesser(size, Capacity) = 0
    BY CapacityAssumption DEF Init, Lesser
  <2>2. Kept = <<>>
    BY <2>1 DEF Kept
  <2> QED BY <2>2 DEF Init, Log!Init
<1>2. IInv /\ [Next]_vars => IInv' /\ [Log!Next]_(Log!vars)
  BY NextStep
<1> QED BY InitIInv, <1>1, <1>2, PTL DEF Spec, LogSpec, Log!Spec

=============================================================================
