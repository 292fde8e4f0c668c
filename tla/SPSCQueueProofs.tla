-------------------------- MODULE SPSCQueueProofs --------------------------
(***************************************************************************)
(* The queue hands its slots over in order for every size, every block     *)
(* size and every number of items, whatever order the fences leave to the  *)
(* stores: SlotsHandedOver.  It is a first-in first-out queue of bounded   *)
(* capacity: ImplementsFIFO.  And an enqueue fails only when at least size *)
(* elements are inside: FailsOnlyWhenFull.                                 *)
(*                                                                         *)
(* The code knows a position as an index into a block, which says nothing  *)
(* of how often the index went round.  The invariant says that there is a  *)
(* history, in which every element that went through a block is counted,   *)
(* and that the indices, the slots and the stores that wait are what this  *)
(* history makes them.  A step of the program is then a step of the        *)
(* history, and that a slot is not used twice is arithmetic of its counts. *)
(* What is inside are the numbers from the last that came out to the last  *)
(* that the tail of the last block shows, so that a step of the history is *)
(* a step of FIFO or leaves what is inside as it is.  And when the block   *)
(* after the producer's is the consumer's, the others are all full.        *)
(***************************************************************************)
EXTENDS SPSCQueue, FiniteSetTheorems, WellFoundedInduction, TLAPS

-----------------------------------------------------------------------------
(* Indices into a block *)

LEMMA DivMod ==
    ASSUME NEW a \in Int, NEW n \in Nat \ {0}
    PROVE  /\ a \div n \in Int /\ (a % n) \in 0 .. n - 1
           /\ a = n * (a \div n) + (a % n)
OBVIOUS

LEMMA Times ==
    ASSUME NEW n \in Nat \ {0}, NEW p \in Int, NEW q \in Int, p < q
    PROVE  n * p + n <= n * q
OBVIOUS

LEMMA DivUnique ==
    ASSUME NEW n \in Nat \ {0}, NEW p \in Int, NEW q \in Int,
           NEW r \in 0 .. n - 1, NEW s \in 0 .. n - 1, n * p + r = n * q + s
    PROVE  p = q /\ r = s
<1>1. ~(p < q)
  <2> SUFFICES ASSUME p < q PROVE FALSE OBVIOUS
  <2>1. n * p + n <= n * q BY Times
  <2> QED BY <2>1
<1>2. ~(q < p)
  <2> SUFFICES ASSUME q < p PROVE FALSE OBVIOUS
  <2>1. n * q + n <= n * p BY Times
  <2> QED BY <2>1
<1> QED BY <1>1, <1>2

\* Two counts less than a block apart are at different slots.
LEMMA SlotUnique ==
    ASSUME NEW a \in Int, NEW b \in Int, NEW n \in Nat \ {0},
           a <= b, b < a + n, a % n = b % n
    PROVE  a = b
<1> DEFINE p == a \div n
           q == b \div n
           r == a % n
<1>1. p \in Int /\ q \in Int /\ r \in 0 .. n - 1 /\ a = n * p + r /\ b = n * q + r
  BY DivMod
<1> HIDE DEF p, q, r
<1>2. ~(p < q)
  <2> SUFFICES ASSUME p < q PROVE FALSE OBVIOUS
  <2>1. n * p + n <= n * q BY <1>1, Times
  <2> QED BY <2>1, <1>1
<1>3. ~(q < p)
  <2> SUFFICES ASSUME q < p PROVE FALSE OBVIOUS
  <2>1. n * q + n <= n * p BY <1>1, Times
  <2> QED BY <2>1, <1>1
<1> QED BY <1>1, <1>2, <1>3

\* The slot after one, and the slot a block further.
LEMMA SlotStep ==
    ASSUME NEW a \in Int, NEW n \in Nat \ {0}
    PROVE  ((a % n) + 1) % n = (a + 1) % n /\ (a + n) % n = a % n
<1> DEFINE q == a \div n
           r == a % n
           q1 == (r + 1) \div n
           r1 == (r + 1) % n
           q2 == (a + 1) \div n
           r2 == (a + 1) % n
           q3 == (a + n) \div n
           r3 == (a + n) % n
<1>1. q \in Int /\ r \in 0 .. n - 1 /\ a = n * q + r BY DivMod
<1>2. q1 \in Int /\ r1 \in 0 .. n - 1 /\ r + 1 = n * q1 + r1 BY DivMod, <1>1
<1>3. q2 \in Int /\ r2 \in 0 .. n - 1 /\ a + 1 = n * q2 + r2 BY DivMod
<1>4. q3 \in Int /\ r3 \in 0 .. n - 1 /\ a + n = n * q3 + r3 BY DivMod
<1> HIDE DEF q, r, q1, r1, q2, r2, q3, r3
<1>5. n * (q + q1) + r1 = n * q2 + r2
  <2>1. n * (q + q1) = n * q + n * q1 BY <1>1, <1>2
  <2> QED BY <2>1, <1>1, <1>2, <1>3
<1>6. n * (q + 1) + r = n * q3 + r3
  <2>1. n * (q + 1) = n * q + n BY <1>1
  <2> QED BY <2>1, <1>1, <1>4
<1>7. r1 = r2 BY <1>5, <1>1, <1>2, <1>3, DivUnique
<1>8. r = r3 BY <1>6, <1>1, <1>4, DivUnique
<1> QED BY <1>7, <1>8 DEF r, r1, r2, r3

\* The slots between two counts, and the slot k further.
LEMMA SlotMinus ==
    ASSUME NEW a \in Int, NEW b \in Int, NEW n \in Nat \ {0}, a <= b, b < a + n
    PROVE  ((b % n) - (a % n)) % n = b - a
<1> DEFINE p == a \div n
           r == a % n
           q == b \div n
           s == b % n
           u == (s - r) \div n
           t == (s - r) % n
<1>1. p \in Int /\ r \in 0 .. n - 1 /\ a = n * p + r BY DivMod
<1>2. q \in Int /\ s \in 0 .. n - 1 /\ b = n * q + s BY DivMod
<1>3. u \in Int /\ t \in 0 .. n - 1 /\ s - r = n * u + t BY DivMod, <1>1, <1>2
<1> HIDE DEF p, r, q, s, u, t
<1>4. n * (q - p + u) + t = n * 0 + (b - a)
  <2>1. n * (q - p + u) = n * q - n * p + n * u BY <1>1, <1>2, <1>3
  <2>2. n * 0 = 0 OBVIOUS
  <2> QED BY <2>1, <2>2, <1>1, <1>2, <1>3
<1>5. b - a \in 0 .. n - 1 OBVIOUS
<1>6. q - p + u \in Int BY <1>1, <1>2, <1>3
<1>7. t = b - a
  <2> HIDE <1>1, <1>2
  <2> QED BY <1>3, <1>4, <1>5, <1>6, DivUnique
<1> QED BY <1>7 DEF t, s, r

LEMMA SlotPlus ==
    ASSUME NEW a \in Int, NEW k \in Int, NEW n \in Nat \ {0}
    PROVE  ((a % n) + k) % n = (a + k) % n
<1> DEFINE q == a \div n
           r == a % n
           q1 == (r + k) \div n
           r1 == (r + k) % n
           q2 == (a + k) \div n
           r2 == (a + k) % n
<1>1. q \in Int /\ r \in 0 .. n - 1 /\ a = n * q + r BY DivMod
<1>2. q1 \in Int /\ r1 \in 0 .. n - 1 /\ r + k = n * q1 + r1 BY DivMod, <1>1
<1>3. q2 \in Int /\ r2 \in 0 .. n - 1 /\ a + k = n * q2 + r2 BY DivMod
<1> HIDE DEF q, r, q1, r1, q2, r2
<1>4. n * (q + q1) + r1 = n * q2 + r2
  <2>1. n * (q + q1) = n * q + n * q1 BY <1>1, <1>2
  <2> QED BY <2>1, <1>1, <1>2, <1>3
<1>5. q + q1 \in Int BY <1>1, <1>2
<1>6. r1 = r2
  <2>1. q2 \in Int /\ r1 \in 0 .. n - 1 /\ r2 \in 0 .. n - 1 BY <1>2, <1>3
  <2>2. \A x \in Int : n * x + r1 = n * q2 + r2 => r1 = r2 BY <2>1, DivUnique
  <2> QED BY <1>4, <1>5, <2>2
<1> QED BY <1>6 DEF r, r1, r2

-----------------------------------------------------------------------------
(* Induction and sums *)

LEMMA Induct ==
    ASSUME NEW S, 0 \in S, \A n \in Nat : n \in S => n + 1 \in S
    PROVE  Nat \subseteq S
<1> DEFINE R == {ss \in Nat \X Nat : ss[1] < ss[2]}
           T == Nat \ S
<1> SUFFICES ASSUME T # {} PROVE FALSE
  OBVIOUS
<1>1. IsWellFoundedOn(R, Nat)
  BY NatLessThanWellFounded DEF OpToRel
<1>2. \E x \in T : \A y \in T : <<y, x>> \notin R
  <2>1. T \subseteq Nat
    OBVIOUS
  <2> HIDE DEF R, T
  <2>2. \A X : X \subseteq Nat /\ X # {} => \E x \in X : \A y \in X : <<y, x>> \notin R
    BY <1>1, WFMin
  <2> QED BY <2>1, <2>2
<1>3. PICK x \in T : \A y \in T : <<y, x>> \notin R
  BY <1>2
<1>4. x \in Nat /\ x # 0 /\ x - 1 \in Nat /\ (x - 1) + 1 = x
  BY <1>3
<1>5. x - 1 \in T
  BY <1>3, <1>4
<1>6. <<x - 1, x>> \in R
  <2>1. <<x - 1, x>> \in Nat \X Nat /\ x - 1 < x
    BY <1>4
  <2> QED BY <2>1
<1>7. <<x - 1, x>> \notin R
  <2> HIDE DEF R
  <2> QED BY <1>3, <1>5
<1> QED BY <1>6, <1>7

\* A sum over a set of blocks, as Occupied takes it: all blocks but one add at
\* least m.
Member(s) == CHOOSE x \in s : TRUE
Summing(B, used, f) ==
    [s \in SUBSET B |-> IF s = {} THEN 0 ELSE used[Member(s)] + f[s \ {Member(s)}]]

LEMMA SumExists ==
    ASSUME NEW B, IsFiniteSet(B), NEW used
    PROVE  \E f : f = Summing(B, used, f)
<1> DEFINE Further(f) == Summing(B, used, f)
           Right(f, n) == \A s \in SUBSET B : Cardinality(s) < n => f[s] = Further(f)[s]
           S == {n \in Nat : \E f : Right(f, n)}
<1>1. \A s \in SUBSET B : IsFiniteSet(s) /\ Cardinality(s) \in Nat
                          /\ Cardinality(s) <= Cardinality(B) /\ Cardinality(B) \in Nat
  BY FS_Subset, FS_CardinalityType
<1>2. 0 \in S
  <2>1. Right(used, 0)
    BY <1>1
  <2> HIDE DEF Right
  <2> QED BY <2>1
<1>3. ASSUME NEW n \in Nat, n \in S
      PROVE  n + 1 \in S
  <2>1. PICK f : Right(f, n)
    <3> HIDE DEF Right
    <3> QED BY <1>3
  <2>2. ASSUME NEW s \in SUBSET B, Cardinality(s) < n + 1
        PROVE  Further(f)[s] = Further(Further(f))[s]
    <3>1. CASE s = {}
      BY <3>1 DEF Summing
    <3>2. CASE s # {}
      <4> DEFINE r == s \ {Member(s)}
      <4>1. Member(s) \in s
        BY <3>2 DEF Member
      <4>2. r \in SUBSET B /\ Cardinality(r) = Cardinality(s) - 1
        BY <1>1, <4>1, FS_RemoveElement
      <4>3. Cardinality(r) < n
        BY <1>1, <2>2, <4>2
      <4> HIDE DEF r
      <4>4. f[r] = Further(f)[r]
        <5> HIDE DEF Further
        <5> QED BY <2>1, <4>2, <4>3
      <4>5. /\ Further(f)[s] = used[Member(s)] + f[r]
            /\ Further(Further(f))[s] = used[Member(s)] + Further(f)[r]
        <5>1. \A k : Further(k)[s] = used[Member(s)] + k[s \ {Member(s)}]
          BY <3>2 DEF Summing
        <5> HIDE DEF Further
        <5> QED BY <5>1 DEF r
      <4> HIDE DEF Further
      <4> QED BY <4>4, <4>5
    <3> QED BY <3>1, <3>2
  <2>3. Right(Further(f), n + 1)
    <3> HIDE DEF Further
    <3> QED BY <2>2
  <2> HIDE DEF Right, Further
  <2> QED BY <2>3
<1>4. Cardinality(B) + 1 \in S
  <2> HIDE DEF S
  <2>1. Nat \subseteq S
    BY <1>2, <1>3, Induct
  <2>2. B \in SUBSET B
    OBVIOUS
  <2>3. Cardinality(B) \in Nat
    BY <1>1, <2>2
  <2> QED BY <2>1, <2>3
<1>5. PICK f : Right(f, Cardinality(B) + 1)
  <2> HIDE DEF Right
  <2> QED BY <1>4
<1>6. ASSUME NEW s \in SUBSET B
      PROVE  f[s] = Further(f)[s]
  <2>1. Cardinality(s) < Cardinality(B) + 1
    BY <1>1
  <2> HIDE DEF Further
  <2> QED BY <1>5, <2>1
<1>7. Further(f) = Further(Further(f))
  <2>1. ASSUME NEW s \in SUBSET B
        PROVE  Further(f)[s] = Further(Further(f))[s]
    <3>1. CASE s = {}
      BY <3>1 DEF Summing
    <3>2. CASE s # {}
      <4>1. s \ {Member(s)} \in SUBSET B
        OBVIOUS
      <4>2. \A k : Further(k)[s] = used[Member(s)] + k[s \ {Member(s)}]
        BY <3>2 DEF Summing
      <4>3. f[s \ {Member(s)}] = Further(f)[s \ {Member(s)}]
        <5> HIDE DEF Further
        <5> QED BY <1>6, <4>1
      <4> HIDE DEF Further
      <4> QED BY <4>2, <4>3
    <3> QED BY <3>1, <3>2
  <2>2. \A k : DOMAIN Further(k) = SUBSET B /\ Further(k) = [s \in SUBSET B |-> Further(k)[s]]
    BY DEF Summing
  <2> HIDE DEF Further
  <2> QED BY <2>1, <2>2
<1> QED BY <1>7

LEMMA SumBound ==
    ASSUME NEW B, IsFiniteSet(B), NEW used \in [B -> Nat], NEW m \in Nat, NEW but,
           \A b \in B \ {but} : used[b] >= m, NEW f, f = Summing(B, used, f)
    PROVE  f[B] \in Nat /\ f[B] >= m * Cardinality(B \ {but})
<1> DEFINE Enough(s) == f[s] \in Nat /\ f[s] >= m * Cardinality(s \ {but})
           S == {n \in Nat : \A s \in SUBSET B : Cardinality(s) = n => Enough(s)}
<1>1. \A s \in SUBSET B : IsFiniteSet(s) /\ Cardinality(s) \in Nat
  BY FS_Subset, FS_CardinalityType
<1>2. \A s \in SUBSET B : f[s] = IF s = {} THEN 0 ELSE used[Member(s)] + f[s \ {Member(s)}]
  BY DEF Summing
<1>3. 0 \in S
  <2> SUFFICES ASSUME NEW s \in SUBSET B, Cardinality(s) = 0
               PROVE  Enough(s)
    OBVIOUS
  <2>1. s = {}
    BY <1>1, FS_EmptySet
  <2>2. f[s] = 0 /\ s \ {but} = {}
    BY <1>2, <2>1
  <2>3. Cardinality(s \ {but}) = 0
    BY <2>2, FS_EmptySet
  <2> QED BY <2>2, <2>3
<1>4. ASSUME NEW n \in Nat, n \in S
      PROVE  n + 1 \in S
  <2> SUFFICES ASSUME NEW s \in SUBSET B, Cardinality(s) = n + 1
               PROVE  Enough(s)
    OBVIOUS
  <2>1. s # {}
    <3>1. Cardinality({}) = 0
      BY FS_EmptySet
    <3> QED BY <3>1
  <2> DEFINE x == Member(s)
             r == s \ {x}
             k == Cardinality(r \ {but})
  <2>2. x \in s /\ x \in B
    BY <2>1 DEF Member
  <2>3. r \in SUBSET B /\ Cardinality(r) = n
    <3>1. Cardinality(r) = Cardinality(s) - 1
      BY <1>1, <2>2, FS_RemoveElement
    <3> QED BY <3>1
  <2>4. f[s] = used[x] + f[r]
    BY <1>2, <2>1
  <2> HIDE DEF x
  <2>5. f[r] \in Nat /\ f[r] >= m * k
    BY <1>4, <2>3
  <2>6. k \in Nat /\ used[x] \in Nat
    <3>1. r \ {but} \in SUBSET B
      BY <2>3
    <3> QED BY <1>1, <2>2, <3>1
  <2>7. CASE x = but
    <3>1. s \ {but} = r \ {but}
      BY <2>7
    <3>2. Cardinality(s \ {but}) = k
      BY <3>1
    <3>3. m * k \in Nat
      <4> HIDE DEF k
      <4> QED BY <2>6
    <3> HIDE DEF k
    <3> QED BY <2>4, <2>5, <2>6, <3>2, <3>3
  <2>8. CASE x # but
    <3> DEFINE t == s \ {but}
    <3>1. t \in SUBSET B /\ x \in t /\ r \ {but} = t \ {x}
      BY <2>2, <2>8
    <3>2. IsFiniteSet(t) /\ Cardinality(t) \in Nat
      BY <1>1, <3>1
    <3> HIDE DEF t
    <3>3. k = Cardinality(t) - 1
      BY <3>1, <3>2, FS_RemoveElement
    <3> HIDE DEF k
    <3>4. Cardinality(t) = k + 1 /\ used[x] >= m
      BY <2>2, <2>6, <2>8, <3>2, <3>3
    <3>5. m * (k + 1) = m * k + m /\ m * k \in Nat
      BY <2>6
    <3>6. f[s] \in Nat /\ f[s] >= m * (k + 1)
      BY <2>4, <2>5, <2>6, <3>4, <3>5
    <3> QED BY <3>4, <3>6 DEF t
  <2> QED BY <2>7, <2>8
<1>5. Cardinality(B) \in S
  <2> HIDE DEF S
  <2>1. Nat \subseteq S
    BY <1>3, <1>4, Induct
  <2>2. Cardinality(B) \in Nat
    BY FS_CardinalityType
  <2> QED BY <2>1, <2>2
<1> QED BY <1>5

-----------------------------------------------------------------------------
(* The ring *)

Shape == /\ blockSize \in Nat /\ blockSize > 1
         /\ initialBlockCount \in Nat \ {0} /\ 1 \in Block
         /\ \A b \in Block : next(b) \in Block
         /\ \A a, b \in Block : next(a) = next(b) => a = b

LEMMA Shaped == ASSUME size \in Sizes PROVE Shape
<1>1. size \in Nat /\ size > 0 /\ MAX_BLOCK_SIZE \in Nat /\ MAX_BLOCK_SIZE > 1
  BY SPSCAssumption
<1>2. blockSize \in Nat \ {0, 1}
  BY <1>1, SPSCAssumption DEF blockSize
<1>3. initialBlockCount \in Nat \ {0}
  <2> DEFINE m == MAX_BLOCK_SIZE - 1
             a == size + MAX_BLOCK_SIZE * 2 - 3
             q == a \div m
  <2>1. m \in Nat \ {0} /\ a \in Nat /\ a >= m BY <1>1
  <2>2. q \in Int /\ (a % m) \in 0 .. m - 1 /\ a = m * q + (a % m)
    <3> HIDE DEF m, a
    <3> QED BY <2>1, DivMod DEF q
  <2>3. q >= 1
    <3> HIDE DEF m, q, a
    <3> SUFFICES ASSUME q < 1 PROVE FALSE BY <2>2
    <3>1. m * q + m <= m * 1 BY <2>1, <2>2, Times
    <3>2. m * 1 = m BY <2>1
    <3> QED BY <3>1, <3>2, <2>1, <2>2
  <2> QED BY <2>2, <2>3, <1>1 DEF initialBlockCount
<1>4. blockSize > 1 BY <1>2
<1> QED BY <1>2, <1>3, <1>4 DEF Shape, Block, next

(* History *)

\* g counts, for every block, the elements that ever went through it, where the
\* code keeps an index into the block; a slot is such a count modulo blockSize.
\* The numbers of the producer's stores to tail and of the consumer's to front
\* are put and taken; shown and freed are those that are visible; filled and
\* cleared the stores to the slots that are visible; knownFront and knownTail
\* the copies.  turn numbers the blocks in the order the producer took them up,
\* first is what put was then, and base the number of the element at count 0.
History == [knownFront : [Block -> Nat], freed : [Block -> Nat],
            cleared : [Block -> Nat], taken : [Block -> Nat],
            knownTail : [Block -> Nat], shown : [Block -> Nat],
            put : [Block -> Nat], filled : [Block -> Nat],
            base : [Block -> Int], first : [Block -> Int], turn : [Block -> Int],
            front : Block, seenFront : Block, tail : Block, seenTail : Block,
            sent : Nat, got : Nat]

Hist(knownFront, freed, cleared, taken, knownTail, shown, put, filled, base,
     first, turn, front_, seenFront, tail_, seenTail, sent, got_) ==
    [knownFront |-> knownFront, freed |-> freed, cleared |-> cleared,
     taken |-> taken, knownTail |-> knownTail, shown |-> shown, put |-> put,
     filled |-> filled, base |-> base, first |-> first, turn |-> turn,
     front |-> front_, seenFront |-> seenFront, tail |-> tail_,
     seenTail |-> seenTail, sent |-> sent, got |-> got_]

\* h is g but for these
Same(g, h, but) ==
    /\ g \in History /\ h \in History
    /\ "knownFront" \in but \/ h.knownFront = g.knownFront
    /\ "freed" \in but \/ h.freed = g.freed
    /\ "cleared" \in but \/ h.cleared = g.cleared
    /\ "taken" \in but \/ h.taken = g.taken
    /\ "knownTail" \in but \/ h.knownTail = g.knownTail
    /\ "shown" \in but \/ h.shown = g.shown
    /\ "put" \in but \/ h.put = g.put
    /\ "filled" \in but \/ h.filled = g.filled
    /\ "base" \in but \/ h.base = g.base
    /\ "first" \in but \/ h.first = g.first
    /\ "turn" \in but \/ h.turn = g.turn
    /\ "front" \in but \/ h.front = g.front
    /\ "seenFront" \in but \/ h.seenFront = g.seenFront
    /\ "tail" \in but \/ h.tail = g.tail
    /\ "seenTail" \in but \/ h.seenTail = g.seenTail
    /\ "sent" \in but \/ h.sent = g.sent
    /\ "got" \in but \/ h.got = g.got

\* what is counted is done in this order, and there is room for it
Chain(g) ==
    \A b \in Block :
        /\ g.knownFront[b] <= g.freed[b] /\ g.freed[b] <= g.cleared[b]
        /\ g.cleared[b] <= g.taken[b] /\ g.taken[b] <= g.knownTail[b]
        /\ g.knownTail[b] <= g.shown[b] /\ g.shown[b] <= g.put[b]
        /\ g.put[b] < g.knownFront[b] + blockSize
        /\ g.taken[b] <= g.filled[b] /\ g.filled[b] <= g.put[b]

\* each thread goes round the ring, and knows the other's block or an earlier one
Ring(g) ==
    /\ g.turn[g.seenFront] >= 0
    /\ g.turn[g.seenFront] <= g.turn[g.front]
    /\ g.turn[g.front] <= g.turn[g.seenTail]
    /\ g.turn[g.seenTail] <= g.turn[g.tail]
    /\ \A b \in Block : /\ g.turn[next(g.tail)] <= g.turn[b]
                        /\ g.turn[b] <= g.turn[g.tail]
                        /\ b # g.tail => g.turn[next(b)] = g.turn[b] + 1
    /\ \A a, b \in Block : g.turn[a] = g.turn[b] => a = b

\* what is true of a block, by where it is in the ring
Places(g) ==
    \A b \in Block :
        /\ g.turn[b] < g.turn[g.seenFront] => g.freed[b] = g.put[b]
        /\ g.turn[b] < g.turn[g.front] => g.taken[b] = g.put[b]
        /\ g.turn[b] < g.turn[g.seenTail] => g.shown[b] = g.put[b]
        /\ g.turn[b] <= g.turn[g.seenTail] => g.shown[b] <= g.filled[b]
        /\ g.turn[g.seenTail] < g.turn[b] => g.shown[b] <= g.first[b] + 1
        /\ g.turn[g.front] < g.turn[b] => g.taken[b] = g.first[b]
        /\ g.turn[g.seenFront] < g.turn[b] => g.first[b] <= g.freed[b]
        /\ g.turn[b] <= g.turn[g.seenTail] => g.first[b] < g.shown[b]
        /\ g.first[b] < g.put[b]

\* the elements are numbered through the blocks of the ring
Numbered(g) ==
    /\ g.base[g.tail] + g.put[g.tail] = g.sent + 1
    /\ g.base[g.front] + g.taken[g.front] = g.got + 1
    /\ \A b \in Block :
           g.turn[g.front] <= g.turn[b] /\ g.turn[b] < g.turn[g.tail]
               => g.base[b] + g.put[b] = g.base[next(b)] + g.taken[next(b)]
    /\ \A a, b \in Block :
           g.turn[g.seenFront] <= g.turn[a] /\ g.turn[a] < g.turn[b]
               => g.base[a] + g.put[a] <= g.base[b] + g.first[b]

\* the producer leaves a block only when it is full, and nothing of a block is
\* free to it before it sees the consumer there
Packed(g) ==
    \A b \in Block :
        /\ g.first[b] <= g.knownFront[b]
        /\ g.turn[g.seenFront] < g.turn[b] => g.freed[b] = g.first[b]
        /\ g.turn[g.seenFront] < g.turn[b] /\ g.turn[b] < g.turn[g.tail]
               => g.put[b] = g.first[b] + blockSize - 1

Good(g) == /\ size \in Sizes /\ g \in History
           /\ Chain(g) /\ Ring(g) /\ Places(g) /\ Numbered(g) /\ Packed(g)

(* The queue is what the history says *)

Indices(g) ==
    /\ mem \in [Location -> Int]
    /\ DOMAIN producer = {"pc", "sent", "full"}
    /\ DOMAIN consumer = {"pc", "block", "result"}
    /\ got \in Seq(Int) /\ \A i \in DOMAIN got : got[i] = i
    /\ DOMAIN stores = Thread /\ DOMAIN fences = Thread
    /\ localFront \in [Block -> Int] /\ localTail \in [Block -> Int]
    /\ mem[frontBlock] = g.seenFront /\ mem[tailBlock] = g.seenTail
    /\ producer.sent = g.sent /\ Len(got) = g.got
    /\ \A b \in Block :
           /\ mem[front(b)] = g.freed[b] % blockSize
           /\ mem[tail(b)] = g.shown[b] % blockSize
           /\ localFront[b] = g.knownFront[b] % blockSize
           /\ localTail[b] = g.knownTail[b] % blockSize

\* a slot holds an element from when it is filled until it is cleared
Slots(g) ==
    \A b \in Block : \A c \in g.freed[b] .. g.freed[b] + blockSize - 1 :
        mem[data(b, c % blockSize)] =
            IF g.cleared[b] <= c /\ c < g.filled[b] THEN g.base[b] + c ELSE Nothing

\* the stores that wait, and the fences before each
Filling(g, b, c) == [loc |-> data(b, c % blockSize), val |-> g.base[b] + c,
                     after |-> g.base[b] + c - 1]
Showing(g, b, c) == [loc |-> tail(b), val |-> (c + 1) % blockSize,
                     after |-> IF c = g.first[b] THEN g.base[b] + c - 1
                               ELSE g.base[b] + c]
Entering(g, b) == [loc |-> tailBlock, val |-> b, after |-> g.base[b] + g.first[b]]
Clearing(g, b, c) == [loc |-> data(b, c % blockSize), val |-> Nothing,
                      after |-> g.base[b] + c - 1 + g.turn[b]]
Freeing(g, b, c) == [loc |-> front(b), val |-> (c + 1) % blockSize,
                     after |-> g.base[b] + c + g.turn[b]]
Leaving(g, b) == [loc |-> frontBlock, val |-> b,
                  after |-> g.base[b] + g.first[b] - 1 + g.turn[b]]
Done(g) == [loc |-> done_, val |-> 1, after |-> g.sent + 1]

\* the counts of blocks from lo up to hi
Between(lo, hi) == {p \in Block \X Nat : lo[p[1]] <= p[2] /\ p[2] < hi[p[1]]}

Filled(g) == {Filling(g, p[1], p[2]) : p \in Between(g.filled, g.put)}
Shown(g) == {Showing(g, p[1], p[2]) : p \in Between(g.shown, g.put)}
Entered(g) == {Entering(g, b) : b \in {b \in Block : g.turn[g.seenTail] < g.turn[b]}}
Cleared(g) == {Clearing(g, p[1], p[2]) : p \in Between(g.cleared, g.taken)}
Freed(g) == {Freeing(g, p[1], p[2]) : p \in Between(g.freed, g.taken)}
Left(g) == {Leaving(g, b) : b \in {b \in Block : /\ g.turn[g.seenFront] < g.turn[b]
                                                 /\ g.turn[b] <= g.turn[g.front]}}
Finished(g) == IF producer.pc = "stopped" /\ mem[done_] = 0 THEN {Done(g)} ELSE {}

Buffers(g) ==
    /\ stores["producer"] = Filled(g) \cup Shown(g) \cup Entered(g) \cup Finished(g)
    /\ stores["consumer"] = Cleared(g) \cup Freed(g) \cup Left(g)
    /\ fences["producer"] = IF producer.pc = "stopped" THEN g.sent + 1 ELSE g.sent
    /\ fences["consumer"] = g.got + g.turn[g.front]

\* what the threads found out on their way
Found(g) ==
    /\ producer.pc # "stopped" => mem[done_] = 0
    /\ producer.pc = "free" => g.turn[next(g.tail)] < g.turn[g.seenFront]
    /\ producer.pc \in {"ring", "free"}
           => g.put[g.tail] + 1 = g.knownFront[g.tail] + blockSize
    /\ producer.pc = "ring" /\ initialBlockCount = 1 => producer.full
    /\ consumer.pc = "take" => g.taken[g.front] < g.knownTail[g.front]
    /\ consumer.pc \in {"again", "advance"} => g.turn[g.front] < g.turn[g.seenTail]
    /\ consumer.pc = "advance" => g.taken[g.front] = g.put[g.front]

Held(g) == Good(g) /\ Indices(g) /\ Slots(g) /\ Buffers(g) /\ Found(g)

\* the producer puts an element into its block
Enqueued(g, h) ==
    /\ Same(g, h, {"put", "sent"})
    /\ h.put = [g.put EXCEPT ![g.tail] = @ + 1]
    /\ h.sent = g.sent + 1

\* the producer copies front
LookedFront(g, h, b) ==
    /\ Same(g, h, {"knownFront"})
    /\ h.knownFront = [g.knownFront EXCEPT ![b] = g.freed[b]]

\* the producer takes up the next block and puts an element into it
TakenUp(g, h, b) ==
    /\ Same(g, h, {"knownFront", "put", "base", "first", "turn", "tail", "sent"})
    /\ h.knownFront = [g.knownFront EXCEPT ![b] = g.freed[b]]
    /\ h.put = [g.put EXCEPT ![b] = @ + 1]
    /\ h.base = [g.base EXCEPT ![b] = g.sent + 1 - g.put[b]]
    /\ h.first = [g.first EXCEPT ![b] = g.put[b]]
    /\ h.turn = [g.turn EXCEPT ![b] = g.turn[g.tail] + 1]
    /\ h.tail = b
    /\ h.sent = g.sent + 1

\* the consumer copies tail
LookedTail(g, h, b) ==
    /\ Same(g, h, {"knownTail"})
    /\ h.knownTail = [g.knownTail EXCEPT ![b] = g.shown[b]]

\* the consumer goes on to the next block, and copies its tail
Advanced(g, h, b) ==
    /\ Same(g, h, {"knownTail", "front"})
    /\ h.knownTail = [g.knownTail EXCEPT ![b] = g.shown[b]]
    /\ h.front = b

\* the consumer takes an element out of its block
Taken(g, h) ==
    /\ Same(g, h, {"taken", "got"})
    /\ h.taken = [g.taken EXCEPT ![g.front] = @ + 1]
    /\ h.got = g.got + 1

\* a store to a slot becomes visible, and so on
NowFilled(g, h, b) ==
    /\ Same(g, h, {"filled"})
    /\ h.filled = [g.filled EXCEPT ![b] = @ + 1]
NowShown(g, h, b) ==
    /\ Same(g, h, {"shown"})
    /\ h.shown = [g.shown EXCEPT ![b] = @ + 1]
NowEntered(g, h, b) ==
    /\ Same(g, h, {"seenTail"})
    /\ h.seenTail = b
NowCleared(g, h, b) ==
    /\ Same(g, h, {"cleared"})
    /\ h.cleared = [g.cleared EXCEPT ![b] = @ + 1]
NowFreed(g, h, b) ==
    /\ Same(g, h, {"freed"})
    /\ h.freed = [g.freed EXCEPT ![b] = @ + 1]
NowLeft(g, h, b) ==
    /\ Same(g, h, {"seenFront"})
    /\ h.seenFront = b

\* the last element inside as the queue shows it
LastShown(g) == g.base[g.seenTail] + g.shown[g.seenTail] - 1

\* what a step of the program does to a queue: nothing, one in, or one out
Moves(g, h) ==
    \/ LastShown(h) = LastShown(g) /\ h.got = g.got
    \/ LastShown(h) = LastShown(g) + 1 /\ h.got = g.got
    \/ LastShown(h) = LastShown(g) /\ h.got = g.got + 1

LEMMA NoMove ==
    ASSUME NEW g, NEW h, h.base = g.base, h.shown = g.shown, h.seenTail = g.seenTail,
           h.got = g.got
    PROVE  Moves(g, h)
BY DEF Moves, LastShown

LEMMA EnqueuedExists ==
    ASSUME NEW g \in History
    PROVE  \E h : Enqueued(g, h)
<1> DEFINE h == Hist(g.knownFront, g.freed, g.cleared, g.taken, g.knownTail,
                g.shown, [g.put EXCEPT ![g.tail] = @ + 1], g.filled, g.base,
                g.first, g.turn, g.front, g.seenFront, g.tail, g.seenTail,
                g.sent + 1, g.got)
<1>1. Enqueued(g, h) BY SMT DEF Enqueued, Same, History, Hist
<1> QED BY <1>1

LEMMA LookedFrontExists ==
    ASSUME NEW g \in History, NEW b \in Block
    PROVE  \E h : LookedFront(g, h, b)
<1> DEFINE h == Hist([g.knownFront EXCEPT ![b] = g.freed[b]], g.freed,
                g.cleared, g.taken, g.knownTail, g.shown, g.put, g.filled,
                g.base, g.first, g.turn, g.front, g.seenFront, g.tail,
                g.seenTail, g.sent, g.got)
<1>1. LookedFront(g, h, b) BY SMT DEF LookedFront, Same, History, Hist
<1> QED BY <1>1

LEMMA TakenUpExists ==
    ASSUME NEW g \in History, NEW b \in Block
    PROVE  \E h : TakenUp(g, h, b)
<1> DEFINE h == Hist([g.knownFront EXCEPT ![b] = g.freed[b]], g.freed,
                g.cleared, g.taken, g.knownTail, g.shown, [g.put EXCEPT ![b] =
                @ + 1], g.filled, [g.base EXCEPT ![b] = g.sent + 1 -
                g.put[b]], [g.first EXCEPT ![b] = g.put[b]], [g.turn EXCEPT
                ![b] = g.turn[g.tail] + 1], g.front, g.seenFront, b,
                g.seenTail, g.sent + 1, g.got)
<1>1. TakenUp(g, h, b) BY SMT DEF TakenUp, Same, History, Hist
<1> QED BY <1>1

LEMMA LookedTailExists ==
    ASSUME NEW g \in History, NEW b \in Block
    PROVE  \E h : LookedTail(g, h, b)
<1> DEFINE h == Hist(g.knownFront, g.freed, g.cleared, g.taken, [g.knownTail
                EXCEPT ![b] = g.shown[b]], g.shown, g.put, g.filled, g.base,
                g.first, g.turn, g.front, g.seenFront, g.tail, g.seenTail,
                g.sent, g.got)
<1>1. LookedTail(g, h, b) BY SMT DEF LookedTail, Same, History, Hist
<1> QED BY <1>1

LEMMA AdvancedExists ==
    ASSUME NEW g \in History, NEW b \in Block
    PROVE  \E h : Advanced(g, h, b)
<1> DEFINE h == Hist(g.knownFront, g.freed, g.cleared, g.taken, [g.knownTail
                EXCEPT ![b] = g.shown[b]], g.shown, g.put, g.filled, g.base,
                g.first, g.turn, b, g.seenFront, g.tail, g.seenTail, g.sent,
                g.got)
<1>1. Advanced(g, h, b) BY SMT DEF Advanced, Same, History, Hist
<1> QED BY <1>1

LEMMA TakenExists ==
    ASSUME NEW g \in History
    PROVE  \E h : Taken(g, h)
<1> DEFINE h == Hist(g.knownFront, g.freed, g.cleared, [g.taken EXCEPT
                ![g.front] = @ + 1], g.knownTail, g.shown, g.put, g.filled,
                g.base, g.first, g.turn, g.front, g.seenFront, g.tail,
                g.seenTail, g.sent, g.got + 1)
<1>1. Taken(g, h) BY SMT DEF Taken, Same, History, Hist
<1> QED BY <1>1

LEMMA NowFilledExists ==
    ASSUME NEW g \in History, NEW b \in Block
    PROVE  \E h : NowFilled(g, h, b)
<1> DEFINE h == Hist(g.knownFront, g.freed, g.cleared, g.taken, g.knownTail,
                g.shown, g.put, [g.filled EXCEPT ![b] = @ + 1], g.base,
                g.first, g.turn, g.front, g.seenFront, g.tail, g.seenTail,
                g.sent, g.got)
<1>1. NowFilled(g, h, b) BY SMT DEF NowFilled, Same, History, Hist
<1> QED BY <1>1

LEMMA NowShownExists ==
    ASSUME NEW g \in History, NEW b \in Block
    PROVE  \E h : NowShown(g, h, b)
<1> DEFINE h == Hist(g.knownFront, g.freed, g.cleared, g.taken, g.knownTail,
                [g.shown EXCEPT ![b] = @ + 1], g.put, g.filled, g.base,
                g.first, g.turn, g.front, g.seenFront, g.tail, g.seenTail,
                g.sent, g.got)
<1>1. NowShown(g, h, b) BY SMT DEF NowShown, Same, History, Hist
<1> QED BY <1>1

LEMMA NowEnteredExists ==
    ASSUME NEW g \in History, NEW b \in Block
    PROVE  \E h : NowEntered(g, h, b)
<1> DEFINE h == Hist(g.knownFront, g.freed, g.cleared, g.taken, g.knownTail,
                g.shown, g.put, g.filled, g.base, g.first, g.turn, g.front,
                g.seenFront, g.tail, b, g.sent, g.got)
<1>1. NowEntered(g, h, b) BY SMT DEF NowEntered, Same, History, Hist
<1> QED BY <1>1

LEMMA NowClearedExists ==
    ASSUME NEW g \in History, NEW b \in Block
    PROVE  \E h : NowCleared(g, h, b)
<1> DEFINE h == Hist(g.knownFront, g.freed, [g.cleared EXCEPT ![b] = @ + 1],
                g.taken, g.knownTail, g.shown, g.put, g.filled, g.base,
                g.first, g.turn, g.front, g.seenFront, g.tail, g.seenTail,
                g.sent, g.got)
<1>1. NowCleared(g, h, b) BY SMT DEF NowCleared, Same, History, Hist
<1> QED BY <1>1

LEMMA NowFreedExists ==
    ASSUME NEW g \in History, NEW b \in Block
    PROVE  \E h : NowFreed(g, h, b)
<1> DEFINE h == Hist(g.knownFront, [g.freed EXCEPT ![b] = @ + 1], g.cleared,
                g.taken, g.knownTail, g.shown, g.put, g.filled, g.base,
                g.first, g.turn, g.front, g.seenFront, g.tail, g.seenTail,
                g.sent, g.got)
<1>1. NowFreed(g, h, b) BY SMT DEF NowFreed, Same, History, Hist
<1> QED BY <1>1

LEMMA NowLeftExists ==
    ASSUME NEW g \in History, NEW b \in Block
    PROVE  \E h : NowLeft(g, h, b)
<1> DEFINE h == Hist(g.knownFront, g.freed, g.cleared, g.taken, g.knownTail,
                g.shown, g.put, g.filled, g.base, g.first, g.turn, g.front, b,
                g.tail, g.seenTail, g.sent, g.got)
<1>1. NowLeft(g, h, b) BY SMT DEF NowLeft, Same, History, Hist
<1> QED BY <1>1

-----------------------------------------------------------------------------
(* Every step of the history keeps it good *)

LEMMA GoodShape == ASSUME NEW g, Good(g) PROVE Shape
BY Shaped DEF Good

\* The producer is in the last block of all, and the blocks are in order.
LEMMA InTurn ==
    ASSUME NEW g, Good(g)
    PROVE  /\ \A b \in Block : g.turn[b] \in Int /\ g.turn[b] <= g.turn[g.tail]
           /\ \A b \in Block : b # g.tail => /\ g.turn[b] < g.turn[g.tail]
                                           /\ g.turn[next(b)] = g.turn[b] + 1
           /\ \A a, b \in Block : g.turn[a] = g.turn[b] => a = b
<1>1. /\ g.tail \in Block /\ \A b \in Block : g.turn[b] \in Int
  BY DEF Good, History
<1> QED BY <1>1 DEF Good, Ring

LEMMA EnqueuedGood ==
    ASSUME NEW g, NEW h, Good(g), Enqueued(g, h),
           g.put[g.tail] + 1 < g.knownFront[g.tail] + blockSize
    PROVE  Good(h)
<1> USE GoodShape DEF Good, Enqueued, Same, History, Shape
<1>1. Chain(h) BY DEF Chain
<1>2. Ring(h) BY DEF Ring
<1>3. Places(h) BY DEF Places, Ring, Chain
<1>4. Numbered(h) BY DEF Numbered, Ring, Chain
<1>5. Packed(h) BY DEF Packed, Ring
<1> QED BY <1>1, <1>2, <1>3, <1>4, <1>5

LEMMA LookedFrontGood ==
    ASSUME NEW g, NEW h, NEW b \in Block, Good(g), LookedFront(g, h, b)
    PROVE  Good(h)
<1> USE GoodShape DEF Good, LookedFront, Same, History, Shape
<1>1. Chain(h) BY DEF Chain
<1>2. Ring(h) BY DEF Ring
<1>3. Places(h) BY DEF Places
<1>4. Numbered(h) BY DEF Numbered
<1>5. Packed(h) BY DEF Packed, Chain
<1> QED BY <1>1, <1>2, <1>3, <1>4, <1>5

LEMMA TakenUpGood ==
    ASSUME NEW g, NEW h, NEW b \in Block, Good(g), TakenUp(g, h, b),
           b = next(g.tail), g.turn[b] < g.turn[g.seenFront],
           g.put[g.tail] + 1 = g.knownFront[g.tail] + blockSize
    PROVE  Good(h)
<1> USE GoodShape DEF Good, TakenUp, Same, History, Shape
\* whatever went through the block is out of it
<1>1. /\ g.turn[b] < g.turn[g.front] /\ g.turn[b] < g.turn[g.seenTail]
      /\ g.turn[b] < g.turn[g.tail]
  BY DEF Ring
<1>2. /\ g.freed[b] = g.put[b] /\ g.taken[b] = g.put[b] /\ g.shown[b] = g.put[b]
      /\ g.filled[b] = g.put[b]
  BY <1>1 DEF Places, Chain
<1>3. /\ h.turn[b] = g.turn[g.tail] + 1 /\ h.put[b] = g.put[b] + 1
      /\ h.first[b] = g.put[b] /\ h.base[b] = g.sent + 1 - g.put[b]
      /\ h.knownFront[b] = g.freed[b] /\ h.freed[b] = g.freed[b]
      /\ h.cleared[b] = g.cleared[b] /\ h.taken[b] = g.taken[b]
      /\ h.knownTail[b] = g.knownTail[b] /\ h.shown[b] = g.shown[b]
      /\ h.filled[b] = g.filled[b]
  OBVIOUS
<1>4. ASSUME NEW x \in Block, x # b
      PROVE  /\ h.turn[x] = g.turn[x] /\ h.put[x] = g.put[x]
             /\ h.first[x] = g.first[x] /\ h.base[x] = g.base[x]
             /\ h.knownFront[x] = g.knownFront[x]
  BY <1>4
<1>5. Chain(h)
  <2> SUFFICES ASSUME NEW x \in Block
               PROVE  Chain(h)!(x)
    BY DEF Chain
  <2>1. CASE x = b
    <3>1. g.put[b] \in Nat OBVIOUS
    <3>3. blockSize \in Nat /\ blockSize > 1 BY Zenon, GoodShape DEF Shape
    <3>2. /\ g.cleared[b] <= g.taken[b] /\ g.freed[b] <= g.cleared[b]
          /\ g.taken[b] <= g.knownTail[b] /\ g.knownTail[b] <= g.shown[b]
      BY DEF Chain
    <3> HIDE DEF Good, TakenUp, Same, History, Shape
    <3> QED BY <2>1, <3>1, <3>2, <3>3, <1>2, <1>3
  <2>2. CASE x # b BY <2>2, <1>4 DEF Chain
  <2> QED BY <2>1, <2>2
<1>6. Ring(h)
  <2>1. ASSUME NEW x \in Block
        PROVE  h.turn[next(b)] <= h.turn[x] /\ h.turn[x] <= h.turn[b]
    <3>1. b # g.tail /\ next(b) # b /\ g.turn[next(b)] = g.turn[b] + 1
      <4>1. g.turn[b] \in Int /\ g.turn[b] < g.turn[g.tail] /\ g.turn[g.tail] \in Int
        BY <1>1
      <4>2. b # g.tail BY <4>1
      <4>3. g.turn[next(b)] = g.turn[b] + 1
        <5> HIDE DEF Good, TakenUp, Same, History, Shape
        <5> QED BY <4>2, InTurn
      <4> HIDE DEF Good, TakenUp, Same, History, Shape
      <4> QED BY <4>1, <4>2, <4>3
    <3>2. h.turn[next(b)] = g.turn[b] + 1 BY <3>1, <1>4
    <3>3. g.turn[b] <= g.turn[x] BY DEF Ring
    <3>4. CASE x = b BY <3>4, <3>2, <1>1, <1>3
    <3>5. CASE x # b
      <4>1. g.turn[x] # g.turn[b] /\ g.turn[x] <= g.turn[g.tail] BY <3>5, InTurn
      <4>2. h.turn[x] = g.turn[x] /\ g.turn[x] \in Int /\ g.turn[b] \in Int
        BY <3>5, <1>4
      <4>3. h.turn[b] = g.turn[g.tail] + 1 /\ g.turn[g.tail] \in Int BY <1>3
      <4> HIDE DEF Good, TakenUp, Same, History, Shape
      <4> QED BY <4>1, <4>2, <4>3, <3>2, <3>3
    <3> QED BY <3>4, <3>5
  <2>2. ASSUME NEW x \in Block, x # b PROVE h.turn[next(x)] = h.turn[x] + 1
    <3>1. CASE x = g.tail BY <3>1, <1>3, <1>4, <2>2
    <3>2. CASE x # g.tail
      <4>1. next(x) # b BY <3>2
      <4> QED BY <3>2, <4>1, <2>2, <1>4 DEF Ring
    <3> QED BY <3>1, <3>2
  <2>3. \A x, y \in Block : h.turn[x] = h.turn[y] => x = y
    BY <1>3, <1>4 DEF Ring
  <2>4. g.seenFront # b /\ g.front # b /\ g.seenTail # b BY <1>1
  <2>5. /\ h.turn[h.seenFront] >= 0 /\ h.turn[h.seenFront] <= h.turn[h.front]
        /\ h.turn[h.front] <= h.turn[h.seenTail]
        /\ h.turn[h.seenTail] <= h.turn[h.tail]
    BY <2>4, <1>1, <1>3, <1>4 DEF Ring
  <2> HIDE DEF TakenUp, Same
  <2> QED BY <2>1, <2>2, <2>3, <2>5 DEF Ring, TakenUp
<1>7. Places(h) BY DEF Places, Ring, Chain
<1>8. Numbered(h)
  <2>1. h.base[h.tail] + h.put[h.tail] = h.sent + 1 BY <1>3
  <2>2. h.base[h.front] + h.taken[h.front] = h.got + 1
    BY <1>1, <1>4 DEF Numbered
  <2>3. ASSUME NEW x \in Block, h.turn[h.front] <= h.turn[x], h.turn[x] < h.turn[h.tail]
        PROVE  h.base[x] + h.put[x] = h.base[next(x)] + h.taken[next(x)]
    <3>1. x # b /\ g.turn[g.front] <= g.turn[x] BY <1>1, <2>3, <1>4
    <3>2. CASE x = g.tail BY <3>1, <3>2, <1>2, <1>3, <1>4 DEF Numbered
    <3>3. CASE x # g.tail
      <4>1. next(x) # b BY <3>3
      <4>2. g.turn[x] < g.turn[g.tail] BY <3>3, InTurn
      <4> QED BY <4>1, <4>2, <3>1, <1>4 DEF Numbered
    <3> QED BY <3>2, <3>3
  <2>4. ASSUME NEW x \in Block, NEW y \in Block,
               h.turn[h.seenFront] <= h.turn[x], h.turn[x] < h.turn[y]
        PROVE  h.base[x] + h.put[x] <= h.base[y] + h.first[y]
    <3>1. x # b /\ g.turn[g.seenFront] <= g.turn[x]
      BY <2>4, <1>1, <1>3, <1>4 DEF Ring
    <3>2. CASE y # b BY <3>1, <3>2, <2>4, <1>4 DEF Numbered
    <3>3. CASE y = b
      <4>1. CASE x = g.tail BY <4>1, <3>1, <3>3, <1>3, <1>4 DEF Numbered
      <4>2. CASE x # g.tail
        <5>1. g.turn[x] < g.turn[g.tail] BY <4>2, InTurn
        <5>2. g.base[x] + g.put[x] <= g.base[g.tail] + g.first[g.tail]
          BY <5>1, <3>1 DEF Numbered
        <5>3. g.first[g.tail] < g.put[g.tail] BY <5>1, <3>1 DEF Places, Ring
        <5> QED BY <5>2, <5>3, <3>1, <3>3, <1>3, <1>4 DEF Numbered
      <4> QED BY <4>1, <4>2
    <3> QED BY <3>2, <3>3
  <2> QED BY <2>1, <2>2, <2>3, <2>4 DEF Numbered
<1>9. Packed(h)
  <2> SUFFICES ASSUME NEW x \in Block
               PROVE  Packed(h)!(x)
    BY DEF Packed
  <2>1. CASE x = b
    BY <2>1, <1>2, <1>3
  <2>2. CASE x = g.tail
    <3>1. x # b /\ g.seenFront # b
      BY <2>2, <1>1
    <3>2. /\ g.first[x] <= g.knownFront[x]
          /\ g.turn[g.seenFront] < g.turn[x] => g.freed[x] = g.first[x]
      BY DEF Packed
    <3>3. /\ g.knownFront[x] <= g.freed[x] /\ g.knownFront[x] \in Nat /\ g.freed[x] \in Nat
          /\ g.put[x] \in Nat /\ blockSize \in Nat /\ g.first[x] \in Int
      BY DEF Chain
    <3>4. /\ h.first[x] = g.first[x] /\ h.knownFront[x] = g.knownFront[x]
          /\ h.freed[x] = g.freed[x] /\ h.put[x] = g.put[x] /\ h.turn[x] = g.turn[x]
          /\ h.turn[h.seenFront] = g.turn[g.seenFront]
          /\ g.put[x] + 1 = g.knownFront[x] + blockSize
      BY <2>2, <3>1, <1>4
    <3> HIDE DEF Good, TakenUp, Same, History, Shape
    <3> QED BY <3>2, <3>3, <3>4
  <2>3. CASE x # b /\ x # g.tail
    <3>1. g.turn[x] < g.turn[g.tail] /\ g.seenFront # b
      BY <2>3, <1>1, InTurn
    <3> QED BY <2>3, <3>1, <1>4 DEF Packed
  <2> QED BY <2>1, <2>2, <2>3
<1> QED BY <1>5, <1>6, <1>7, <1>8, <1>9

LEMMA LookedTailGood ==
    ASSUME NEW g, NEW h, NEW b \in Block, Good(g), LookedTail(g, h, b)
    PROVE  Good(h)
<1> USE GoodShape DEF Good, LookedTail, Same, History, Shape
<1>1. Chain(h) BY DEF Chain
<1>2. Ring(h) BY DEF Ring
<1>3. Places(h) BY DEF Places
<1>4. Numbered(h) BY DEF Numbered
<1>5. Packed(h) BY DEF Packed
<1> QED BY <1>1, <1>2, <1>3, <1>4, <1>5

LEMMA AdvancedGood ==
    ASSUME NEW g, NEW h, NEW b \in Block, Good(g), Advanced(g, h, b),
           b = next(g.front), g.taken[g.front] = g.put[g.front],
           g.turn[g.front] < g.turn[g.seenTail]
    PROVE  Good(h) /\ h.taken[h.front] < h.knownTail[h.front]
<1> USE GoodShape DEF Good, Advanced, Same, History, Shape
<1>1. /\ g.turn[b] = g.turn[g.front] + 1 /\ g.turn[b] <= g.turn[g.seenTail]
      /\ g.turn[g.front] < g.turn[g.tail]
  BY DEF Ring
<1>2. g.taken[b] = g.first[b] /\ g.first[b] < g.shown[b]
  BY <1>1 DEF Places, Ring
<1>3. Chain(h) BY DEF Chain
<1>4. Ring(h) BY DEF Ring
<1>5. Places(h)
  <2> SUFFICES ASSUME NEW x \in Block
               PROVE  Places(h)!(x)
    BY DEF Places
  <2>1. h.turn[x] < h.turn[h.front] => x = g.front \/ g.turn[x] < g.turn[g.front]
    <3>1. h.turn[x] = g.turn[x] /\ h.turn[h.front] = g.turn[g.front] + 1
      BY <1>1
    <3>2. /\ g.turn[x] \in Int /\ g.turn[g.front] \in Int
          /\ g.turn[x] = g.turn[g.front] => x = g.front
      BY InTurn
    <3> HIDE DEF Good, Advanced, Same, History, Shape
    <3> QED BY <3>1, <3>2
  <2> QED BY <1>1, <2>1 DEF Places
<1>6. Numbered(h)
  <2>1. h.base[h.front] + h.taken[h.front] = h.got + 1
    <3>1. g.base[g.front] + g.put[g.front] = g.base[b] + g.taken[b]
      <4>1. g.turn[g.front] <= g.turn[g.front] /\ g.turn[g.front] < g.turn[g.tail]
        BY <1>1
      <4> QED BY <4>1 DEF Numbered
    <3>2. g.base[g.front] + g.taken[g.front] = g.got + 1 BY DEF Numbered
    <3> QED BY <3>1, <3>2
  <2>2. h.base[h.tail] + h.put[h.tail] = h.sent + 1 BY DEF Numbered
  <2>3. \A x \in Block : h.turn[h.front] <= h.turn[x] => g.turn[g.front] <= g.turn[x]
    BY <1>1
  <2> QED BY <2>1, <2>2, <2>3 DEF Numbered
<1>7. Packed(h) BY DEF Packed
<1> QED BY <1>2, <1>3, <1>4, <1>5, <1>6, <1>7

LEMMA TakenGood ==
    ASSUME NEW g, NEW h, Good(g), Taken(g, h),
           g.taken[g.front] < g.knownTail[g.front]
    PROVE  Good(h)
<1> USE GoodShape DEF Good, Taken, Same, History, Shape
<1>1. Chain(h) BY DEF Chain, Places, Ring
<1>2. Ring(h) BY DEF Ring
<1>3. Places(h) BY DEF Places, Ring, Chain
<1>4. Numbered(h)
  <2>1. h.base[h.front] + h.taken[h.front] = h.got + 1 BY DEF Numbered
  <2>2. ASSUME NEW x \in Block, h.turn[h.front] <= h.turn[x], h.turn[x] < h.turn[h.tail]
        PROVE  h.base[x] + h.put[x] = h.base[next(x)] + h.taken[next(x)]
    <3>1. next(x) # g.front BY <2>2 DEF Ring
    <3> QED BY <2>2, <3>1 DEF Numbered
  <2> QED BY <2>1, <2>2 DEF Numbered
<1>5. Packed(h) BY DEF Packed
<1> QED BY <1>1, <1>2, <1>3, <1>4, <1>5

LEMMA NowFilledGood ==
    ASSUME NEW g, NEW h, NEW b \in Block, Good(g), NowFilled(g, h, b),
           g.filled[b] < g.put[b]
    PROVE  Good(h)
<1> USE GoodShape DEF Good, NowFilled, Same, History, Shape
<1>1. Chain(h) BY DEF Chain
<1>2. Ring(h) BY DEF Ring
<1>3. Places(h) BY DEF Places
<1>4. Numbered(h) BY DEF Numbered
<1>5. Packed(h) BY DEF Packed
<1> QED BY <1>1, <1>2, <1>3, <1>4, <1>5

\* A tail goes behind what is in the slots before it, and behind the tail block.
LEMMA NowShownGood ==
    ASSUME NEW g, NEW h, NEW b \in Block, Good(g), NowShown(g, h, b),
           g.shown[b] < g.put[b],
           g.turn[b] <= g.turn[g.seenTail] => g.shown[b] < g.filled[b],
           g.turn[g.seenTail] < g.turn[b] => g.shown[b] <= g.first[b]
    PROVE  Good(h)
<1> USE GoodShape DEF Good, NowShown, Same, History, Shape
<1>1. Chain(h) BY DEF Chain
<1>2. Ring(h) BY DEF Ring
<1>3. Places(h) BY DEF Places, Ring, Chain
<1>4. Numbered(h) BY DEF Numbered
<1>5. Packed(h) BY DEF Packed
<1> QED BY <1>1, <1>2, <1>3, <1>4, <1>5

LEMMA NowEnteredGood ==
    ASSUME NEW g, NEW h, NEW b \in Block, Good(g), NowEntered(g, h, b),
           b = next(g.seenTail), g.turn[g.seenTail] < g.turn[g.tail],
           g.first[b] < g.shown[b], g.first[b] < g.filled[b],
           g.shown[g.seenTail] = g.put[g.seenTail]
    PROVE  Good(h)
<1> USE GoodShape DEF Good, NowEntered, Same, History, Shape
<1>1. g.turn[b] = g.turn[g.seenTail] + 1 /\ g.turn[b] <= g.turn[g.tail]
  BY DEF Ring
<1>2. Chain(h) BY DEF Chain
<1>3. Ring(h) BY <1>1 DEF Ring
<1>4. Places(h)
  <2> SUFFICES ASSUME NEW x \in Block
               PROVE  Places(h)!(x)
    BY DEF Places
  <2>1. /\ h.turn[x] < h.turn[h.seenTail]
               => x = g.seenTail \/ g.turn[x] < g.turn[g.seenTail]
        /\ h.turn[x] <= h.turn[h.seenTail]
               => x = b \/ g.turn[x] <= g.turn[g.seenTail]
    <3>1. h.turn[x] = g.turn[x] /\ h.turn[h.seenTail] = g.turn[g.seenTail] + 1
      BY <1>1
    <3>2. /\ g.turn[x] \in Int /\ g.turn[g.seenTail] \in Int
          /\ g.turn[x] = g.turn[g.seenTail] => x = g.seenTail
          /\ g.turn[x] = g.turn[b] => x = b
      BY InTurn
    <3> HIDE DEF Good, NowEntered, Same, History, Shape
    <3> QED BY <1>1, <3>1, <3>2
  <2>2. g.shown[b] <= g.filled[b] BY <1>1 DEF Places
  <2> QED BY <1>1, <2>1, <2>2 DEF Places
<1>5. Numbered(h) BY DEF Numbered
<1>6. Packed(h) BY <1>1 DEF Packed
<1> QED BY <1>2, <1>3, <1>4, <1>5, <1>6

LEMMA NowClearedGood ==
    ASSUME NEW g, NEW h, NEW b \in Block, Good(g), NowCleared(g, h, b),
           g.cleared[b] < g.taken[b]
    PROVE  Good(h)
<1> USE GoodShape DEF Good, NowCleared, Same, History, Shape
<1>1. Chain(h) BY DEF Chain
<1>2. Ring(h) BY DEF Ring
<1>3. Places(h) BY DEF Places
<1>4. Numbered(h) BY DEF Numbered
<1>5. Packed(h) BY DEF Packed
<1> QED BY <1>1, <1>2, <1>3, <1>4, <1>5

\* A front goes behind the destruction of what is before it.
LEMMA NowFreedGood ==
    ASSUME NEW g, NEW h, NEW b \in Block, Good(g), NowFreed(g, h, b),
           g.freed[b] < g.cleared[b], g.turn[b] <= g.turn[g.seenFront]
    PROVE  Good(h)
<1> USE GoodShape DEF Good, NowFreed, Same, History, Shape
<1>1. Chain(h) BY DEF Chain
<1>2. Ring(h) BY DEF Ring
<1>3. Places(h) BY DEF Places, Ring, Chain
<1>4. Numbered(h) BY DEF Numbered
<1>5. Packed(h) BY DEF Packed
<1> QED BY <1>1, <1>2, <1>3, <1>4, <1>5

LEMMA NowLeftGood ==
    ASSUME NEW g, NEW h, NEW b \in Block, Good(g), NowLeft(g, h, b),
           b = next(g.seenFront), g.turn[g.seenFront] < g.turn[g.front],
           g.freed[g.seenFront] = g.put[g.seenFront]
    PROVE  Good(h)
<1> USE GoodShape DEF Good, NowLeft, Same, History, Shape
<1>1. g.turn[b] = g.turn[g.seenFront] + 1 /\ g.turn[b] <= g.turn[g.front]
  BY DEF Ring
<1>2. Chain(h) BY DEF Chain
<1>3. Ring(h) BY <1>1 DEF Ring
<1>4. Places(h)
  <2> SUFFICES ASSUME NEW x \in Block
               PROVE  Places(h)!(x)
    BY DEF Places
  <2>1. h.turn[x] < h.turn[h.seenFront]
               => x = g.seenFront \/ g.turn[x] < g.turn[g.seenFront]
    <3>1. h.turn[x] = g.turn[x] /\ h.turn[h.seenFront] = g.turn[g.seenFront] + 1
      BY <1>1
    <3>2. /\ g.turn[x] \in Int /\ g.turn[g.seenFront] \in Int
          /\ g.turn[x] = g.turn[g.seenFront] => x = g.seenFront
      BY InTurn
    <3> HIDE DEF Good, NowLeft, Same, History, Shape
    <3> QED BY <3>1, <3>2
  <2> QED BY <1>1, <2>1 DEF Places
<1>5. Numbered(h)
  <2>1. \A x \in Block : h.turn[h.seenFront] <= h.turn[x] => g.turn[g.seenFront] <= g.turn[x]
    <3> SUFFICES ASSUME NEW x \in Block, h.turn[h.seenFront] <= h.turn[x]
                 PROVE  g.turn[g.seenFront] <= g.turn[x]
      OBVIOUS
    <3>1. /\ h.turn[x] = g.turn[x] /\ h.turn[h.seenFront] = g.turn[g.seenFront] + 1
          /\ g.turn[x] \in Int /\ g.turn[g.seenFront] \in Int
      BY <1>1
    <3> HIDE DEF Good, NowLeft, Same, History, Shape
    <3> QED BY <3>1
  <2> QED BY <2>1 DEF Numbered
<1>6. Packed(h) BY <1>1 DEF Packed
<1> QED BY <1>2, <1>3, <1>4, <1>5, <1>6

-----------------------------------------------------------------------------
(* Locations and what a thread reads *)

LEMMA Locations ==
    /\ \A a, b : front(a) = front(b) => a = b
    /\ \A a, b : tail(a) = tail(b) => a = b
    /\ \A a, b, i, j : data(a, i) = data(b, j) => a = b /\ i = j
    /\ \A a, b, i : front(a) # tail(b) /\ front(a) # data(b, i) /\ tail(a) # data(b, i)
    /\ \A a : front(a) # frontBlock /\ front(a) # tailBlock /\ front(a) # done_
    /\ \A a : tail(a) # frontBlock /\ tail(a) # tailBlock /\ tail(a) # done_
    /\ \A a, i : /\ data(a, i) # frontBlock /\ data(a, i) # tailBlock
                 /\ data(a, i) # done_
    /\ frontBlock # tailBlock /\ frontBlock # done_ /\ tailBlock # done_
BY DEF front, tail, data, frontBlock, tailBlock, done_

LEMMA LoadNone ==
    ASSUME NEW t, NEW l, \A s \in stores[t] : s.loc # l
    PROVE  Load(t, l) = mem[l]
BY DEF Load

LEMMA LoadLast ==
    ASSUME NEW t, NEW l, NEW s \in stores[t], s.loc = l, s.after \in Int,
           \A o \in stores[t] : o.loc = l /\ o # s => o.after \in Int /\ o.after < s.after
    PROVE  Load(t, l) = s.val
<1> DEFINE own == {o \in stores[t] : o.loc = l}
           last == CHOOSE x \in own : \A o \in own : o.after <= x.after
<1>1. s \in own /\ \A o \in own : o.after <= s.after OBVIOUS
<1>2. last \in own /\ \A o \in own : o.after <= last.after
  <2> HIDE DEF own
  <2> QED BY <1>1
<1>3. last = s
  <2> HIDE DEF last
  <2> QED BY <1>1, <1>2
<1> HIDE DEF last
<1>4. Load(t, l) = (IF own = {} THEN mem[l] ELSE last.val) BY DEF Load, last
<1> QED BY <1>1, <1>3, <1>4

LEMMA IssueOne ==
    ASSUME NEW l, NEW v, NEW n
    PROVE  {Waiting(s, n) : s \in {Store(l, v)}} = {[loc |-> l, val |-> v, after |-> n]}
BY DEF Waiting, Store

LEMMA IssueNone == ASSUME NEW n PROVE {Waiting(s, n) : s \in {}} = {}
OBVIOUS

LEMMA IssueTwo ==
    ASSUME NEW l, NEW v, NEW k, NEW w, NEW n
    PROVE  {Waiting(s, n) : s \in {Store(l, v), Store(k, w)}}
               = {[loc |-> l, val |-> v, after |-> n], [loc |-> k, val |-> w, after |-> n]}
BY DEF Waiting, Store

LEMMA Issued ==
    ASSUME NEW t \in Thread, NEW before, NEW then, Issue(t, before, then),
           DOMAIN stores = Thread, DOMAIN fences = Thread
    PROVE  /\ stores'[t] = stores[t] \cup {Waiting(s, fences[t]) : s \in before}
                                     \cup {Waiting(s, fences[t] + 1) : s \in then}
           /\ fences'[t] = fences[t] + 1
           /\ \A u \in Thread \ {t} : stores'[u] = stores[u] /\ fences'[u] = fences[u]
           /\ DOMAIN stores' = Thread /\ DOMAIN fences' = Thread
BY DEF Issue

-----------------------------------------------------------------------------
(* The stores that wait *)

LEMMA InBetween ==
    ASSUME NEW lo \in [Block -> Nat], NEW hi \in [Block -> Nat]
    PROVE  /\ \A p \in Between(lo, hi) : p[1] \in Block /\ p[2] \in lo[p[1]] .. hi[p[1]] - 1
           /\ \A b \in Block : \A c \in lo[b] .. hi[b] - 1 : <<b, c>> \in Between(lo, hi)
<1>1. ASSUME NEW p \in Between(lo, hi)
      PROVE  p[1] \in Block /\ p[2] \in lo[p[1]] .. hi[p[1]] - 1
  <2>1. p[1] \in Block /\ p[2] \in Nat /\ p = <<p[1], p[2]>> BY DEF Between
  <2> QED BY <2>1 DEF Between
<1>2. ASSUME NEW b \in Block, NEW c \in lo[b] .. hi[b] - 1
      PROVE  <<b, c>> \in Between(lo, hi)
  BY DEF Between
<1> QED BY <1>1, <1>2

\* Which stores wait.
LEMMA Members ==
    ASSUME NEW g \in History
    PROVE  \A x :
           /\ x \in Filled(g) <=> \E b \in Block : \E c \in g.filled[b] .. g.put[b] - 1 :
                                      x = Filling(g, b, c)
           /\ x \in Shown(g) <=> \E b \in Block : \E c \in g.shown[b] .. g.put[b] - 1 :
                                      x = Showing(g, b, c)
           /\ x \in Cleared(g) <=> \E b \in Block : \E c \in g.cleared[b] .. g.taken[b] - 1 :
                                      x = Clearing(g, b, c)
           /\ x \in Freed(g) <=> \E b \in Block : \E c \in g.freed[b] .. g.taken[b] - 1 :
                                      x = Freeing(g, b, c)
<1>1. /\ g.filled \in [Block -> Nat] /\ g.put \in [Block -> Nat]
      /\ g.shown \in [Block -> Nat] /\ g.cleared \in [Block -> Nat]
      /\ g.freed \in [Block -> Nat] /\ g.taken \in [Block -> Nat]
  BY DEF History
<1>2. ASSUME NEW x
      PROVE  x \in Filled(g) <=> \E b \in Block : \E c \in g.filled[b] .. g.put[b] - 1 :
                                      x = Filling(g, b, c)
  <2>1. ASSUME x \in Filled(g)
        PROVE  \E b \in Block : \E c \in g.filled[b] .. g.put[b] - 1 : x = Filling(g, b, c)
    <3>1. PICK p \in Between(g.filled, g.put) : x = Filling(g, p[1], p[2])
      BY <2>1 DEF Filled
    <3> QED BY <1>1, <3>1, InBetween
  <2>2. ASSUME NEW b \in Block, NEW c \in g.filled[b] .. g.put[b] - 1, x = Filling(g, b, c)
        PROVE  x \in Filled(g)
    <3>1. <<b, c>> \in Between(g.filled, g.put) BY <1>1, InBetween
    <3>2. <<b, c>>[1] = b /\ <<b, c>>[2] = c OBVIOUS
    <3> QED BY <2>2, <3>1, <3>2, Zenon DEF Filled
  <2> QED BY <2>1, <2>2
<1>3. ASSUME NEW x
      PROVE  x \in Shown(g) <=> \E b \in Block : \E c \in g.shown[b] .. g.put[b] - 1 :
                                      x = Showing(g, b, c)
  <2>1. ASSUME x \in Shown(g)
        PROVE  \E b \in Block : \E c \in g.shown[b] .. g.put[b] - 1 : x = Showing(g, b, c)
    <3>1. PICK p \in Between(g.shown, g.put) : x = Showing(g, p[1], p[2])
      BY <2>1 DEF Shown
    <3> QED BY <1>1, <3>1, InBetween
  <2>2. ASSUME NEW b \in Block, NEW c \in g.shown[b] .. g.put[b] - 1, x = Showing(g, b, c)
        PROVE  x \in Shown(g)
    <3>1. <<b, c>> \in Between(g.shown, g.put) BY <1>1, InBetween
    <3>2. <<b, c>>[1] = b /\ <<b, c>>[2] = c OBVIOUS
    <3> QED BY <2>2, <3>1, <3>2, Zenon DEF Shown
  <2> QED BY <2>1, <2>2
<1>4. ASSUME NEW x
      PROVE  x \in Cleared(g) <=> \E b \in Block : \E c \in g.cleared[b] .. g.taken[b] - 1 :
                                      x = Clearing(g, b, c)
  <2>1. ASSUME x \in Cleared(g)
        PROVE  \E b \in Block : \E c \in g.cleared[b] .. g.taken[b] - 1 : x = Clearing(g, b, c)
    <3>1. PICK p \in Between(g.cleared, g.taken) : x = Clearing(g, p[1], p[2])
      BY <2>1 DEF Cleared
    <3> QED BY <1>1, <3>1, InBetween
  <2>2. ASSUME NEW b \in Block, NEW c \in g.cleared[b] .. g.taken[b] - 1, x = Clearing(g, b, c)
        PROVE  x \in Cleared(g)
    <3>1. <<b, c>> \in Between(g.cleared, g.taken) BY <1>1, InBetween
    <3>2. <<b, c>>[1] = b /\ <<b, c>>[2] = c OBVIOUS
    <3> QED BY <2>2, <3>1, <3>2, Zenon DEF Cleared
  <2> QED BY <2>1, <2>2
<1>5. ASSUME NEW x
      PROVE  x \in Freed(g) <=> \E b \in Block : \E c \in g.freed[b] .. g.taken[b] - 1 :
                                      x = Freeing(g, b, c)
  <2>1. ASSUME x \in Freed(g)
        PROVE  \E b \in Block : \E c \in g.freed[b] .. g.taken[b] - 1 : x = Freeing(g, b, c)
    <3>1. PICK p \in Between(g.freed, g.taken) : x = Freeing(g, p[1], p[2])
      BY <2>1 DEF Freed
    <3> QED BY <1>1, <3>1, InBetween
  <2>2. ASSUME NEW b \in Block, NEW c \in g.freed[b] .. g.taken[b] - 1, x = Freeing(g, b, c)
        PROVE  x \in Freed(g)
    <3>1. <<b, c>> \in Between(g.freed, g.taken) BY <1>1, InBetween
    <3>2. <<b, c>>[1] = b /\ <<b, c>>[2] = c OBVIOUS
    <3> QED BY <2>2, <3>1, <3>2, Zenon DEF Freed
  <2> QED BY <2>1, <2>2
<1> QED BY <1>2, <1>3, <1>4, <1>5

\* where the stores of a kind go
LEMMA WhereTo ==
    ASSUME NEW g, Good(g)
    PROVE  /\ \A s \in Filled(g) \cup Cleared(g) : \E b \in Block, i \in Slot : s.loc = data(b, i)
           /\ \A s \in Shown(g) : \E b \in Block : s.loc = tail(b)
           /\ \A s \in Freed(g) : \E b \in Block : s.loc = front(b)
           /\ \A s \in Entered(g) : s.loc = tailBlock
           /\ \A s \in Left(g) : s.loc = frontBlock
           /\ \A s \in Finished(g) : s.loc = done_
<1>1. blockSize \in Nat \ {0} BY GoodShape DEF Shape
<1>2. \A b \in Block : /\ g.filled[b] \in Nat /\ g.put[b] \in Nat
                       /\ g.cleared[b] \in Nat /\ g.taken[b] \in Nat
  BY DEF Good, History
<1>3. \A c \in Int : c % blockSize \in Slot BY <1>1, DivMod DEF Slot
<1>4. \A s \in Filled(g) \cup Cleared(g) : \E b \in Block, i \in Slot : s.loc = data(b, i)
  BY <1>2, <1>3, Members DEF Good, Filling, Clearing
<1>5. \A s \in Shown(g) : \E b \in Block : s.loc = tail(b) BY Members DEF Good, Showing
<1>6. \A s \in Freed(g) : \E b \in Block : s.loc = front(b) BY Members DEF Good, Freeing
<1>7. /\ \A s \in Entered(g) : s.loc = tailBlock
      /\ \A s \in Left(g) : s.loc = frontBlock
      /\ \A s \in Finished(g) : s.loc = done_
  BY DEF Entered, Entering, Left, Leaving, Finished, Done
<1> QED BY <1>4, <1>5, <1>6, <1>7

\* Of two blocks the one taken up earlier has the earlier elements.
LEMMA Earlier ==
    ASSUME NEW g, Good(g), NEW a \in Block, NEW b \in Block,
           g.turn[g.seenFront] <= g.turn[a], g.turn[a] < g.turn[b]
    PROVE  /\ g.base[a] + g.put[a] <= g.base[b] + g.first[b]
           /\ g.base[a] + g.first[a] < g.base[b] + g.first[b]
<1>1. /\ g.base[a] \in Int /\ g.put[a] \in Int /\ g.first[a] \in Int
      /\ g.base[b] \in Int /\ g.first[b] \in Int
  BY DEF Good, History
<1>2. g.first[a] < g.put[a] BY DEF Good, Places
<1>3. g.base[a] + g.put[a] <= g.base[b] + g.first[b] BY DEF Good, Numbered
<1> QED BY <1>1, <1>2, <1>3

LEMMA ReadsTailBlock == ASSUME NEW g, Held(g) PROVE TailBlock = g.tail
<1> DEFINE s == Entering(g, g.tail)
<1>1. Good(g) /\ g.tail \in Block /\ g.seenTail \in Block BY DEF Held, Good, History
<1>2. \A o \in stores["producer"] : o.loc = tailBlock => o \in Entered(g)
  BY <1>1, WhereTo, Locations DEF Held, Buffers
<1>3. CASE g.turn[g.seenTail] < g.turn[g.tail]
  <2>1. s \in stores["producer"] /\ s.loc = tailBlock /\ s.val = g.tail
    BY <1>1, <1>3 DEF Held, Buffers, Entered, Entering
  <2>2. s.after \in Int BY <1>1 DEF Entering, Good, History
  <2>3. ASSUME NEW o \in stores["producer"], o.loc = tailBlock, o # s
        PROVE  o.after \in Int /\ o.after < s.after
    <3>1. PICK b \in Block : o = Entering(g, b) /\ g.turn[g.seenTail] < g.turn[b]
      BY <1>2, <2>3 DEF Entered
    <3>2. b # g.tail BY <2>3, <3>1
    <3>3. g.turn[b] < g.turn[g.tail] /\ g.turn[g.seenFront] <= g.turn[b]
      BY <1>1, <3>1, <3>2, InTurn DEF Good, Ring, History
    <3>4. g.base[b] + g.first[b] \in Int /\ g.base[b] + g.first[b] < g.base[g.tail] + g.first[g.tail]
      BY <1>1, <3>3, Earlier DEF Good, History
    <3> QED BY <3>1, <3>4 DEF Entering
  <2> HIDE DEF s
  <2> QED BY <2>1, <2>2, <2>3, LoadLast DEF TailBlock
<1>4. CASE ~ (g.turn[g.seenTail] < g.turn[g.tail])
  <2>1. g.seenTail = g.tail BY <1>1, <1>4, InTurn
  <2>2. Entered(g) = {} BY <1>1, <2>1, InTurn DEF Entered
  <2>3. mem[tailBlock] = g.tail BY <2>1 DEF Held, Indices
  <2> QED BY <1>2, <2>2, <2>3, LoadNone DEF TailBlock
<1> QED BY <1>3, <1>4

LEMMA ReadsFrontBlock == ASSUME NEW g, Held(g) PROVE FrontBlock = g.front
<1> DEFINE s == Leaving(g, g.front)
<1>1. Good(g) /\ g.front \in Block /\ g.seenFront \in Block BY DEF Held, Good, History
<1>2. \A o \in stores["consumer"] : o.loc = frontBlock => o \in Left(g)
  BY <1>1, WhereTo, Locations DEF Held, Buffers
<1>3. CASE g.turn[g.seenFront] < g.turn[g.front]
  <2>1. s \in stores["consumer"] /\ s.loc = frontBlock /\ s.val = g.front
    BY <1>1, <1>3, InTurn DEF Held, Buffers, Left, Leaving
  <2>2. s.after \in Int BY <1>1 DEF Leaving, Good, History
  <2>3. ASSUME NEW o \in stores["consumer"], o.loc = frontBlock, o # s
        PROVE  o.after \in Int /\ o.after < s.after
    <3>1. PICK b \in Block : /\ o = Leaving(g, b) /\ g.turn[g.seenFront] < g.turn[b]
                             /\ g.turn[b] <= g.turn[g.front]
      BY <1>2, <2>3 DEF Left
    <3>2. b # g.front BY <2>3, <3>1
    <3>3. /\ g.turn[b] < g.turn[g.front] /\ g.turn[g.seenFront] <= g.turn[b]
          /\ g.turn[b] \in Int /\ g.turn[g.front] \in Int
      BY <1>1, <3>1, <3>2, InTurn
    <3>4. /\ g.base[b] \in Int /\ g.first[b] \in Int
          /\ g.base[g.front] \in Int /\ g.first[g.front] \in Int
          /\ g.base[b] + g.first[b] < g.base[g.front] + g.first[g.front]
      BY <1>1, <3>3, Earlier DEF Good, History
    <3>5. /\ o.after = g.base[b] + g.first[b] - 1 + g.turn[b]
          /\ s.after = g.base[g.front] + g.first[g.front] - 1 + g.turn[g.front]
      BY <3>1 DEF Leaving
    <3> HIDE DEF s
    <3> QED BY <3>3, <3>4, <3>5
  <2> HIDE DEF s
  <2> QED BY <2>1, <2>2, <2>3, LoadLast DEF FrontBlock
<1>4. CASE ~ (g.turn[g.seenFront] < g.turn[g.front])
  <2>1. g.turn[g.seenFront] <= g.turn[g.front] BY <1>1 DEF Good, Ring
  <2>2. g.seenFront = g.front BY <1>1, <1>4, <2>1, InTurn
  <2>3. Left(g) = {} BY <1>1, <2>2, InTurn DEF Left
  <2>4. mem[frontBlock] = g.front BY <2>2 DEF Held, Indices
  <2> QED BY <1>2, <2>3, <2>4, LoadNone DEF FrontBlock
<1> QED BY <1>3, <1>4

LEMMA ReadsTail ==
    ASSUME NEW g, Held(g), NEW b \in Block
    PROVE  Load("producer", tail(b)) = g.put[b] % blockSize
<1>1. Good(g) BY DEF Held
<1>2. /\ g.put[b] \in Nat /\ g.shown[b] \in Nat /\ g.base[b] \in Int
      /\ g.first[b] \in Int /\ g.shown[b] <= g.put[b] /\ g.first[b] <= g.shown[b]
  <2>1. /\ g.put[b] \in Nat /\ g.shown[b] \in Nat /\ g.base[b] \in Int
        /\ g.first[b] \in Int /\ g.taken[b] \in Nat /\ g.turn[b] \in Int
        /\ g.turn[g.front] \in Int /\ g.turn[g.seenTail] \in Int
    BY <1>1 DEF Good, History
  <2>2. /\ g.shown[b] <= g.put[b] /\ g.taken[b] <= g.shown[b]
        /\ g.turn[g.front] <= g.turn[g.seenTail]
        /\ g.turn[b] <= g.turn[g.seenTail] => g.first[b] < g.shown[b]
        /\ g.turn[g.front] < g.turn[b] => g.taken[b] = g.first[b]
    <3>1. g.taken[b] <= g.shown[b]
      <4>1. /\ g.taken[b] <= g.knownTail[b] /\ g.knownTail[b] <= g.shown[b]
            /\ g.taken[b] \in Nat /\ g.knownTail[b] \in Nat /\ g.shown[b] \in Nat
        BY <1>1 DEF Good, Chain, History
      <4> QED BY <4>1
    <3> QED BY <1>1, <3>1 DEF Good, Chain, Ring, Places
  <2> QED BY <2>1, <2>2
<1>3. \A o \in stores["producer"] :
          o.loc = tail(b) => \E c \in g.shown[b] .. g.put[b] - 1 : o = Showing(g, b, c)
  <2>1. \A o \in stores["producer"] : o.loc = tail(b) => o \in Shown(g)
    BY <1>1, WhereTo, Locations DEF Held, Buffers
  <2> QED BY <1>1, <2>1, Locations, Members DEF Good, Showing
<1>4. CASE g.shown[b] = g.put[b]
  <2>1. \A o \in stores["producer"] : o.loc # tail(b) BY <1>2, <1>3, <1>4
  <2>2. mem[tail(b)] = g.put[b] % blockSize BY <1>4 DEF Held, Indices
  <2> QED BY <2>1, <2>2, LoadNone
<1>5. CASE g.shown[b] < g.put[b]
  <2> DEFINE s == Showing(g, b, g.put[b] - 1)
  <2>1. s \in Shown(g)
    <3>1. g.put[b] - 1 \in g.shown[b] .. g.put[b] - 1 BY <1>2, <1>5
    <3> QED BY <1>1, <3>1, Members DEF Good
  <2>2. s \in stores["producer"] BY <2>1 DEF Held, Buffers
  <2>3. s.loc = tail(b) /\ s.val = g.put[b] % blockSize
    <3>1. (g.put[b] - 1) + 1 = g.put[b] BY <1>2
    <3> QED BY <3>1 DEF Showing
  <2>4. s.after = (IF g.put[b] - 1 = g.first[b] THEN g.base[b] + (g.put[b] - 1) - 1
                   ELSE g.base[b] + (g.put[b] - 1))
    BY DEF Showing
  <2>5. s.after \in Int BY <1>2, <2>4
  <2>6. ASSUME NEW o \in stores["producer"], o.loc = tail(b), o # s
        PROVE  o.after \in Int /\ o.after < s.after
    <3>1. PICK c \in g.shown[b] .. g.put[b] - 1 : o = Showing(g, b, c) BY <1>3, <2>6
    <3>2. c # g.put[b] - 1 BY <2>6, <3>1
    <3>3. o.after = IF c = g.first[b] THEN g.base[b] + c - 1 ELSE g.base[b] + c
      BY <3>1 DEF Showing
    <3> HIDE DEF s
    <3> QED BY <3>2, <3>3, <2>4, <1>2
  <2> HIDE DEF s
  <2> QED BY <2>2, <2>3, <2>5, <2>6, LoadLast
<1> QED BY <1>2, <1>4, <1>5

LEMMA ReadsFront ==
    ASSUME NEW g, Held(g), NEW b \in Block
    PROVE  Load("consumer", front(b)) = g.taken[b] % blockSize
<1>1. Good(g) BY DEF Held
<1>2. /\ g.taken[b] \in Nat /\ g.freed[b] \in Nat /\ g.base[b] \in Int
      /\ g.turn[b] \in Int /\ g.freed[b] <= g.taken[b]
  <2>1. /\ g.taken[b] \in Nat /\ g.freed[b] \in Nat /\ g.base[b] \in Int
        /\ g.turn[b] \in Int /\ g.cleared[b] \in Nat
    BY <1>1 DEF Good, History
  <2>2. g.freed[b] <= g.cleared[b] /\ g.cleared[b] <= g.taken[b]
    BY <1>1 DEF Good, Chain
  <2> QED BY <2>1, <2>2
<1>3. \A o \in stores["consumer"] :
          o.loc = front(b) => \E c \in g.freed[b] .. g.taken[b] - 1 : o = Freeing(g, b, c)
  <2>1. \A o \in stores["consumer"] : o.loc = front(b) => o \in Freed(g)
    BY <1>1, WhereTo, Locations DEF Held, Buffers
  <2> QED BY <1>1, <2>1, Locations, Members DEF Good, Freeing
<1>4. CASE g.freed[b] = g.taken[b]
  <2>1. \A o \in stores["consumer"] : o.loc # front(b) BY <1>2, <1>3, <1>4
  <2>2. mem[front(b)] = g.taken[b] % blockSize BY <1>4 DEF Held, Indices
  <2> QED BY <2>1, <2>2, LoadNone
<1>5. CASE g.freed[b] < g.taken[b]
  <2> DEFINE s == Freeing(g, b, g.taken[b] - 1)
  <2>1. s \in Freed(g)
    <3>1. g.taken[b] - 1 \in g.freed[b] .. g.taken[b] - 1 BY <1>2, <1>5
    <3> QED BY <1>1, <3>1, Members DEF Good
  <2>2. s \in stores["consumer"] BY <2>1 DEF Held, Buffers
  <2>3. s.loc = front(b) /\ s.val = g.taken[b] % blockSize
    <3>1. (g.taken[b] - 1) + 1 = g.taken[b] BY <1>2
    <3> QED BY <3>1 DEF Freeing
  <2>4. s.after = g.base[b] + (g.taken[b] - 1) + g.turn[b] BY DEF Freeing
  <2>5. s.after \in Int BY <1>2, <2>4
  <2>6. ASSUME NEW o \in stores["consumer"], o.loc = front(b), o # s
        PROVE  o.after \in Int /\ o.after < s.after
    <3>1. PICK c \in g.freed[b] .. g.taken[b] - 1 : o = Freeing(g, b, c) BY <1>3, <2>6
    <3>2. c # g.taken[b] - 1 BY <2>6, <3>1
    <3>3. o.after = g.base[b] + c + g.turn[b] BY <3>1 DEF Freeing
    <3> HIDE DEF s
    <3> QED BY <3>2, <3>3, <2>4, <1>2
  <2> HIDE DEF s
  <2> QED BY <2>2, <2>3, <2>5, <2>6, LoadLast
<1> QED BY <1>2, <1>4, <1>5

\* The chain of counts in one piece.
LEMMA Chained ==
    ASSUME NEW g, Good(g), NEW b \in Block
    PROVE  /\ g.knownFront[b] \in Nat /\ g.freed[b] \in Nat /\ g.cleared[b] \in Nat
           /\ g.taken[b] \in Nat /\ g.knownTail[b] \in Nat /\ g.shown[b] \in Nat
           /\ g.put[b] \in Nat /\ g.filled[b] \in Nat
           /\ g.base[b] \in Int /\ g.first[b] \in Int /\ g.turn[b] \in Int
           /\ g.knownFront[b] <= g.freed[b] /\ g.freed[b] <= g.cleared[b]
           /\ g.cleared[b] <= g.taken[b] /\ g.taken[b] <= g.knownTail[b]
           /\ g.knownTail[b] <= g.shown[b] /\ g.shown[b] <= g.put[b]
           /\ g.put[b] < g.knownFront[b] + blockSize
           /\ g.taken[b] <= g.filled[b] /\ g.filled[b] <= g.put[b]
           /\ blockSize \in Nat \ {0} /\ blockSize > 1
<1>1. blockSize \in Nat \ {0} /\ blockSize > 1 BY GoodShape DEF Shape
<1> QED BY <1>1 DEF Good, Chain, History

\* Two counts of a block's slots in use are the same if their slots are.
LEMMA SameSlot ==
    ASSUME NEW g, Good(g), NEW b \in Block,
           NEW c \in Int, NEW d \in Int, g.freed[b] <= c, c < g.freed[b] + blockSize,
           g.freed[b] <= d, d < g.freed[b] + blockSize,
           c % blockSize = d % blockSize
    PROVE  c = d
<1>1. g.freed[b] \in Nat /\ blockSize \in Nat \ {0} BY Chained
<1>2. CASE c <= d
  <2>1. d < c + blockSize BY <1>1
  <2> QED BY <1>1, <1>2, <2>1, SlotUnique
<1>3. CASE d <= c
  <2>1. c < d + blockSize BY <1>1
  <2> QED BY <1>1, <1>3, <2>1, SlotUnique
<1> QED BY <1>2, <1>3

\* What the consumer reads from a slot.
LEMMA ReadsSlot ==
    ASSUME NEW g, Held(g), NEW b \in Block,
           NEW c \in g.taken[b] .. g.freed[b] + blockSize - 1
    PROVE  Load("consumer", data(b, c % blockSize))
               = IF c < g.filled[b] THEN g.base[b] + c ELSE Nothing
<1>1. Good(g) BY DEF Held
<1>2. \A o \in stores["consumer"] : o.loc # data(b, c % blockSize)
  <2> SUFFICES ASSUME NEW o \in stores["consumer"], o.loc = data(b, c % blockSize)
               PROVE  FALSE
    OBVIOUS
  <2>1. o \in Cleared(g) BY <1>1, WhereTo, Locations DEF Held, Buffers
  <2>5. PICK a \in Block : \E d \in g.cleared[a] .. g.taken[a] - 1 : o = Clearing(g, a, d)
    BY <1>1, <2>1, Members DEF Good
  <2>2. PICK d \in g.cleared[a] .. g.taken[a] - 1 : o = Clearing(g, a, d)
    BY <2>5
  <2>3. a = b /\ d % blockSize = c % blockSize
    BY <2>2, Locations DEF Clearing
  <2>4. c = d BY <1>1, <2>2, <2>3, Chained, SameSlot
  <2> QED BY <1>1, <2>2, <2>3, <2>4, Chained
<1>3. mem[data(b, c % blockSize)]
          = IF c < g.filled[b] THEN g.base[b] + c ELSE Nothing
  <2>1. /\ c \in g.freed[b] .. g.freed[b] + blockSize - 1 /\ g.cleared[b] <= c
    BY <1>1, Chained
  <2>2. mem[data(b, c % blockSize)]
          = IF g.cleared[b] <= c /\ c < g.filled[b] THEN g.base[b] + c ELSE Nothing
    BY <2>1 DEF Held, Slots
  <2> QED BY <2>1, <2>2
<1> QED BY <1>2, <1>3, LoadNone

LEMMA HeldHandedOver == ASSUME NEW g, Held(g) PROVE SlotsHandedOver
<1>1. Good(g) BY DEF Held
<1>2. ASSUME NEW s \in stores["producer"], NEW b \in Block, NEW i \in Slot, s.loc = data(b, i)
      PROVE  Load("consumer", data(b, i)) = Nothing
  <2>1. s \in Filled(g) BY <1>1, <1>2, WhereTo, Locations DEF Held, Buffers
  <2>2. PICK a \in Block : \E c \in g.filled[a] .. g.put[a] - 1 : s = Filling(g, a, c)
    BY <1>1, <2>1, Members DEF Good
  <2>3. PICK c \in g.filled[a] .. g.put[a] - 1 : s = Filling(g, a, c) BY <2>2
  <2>4. a = b /\ c % blockSize = i BY <1>2, <2>3, Locations DEF Filling
  <2>5. c \in g.taken[b] .. g.freed[b] + blockSize - 1 /\ ~ (c < g.filled[b])
    BY <1>1, <2>4, Chained
  <2> QED BY <2>4, <2>5, ReadsSlot
<1>3. \A i \in DOMAIN got : got[i] = i BY DEF Held, Indices
<1> QED BY <1>2, <1>3 DEF SlotsHandedOver

-----------------------------------------------------------------------------
(* The size never changes *)

LEMMA SameShape ==
    ASSUME size' = size
    PROVE  /\ blockSize' = blockSize /\ initialBlockCount' = initialBlockCount
           /\ Block' = Block /\ Slot' = Slot /\ Location' = Location
           /\ \A b : next(b)' = next(b)
<1>1. ceilToPow2(size + 1)' = ceilToPow2(size + 1) BY Zenon
<1>2. SingleBlock' = SingleBlock BY <1>1, Zenon DEF SingleBlock
<1>3. blockSize' = blockSize BY <1>1, <1>2, Zenon DEF blockSize
<1>4. initialBlockCount' = initialBlockCount BY <1>2, Zenon DEF initialBlockCount
<1>5. Block' = Block BY <1>4, Zenon DEF Block
<1>6. Slot' = Slot BY <1>3, Zenon DEF Slot
<1>7. Location' = Location BY <1>5, <1>6 DEF Location
<1>8. \A b : next(b)' = next(b) BY <1>4, Zenon DEF next
<1> QED BY <1>3, <1>4, <1>5, <1>6, <1>7, <1>8

LEMMA GoodStays == ASSUME NEW g, Good(g), size' = size PROVE Good(g)'
<1>1. History' = History BY SameShape, Zenon DEF History
<1>2. Chain(g)' BY SameShape DEF Good, Chain
<1>3. Ring(g)' BY SameShape DEF Good, Ring
<1>4. Places(g)' BY SameShape DEF Good, Places
<1>5. Numbered(g)' BY SameShape DEF Good, Numbered
<1>6. Packed(g)' BY SameShape DEF Good, Packed
<1> QED BY <1>1, <1>2, <1>3, <1>4, <1>5, <1>6 DEF Good

LEMMA BuffersStay ==
    ASSUME NEW g, size' = size
    PROVE  /\ Filled(g)' = Filled(g) /\ Shown(g)' = Shown(g) /\ Entered(g)' = Entered(g)
           /\ Cleared(g)' = Cleared(g) /\ Freed(g)' = Freed(g) /\ Left(g)' = Left(g)
<1>7. \A lo, hi : Between(lo, hi)' = Between(lo, hi) BY SameShape DEF Between
<1>1. Filled(g)' = Filled(g) BY SameShape, <1>7 DEF Filled, Filling
<1>2. Shown(g)' = Shown(g) BY SameShape, <1>7 DEF Shown, Showing
<1>3. Entered(g)' = Entered(g) BY SameShape, Zenon DEF Entered, Entering
<1>4. Cleared(g)' = Cleared(g) BY SameShape, <1>7 DEF Cleared, Clearing
<1>5. Freed(g)' = Freed(g) BY SameShape, <1>7 DEF Freed, Freeing
<1>6. Left(g)' = Left(g) BY SameShape, Zenon DEF Left, Leaving
<1> QED BY <1>1, <1>2, <1>3, <1>4, <1>5, <1>6

-----------------------------------------------------------------------------
(* What a step of the history does to the stores that wait *)

LEMMA SameStores ==
    ASSUME NEW g, NEW h
    PROVE  /\ h.filled = g.filled /\ h.put = g.put /\ h.base = g.base
                  => Filled(h) = Filled(g)
           /\ h.shown = g.shown /\ h.put = g.put /\ h.base = g.base /\ h.first = g.first
                  => Shown(h) = Shown(g)
           /\ h.turn = g.turn /\ h.seenTail = g.seenTail /\ h.base = g.base /\ h.first = g.first
                  => Entered(h) = Entered(g)
           /\ h.cleared = g.cleared /\ h.taken = g.taken /\ h.base = g.base /\ h.turn = g.turn
                  => Cleared(h) = Cleared(g)
           /\ h.freed = g.freed /\ h.taken = g.taken /\ h.base = g.base /\ h.turn = g.turn
                  => Freed(h) = Freed(g)
           /\ (/\ h.turn = g.turn /\ h.seenFront = g.seenFront /\ h.front = g.front
               /\ h.base = g.base /\ h.first = g.first)
                  => Left(h) = Left(g)
<1>1. h.filled = g.filled /\ h.put = g.put /\ h.base = g.base => Filled(h) = Filled(g)
  BY DEF Filled, Filling
<1>2. h.shown = g.shown /\ h.put = g.put /\ h.base = g.base /\ h.first = g.first
          => Shown(h) = Shown(g)
  BY DEF Shown, Showing
<1>3. h.turn = g.turn /\ h.seenTail = g.seenTail /\ h.base = g.base /\ h.first = g.first
          => Entered(h) = Entered(g)
  BY DEF Entered, Entering
<1>4. h.cleared = g.cleared /\ h.taken = g.taken /\ h.base = g.base /\ h.turn = g.turn
          => Cleared(h) = Cleared(g)
  BY DEF Cleared, Clearing
<1>5. h.freed = g.freed /\ h.taken = g.taken /\ h.base = g.base /\ h.turn = g.turn
          => Freed(h) = Freed(g)
  BY DEF Freed, Freeing
<1>6. (/\ h.turn = g.turn /\ h.seenFront = g.seenFront /\ h.front = g.front
       /\ h.base = g.base /\ h.first = g.first)
          => Left(h) = Left(g)
  <2> SUFFICES ASSUME h.turn = g.turn, h.seenFront = g.seenFront, h.front = g.front,
                      h.base = g.base, h.first = g.first
               PROVE  Left(h) = Left(g)
    OBVIOUS
  <2>1. \A b : Leaving(h, b) = Leaving(g, b) BY DEF Leaving
  <2> QED BY <2>1 DEF Left
<1> QED BY <1>1, <1>2, <1>3, <1>4, <1>5, <1>6

LEMMA BetweenMore ==
    ASSUME NEW lo \in [Block -> Nat], NEW hi \in [Block -> Nat], NEW b \in Block,
           lo[b] <= hi[b]
    PROVE  Between(lo, [hi EXCEPT ![b] = @ + 1]) = Between(lo, hi) \cup {<<b, hi[b]>>}
<1> DEFINE up == [hi EXCEPT ![b] = @ + 1]
<1>1. up[b] = hi[b] + 1 /\ \A a \in Block : a # b => up[a] = hi[a] OBVIOUS
<1>2. ASSUME NEW a \in Block, NEW n \in Nat
      PROVE  lo[a] <= n /\ n < up[a]
                 <=> (lo[a] <= n /\ n < hi[a]) \/ (a = b /\ n = hi[b])
  <2> HIDE DEF up
  <2>1. CASE a = b BY <2>1, <1>1
  <2>2. CASE a # b BY <2>2, <1>1
  <2> QED BY <2>1, <2>2
<1>3. ASSUME NEW p \in Block \X Nat
      PROVE  p \in Between(lo, up) <=> p \in Between(lo, hi) \cup {<<b, hi[b]>>}
  <2>1. p[1] \in Block /\ p[2] \in Nat /\ p = <<p[1], p[2]>> OBVIOUS
  <2>2. p = <<b, hi[b]>> <=> p[1] = b /\ p[2] = hi[b] BY <2>1
  <2> HIDE DEF up
  <2> QED BY <2>1, <2>2, <1>2 DEF Between
<1>4. <<b, hi[b]>> \in Block \X Nat OBVIOUS
<1> HIDE DEF up
<1>5. Between(lo, up) = Between(lo, hi) \cup {<<b, hi[b]>>}
  BY <1>3, <1>4 DEF Between
<1> QED BY <1>5 DEF up

LEMMA BetweenLess ==
    ASSUME NEW lo \in [Block -> Nat], NEW hi \in [Block -> Nat], NEW b \in Block
    PROVE  Between([lo EXCEPT ![b] = @ + 1], hi) = Between(lo, hi) \ {<<b, lo[b]>>}
<1> DEFINE up == [lo EXCEPT ![b] = @ + 1]
<1>1. up[b] = lo[b] + 1 /\ \A a \in Block : a # b => up[a] = lo[a] OBVIOUS
<1>2. ASSUME NEW a \in Block, NEW n \in Nat
      PROVE  up[a] <= n /\ n < hi[a]
                 <=> (lo[a] <= n /\ n < hi[a]) /\ ~ (a = b /\ n = lo[b])
  <2> HIDE DEF up
  <2>1. CASE a = b BY <2>1, <1>1
  <2>2. CASE a # b BY <2>2, <1>1
  <2> QED BY <2>1, <2>2
<1>3. ASSUME NEW p \in Block \X Nat
      PROVE  p \in Between(up, hi) <=> p \in Between(lo, hi) \ {<<b, lo[b]>>}
  <2>1. p[1] \in Block /\ p[2] \in Nat /\ p = <<p[1], p[2]>> OBVIOUS
  <2>2. p = <<b, lo[b]>> <=> p[1] = b /\ p[2] = lo[b] BY <2>1
  <2> HIDE DEF up
  <2> QED BY <2>1, <2>2, <1>2 DEF Between
<1> HIDE DEF up
<1>5. Between(up, hi) = Between(lo, hi) \ {<<b, lo[b]>>}
  BY <1>3 DEF Between
<1> QED BY <1>5 DEF up

LEMMA EnqueuedStores ==
    ASSUME NEW g, NEW h, Good(g), Enqueued(g, h)
    PROVE  /\ Filled(h) = Filled(g) \cup {Filling(g, g.tail, g.put[g.tail])}
           /\ Shown(h) = Shown(g) \cup {Showing(g, g.tail, g.put[g.tail])}
           /\ Entered(h) = Entered(g)
           /\ Cleared(h) = Cleared(g) /\ Freed(h) = Freed(g) /\ Left(h) = Left(g)
<1> DEFINE t == g.tail
           q == <<t, g.put[t]>>
<1>1. /\ t \in Block /\ h.put = [g.put EXCEPT ![t] = @ + 1]
      /\ h.filled = g.filled /\ h.shown = g.shown /\ h.base = g.base /\ h.first = g.first
      /\ h.cleared = g.cleared /\ h.taken = g.taken /\ h.freed = g.freed
      /\ h.turn = g.turn /\ h.front = g.front /\ h.seenFront = g.seenFront
      /\ h.seenTail = g.seenTail
  BY DEF Enqueued, Same, Good, History
<1>2. /\ g.put \in [Block -> Nat] /\ g.filled \in [Block -> Nat]
      /\ g.shown \in [Block -> Nat] /\ g.filled[t] <= g.put[t] /\ g.shown[t] <= g.put[t]
  BY <1>1, Chained DEF Good, History
<1>3. \A b, c : Filling(h, b, c) = Filling(g, b, c) /\ Showing(h, b, c) = Showing(g, b, c)
  BY <1>1 DEF Filling, Showing
<1>4. /\ Between(h.filled, h.put) = Between(g.filled, g.put) \cup {q}
      /\ Between(h.shown, h.put) = Between(g.shown, g.put) \cup {q}
  <2> HIDE DEF t
  <2>1. Between(g.filled, [g.put EXCEPT ![t] = @ + 1]) = Between(g.filled, g.put) \cup {q}
    BY <1>1, <1>2, BetweenMore
  <2>2. Between(g.shown, [g.put EXCEPT ![t] = @ + 1]) = Between(g.shown, g.put) \cup {q}
    BY <1>1, <1>2, BetweenMore
  <2> QED BY <1>1, <2>1, <2>2
<1>5. q[1] = t /\ q[2] = g.put[t] OBVIOUS
<1> HIDE DEF q
<1>6. Filled(h) = Filled(g) \cup {Filling(g, t, g.put[t])}
  BY <1>3, <1>4, <1>5 DEF Filled
<1>7. Shown(h) = Shown(g) \cup {Showing(g, t, g.put[t])}
  BY <1>3, <1>4, <1>5 DEF Shown
<1> QED BY <1>1, <1>6, <1>7, SameStores

LEMMA TakenStores ==
    ASSUME NEW g, NEW h, Good(g), Taken(g, h)
    PROVE  /\ Cleared(h) = Cleared(g) \cup {Clearing(g, g.front, g.taken[g.front])}
           /\ Freed(h) = Freed(g) \cup {Freeing(g, g.front, g.taken[g.front])}
           /\ Left(h) = Left(g)
           /\ Filled(h) = Filled(g) /\ Shown(h) = Shown(g) /\ Entered(h) = Entered(g)
<1> DEFINE f == g.front
           q == <<f, g.taken[f]>>
<1>1. /\ f \in Block /\ h.taken = [g.taken EXCEPT ![f] = @ + 1]
      /\ h.filled = g.filled /\ h.shown = g.shown /\ h.base = g.base /\ h.first = g.first
      /\ h.cleared = g.cleared /\ h.put = g.put /\ h.freed = g.freed
      /\ h.turn = g.turn /\ h.front = g.front /\ h.seenFront = g.seenFront
      /\ h.seenTail = g.seenTail
  BY DEF Taken, Same, Good, History
<1>2. /\ g.taken \in [Block -> Nat] /\ g.cleared \in [Block -> Nat]
      /\ g.freed \in [Block -> Nat] /\ g.cleared[f] <= g.taken[f] /\ g.freed[f] <= g.taken[f]
  <2>1. g.freed[f] <= g.cleared[f] /\ g.cleared[f] <= g.taken[f] BY <1>1, Chained
  <2> QED BY <1>1, <2>1, Chained DEF Good, History
<1>3. \A b, c : Clearing(h, b, c) = Clearing(g, b, c) /\ Freeing(h, b, c) = Freeing(g, b, c)
  BY <1>1 DEF Clearing, Freeing
<1>4. /\ Between(h.cleared, h.taken) = Between(g.cleared, g.taken) \cup {q}
      /\ Between(h.freed, h.taken) = Between(g.freed, g.taken) \cup {q}
  <2> HIDE DEF f
  <2>1. Between(g.cleared, [g.taken EXCEPT ![f] = @ + 1]) = Between(g.cleared, g.taken) \cup {q}
    BY <1>1, <1>2, BetweenMore
  <2>2. Between(g.freed, [g.taken EXCEPT ![f] = @ + 1]) = Between(g.freed, g.taken) \cup {q}
    BY <1>1, <1>2, BetweenMore
  <2> QED BY <1>1, <2>1, <2>2
<1>5. q[1] = f /\ q[2] = g.taken[f] OBVIOUS
<1> HIDE DEF q
<1>6. Cleared(h) = Cleared(g) \cup {Clearing(g, f, g.taken[f])}
  BY <1>3, <1>4, <1>5 DEF Cleared
<1>7. Freed(h) = Freed(g) \cup {Freeing(g, f, g.taken[f])}
  BY <1>3, <1>4, <1>5 DEF Freed
<1> QED BY <1>1, <1>6, <1>7, SameStores

LEMMA AdvancedStores ==
    ASSUME NEW g, NEW h, NEW b \in Block, Good(g), Advanced(g, h, b), b = next(g.front),
           g.turn[g.front] < g.turn[g.seenTail]
    PROVE  /\ Left(h) = Left(g) \cup {Leaving(g, b)}
           /\ Cleared(h) = Cleared(g) /\ Freed(h) = Freed(g)
           /\ Filled(h) = Filled(g) /\ Shown(h) = Shown(g) /\ Entered(h) = Entered(g)
<1>1. /\ h.front = b /\ h.taken = g.taken
      /\ h.filled = g.filled /\ h.shown = g.shown /\ h.base = g.base /\ h.first = g.first
      /\ h.cleared = g.cleared /\ h.put = g.put /\ h.freed = g.freed
      /\ h.turn = g.turn /\ h.seenFront = g.seenFront /\ h.seenTail = g.seenTail
  BY DEF Advanced, Same
<1>2. /\ g.turn[b] = g.turn[g.front] + 1 /\ g.turn[g.front] \in Int
      /\ g.turn[g.seenFront] <= g.turn[g.front] /\ g.turn[g.seenFront] \in Int
  <2>1. /\ g.front \in Block /\ g.seenFront \in Block /\ g.seenTail \in Block
        /\ g.turn[g.seenFront] <= g.turn[g.front]
    BY DEF Good, Ring, History
  <2>2. g.front # g.tail
    <3>1. g.turn[g.seenTail] <= g.turn[g.tail] BY <2>1, InTurn
    <3>2. g.turn[g.front] \in Int /\ g.turn[g.seenTail] \in Int /\ g.turn[g.tail] \in Int
      BY <2>1, InTurn DEF Good, History
    <3> QED BY <3>1, <3>2
  <2> QED BY <2>1, <2>2, InTurn
<1>3. \A a \in Block : /\ g.turn[a] \in Int
                       /\ g.turn[a] <= g.turn[b] <=> a = b \/ g.turn[a] <= g.turn[g.front]
  <2> SUFFICES ASSUME NEW a \in Block
               PROVE  /\ g.turn[a] \in Int
                      /\ g.turn[a] <= g.turn[b] <=> a = b \/ g.turn[a] <= g.turn[g.front]
    OBVIOUS
  <2>1. g.turn[a] \in Int /\ (g.turn[a] = g.turn[b] => a = b) BY InTurn
  <2> QED BY <1>2, <2>1
<1>4. \A a : Leaving(h, a) = Leaving(g, a) BY <1>1 DEF Leaving
<1>5. Left(h) = Left(g) \cup {Leaving(g, b)}
  <2>1. {a \in Block : h.turn[h.seenFront] < h.turn[a] /\ h.turn[a] <= h.turn[h.front]}
          = {a \in Block : g.turn[g.seenFront] < g.turn[a] /\ g.turn[a] <= g.turn[g.front]}
            \cup {b}
    BY <1>1, <1>2, <1>3
  <2> QED BY <2>1, <1>4 DEF Left
<1> QED BY <1>1, <1>5, SameStores

LEMMA TakenUpStores ==
    ASSUME NEW g, NEW h, NEW b \in Block, Good(g), TakenUp(g, h, b),
           b = next(g.tail), g.turn[b] < g.turn[g.seenFront]
    PROVE  /\ Filled(h) = Filled(g) \cup {Filling(h, b, g.put[b])}
           /\ Shown(h) = Shown(g) \cup {Showing(h, b, g.put[b])}
           /\ Entered(h) = Entered(g) \cup {Entering(h, b)}
           /\ Cleared(h) = Cleared(g) /\ Freed(h) = Freed(g) /\ Left(h) = Left(g)
<1> DEFINE q == <<b, g.put[b]>>
<1>1. /\ h.put = [g.put EXCEPT ![b] = @ + 1]
      /\ h.base = [g.base EXCEPT ![b] = g.sent + 1 - g.put[b]]
      /\ h.first = [g.first EXCEPT ![b] = g.put[b]]
      /\ h.turn = [g.turn EXCEPT ![b] = g.turn[g.tail] + 1]
      /\ h.filled = g.filled /\ h.shown = g.shown /\ h.cleared = g.cleared
      /\ h.taken = g.taken /\ h.freed = g.freed
      /\ h.front = g.front /\ h.seenFront = g.seenFront /\ h.seenTail = g.seenTail
  BY DEF TakenUp, Same
<1>2. /\ g.put \in [Block -> Nat] /\ g.filled \in [Block -> Nat]
      /\ g.shown \in [Block -> Nat] /\ g.taken \in [Block -> Nat]
      /\ g.cleared \in [Block -> Nat] /\ g.freed \in [Block -> Nat]
      /\ g.base \in [Block -> Int] /\ g.first \in [Block -> Int]
      /\ g.turn \in [Block -> Int] /\ g.tail \in Block
      /\ g.front \in Block /\ g.seenFront \in Block /\ g.seenTail \in Block
  BY DEF Good, History
<1>3. /\ g.turn[g.seenFront] <= g.turn[g.front]
      /\ g.turn[g.front] <= g.turn[g.seenTail]
      /\ g.turn[g.seenTail] <= g.turn[g.tail]
  BY DEF Good, Ring
<1>4. /\ g.freed[b] = g.put[b] /\ g.taken[b] = g.put[b] /\ g.shown[b] = g.put[b]
      /\ g.filled[b] = g.put[b] /\ g.cleared[b] = g.put[b]
      /\ g.filled[b] <= g.put[b] /\ g.shown[b] <= g.put[b]
  <2>1. g.freed[b] = g.put[b] /\ g.taken[b] = g.put[b] /\ g.shown[b] = g.put[b]
    BY <1>2, <1>3 DEF Good, Places
  <2> QED BY <2>1, Chained
<1>5. \A x \in Block : x # b => /\ h.base[x] = g.base[x] /\ h.first[x] = g.first[x]
                                /\ h.turn[x] = g.turn[x]
  BY <1>1, <1>2
<1>6. /\ h.turn[b] = g.turn[g.tail] + 1 /\ g.seenFront # b /\ g.front # b /\ g.seenTail # b
  BY <1>1, <1>2, <1>3
<1>7. /\ Between(h.filled, h.put) = Between(g.filled, g.put) \cup {q}
      /\ Between(h.shown, h.put) = Between(g.shown, g.put) \cup {q}
  <2> HIDE DEF TakenUp
  <2>1. Between(g.filled, [g.put EXCEPT ![b] = @ + 1])
          = Between(g.filled, g.put) \cup {<<b, g.put[b]>>}
    <3>1. g.filled \in [Block -> Nat] /\ g.put \in [Block -> Nat] /\ g.filled[b] <= g.put[b]
      BY <1>2, <1>4
    <3> QED BY ONLY <3>1, b \in Block, BetweenMore
  <2>2. Between(g.shown, [g.put EXCEPT ![b] = @ + 1])
          = Between(g.shown, g.put) \cup {<<b, g.put[b]>>}
    <3>1. g.shown \in [Block -> Nat] /\ g.put \in [Block -> Nat] /\ g.shown[b] <= g.put[b]
      BY <1>2, <1>4
    <3> QED BY ONLY <3>1, b \in Block, BetweenMore
  <2> QED BY <1>1, <2>1, <2>2
<1>8. q[1] = b /\ q[2] = g.put[b] OBVIOUS
<1> HIDE DEF q
<1>9. ASSUME NEW lo \in [Block -> Nat], NEW hi \in [Block -> Nat], lo[b] = hi[b],
             NEW p \in Between(lo, hi)
      PROVE  p[1] \in Block /\ p[1] # b
  BY <1>9, InBetween
<1>10. Filled(h) = Filled(g) \cup {Filling(h, b, g.put[b])}
  <2>1. \A p \in Between(g.filled, g.put) : Filling(h, p[1], p[2]) = Filling(g, p[1], p[2])
    BY <1>2, <1>4, <1>5, <1>9 DEF Filling
  <2> QED BY <2>1, <1>7, <1>8 DEF Filled
<1>11. Shown(h) = Shown(g) \cup {Showing(h, b, g.put[b])}
  <2>1. \A p \in Between(g.shown, g.put) : Showing(h, p[1], p[2]) = Showing(g, p[1], p[2])
    BY <1>2, <1>4, <1>5, <1>9 DEF Showing
  <2> QED BY <2>1, <1>7, <1>8 DEF Shown
<1>12. Cleared(h) = Cleared(g)
  <2>1. \A p \in Between(g.cleared, g.taken) : Clearing(h, p[1], p[2]) = Clearing(g, p[1], p[2])
    BY <1>2, <1>4, <1>5, <1>9 DEF Clearing
  <2> QED BY <2>1, <1>1 DEF Cleared
<1>13. Freed(h) = Freed(g)
  <2>1. \A p \in Between(g.freed, g.taken) : Freeing(h, p[1], p[2]) = Freeing(g, p[1], p[2])
    BY <1>2, <1>4, <1>5, <1>9 DEF Freeing
  <2> QED BY <2>1, <1>1 DEF Freed
<1>14. Entered(h) = Entered(g) \cup {Entering(h, b)}
  <2>1. {a \in Block : h.turn[h.seenTail] < h.turn[a]}
          = {a \in Block : g.turn[g.seenTail] < g.turn[a]} \cup {b}
    BY <1>1, <1>2, <1>3, <1>5, <1>6
  <2>2. \A a \in Block : g.turn[g.seenTail] < g.turn[a] => Entering(h, a) = Entering(g, a)
    BY <1>2, <1>3, <1>5 DEF Entering
  <2> QED BY <2>1, <2>2 DEF Entered
<1>15. Left(h) = Left(g)
  <2>1. {a \in Block : h.turn[h.seenFront] < h.turn[a] /\ h.turn[a] <= h.turn[h.front]}
          = {a \in Block : g.turn[g.seenFront] < g.turn[a] /\ g.turn[a] <= g.turn[g.front]}
    BY <1>1, <1>2, <1>3, <1>5, <1>6
  <2>2. \A a \in Block : g.turn[g.seenFront] < g.turn[a] => Leaving(h, a) = Leaving(g, a)
    BY <1>2, <1>3, <1>5 DEF Leaving
  <2> QED BY <2>1, <2>2 DEF Left
<1> QED BY <1>10, <1>11, <1>12, <1>13, <1>14, <1>15

\* No tail of a block's turn is older than its first element.
LEMMA FirstShown == ASSUME NEW g, Good(g), NEW b \in Block PROVE g.first[b] <= g.shown[b]
<1>1. /\ g.turn[b] \in Int /\ g.turn[g.front] \in Int /\ g.turn[g.seenTail] \in Int
      /\ g.turn[g.front] <= g.turn[g.seenTail]
  BY DEF Good, Ring, History
<1>2. /\ g.turn[b] <= g.turn[g.seenTail] => g.first[b] < g.shown[b]
      /\ g.turn[g.front] < g.turn[b] => g.taken[b] = g.first[b]
  BY DEF Good, Places
<1> QED BY <1>1, <1>2, Chained

LEMMA NowFilledStores ==
    ASSUME NEW g, NEW h, NEW b \in Block, Good(g), NowFilled(g, h, b), g.filled[b] < g.put[b]
    PROVE  /\ Filled(h) = Filled(g) \ {Filling(g, b, g.filled[b])}
           /\ Shown(h) = Shown(g) /\ Entered(h) = Entered(g)
           /\ Cleared(h) = Cleared(g) /\ Freed(h) = Freed(g) /\ Left(h) = Left(g)
<1> DEFINE q == <<b, g.filled[b]>>
<1>1. /\ h.filled = [g.filled EXCEPT ![b] = @ + 1]
      /\ h.put = g.put /\ h.shown = g.shown /\ h.base = g.base
      /\ h.first = g.first /\ h.turn = g.turn /\ h.cleared = g.cleared
      /\ h.taken = g.taken /\ h.freed = g.freed /\ h.front = g.front
      /\ h.seenFront = g.seenFront /\ h.seenTail = g.seenTail
  BY DEF NowFilled, Same
<1>2. g.filled \in [Block -> Nat] /\ g.put \in [Block -> Nat]
  BY DEF Good, History
<1>3. \A a, c : Filling(h, a, c) = Filling(g, a, c) BY <1>1 DEF Filling
<1>4. Between(h.filled, h.put) = Between(g.filled, g.put) \ {q} BY <1>1, <1>2, BetweenLess
<1>5. q \in Between(g.filled, g.put) /\ q[1] = b /\ q[2] = g.filled[b] BY <1>2, InBetween
<1>6. ASSUME NEW p \in Between(g.filled, g.put),
             Filling(g, p[1], p[2]) = Filling(g, b, g.filled[b])
      PROVE  p = q
  <2>1. p[1] \in Block /\ p[2] \in g.filled[p[1]] .. g.put[p[1]] - 1 /\ p = <<p[1], p[2]>>
    BY <1>2, InBetween DEF Between
  <2>2. p[1] = b BY <1>6, Locations DEF Filling
  <2>3. p[2] = g.filled[b]
    <3>1. g.base[b] + p[2] - 1 = g.base[b] + g.filled[b] - 1 BY <1>6, <2>2 DEF Filling
    <3>2. p[2] \in Int /\ g.filled[b] \in Int /\ g.base[b] \in Int
      BY <2>1, <2>2, Chained
    <3> HIDE DEF q
    <3> QED BY <3>1, <3>2
  <2> QED BY <2>1, <2>2, <2>3
<1> HIDE DEF q
<1>7. Filled(h) = Filled(g) \ {Filling(g, b, g.filled[b])}
  BY <1>3, <1>4, <1>5, <1>6 DEF Filled
<1> QED BY <1>1, <1>7, SameStores

LEMMA NowShownStores ==
    ASSUME NEW g, NEW h, NEW b \in Block, Good(g), NowShown(g, h, b), g.shown[b] < g.put[b]
    PROVE  /\ Shown(h) = Shown(g) \ {Showing(g, b, g.shown[b])}
           /\ Filled(h) = Filled(g) /\ Entered(h) = Entered(g)
           /\ Cleared(h) = Cleared(g) /\ Freed(h) = Freed(g) /\ Left(h) = Left(g)
<1> DEFINE q == <<b, g.shown[b]>>
<1>1. /\ h.shown = [g.shown EXCEPT ![b] = @ + 1]
      /\ h.filled = g.filled /\ h.put = g.put /\ h.base = g.base
      /\ h.first = g.first /\ h.turn = g.turn /\ h.cleared = g.cleared
      /\ h.taken = g.taken /\ h.freed = g.freed /\ h.front = g.front
      /\ h.seenFront = g.seenFront /\ h.seenTail = g.seenTail
  BY DEF NowShown, Same
<1>2. g.shown \in [Block -> Nat] /\ g.put \in [Block -> Nat]
  BY DEF Good, History
<1>3. \A a, c : Showing(h, a, c) = Showing(g, a, c) BY <1>1 DEF Showing
<1>4. Between(h.shown, h.put) = Between(g.shown, g.put) \ {q} BY <1>1, <1>2, BetweenLess
<1>5. q \in Between(g.shown, g.put) /\ q[1] = b /\ q[2] = g.shown[b] BY <1>2, InBetween
<1>6. ASSUME NEW p \in Between(g.shown, g.put),
             Showing(g, p[1], p[2]) = Showing(g, b, g.shown[b])
      PROVE  p = q
  <2>1. p[1] \in Block /\ p[2] \in g.shown[p[1]] .. g.put[p[1]] - 1 /\ p = <<p[1], p[2]>>
    BY <1>2, InBetween DEF Between
  <2>2. p[1] = b BY <1>6, Locations DEF Showing
  <2>3. p[2] = g.shown[b]
    <3>1. (IF p[2] = g.first[b] THEN g.base[b] + p[2] - 1 ELSE g.base[b] + p[2])
            = (IF g.shown[b] = g.first[b] THEN g.base[b] + g.shown[b] - 1
               ELSE g.base[b] + g.shown[b])
      BY <1>6, <2>2 DEF Showing
    <3>2. /\ p[2] \in Int /\ g.shown[b] \in Int /\ g.base[b] \in Int /\ g.first[b] \in Int
          /\ g.first[b] <= g.shown[b] /\ g.shown[b] <= p[2]
      BY <2>1, <2>2, Chained, FirstShown
    <3> QED BY <3>1, <3>2
  <2> QED BY <2>1, <2>2, <2>3
<1> HIDE DEF q
<1>7. Shown(h) = Shown(g) \ {Showing(g, b, g.shown[b])}
  BY <1>3, <1>4, <1>5, <1>6 DEF Shown
<1> QED BY <1>1, <1>7, SameStores

LEMMA NowClearedStores ==
    ASSUME NEW g, NEW h, NEW b \in Block, Good(g), NowCleared(g, h, b), g.cleared[b] < g.taken[b]
    PROVE  /\ Cleared(h) = Cleared(g) \ {Clearing(g, b, g.cleared[b])}
           /\ Filled(h) = Filled(g) /\ Shown(h) = Shown(g)
           /\ Entered(h) = Entered(g) /\ Freed(h) = Freed(g) /\ Left(h) = Left(g)
<1> DEFINE q == <<b, g.cleared[b]>>
<1>1. /\ h.cleared = [g.cleared EXCEPT ![b] = @ + 1]
      /\ h.filled = g.filled /\ h.put = g.put /\ h.shown = g.shown
      /\ h.base = g.base /\ h.first = g.first /\ h.turn = g.turn /\ h.taken = g.taken
      /\ h.freed = g.freed /\ h.front = g.front /\ h.seenFront = g.seenFront
      /\ h.seenTail = g.seenTail
  BY DEF NowCleared, Same
<1>2. g.cleared \in [Block -> Nat] /\ g.taken \in [Block -> Nat]
  BY DEF Good, History
<1>3. \A a, c : Clearing(h, a, c) = Clearing(g, a, c) BY <1>1 DEF Clearing
<1>4. Between(h.cleared, h.taken) = Between(g.cleared, g.taken) \ {q} BY <1>1, <1>2, BetweenLess
<1>5. q \in Between(g.cleared, g.taken) /\ q[1] = b /\ q[2] = g.cleared[b] BY <1>2, InBetween
<1>6. ASSUME NEW p \in Between(g.cleared, g.taken),
             Clearing(g, p[1], p[2]) = Clearing(g, b, g.cleared[b])
      PROVE  p = q
  <2>1. p[1] \in Block /\ p[2] \in g.cleared[p[1]] .. g.taken[p[1]] - 1 /\ p = <<p[1], p[2]>>
    BY <1>2, InBetween DEF Between
  <2>2. p[1] = b BY <1>6, Locations DEF Clearing
  <2>3. p[2] = g.cleared[b]
    <3>1. g.base[b] + p[2] - 1 + g.turn[b] = g.base[b] + g.cleared[b] - 1 + g.turn[b] BY <1>6, <2>2 DEF Clearing
    <3>2. p[2] \in Int /\ g.cleared[b] \in Int /\ g.base[b] \in Int /\ g.turn[b] \in Int
      BY <2>1, <2>2, Chained
    <3> QED BY <3>1, <3>2
  <2> QED BY <2>1, <2>2, <2>3
<1> HIDE DEF q
<1>7. Cleared(h) = Cleared(g) \ {Clearing(g, b, g.cleared[b])}
  BY <1>3, <1>4, <1>5, <1>6 DEF Cleared
<1> QED BY <1>1, <1>7, SameStores

LEMMA NowFreedStores ==
    ASSUME NEW g, NEW h, NEW b \in Block, Good(g), NowFreed(g, h, b), g.freed[b] < g.taken[b]
    PROVE  /\ Freed(h) = Freed(g) \ {Freeing(g, b, g.freed[b])}
           /\ Filled(h) = Filled(g) /\ Shown(h) = Shown(g)
           /\ Entered(h) = Entered(g) /\ Cleared(h) = Cleared(g) /\ Left(h) = Left(g)
<1> DEFINE q == <<b, g.freed[b]>>
<1>1. /\ h.freed = [g.freed EXCEPT ![b] = @ + 1]
      /\ h.filled = g.filled /\ h.put = g.put /\ h.shown = g.shown
      /\ h.base = g.base /\ h.first = g.first /\ h.turn = g.turn
      /\ h.cleared = g.cleared /\ h.taken = g.taken /\ h.front = g.front
      /\ h.seenFront = g.seenFront /\ h.seenTail = g.seenTail
  BY DEF NowFreed, Same
<1>2. g.freed \in [Block -> Nat] /\ g.taken \in [Block -> Nat]
  BY DEF Good, History
<1>3. \A a, c : Freeing(h, a, c) = Freeing(g, a, c) BY <1>1 DEF Freeing
<1>4. Between(h.freed, h.taken) = Between(g.freed, g.taken) \ {q} BY <1>1, <1>2, BetweenLess
<1>5. q \in Between(g.freed, g.taken) /\ q[1] = b /\ q[2] = g.freed[b] BY <1>2, InBetween
<1>6. ASSUME NEW p \in Between(g.freed, g.taken),
             Freeing(g, p[1], p[2]) = Freeing(g, b, g.freed[b])
      PROVE  p = q
  <2>1. p[1] \in Block /\ p[2] \in g.freed[p[1]] .. g.taken[p[1]] - 1 /\ p = <<p[1], p[2]>>
    BY <1>2, InBetween DEF Between
  <2>2. p[1] = b BY <1>6, Locations DEF Freeing
  <2>3. p[2] = g.freed[b]
    <3>1. g.base[b] + p[2] + g.turn[b] = g.base[b] + g.freed[b] + g.turn[b] BY <1>6, <2>2 DEF Freeing
    <3>2. p[2] \in Int /\ g.freed[b] \in Int /\ g.base[b] \in Int /\ g.turn[b] \in Int
      BY <2>1, <2>2, Chained
    <3> QED BY <3>1, <3>2
  <2> QED BY <2>1, <2>2, <2>3
<1> HIDE DEF q
<1>7. Freed(h) = Freed(g) \ {Freeing(g, b, g.freed[b])}
  BY <1>3, <1>4, <1>5, <1>6 DEF Freed
<1> QED BY <1>1, <1>7, SameStores

LEMMA NowEnteredStores ==
    ASSUME NEW g, NEW h, NEW b \in Block, Good(g), NowEntered(g, h, b),
           b = next(g.seenTail), g.turn[g.seenTail] < g.turn[g.tail]
    PROVE  /\ Entered(h) = Entered(g) \ {Entering(g, b)}
           /\ Filled(h) = Filled(g) /\ Shown(h) = Shown(g) /\ Cleared(h) = Cleared(g)
           /\ Freed(h) = Freed(g) /\ Left(h) = Left(g)
<1>1. /\ h.seenTail = b /\ h.filled = g.filled /\ h.put = g.put /\ h.shown = g.shown
      /\ h.base = g.base /\ h.first = g.first /\ h.turn = g.turn
      /\ h.cleared = g.cleared /\ h.taken = g.taken /\ h.freed = g.freed
      /\ h.front = g.front /\ h.seenFront = g.seenFront
  BY DEF NowEntered, Same
<1>2. g.turn[b] = g.turn[g.seenTail] + 1 /\ g.seenTail \in Block
  <2>1. g.seenTail \in Block /\ g.front \in Block /\ g.tail \in Block BY DEF Good, History
  <2>2. g.seenTail # g.tail
    <3>1. /\ g.turn[g.tail] <= g.turn[g.tail] /\ g.turn[g.tail] \in Int
          /\ g.turn[g.seenTail] \in Int /\ g.turn[g.tail] \in Int
      BY <2>1, InTurn
    <3> QED BY <3>1
  <2> QED BY <2>1, <2>2, InTurn
<1>3. \A a \in Block : g.turn[b] < g.turn[a] <=> g.turn[g.seenTail] < g.turn[a] /\ a # b
  <2> SUFFICES ASSUME NEW a \in Block
               PROVE  g.turn[b] < g.turn[a] <=> g.turn[g.seenTail] < g.turn[a] /\ a # b
    OBVIOUS
  <2>1. /\ g.turn[a] \in Int /\ g.turn[g.seenTail] \in Int
        /\ (g.turn[a] = g.turn[b] => a = b)
    BY <1>2, InTurn
  <2> QED BY <1>2, <2>1
<1>4. \A a : Entering(h, a) = Entering(g, a) BY <1>1 DEF Entering
<1>5. \A a : Entering(g, a) = Entering(g, b) => a = b BY DEF Entering
<1>6. Entered(h) = Entered(g) \ {Entering(g, b)}
  BY <1>1, <1>3, <1>4, <1>5 DEF Entered
<1> QED BY <1>1, <1>6, SameStores

LEMMA NowLeftStores ==
    ASSUME NEW g, NEW h, NEW b \in Block, Good(g), NowLeft(g, h, b),
           b = next(g.seenFront), g.turn[g.seenFront] < g.turn[g.front]
    PROVE  /\ Left(h) = Left(g) \ {Leaving(g, b)}
           /\ Filled(h) = Filled(g) /\ Shown(h) = Shown(g) /\ Cleared(h) = Cleared(g)
           /\ Freed(h) = Freed(g) /\ Entered(h) = Entered(g)
<1>1. /\ h.seenFront = b /\ h.filled = g.filled /\ h.put = g.put /\ h.shown = g.shown
      /\ h.base = g.base /\ h.first = g.first /\ h.turn = g.turn
      /\ h.cleared = g.cleared /\ h.taken = g.taken /\ h.freed = g.freed
      /\ h.front = g.front /\ h.seenTail = g.seenTail
  BY DEF NowLeft, Same
<1>2. g.turn[b] = g.turn[g.seenFront] + 1 /\ g.seenFront \in Block
  <2>1. g.seenFront \in Block /\ g.front \in Block /\ g.tail \in Block BY DEF Good, History
  <2>2. g.seenFront # g.tail
    <3>1. /\ g.turn[g.front] <= g.turn[g.tail] /\ g.turn[g.front] \in Int
          /\ g.turn[g.seenFront] \in Int /\ g.turn[g.tail] \in Int
      BY <2>1, InTurn
    <3> QED BY <3>1
  <2> QED BY <2>1, <2>2, InTurn
<1>3. \A a \in Block : g.turn[b] < g.turn[a] <=> g.turn[g.seenFront] < g.turn[a] /\ a # b
  <2> SUFFICES ASSUME NEW a \in Block
               PROVE  g.turn[b] < g.turn[a] <=> g.turn[g.seenFront] < g.turn[a] /\ a # b
    OBVIOUS
  <2>1. /\ g.turn[a] \in Int /\ g.turn[g.seenFront] \in Int
        /\ (g.turn[a] = g.turn[b] => a = b)
    BY <1>2, InTurn
  <2> QED BY <1>2, <2>1
<1>4. \A a : Leaving(h, a) = Leaving(g, a) BY <1>1 DEF Leaving
<1>5. \A a : Leaving(g, a) = Leaving(g, b) => a = b BY DEF Leaving
<1>6. Left(h) = Left(g) \ {Leaving(g, b)}
  BY <1>1, <1>3, <1>4, <1>5 DEF Left
<1> QED BY <1>1, <1>6, SameStores

-----------------------------------------------------------------------------
(* Every step of the program is a step of the history *)

\* What a step leaves is read off the history it leaves.
LEMMA HeldNext ==
    ASSUME NEW h, size' = size, Good(h),
           Indices(h)', Slots(h)', Buffers(h)', Found(h)'
    PROVE  Held(h)'
BY GoodStays DEF Held

LEMMA SlotsStay ==
    ASSUME NEW g, NEW h, Good(g), Slots(g), size' = size, mem' = mem,
           h.freed = g.freed, h.cleared = g.cleared, h.filled = g.filled,
           \A b \in Block : g.cleared[b] < g.filled[b] => h.base[b] = g.base[b]
    PROVE  Slots(h)'
<1>1. ASSUME NEW b \in Block, NEW c \in g.freed[b] .. g.freed[b] + blockSize - 1
      PROVE  mem[data(b, c % blockSize)] =
                 IF g.cleared[b] <= c /\ c < g.filled[b] THEN h.base[b] + c ELSE Nothing
  <2>1. /\ g.cleared[b] \in Nat /\ g.filled[b] \in Nat
        /\ g.freed[b] \in Nat /\ blockSize \in Nat
    BY Chained
  <2>2. mem[data(b, c % blockSize)] =
            IF g.cleared[b] <= c /\ c < g.filled[b] THEN g.base[b] + c ELSE Nothing
    BY DEF Slots
  <2> QED BY <2>1, <2>2
<1> QED BY <1>1, SameShape DEF Slots

LEMMA SuccSlot ==
    ASSUME NEW g, Good(g), NEW c \in Int
    PROVE  Succ(c % blockSize) = (c + 1) % blockSize
<1>1. blockSize \in Nat \ {0} BY GoodShape DEF Shape
<1>2. ((c % blockSize) + 1) % blockSize = (c + 1) % blockSize BY <1>1, SlotStep
<1> QED BY <1>2 DEF Succ

LEMMA IssuedPair ==
    ASSUME NEW t \in Thread, NEW l, NEW v, NEW k, NEW w,
           Issue(t, {Store(l, v)}, {Store(k, w)}),
           DOMAIN stores = Thread, DOMAIN fences = Thread
    PROVE  /\ stores'[t] = stores[t] \cup {[loc |-> l, val |-> v, after |-> fences[t]]}
                                    \cup {[loc |-> k, val |-> w, after |-> fences[t] + 1]}
           /\ fences'[t] = fences[t] + 1
           /\ \A u \in Thread \ {t} : stores'[u] = stores[u] /\ fences'[u] = fences[u]
           /\ DOMAIN stores' = Thread /\ DOMAIN fences' = Thread
<1>1. {Waiting(s, fences[t]) : s \in {Store(l, v)}}
          = {[loc |-> l, val |-> v, after |-> fences[t]]}
  BY IssueOne
<1>2. {Waiting(s, fences[t] + 1) : s \in {Store(k, w)}}
          = {[loc |-> k, val |-> w, after |-> fences[t] + 1]}
  BY IssueOne
<1> QED BY <1>1, <1>2, Issued

\* The producer has room by its copy of front, which may be new.
LEMMA EnqueueHereKeeps ==
    ASSUME NEW g, Held(g), NEW g1, Same(g, g1, {"knownFront"}), Good(g1),
           g1.put[g.tail] + 1 < g1.knownFront[g.tail] + blockSize,
           producer.pc = "idle", EnqueueHere,
           UNCHANGED <<size, mem, consumer, localTail, got>>,
           localFront' \in [Block -> Int],
           \A b \in Block : localFront'[b] = g1.knownFront[b] % blockSize
    PROVE  \E h : Held(h)' /\ Moves(g, h)
<1> DEFINE t == g.tail
<1>1. Good(g) /\ t \in Block /\ g.put[t] \in Nat /\ g.base[t] \in Int /\ g.sent \in Nat
  BY DEF Held, Good, History
<1>2. PICK h : Enqueued(g1, h) BY EnqueuedExists DEF Same
<1>3. /\ g1.put = g.put /\ g1.filled = g.filled /\ g1.shown = g.shown
      /\ g1.base = g.base /\ g1.first = g.first /\ g1.turn = g.turn
      /\ g1.cleared = g.cleared /\ g1.taken = g.taken /\ g1.freed = g.freed
      /\ g1.front = g.front /\ g1.tail = t /\ g1.seenFront = g.seenFront
      /\ g1.seenTail = g.seenTail /\ g1.sent = g.sent /\ g1.got = g.got
      /\ g1.knownTail = g.knownTail
  BY DEF Same
<1>4. /\ h.put = [g.put EXCEPT ![t] = @ + 1] /\ h.sent = g.sent + 1
      /\ h.filled = g.filled /\ h.shown = g.shown
      /\ h.base = g.base /\ h.first = g.first /\ h.turn = g.turn
      /\ h.cleared = g.cleared /\ h.taken = g.taken /\ h.freed = g.freed
      /\ h.front = g.front /\ h.tail = t /\ h.seenFront = g.seenFront
      /\ h.seenTail = g.seenTail /\ h.got = g.got
      /\ h.knownTail = g.knownTail /\ h.knownFront = g1.knownFront
  BY <1>2, <1>3 DEF Enqueued, Same
<1>5. Good(h) BY <1>2, <1>3, EnqueuedGood
<1>6. /\ TailBlock = t /\ BlockTail = g.put[t] % blockSize
      /\ producer.sent = g.sent /\ Item = g.sent + 1 /\ Item = g.base[t] + g.put[t]
  <2>1. TailBlock = t BY ReadsTailBlock
  <2>2. BlockTail = g.put[t] % blockSize BY <1>1, <2>1, ReadsTail DEF BlockTail
  <2>3. producer.sent = g.sent BY DEF Held, Indices
  <2>4. g.base[t] + g.put[t] = g.sent + 1 BY <1>1 DEF Good, Numbered
  <2> QED BY <2>1, <2>2, <2>3, <2>4 DEF Item
<1>7. producer' = [producer EXCEPT !.sent = g.sent + 1] BY <1>6 DEF EnqueueHere
<1>8. producer'.pc = "idle" /\ producer'.sent = g.sent + 1
      /\ DOMAIN producer' = {"pc", "sent", "full"}
  BY <1>7 DEF Held, Indices
<1>9. Indices(h)'
  BY <1>4, <1>8, SameShape DEF Held, Indices, EnqueueHere, Issue
<1>10. Slots(h)' BY <1>4, SlotsStay DEF Held
<1>11. Buffers(h)'
  <2>1. /\ fences["producer"] = g.sent
        /\ stores["producer"] = Filled(g) \cup Shown(g) \cup Entered(g)
    BY DEF Held, Buffers, Finished
  <2>2. /\ Filled(h) = Filled(g) \cup {Filling(g, t, g.put[t])}
        /\ Shown(h) = Shown(g) \cup {Showing(g, t, g.put[t])}
        /\ Entered(h) = Entered(g)
        /\ Cleared(h) = Cleared(g) /\ Freed(h) = Freed(g) /\ Left(h) = Left(g)
    <3>1. /\ Filling(g1, t, g.put[t]) = Filling(g, t, g.put[t])
          /\ Showing(g1, t, g.put[t]) = Showing(g, t, g.put[t])
      BY <1>3 DEF Filling, Showing
    <3> QED BY <1>2, <1>3, <3>1, SameStores, EnqueuedStores
  <2>3. Issue("producer", {Store(data(t, g.put[t] % blockSize), g.sent + 1)},
                          {Store(tail(t), Succ(g.put[t] % blockSize))})
    BY <1>6 DEF EnqueueHere
  <2>4. /\ Filling(g, t, g.put[t]) = [loc |-> data(t, g.put[t] % blockSize),
                                      val |-> g.sent + 1, after |-> g.sent]
        /\ Showing(g, t, g.put[t]) = [loc |-> tail(t), val |-> Succ(g.put[t] % blockSize),
                                      after |-> g.sent + 1]
    <3>1. g.base[t] + g.put[t] = g.sent + 1 /\ g.base[t] + g.put[t] - 1 = g.sent
      BY <1>1, <1>6
    <3>2. g.first[t] # g.put[t]
      BY <1>1, Chained DEF Good, Places
    <3>3. Succ(g.put[t] % blockSize) = (g.put[t] + 1) % blockSize
      BY <1>1, SuccSlot
    <3> QED BY <3>1, <3>2, <3>3 DEF Filling, Showing
  <2>5. /\ stores'["producer"] = stores["producer"] \cup {Filling(g, t, g.put[t])}
                                                    \cup {Showing(g, t, g.put[t])}
        /\ stores'["consumer"] = stores["consumer"]
        /\ fences'["producer"] = g.sent + 1 /\ fences'["consumer"] = fences["consumer"]
    <3>1. DOMAIN stores = Thread /\ DOMAIN fences = Thread BY DEF Held, Indices
    <3>2. "producer" \in Thread /\ "consumer" \in Thread \ {"producer"} BY DEF Thread
    <3> QED BY <2>1, <2>3, <2>4, <3>1, <3>2, IssuedPair
  <2>6. Finished(h)' = {} BY <1>8 DEF Finished
  <2> QED BY <1>4, <1>8, <2>1, <2>2, <2>5, <2>6, BuffersStay DEF Held, Buffers
<1>12. Found(h)'
  <2>1. consumer.pc = "advance" => h.put[g.front] = g.put[g.front]
    <3>1. consumer.pc = "advance" => g.turn[g.front] < g.turn[g.seenTail]
      BY DEF Held, Found
    <3>2. /\ g.turn[g.seenTail] <= g.turn[t] /\ g.front \in Block
          /\ g.turn[g.seenTail] \in Int /\ g.turn[g.front] \in Int /\ g.turn[t] \in Int
      BY <1>1 DEF Good, Ring, History
    <3>3. consumer.pc = "advance" => g.front # t BY <3>1, <3>2
    <3> QED BY <1>1, <1>4, <3>2, <3>3 DEF Good, History
  <2> QED BY <1>4, <1>8, <2>1 DEF Held, Found
<1>13. Moves(g, h) BY <1>2, <1>3, NoMove DEF Enqueued, Same
<1> QED BY <1>13, <1>5, <1>9, <1>10, <1>11, <1>12, HeldNext

\* A step that only decides.
LEMMA QuietKeeps ==
    ASSUME NEW g, Held(g), UNCHANGED <<size, mem, buffers, localFront, localTail, got>>,
           DOMAIN producer' = DOMAIN producer, DOMAIN consumer' = DOMAIN consumer,
           producer'.sent = producer.sent,
           producer'.pc = "stopped" <=> producer.pc = "stopped",
           Found(g)'
    PROVE  Held(g)'
<1>1. Good(g) BY DEF Held
<1>2. size' = size /\ mem' = mem /\ stores' = stores /\ fences' = fences
  BY DEF buffers
<1>3. Indices(g)' BY <1>2, SameShape DEF Held, Indices
<1>4. Slots(g)' BY <1>1, <1>2, SlotsStay DEF Held
<1>5. Buffers(g)'
  <2>1. Finished(g)' = Finished(g) BY <1>2 DEF Finished, Done
  <2> QED BY <1>2, <2>1, BuffersStay DEF Held, Buffers
<1> QED BY <1>1, <1>2, <1>3, <1>4, <1>5, HeldNext

LEMMA LookedFrontKeeps ==
    ASSUME NEW g, Held(g), NEW b \in Block, NEW h, LookedFront(g, h, b),
           UNCHANGED <<size, mem, buffers, consumer, localTail, got>>,
           localFront' = [localFront EXCEPT ![b] = mem[front(b)]],
           DOMAIN producer' = DOMAIN producer, producer'.sent = producer.sent,
           producer'.pc = "ring", producer.pc = "idle", b = g.tail,
           g.put[b] + 1 = g.freed[b] + blockSize,
           initialBlockCount = 1 => producer'.full
    PROVE  Held(h)'
<1>1. Good(g) /\ Good(h) BY LookedFrontGood DEF Held
<1>2. size' = size /\ mem' = mem /\ stores' = stores /\ fences' = fences
  BY DEF buffers
<1>3. /\ h.knownFront = [g.knownFront EXCEPT ![b] = g.freed[b]]
      /\ h.put = g.put /\ h.sent = g.sent
      /\ h.filled = g.filled /\ h.shown = g.shown
      /\ h.base = g.base /\ h.first = g.first /\ h.turn = g.turn
      /\ h.cleared = g.cleared /\ h.taken = g.taken /\ h.freed = g.freed
      /\ h.front = g.front /\ h.tail = g.tail /\ h.seenFront = g.seenFront
      /\ h.seenTail = g.seenTail /\ h.got = g.got /\ h.knownTail = g.knownTail
  BY DEF LookedFront, Same
<1>4. Indices(h)'
  <2>1. mem[front(b)] = g.freed[b] % blockSize /\ mem[front(b)] \in Int
    <3>1. g.freed[b] \in Nat /\ blockSize \in Nat \ {0} BY <1>1, Chained
    <3>2. (g.freed[b] % blockSize) \in Int BY <3>1, DivMod
    <3> QED BY <3>2 DEF Held, Indices
  <2>2. localFront' \in [Block -> Int] BY <2>1 DEF Held, Indices
  <2>3. \A x \in Block : localFront'[x] = h.knownFront[x] % blockSize
    <3> SUFFICES ASSUME NEW x \in Block PROVE localFront'[x] = h.knownFront[x] % blockSize
      OBVIOUS
    <3>1. localFront[x] = g.knownFront[x] % blockSize /\ localFront \in [Block -> Int]
      BY DEF Held, Indices
    <3>2. h.knownFront[x] = IF x = b THEN g.freed[b] ELSE g.knownFront[x]
      BY <1>1, <1>3 DEF Good, History
    <3>3. localFront'[x] = IF x = b THEN mem[front(b)] ELSE localFront[x] BY <3>1
    <3> QED BY <2>1, <3>1, <3>2, <3>3
  <2> QED BY <1>2, <1>3, <2>2, <2>3, SameShape DEF Held, Indices
<1>5. Slots(h)' BY <1>1, <1>2, <1>3, SlotsStay DEF Held
<1>6. Buffers(h)'
  <2>1. Finished(h)' = {} /\ Finished(g) = {} BY DEF Finished
  <2>2. /\ Filled(h) = Filled(g) /\ Shown(h) = Shown(g) /\ Entered(h) = Entered(g)
        /\ Cleared(h) = Cleared(g) /\ Freed(h) = Freed(g) /\ Left(h) = Left(g)
    BY <1>3, SameStores
  <2> QED BY <1>2, <1>3, <2>1, <2>2, BuffersStay DEF Held, Buffers
<1>7. Found(h)'
  <2>1. h.knownFront[b] = g.freed[b] BY <1>1, <1>3 DEF Good, History
  <2> QED BY <1>3, <2>1, SameShape DEF Held, Found
<1> QED BY <1>1, <1>2, <1>4, <1>5, <1>6, <1>7, HeldNext

\* What the code compares slots for: whether the block is full.
LEMMA Room ==
    ASSUME NEW g, Good(g), NEW b \in Block, NEW n \in Nat, g.put[b] < n + blockSize,
           (g.put[b] + 1) % blockSize # n % blockSize
    PROVE  g.put[b] + 1 < n + blockSize
<1>1. g.put[b] \in Nat /\ blockSize \in Nat \ {0} BY Chained
<1>2. (n + blockSize) % blockSize = n % blockSize
  <2>1. n \in Int /\ blockSize \in Nat \ {0} BY <1>1
  <2> QED BY ONLY <2>1, SlotStep
<1>3. g.put[b] + 1 # n + blockSize BY <1>2
<1> QED BY <1>1, <1>3

\* And when they are the same the block is full.
LEMMA NoRoom ==
    ASSUME NEW g, Good(g), NEW b \in Block,
           (g.put[b] + 1) % blockSize = g.freed[b] % blockSize
    PROVE  g.put[b] + 1 = g.freed[b] + blockSize
<1>1. /\ g.put[b] \in Nat /\ g.freed[b] \in Nat /\ blockSize \in Nat \ {0}
      /\ g.freed[b] <= g.put[b] /\ g.put[b] < g.freed[b] + blockSize
  BY Chained
<1>2. (g.freed[b] + blockSize) % blockSize = g.freed[b] % blockSize
  <2>1. g.freed[b] \in Int /\ blockSize \in Nat \ {0} BY <1>1
  <2> QED BY ONLY <2>1, SlotStep
<1> DEFINE a == g.put[b] + 1
           c == g.freed[b] + blockSize
           n == blockSize
<1>3. /\ a \in Int /\ c \in Int /\ n \in Nat \ {0} /\ a <= c /\ c < a + n
      /\ a % n = c % n
  BY <1>1, <1>2
<1> HIDE DEF a, c, n
<1>4. a = c BY ONLY <1>3, SlotUnique
<1> QED BY <1>4 DEF a, c

\* What the producer cannot use of a block, and a bound of it for the whole ring
\* when every block but one is known to hold m elements.
Used(b) == (Load("producer", tail(b)) - mem[front(b)]) % blockSize

LEMMA OccupiedBound ==
    ASSUME NEW g, Held(g), NEW m \in Nat, NEW but,
           \A b \in Block \ {but} : g.put[b] - g.freed[b] >= m
    PROVE  Occupied \in Nat /\ Occupied >= m * Cardinality(Block \ {but})
<1> DEFINE used == [b \in Block |-> Used(b)]
           f == CHOOSE f : f = Summing(Block, used, f)
<1>1. Good(g) /\ IsFiniteSet(Block)
  <2>1. Good(g) BY DEF Held
  <2>2. initialBlockCount \in Int BY <2>1, GoodShape DEF Shape
  <2> QED BY <2>1, <2>2, FS_Interval DEF Block
<1>2. ASSUME NEW b \in Block PROVE Used(b) \in Nat /\ Used(b) = g.put[b] - g.freed[b]
  <2> DEFINE a == g.freed[b]
             c == g.put[b]
             n == blockSize
  <2>1. /\ a \in Int /\ c \in Int /\ n \in Nat \ {0} /\ a <= c /\ c < a + n
    BY <1>1, Chained
  <2>2. Load("producer", tail(b)) = c % n /\ mem[front(b)] = a % n
    BY ReadsTail DEF Held, Indices
  <2>3. Used(b) = ((c % n) - (a % n)) % n BY <2>2 DEF Used
  <2> HIDE DEF a, c, n
  <2>4. ((c % n) - (a % n)) % n = c - a BY ONLY <2>1, SlotMinus
  <2>5. Used(b) = c - a /\ c - a \in Nat BY <2>1, <2>3, <2>4
  <2> QED BY <2>5 DEF a, c
<1>3. used \in [Block -> Nat] /\ \A b \in Block \ {but} : used[b] >= m
  BY <1>2
<1>4. f = Summing(Block, used, f)
  <2> HIDE DEF used
  <2> QED BY <1>1, SumExists
<1>5. Occupied = f[Block]
  <2>1. Block \in SUBSET Block OBVIOUS
  <2>2. \A k : Summing(Block, used, k)
            = [s \in SUBSET Block |-> IF s = {} THEN 0
                   ELSE Used(CHOOSE x \in s : TRUE) + k[s \ {CHOOSE x \in s : TRUE}]]
    <3> SUFFICES ASSUME NEW k, NEW s \in SUBSET Block, s # {}
                 PROVE  used[Member(s)] = Used(CHOOSE x \in s : TRUE)
      BY DEF Summing, Member
    <3>1. Member(s) \in Block BY DEF Member
    <3> QED BY <3>1 DEF Member
  <2> HIDE DEF used
  <2> QED BY <2>2, Zenon DEF Occupied, FoldSet, MapThenFoldSet, Used
<1> HIDE DEF used, f
<1> QED BY <1>1, <1>3, <1>4, <1>5, SumBound

\* The constructor's ring has room for size elements, one of its blocks aside.
LEMMA RoomForSize ==
    ASSUME size \in Sizes
    PROVE  /\ initialBlockCount = 1 => blockSize - 1 >= size
           /\ initialBlockCount # 1 => (blockSize - 1) * (initialBlockCount - 1) >= size
<1>1. /\ size \in Nat /\ size > 0 /\ MAX_BLOCK_SIZE \in Nat /\ MAX_BLOCK_SIZE > 1
      /\ ceilToPow2(size + 1) \in Nat /\ ceilToPow2(size + 1) > size
  BY SPSCAssumption
<1>2. CASE SingleBlock
  BY <1>1, <1>2 DEF blockSize, initialBlockCount
<1>3. CASE ~ SingleBlock
  <2> DEFINE m == MAX_BLOCK_SIZE - 1
             a == size + MAX_BLOCK_SIZE * 2 - 3
             q == a \div m
  <2>1. m \in Nat \ {0} /\ a \in Nat /\ a = size + m + m - 1 BY <1>1
  <2>2. q \in Int /\ (a % m) \in 0 .. m - 1 /\ a = m * q + (a % m)
    <3>1. m \in Nat \ {0} /\ a \in Int BY <2>1
    <3> HIDE DEF m, a
    <3> QED BY ONLY <3>1, DivMod DEF q
  <2>3. blockSize - 1 = m /\ initialBlockCount = q BY <1>3 DEF blockSize, initialBlockCount
  <2> HIDE DEF m, q, a
  <2>4. m * (q - 1) = m * q - m BY <2>1, <2>2
  <2>5. m * (q - 1) >= size BY <1>1, <2>1, <2>2, <2>4
  <2>6. q # 1
    <3> SUFFICES ASSUME q = 1 PROVE FALSE OBVIOUS
    <3>1. m * (q - 1) = 0 BY <2>1
    <3> QED BY <1>1, <2>5, <3>1
  <2> QED BY <2>3, <2>5, <2>6
<1> QED BY <1>2, <1>3

\* A ring of one block is full when that block is.
LEMMA OneBlockFull ==
    ASSUME NEW g, Held(g), initialBlockCount = 1,
           g.put[g.tail] + 1 = g.freed[g.tail] + blockSize
    PROVE  Occupied >= size
<1>1. Good(g) /\ size \in Sizes BY DEF Held, Good
<1>2. Block = {1} /\ g.tail = 1
  <2>1. Block = {1} BY DEF Block
  <2> QED BY <1>1, <2>1 DEF Good, History
<1>3. /\ g.put[1] \in Nat /\ g.freed[1] \in Nat /\ blockSize \in Nat /\ blockSize > 1
  BY <1>1, <1>2, Chained
<1>4. \A b \in Block \ {0} : g.put[b] - g.freed[b] >= blockSize - 1
  BY <1>2, <1>3
<1>5. blockSize - 1 \in Nat BY <1>3
<1>6. Occupied \in Nat /\ Occupied >= (blockSize - 1) * Cardinality(Block \ {0})
  BY <1>4, <1>5, OccupiedBound
<1>7. Cardinality(Block \ {0}) = 1
  <2>1. Block \ {0} = {1} BY <1>2
  <2> QED BY <2>1, FS_Singleton
<1>8. blockSize - 1 >= size /\ size \in Nat BY <1>1, RoomForSize, SPSCAssumption
<1> QED BY <1>3, <1>6, <1>7, <1>8

LEMMA TryEnqueueKeeps ==
    ASSUME NEW g, Held(g), TryEnqueue
    PROVE  \E h : Held(h)' /\ Moves(g, h)
<1> DEFINE t == g.tail
<1>1. Good(g) /\ t \in Block /\ g \in History BY DEF Held, Good, History
<1>2. /\ TailBlock = t /\ Succ(BlockTail) = (g.put[t] + 1) % blockSize
      /\ localFront[t] = g.knownFront[t] % blockSize
      /\ mem[front(t)] = g.freed[t] % blockSize
  <2>1. TailBlock = t BY ReadsTailBlock
  <2>2. BlockTail = g.put[t] % blockSize BY <1>1, <2>1, ReadsTail DEF BlockTail
  <2>3. Succ(BlockTail) = (g.put[t] + 1) % blockSize BY <1>1, <2>2, Chained, SuccSlot
  <2> QED BY <1>1, <2>1, <2>3 DEF Held, Indices
<1>3. CASE /\ Succ(BlockTail) # localFront[TailBlock] /\ EnqueueHere /\ UNCHANGED localFront
  <2>1. g.put[t] + 1 < g.knownFront[t] + blockSize
    BY <1>1, <1>2, <1>3, Chained, Room
  <2>2. Same(g, g, {"knownFront"}) BY <1>1 DEF Same
  <2>3. /\ localFront' \in [Block -> Int]
        /\ \A b \in Block : localFront'[b] = g.knownFront[b] % blockSize
    BY <1>3 DEF Held, Indices
  <2>4. producer.pc = "idle" /\ UNCHANGED <<size, mem, consumer, localTail, got>>
    BY DEF TryEnqueue
  <2> QED BY <1>1, <1>3, <2>1, <2>2, <2>3, <2>4, EnqueueHereKeeps
<1>4. CASE /\ localFront' = [localFront EXCEPT ![TailBlock] = mem[front(TailBlock)]]
           /\ IF Succ(BlockTail) # mem[front(TailBlock)] THEN EnqueueHere
              ELSE /\ producer' = [producer EXCEPT !.pc = "ring",
                                                   !.full = Occupied >= size]
                   /\ UNCHANGED buffers
  <2>1. PICK g1 : LookedFront(g, g1, t) BY <1>1, LookedFrontExists
  <2>2. Good(g1) /\ Same(g, g1, {"knownFront"})
    BY <1>1, <2>1, LookedFrontGood DEF LookedFront
  <2>3. /\ g1.put = g.put /\ g1.knownFront = [g.knownFront EXCEPT ![t] = g.freed[t]]
        /\ g1.knownFront[t] = g.freed[t]
    BY <1>1, <2>1 DEF LookedFront, Same, History
  <2>4. CASE Succ(BlockTail) # mem[front(TailBlock)]
    <3>1. g1.put[t] + 1 < g1.knownFront[t] + blockSize
      BY <1>1, <1>2, <2>2, <2>3, <2>4, Chained, Room
    <3>2. mem[front(t)] \in Int
      <4>1. g.freed[t] \in Nat /\ blockSize \in Nat \ {0} BY <1>1, Chained
      <4> QED BY <1>2, <4>1, DivMod
    <3>3. localFront' \in [Block -> Int] BY <1>2, <1>4, <3>2 DEF Held, Indices
    <3>4. \A b \in Block : localFront'[b] = g1.knownFront[b] % blockSize
      BY <1>1, <1>2, <1>4, <2>3 DEF Held, Indices, History
    <3>5. producer.pc = "idle" /\ UNCHANGED <<size, mem, consumer, localTail, got>>
      BY DEF TryEnqueue
    <3> QED BY <1>4, <2>2, <2>4, <3>1, <3>3, <3>4, <3>5, EnqueueHereKeeps
  <2>5. CASE ~ (Succ(BlockTail) # mem[front(TailBlock)])
    <3>1. producer' = [producer EXCEPT !.pc = "ring", !.full = Occupied >= size]
      BY <1>4, <2>5
    <3>2. /\ DOMAIN producer' = DOMAIN producer /\ producer'.sent = producer.sent
          /\ producer'.pc = "ring" /\ producer.pc = "idle"
      BY <3>1 DEF Held, Indices, TryEnqueue
    <3>3. UNCHANGED <<size, mem, buffers, consumer, localTail, got>>
      BY <1>4, <2>5 DEF TryEnqueue
    <3>4. Moves(g, g1) BY <2>1, NoMove DEF LookedFront, Same
    <3>5. g.put[t] + 1 = g.freed[t] + blockSize BY <1>1, <1>2, <2>5, NoRoom
    <3>6. initialBlockCount = 1 => producer'.full
      <4>1. initialBlockCount = 1 => Occupied >= size
        BY <1>1, <3>5, OneBlockFull
      <4> QED BY <3>1, <4>1 DEF Held, Indices
    <3> QED BY <1>1, <1>2, <1>4, <2>1, <3>2, <3>3, <3>4, <3>5, <3>6, LookedFrontKeeps
  <2> QED BY <2>4, <2>5
<1> QED BY <1>3, <1>4 DEF TryEnqueue

\* The next block is free if the consumer, as far as it is known, is not in it.
LEMMA CheckRingKeeps ==
    ASSUME NEW g, Held(g), CheckRing
    PROVE  Held(g)'
<1>1. Good(g) /\ g.tail \in Block /\ g.seenFront \in Block BY DEF Held, Good, History
<1>2. TailBlock = g.tail /\ mem[frontBlock] = g.seenFront
  BY ReadsTailBlock DEF Held, Indices
<1>3. /\ DOMAIN producer' = DOMAIN producer /\ producer'.sent = producer.sent
      /\ producer'.pc \in {"free", "idle"} /\ producer.pc = "ring"
      /\ producer'.pc = "free" => next(g.tail) # g.seenFront
  BY <1>2 DEF CheckRing, Held, Indices
<1>4. producer'.pc = "free" => g.turn[next(g.tail)] < g.turn[g.seenFront]
  <2>1. next(g.tail) \in Block BY <1>1, GoodShape DEF Shape
  <2>2. /\ g.turn[next(g.tail)] <= g.turn[g.seenFront]
        /\ g.turn[next(g.tail)] \in Int /\ g.turn[g.seenFront] \in Int
    BY <1>1, <2>1 DEF Good, Ring, History
  <2>3. g.turn[next(g.tail)] = g.turn[g.seenFront] => next(g.tail) = g.seenFront
    BY <1>1, <2>1, InTurn
  <2> QED BY <1>3, <2>2, <2>3
<1>5. Found(g)' BY <1>4, SameShape DEF CheckRing, Held, Found
<1> QED BY <1>3, <1>5, QuietKeeps DEF CheckRing

LEMMA EnqueueNextKeeps ==
    ASSUME NEW g, Held(g), EnqueueNext
    PROVE  \E h : Held(h)' /\ Moves(g, h)
<1> DEFINE b == next(g.tail)
<1>1. /\ Good(g) /\ g \in History /\ g.tail \in Block /\ b \in Block
      /\ g.front \in Block /\ g.seenFront \in Block /\ g.seenTail \in Block
      /\ g.sent \in Nat
  <2>1. Good(g) BY DEF Held
  <2> QED BY <2>1, GoodShape DEF Good, History, Shape
<1>2. g.turn[b] < g.turn[g.seenFront] BY DEF Held, Found, EnqueueNext
<1>3. PICK h : TakenUp(g, h, b) BY <1>1, TakenUpExists
<1>4. Good(h)
  <2>1. g.put[g.tail] + 1 = g.knownFront[g.tail] + blockSize
    BY DEF Held, Found, EnqueueNext
  <2> QED BY <1>1, <1>2, <1>3, <2>1, TakenUpGood
<1>5. /\ h.knownFront = [g.knownFront EXCEPT ![b] = g.freed[b]]
      /\ h.put = [g.put EXCEPT ![b] = @ + 1]
      /\ h.base = [g.base EXCEPT ![b] = g.sent + 1 - g.put[b]]
      /\ h.first = [g.first EXCEPT ![b] = g.put[b]]
      /\ h.turn = [g.turn EXCEPT ![b] = g.turn[g.tail] + 1]
      /\ h.tail = b /\ h.sent = g.sent + 1
      /\ h.filled = g.filled /\ h.shown = g.shown /\ h.cleared = g.cleared
      /\ h.taken = g.taken /\ h.freed = g.freed /\ h.knownTail = g.knownTail
      /\ h.front = g.front /\ h.seenFront = g.seenFront /\ h.seenTail = g.seenTail
      /\ h.got = g.got
  BY <1>3 DEF TakenUp, Same
<1> HIDE DEF b
<1>6. TailBlock = g.tail /\ next(TailBlock) = b BY ReadsTailBlock DEF b
<1>7. /\ Load("producer", tail(b)) = g.put[b] % blockSize
      /\ producer.sent = g.sent /\ Item = g.sent + 1
      /\ mem[front(b)] = g.freed[b] % blockSize
  BY <1>1, ReadsTail DEF Held, Indices, Item
<1>8. /\ producer' = [producer EXCEPT !.sent = g.sent + 1, !.pc = "idle"]
      /\ localFront' = [localFront EXCEPT ![b] = mem[front(b)]]
      /\ Issue("producer",
               {Store(data(b, g.put[b] % blockSize), g.sent + 1),
                Store(tail(b), Succ(g.put[b] % blockSize))}, {Store(tailBlock, b)})
      /\ UNCHANGED <<size, mem, consumer, localTail, got>> /\ producer.pc = "free"
  BY <1>6, <1>7 DEF EnqueueNext
<1>9. /\ DOMAIN producer' = {"pc", "sent", "full"} /\ producer'.pc = "idle"
      /\ producer'.sent = g.sent + 1
  BY <1>8 DEF Held, Indices
\* whatever went through the block is out of it
<1>10. /\ g.freed[b] = g.put[b] /\ g.filled[b] = g.put[b] /\ g.cleared[b] = g.put[b]
       /\ b # g.front /\ b # g.seenTail
  <2>1. /\ g.turn[g.seenFront] <= g.turn[g.front] /\ g.turn[g.front] <= g.turn[g.seenTail]
        /\ g.turn[b] \in Int /\ g.turn[g.seenFront] \in Int /\ g.turn[g.front] \in Int
        /\ g.turn[g.seenTail] \in Int
    BY <1>1 DEF Good, Ring, History
  <2>2. g.freed[b] = g.put[b] BY <1>1, <1>2 DEF Good, Places
  <2> QED BY <1>1, <1>2, <2>1, <2>2, Chained
<1>11. \A x \in Block : x # b => /\ h.base[x] = g.base[x] /\ h.turn[x] = g.turn[x]
                                 /\ h.put[x] = g.put[x]
  BY <1>1, <1>5 DEF History
<1>12. /\ DOMAIN stores = Thread /\ DOMAIN fences = Thread
       /\ DOMAIN stores' = Thread /\ DOMAIN fences' = Thread
  BY <1>8, Issued DEF Held, Indices, Thread
<1>13. Indices(h)'
  <2>1. mem[front(b)] \in Int
    <3>1. g.freed[b] \in Nat /\ blockSize \in Nat \ {0} BY <1>1, Chained
    <3> QED BY <1>7, <3>1, DivMod
  <2>2. localFront' \in [Block -> Int] BY <1>8, <2>1 DEF Held, Indices
  <2>3. \A x \in Block : localFront'[x] = h.knownFront[x] % blockSize
    <3> SUFFICES ASSUME NEW x \in Block PROVE localFront'[x] = h.knownFront[x] % blockSize
      OBVIOUS
    <3>1. localFront[x] = g.knownFront[x] % blockSize /\ localFront \in [Block -> Int]
      BY DEF Held, Indices
    <3>2. h.knownFront[x] = IF x = b THEN g.freed[b] ELSE g.knownFront[x]
      BY <1>1, <1>5 DEF History
    <3>3. localFront'[x] = IF x = b THEN mem[front(b)] ELSE localFront[x] BY <1>8, <3>1
    <3> QED BY <1>7, <3>1, <3>2, <3>3
  <2> QED BY <1>5, <1>8, <1>9, <1>12, <2>2, <2>3, SameShape DEF Held, Indices
<1>14. Slots(h)'
  <2>1. \A x \in Block : g.cleared[x] < g.filled[x] => h.base[x] = g.base[x]
    <3> SUFFICES ASSUME NEW x \in Block, g.cleared[x] < g.filled[x]
                 PROVE  h.base[x] = g.base[x]
      OBVIOUS
    <3>1. g.cleared[b] \in Nat BY <1>1, Chained
    <3>2. x # b BY <1>10, <3>1
    <3> QED BY <1>11, <3>2
  <2> QED BY <1>1, <1>5, <1>8, <2>1, SlotsStay DEF Held
<1>15. Buffers(h)'
  <2>1. /\ fences["producer"] = g.sent
        /\ stores["producer"] = Filled(g) \cup Shown(g) \cup Entered(g)
    BY <1>8 DEF Held, Buffers, Finished
  <2>2. /\ Filling(h, b, g.put[b]) = [loc |-> data(b, g.put[b] % blockSize),
                                      val |-> g.sent + 1, after |-> g.sent]
        /\ Showing(h, b, g.put[b]) = [loc |-> tail(b), val |-> Succ(g.put[b] % blockSize),
                                      after |-> g.sent]
        /\ Entering(h, b) = [loc |-> tailBlock, val |-> b, after |-> g.sent + 1]
    <3>1. /\ h.base[b] = g.sent + 1 - g.put[b] /\ h.first[b] = g.put[b] /\ g.put[b] \in Nat
      BY <1>1, <1>5, Chained DEF History
    <3>2. h.base[b] + g.put[b] = g.sent + 1 /\ h.base[b] + g.put[b] - 1 = g.sent
      BY <1>1, <3>1
    <3>3. Succ(g.put[b] % blockSize) = (g.put[b] + 1) % blockSize
      BY <1>1, <3>1, SuccSlot
    <3> QED BY <3>1, <3>2, <3>3 DEF Filling, Showing, Entering
  <2>3. /\ stores'["producer"] = stores["producer"]
                \cup {Filling(h, b, g.put[b]), Showing(h, b, g.put[b])} \cup {Entering(h, b)}
        /\ stores'["consumer"] = stores["consumer"]
        /\ fences'["producer"] = g.sent + 1 /\ fences'["consumer"] = fences["consumer"]
    <3>1. "producer" \in Thread /\ "consumer" \in Thread \ {"producer"} BY DEF Thread
    <3>2. {Waiting(s, g.sent) : s \in {Store(data(b, g.put[b] % blockSize), g.sent + 1),
                                       Store(tail(b), Succ(g.put[b] % blockSize))}}
            = {Filling(h, b, g.put[b]), Showing(h, b, g.put[b])}
      BY <2>2, IssueTwo
    <3>3. {Waiting(s, g.sent + 1) : s \in {Store(tailBlock, b)}} = {Entering(h, b)}
      BY <2>2, IssueOne
    <3> QED BY <1>8, <1>12, <2>1, <3>1, <3>2, <3>3, Issued
  <2>4. Finished(h)' = {} BY <1>9 DEF Finished
  <2>5. /\ Filled(h) = Filled(g) \cup {Filling(h, b, g.put[b])}
        /\ Shown(h) = Shown(g) \cup {Showing(h, b, g.put[b])}
        /\ Entered(h) = Entered(g) \cup {Entering(h, b)}
        /\ Cleared(h) = Cleared(g) /\ Freed(h) = Freed(g) /\ Left(h) = Left(g)
    BY <1>1, <1>2, <1>3, TakenUpStores DEF b
  <2>6. h.turn[h.front] = g.turn[g.front] /\ h.got = g.got /\ h.sent = g.sent + 1
    BY <1>1, <1>5, <1>10, <1>11
  <2> QED BY <1>8, <1>9, <2>1, <2>3, <2>4, <2>5, <2>6, BuffersStay DEF Held, Buffers
<1>16. Found(h)'
  <2>1. /\ h.turn[h.front] = g.turn[g.front] /\ h.turn[h.seenTail] = g.turn[g.seenTail]
        /\ h.put[h.front] = g.put[g.front]
    BY <1>1, <1>5, <1>10, <1>11
  <2> QED BY <1>5, <1>8, <1>9, <2>1 DEF Held, Found
<1>17. Moves(g, h)
  <2>1. h.base[g.seenTail] = g.base[g.seenTail] BY <1>1, <1>5, <1>10 DEF History
  <2> QED BY <1>5, <2>1 DEF Moves, LastShown
<1> QED BY <1>4, <1>8, <1>13, <1>14, <1>15, <1>16, <1>17, HeldNext

LEMMA SetDoneKeeps ==
    ASSUME NEW g, Held(g), SetDone
    PROVE  Held(g)'
<1>1. Good(g) /\ g.sent \in Nat BY DEF Held, Good, History
<1>2. /\ producer' = [producer EXCEPT !.pc = "stopped"] /\ producer.pc = "idle"
      /\ Issue("producer", {}, {Store(done_, 1)})
      /\ UNCHANGED <<size, mem, localFront, consumer, localTail, got>>
  BY DEF SetDone
<1>3. /\ DOMAIN producer' = {"pc", "sent", "full"} /\ producer'.pc = "stopped"
      /\ producer'.sent = g.sent
  BY <1>2 DEF Held, Indices
<1>4. /\ stores'["producer"] = stores["producer"] \cup {Done(g)}
      /\ stores'["consumer"] = stores["consumer"]
      /\ fences'["producer"] = g.sent + 1 /\ fences'["consumer"] = fences["consumer"]
      /\ DOMAIN stores' = Thread /\ DOMAIN fences' = Thread
  <2>1. DOMAIN stores = Thread /\ DOMAIN fences = Thread /\ fences["producer"] = g.sent
    BY <1>2 DEF Held, Indices, Buffers
  <2>2. "producer" \in Thread /\ "consumer" \in Thread \ {"producer"} BY DEF Thread
  <2>3. {Waiting(s, g.sent + 1) : s \in {Store(done_, 1)}} = {Done(g)}
    BY IssueOne DEF Done
  <2>4. {Waiting(s, g.sent) : s \in {}} = {} BY IssueNone
  <2> QED BY <1>2, <2>1, <2>2, <2>3, <2>4, Issued
<1>5. Indices(g)' BY <1>2, <1>3, <1>4, SameShape DEF Held, Indices
<1>6. Slots(g)' BY <1>1, <1>2, SlotsStay DEF Held
<1>7. Buffers(g)'
  <2>1. Finished(g) = {} BY <1>2 DEF Finished
  <2>2. Finished(g)' = {Done(g)}
    BY <1>2, <1>3 DEF Finished, Done, Held, Found
  <2> QED BY <1>2, <1>3, <1>4, <2>1, <2>2, BuffersStay DEF Held, Buffers
<1>8. Found(g)' BY <1>2, <1>3 DEF Held, Found
<1> QED BY <1>1, <1>2, <1>5, <1>6, <1>7, <1>8, HeldNext

\* The consumer's copy of tail may be new.
LEMMA LookedTailKeeps ==
    ASSUME NEW g, Held(g), NEW b \in Block, NEW h, LookedTail(g, h, b),
           UNCHANGED <<size, mem, buffers, producer, localFront, got>>,
           localTail' = [localTail EXCEPT ![b] = mem[tail(b)]],
           DOMAIN consumer' = DOMAIN consumer, Found(h)'
    PROVE  Held(h)'
<1>1. Good(g) /\ Good(h) BY LookedTailGood DEF Held
<1>2. size' = size /\ mem' = mem /\ stores' = stores /\ fences' = fences
  BY DEF buffers
<1>3. /\ h.knownTail = [g.knownTail EXCEPT ![b] = g.shown[b]]
      /\ h.put = g.put /\ h.sent = g.sent
      /\ h.filled = g.filled /\ h.shown = g.shown
      /\ h.base = g.base /\ h.first = g.first /\ h.turn = g.turn
      /\ h.cleared = g.cleared /\ h.taken = g.taken /\ h.freed = g.freed
      /\ h.front = g.front /\ h.tail = g.tail /\ h.seenFront = g.seenFront
      /\ h.seenTail = g.seenTail /\ h.got = g.got /\ h.knownFront = g.knownFront
  BY DEF LookedTail, Same
<1>4. Indices(h)'
  <2>1. mem[tail(b)] = g.shown[b] % blockSize /\ mem[tail(b)] \in Int
    <3>1. g.shown[b] \in Nat /\ blockSize \in Nat \ {0} BY <1>1, Chained
    <3>2. (g.shown[b] % blockSize) \in Int BY <3>1, DivMod
    <3> QED BY <3>2 DEF Held, Indices
  <2>2. localTail' \in [Block -> Int] BY <2>1 DEF Held, Indices
  <2>3. \A x \in Block : localTail'[x] = h.knownTail[x] % blockSize
    <3> SUFFICES ASSUME NEW x \in Block PROVE localTail'[x] = h.knownTail[x] % blockSize
      OBVIOUS
    <3>1. localTail[x] = g.knownTail[x] % blockSize /\ localTail \in [Block -> Int]
      BY DEF Held, Indices
    <3>2. h.knownTail[x] = IF x = b THEN g.shown[b] ELSE g.knownTail[x]
      BY <1>1, <1>3 DEF Good, History
    <3>3. localTail'[x] = IF x = b THEN mem[tail(b)] ELSE localTail[x] BY <3>1
    <3> QED BY <2>1, <3>1, <3>2, <3>3
  <2> QED BY <1>2, <1>3, <2>2, <2>3, SameShape DEF Held, Indices
<1>5. Slots(h)' BY <1>1, <1>2, <1>3, SlotsStay DEF Held
<1>6. Buffers(h)'
  <2>1. Finished(h)' = Finished(g) BY <1>2, <1>3 DEF Finished, Done
  <2>2. /\ Filled(h) = Filled(g) /\ Shown(h) = Shown(g) /\ Entered(h) = Entered(g)
        /\ Cleared(h) = Cleared(g) /\ Freed(h) = Freed(g) /\ Left(h) = Left(g)
    BY <1>3, SameStores
  <2> QED BY <1>2, <1>3, <2>1, <2>2, BuffersStay DEF Held, Buffers
<1> QED BY <1>1, <1>2, <1>4, <1>5, <1>6, HeldNext

\* What the consumer compares: whether its block is empty.
LEMMA ReadsBlock ==
    ASSUME NEW g, Held(g)
    PROVE  /\ Good(g) /\ g \in History /\ g.front \in Block
           /\ FrontBlock = g.front /\ BlockFront = g.taken[g.front] % blockSize
           /\ localTail[g.front] = g.knownTail[g.front] % blockSize
           /\ mem[tail(g.front)] = g.shown[g.front] % blockSize
<1>1. Good(g) /\ g.front \in Block BY DEF Held, Good, History
<1>2. FrontBlock = g.front BY ReadsFrontBlock
<1>3. BlockFront = g.taken[g.front] % blockSize BY <1>1, <1>2, ReadsFront DEF BlockFront
<1> QED BY <1>1, <1>2, <1>3 DEF Held, Indices, Good

LEMMA TryDequeueKeeps ==
    ASSUME NEW g, Held(g), TryDequeue
    PROVE  \E h : Held(h)' /\ Moves(g, h)
<1> DEFINE f == g.front
<1>1. /\ Good(g) /\ g \in History /\ f \in Block
      /\ FrontBlock = f /\ BlockFront = g.taken[f] % blockSize
      /\ localTail[f] = g.knownTail[f] % blockSize
      /\ mem[tail(f)] = g.shown[f] % blockSize
  BY ReadsBlock
<1>2. /\ g.taken[f] \in Nat /\ g.knownTail[f] \in Nat /\ g.shown[f] \in Nat
      /\ g.taken[f] <= g.knownTail[f] /\ g.knownTail[f] <= g.shown[f]
  BY <1>1, Chained
<1>3. UNCHANGED <<size, mem, buffers, producer, localFront, got>> BY DEF TryDequeue
<1>4. CASE BlockFront # localTail[FrontBlock] /\ To("take") /\ UNCHANGED localTail
  <2>1. g.taken[f] < g.knownTail[f] BY <1>1, <1>2, <1>4
  <2>2. DOMAIN consumer' = DOMAIN consumer /\ consumer'.pc = "take"
    BY <1>4 DEF To, Held, Indices
  <2>3. Found(g)' BY <1>3, <2>1, <2>2, SameShape DEF Held, Found
  <2> QED BY <1>3, <1>4, <2>2, <2>3, QuietKeeps, NoMove
<1>5. CASE /\ localTail' = [localTail EXCEPT ![FrontBlock] = mem[tail(FrontBlock)]]
           /\ To(IF BlockFront # mem[tail(FrontBlock)] THEN "take" ELSE "tailBlock")
  <2>1. PICK h : LookedTail(g, h, f) BY <1>1, LookedTailExists
  <2>2. /\ h.knownTail[f] = g.shown[f] /\ h.taken = g.taken /\ h.front = f
        /\ h.turn = g.turn /\ h.tail = g.tail /\ h.seenFront = g.seenFront
        /\ h.put = g.put /\ h.knownFront = g.knownFront
    BY <1>1, <2>1 DEF LookedTail, Same, History
  <2>3. /\ DOMAIN consumer' = DOMAIN consumer
        /\ consumer'.pc = IF BlockFront # mem[tail(FrontBlock)] THEN "take" ELSE "tailBlock"
    BY <1>5 DEF To, Held, Indices
  <2>4. consumer'.pc = "take" => h.taken[f] < h.knownTail[f]
    <3> SUFFICES ASSUME consumer'.pc = "take" PROVE g.taken[f] < g.shown[f] BY <2>2
    <3>1. g.taken[f] % blockSize # g.shown[f] % blockSize BY <1>1, <2>3
    <3> QED BY <1>2, <3>1
  <2>5. Found(h)' BY <1>3, <2>2, <2>3, <2>4, SameShape DEF Held, Found
  <2>6. Moves(g, h) BY <2>1, NoMove DEF LookedTail, Same
  <2> QED BY <1>1, <1>3, <1>5, <2>1, <2>3, <2>5, <2>6, LookedTailKeeps
<1> QED BY <1>4, <1>5 DEF TryDequeue

LEMMA CheckTailBlockKeeps ==
    ASSUME NEW g, Held(g), CheckTailBlock
    PROVE  Held(g)'
<1>1. Good(g) /\ g.front \in Block /\ g.seenTail \in Block BY DEF Held, Good, History
<1>2. FrontBlock = g.front /\ mem[tailBlock] = g.seenTail
  BY ReadsFrontBlock DEF Held, Indices
<1>3. /\ DOMAIN consumer' = DOMAIN consumer
      /\ consumer'.pc = IF g.front # g.seenTail THEN "again" ELSE "idle"
  BY <1>2 DEF CheckTailBlock, To, Held, Indices
<1>4. consumer'.pc = "again" => g.turn[g.front] < g.turn[g.seenTail]
  <2>1. /\ g.turn[g.front] <= g.turn[g.seenTail]
        /\ g.turn[g.front] \in Int /\ g.turn[g.seenTail] \in Int
    BY <1>1 DEF Good, Ring, History
  <2>2. g.turn[g.front] = g.turn[g.seenTail] => g.front = g.seenTail BY <1>1, InTurn
  <2> QED BY <1>3, <2>1, <2>2
<1>5. Found(g)' BY <1>3, <1>4, SameShape DEF CheckTailBlock, Held, Found
<1> QED BY <1>3, <1>5, QuietKeeps DEF CheckTailBlock

\* Where the producer went on, an empty block stays empty.
LEMMA LookAgainKeeps ==
    ASSUME NEW g, Held(g), LookAgain
    PROVE  \E h : Held(h)' /\ Moves(g, h)
<1> DEFINE f == g.front
<1>1. /\ Good(g) /\ g \in History /\ f \in Block
      /\ FrontBlock = f /\ BlockFront = g.taken[f] % blockSize
      /\ localTail[f] = g.knownTail[f] % blockSize
      /\ mem[tail(f)] = g.shown[f] % blockSize
  BY ReadsBlock
<1>2. /\ g.taken[f] \in Nat /\ g.knownTail[f] \in Nat /\ g.shown[f] \in Nat
      /\ g.taken[f] <= g.shown[f] /\ g.shown[f] < g.taken[f] + blockSize
      /\ blockSize \in Nat \ {0}
  BY <1>1, Chained
<1>3. UNCHANGED <<size, mem, buffers, producer, localFront, got>> BY DEF LookAgain
<1>4. /\ localTail' = [localTail EXCEPT ![f] = mem[tail(f)]]
      /\ DOMAIN consumer' = DOMAIN consumer
      /\ consumer'.pc = IF g.taken[f] % blockSize # g.shown[f] % blockSize
                        THEN "take" ELSE "advance"
  BY <1>1 DEF LookAgain, To, Held, Indices
<1>5. PICK h : LookedTail(g, h, f) BY <1>1, LookedTailExists
<1>6. /\ h.knownTail[f] = g.shown[f] /\ h.taken = g.taken /\ h.front = f
      /\ h.turn = g.turn /\ h.tail = g.tail /\ h.seenFront = g.seenFront
      /\ h.put = g.put /\ h.seenTail = g.seenTail /\ h.knownFront = g.knownFront
  BY <1>1, <1>5 DEF LookedTail, Same, History
<1>7. g.turn[f] < g.turn[g.seenTail] BY DEF LookAgain, Held, Found
<1>8. consumer'.pc = "take" => h.taken[f] < h.knownTail[f]
  <2> SUFFICES ASSUME consumer'.pc = "take" PROVE g.taken[f] < g.shown[f] BY <1>6
  <2>1. g.taken[f] % blockSize # g.shown[f] % blockSize BY <1>4
  <2> QED BY <1>2, <2>1
<1>9. consumer'.pc = "advance" => h.taken[f] = h.put[f]
  <2> SUFFICES ASSUME consumer'.pc = "advance" PROVE g.taken[f] = g.put[f] BY <1>6
  <2>1. g.taken[f] = g.shown[f] BY <1>2, <1>4, SlotUnique
  <2>2. g.shown[f] = g.put[f] BY <1>1, <1>7 DEF Good, Places
  <2> QED BY <2>1, <2>2
<1>10. Found(h)' BY <1>3, <1>4, <1>6, <1>7, <1>8, <1>9, SameShape DEF Held, Found
<1>11. Moves(g, h) BY <1>5, NoMove DEF LookedTail, Same
<1> QED BY <1>11, <1>1, <1>3, <1>4, <1>5, <1>10, LookedTailKeeps

LEMMA StartSizeKeeps ==
    ASSUME NEW g, Held(g), StartSize
    PROVE  Held(g)'
<1>1. DOMAIN consumer' = DOMAIN consumer /\ consumer'.pc = "size"
  BY DEF StartSize, Held, Indices
<1>2. Found(g)' BY <1>1, SameShape DEF StartSize, Held, Found
<1> QED BY <1>1, <1>2, QuietKeeps DEF StartSize

LEMMA CountBlockKeeps ==
    ASSUME NEW g, Held(g), CountBlock
    PROVE  Held(g)'
<1>1. DOMAIN consumer' = DOMAIN consumer /\ consumer'.pc \in {"size", "pop", "quit"}
  BY DEF CountBlock, Held, Indices
<1>2. Found(g)' BY <1>1, SameShape DEF CountBlock, Held, Found
<1> QED BY <1>1, <1>2, QuietKeeps DEF CountBlock

LEMMA AdvanceKeeps ==
    ASSUME NEW g, Held(g), Advance
    PROVE  \E h : Held(h)' /\ Moves(g, h)
<1> DEFINE f == g.front
           b == next(f)
<1>1. /\ Good(g) /\ g \in History /\ f \in Block /\ FrontBlock = f /\ b \in Block
  BY ReadsBlock, GoodShape DEF Shape
<1>2. g.taken[f] = g.put[f] /\ g.turn[f] < g.turn[g.seenTail]
  BY DEF Held, Found, Advance
<1>3. PICK h : Advanced(g, h, b) BY <1>1, AdvancedExists
<1>4. Good(h) /\ h.taken[h.front] < h.knownTail[h.front] BY <1>1, <1>2, <1>3, AdvancedGood
<1>5. /\ h.knownTail = [g.knownTail EXCEPT ![b] = g.shown[b]] /\ h.front = b
      /\ h.put = g.put /\ h.sent = g.sent
      /\ h.filled = g.filled /\ h.shown = g.shown
      /\ h.base = g.base /\ h.first = g.first /\ h.turn = g.turn
      /\ h.cleared = g.cleared /\ h.taken = g.taken /\ h.freed = g.freed
      /\ h.tail = g.tail /\ h.seenFront = g.seenFront
      /\ h.seenTail = g.seenTail /\ h.got = g.got /\ h.knownFront = g.knownFront
  BY <1>3 DEF Advanced, Same
<1>6. Left(h) = Left(g) \cup {Leaving(g, b)} /\ Cleared(h) = Cleared(g)
      /\ Freed(h) = Freed(g) /\ Filled(h) = Filled(g) /\ Shown(h) = Shown(g)
      /\ Entered(h) = Entered(g)
  BY <1>1, <1>2, <1>3, AdvancedStores
\* the next block begins where this one ends
<1>7. /\ g.turn[b] = g.turn[f] + 1 /\ g.turn[f] \in Int /\ g.got \in Nat
      /\ g.base[b] + g.first[b] = g.got + 1 /\ g.base[b] + g.first[b] - 1 = g.got
  <2>1. /\ g.turn[f] \in Int /\ g.turn[g.seenTail] \in Int /\ g.turn[g.tail] \in Int
        /\ g.turn[g.seenTail] <= g.turn[g.tail] /\ g.got \in Nat
    BY <1>1 DEF Good, Ring, History
  <2>2. f # g.tail /\ g.turn[f] < g.turn[g.tail] BY <1>2, <2>1
  <2>3. g.turn[b] = g.turn[f] + 1 BY <1>1, <2>2, InTurn
  <2>4. g.base[f] + g.put[f] = g.base[b] + g.taken[b]
    BY <1>1, <2>1, <2>2 DEF Good, Numbered
  <2>5. g.taken[b] = g.first[b] BY <1>1, <2>1, <2>3 DEF Good, Places
  <2>6. g.base[f] + g.taken[f] = g.got + 1 BY <1>1 DEF Good, Numbered
  <2>7. g.base[b] + g.first[b] = g.got + 1 BY <1>2, <2>4, <2>5, <2>6
  <2>8. g.base[b] \in Int /\ g.first[b] \in Int BY <1>1, Chained
  <2> HIDE DEF b, f
  <2> QED BY <2>1, <2>3, <2>7, <2>8
<1> HIDE DEF b
<1>8. /\ consumer' = [consumer EXCEPT !.pc = "take"] /\ consumer.pc = "advance"
      /\ localTail' = [localTail EXCEPT ![b] = mem[tail(b)]]
      /\ Issue("consumer", {}, {Store(frontBlock, b)})
      /\ UNCHANGED <<size, mem, producer, localFront, got>>
  BY <1>1 DEF Advance, To, b
<1>9. DOMAIN consumer' = {"pc", "block", "result"} /\ consumer'.pc = "take"
  BY <1>8 DEF Held, Indices
<1>10. /\ stores'["consumer"] = stores["consumer"] \cup {Leaving(g, b)}
       /\ stores'["producer"] = stores["producer"]
       /\ fences'["consumer"] = g.got + g.turn[b] /\ fences'["producer"] = fences["producer"]
       /\ DOMAIN stores' = Thread /\ DOMAIN fences' = Thread
  <2>1. /\ DOMAIN stores = Thread /\ DOMAIN fences = Thread
        /\ fences["consumer"] = g.got + g.turn[f]
    BY DEF Held, Indices, Buffers
  <2>2. "consumer" \in Thread /\ "producer" \in Thread \ {"consumer"} BY DEF Thread
  <2>3. fences["consumer"] + 1 = g.got + g.turn[b] BY <1>7, <2>1
  <2>4. {Waiting(s, fences["consumer"] + 1) : s \in {Store(frontBlock, b)}} = {Leaving(g, b)}
    BY <1>7, <2>3, IssueOne DEF Leaving
  <2>5. {Waiting(s, fences["consumer"]) : s \in {}} = {} BY IssueNone
  <2> QED BY <1>8, <2>1, <2>2, <2>3, <2>4, <2>5, Issued
<1>11. Indices(h)'
  <2>1. mem[tail(b)] = g.shown[b] % blockSize /\ mem[tail(b)] \in Int
    <3>1. g.shown[b] \in Nat /\ blockSize \in Nat \ {0} BY <1>1, Chained
    <3>2. (g.shown[b] % blockSize) \in Int BY <3>1, DivMod
    <3> QED BY <1>1, <3>2 DEF Held, Indices
  <2>2. localTail' \in [Block -> Int] BY <1>8, <2>1 DEF Held, Indices
  <2>3. \A x \in Block : localTail'[x] = h.knownTail[x] % blockSize
    <3> SUFFICES ASSUME NEW x \in Block PROVE localTail'[x] = h.knownTail[x] % blockSize
      OBVIOUS
    <3>1. localTail[x] = g.knownTail[x] % blockSize /\ localTail \in [Block -> Int]
      BY DEF Held, Indices
    <3>2. h.knownTail[x] = IF x = b THEN g.shown[b] ELSE g.knownTail[x]
      BY <1>1, <1>5 DEF Good, History
    <3>3. localTail'[x] = IF x = b THEN mem[tail(b)] ELSE localTail[x] BY <1>8, <3>1
    <3> QED BY <2>1, <3>1, <3>2, <3>3
  <2> QED BY <1>5, <1>8, <1>9, <1>10, <2>2, <2>3, SameShape DEF Held, Indices
<1>12. Slots(h)' BY <1>1, <1>5, <1>8, SlotsStay DEF Held
<1>13. Buffers(h)'
  <2>1. Finished(h)' = Finished(g) BY <1>5, <1>8 DEF Finished, Done
  <2> QED BY <1>5, <1>6, <1>8, <1>10, <2>1, BuffersStay DEF Held, Buffers
<1>14. Found(h)' BY <1>4, <1>5, <1>8, <1>9, SameShape DEF Held, Found
<1>15. Moves(g, h) BY <1>3, NoMove DEF Advanced, Same
<1> QED BY <1>15, <1>4, <1>8, <1>11, <1>12, <1>13, <1>14, HeldNext

\* The element at the front is the next one.
LEMMA TakeKeeps ==
    ASSUME NEW g, Held(g), Take
    PROVE  \E h : Held(h)' /\ Moves(g, h)
<1> DEFINE f == g.front
           c == g.taken[f]
<1>1. /\ Good(g) /\ g \in History /\ f \in Block
      /\ FrontBlock = f /\ BlockFront = c % blockSize
  BY ReadsBlock
<1>2. c < g.knownTail[f] BY DEF Held, Found, Take
<1>3. PICK h : Taken(g, h) BY <1>1, TakenExists
<1>4. Good(h) BY <1>1, <1>2, <1>3, TakenGood
<1>5. /\ h.taken = [g.taken EXCEPT ![f] = @ + 1] /\ h.got = g.got + 1
      /\ h.knownTail = g.knownTail /\ h.front = f
      /\ h.put = g.put /\ h.sent = g.sent
      /\ h.filled = g.filled /\ h.shown = g.shown
      /\ h.base = g.base /\ h.first = g.first /\ h.turn = g.turn
      /\ h.cleared = g.cleared /\ h.freed = g.freed
      /\ h.tail = g.tail /\ h.seenFront = g.seenFront
      /\ h.seenTail = g.seenTail /\ h.knownFront = g.knownFront
  BY <1>3 DEF Taken, Same
<1>6. /\ Cleared(h) = Cleared(g) \cup {Clearing(g, f, c)}
      /\ Freed(h) = Freed(g) \cup {Freeing(g, f, c)}
      /\ Left(h) = Left(g)
      /\ Filled(h) = Filled(g) /\ Shown(h) = Shown(g) /\ Entered(h) = Entered(g)
  BY <1>1, <1>3, TakenStores
<1>7. /\ c \in Nat /\ g.turn[f] \in Int /\ g.base[f] \in Int /\ g.got \in Nat
      /\ g.base[f] + c = g.got + 1 /\ g.base[f] + c - 1 = g.got
  <2>1. g.base[f] + c = g.got + 1 BY <1>1 DEF Good, Numbered
  <2>2. /\ c \in Nat /\ g.turn[f] \in Int /\ g.base[f] \in Int /\ g.got \in Nat
    BY <1>1, Chained DEF History
  <2> HIDE DEF c
  <2> QED BY <2>1, <2>2
<1>8. mem[data(f, c % blockSize)] = g.got + 1
  <2>1. g.shown[f] <= g.filled[f]
    <3>1. g.turn[f] <= g.turn[g.seenTail] BY <1>1 DEF Good, Ring
    <3> QED BY <1>1, <3>1 DEF Good, Places
  <2>2. /\ c \in g.freed[f] .. g.freed[f] + blockSize - 1 /\ g.cleared[f] <= c
        /\ c < g.filled[f]
    BY <1>1, <1>2, <2>1, Chained
  <2>3. mem[data(f, c % blockSize)] =
            IF g.cleared[f] <= c /\ c < g.filled[f] THEN g.base[f] + c ELSE Nothing
    BY <1>1, <2>2 DEF Held, Slots
  <2> QED BY <1>7, <2>2, <2>3
<1> HIDE DEF c
<1>9. /\ consumer' = [consumer EXCEPT !.pc = "idle"] /\ consumer.pc = "take"
      /\ got' = Append(got, g.got + 1)
      /\ Issue("consumer", {Store(data(f, c % blockSize), Nothing)},
                           {Store(front(f), Succ(c % blockSize))})
      /\ UNCHANGED <<size, mem, producer, localFront, localTail>>
  BY <1>1, <1>8 DEF Take, To
<1>10. DOMAIN consumer' = {"pc", "block", "result"} /\ consumer'.pc = "idle"
  BY <1>9 DEF Held, Indices
<1>11. /\ got' \in Seq(Int) /\ Len(got') = g.got + 1
       /\ \A i \in DOMAIN got' : got'[i] = i
  <2>1. /\ got \in Seq(Int) /\ Len(got) = g.got /\ \A i \in DOMAIN got : got[i] = i
    BY DEF Held, Indices
  <2> QED BY <1>7, <1>9, <2>1
<1>12. /\ stores'["consumer"] = stores["consumer"] \cup {Clearing(g, f, c)}
                                                   \cup {Freeing(g, f, c)}
       /\ stores'["producer"] = stores["producer"]
       /\ fences'["consumer"] = g.got + 1 + g.turn[f]
       /\ fences'["producer"] = fences["producer"]
       /\ DOMAIN stores' = Thread /\ DOMAIN fences' = Thread
  <2>1. /\ DOMAIN stores = Thread /\ DOMAIN fences = Thread
        /\ fences["consumer"] = g.got + g.turn[f]
    BY DEF Held, Indices, Buffers
  <2>2. "consumer" \in Thread /\ "producer" \in Thread \ {"consumer"} BY DEF Thread
  <2>3. fences["consumer"] + 1 = g.got + 1 + g.turn[f] BY <1>7, <2>1
  <2>4. Clearing(g, f, c) = [loc |-> data(f, c % blockSize), val |-> Nothing,
                             after |-> fences["consumer"]]
    BY <1>7, <2>1 DEF Clearing
  <2>5. Freeing(g, f, c) = [loc |-> front(f), val |-> Succ(c % blockSize),
                            after |-> fences["consumer"] + 1]
    <3>1. Succ(c % blockSize) = (c + 1) % blockSize BY <1>1, <1>7, SuccSlot
    <3> QED BY <1>7, <2>3, <3>1 DEF Freeing
  <2> QED BY <1>9, <2>1, <2>2, <2>3, <2>4, <2>5, IssuedPair
<1>13. Indices(h)'
  BY <1>5, <1>9, <1>10, <1>11, <1>12, SameShape DEF Held, Indices
<1>14. Slots(h)' BY <1>1, <1>5, <1>9, SlotsStay DEF Held
<1>15. Buffers(h)'
  <2>1. Finished(h)' = Finished(g) BY <1>5, <1>9 DEF Finished, Done
  <2> QED BY <1>5, <1>6, <1>9, <1>12, <2>1, BuffersStay DEF Held, Buffers
<1>16. Found(h)' BY <1>5, <1>9, <1>10, SameShape DEF Held, Found
<1>17. Moves(g, h) BY <1>3 DEF Taken, Same, Moves, LastShown
<1> QED BY <1>17, <1>4, <1>9, <1>13, <1>14, <1>15, <1>16, HeldNext

-----------------------------------------------------------------------------
(* A store becomes visible *)

\* one of those that went through the fewest fences
Shows(t, s) ==
    /\ s \in stores[t] /\ \A o \in stores[t] : s.after <= o.after
    /\ mem' = [mem EXCEPT ![s.loc] = s.val]
    /\ stores' = [stores EXCEPT ![t] = @ \ {s}]
    /\ UNCHANGED <<size, fences, producer, localFront, consumer, localTail, got>>

LEMMA InLocation ==
    ASSUME NEW g, Good(g), NEW b \in Block, NEW c \in Int
    PROVE  /\ data(b, c % blockSize) \in Location
           /\ tail(b) \in Location /\ front(b) \in Location
           /\ tailBlock \in Location /\ frontBlock \in Location /\ done_ \in Location
           /\ (c % blockSize) \in Int
<1>1. (c % blockSize) \in 0 .. blockSize - 1 /\ blockSize \in Nat
  <2>1. blockSize \in Nat \ {0} BY GoodShape DEF Shape
  <2> QED BY <2>1, DivMod
<1> QED BY <1>1 DEF Location, Slot

LEMMA MemAt ==
    ASSUME NEW g, Held(g), NEW t, NEW s, Shows(t, s), s.loc \in Location, s.val \in Int
    PROVE  /\ mem' \in [Location -> Int] /\ mem'[s.loc] = s.val
           /\ \A l \in Location : l # s.loc => mem'[l] = mem[l]
BY DEF Shows, Held, Indices

\* What is left to show of a store that becomes visible.
LEMMA Seen ==
    ASSUME NEW g, Held(g), NEW h, Good(h), NEW t \in Thread, NEW s, Shows(t, s),
           s.loc \in Location, s.val \in Int,
           Same(g, h, {"filled", "shown", "seenTail", "cleared", "freed", "seenFront"}),
           g.turn[g.seenFront] <= g.turn[h.seenFront],
           g.turn[g.seenTail] <= g.turn[h.seenTail],
           mem'[done_] = mem[done_] \/ producer.pc = "stopped",
           mem'[frontBlock] = h.seenFront, mem'[tailBlock] = h.seenTail,
           \A b \in Block : /\ mem'[front(b)] = h.freed[b] % blockSize
                            /\ mem'[tail(b)] = h.shown[b] % blockSize,
           Slots(h)',
           stores'["producer"] = Filled(h) \cup Shown(h) \cup Entered(h) \cup Finished(h)',
           stores'["consumer"] = Cleared(h) \cup Freed(h) \cup Left(h)
    PROVE  Held(h)'
<1>1. /\ h.knownFront = g.knownFront /\ h.knownTail = g.knownTail /\ h.put = g.put
      /\ h.taken = g.taken /\ h.turn = g.turn /\ h.front = g.front /\ h.tail = g.tail
      /\ h.sent = g.sent /\ h.got = g.got /\ g \in History /\ h \in History
  BY DEF Same
<1>2. /\ size' = size /\ fences' = fences /\ producer' = producer /\ localFront' = localFront
      /\ consumer' = consumer /\ localTail' = localTail /\ got' = got
      /\ DOMAIN stores' = DOMAIN stores
  BY DEF Shows
<1>3. mem' \in [Location -> Int] BY MemAt
<1>4. Indices(h)' BY <1>1, <1>2, <1>3, SameShape DEF Held, Indices
<1>5. Buffers(h)' BY <1>1, <1>2, BuffersStay DEF Held, Buffers
<1>6. Found(h)'
  <2>1. Good(g) BY DEF Held
  <2>2. next(g.tail) \in Block /\ g.front \in Block BY <1>1, <2>1, GoodShape DEF History, Shape
  <2>3. /\ g.turn[g.seenFront] \in Int /\ g.turn[h.seenFront] \in Int
        /\ g.turn[g.seenTail] \in Int /\ g.turn[h.seenTail] \in Int
        /\ g.turn[next(g.tail)] \in Int /\ g.turn[g.front] \in Int
    BY <1>1, <2>2 DEF History
  <2>4. producer.pc = "free" => g.turn[next(g.tail)] < g.turn[h.seenFront]
    BY <2>3 DEF Held, Found
  <2>5. consumer.pc \in {"again", "advance"} => g.turn[g.front] < g.turn[h.seenTail]
    BY <2>3 DEF Held, Found
  <2> QED BY <1>1, <1>2, <2>4, <2>5, SameShape DEF Held, Found
<1> QED BY <1>2, <1>4, <1>5, <1>6, HeldNext

LEMMA SlotsSeen ==
    ASSUME NEW g, NEW h, Held(g), NEW t, NEW s, Shows(t, s), s.loc \in Location, s.val \in Int,
           \A b \in Block, i \in Slot : s.loc # data(b, i),
           h.freed = g.freed, h.cleared = g.cleared, h.filled = g.filled, h.base = g.base
    PROVE  Slots(h)'
<1>1. ASSUME NEW b \in Block, NEW c \in g.freed[b] .. g.freed[b] + blockSize - 1
      PROVE  mem'[data(b, c % blockSize)] =
                 IF g.cleared[b] <= c /\ c < g.filled[b] THEN g.base[b] + c ELSE Nothing
  <2>1. Good(g) /\ g.freed[b] \in Nat /\ blockSize \in Nat \ {0} BY Chained DEF Held
  <2>2. data(b, c % blockSize) \in Location BY <2>1, InLocation
  <2>3. (c % blockSize) \in Slot BY <2>1, DivMod DEF Slot
  <2>4. mem'[data(b, c % blockSize)] = mem[data(b, c % blockSize)] BY <2>2, <2>3, MemAt
  <2> QED BY <2>4 DEF Held, Slots
<1> QED BY <1>1, SameShape DEF Slots, Shows

\* A thread's stores go to different places, but those of a kind.
LEMMA Apart ==
    ASSUME NEW g, Good(g)
    PROVE  /\ \A s \in Filled(g) : s \notin Shown(g) /\ s \notin Entered(g) /\ s \notin Finished(g)
           /\ \A s \in Shown(g) : s \notin Filled(g) /\ s \notin Entered(g) /\ s \notin Finished(g)
           /\ \A s \in Entered(g) : s \notin Filled(g) /\ s \notin Shown(g) /\ s \notin Finished(g)
           /\ \A s \in Finished(g) : s \notin Filled(g) /\ s \notin Shown(g) /\ s \notin Entered(g)
           /\ \A s \in Cleared(g) : s \notin Freed(g) /\ s \notin Left(g)
           /\ \A s \in Freed(g) : s \notin Cleared(g) /\ s \notin Left(g)
           /\ \A s \in Left(g) : s \notin Cleared(g) /\ s \notin Freed(g)
BY WhereTo, Locations

\* An element is in its slot.
LEMMA ShowsFilled ==
    ASSUME NEW g, Held(g), NEW s \in Filled(g), Shows("producer", s)
    PROVE  \E h : Held(h)' /\ Moves(g, h)
<1>1. Good(g) /\ g \in History BY DEF Held, Good
<1>2. PICK b \in Block : \E c \in g.filled[b] .. g.put[b] - 1 : s = Filling(g, b, c)
  BY <1>1, Members
<1>3. PICK c \in g.filled[b] .. g.put[b] - 1 : s = Filling(g, b, c) BY <1>2
<1>4. /\ g.filled[b] \in Nat /\ g.put[b] \in Nat /\ g.base[b] \in Int
      /\ g.freed[b] \in Nat /\ g.cleared[b] \in Nat /\ blockSize \in Nat \ {0}
      /\ g.freed[b] <= g.filled[b] /\ g.cleared[b] <= g.filled[b]
      /\ g.put[b] < g.freed[b] + blockSize
  BY <1>1, Chained
\* it is the first of its block that waits
<1>5. c = g.filled[b] /\ g.filled[b] < g.put[b]
  <2>1. g.filled[b] \in g.filled[b] .. g.put[b] - 1 BY <1>4
  <2>2. Filling(g, b, g.filled[b]) \in Filled(g) BY <1>1, <2>1, Members
  <2>3. Filling(g, b, g.filled[b]) \in stores["producer"] BY <2>2 DEF Held, Buffers
  <2>4. s.after <= Filling(g, b, g.filled[b]).after BY <2>3 DEF Shows
  <2>5. g.base[b] + c - 1 <= g.base[b] + g.filled[b] - 1 BY <1>3, <2>4 DEF Filling
  <2> QED BY <1>4, <2>5
<1>6. PICK h : NowFilled(g, h, b) BY <1>1, NowFilledExists
<1>7. Good(h) BY <1>1, <1>5, <1>6, NowFilledGood
<1>8. /\ h.filled = [g.filled EXCEPT ![b] = @ + 1] /\ h.freed = g.freed
      /\ h.cleared = g.cleared /\ h.base = g.base /\ h.shown = g.shown /\ h.turn = g.turn
      /\ h.seenFront = g.seenFront /\ h.seenTail = g.seenTail /\ h.sent = g.sent
      /\ Same(g, h, {"filled", "shown", "seenTail", "cleared", "freed", "seenFront"})
  BY <1>6 DEF NowFilled, Same
<1>9. s.loc = data(b, c % blockSize) /\ s.val = g.base[b] + c BY <1>3 DEF Filling
<1>10. s.loc \in Location /\ s.val \in Int
  <2>1. c \in Int /\ g.base[b] + c \in Int BY <1>4
  <2>2. s.loc \in Location BY <1>1, <1>9, <2>1, InLocation
  <2> QED BY <1>9, <2>1, <2>2
<1>11. /\ mem' \in [Location -> Int] /\ mem'[s.loc] = s.val
       /\ \A l \in Location : l # s.loc => mem'[l] = mem[l]
  BY <1>10, MemAt
<1>12. Slots(h)'
  <2>1. ASSUME NEW x \in Block, NEW d \in g.freed[x] .. g.freed[x] + blockSize - 1
        PROVE  mem'[data(x, d % blockSize)] =
                   IF g.cleared[x] <= d /\ d < h.filled[x] THEN g.base[x] + d ELSE Nothing
    <3>1. mem[data(x, d % blockSize)] =
              IF g.cleared[x] <= d /\ d < g.filled[x] THEN g.base[x] + d ELSE Nothing
      BY DEF Held, Slots
    <3>2. d \in Int /\ data(x, d % blockSize) \in Location /\ g.freed[x] \in Nat
      BY <1>1, <1>4, InLocation, Chained
    <3>3. g.filled[x] \in Nat /\ g.cleared[x] \in Nat BY <1>1, Chained
    <3>4. h.filled[x] = IF x = b THEN g.filled[b] + 1 ELSE g.filled[x]
      BY <1>1, <1>8 DEF History
    <3>5. CASE x = b /\ d = c
      BY <1>4, <1>5, <1>9, <1>11, <3>4, <3>5
    <3>6. CASE ~ (x = b /\ d = c)
      <4>1. data(x, d % blockSize) # s.loc
        <5> SUFFICES ASSUME data(x, d % blockSize) = s.loc PROVE FALSE
          OBVIOUS
        <5>1. x = b /\ d % blockSize = c % blockSize BY <1>9, Locations
        <5>2. g.freed[b] <= c /\ c < g.freed[b] + blockSize BY <1>4, <1>5
        <5>3. d \in Int /\ c \in Int /\ g.freed[b] <= d /\ d < g.freed[b] + blockSize
          BY <1>4, <5>1
        <5>4. d = c BY ONLY <1>1, <5>1, <5>2, <5>3, SameSlot, b \in Block
        <5> QED BY <3>6, <5>1, <5>4
      <4>2. mem'[data(x, d % blockSize)] = mem[data(x, d % blockSize)]
        BY <1>11, <3>2, <4>1
      <4>3. d < h.filled[x] <=> d < g.filled[x]
        BY <1>4, <1>5, <3>2, <3>3, <3>4, <3>6
      <4> QED BY <3>1, <4>2, <4>3
    <3> QED BY <3>5, <3>6
  <2> QED BY <1>8, <2>1, SameShape DEF Slots, Shows
<1>13. /\ Filled(h) = Filled(g) \ {s} /\ Shown(h) = Shown(g) /\ Entered(h) = Entered(g)
       /\ Cleared(h) = Cleared(g) /\ Freed(h) = Freed(g) /\ Left(h) = Left(g)
  BY <1>1, <1>3, <1>5, <1>6, NowFilledStores
<1>14. s.loc # done_ /\ s.loc # frontBlock /\ s.loc # tailBlock
  BY <1>9, Locations
<1>15. mem'[done_] = mem[done_] /\ mem'[frontBlock] = h.seenFront /\ mem'[tailBlock] = h.seenTail
  BY <1>1, <1>4, <1>8, <1>11, <1>14, InLocation DEF Held, Indices
<1>16. \A x \in Block : /\ mem'[front(x)] = h.freed[x] % blockSize
                        /\ mem'[tail(x)] = h.shown[x] % blockSize
  <2> SUFFICES ASSUME NEW x \in Block
               PROVE  /\ mem'[front(x)] = h.freed[x] % blockSize
                      /\ mem'[tail(x)] = h.shown[x] % blockSize
    OBVIOUS
  <2>1. front(x) # s.loc /\ tail(x) # s.loc BY <1>9, Locations
  <2>2. front(x) \in Location /\ tail(x) \in Location BY <1>1, <1>4, InLocation
  <2> QED BY <1>8, <1>11, <2>1, <2>2 DEF Held, Indices
<1>17. /\ stores'["producer"] = Filled(h) \cup Shown(h) \cup Entered(h) \cup Finished(h)'
       /\ stores'["consumer"] = Cleared(h) \cup Freed(h) \cup Left(h)
  <2>1. Finished(h)' = Finished(g) BY <1>8, <1>15 DEF Finished, Done, Shows
  <2>2. /\ stores'["producer"] = stores["producer"] \ {s}
        /\ stores'["consumer"] = stores["consumer"]
    BY DEF Shows, Held, Indices, Thread
  <2>3. s \notin Shown(g) /\ s \notin Entered(g) /\ s \notin Finished(g) BY <1>1, Apart
  <2> QED BY <1>13, <2>1, <2>2, <2>3 DEF Held, Buffers
<1>18. /\ g.turn[g.seenFront] <= g.turn[h.seenFront]
       /\ g.turn[g.seenTail] <= g.turn[h.seenTail] /\ "producer" \in Thread
  BY <1>1, <1>8 DEF History, Thread
<1>19. Moves(g, h) BY <1>6, NoMove DEF NowFilled, Same
<1> QED BY <1>19, <1>7, <1>8, <1>10, <1>12, <1>15, <1>16, <1>17, <1>18, Seen

\* A tail is seen, and every element before it is in its slot.
LEMMA ShowsShown ==
    ASSUME NEW g, Held(g), NEW s \in Shown(g), Shows("producer", s)
    PROVE  \E h : Held(h)' /\ Moves(g, h)
<1>1. Good(g) /\ g \in History BY DEF Held, Good
<1>2. PICK b \in Block : \E c \in g.shown[b] .. g.put[b] - 1 : s = Showing(g, b, c)
  BY <1>1, Members
<1>3. PICK c \in g.shown[b] .. g.put[b] - 1 : s = Showing(g, b, c) BY <1>2
<1>4. /\ g.shown[b] \in Nat /\ g.put[b] \in Nat /\ g.base[b] \in Int /\ g.first[b] \in Int
      /\ g.filled[b] \in Nat /\ blockSize \in Nat \ {0} /\ g.first[b] <= g.shown[b]
      /\ g.turn[b] \in Int /\ g.turn[g.seenTail] \in Int
  BY <1>1, Chained, FirstShown DEF History
<1>5. s.after = IF c = g.first[b] THEN g.base[b] + c - 1 ELSE g.base[b] + c
  BY <1>3 DEF Showing
\* it is the first of its block that waits
<1>6. c = g.shown[b] /\ g.shown[b] < g.put[b]
  <2> DEFINE o == Showing(g, b, g.shown[b])
  <2>1. g.shown[b] \in g.shown[b] .. g.put[b] - 1 BY <1>4
  <2>2. o \in Shown(g) BY <1>1, <2>1, Members
  <2>3. o \in stores["producer"] BY <2>2 DEF Held, Buffers
  <2>4. s.after <= o.after BY <2>3 DEF Shows
  <2>5. o.after = IF g.shown[b] = g.first[b] THEN g.base[b] + g.shown[b] - 1
                  ELSE g.base[b] + g.shown[b]
    BY DEF Showing
  <2> HIDE DEF o
  <2> QED BY <1>4, <1>5, <2>4, <2>5
\* what is in the slots before it does not wait
<1>7. g.turn[b] <= g.turn[g.seenTail] => g.shown[b] < g.filled[b]
  <2> SUFFICES ASSUME g.turn[b] <= g.turn[g.seenTail], g.filled[b] <= g.shown[b] PROVE FALSE
    BY <1>4
  <2>1. g.first[b] < g.shown[b] BY <1>1 DEF Good, Places
  <2>2. g.filled[b] \in g.filled[b] .. g.put[b] - 1 BY <1>4, <1>6
  <2>3. Filling(g, b, g.filled[b]) \in Filled(g) BY <1>1, <2>2, Members
  <2>4. Filling(g, b, g.filled[b]) \in stores["producer"] BY <2>3 DEF Held, Buffers
  <2>5. s.after <= Filling(g, b, g.filled[b]).after BY <2>4 DEF Shows
  <2>6. s.after <= g.base[b] + g.filled[b] - 1 BY <2>5 DEF Filling
  <2> QED BY <1>4, <1>5, <1>6, <2>1, <2>6
\* nor does the block
<1>8. g.turn[g.seenTail] < g.turn[b] => g.shown[b] <= g.first[b]
  <2> SUFFICES ASSUME g.turn[g.seenTail] < g.turn[b], g.first[b] < g.shown[b] PROVE FALSE
    BY <1>4
  <2>1. Entering(g, b) \in stores["producer"] BY DEF Entered, Held, Buffers
  <2>2. s.after <= Entering(g, b).after BY <2>1 DEF Shows
  <2>3. s.after <= g.base[b] + g.first[b] BY <2>2 DEF Entering
  <2> QED BY <1>4, <1>5, <1>6, <2>3
<1>9. PICK h : NowShown(g, h, b) BY <1>1, NowShownExists
<1>10. Good(h) BY <1>1, <1>6, <1>7, <1>8, <1>9, NowShownGood
<1>11. /\ h.shown = [g.shown EXCEPT ![b] = @ + 1] /\ h.freed = g.freed
       /\ h.cleared = g.cleared /\ h.base = g.base /\ h.filled = g.filled /\ h.turn = g.turn
       /\ h.seenFront = g.seenFront /\ h.seenTail = g.seenTail /\ h.sent = g.sent
       /\ Same(g, h, {"filled", "shown", "seenTail", "cleared", "freed", "seenFront"})
  BY <1>9 DEF NowShown, Same
<1>12. s.loc = tail(b) /\ s.val = (c + 1) % blockSize BY <1>3 DEF Showing
<1>13. s.loc \in Location /\ s.val \in Int BY <1>1, <1>4, <1>6, <1>12, InLocation
<1>14. /\ mem' \in [Location -> Int] /\ mem'[s.loc] = s.val
       /\ \A l \in Location : l # s.loc => mem'[l] = mem[l]
  BY <1>13, MemAt
<1>15. Slots(h)'
  <2>1. \A x \in Block, i \in Slot : s.loc # data(x, i) BY <1>12, Locations
  <2> QED BY <1>11, <1>13, <2>1, SlotsSeen
<1>16. /\ Shown(h) = Shown(g) \ {s} /\ Filled(h) = Filled(g) /\ Entered(h) = Entered(g)
       /\ Cleared(h) = Cleared(g) /\ Freed(h) = Freed(g) /\ Left(h) = Left(g)
  BY <1>1, <1>3, <1>6, <1>9, NowShownStores
<1>17. s.loc # done_ /\ s.loc # frontBlock /\ s.loc # tailBlock
  BY <1>12, Locations
<1>18. mem'[done_] = mem[done_] /\ mem'[frontBlock] = h.seenFront /\ mem'[tailBlock] = h.seenTail
  BY <1>1, <1>4, <1>11, <1>14, <1>17, InLocation DEF Held, Indices
<1>19. \A x \in Block : /\ mem'[front(x)] = h.freed[x] % blockSize
                        /\ mem'[tail(x)] = h.shown[x] % blockSize
  <2> SUFFICES ASSUME NEW x \in Block
               PROVE  /\ mem'[front(x)] = h.freed[x] % blockSize
                      /\ mem'[tail(x)] = h.shown[x] % blockSize
    OBVIOUS
  <2>1. front(x) # s.loc /\ (tail(x) = s.loc => x = b) BY <1>12, Locations
  <2>2. front(x) \in Location /\ tail(x) \in Location BY <1>1, <1>4, InLocation
  <2>3. h.shown[x] = IF x = b THEN c + 1 ELSE g.shown[x] BY <1>1, <1>6, <1>11 DEF History
  <2> QED BY <1>11, <1>12, <1>14, <2>1, <2>2, <2>3 DEF Held, Indices
<1>20. /\ stores'["producer"] = Filled(h) \cup Shown(h) \cup Entered(h) \cup Finished(h)'
       /\ stores'["consumer"] = Cleared(h) \cup Freed(h) \cup Left(h)
  <2>1. Finished(h)' = Finished(g) BY <1>11, <1>18 DEF Finished, Done, Shows
  <2>2. /\ stores'["producer"] = stores["producer"] \ {s}
        /\ stores'["consumer"] = stores["consumer"]
    BY DEF Shows, Held, Indices, Thread
  <2>3. s \notin Filled(g) /\ s \notin Entered(g) /\ s \notin Finished(g) BY <1>1, Apart
  <2> QED BY <1>16, <2>1, <2>2, <2>3 DEF Held, Buffers
<1>21. /\ g.turn[g.seenFront] <= g.turn[h.seenFront]
       /\ g.turn[g.seenTail] <= g.turn[h.seenTail] /\ "producer" \in Thread
  BY <1>1, <1>11 DEF History, Thread
<1>22. Moves(g, h)
  <2>1. h.base = g.base /\ h.seenTail = g.seenTail /\ h.got = g.got
    BY <1>9 DEF NowShown, Same
  <2>2. /\ g.seenTail \in Block /\ g.base[g.seenTail] \in Int /\ g.shown[g.seenTail] \in Int
        /\ h.shown[g.seenTail] = IF g.seenTail = b THEN g.shown[g.seenTail] + 1
                                ELSE g.shown[g.seenTail]
    BY <1>1, <1>11 DEF History
  <2> QED BY <2>1, <2>2 DEF Moves, LastShown
<1> QED BY <1>10, <1>11, <1>13, <1>15, <1>18, <1>19, <1>20, <1>21, <1>22, Seen

\* A block is seen to be the last when the one before it is full, and it has its
\* first element.
LEMMA ShowsEntered ==
    ASSUME NEW g, Held(g), NEW s \in Entered(g), Shows("producer", s)
    PROVE  \E h : Held(h)' /\ Moves(g, h)
<1>1. /\ Good(g) /\ g \in History /\ g.seenTail \in Block /\ g.tail \in Block
      /\ g.front \in Block /\ g.seenFront \in Block
  BY DEF Held, Good, History
<1>2. PICK b \in Block : s = Entering(g, b) /\ g.turn[g.seenTail] < g.turn[b]
  BY DEF Entered
<1>3. /\ g.shown[b] \in Nat /\ g.put[b] \in Nat /\ g.base[b] \in Int /\ g.first[b] \in Int
      /\ g.filled[b] \in Nat /\ g.taken[b] <= g.filled[b] /\ g.first[b] <= g.shown[b]
      /\ g.first[b] < g.put[b] /\ g.taken[b] \in Nat
  BY <1>1, Chained, FirstShown DEF Good, Places
<1>4. s.after = g.base[b] + g.first[b] BY <1>2 DEF Entering
<1>5. /\ g.turn[b] \in Int /\ g.turn[g.seenTail] \in Int /\ g.turn[g.tail] \in Int
      /\ g.turn[g.front] \in Int /\ g.turn[g.seenFront] \in Int
      /\ g.turn[g.front] <= g.turn[g.seenTail] /\ g.turn[g.seenFront] <= g.turn[g.front]
      /\ g.turn[b] <= g.turn[g.tail]
  BY <1>1 DEF Good, Ring, History
<1>6. g.turn[g.seenTail] < g.turn[g.tail] BY <1>2, <1>5
<1>7. /\ next(g.seenTail) \in Block /\ g.turn[next(g.seenTail)] = g.turn[g.seenTail] + 1
  BY <1>1, <1>6, InTurn, GoodShape DEF Shape
<1>8. b = next(g.seenTail)
  <2> DEFINE n == next(g.seenTail)
  <2> SUFFICES ASSUME b # n PROVE FALSE OBVIOUS
  <2>1. g.turn[n] # g.turn[b] BY <1>1, <1>7, InTurn
  <2>2. g.turn[n] < g.turn[b] /\ g.turn[g.seenFront] <= g.turn[n]
    BY <1>2, <1>5, <1>7, <2>1
  <2>3. g.base[n] + g.first[n] < g.base[b] + g.first[b] BY <1>1, <1>7, <2>2, Earlier
  <2>4. Entering(g, n) \in stores["producer"]
    <3>1. g.turn[g.seenTail] < g.turn[n] BY <1>5, <1>7
    <3> QED BY <1>7, <3>1 DEF Entered, Held, Buffers
  <2>5. s.after <= Entering(g, n).after BY <2>4 DEF Shows
  <2>6. s.after <= g.base[n] + g.first[n] BY <2>5 DEF Entering
  <2>7. g.base[n] \in Int /\ g.first[n] \in Int BY <1>1, <1>7, Chained
  <2> HIDE DEF n
  <2> QED BY <1>3, <1>4, <2>3, <2>6, <2>7
<1>9. g.first[b] < g.shown[b]
  <2> SUFFICES ASSUME g.shown[b] = g.first[b] PROVE FALSE BY <1>3
  <2>1. g.shown[b] \in g.shown[b] .. g.put[b] - 1 BY <1>3
  <2>2. Showing(g, b, g.shown[b]) \in Shown(g) BY <1>1, <2>1, Members
  <2>3. Showing(g, b, g.shown[b]) \in stores["producer"] BY <2>2 DEF Held, Buffers
  <2>4. s.after <= Showing(g, b, g.shown[b]).after BY <2>3 DEF Shows
  <2>5. s.after <= g.base[b] + g.shown[b] - 1 BY <2>4 DEF Showing
  <2> QED BY <1>3, <1>4, <2>5
<1>10. g.first[b] < g.filled[b]
  <2>1. g.taken[b] = g.first[b] BY <1>1, <1>2, <1>5 DEF Good, Places
  <2> SUFFICES ASSUME g.filled[b] = g.first[b] PROVE FALSE BY <1>3, <2>1
  <2>2. g.filled[b] \in g.filled[b] .. g.put[b] - 1 BY <1>3
  <2>3. Filling(g, b, g.filled[b]) \in Filled(g) BY <1>1, <2>2, Members
  <2>4. Filling(g, b, g.filled[b]) \in stores["producer"] BY <2>3 DEF Held, Buffers
  <2>5. s.after <= Filling(g, b, g.filled[b]).after BY <2>4 DEF Shows
  <2>6. s.after <= g.base[b] + g.filled[b] - 1 BY <2>5 DEF Filling
  <2> QED BY <1>3, <1>4, <2>6
<1>11. g.shown[g.seenTail] = g.put[g.seenTail]
  <2> DEFINE a == g.seenTail
  <2>1. /\ g.shown[a] \in Nat /\ g.put[a] \in Nat /\ g.base[a] \in Int
        /\ g.shown[a] <= g.put[a] /\ g.first[a] \in Int
    BY <1>1, Chained
  <2> SUFFICES ASSUME g.shown[a] < g.put[a] PROVE FALSE BY <2>1
  <2>2. g.shown[a] \in g.shown[a] .. g.put[a] - 1 BY <2>1
  <2>3. Showing(g, a, g.shown[a]) \in Shown(g) BY <1>1, <2>2, Members
  <2>4. Showing(g, a, g.shown[a]) \in stores["producer"] BY <2>3 DEF Held, Buffers
  <2>5. s.after <= Showing(g, a, g.shown[a]).after BY <2>4 DEF Shows
  <2>6. s.after <= IF g.shown[a] = g.first[a] THEN g.base[a] + g.shown[a] - 1
                   ELSE g.base[a] + g.shown[a]
    BY <2>5 DEF Showing
  <2>7. g.base[a] + g.put[a] <= g.base[b] + g.first[b]
    <3>1. g.turn[g.seenFront] <= g.turn[a] BY <1>5
    <3> QED BY <1>1, <1>2, <3>1, Earlier
  <2> HIDE DEF a
  <2> QED BY <1>3, <1>4, <2>1, <2>6, <2>7
<1>12. PICK h : NowEntered(g, h, b) BY <1>1, NowEnteredExists
<1>13. Good(h) BY <1>1, <1>6, <1>8, <1>9, <1>10, <1>11, <1>12, NowEnteredGood
<1>14. /\ h.seenTail = b /\ h.shown = g.shown /\ h.freed = g.freed
       /\ h.cleared = g.cleared /\ h.base = g.base /\ h.filled = g.filled /\ h.turn = g.turn
       /\ h.seenFront = g.seenFront /\ h.sent = g.sent
       /\ Same(g, h, {"filled", "shown", "seenTail", "cleared", "freed", "seenFront"})
  BY <1>12 DEF NowEntered, Same
<1>15. s.loc = tailBlock /\ s.val = b BY <1>2 DEF Entering
<1>16. s.loc \in Location /\ s.val \in Int BY <1>15 DEF Location, Block
<1>17. /\ mem' \in [Location -> Int] /\ mem'[s.loc] = s.val
       /\ \A l \in Location : l # s.loc => mem'[l] = mem[l]
  BY <1>16, MemAt
<1>18. Slots(h)'
  <2>1. \A x \in Block, i \in Slot : s.loc # data(x, i) BY <1>15, Locations
  <2> QED BY <1>14, <1>16, <2>1, SlotsSeen
<1>19. /\ Entered(h) = Entered(g) \ {s} /\ Filled(h) = Filled(g) /\ Shown(h) = Shown(g)
       /\ Cleared(h) = Cleared(g) /\ Freed(h) = Freed(g) /\ Left(h) = Left(g)
  BY <1>1, <1>2, <1>6, <1>8, <1>12, NowEnteredStores
<1>20. s.loc # done_ /\ s.loc # frontBlock BY <1>15, Locations
<1>21. mem'[done_] = mem[done_] /\ mem'[frontBlock] = h.seenFront /\ mem'[tailBlock] = h.seenTail
  <2>1. done_ \in Location /\ frontBlock \in Location BY DEF Location
  <2> QED BY <1>14, <1>15, <1>17, <1>20, <2>1 DEF Held, Indices
<1>22. \A x \in Block : /\ mem'[front(x)] = h.freed[x] % blockSize
                        /\ mem'[tail(x)] = h.shown[x] % blockSize
  <2> SUFFICES ASSUME NEW x \in Block
               PROVE  /\ mem'[front(x)] = h.freed[x] % blockSize
                      /\ mem'[tail(x)] = h.shown[x] % blockSize
    OBVIOUS
  <2>1. front(x) # s.loc /\ tail(x) # s.loc BY <1>15, Locations
  <2>2. front(x) \in Location /\ tail(x) \in Location BY DEF Location
  <2> QED BY <1>14, <1>17, <2>1, <2>2 DEF Held, Indices
<1>23. /\ stores'["producer"] = Filled(h) \cup Shown(h) \cup Entered(h) \cup Finished(h)'
       /\ stores'["consumer"] = Cleared(h) \cup Freed(h) \cup Left(h)
  <2>1. Finished(h)' = Finished(g) BY <1>14, <1>21 DEF Finished, Done, Shows
  <2>2. /\ stores'["producer"] = stores["producer"] \ {s}
        /\ stores'["consumer"] = stores["consumer"]
    BY DEF Shows, Held, Indices, Thread
  <2>3. s \notin Filled(g) /\ s \notin Shown(g) /\ s \notin Finished(g) BY <1>1, Apart
  <2> QED BY <1>19, <2>1, <2>2, <2>3 DEF Held, Buffers
<1>24. /\ g.turn[g.seenFront] <= g.turn[h.seenFront]
       /\ g.turn[g.seenTail] <= g.turn[h.seenTail] /\ "producer" \in Thread
  BY <1>2, <1>5, <1>14 DEF Thread
\* one more: all of the block before it was inside, and one of this block is
<1>25. Moves(g, h)
  <2>1. h.got = g.got /\ LastShown(h) = g.base[b] + g.shown[b] - 1
    BY <1>12 DEF NowEntered, Same, LastShown
  <2>2. g.shown[b] = g.first[b] + 1
    <3>1. g.shown[b] <= g.first[b] + 1 BY <1>1, <1>2 DEF Good, Places
    <3> QED BY <1>3, <1>9, <3>1
  <2>3. g.taken[b] = g.first[b] BY <1>1, <1>2, <1>5 DEF Good, Places
  <2>4. g.base[g.seenTail] + g.put[g.seenTail] = g.base[b] + g.taken[b]
    BY <1>1, <1>5, <1>6, <1>8 DEF Good, Numbered
  <2>5. g.base[g.seenTail] \in Int /\ g.put[g.seenTail] \in Int BY <1>1, Chained
  <2> QED BY <1>3, <1>11, <2>1, <2>2, <2>3, <2>4, <2>5 DEF Moves, LastShown
<1> QED BY <1>13, <1>14, <1>16, <1>18, <1>21, <1>22, <1>23, <1>24, <1>25, Seen

\* done_ is seen.
LEMMA ShowsFinished ==
    ASSUME NEW g, Held(g), NEW s \in Finished(g), Shows("producer", s)
    PROVE  Held(g)'
<1>1. Good(g) /\ g \in History BY DEF Held, Good
<1>2. s = Done(g) /\ producer.pc = "stopped" BY DEF Finished
<1>3. s.loc = done_ /\ s.val = 1 BY <1>2 DEF Done
<1>4. s.loc \in Location /\ s.val \in Int BY <1>3 DEF Location
<1>5. /\ mem' \in [Location -> Int] /\ mem'[s.loc] = s.val
      /\ \A l \in Location : l # s.loc => mem'[l] = mem[l]
  BY <1>4, MemAt
<1>6. Slots(g)'
  <2>1. \A x \in Block, i \in Slot : s.loc # data(x, i) BY <1>3, Locations
  <2> QED BY <1>4, <2>1, SlotsSeen
<1>7. mem'[frontBlock] = g.seenFront /\ mem'[tailBlock] = g.seenTail
  <2>1. tailBlock \in Location /\ frontBlock \in Location BY DEF Location
  <2> QED BY <1>3, <1>5, <2>1, Locations DEF Held, Indices
<1>8. \A x \in Block : /\ mem'[front(x)] = g.freed[x] % blockSize
                       /\ mem'[tail(x)] = g.shown[x] % blockSize
  <2> SUFFICES ASSUME NEW x \in Block
               PROVE  /\ mem'[front(x)] = g.freed[x] % blockSize
                      /\ mem'[tail(x)] = g.shown[x] % blockSize
    OBVIOUS
  <2>1. front(x) # s.loc /\ tail(x) # s.loc BY <1>3, Locations
  <2>2. front(x) \in Location /\ tail(x) \in Location BY DEF Location
  <2> QED BY <1>5, <2>1, <2>2 DEF Held, Indices
<1>9. /\ stores'["producer"] = Filled(g) \cup Shown(g) \cup Entered(g) \cup Finished(g)'
      /\ stores'["consumer"] = Cleared(g) \cup Freed(g) \cup Left(g)
  <2>1. Finished(g)' = {} BY <1>3, <1>5 DEF Finished
  <2>2. /\ stores'["producer"] = stores["producer"] \ {s}
        /\ stores'["consumer"] = stores["consumer"]
    BY DEF Shows, Held, Indices, Thread
  <2>3. s \notin Filled(g) /\ s \notin Shown(g) /\ s \notin Entered(g) BY <1>1, Apart
  <2>4. Finished(g) \subseteq {s} BY <1>2 DEF Finished
  <2> QED BY <2>1, <2>2, <2>3, <2>4 DEF Held, Buffers
<1>10. /\ g.turn[g.seenFront] <= g.turn[g.seenFront]
       /\ g.turn[g.seenTail] <= g.turn[g.seenTail] /\ "producer" \in Thread
       /\ Same(g, g, {"filled", "shown", "seenTail", "cleared", "freed", "seenFront"})
  BY <1>1 DEF History, Thread, Same
<1> QED BY <1>1, <1>2, <1>4, <1>6, <1>7, <1>8, <1>9, <1>10, Seen

\* An element is destroyed.
LEMMA ShowsCleared ==
    ASSUME NEW g, Held(g), NEW s \in Cleared(g), Shows("consumer", s)
    PROVE  \E h : Held(h)' /\ Moves(g, h)
<1>1. Good(g) /\ g \in History BY DEF Held, Good
<1>2. PICK b \in Block : \E c \in g.cleared[b] .. g.taken[b] - 1 : s = Clearing(g, b, c)
  BY <1>1, Members
<1>3. PICK c \in g.cleared[b] .. g.taken[b] - 1 : s = Clearing(g, b, c) BY <1>2
<1>4. /\ g.cleared[b] \in Nat /\ g.taken[b] \in Nat /\ g.base[b] \in Int /\ g.turn[b] \in Int
      /\ g.freed[b] \in Nat /\ g.filled[b] \in Nat /\ blockSize \in Nat \ {0}
      /\ g.freed[b] <= g.cleared[b] /\ g.taken[b] < g.freed[b] + blockSize
      /\ g.taken[b] <= g.filled[b]
  BY <1>1, Chained
\* it is the first of its block that waits
<1>5. c = g.cleared[b] /\ g.cleared[b] < g.taken[b]
  <2>1. g.cleared[b] \in g.cleared[b] .. g.taken[b] - 1 BY <1>4
  <2>2. Clearing(g, b, g.cleared[b]) \in Cleared(g) BY <1>1, <2>1, Members
  <2>3. Clearing(g, b, g.cleared[b]) \in stores["consumer"] BY <2>2 DEF Held, Buffers
  <2>4. s.after <= Clearing(g, b, g.cleared[b]).after BY <2>3 DEF Shows
  <2>5. g.base[b] + c - 1 + g.turn[b] <= g.base[b] + g.cleared[b] - 1 + g.turn[b]
    BY <1>3, <2>4 DEF Clearing
  <2> QED BY <1>4, <2>5
<1>6. PICK h : NowCleared(g, h, b) BY <1>1, NowClearedExists
<1>7. Good(h) BY <1>1, <1>5, <1>6, NowClearedGood
<1>8. /\ h.cleared = [g.cleared EXCEPT ![b] = @ + 1] /\ h.freed = g.freed
      /\ h.filled = g.filled /\ h.base = g.base /\ h.shown = g.shown /\ h.turn = g.turn
      /\ h.seenFront = g.seenFront /\ h.seenTail = g.seenTail /\ h.sent = g.sent
      /\ Same(g, h, {"filled", "shown", "seenTail", "cleared", "freed", "seenFront"})
  BY <1>6 DEF NowCleared, Same
<1>9. s.loc = data(b, c % blockSize) /\ s.val = Nothing BY <1>3 DEF Clearing
<1>10. s.loc \in Location /\ s.val \in Int
  <2>1. c \in Int BY <1>4
  <2> QED BY <1>1, <1>9, <2>1, InLocation DEF Nothing
<1>11. /\ mem' \in [Location -> Int] /\ mem'[s.loc] = s.val
       /\ \A l \in Location : l # s.loc => mem'[l] = mem[l]
  BY <1>10, MemAt
<1>12. Slots(h)'
  <2>1. ASSUME NEW x \in Block, NEW d \in g.freed[x] .. g.freed[x] + blockSize - 1
        PROVE  mem'[data(x, d % blockSize)] =
                   IF h.cleared[x] <= d /\ d < g.filled[x] THEN g.base[x] + d ELSE Nothing
    <3>1. mem[data(x, d % blockSize)] =
              IF g.cleared[x] <= d /\ d < g.filled[x] THEN g.base[x] + d ELSE Nothing
      BY DEF Held, Slots
    <3>2. d \in Int /\ data(x, d % blockSize) \in Location /\ g.freed[x] \in Nat
      BY <1>1, <1>4, InLocation, Chained
    <3>3. g.filled[x] \in Nat /\ g.cleared[x] \in Nat BY <1>1, Chained
    <3>4. h.cleared[x] = IF x = b THEN g.cleared[b] + 1 ELSE g.cleared[x]
      BY <1>1, <1>8 DEF History
    <3>5. CASE x = b /\ d = c
      <4>1. ~ (h.cleared[x] <= d) BY <1>4, <1>5, <3>4, <3>5
      <4>2. mem'[data(x, d % blockSize)] = Nothing BY <1>9, <1>11, <3>5
      <4> QED BY <4>1, <4>2
    <3>6. CASE ~ (x = b /\ d = c)
      <4>1. data(x, d % blockSize) # s.loc
        <5> SUFFICES ASSUME data(x, d % blockSize) = s.loc PROVE FALSE
          OBVIOUS
        <5>1. x = b /\ d % blockSize = c % blockSize BY <1>9, Locations
        <5>2. g.freed[b] <= c /\ c < g.freed[b] + blockSize BY <1>4, <1>5
        <5>3. d \in Int /\ c \in Int /\ g.freed[b] <= d /\ d < g.freed[b] + blockSize
          BY <1>4, <5>1
        <5>4. d = c BY ONLY <1>1, <5>1, <5>2, <5>3, SameSlot, b \in Block
        <5> QED BY <3>6, <5>1, <5>4
      <4>2. mem'[data(x, d % blockSize)] = mem[data(x, d % blockSize)]
        BY <1>11, <3>2, <4>1
      <4>3. h.cleared[x] <= d <=> g.cleared[x] <= d
        BY <1>4, <1>5, <3>2, <3>3, <3>4, <3>6
      <4> QED BY <3>1, <4>2, <4>3
    <3> QED BY <3>5, <3>6
  <2> QED BY <1>8, <2>1, SameShape DEF Slots, Shows
<1>13. /\ Cleared(h) = Cleared(g) \ {s} /\ Shown(h) = Shown(g) /\ Entered(h) = Entered(g)
       /\ Filled(h) = Filled(g) /\ Freed(h) = Freed(g) /\ Left(h) = Left(g)
  BY <1>1, <1>3, <1>5, <1>6, NowClearedStores
<1>14. s.loc # done_ /\ s.loc # frontBlock /\ s.loc # tailBlock
  BY <1>9, Locations
<1>15. mem'[done_] = mem[done_] /\ mem'[frontBlock] = h.seenFront /\ mem'[tailBlock] = h.seenTail
  <2>1. done_ \in Location /\ frontBlock \in Location /\ tailBlock \in Location BY DEF Location
  <2> QED BY <1>8, <1>11, <1>14, <2>1 DEF Held, Indices
<1>16. \A x \in Block : /\ mem'[front(x)] = h.freed[x] % blockSize
                        /\ mem'[tail(x)] = h.shown[x] % blockSize
  <2> SUFFICES ASSUME NEW x \in Block
               PROVE  /\ mem'[front(x)] = h.freed[x] % blockSize
                      /\ mem'[tail(x)] = h.shown[x] % blockSize
    OBVIOUS
  <2>1. front(x) # s.loc /\ tail(x) # s.loc BY <1>9, Locations
  <2>2. front(x) \in Location /\ tail(x) \in Location BY DEF Location
  <2> QED BY <1>8, <1>11, <2>1, <2>2 DEF Held, Indices
<1>17. /\ stores'["producer"] = Filled(h) \cup Shown(h) \cup Entered(h) \cup Finished(h)'
       /\ stores'["consumer"] = Cleared(h) \cup Freed(h) \cup Left(h)
  <2>1. Finished(h)' = Finished(g) BY <1>8, <1>15 DEF Finished, Done, Shows
  <2>2. /\ stores'["consumer"] = stores["consumer"] \ {s}
        /\ stores'["producer"] = stores["producer"]
    BY DEF Shows, Held, Indices, Thread
  <2>3. s \notin Freed(g) /\ s \notin Left(g) BY <1>1, Apart
  <2> QED BY <1>13, <2>1, <2>2, <2>3 DEF Held, Buffers
<1>18. /\ g.turn[g.seenFront] <= g.turn[h.seenFront]
       /\ g.turn[g.seenTail] <= g.turn[h.seenTail] /\ "consumer" \in Thread
  BY <1>1, <1>8 DEF History, Thread
<1>19. Moves(g, h) BY <1>6, NoMove DEF NowCleared, Same
<1> QED BY <1>19, <1>7, <1>8, <1>10, <1>12, <1>15, <1>16, <1>17, <1>18, Seen

\* A front is seen when every element before it is destroyed.
LEMMA ShowsFreed ==
    ASSUME NEW g, Held(g), NEW s \in Freed(g), Shows("consumer", s)
    PROVE  \E h : Held(h)' /\ Moves(g, h)
<1>1. Good(g) /\ g \in History BY DEF Held, Good
<1>2. PICK b \in Block : \E c \in g.freed[b] .. g.taken[b] - 1 : s = Freeing(g, b, c)
  BY <1>1, Members
<1>3. PICK c \in g.freed[b] .. g.taken[b] - 1 : s = Freeing(g, b, c) BY <1>2
<1>4. /\ g.cleared[b] \in Nat /\ g.taken[b] \in Nat /\ g.base[b] \in Int /\ g.turn[b] \in Int
      /\ g.freed[b] \in Nat /\ g.filled[b] \in Nat /\ blockSize \in Nat \ {0}
      /\ g.freed[b] <= g.cleared[b]
  BY <1>1, Chained
<1>5. s.after = g.base[b] + c + g.turn[b] BY <1>3 DEF Freeing
\* it is the first of its block that waits
<1>6. c = g.freed[b] /\ g.freed[b] < g.taken[b]
  <2>1. g.freed[b] \in g.freed[b] .. g.taken[b] - 1 BY <1>4
  <2>2. Freeing(g, b, g.freed[b]) \in Freed(g) BY <1>1, <2>1, Members
  <2>3. Freeing(g, b, g.freed[b]) \in stores["consumer"] BY <2>2 DEF Held, Buffers
  <2>4. s.after <= Freeing(g, b, g.freed[b]).after BY <2>3 DEF Shows
  <2>5. s.after <= g.base[b] + g.freed[b] + g.turn[b] BY <2>4 DEF Freeing
  <2> QED BY <1>4, <1>5, <2>5
\* the destruction of its element does not wait
<1>7. g.freed[b] < g.cleared[b]
  <2> SUFFICES ASSUME g.cleared[b] = g.freed[b] PROVE FALSE BY <1>4
  <2>1. g.cleared[b] \in g.cleared[b] .. g.taken[b] - 1 BY <1>4, <1>6
  <2>2. Clearing(g, b, g.cleared[b]) \in Cleared(g) BY <1>1, <2>1, Members
  <2>3. Clearing(g, b, g.cleared[b]) \in stores["consumer"] BY <2>2 DEF Held, Buffers
  <2>4. s.after <= Clearing(g, b, g.cleared[b]).after BY <2>3 DEF Shows
  <2>5. s.after <= g.base[b] + g.cleared[b] - 1 + g.turn[b] BY <2>4 DEF Clearing
  <2> QED BY <1>4, <1>5, <1>6, <2>5
<1>8. PICK h : NowFreed(g, h, b) BY <1>1, NowFreedExists
\* nor does that the consumer is in the block
<1>22. g.turn[b] <= g.turn[g.seenFront]
  <2> SUFFICES ASSUME g.turn[g.seenFront] < g.turn[b] PROVE FALSE
    BY <1>1, <1>4 DEF History
  <2>1. g.freed[b] = g.first[b] BY <1>1 DEF Good, Packed
  <2>2. g.turn[b] <= g.turn[g.front]
    <3>1. g.turn[g.front] < g.turn[b] => g.taken[b] = g.first[b] BY <1>1 DEF Good, Places
    <3>2. g.turn[g.front] \in Int BY <1>1 DEF History
    <3> QED BY <1>4, <1>6, <2>1, <3>1, <3>2
  <2>3. Leaving(g, b) \in stores["consumer"] BY <2>2 DEF Held, Buffers, Left
  <2>4. s.after <= Leaving(g, b).after BY <2>3 DEF Shows
  <2>5. s.after <= g.base[b] + g.first[b] - 1 + g.turn[b] BY <2>4 DEF Leaving
  <2> QED BY <1>4, <1>5, <1>6, <2>1, <2>5
<1>9. Good(h) BY <1>1, <1>7, <1>8, <1>22, NowFreedGood
<1>10. /\ h.freed = [g.freed EXCEPT ![b] = @ + 1] /\ h.cleared = g.cleared
       /\ h.filled = g.filled /\ h.base = g.base /\ h.shown = g.shown /\ h.turn = g.turn
       /\ h.seenFront = g.seenFront /\ h.seenTail = g.seenTail /\ h.sent = g.sent
       /\ Same(g, h, {"filled", "shown", "seenTail", "cleared", "freed", "seenFront"})
  BY <1>8 DEF NowFreed, Same
<1>11. s.loc = front(b) /\ s.val = (c + 1) % blockSize BY <1>3 DEF Freeing
<1>12. s.loc \in Location /\ s.val \in Int
  <2>1. c + 1 \in Int BY <1>4
  <2> QED BY <1>1, <1>11, <2>1, InLocation
<1>13. /\ mem' \in [Location -> Int] /\ mem'[s.loc] = s.val
       /\ \A l \in Location : l # s.loc => mem'[l] = mem[l]
  BY <1>12, MemAt
\* the slot of the element is the last the producer may use now
<1>14. Slots(h)'
  <2>1. ASSUME NEW x \in Block, NEW d \in h.freed[x] .. h.freed[x] + blockSize - 1
        PROVE  mem'[data(x, d % blockSize)] =
                   IF g.cleared[x] <= d /\ d < g.filled[x] THEN g.base[x] + d ELSE Nothing
    <3>1. /\ g.freed[x] \in Nat /\ g.filled[x] \in Nat /\ g.cleared[x] \in Nat
          /\ g.filled[x] < g.freed[x] + blockSize /\ blockSize \in Nat \ {0}
      BY <1>1, Chained
    <3>2. h.freed[x] = IF x = b THEN g.freed[b] + 1 ELSE g.freed[x]
      BY <1>1, <1>10 DEF History
    <3>3. d \in Int BY <3>1, <3>2
    <3>4. data(x, d % blockSize) \in Location /\ data(x, d % blockSize) # s.loc
      BY <1>1, <1>11, <3>3, InLocation, Locations
    <3>5. mem'[data(x, d % blockSize)] = mem[data(x, d % blockSize)] BY <1>13, <3>4
    <3>6. CASE d <= g.freed[x] + blockSize - 1
      <4>1. d \in g.freed[x] .. g.freed[x] + blockSize - 1 BY <3>1, <3>2, <3>6
      <4>2. mem[data(x, d % blockSize)] =
                IF g.cleared[x] <= d /\ d < g.filled[x] THEN g.base[x] + d ELSE Nothing
        BY <4>1 DEF Held, Slots
      <4> QED BY <3>5, <4>2
    <3>7. CASE d > g.freed[x] + blockSize - 1
      <4>1. x = b /\ d = g.freed[b] + blockSize BY <3>1, <3>2, <3>7
      <4>2. ~ (d < g.filled[x]) BY <3>1, <4>1
      <4>3. d % blockSize = g.freed[b] % blockSize
        <5>1. g.freed[b] \in Int /\ blockSize \in Nat \ {0} BY <1>4
        <5>2. (g.freed[b] + blockSize) % blockSize = g.freed[b] % blockSize
          BY ONLY <5>1, SlotStep
        <5> QED BY <4>1, <5>2
      <4>4. g.freed[b] \in g.freed[b] .. g.freed[b] + blockSize - 1 BY <1>4
      <4>5. mem[data(b, g.freed[b] % blockSize)] =
                IF g.cleared[b] <= g.freed[b] /\ g.freed[b] < g.filled[b]
                THEN g.base[b] + g.freed[b] ELSE Nothing
        BY <4>4 DEF Held, Slots
      <4>6. mem[data(b, g.freed[b] % blockSize)] = Nothing BY <1>4, <1>7, <4>5
      <4> QED BY <3>5, <4>1, <4>2, <4>3, <4>6
    <3> QED BY <3>1, <3>3, <3>6, <3>7
  <2> QED BY <1>10, <2>1, SameShape DEF Slots, Shows
<1>15. /\ Freed(h) = Freed(g) \ {s} /\ Shown(h) = Shown(g) /\ Entered(h) = Entered(g)
       /\ Filled(h) = Filled(g) /\ Cleared(h) = Cleared(g) /\ Left(h) = Left(g)
  BY <1>1, <1>3, <1>6, <1>8, NowFreedStores
<1>16. s.loc # done_ /\ s.loc # frontBlock /\ s.loc # tailBlock
  BY <1>11, Locations
<1>17. mem'[done_] = mem[done_] /\ mem'[frontBlock] = h.seenFront /\ mem'[tailBlock] = h.seenTail
  <2>1. done_ \in Location /\ frontBlock \in Location /\ tailBlock \in Location BY DEF Location
  <2> QED BY <1>10, <1>13, <1>16, <2>1 DEF Held, Indices
<1>18. \A x \in Block : /\ mem'[front(x)] = h.freed[x] % blockSize
                        /\ mem'[tail(x)] = h.shown[x] % blockSize
  <2> SUFFICES ASSUME NEW x \in Block
               PROVE  /\ mem'[front(x)] = h.freed[x] % blockSize
                      /\ mem'[tail(x)] = h.shown[x] % blockSize
    OBVIOUS
  <2>1. tail(x) # s.loc /\ (front(x) = s.loc => x = b) BY <1>11, Locations
  <2>2. front(x) \in Location /\ tail(x) \in Location BY DEF Location
  <2>3. h.freed[x] = IF x = b THEN c + 1 ELSE g.freed[x] BY <1>1, <1>6, <1>10 DEF History
  <2> QED BY <1>10, <1>11, <1>13, <2>1, <2>2, <2>3 DEF Held, Indices
<1>19. /\ stores'["producer"] = Filled(h) \cup Shown(h) \cup Entered(h) \cup Finished(h)'
       /\ stores'["consumer"] = Cleared(h) \cup Freed(h) \cup Left(h)
  <2>1. Finished(h)' = Finished(g) BY <1>10, <1>17 DEF Finished, Done, Shows
  <2>2. /\ stores'["consumer"] = stores["consumer"] \ {s}
        /\ stores'["producer"] = stores["producer"]
    BY DEF Shows, Held, Indices, Thread
  <2>3. s \notin Cleared(g) /\ s \notin Left(g) BY <1>1, Apart
  <2> QED BY <1>15, <2>1, <2>2, <2>3 DEF Held, Buffers
<1>20. /\ g.turn[g.seenFront] <= g.turn[h.seenFront]
       /\ g.turn[g.seenTail] <= g.turn[h.seenTail] /\ "consumer" \in Thread
  BY <1>1, <1>10 DEF History, Thread
<1>21. Moves(g, h) BY <1>8, NoMove DEF NowFreed, Same
<1> QED BY <1>21, <1>9, <1>10, <1>12, <1>14, <1>17, <1>18, <1>19, <1>20, Seen

\* A block is seen to be the first when the one before it is empty.
LEMMA ShowsLeft ==
    ASSUME NEW g, Held(g), NEW s \in Left(g), Shows("consumer", s)
    PROVE  \E h : Held(h)' /\ Moves(g, h)
<1>1. /\ Good(g) /\ g \in History /\ g.seenTail \in Block /\ g.tail \in Block
      /\ g.front \in Block /\ g.seenFront \in Block
  BY DEF Held, Good, History
<1>2. PICK b \in Block : /\ s = Leaving(g, b) /\ g.turn[g.seenFront] < g.turn[b]
                         /\ g.turn[b] <= g.turn[g.front]
  BY DEF Left
<1>3. g.base[b] \in Int /\ g.first[b] \in Int BY <1>1, Chained
<1>4. s.after = g.base[b] + g.first[b] - 1 + g.turn[b] BY <1>2 DEF Leaving
<1>5. /\ g.turn[b] \in Int /\ g.turn[g.seenFront] \in Int /\ g.turn[g.front] \in Int
      /\ g.turn[g.tail] \in Int /\ g.turn[g.front] <= g.turn[g.tail]
  BY <1>1, InTurn
<1>6. g.turn[g.seenFront] < g.turn[g.front] /\ g.seenFront # g.tail BY <1>2, <1>5
<1>7. /\ next(g.seenFront) \in Block /\ g.turn[next(g.seenFront)] = g.turn[g.seenFront] + 1
  BY <1>1, <1>6, InTurn, GoodShape DEF Shape
<1>8. b = next(g.seenFront)
  <2> DEFINE n == next(g.seenFront)
  <2> SUFFICES ASSUME b # n PROVE FALSE OBVIOUS
  <2>1. g.turn[n] # g.turn[b] BY <1>1, <1>7, InTurn
  <2>2. /\ g.turn[n] < g.turn[b] /\ g.turn[g.seenFront] <= g.turn[n]
        /\ g.turn[g.seenFront] < g.turn[n] /\ g.turn[n] <= g.turn[g.front]
        /\ g.turn[n] \in Int
    BY <1>2, <1>5, <1>7, <2>1
  <2>3. g.base[n] + g.first[n] < g.base[b] + g.first[b] BY <1>1, <1>7, <2>2, Earlier
  <2>4. Leaving(g, n) \in stores["consumer"]
    BY <1>7, <2>2 DEF Left, Held, Buffers
  <2>5. s.after <= Leaving(g, n).after BY <2>4 DEF Shows
  <2>6. s.after <= g.base[n] + g.first[n] - 1 + g.turn[n] BY <2>5 DEF Leaving
  <2>7. g.base[n] \in Int /\ g.first[n] \in Int BY <1>1, <1>7, Chained
  <2> HIDE DEF n
  <2> QED BY <1>3, <1>4, <1>5, <2>2, <2>3, <2>6, <2>7
<1>9. g.freed[g.seenFront] = g.put[g.seenFront]
  <2> DEFINE a == g.seenFront
  <2>1. /\ g.freed[a] \in Nat /\ g.put[a] \in Nat /\ g.base[a] \in Int
        /\ g.taken[a] = g.put[a] /\ g.freed[a] <= g.put[a]
    <3>1. g.taken[a] = g.put[a] BY <1>1, <1>6 DEF Good, Places
    <3> QED BY <1>1, <3>1, Chained
  <2> SUFFICES ASSUME g.freed[a] < g.put[a] PROVE FALSE BY <2>1
  <2>2. g.freed[a] \in g.freed[a] .. g.taken[a] - 1 BY <2>1
  <2>3. Freeing(g, a, g.freed[a]) \in Freed(g) BY <1>1, <2>2, Members
  <2>4. Freeing(g, a, g.freed[a]) \in stores["consumer"] BY <2>3 DEF Held, Buffers
  <2>5. s.after <= Freeing(g, a, g.freed[a]).after BY <2>4 DEF Shows
  <2>6. s.after <= g.base[a] + g.freed[a] + g.turn[a] BY <2>5 DEF Freeing
  <2>7. g.base[a] + g.put[a] <= g.base[b] + g.first[b]
    <3>1. g.turn[g.seenFront] <= g.turn[a] BY <1>5
    <3> QED BY <1>1, <1>2, <3>1, Earlier
  <2>8. g.turn[a] < g.turn[b] /\ g.turn[a] \in Int BY <1>2, <1>5
  <2> HIDE DEF a
  <2> QED BY <1>3, <1>4, <1>5, <2>1, <2>6, <2>7, <2>8
<1>10. PICK h : NowLeft(g, h, b) BY <1>1, NowLeftExists
<1>11. Good(h) BY <1>1, <1>6, <1>8, <1>9, <1>10, NowLeftGood
<1>12. /\ h.seenFront = b /\ h.shown = g.shown /\ h.freed = g.freed
       /\ h.cleared = g.cleared /\ h.base = g.base /\ h.filled = g.filled /\ h.turn = g.turn
       /\ h.seenTail = g.seenTail /\ h.sent = g.sent
       /\ Same(g, h, {"filled", "shown", "seenTail", "cleared", "freed", "seenFront"})
  BY <1>10 DEF NowLeft, Same
<1>13. s.loc = frontBlock /\ s.val = b BY <1>2 DEF Leaving
<1>14. s.loc \in Location /\ s.val \in Int BY <1>13 DEF Location, Block
<1>15. /\ mem' \in [Location -> Int] /\ mem'[s.loc] = s.val
       /\ \A l \in Location : l # s.loc => mem'[l] = mem[l]
  BY <1>14, MemAt
<1>16. Slots(h)'
  <2>1. \A x \in Block, i \in Slot : s.loc # data(x, i) BY <1>13, Locations
  <2> QED BY <1>12, <1>14, <2>1, SlotsSeen
<1>17. /\ Left(h) = Left(g) \ {s} /\ Filled(h) = Filled(g) /\ Shown(h) = Shown(g)
       /\ Cleared(h) = Cleared(g) /\ Freed(h) = Freed(g) /\ Entered(h) = Entered(g)
  BY <1>1, <1>2, <1>6, <1>8, <1>10, NowLeftStores
<1>18. s.loc # done_ /\ s.loc # tailBlock BY <1>13, Locations
<1>19. mem'[done_] = mem[done_] /\ mem'[frontBlock] = h.seenFront /\ mem'[tailBlock] = h.seenTail
  <2>1. done_ \in Location /\ tailBlock \in Location BY DEF Location
  <2> QED BY <1>12, <1>13, <1>15, <1>18, <2>1 DEF Held, Indices
<1>20. \A x \in Block : /\ mem'[front(x)] = h.freed[x] % blockSize
                        /\ mem'[tail(x)] = h.shown[x] % blockSize
  <2> SUFFICES ASSUME NEW x \in Block
               PROVE  /\ mem'[front(x)] = h.freed[x] % blockSize
                      /\ mem'[tail(x)] = h.shown[x] % blockSize
    OBVIOUS
  <2>1. front(x) # s.loc /\ tail(x) # s.loc BY <1>13, Locations
  <2>2. front(x) \in Location /\ tail(x) \in Location BY DEF Location
  <2> QED BY <1>12, <1>15, <2>1, <2>2 DEF Held, Indices
<1>21. /\ stores'["producer"] = Filled(h) \cup Shown(h) \cup Entered(h) \cup Finished(h)'
       /\ stores'["consumer"] = Cleared(h) \cup Freed(h) \cup Left(h)
  <2>1. Finished(h)' = Finished(g) BY <1>12, <1>19 DEF Finished, Done, Shows
  <2>2. /\ stores'["consumer"] = stores["consumer"] \ {s}
        /\ stores'["producer"] = stores["producer"]
    BY DEF Shows, Held, Indices, Thread
  <2>3. s \notin Cleared(g) /\ s \notin Freed(g) BY <1>1, Apart
  <2> QED BY <1>17, <2>1, <2>2, <2>3 DEF Held, Buffers
<1>22. /\ g.turn[g.seenFront] <= g.turn[h.seenFront]
       /\ g.turn[g.seenTail] <= g.turn[h.seenTail] /\ "consumer" \in Thread
  BY <1>1, <1>2, <1>5, <1>12 DEF History, Thread
<1>23. Moves(g, h) BY <1>10, NoMove DEF NowLeft, Same
<1> QED BY <1>23, <1>11, <1>12, <1>14, <1>16, <1>19, <1>20, <1>21, <1>22, Seen

LEMMA VisibleKeeps ==
    ASSUME NEW g, Held(g), NEW t \in Thread, Visible(t)
    PROVE  \E h : Held(h)' /\ Moves(g, h)
<1>1. PICK s \in stores[t] : Shows(t, s) BY DEF Visible, Shows
<1>2. CASE t = "producer"
  <2>1. s \in Filled(g) \cup Shown(g) \cup Entered(g) \cup Finished(g)
    BY <1>2 DEF Held, Buffers
  <2> QED BY <1>1, <1>2, <2>1, ShowsFilled, ShowsShown, ShowsEntered, ShowsFinished, NoMove
<1>3. CASE t = "consumer"
  <2>1. s \in Cleared(g) \cup Freed(g) \cup Left(g) BY <1>3 DEF Held, Buffers
  <2> QED BY <1>1, <1>3, <2>1, ShowsCleared, ShowsFreed, ShowsLeft
<1> QED BY <1>2, <1>3 DEF Thread

-----------------------------------------------------------------------------
(* The invariant *)

\* Nothing went through any block yet.
LEMMA InitHeld == ASSUME Init PROVE \E g : Held(g) /\ LastShown(g) = 0
<1> DEFINE N == initialBlockCount
           zero == [b \in Block |-> 0]
           turn == [b \in Block |-> IF b = 1 THEN 0 ELSE b - 1 - N]
           g == Hist(zero, zero, zero, zero, zero, zero, zero, zero,
                     [b \in Block |-> 1], [b \in Block |-> -1], turn, 1, 1, 1, 1, 0, 0)
<1>1. Shape /\ size \in Sizes BY Shaped DEF Init
<1>2. /\ 1 \in Block /\ \A b \in Block : b \in 1 .. N /\ next(b) \in Block
      /\ N \in Nat \ {0} /\ blockSize \in Nat /\ blockSize > 1
      /\ \A b \in Block : next(b) = IF b = N THEN 1 ELSE b + 1
  BY <1>1 DEF Shape, Block, next
<1>3. /\ zero \in [Block -> Nat] /\ turn \in [Block -> Int]
  BY <1>2
<1>4. /\ g.knownFront = zero /\ g.freed = zero /\ g.cleared = zero /\ g.taken = zero
      /\ g.knownTail = zero /\ g.shown = zero /\ g.put = zero /\ g.filled = zero
      /\ g.base = [b \in Block |-> 1] /\ g.first = [b \in Block |-> -1] /\ g.turn = turn
      /\ g.front = 1 /\ g.seenFront = 1 /\ g.tail = 1 /\ g.seenTail = 1
      /\ g.sent = 0 /\ g.got = 0
  BY DEF Hist
<1>5. g \in History
  <2> HIDE DEF zero, turn
  <2> QED BY <1>2, <1>3 DEF Hist, History
<1> HIDE DEF g
<1>6. Chain(g) BY <1>2, <1>4 DEF Chain
<1>7. Ring(g)
  <2>1. \A b \in Block : /\ turn[b] \in Int /\ turn[next(1)] <= turn[b] /\ turn[b] <= turn[1]
                         /\ b # 1 => turn[next(b)] = turn[b] + 1
    BY <1>2
  <2>2. \A a, b \in Block : turn[a] = turn[b] => a = b BY <1>2
  <2> HIDE DEF turn, N
  <2>3. turn[1] >= 0 /\ turn[1] <= turn[1]
    BY <1>2 DEF turn
  <2> QED BY <1>4, <2>1, <2>2, <2>3 DEF Ring
<1>8. \A b \in Block : g.turn[b] <= g.turn[1] /\ g.turn[b] \in Int /\ g.turn[1] \in Int
  BY <1>2, <1>4
<1>9. Places(g)
  <2> HIDE DEF turn, N
  <2> QED BY <1>2, <1>4, <1>8 DEF Places
<1>10. Numbered(g)
  <2> HIDE DEF turn, N
  <2> QED BY <1>2, <1>4, <1>8 DEF Numbered
<1>19. Packed(g)
  <2> HIDE DEF turn, N
  <2> QED BY <1>2, <1>4, <1>8 DEF Packed
<1>11. Good(g) BY <1>1, <1>5, <1>6, <1>7, <1>9, <1>10, <1>19 DEF Good
<1> HIDE DEF turn, N
<1>12. \A n \in Nat : n \in 0 .. blockSize - 1 => n % blockSize = n BY <1>2
<1>13. 0 % blockSize = 0 BY <1>2
<1>14. Indices(g)
  <2>1. \A b \in Block : front(b) \in Location /\ tail(b) \in Location BY DEF Location
  <2>2. frontBlock \in Location /\ tailBlock \in Location BY DEF Location
  <2> QED BY <1>4, <1>13, <2>1, <2>2, Locations DEF Init, Indices
<1>15. Slots(g)
  <2>1. ASSUME NEW b \in Block, NEW c \in Int
        PROVE  mem[data(b, c % blockSize)] = Nothing
    <3>1. data(b, c % blockSize) \in Location BY <1>11, InLocation
    <3> QED BY <3>1, Locations DEF Init, Nothing
  <2>2. \A b \in Block : g.freed[b] = 0 /\ g.cleared[b] = 0 /\ g.filled[b] = 0 BY <1>4
  <2>3. \A b \in Block : \A c \in g.freed[b] .. g.freed[b] + blockSize - 1 :
            c \in Int /\ ~ (g.cleared[b] <= c /\ c < g.filled[b])
    BY <1>2, <2>2
  <2> QED BY <2>1, <2>3 DEF Slots
<1>16. Buffers(g)
  <2>1. Between(zero, zero) = {} BY <1>2 DEF Between
  <2>2. Filled(g) = {} /\ Shown(g) = {} /\ Cleared(g) = {} /\ Freed(g) = {}
    BY <1>4, <2>1 DEF Filled, Shown, Cleared, Freed
  <2>3. Entered(g) = {} /\ Left(g) = {} BY <1>4, <1>8 DEF Entered, Left
  <2>4. Finished(g) = {} BY DEF Init, Finished
  <2>5. g.turn[g.front] = 0 BY <1>2, <1>4 DEF turn
  <2> QED BY <1>4, <2>2, <2>3, <2>4, <2>5 DEF Init, Buffers, Thread
<1>17. Found(g)
  <2>1. done_ \in Location BY DEF Location
  <2> QED BY <2>1, Locations DEF Init, Found
<1>18. LastShown(g) = 0 BY <1>2, <1>4 DEF LastShown, zero
<1> QED BY <1>11, <1>14, <1>15, <1>16, <1>17, <1>18 DEF Held

LEMMA NextHeld ==
    ASSUME NEW g, Held(g), [Next]_vars
    PROVE  \E h : Held(h)' /\ Moves(g, h)
<1>1. CASE TryEnqueue BY <1>1, TryEnqueueKeeps
<1>2. CASE CheckRing BY <1>2, CheckRingKeeps, NoMove
<1>3. CASE EnqueueNext BY <1>3, EnqueueNextKeeps
<1>4. CASE SetDone BY <1>4, SetDoneKeeps, NoMove
<1>5. CASE TryDequeue BY <1>5, TryDequeueKeeps
<1>6. CASE CheckTailBlock BY <1>6, CheckTailBlockKeeps, NoMove
<1>7. CASE LookAgain BY <1>7, LookAgainKeeps
<1>8. CASE Advance BY <1>8, AdvanceKeeps
<1>9. CASE Take BY <1>9, TakeKeeps
<1>10. CASE StartSize BY <1>10, StartSizeKeeps, NoMove
<1>11. CASE CountBlock BY <1>11, CountBlockKeeps, NoMove
<1>12. CASE \E t \in Thread : Visible(t) BY <1>12, VisibleKeeps
<1>13. CASE UNCHANGED vars
  <2>1. /\ UNCHANGED <<size, mem, buffers, localFront, localTail, got>>
        /\ producer' = producer /\ consumer' = consumer /\ mem' = mem /\ size' = size
    BY <1>13 DEF vars
  <2>2. Found(g)' BY <2>1, SameShape DEF Held, Found
  <2> QED BY <2>1, <2>2, QuietKeeps, NoMove
<1> QED
  BY <1>1, <1>2, <1>3, <1>4, <1>5, <1>6, <1>7, <1>8, <1>9, <1>10, <1>11, <1>12, <1>13
  DEF Next, Producer, Consumer

\* Whatever the threads do and in whatever order the fences let their stores
\* become visible, there is a history that the queue is what it says.
THEOREM QueueHasHistory == Spec => [](\E g : Held(g))
<1> DEFINE Some == \E g : Held(g)
<1>1. Init => Some BY InitHeld
<1>2. Some /\ [Next]_vars => Some' BY NextHeld
<1> HIDE DEF Some
<1>3. Spec => []Some BY <1>1, <1>2, PTL DEF Spec
<1> QED BY <1>3 DEF Some

\* No element is constructed in a slot that still holds one, and elements come
\* out in the order they went in, for every size, block size and number of items.
THEOREM ElementsHandedOver == Spec => []SlotsHandedOver
<1> DEFINE Some == \E g : Held(g)
<1>1. Some => SlotsHandedOver BY HeldHandedOver
<1>2. Spec => []Some BY QueueHasHistory
<1> HIDE DEF Some
<1> QED BY <1>1, <1>2, PTL

-----------------------------------------------------------------------------
(* Around the ring, and runs of numbers *)

\* Recursion from a block to the one before it ends at a, by the distance d.
Descends(B, a, before, d) ==
    \A b \in B : b # a => before[b] \in B /\ d[before[b]] < d[b]
Joining(B, a, items, before, f) ==
    [b \in B |-> IF b = a THEN items[b] ELSE f[before[b]] \o items[b]]

LEMMA Recursion ==
    ASSUME NEW B, NEW a, NEW items, NEW before, NEW M \in Nat, NEW d \in [B -> 0 .. M],
           Descends(B, a, before, d)
    PROVE  \E f : f = Joining(B, a, items, before, f)
<1> USE DEF Descends, Joining
<1> DEFINE Further(f) == [b \in B |-> IF b = a THEN items[b] ELSE f[before[b]] \o items[b]]
           Right(f, n) == \A b \in B : d[b] < n => f[b] = Further(f)[b]
           S == {n \in Nat : \E f : Right(f, n)}
<1>1. 0 \in S
  <2>1. Right(items, 0)
    OBVIOUS
  <2> HIDE DEF Right
  <2> QED BY <2>1
<1>2. ASSUME NEW n \in Nat, n \in S
      PROVE  n + 1 \in S
  <2>1. PICK f : Right(f, n)
    <3> HIDE DEF Right
    <3> QED BY <1>2
  <2>2. ASSUME NEW b \in B, d[b] < n + 1
        PROVE  Further(f)[b] = Further(Further(f))[b]
    <3>1. CASE b = a
      BY <3>1
    <3>2. CASE b # a
      <4>1. before[b] \in B /\ d[before[b]] < n
        <5>1. before[b] \in B /\ d[before[b]] < d[b] /\ d[b] \in 0 .. M /\ d[before[b]] \in 0 .. M
          BY <3>2
        <5> QED BY <2>2, <5>1
      <4>2. f[before[b]] = Further(f)[before[b]]
        BY <2>1, <4>1
      <4>3. /\ Further(f)[b] = f[before[b]] \o items[b]
            /\ Further(Further(f))[b] = Further(f)[before[b]] \o items[b]
        BY <3>2
      <4> QED BY <4>2, <4>3
    <3> QED BY <3>1, <3>2
  <2>3. Right(Further(f), n + 1)
    <3> HIDE DEF Further
    <3> QED BY <2>2
  <2> HIDE DEF Right, Further
  <2> QED BY <2>3
<1>3. M + 1 \in S
  <2> HIDE DEF S
  <2>1. Nat \subseteq S
    BY <1>1, <1>2, Induct
  <2> QED BY <2>1
<1>4. PICK f : Right(f, M + 1)
  <2> HIDE DEF Right
  <2> QED BY <1>3
<1>5. ASSUME NEW b \in B
      PROVE  f[b] = Further(f)[b]
  <2>1. d[b] < M + 1
    <3>1. d[b] \in 0 .. M
      OBVIOUS
    <3> QED BY <3>1
  <2> QED BY <1>4, <2>1
<1>6. Further(f) = Further(Further(f))
  BY <1>5
<1> QED BY <1>6

\* The numbers after k.
Run(k, n) == [i \in 1 .. n |-> k + i]

LEMMA RunFacts ==
    ASSUME NEW k \in Nat, NEW n \in Nat
    PROVE  /\ Run(k, n) \in Seq(Nat) /\ Len(Run(k, n)) = n
           /\ \A i \in 1 .. n : Run(k, n)[i] = k + i
BY DEF Run

LEMMA SameRun ==
    ASSUME NEW k \in Nat, NEW n \in Nat, NEW s \in Seq(Nat), Len(s) = n,
           \A i \in 1 .. n : s[i] = k + i
    PROVE  s = Run(k, n)
<1>1. DOMAIN s = 1 .. n /\ s = [i \in 1 .. n |-> s[i]]
  OBVIOUS
<1> QED BY <1>1 DEF Run

LEMMA RunJoins ==
    ASSUME NEW k \in Nat, NEW m \in Nat, NEW n \in Nat
    PROVE  Run(k, m) \o Run(k + m, n) = Run(k, m + n)
<1> DEFINE r == Run(k, m)
           s == Run(k + m, n)
<1>1. r \in Seq(Nat) /\ Len(r) = m /\ \A i \in 1 .. m : r[i] = k + i
  BY RunFacts
<1>2. s \in Seq(Nat) /\ Len(s) = n /\ \A i \in 1 .. n : s[i] = k + m + i
  <2>1. k + m \in Nat
    OBVIOUS
  <2> QED BY <2>1, RunFacts
<1> HIDE DEF r, s
<1>3. r \o s \in Seq(Nat) /\ Len(r \o s) = m + n
  BY <1>1, <1>2
<1>4. \A i \in 1 .. m + n : (r \o s)[i] = k + i
  <2> SUFFICES ASSUME NEW i \in 1 .. m + n PROVE (r \o s)[i] = k + i
    OBVIOUS
  <2>1. CASE i <= m
    BY <1>1, <1>2, <2>1
  <2>2. CASE ~(i <= m)
    <3>1. (r \o s)[i] = s[i - m]
      BY <1>1, <1>2, <2>2
    <3>2. i - m \in 1 .. n
      BY <2>2
    <3>3. s[i - m] = k + m + (i - m)
      BY <1>2, <3>2
    <3> QED BY <3>1, <3>2, <3>3
  <2> QED BY <2>1, <2>2
<1>5. r \o s = Run(k, m + n)
  <2>1. m + n \in Nat
    OBVIOUS
  <2> QED BY <1>3, <1>4, <2>1, SameRun
<1> QED BY <1>5 DEF r, s

LEMMA RunGrows ==
    ASSUME NEW k \in Nat, NEW n \in Nat
    PROVE  Append(Run(k, n), k + n + 1) = Run(k, n + 1)
<1> DEFINE r == Run(k, n)
           s == Append(r, k + n + 1)
<1>1. r \in Seq(Nat) /\ Len(r) = n /\ \A i \in 1 .. n : r[i] = k + i
  BY RunFacts
<1> HIDE DEF r
<1>2. s \in Seq(Nat) /\ Len(s) = n + 1 /\ \A i \in 1 .. n + 1 : s[i] = k + i
  BY <1>1
<1>3. n + 1 \in Nat
  OBVIOUS
<1> HIDE DEF s
<1>4. s = Run(k, n + 1)
  BY <1>2, <1>3, SameRun
<1> QED BY <1>4 DEF r, s

LEMMA RunShrinks ==
    ASSUME NEW k \in Nat, NEW n \in Nat, n > 0
    PROVE  /\ Run(k, n) # <<>> /\ Head(Run(k, n)) = k + 1
           /\ Tail(Run(k, n)) = Run(k + 1, n - 1)
<1> DEFINE r == Run(k, n)
           s == Tail(r)
<1>1. r \in Seq(Nat) /\ Len(r) = n /\ \A i \in 1 .. n : r[i] = k + i
  BY RunFacts
<1> HIDE DEF r
<1>2. r # <<>> /\ Head(r) = k + 1
  BY <1>1
<1>3. s \in Seq(Nat) /\ Len(s) = n - 1 /\ \A i \in 1 .. n - 1 : s[i] = (k + 1) + i
  BY <1>1, <1>2
<1>4. n - 1 \in Nat /\ k + 1 \in Nat
  OBVIOUS
<1> HIDE DEF s
<1>5. s = Run(k + 1, n - 1)
  BY <1>3, <1>4, SameRun
<1> QED BY <1>2, <1>5 DEF r, s

-----------------------------------------------------------------------------
(* What is inside: Contents *)

\* the block before b
Before(b) == CHOOSE p \in Block : next(p) = b

\* what a block adds to Contents, and Contents up to a block
Items(b) ==
    LET f == Load("consumer", front(b))
    IN  [i \in 1 .. (mem[tail(b)] - f) % blockSize |->
            mem[data(b, (f + i - 1) % blockSize)]]
UpTo == CHOOSE f : f = [b \in Block |-> IF b = FrontBlock THEN Items(b)
                                        ELSE f[Before(b)] \o Items(b)]

LEMMA ContentsUpTo == Contents = UpTo[mem[tailBlock]]
BY DEF Contents, UpTo, Before, Items, FrontBlock

LEMMA BeforeFacts ==
    ASSUME Shape, NEW b \in Block
    PROVE  Before(b) \in Block /\ next(Before(b)) = b
<1>1. \E p \in Block : next(p) = b
  <2>1. initialBlockCount \in Nat \ {0} /\ b \in 1 .. initialBlockCount BY DEF Shape, Block
  <2>2. CASE b = 1
    <3>1. initialBlockCount \in Block BY <2>1 DEF Block
    <3> QED BY <2>2, <3>1 DEF next
  <2>3. CASE b # 1
    <3>1. b - 1 \in Block /\ b - 1 # initialBlockCount /\ (b - 1) + 1 = b BY <2>1, <2>3 DEF Block
    <3> QED BY <3>1 DEF next
  <2> QED BY <2>2, <2>3
<1> QED BY <1>1 DEF Before

\* how far b is from a, around the ring
Distance(a, b) == IF a <= b THEN b - a ELSE b - a + initialBlockCount

LEMMA DistanceFacts ==
    ASSUME Shape, NEW a \in Block, NEW b \in Block
    PROVE  /\ Distance(a, b) \in 0 .. initialBlockCount - 1
           /\ Distance(a, b) = 0 <=> a = b
           /\ next(b) # a => Distance(a, next(b)) = Distance(a, b) + 1
<1>1. /\ initialBlockCount \in Nat \ {0}
      /\ a \in 1 .. initialBlockCount /\ b \in 1 .. initialBlockCount
  BY DEF Shape, Block
<1>2. next(b) = IF b = initialBlockCount THEN 1 ELSE b + 1 BY DEF next
<1> QED BY <1>1, <1>2 DEF Distance

LEMMA UpToIs ==
    ASSUME NEW g, Held(g), NEW b \in Block
    PROVE  UpTo[b] = IF b = g.front THEN Items(b) ELSE UpTo[Before(b)] \o Items(b)
<1> DEFINE items == [x \in Block |-> Items(x)]
           before == [x \in Block |-> Before(x)]
           d == [x \in Block |-> Distance(g.front, x)]
           G(f) == Joining(Block, g.front, items, before, f)
           H(f) == [x \in Block |-> IF x = FrontBlock THEN Items(x) ELSE f[Before(x)] \o Items(x)]
<1>1. /\ g.front \in Block /\ Shape /\ initialBlockCount \in Nat
  BY GoodShape DEF Held, Good, History, Shape
<1>2. d \in [Block -> 0 .. initialBlockCount]
  <2>1. \A x \in Block : Distance(g.front, x) \in 0 .. initialBlockCount
    BY <1>1, DistanceFacts
  <2> QED BY <2>1
<1>3. \A x \in Block : x # g.front => before[x] \in Block /\ d[before[x]] < d[x]
  <2> SUFFICES ASSUME NEW x \in Block, x # g.front
               PROVE  before[x] \in Block /\ d[before[x]] < d[x]
    OBVIOUS
  <2>1. Before(x) \in Block /\ next(Before(x)) = x BY <1>1, BeforeFacts
  <2>2. Distance(g.front, x) = Distance(g.front, Before(x)) + 1
    BY <1>1, <2>1, DistanceFacts
  <2>3. Distance(g.front, Before(x)) \in 0 .. initialBlockCount - 1
    BY <1>1, <2>1, DistanceFacts
  <2>4. before[x] = Before(x) /\ d[before[x]] = Distance(g.front, Before(x))
        /\ d[x] = Distance(g.front, x)
    BY <2>1
  <2> HIDE DEF before, d
  <2> QED BY <1>1, <2>1, <2>2, <2>3, <2>4
<1>4. \E f : f = G(f)
  <2> HIDE DEF items, before, d
  <2>1. Descends(Block, g.front, before, d) BY <1>3 DEF Descends
  <2> QED BY <1>1, <1>2, <2>1, Recursion
<1>5. \A f : G(f) = H(f)
  BY ReadsFrontBlock DEF Joining
<1>6. \E f : f = H(f)
  <2> HIDE DEF G, H
  <2> QED BY <1>4, <1>5
<1>7. UpTo = H(UpTo)
  <2>1. UpTo = CHOOSE f : f = H(f) BY DEF UpTo
  <2> HIDE DEF H
  <2> QED BY <1>6, <2>1
<1>8. H(UpTo)[b] = IF b = g.front THEN Items(b) ELSE UpTo[Before(b)] \o Items(b)
  BY ReadsFrontBlock
<1> HIDE DEF H
<1> QED BY <1>7, <1>8

\* What a block adds: the elements that are counted in it.
LEMMA ItemsAre ==
    ASSUME NEW g, Held(g), NEW b \in Block, g.turn[b] <= g.turn[g.seenTail],
           g.base[b] + g.taken[b] \in Nat \ {0}
    PROVE  /\ Items(b) = Run(g.base[b] + g.taken[b] - 1, g.shown[b] - g.taken[b])
           /\ g.shown[b] - g.taken[b] \in 0 .. blockSize - 1
<1> DEFINE t == g.taken[b]
           n == g.shown[b] - t
           f == Load("consumer", front(b))
<1>1. Good(g) BY DEF Held
<1>2. /\ t \in Nat /\ g.shown[b] \in Nat /\ g.base[b] \in Int /\ g.freed[b] \in Nat
      /\ g.cleared[b] \in Nat /\ g.filled[b] \in Nat /\ blockSize \in Nat \ {0}
      /\ g.cleared[b] <= t /\ g.freed[b] <= t /\ t <= g.shown[b]
      /\ g.shown[b] < g.freed[b] + blockSize
  BY <1>1, Chained
<1>3. g.shown[b] <= g.filled[b] BY <1>1 DEF Good, Places
<1>4. f = t % blockSize /\ mem[tail(b)] = g.shown[b] % blockSize
  BY ReadsFront DEF Held, Indices
<1>5. (mem[tail(b)] - f) % blockSize = n /\ n \in 0 .. blockSize - 1
  <2>1. t \in Int /\ g.shown[b] \in Int /\ t <= g.shown[b] /\ g.shown[b] < t + blockSize
        /\ blockSize \in Nat \ {0}
    BY <1>2
  <2>2. ((g.shown[b] % blockSize) - (t % blockSize)) % blockSize = n
    <3> HIDE DEF t
    <3> QED BY <2>1, SlotMinus
  <2> QED BY <1>4, <2>1, <2>2
<1>6. ASSUME NEW i \in 1 .. n
      PROVE  mem[data(b, (f + i - 1) % blockSize)] = g.base[b] + t - 1 + i
  <2> DEFINE c == t + (i - 1)
  <2>1. /\ i \in Int /\ i - 1 \in Int /\ t \in Int /\ c \in Int /\ f \in Int
        /\ f + i - 1 = f + (i - 1)
    <3>1. f \in Int BY <1>2, <1>4
    <3> HIDE DEF f
    <3> QED BY <1>2, <1>5, <3>1
  <2>2. (f + i - 1) % blockSize = c % blockSize
    <3>1. ((t % blockSize) + (i - 1)) % blockSize = c % blockSize
      <4> HIDE DEF t
      <4> QED BY <1>2, <2>1, SlotPlus
    <3> QED BY <1>4, <2>1, <3>1
  <2>3. /\ c \in g.freed[b] .. g.freed[b] + blockSize - 1
        /\ g.cleared[b] <= c /\ c < g.filled[b]
    BY <1>2, <1>3, <1>5
  <2>4. mem[data(b, c % blockSize)] = g.base[b] + c
    BY <2>3 DEF Held, Slots
  <2>5. g.base[b] + c = g.base[b] + t - 1 + i
    BY <1>2, <2>1
  <2> QED BY <2>2, <2>4, <2>5
<1> HIDE DEF f, t, n
<1>7. Items(b) = [i \in 1 .. n |-> mem[data(b, (f + i - 1) % blockSize)]]
  BY <1>5 DEF Items, f
<1>8. Items(b) = Run(g.base[b] + t - 1, n)
  BY <1>6, <1>7 DEF Run
<1> QED BY <1>5, <1>8 DEF t, n

\* how many elements there are from the first that is not dequeued to the last
\* that the tail of b shows
Through(g, b) == g.base[b] + g.shown[b] - 1 - g.got

Listed(g, b) ==
    /\ UpTo[b] = Run(g.got, Through(g, b))
    /\ Through(g, b) \in Nat
    /\ Through(g, b) <= (blockSize - 1) * (g.turn[b] - g.turn[g.front] + 1)

LEMMA FirstListed == ASSUME NEW g, Held(g) PROVE Listed(g, g.front)
<1> DEFINE b == g.front
<1>1. Good(g) /\ b \in Block BY DEF Held, Good, History
<1>2. /\ g.base[b] \in Int /\ g.taken[b] \in Nat /\ g.shown[b] \in Nat /\ g.got \in Nat
      /\ g.base[b] + g.taken[b] = g.got + 1 /\ g.turn[b] \in Int
      /\ blockSize \in Nat \ {0} /\ g.turn[b] <= g.turn[g.seenTail]
  <2>1. g.base[b] + g.taken[b] = g.got + 1 BY <1>1 DEF Good, Numbered
  <2>2. g.got \in Nat BY <1>1 DEF Good, History
  <2>3. g.turn[b] <= g.turn[g.seenTail] BY <1>1 DEF Good, Ring
  <2> QED BY <1>1, <2>1, <2>2, <2>3, Chained
<1> HIDE DEF b
<1>3. /\ Items(b) = Run(g.base[b] + g.taken[b] - 1, g.shown[b] - g.taken[b])
      /\ g.shown[b] - g.taken[b] \in 0 .. blockSize - 1
  <2>1. g.base[b] + g.taken[b] \in Nat \ {0} BY <1>2
  <2> QED BY <1>1, <1>2, <2>1, ItemsAre
<1>4. g.base[b] + g.taken[b] - 1 = g.got /\ g.shown[b] - g.taken[b] = Through(g, b)
  BY <1>2 DEF Through
<1>5. UpTo[b] = Run(g.got, Through(g, b))
  BY <1>1, <1>3, <1>4, UpToIs DEF b
<1>6. (blockSize - 1) * (g.turn[b] - g.turn[g.front] + 1) = blockSize - 1
  <2>1. g.turn[b] - g.turn[g.front] + 1 = 1 BY <1>2 DEF b
  <2> QED BY <1>2, <2>1
<1>7. Through(g, b) \in Nat /\ Through(g, b) <= blockSize - 1
  BY <1>2, <1>3, <1>4
<1> QED BY <1>5, <1>6, <1>7 DEF Listed, b

LEMMA NextListed ==
    ASSUME NEW g, Held(g), NEW b \in Block, NEW p \in Block, next(p) = b, p = Before(b),
           g.turn[g.front] < g.turn[b], g.turn[b] <= g.turn[g.seenTail],
           g.turn[b] = g.turn[p] + 1, Listed(g, p)
    PROVE  Listed(g, b)
<1>1. Good(g) /\ g.front \in Block /\ g.seenTail \in Block /\ g.tail \in Block /\ g.got \in Nat
  BY DEF Held, Good, History
<1>2. /\ g.base[b] \in Int /\ g.taken[b] \in Nat /\ g.shown[b] \in Nat /\ g.turn[b] \in Int
      /\ g.base[p] \in Int /\ g.put[p] \in Nat /\ g.turn[p] \in Int /\ g.turn[g.front] \in Int
      /\ g.turn[g.seenTail] \in Int /\ blockSize \in Nat \ {0} /\ g.turn[g.tail] \in Int
      /\ g.turn[b] <= g.turn[g.tail]
  BY <1>1, Chained, InTurn
<1>3. /\ g.turn[g.front] <= g.turn[p] /\ g.turn[p] < g.turn[g.tail]
      /\ g.turn[p] < g.turn[g.seenTail] /\ b # g.front
  BY <1>2
<1>4. g.shown[p] = g.put[p] BY <1>1, <1>3 DEF Good, Places
<1>5. g.base[p] + g.put[p] = g.base[b] + g.taken[b]
  BY <1>1, <1>3 DEF Good, Numbered
<1>6. /\ UpTo[p] = Run(g.got, Through(g, p)) /\ Through(g, p) \in Nat
      /\ Through(g, p) <= (blockSize - 1) * (g.turn[p] - g.turn[g.front] + 1)
  BY DEF Listed
<1>7. g.base[b] + g.taken[b] - 1 = g.got + Through(g, p)
  BY <1>1, <1>2, <1>4, <1>5 DEF Through
<1>8. g.base[b] + g.taken[b] \in Nat \ {0}
  BY <1>1, <1>2, <1>6, <1>7
<1>9. /\ Items(b) = Run(g.got + Through(g, p), g.shown[b] - g.taken[b])
      /\ g.shown[b] - g.taken[b] \in 0 .. blockSize - 1
  BY <1>7, <1>8, ItemsAre
<1>10. Through(g, b) = Through(g, p) + (g.shown[b] - g.taken[b])
  BY <1>1, <1>2, <1>7, <1>6 DEF Through
<1>11. UpTo[b] = Run(g.got, Through(g, b))
  <2>1. UpTo[b] = UpTo[p] \o Items(b) BY <1>3, UpToIs
  <2>2. g.shown[b] - g.taken[b] \in Nat BY <1>2, <1>9
  <2>3. Run(g.got, Through(g, p)) \o Run(g.got + Through(g, p), g.shown[b] - g.taken[b])
            = Run(g.got, Through(g, p) + (g.shown[b] - g.taken[b]))
    BY <1>1, <1>6, <2>2, RunJoins
  <2> QED BY <1>6, <1>9, <1>10, <2>1, <2>3
<1>12. Through(g, b) \in Nat /\ Through(g, b) <= Through(g, p) + (blockSize - 1)
  BY <1>2, <1>6, <1>9, <1>10
<1>13. (blockSize - 1) * (g.turn[p] - g.turn[g.front] + 1) + (blockSize - 1)
           = (blockSize - 1) * (g.turn[b] - g.turn[g.front] + 1)
  <2> DEFINE m == blockSize - 1
             k == g.turn[p] - g.turn[g.front] + 1
  <2>1. m \in Int /\ k \in Int /\ g.turn[b] - g.turn[g.front] + 1 = k + 1 BY <1>2
  <2> HIDE DEF m, k
  <2>2. m * k + m = m * (k + 1) BY <2>1
  <2> QED BY <2>1, <2>2 DEF m, k
<1>14. Through(g, b) <= (blockSize - 1) * (g.turn[b] - g.turn[g.front] + 1)
  <2> DEFINE x == (blockSize - 1) * (g.turn[p] - g.turn[g.front] + 1)
             y == (blockSize - 1) * (g.turn[b] - g.turn[g.front] + 1)
  <2>1. x \in Int /\ y \in Int BY <1>2
  <2>2. x + (blockSize - 1) = y /\ Through(g, p) <= x BY <1>6, <1>13
  <2> HIDE DEF x, y
  <2>3. Through(g, b) <= y BY <1>2, <1>6, <1>12, <2>1, <2>2
  <2> QED BY <2>3 DEF y
<1> QED BY <1>11, <1>12, <1>14 DEF Listed

LEMMA AllListed ==
    ASSUME NEW g, Held(g), NEW b \in Block,
           g.turn[g.front] <= g.turn[b], g.turn[b] <= g.turn[g.seenTail]
    PROVE  Listed(g, b)
<1> DEFINE At(k, x) == /\ g.turn[x] = g.turn[g.front] + k
                       /\ g.turn[x] <= g.turn[g.seenTail]
           S == {k \in Nat : \A x \in Block : At(k, x) => Listed(g, x)}
<1>1. /\ Good(g) /\ Shape /\ g.front \in Block /\ g.seenTail \in Block /\ g.tail \in Block
      /\ \A x \in Block : g.turn[x] \in Int
  BY GoodShape, InTurn DEF Held, Good, History
<1>2. 0 \in S
  <2> SUFFICES ASSUME NEW x \in Block, At(0, x) PROVE Listed(g, x)
    OBVIOUS
  <2>1. g.turn[x] = g.turn[g.front] BY <1>1
  <2>2. x = g.front BY <1>1, <2>1, InTurn
  <2> QED BY <2>2, FirstListed
<1>3. ASSUME NEW k \in Nat, k \in S
      PROVE  k + 1 \in S
  <2> SUFFICES ASSUME NEW x \in Block, At(k + 1, x) PROVE Listed(g, x)
    OBVIOUS
  <2>1. Before(x) \in Block /\ next(Before(x)) = x BY <1>1, BeforeFacts
  <2>2. PICK p \in Block : p = Before(x) /\ next(p) = x BY <2>1
  <2>3. g.turn[x] = g.turn[g.front] + (k + 1) /\ g.turn[g.front] < g.turn[x]
        /\ g.turn[x] <= g.turn[g.seenTail]
    BY <1>1
  <2>4. p # g.tail
    <3>1. g.turn[next(g.tail)] <= g.turn[g.front] BY <1>1 DEF Good, Ring
    <3> QED BY <1>1, <2>2, <2>3, <3>1
  <2>5. g.turn[x] = g.turn[p] + 1 BY <1>1, <2>2, <2>4, InTurn
  <2>6. At(k, p) BY <1>1, <2>3, <2>5
  <2>7. Listed(g, p)
    <3> HIDE DEF At
    <3> QED BY <1>3, <2>6
  <2> QED BY <2>2, <2>3, <2>5, <2>7, NextListed
<1>4. g.turn[b] - g.turn[g.front] \in S
  <2>1. g.turn[b] - g.turn[g.front] \in Nat BY <1>1
  <2> HIDE DEF S
  <2>2. Nat \subseteq S BY <1>2, <1>3, Induct
  <2> QED BY <2>1, <2>2
<1>5. At(g.turn[b] - g.turn[g.front], b) BY <1>1
<1> HIDE DEF At
<1> QED BY <1>4, <1>5

\* The producer is never as much as a round ahead.
LEMMA Rounds ==
    ASSUME NEW g, Good(g)
    PROVE  g.turn[g.tail] - g.turn[next(g.tail)] <= initialBlockCount - 1
<1> DEFINE a == next(g.tail)
           S == {k \in Nat : \A x \in Block : Distance(a, x) = k => g.turn[x] = g.turn[a] + k}
<1>1. /\ Shape /\ g.tail \in Block /\ a \in Block /\ initialBlockCount \in Nat
      /\ \A x \in Block : g.turn[x] \in Int
  BY GoodShape, InTurn DEF Good, History, Shape
<1> HIDE DEF a
<1>2. 0 \in S
  <2> SUFFICES ASSUME NEW x \in Block, Distance(a, x) = 0 PROVE g.turn[x] = g.turn[a] + 0
    OBVIOUS
  <2>1. x = a BY <1>1, DistanceFacts
  <2> QED BY <1>1, <2>1
<1>3. ASSUME NEW k \in Nat, k \in S
      PROVE  k + 1 \in S
  <2> SUFFICES ASSUME NEW x \in Block, Distance(a, x) = k + 1
               PROVE  g.turn[x] = g.turn[a] + (k + 1)
    OBVIOUS
  <2>1. PICK p \in Block : next(p) = x BY <1>1, BeforeFacts
  <2>2. x # a
    <3>1. x = a => Distance(a, x) = 0 BY <1>1, DistanceFacts
    <3> QED BY <3>1
  <2>3. Distance(a, x) = Distance(a, p) + 1 /\ Distance(a, p) \in 0 .. initialBlockCount - 1
    BY <1>1, <2>1, <2>2, DistanceFacts
  <2>4. Distance(a, p) = k BY <1>1, <2>3
  <2>5. g.turn[p] = g.turn[a] + k BY <1>3, <2>4
  <2>6. p # g.tail BY <2>1, <2>2 DEF a
  <2>7. g.turn[x] = g.turn[p] + 1 BY <1>1, <2>1, <2>6, InTurn
  <2> QED BY <1>1, <2>5, <2>7
<1>4. Distance(a, g.tail) \in 0 .. initialBlockCount - 1 BY <1>1, DistanceFacts
<1>5. Distance(a, g.tail) \in S
  <2>1. Distance(a, g.tail) \in Nat BY <1>1, <1>4
  <2> HIDE DEF S
  <2>2. Nat \subseteq S BY <1>2, <1>3, Induct
  <2> QED BY <2>1, <2>2
<1>6. g.turn[g.tail] = g.turn[a] + Distance(a, g.tail) BY <1>1, <1>5
<1>7. g.turn[g.tail] - g.turn[a] <= initialBlockCount - 1 BY <1>1, <1>4, <1>6
<1> QED BY <1>7 DEF a

\* The queue holds the elements after the last that came out up to the last that
\* is shown, and they are never more than the ring has room for.
LEMMA Holds ==
    ASSUME NEW g, Held(g)
    PROVE  /\ Contents = Run(g.got, LastShown(g) - g.got)
           /\ got = Run(0, g.got) /\ g.got \in Nat /\ LastShown(g) - g.got \in Nat
           /\ LastShown(g) - g.got <= initialBlockCount * (blockSize - 1)
<1>1. /\ Good(g) /\ Shape /\ g.front \in Block /\ g.seenTail \in Block /\ g.tail \in Block
      /\ g.got \in Nat /\ \A x \in Block : g.turn[x] \in Int
      /\ next(g.tail) \in Block
  BY GoodShape, InTurn DEF Held, Good, History, Shape
<1>2. /\ g.turn[g.front] <= g.turn[g.seenTail] /\ g.turn[g.seenTail] <= g.turn[g.tail]
      /\ g.turn[next(g.tail)] <= g.turn[g.front]
  BY <1>1 DEF Good, Ring
<1>3. Listed(g, g.seenTail)
  <2>1. g.turn[g.seenTail] <= g.turn[g.seenTail] BY <1>1
  <2> QED BY <1>1, <1>2, <2>1, AllListed
<1>4. Through(g, g.seenTail) = LastShown(g) - g.got
  <2>1. g.base[g.seenTail] \in Int /\ g.shown[g.seenTail] \in Nat BY <1>1, Chained
  <2> QED BY <1>1, <2>1 DEF Through, LastShown
<1>5. Contents = Run(g.got, LastShown(g) - g.got) /\ LastShown(g) - g.got \in Nat
  BY <1>3, <1>4, ContentsUpTo DEF Listed, Held, Indices
<1>6. LastShown(g) - g.got <= initialBlockCount * (blockSize - 1)
  <2> DEFINE m == blockSize - 1
             k == g.turn[g.seenTail] - g.turn[g.front] + 1
             n == LastShown(g) - g.got
  <2>1. m \in Nat /\ k \in Int /\ initialBlockCount \in Nat /\ n \in Nat
    BY <1>1, <1>5 DEF Shape
  <2>2. n <= m * k BY <1>3, <1>4 DEF Listed
  <2>3. k <= initialBlockCount
    <3>1. g.turn[g.tail] - g.turn[next(g.tail)] <= initialBlockCount - 1 BY <1>1, Rounds
    <3> QED BY <1>1, <1>2, <2>1, <3>1
  <2> HIDE DEF m, k, n
  <2>4. m * k <= m * initialBlockCount
    <3>1. m * (initialBlockCount - k) \in Nat
      <4>1. initialBlockCount - k \in Nat BY <2>1, <2>3
      <4> QED BY <2>1, <4>1
    <3>2. m * (initialBlockCount - k) = m * initialBlockCount - m * k BY <2>1
    <3>3. m * initialBlockCount \in Int /\ m * k \in Int BY <2>1
    <3> QED BY <3>1, <3>2, <3>3
  <2>5. m * initialBlockCount = initialBlockCount * m BY <2>1
  <2>6. n <= initialBlockCount * m
    <3>1. m * initialBlockCount \in Int /\ m * k \in Int BY <2>1
    <3> QED BY <2>1, <2>2, <2>4, <2>5, <3>1
  <2> QED BY <2>6 DEF m, n
<1>7. got = Run(0, g.got)
  <2>1. got \in Seq(Int) /\ Len(got) = g.got /\ \A i \in DOMAIN got : got[i] = i
    BY DEF Held, Indices
  <2>2. DOMAIN got = 1 .. g.got /\ got = [i \in 1 .. g.got |-> got[i]] BY <2>1
  <2>3. ASSUME NEW i \in 1 .. g.got
        PROVE  got[i] = 0 + i
    <3>1. i \in Int /\ 0 + i = i BY <1>1
    <3>2. i \in DOMAIN got BY <2>2
    <3> QED BY <2>1, <3>1, <3>2
  <2> QED BY <2>2, <2>3 DEF Run
<1> QED BY <1>1, <1>5, <1>6, <1>7

-----------------------------------------------------------------------------
(* The queue implements FIFO *)

\* what every history says of the queue
Described ==
    \A g : Held(g) =>
        /\ Contents = Run(g.got, LastShown(g) - g.got)
        /\ got = Run(0, g.got) /\ g.got \in Nat /\ LastShown(g) - g.got \in Nat
        /\ LastShown(g) - g.got <= initialBlockCount * (blockSize - 1)
        /\ initialBlockCount * (blockSize - 1) \in Nat /\ LastShown(g) \in Int

LEMMA AlwaysDescribed == Described
<1> SUFFICES ASSUME NEW g, Held(g)
             PROVE  /\ Contents = Run(g.got, LastShown(g) - g.got)
                    /\ got = Run(0, g.got) /\ g.got \in Nat /\ LastShown(g) - g.got \in Nat
                    /\ LastShown(g) - g.got <= initialBlockCount * (blockSize - 1)
                    /\ initialBlockCount * (blockSize - 1) \in Nat /\ LastShown(g) \in Int
  BY DEF Described
<1>1. Shape BY GoodShape DEF Held
<1>2. initialBlockCount * (blockSize - 1) \in Nat
  <2> DEFINE n == initialBlockCount
             m == blockSize - 1
  <2>1. n \in Nat /\ m \in Nat BY <1>1 DEF Shape
  <2> HIDE DEF n, m
  <2>2. n * m \in Nat BY <2>1
  <2> QED BY <2>2 DEF n, m
<1>3. LastShown(g) \in Int
  <2>1. g.seenTail \in Block /\ Good(g) BY DEF Held, Good, History
  <2>2. g.base[g.seenTail] \in Int /\ g.shown[g.seenTail] \in Nat BY <2>1, Chained
  <2> QED BY <2>2 DEF LastShown
<1> QED BY <1>2, <1>3, Holds

\* A queue of the numbers from m + 1 to m + n, of which m came out, and what it
\* may become.
LEMMA FIFOSteps ==
    ASSUME NEW m \in Nat, NEW n \in Nat, NEW k \in Nat, NEW l \in Nat,
           Contents = Run(m, n), got = Run(0, m), Contents' = Run(k, l), got' = Run(0, k),
           l <= initialBlockCount * (blockSize - 1),
           initialBlockCount * (blockSize - 1) \in Nat,
           UNCHANGED (initialBlockCount * (blockSize - 1)),
           \/ k = m /\ l = n
           \/ k = m /\ l = n + 1
           \/ k = m + 1 /\ n = l + 1
    PROVE  \/ Abstract!Enqueue \/ Abstract!Dequeue
           \/ UNCHANGED <<initialBlockCount * (blockSize - 1), Contents, got>>
<1> DEFINE room == initialBlockCount * (blockSize - 1)
<1>1. CASE k = m /\ l = n
  BY <1>1
<1>2. CASE k = m /\ l = n + 1
  <2>1. Len(Contents) = n /\ Len(got) = m
    BY RunFacts
  <2>2. Contents' = Append(Contents, Len(got) + Len(Contents) + 1)
    BY <1>2, <2>1, RunGrows
  <2>3. Len(Contents) < room
    <3> HIDE DEF room
    <3>1. room \in Nat /\ l <= room BY DEF room
    <3> QED BY <1>2, <2>1, <3>1
  <2>4. UNCHANGED <<room, got>>
    BY <1>2
  <2> QED BY <2>2, <2>3, <2>4 DEF Abstract!Enqueue
<1>3. CASE k = m + 1 /\ n = l + 1
  <2>1. /\ Contents # <<>> /\ Head(Contents) = m + 1 /\ Tail(Contents) = Run(m + 1, n - 1)
    <3>1. n > 0 BY <1>3
  <3>2. /\ Run(m, n) # <<>> /\ Head(Run(m, n)) = m + 1
        /\ Tail(Run(m, n)) = Run(m + 1, n - 1)
    BY <3>1, RunShrinks
  <3> QED BY <3>2
  <2>2. got' = Append(got, m + 1)
    <3>1. Append(Run(0, m), 0 + m + 1) = Run(0, m + 1)
      <4>1. 0 \in Nat OBVIOUS
      <4> QED BY <4>1, RunGrows
    <3>2. 0 + m + 1 = m + 1 OBVIOUS
    <3> QED BY <1>3, <3>1, <3>2
  <2>3. Contents' = Tail(Contents)
    <3>1. n - 1 = l BY <1>3
    <3> QED BY <1>3, <2>1, <3>1
  <2> QED BY <2>1, <2>2, <2>3 DEF Abstract!Dequeue
<1> QED BY <1>1, <1>2, <1>3

LEMMA SizeStays == ASSUME [Next]_vars PROVE size' = size
<1>1. CASE UNCHANGED vars BY <1>1 DEF vars
<1>2. CASE Producer
  BY <1>2 DEF Producer, TryEnqueue, CheckRing, EnqueueNext, SetDone
<1>3. CASE Consumer
  BY <1>3 DEF Consumer, TryDequeue, CheckTailBlock, LookAgain, Advance, Take, StartSize, CountBlock
<1>4. CASE \E t \in Thread : Visible(t)
  BY <1>4 DEF Visible
<1> QED BY <1>1, <1>2, <1>3, <1>4 DEF Next

\* Every step of the two threads, and every store that becomes visible, is a step
\* of the queue that FIFO promises or leaves it as it is: an element is in when
\* the tail behind it, or the block it is the first of, is visible.
THEOREM QueueImplementsFIFO == Spec => ImplementsFIFO
<1> DEFINE Some == \E g : Held(g)
           room == initialBlockCount * (blockSize - 1)
           Step == Abstract!Enqueue \/ Abstract!Dequeue
<1>1. Init => Abstract!Init
  <2> SUFFICES ASSUME Init PROVE Abstract!Init OBVIOUS
  <2>1. PICK g : Held(g) /\ LastShown(g) = 0 BY InitHeld
  <2>2. /\ Contents = Run(g.got, LastShown(g) - g.got)
        /\ got = Run(0, g.got) /\ g.got \in Nat /\ room \in Nat
    BY <2>1, AlwaysDescribed DEF Described
  <2>3. got = <<>> /\ g.got = 0
    <3>1. got = <<>> BY DEF Init
    <3>2. Len(Run(0, g.got)) = g.got BY <2>2, RunFacts
    <3> QED BY <2>2, <3>1, <3>2
  <2>4. Contents = <<>>
    <3>1. Contents = Run(0, 0) BY <2>1, <2>2, <2>3
    <3> QED BY <3>1 DEF Run
  <2> QED BY <2>2, <2>3, <2>4 DEF Abstract!Init
<1>2. Described BY AlwaysDescribed
<1>3. Some /\ Described /\ Described' /\ [Next]_vars
          => [Step]_<<room, Contents, got>>
  <2> SUFFICES ASSUME Some, Described, Described', [Next]_vars
               PROVE  Step \/ UNCHANGED <<room, Contents, got>>
    OBVIOUS
  <2>1. PICK g : Held(g) OBVIOUS
  <2>2. PICK h : Held(h)' /\ Moves(g, h) BY <2>1, NextHeld
  <2>3. size' = size BY SizeStays
  <2>4. blockSize' = blockSize /\ initialBlockCount' = initialBlockCount BY <2>3, SameShape
  <2> DEFINE n == LastShown(g) - g.got
             l == LastShown(h) - h.got
  <2>5. /\ Contents = Run(g.got, n) /\ got = Run(0, g.got) /\ g.got \in Nat /\ n \in Nat
        /\ room \in Nat
    BY <2>1 DEF Described
  <2>6. /\ Contents' = Run(h.got, l) /\ got' = Run(0, h.got) /\ h.got \in Nat /\ l \in Nat
        /\ l <= room
    BY <2>2, <2>4 DEF Described
  <2>7. LastShown(g) \in Int /\ LastShown(h) \in Int
    BY <2>1, <2>2 DEF Described
  <2>8. \/ h.got = g.got /\ l = n
        \/ h.got = g.got /\ l = n + 1
        \/ h.got = g.got + 1 /\ n = l + 1
    BY <2>2, <2>5, <2>6, <2>7 DEF Moves
  <2> HIDE DEF n, l
  <2> QED BY <2>4, <2>5, <2>6, <2>8, FIFOSteps
<1>4. Spec => []Some BY QueueHasHistory
<1> HIDE DEF Some, Step, room
<1>5. Spec => Abstract!Init /\ [][Step]_<<room, Contents, got>>
  BY <1>1, <1>2, <1>3, <1>4, PTL DEF Spec
<1> QED BY <1>5 DEF ImplementsFIFO, Abstract!Spec, Step, room

-----------------------------------------------------------------------------
(* A full queue *)

\* When the block after the producer's is the consumer's, every other block is
\* full of elements whose slots are not released.
LEMMA AllFull ==
    ASSUME NEW g, Held(g), producer.pc = "ring", next(g.tail) = g.seenFront,
           NEW b \in Block \ {g.seenFront}
    PROVE  g.put[b] - g.freed[b] = blockSize - 1
<1>1. Good(g) /\ g \in History /\ b \in Block BY DEF Held, Good
<1>2. g.turn[g.seenFront] < g.turn[b]
  <2>1. g.turn[g.seenFront] <= g.turn[b] BY <1>1 DEF Good, Ring
  <2>2. g.turn[g.seenFront] # g.turn[b] BY <1>1, InTurn DEF History
  <2>3. g.turn[g.seenFront] \in Int /\ g.turn[b] \in Int BY <1>1 DEF History
  <2> QED BY <2>1, <2>2, <2>3
<1>3. g.freed[b] = g.first[b] /\ g.first[b] <= g.knownFront[b]
  BY <1>1, <1>2 DEF Good, Packed
<1>4. /\ g.knownFront[b] \in Nat /\ g.freed[b] \in Nat /\ g.knownFront[b] <= g.freed[b]
      /\ g.put[b] \in Nat /\ blockSize \in Nat
  BY <1>1, Chained
<1>5. CASE b = g.tail
  <2>1. g.put[b] + 1 = g.knownFront[b] + blockSize BY <1>5 DEF Held, Found
  <2> QED BY <1>3, <1>4, <2>1
<1>6. CASE b # g.tail
  <2>1. g.turn[b] < g.turn[g.tail] BY <1>1, <1>6, InTurn
  <2>2. g.put[b] = g.first[b] + blockSize - 1 BY <1>1, <1>2, <2>1 DEF Good, Packed
  <2> QED BY <1>3, <1>4, <2>2
<1> QED BY <1>5, <1>6

\* So an enqueue that finds the next block taken has not failed for nothing.
LEMMA RingFull ==
    ASSUME NEW g, Held(g), CheckRing, producer'.pc = "idle"
    PROVE  producer.full \/ Occupied >= size
<1>1. /\ Good(g) /\ size \in Sizes /\ g.tail \in Block /\ g.seenFront \in Block
      /\ initialBlockCount \in Nat \ {0} /\ blockSize \in Nat /\ blockSize > 1
  <2>1. Good(g) BY DEF Held
  <2> QED BY <2>1, GoodShape DEF Good, History, Shape
<1>2. producer.pc = "ring" /\ next(g.tail) = g.seenFront
  <2>1. TailBlock = g.tail /\ mem[frontBlock] = g.seenFront
    BY ReadsTailBlock DEF Held, Indices
  <2>2. "pc" \in DOMAIN producer BY DEF Held, Indices
  <2> QED BY <2>1, <2>2 DEF CheckRing
<1>3. CASE initialBlockCount = 1
  BY <1>2, <1>3 DEF Held, Found
<1>4. CASE initialBlockCount # 1
  <2> DEFINE m == blockSize - 1
             others == Block \ {g.seenFront}
  <2>1. m \in Nat /\ \A b \in others : g.put[b] - g.freed[b] >= m
    BY <1>1, <1>2, AllFull
  <2>2. Occupied \in Nat /\ Occupied >= m * Cardinality(others)
    <3> HIDE DEF m
    <3> QED BY <2>1, OccupiedBound
  <2>3. Cardinality(others) = initialBlockCount - 1
    <3>1. IsFiniteSet(Block) /\ Cardinality(Block) = initialBlockCount
      BY <1>1, FS_Interval DEF Block
    <3> QED BY <1>1, <3>1, FS_RemoveElement
  <2>4. m * (initialBlockCount - 1) >= size BY <1>1, <1>4, RoomForSize
  <2>5. size \in Nat BY <1>1, SPSCAssumption
  <2>6. m * (initialBlockCount - 1) \in Int BY <1>1, <2>1
  <2> HIDE DEF m, others
  <2> QED BY <2>2, <2>3, <2>4, <2>5, <2>6
<1> QED BY <1>3, <1>4

\* try_enqueue gives up only if at some moment of the call at least size elements
\* were inside, for every size and block size.
THEOREM EnqueueFailsOnlyWhenFull == Spec => FailsOnlyWhenFull
<1> DEFINE Known == \E g : Held(g)
           Fails == producer.pc = "ring" /\ producer'.pc = "idle"
           Full == producer.full \/ Occupied >= size
<1>1. Known /\ [Next]_vars => [Fails => Full]_vars
  <2> SUFFICES ASSUME NEW g, Held(g), [Next]_vars, Fails PROVE Full \/ UNCHANGED vars
    OBVIOUS
  <2>1. CASE CheckRing BY <2>1, RingFull
  <2>2. CASE TryEnqueue BY <2>2 DEF TryEnqueue
  <2>3. CASE EnqueueNext BY <2>3 DEF EnqueueNext
  <2>4. CASE SetDone BY <2>4 DEF SetDone
  <2>5. CASE Consumer
    <3>1. producer' = producer
      BY <2>5 DEF Consumer, TryDequeue, CheckTailBlock, LookAgain, Advance, Take,
                  StartSize, CountBlock
    <3> QED BY <3>1
  <2>6. CASE \E t \in Thread : Visible(t)
    <3>1. producer' = producer BY <2>6 DEF Visible
    <3> QED BY <3>1
  <2>7. CASE UNCHANGED vars BY <2>7
  <2> QED BY <2>1, <2>2, <2>3, <2>4, <2>5, <2>6, <2>7 DEF Next, Producer
<1>2. Spec => []Known BY QueueHasHistory
<1> HIDE DEF Known, Fails, Full
<1>3. Spec => [][Fails => Full]_vars BY <1>1, <1>2, PTL DEF Spec
<1> QED BY <1>3 DEF FailsOnlyWhenFull, Fails, Full
=============================================================================
