---------------------------- MODULE LRUCacheProofs ----------------------------
(***************************************************************************)
(* Proofs about LRUCache and its MemoryPool, for any keys and values, any  *)
(* capacity but 0, any sizes of blocks, slots and alignment that leave room*)
(* for a slot, and any addresses operator new may return.                  *)
(***************************************************************************)
EXTENDS LRUCache, SequenceTheorems, FiniteSetTheorems, WellFoundedInduction,
        TLAPS

Distinct(s) == \A i, j \in 1..Len(s) : s[i] = s[j] => i = j

PoolRec == [blocks : Seq(Bases), currentSlot_ : Nat, lastSlot_ : Int,
            freeSlots_ : Seq(Nat)]

(* The slot has been carved from one of the blocks; in the current block   *)
(* that is the part before currentSlot_.                                   *)
Placed(p, a) ==
    \E i \in 1..Len(p.blocks) :
        /\ InBlock(a, p.blocks[i])
        /\ i = 1 => a + SlotSize <= p.currentSlot_

(* currentSlot_ is a whole number of slots behind the first one.           *)
CurrentInv(p) ==
    IF p.blocks = <<>> THEN p.currentSlot_ = 0 /\ p.lastSlot_ = 0
    ELSE LET b == p.blocks[1]
         IN  /\ p.lastSlot_ = b + BlockSize - SlotSize + 1
             /\ p.currentSlot_ >= FirstSlot(b)
             /\ p.currentSlot_ <= b + BlockSize
             /\ p.currentSlot_ % Align = 0
             /\ (p.currentSlot_ - FirstSlot(b)) % SlotSize = 0

Free(p) == ToSet(p.freeSlots_)
Apart(S) == \A a, b \in S : a # b => ~Overlap(a, b)

(* A pool p of which n slots, the set used, are in use.                    *)
PoolOK(p, used, n) ==
    /\ p \in PoolRec /\ Distinct(p.blocks) /\ Distinct(p.freeSlots_)
    /\ CurrentInv(p)
    /\ used \cap Free(p) = {}
    /\ \A a \in used \cup Free(p) : a \in Nat /\ Placed(p, a)
    /\ Apart(used \cup Free(p))
    /\ n + Len(p.freeSlots_) = Carved(p)

Node == [key : Keys, value : Values]

(* The list has no address twice, its nodes are the constructed ones, and  *)
(* the index and the nodes are inverse to each other.                      *)
Linked(l, nd, m) ==
    /\ l \in Seq(Nat) /\ Distinct(l)
    /\ nd \in [ToSet(l) -> Node]
    /\ m \in [DOMAIN m -> ToSet(l)]
    /\ IsFiniteSet(DOMAIN m) /\ Cardinality(DOMAIN m) = Len(l)
    /\ \A k \in DOMAIN m : nd[m[k]].key = k
    /\ \A a \in ToSet(l) : nd[a].key \in DOMAIN m /\ m[nd[a].key] = a

ListInv == Linked(my_list, node, map)

CapacityInv ==
    /\ capacity \in (Nat \ {0}) \cup {-1}
    /\ capacity # -1 => Len(my_list) <= capacity

PoolInv == alive => PoolOK(allocator_, ToSet(my_list), Len(my_list))

Inv == ListInv /\ CapacityInv /\ PoolInv

-----------------------------------------------------------------------------
(* Sequences: what RemoveAt, Splice and the ends of a list hold.           *)

(* The elements of a sequence are its values at 1..Len.                    *)
LEMMA ToSetIs ==
    ASSUME NEW S, NEW s \in Seq(S)
    PROVE  /\ Len(s) \in Nat /\ DOMAIN s = 1..Len(s)
           /\ ToSet(s) = {s[i] : i \in 1..Len(s)}
           /\ ToSet(s) \subseteq S
<1>1. Len(s) \in Nat /\ DOMAIN s = 1..Len(s)
  BY LenProperties
<1>2. \A i \in 1..Len(s) : s[i] \in S
  BY ElementOfSeq
<1> QED BY <1>1, <1>2 DEF ToSet

(* RemoveAt closes the gap and keeps the order of the rest.                *)
LEMMA RemoveAtIs ==
    ASSUME NEW S, NEW s \in Seq(S), NEW i \in 1..Len(s)
    PROVE  /\ RemoveAt(s, i) \in Seq(S)
           /\ Len(RemoveAt(s, i)) = Len(s) - 1
           /\ \A j \in 1..(Len(s) - 1) :
                RemoveAt(s, i)[j] = IF j < i THEN s[j] ELSE s[j + 1]
<1>1. Len(s) \in Nat /\ i \in Nat /\ 1 <= i /\ i <= Len(s)
  BY LenProperties
<1>2. \A j \in 1..Len(s) : s[j] \in S
  BY ElementOfSeq
<1>3. PICK a : a = SubSeq(s, 1, i - 1)
  OBVIOUS
<1>4. PICK b : b = SubSeq(s, i + 1, Len(s))
  OBVIOUS
<1>5. /\ a \in Seq(S) /\ Len(a) = i - 1
      /\ \A j \in 1..(i - 1) : a[j] = s[j]
  <2>1. \A j \in 1..(i - 1) : s[j] \in S
    BY <1>1, <1>2
  <2>2. /\ a \in Seq(S) /\ Len(a) = IF 1 <= i - 1 THEN (i - 1) - 1 + 1 ELSE 0
        /\ \A j \in 1..((i - 1) - 1 + 1) : a[j] = s[1 + j - 1]
    BY <1>1, <1>3, <2>1, SubSeqProperties
  <2> QED BY <1>1, <2>2
<1>6. /\ b \in Seq(S) /\ Len(b) = Len(s) - i
      /\ \A j \in 1..(Len(s) - i) : b[j] = s[i + j]
  <2>1. \A j \in (i + 1)..Len(s) : s[j] \in S
    BY <1>1, <1>2
  <2>2. /\ b \in Seq(S)
        /\ Len(b) = IF i + 1 <= Len(s) THEN Len(s) - (i + 1) + 1 ELSE 0
        /\ \A j \in 1..(Len(s) - (i + 1) + 1) : b[j] = s[(i + 1) + j - 1]
    BY <1>1, <1>4, <2>1, SubSeqProperties
  <2> QED BY <1>1, <2>2
<1>7. /\ a \o b \in Seq(S) /\ Len(a \o b) = Len(a) + Len(b)
      /\ \A j \in 1..(Len(a) + Len(b)) :
           (a \o b)[j] = IF j <= Len(a) THEN a[j] ELSE b[j - Len(a)]
  BY <1>5, <1>6, ConcatProperties
<1>8. RemoveAt(s, i) = a \o b
  BY <1>3, <1>4 DEF RemoveAt
<1>9. ASSUME NEW j \in 1..(Len(s) - 1)
      PROVE  (a \o b)[j] = IF j < i THEN s[j] ELSE s[j + 1]
  <2>1. CASE j < i
    BY <1>1, <1>5, <1>6, <1>7, <2>1
  <2>2. CASE ~(j < i)
    <3>1. /\ j - (i - 1) \in 1..(Len(s) - i) /\ i + (j - (i - 1)) = j + 1
          /\ j \in 1..(Len(a) + Len(b)) /\ ~(j <= Len(a))
      BY <1>1, <1>5, <1>6, <2>2
    <3> QED BY <1>5, <1>6, <1>7, <2>2, <3>1
  <2> QED BY <2>1, <2>2
<1>10. Len(a) + Len(b) = Len(s) - 1
  BY <1>1, <1>5, <1>6
<1> QED BY <1>7, <1>8, <1>9, <1>10

(* An element put in front moves the others back by one.                   *)
LEMMA ConsIs ==
    ASSUME NEW S, NEW x \in S, NEW s \in Seq(S)
    PROVE  /\ <<x>> \o s \in Seq(S) /\ Len(<<x>> \o s) = Len(s) + 1
           /\ (<<x>> \o s)[1] = x
           /\ \A j \in 2..(Len(s) + 1) : (<<x>> \o s)[j] = s[j - 1]
<1>1. <<x>> \in Seq(S) /\ Len(<<x>>) = 1 /\ <<x>>[1] = x
  OBVIOUS
<1>2. Len(s) \in Nat
  BY LenProperties
<1>3. PICK a \in Seq(S) : a = <<x>>
  BY <1>1
<1>4. /\ a \o s \in Seq(S) /\ Len(a \o s) = Len(a) + Len(s)
      /\ \A j \in 1..(Len(a) + Len(s)) :
           (a \o s)[j] = IF j <= Len(a) THEN a[j] ELSE s[j - Len(a)]
  BY ConcatProperties
<1>5. Len(a) = 1 /\ a[1] = x
  BY <1>1, <1>3
<1>6. (a \o s)[1] = x /\ \A j \in 2..(Len(s) + 1) : (a \o s)[j] = s[j - 1]
  BY <1>2, <1>4, <1>5
<1> QED BY <1>2, <1>3, <1>4, <1>5, <1>6

(* The least member of a set of one number is the number.                  *)
LEMMA LeastOfOne ==
    ASSUME NEW x \in Nat
    PROVE  Min({x}) = x
  BY DEF Min

(* The i-th element of s moved to the front: where the j-th one was.       *)
From(i, j) == IF j = 1 THEN i ELSE IF j <= i THEN j - 1 ELSE j

(* An element put in front of the rest of a sequence, place by place.      *)
LEMMA ToFrontIs ==
    ASSUME NEW S, NEW s \in Seq(S), NEW i \in 1..Len(s), NEW x \in S
    PROVE  /\ <<x>> \o RemoveAt(s, i) \in Seq(S)
           /\ Len(<<x>> \o RemoveAt(s, i)) = Len(s)
           /\ (<<x>> \o RemoveAt(s, i))[1] = x
           /\ \A j \in 2..Len(s) :
                (<<x>> \o RemoveAt(s, i))[j] = s[From(i, j)]
<1>1. Len(s) \in Nat /\ i \in Nat
  BY LenProperties
<1>2. PICK r : r = RemoveAt(s, i)
  OBVIOUS
<1>3. /\ r \in Seq(S) /\ Len(r) = Len(s) - 1
      /\ \A j \in 1..(Len(s) - 1) : r[j] = IF j < i THEN s[j] ELSE s[j + 1]
  BY <1>2, RemoveAtIs
<1>4. /\ <<x>> \o r \in Seq(S) /\ Len(<<x>> \o r) = Len(r) + 1
      /\ (<<x>> \o r)[1] = x
      /\ \A j \in 2..(Len(r) + 1) : (<<x>> \o r)[j] = r[j - 1]
  BY <1>3, ConsIs
<1>5. ASSUME NEW j \in 2..Len(s)
      PROVE  (<<x>> \o r)[j] = s[From(i, j)]
  <2>1. (<<x>> \o r)[j] = r[j - 1] /\ j - 1 \in 1..(Len(s) - 1)
        /\ (j - 1) + 1 = j
    BY <1>1, <1>3, <1>4
  <2>2. r[j - 1] = IF j - 1 < i THEN s[j - 1] ELSE s[j]
    BY <1>3, <2>1
  <2>3. From(i, j) = IF j - 1 < i THEN j - 1 ELSE j
    BY <1>1 DEF From
  <2> QED BY <2>1, <2>2, <2>3
<1>6. Len(r) + 1 = Len(s)
  BY <1>1, <1>3
<1> QED BY <1>2, <1>4, <1>5, <1>6

(* Moving an element to the front keeps the length.                        *)
LEMMA ToFrontLen ==
    ASSUME NEW S, NEW s \in Seq(S), NEW i \in 1..Len(s), NEW x \in S
    PROVE  Len(<<x>> \o RemoveAt(s, i)) = Len(s)
<1>1. PICK r \in Seq(S) : r = RemoveAt(s, i) /\ Len(r) = Len(s) - 1
  BY RemoveAtIs
<1>2. Len(<<x>> \o r) = Len(r) + 1
  BY ConsIs
<1>3. Len(s) \in Nat
  BY LenProperties
<1> QED BY <1>1, <1>2, <1>3

(* splice() to the front of a list without repetitions permutes the list.  *)
LEMMA SpliceIs ==
    ASSUME NEW S, NEW s \in Seq(S), Distinct(s), NEW i \in 1..Len(s)
    PROVE  /\ Splice(s, s[i]) = <<s[i]>> \o RemoveAt(s, i)
           /\ Splice(s, s[i]) \in Seq(S) /\ Len(Splice(s, s[i])) = Len(s)
           /\ \A j \in 1..Len(s) : /\ From(i, j) \in 1..Len(s)
                                   /\ Splice(s, s[i])[j] = s[From(i, j)]
           /\ Distinct(Splice(s, s[i]))
           /\ ToSet(Splice(s, s[i])) = ToSet(s)
<1>1. Len(s) \in Nat /\ i \in Nat
  BY LenProperties
<1>2. PICK x \in S : x = s[i]
  BY ElementOfSeq
<1>3. Splice(s, x) = <<x>> \o RemoveAt(s, i)
  <2>1. {j \in 1..Len(s) : s[j] = x} = {i}
    BY <1>2 DEF Distinct
  <2>2. SelectInSeq(s, LAMBDA v : v = x) = i
    BY <1>1, <2>1, LeastOfOne DEF SelectInSeq
  <2>3. RemoveFirst(s, x) = RemoveAt(s, i)
    BY <1>2, <2>2 DEF RemoveFirst
  <2> QED BY <2>3 DEF Splice
<1>4. PICK t : t = <<x>> \o RemoveAt(s, i)
  OBVIOUS
<1>5. /\ t \in Seq(S) /\ Len(t) = Len(s) /\ t[1] = x
      /\ \A j \in 2..Len(s) : t[j] = s[From(i, j)]
  BY <1>4, ToFrontIs
<1>6. \A j \in 1..Len(s) : From(i, j) \in 1..Len(s)
  BY <1>1 DEF From
<1>7. \A j \in 1..Len(s) : t[j] = s[From(i, j)]
  <2>1. From(i, 1) = i
    BY DEF From
  <2> QED BY <1>1, <1>2, <1>5, <2>1
<1>8. Distinct(t)
  <2> SUFFICES ASSUME NEW j \in 1..Len(s), NEW k \in 1..Len(s), t[j] = t[k]
               PROVE  j = k
    BY <1>5 DEF Distinct
  <2>1. From(i, j) = From(i, k)
    BY <1>6, <1>7 DEF Distinct
  <2> QED BY <1>1, <2>1 DEF From
<1>9. \A k \in 1..Len(s) : \E j \in 1..Len(s) : From(i, j) = k
  <2> SUFFICES ASSUME NEW k \in 1..Len(s)
               PROVE  \E j \in 1..Len(s) : From(i, j) = k
    OBVIOUS
  <2>1. CASE k = i
    <3>1. From(i, 1) = k /\ 1 \in 1..Len(s)
      BY <1>1, <2>1 DEF From
    <3> QED BY <3>1
  <2>2. CASE k < i
    <3>1. From(i, k + 1) = k /\ k + 1 \in 1..Len(s)
      BY <1>1, <2>2 DEF From
    <3> QED BY <3>1
  <2>3. CASE k > i
    <3>1. From(i, k) = k
      BY <1>1, <2>3 DEF From
    <3> QED BY <3>1
  <2> QED BY <1>1, <2>1, <2>2, <2>3
<1>10. ToSet(t) = ToSet(s)
  <2>1. ToSet(t) = {t[j] : j \in 1..Len(s)}
        /\ ToSet(s) = {s[j] : j \in 1..Len(s)}
    BY <1>5, ToSetIs
  <2>2. ASSUME NEW k \in 1..Len(s) PROVE s[k] \in ToSet(t)
    <3>1. PICK j \in 1..Len(s) : From(i, j) = k
      BY <1>9
    <3>2. t[j] = s[k]
      BY <1>7, <3>1
    <3> QED BY <2>1, <3>2
  <2>3. \A j \in 1..Len(s) : t[j] \in ToSet(s)
    BY <1>6, <1>7, <2>1
  <2> QED BY <2>1, <2>2, <2>3
<1> QED BY <1>2, <1>3, <1>4, <1>5, <1>6, <1>7, <1>8, <1>10

(* pop_back() removes the last element and nothing else.                   *)
LEMMA FrontIs ==
    ASSUME NEW S, NEW s \in Seq(S), Len(s) > 0
    PROVE  /\ Front(s) \in Seq(S) /\ Len(Front(s)) = Len(s) - 1
           /\ \A j \in 1..(Len(s) - 1) : Front(s)[j] = s[j]
           /\ Last(s) \in ToSet(s)
           /\ Distinct(s) => /\ Distinct(Front(s))
                             /\ ToSet(Front(s)) = ToSet(s) \ {Last(s)}
<1>1. Len(s) \in Nat
  BY LenProperties
<1>2. PICK f : f = SubSeq(s, 1, Len(s) - 1)
  OBVIOUS
<1>3. /\ f \in Seq(S) /\ Len(f) = Len(s) - 1
      /\ \A j \in 1..(Len(s) - 1) : f[j] = s[j]
  <2>1. PICK m \in Nat : m = Len(s) - 1
    BY <1>1
  <2>2. \A j \in 1..m : s[j] \in S
    BY <1>1, <2>1, ElementOfSeq
  <2>3. /\ f \in Seq(S) /\ Len(f) = IF 1 <= m THEN m - 1 + 1 ELSE 0
        /\ \A j \in 1..(m - 1 + 1) : f[j] = s[1 + j - 1]
    BY <1>2, <2>1, <2>2, SubSeqProperties
  <2>4. Len(f) = m /\ \A j \in 1..m : f[j] = s[j]
    BY <2>3
  <2> QED BY <2>1, <2>3, <2>4
<1>4. Front(s) = f
  BY <1>2 DEF Front
<1>5. /\ ToSet(s) = {s[j] : j \in 1..Len(s)}
      /\ ToSet(f) = {f[j] : j \in 1..(Len(s) - 1)}
  BY <1>3, ToSetIs
<1>6. Last(s) = s[Len(s)] /\ Len(s) \in 1..Len(s)
  BY <1>1 DEF Last
<1>7. ASSUME Distinct(s)
      PROVE  Distinct(f) /\ ToSet(f) = ToSet(s) \ {Last(s)}
  <2>1. Distinct(f)
    <3>1. \A j \in 1..Len(f) : j \in 1..Len(s) /\ f[j] = s[j]
      BY <1>1, <1>3
    <3> QED BY <1>7, <3>1 DEF Distinct
  <2>2. \A j \in 1..(Len(s) - 1) : s[j] # Last(s) /\ j \in 1..Len(s)
    BY <1>1, <1>6, <1>7 DEF Distinct
  <2>3. \A j \in 1..Len(s) : j \in 1..(Len(s) - 1) \/ j = Len(s)
    BY <1>1
  <2> QED BY <1>3, <1>5, <1>6, <2>1, <2>2, <2>3
<1> QED BY <1>3, <1>4, <1>5, <1>6, <1>7

(* push_front() of a new element adds that element and no repetition.      *)
LEMMA ConsSet ==
    ASSUME NEW S, NEW x \in S, NEW s \in Seq(S)
    PROVE  /\ ToSet(<<x>> \o s) = {x} \cup ToSet(s)
           /\ Distinct(s) /\ x \notin ToSet(s) => Distinct(<<x>> \o s)
<1>1. Len(s) \in Nat /\ ToSet(s) = {s[j] : j \in 1..Len(s)}
  BY ToSetIs
<1>2. PICK t : t = <<x>> \o s
  OBVIOUS
<1>3. /\ t \in Seq(S) /\ Len(t) = Len(s) + 1 /\ t[1] = x
      /\ \A j \in 2..(Len(s) + 1) : t[j] = s[j - 1]
  BY <1>2, ConsIs
<1>4. ToSet(t) = {t[j] : j \in 1..(Len(s) + 1)}
  BY <1>3, ToSetIs
<1>5. ToSet(t) = {x} \cup ToSet(s)
  <2>1. ASSUME NEW j \in 1..(Len(s) + 1) PROVE t[j] \in {x} \cup ToSet(s)
    <3>1. CASE j = 1
      BY <1>3, <3>1
    <3>2. CASE j # 1
      <4>1. j \in 2..(Len(s) + 1) /\ j - 1 \in 1..Len(s)
        BY <1>1, <3>2
      <4> QED BY <1>1, <1>3, <4>1
    <3> QED BY <3>1, <3>2
  <2>2. ASSUME NEW j \in 1..Len(s) PROVE s[j] \in ToSet(t)
    <3>1. j + 1 \in 2..(Len(s) + 1) /\ (j + 1) - 1 = j
          /\ j + 1 \in 1..(Len(s) + 1)
      BY <1>1
    <3>2. t[j + 1] = s[j]
      BY <1>3, <3>1
    <3> QED BY <1>4, <3>1, <3>2
  <2>3. x \in ToSet(t)
    BY <1>1, <1>3, <1>4
  <2> QED BY <1>1, <1>4, <2>1, <2>2, <2>3
<1>6. ASSUME Distinct(s), x \notin ToSet(s)
      PROVE  Distinct(t)
  <2> SUFFICES ASSUME NEW j \in 1..(Len(s) + 1), NEW k \in 1..(Len(s) + 1),
                      t[j] = t[k]
               PROVE  j = k
    BY <1>3 DEF Distinct
  <2>1. \A m \in 1..(Len(s) + 1) :
           m = 1 \/ (m - 1 \in 1..Len(s) /\ t[m] = s[m - 1] /\ t[m] # x)
    BY <1>1, <1>3, <1>6
  <2>2. CASE j = 1 \/ k = 1
    BY <1>3, <2>1, <2>2
  <2>3. CASE j # 1 /\ k # 1
    <3>1. j - 1 = k - 1
      BY <1>6, <2>1, <2>3 DEF Distinct
    <3> QED BY <1>1, <3>1
  <2> QED BY <2>2, <2>3
<1> QED BY <1>2, <1>5, <1>6

-----------------------------------------------------------------------------
(* Division, and where the slots of a block start.                         *)

(* Division with remainder.                                                *)
LEMMA DivMod ==
    ASSUME NEW x \in Int, NEW y \in Nat \ {0}
    PROVE  /\ x = y * (x \div y) + (x % y)
           /\ x \div y \in Int /\ x % y \in 0..(y - 1)
  OBVIOUS

(* Quotient and remainder are unique.                                      *)
LEMMA DivModUnique ==
    ASSUME NEW x \in Int, NEW y \in Nat \ {0}, NEW q \in Int, NEW r \in Int,
           0 <= r, r < y, x = y * q + r
    PROVE  x \div y = q /\ x % y = r
  OBVIOUS

(* Adding to a multiple of y leaves the remainder of what is added.        *)
LEMMA ModAdd ==
    ASSUME NEW x \in Int, NEW z \in Int, NEW y \in Nat \ {0}, x % y = 0
    PROVE  (x + z) % y = z % y
<1>1. PICK q \in Int, s \in Int, r \in Int :
        q = x \div y /\ s = z \div y /\ r = z % y
  OBVIOUS
<1>2. x = y * q /\ z = y * s + r /\ 0 <= r /\ r < y
  BY <1>1, DivMod
<1>3. q + s \in Int /\ y * (q + s) = y * q + y * s
  OBVIOUS
<1>4. PICK u \in Int, t \in Int : u = x + z /\ t = q + s
  OBVIOUS
<1>5. u = y * t + r
  BY <1>2, <1>3, <1>4
<1>6. u % y = r
  BY <1>2, <1>5
<1> QED BY <1>1, <1>4, <1>6

(* The next multiple has the next quotient.                                *)
LEMMA NextMultiple ==
    ASSUME NEW x \in Int, NEW y \in Nat \ {0}, x % y = 0
    PROVE  (x + y) % y = 0 /\ (x + y) \div y = (x \div y) + 1
<1>1. PICK q \in Int : q = x \div y
  BY DivMod
<1>2. x = y * q
  BY <1>1, DivMod
<1>3. PICK u \in Int, t \in Int : u = x + y /\ t = q + 1
  OBVIOUS
<1>4. u = y * t
  BY <1>2, <1>3
<1>5. u % y = 0 /\ u \div y = t
  BY <1>4
<1> QED BY <1>1, <1>3, <1>5

(* The numbers from a multiple of y up to the next one share its           *)
(* quotient.                                                               *)
LEMMA LastMultiple ==
    ASSUME NEW x \in Int, NEW y \in Nat \ {0}, x % y = 0,
           NEW r \in Int, x <= r, r < x + y
    PROVE  r \div y = x \div y
<1>1. PICK q \in Int : q = x \div y
  BY DivMod
<1>2. x = y * q
  BY <1>1, DivMod
<1>3. PICK t \in Int : t = r - x
  OBVIOUS
<1>4. r = y * q + t /\ 0 <= t /\ t < y
  BY <1>2, <1>3
<1>5. r \div y = q
  BY <1>4
<1> QED BY <1>1, <1>5

(* The sizes and the addresses of the pool are numbers.                    *)
LEMMA SizesNat ==
    /\ BlockSize \in Nat \ {0} /\ SlotSize \in Nat \ {0}
    /\ PtrSize \in Nat \ {0} /\ Align \in Nat \ {0}
    /\ Bases \subseteq Nat
  BY PoolAssumption

(* The header of a block and the padding have the same length in all.      *)
Lead == PtrSize + (Align - (PtrSize % Align))

(* The header and the padding of a block cover the pointer to the next     *)
(* block, keep the alignment and leave room for a slot.                    *)
LEMMA LeadIs ==
    /\ Lead \in Nat /\ Lead >= PtrSize /\ Lead + SlotSize <= BlockSize
    /\ Lead % Align = 0
<1>1. PtrSize % Align \in 0..(Align - 1)
  BY SizesNat, DivMod
<1>2. Lead \in Nat /\ Lead >= PtrSize /\ Lead <= PtrSize + Align
  BY <1>1, SizesNat DEF Lead
<1>3. Lead + SlotSize <= BlockSize
  BY <1>2, SizesNat, PoolAssumption
<1>4. Lead % Align = 0
  <2>1. PICK q \in Int, r \in Int : q = PtrSize \div Align
                                    /\ r = PtrSize % Align
    BY SizesNat, DivMod
  <2>2. PtrSize = Align * q + r
    BY <2>1, SizesNat, DivMod
  <2>3. Align * (q + 1) = Align * q + Align
    BY SizesNat
  <2>4. Lead = Align * (q + 1) + 0
    BY <2>1, <2>2, <2>3, SizesNat DEF Lead
  <2> QED BY <1>2, <2>4, SizesNat, DivModUnique
<1> QED BY <1>2, <1>3, <1>4

(* The first slot of a block is aligned and comes right behind header and  *)
(* padding.                                                                *)
LEMMA FirstSlotIs ==
    ASSUME NEW b \in Bases
    PROVE  b \in Nat /\ FirstSlot(b) = b + Lead /\ FirstSlot(b) % Align = 0
<1>1. b \in Nat /\ b % Align = 0
  BY SizesNat, PoolAssumption
<1>2. (b + PtrSize) % Align = PtrSize % Align
  <2>1. PICK x \in Int, z \in Int, y \in Nat \ {0} :
          x = b /\ z = PtrSize /\ y = Align
    BY <1>1, SizesNat
  <2>2. x % y = 0
    BY <1>1, <2>1
  <2>3. (x + z) % y = z % y
    BY <2>2, ModAdd
  <2> QED BY <2>1, <2>3
<1>3. FirstSlot(b) = b + Lead
  <2>1. PtrSize % Align \in Int
    BY SizesNat, DivMod
  <2> QED BY <1>1, <1>2, <2>1, SizesNat DEF FirstSlot, Lead
<1>4. (b + Lead) % Align = 0
  <2>1. PICK x \in Int, z \in Int, y \in Nat \ {0} :
          x = b /\ z = Lead /\ y = Align
    BY <1>1, LeadIs, SizesNat
  <2>2. x % y = 0 /\ z % y = 0
    BY <1>1, <2>1, LeadIs
  <2>3. (x + z) % y = z % y
    BY <2>2, ModAdd
  <2> QED BY <2>1, <2>2, <2>3
<1> QED BY <1>1, <1>3, <1>4

(* How many slots have been carved.                                        *)
PerBlock == (BlockSize - Lead) \div SlotSize

(* The number of slots carved so far: all of the full blocks, and those    *)
(* before currentSlot_ in the current one.                                 *)
LEMMA CarvedIs ==
    ASSUME NEW p \in PoolRec, Len(p.blocks) > 0
    PROVE  /\ p.blocks[1] \in Bases
           /\ PerBlock \in Int
           /\ Carved(p) = (Len(p.blocks) - 1) * PerBlock
                + (p.currentSlot_ - FirstSlot(p.blocks[1])) \div SlotSize
<1>1. p.blocks \in Seq(Bases)
  BY DEF PoolRec
<1>2. PICK bs \in Seq(Bases) : bs = p.blocks
  BY <1>1
<1>3. PICK b \in Bases : b = bs[1]
  BY <1>2, ElementOfSeq
<1>4. bs # <<>> /\ Head(bs) = b
  BY <1>2, <1>3
<1>5. b + BlockSize - FirstSlot(b) = BlockSize - Lead
  BY FirstSlotIs, LeadIs, SizesNat
<1>6. PerBlock \in Int
  BY SizesNat, LeadIs, DivMod DEF PerBlock
<1> QED BY <1>2, <1>3, <1>4, <1>5, <1>6 DEF Carved, PerBlock

-----------------------------------------------------------------------------
(* The operations of the pool.                                             *)

(* deallocate() of a slot in use keeps the pool sound.                     *)
LEMMA DeallocateOK ==
    ASSUME NEW p, NEW used, NEW n \in Nat, PoolOK(p, used, n),
           NEW a \in used, n > 0
    PROVE  PoolOK(Deallocate(p, a), used \ {a}, n - 1)
<1>1. p \in PoolRec /\ p.freeSlots_ \in Seq(Nat) /\ a \in Nat
  BY DEF PoolOK, PoolRec
<1>2. PICK f \in Seq(Nat) : f = p.freeSlots_
  BY <1>1
<1>3. PICK g : g = <<a>> \o f
  OBVIOUS
<1>4. g \in Seq(Nat) /\ Len(g) = Len(f) + 1 /\ ToSet(g) = {a} \cup ToSet(f)
  <2>1. g \in Seq(Nat) /\ Len(g) = Len(f) + 1
    <3>1. PICK S : S = Nat
      OBVIOUS
    <3>2. a \in S /\ f \in Seq(S)
      BY <1>1, <3>1
    <3> QED BY <1>3, <3>1, <3>2, ConsIs
  <2>2. ToSet(g) = {a} \cup ToSet(f)
    <3>1. PICK S : S = Nat
      OBVIOUS
    <3>2. a \in S /\ f \in Seq(S)
      BY <1>1, <3>1
    <3> QED BY <1>3, <3>2, ConsSet
  <2> QED BY <2>1, <2>2
<1>5. Distinct(g)
  <2>1. a \notin ToSet(f) /\ Distinct(f)
    BY <1>2 DEF PoolOK, Free
  <2> QED BY <1>1, <1>3, <2>1, ConsSet
<1>6. PICK q : q = Deallocate(p, a)
  OBVIOUS
<1>7. q = [p EXCEPT !.freeSlots_ = g]
  BY <1>2, <1>3, <1>6 DEF Deallocate
<1>8. /\ q \in PoolRec /\ q.freeSlots_ = g /\ q.blocks = p.blocks
      /\ q.currentSlot_ = p.currentSlot_ /\ q.lastSlot_ = p.lastSlot_
  BY <1>1, <1>4, <1>7 DEF PoolRec
<1>9. Free(q) = {a} \cup Free(p)
  BY <1>2, <1>4, <1>8 DEF Free
<1>10. (used \ {a}) \cup Free(q) = used \cup Free(p)
  BY <1>9
<1>11. (used \ {a}) \cap Free(q) = {}
  BY <1>9 DEF PoolOK
<1>12. CurrentInv(q)
  BY <1>8 DEF PoolOK, CurrentInv
<1>13. \A b \in used \cup Free(p) : b \in Nat /\ Placed(q, b)
  BY <1>8 DEF PoolOK, Placed
<1>14. Carved(q) = Carved(p)
  BY <1>8 DEF Carved
<1>15. (n - 1) + Len(q.freeSlots_) = Carved(q)
  <2>1. Len(f) \in Nat /\ n + Len(f) = Carved(p)
    BY <1>2, LenProperties DEF PoolOK
  <2>2. Len(q.freeSlots_) = Len(f) + 1
    BY <1>4, <1>8
  <2> QED BY <1>14, <2>1, <2>2
<1>16. Apart((used \ {a}) \cup Free(q))
  BY <1>10 DEF PoolOK
<1>17. Distinct(q.blocks) /\ Distinct(q.freeSlots_)
  BY <1>5, <1>8 DEF PoolOK
<1> QED BY <1>6, <1>8, <1>10, <1>11, <1>12, <1>13, <1>15, <1>16, <1>17
        DEF PoolOK

(* Taking the head of the free list removes that slot and nothing else.    *)
LEMMA TailIs ==
    ASSUME NEW S, NEW s \in Seq(S), s # <<>>, Distinct(s)
    PROVE  /\ Tail(s) \in Seq(S) /\ Len(Tail(s)) = Len(s) - 1
           /\ Head(s) \in ToSet(s) /\ Distinct(Tail(s))
           /\ ToSet(Tail(s)) = ToSet(s) \ {Head(s)}
<1>1. Len(s) \in Nat /\ Len(s) > 0
  BY LenProperties, EmptySeq
<1>2. PICK t : t = Tail(s)
  OBVIOUS
<1>3. /\ Head(s) = s[1] /\ t \in Seq(S) /\ Len(t) = Len(s) - 1
      /\ \A j \in 1..(Len(s) - 1) : t[j] = s[j + 1]
  BY <1>1, <1>2, HeadTailProperties
<1>4. /\ ToSet(s) = {s[j] : j \in 1..Len(s)}
      /\ ToSet(t) = {t[j] : j \in 1..(Len(s) - 1)}
  BY <1>3, ToSetIs
<1>5. Distinct(t)
  <2> SUFFICES ASSUME NEW j \in 1..(Len(s) - 1), NEW k \in 1..(Len(s) - 1),
                      t[j] = t[k]
               PROVE  j = k
    BY <1>3 DEF Distinct
  <2>1. j + 1 \in 1..Len(s) /\ k + 1 \in 1..Len(s)
    BY <1>1
  <2>2. j + 1 = k + 1
    BY <1>3, <2>1 DEF Distinct
  <2> QED BY <1>1, <2>2
<1>6. ToSet(t) = ToSet(s) \ {s[1]}
  <2>1. ASSUME NEW j \in 1..(Len(s) - 1)
        PROVE  t[j] \in ToSet(s) /\ t[j] # s[1]
    <3>1. j + 1 \in 1..Len(s) /\ j + 1 # 1 /\ 1 \in 1..Len(s)
      BY <1>1
    <3> QED BY <1>3, <1>4, <3>1 DEF Distinct
  <2>2. ASSUME NEW j \in 1..Len(s), s[j] # s[1]
        PROVE  s[j] \in ToSet(t)
    <3>1. j # 1
      BY <2>2
    <3>2. j - 1 \in 1..(Len(s) - 1) /\ (j - 1) + 1 = j
      BY <1>1, <3>1
    <3>3. t[j - 1] = s[j]
      BY <1>3, <3>2
    <3> QED BY <1>4, <3>2, <3>3
  <2> QED BY <1>4, <2>1, <2>2
<1>7. s[1] \in ToSet(s)
  BY <1>1, <1>4
<1> QED BY <1>2, <1>3, <1>5, <1>6, <1>7

(* allocate, from the free list.                                           *)
LEMMA TakeFreeOK ==
    ASSUME NEW p, NEW used, NEW n \in Nat, PoolOK(p, used, n),
           p.freeSlots_ # <<>>,
           NEW q, q = [p EXCEPT !.freeSlots_ = Tail(p.freeSlots_)]
    PROVE  /\ Head(p.freeSlots_) \notin used /\ Head(p.freeSlots_) \in Nat
           /\ PoolOK(q, used \cup {Head(p.freeSlots_)}, n + 1)
<1>1. p \in PoolRec /\ p.freeSlots_ \in Seq(Nat)
  BY DEF PoolOK, PoolRec
<1>2. PICK f \in Seq(Nat), a \in {Head(p.freeSlots_)} :
        f = p.freeSlots_ /\ a = Head(f)
  BY <1>1
<1>3. PICK g : g = Tail(f)
  OBVIOUS
<1>4. /\ g \in Seq(Nat) /\ Len(g) = Len(f) - 1 /\ a \in ToSet(f)
      /\ Distinct(g) /\ ToSet(g) = ToSet(f) \ {a}
  <2>1. Distinct(f) /\ f # <<>>
    BY <1>2 DEF PoolOK
  <2> QED BY <1>2, <1>3, <2>1, TailIs
<1>5. /\ q \in PoolRec /\ q.freeSlots_ = g /\ q.blocks = p.blocks
      /\ q.currentSlot_ = p.currentSlot_ /\ q.lastSlot_ = p.lastSlot_
  <2>1. q = [p EXCEPT !.freeSlots_ = g]
    BY <1>2, <1>3
  <2> QED BY <1>1, <1>4, <2>1 DEF PoolRec
<1>6. Free(q) = Free(p) \ {a} /\ a \in Free(p)
  BY <1>2, <1>4, <1>5 DEF Free
<1>7. (used \cup {a}) \cup Free(q) = used \cup Free(p)
  BY <1>6
<1>8. a \notin used /\ a \in Nat /\ (used \cup {a}) \cap Free(q) = {}
  BY <1>6 DEF PoolOK
<1>9. CurrentInv(q)
  BY <1>5 DEF PoolOK, CurrentInv
<1>10. \A b \in used \cup Free(p) : b \in Nat /\ Placed(q, b)
  BY <1>5 DEF PoolOK, Placed
<1>11. (n + 1) + Len(q.freeSlots_) = Carved(q)
  <2>1. Len(f) \in Nat /\ n + Len(f) = Carved(p)
    BY <1>2, LenProperties DEF PoolOK
  <2>2. Carved(q) = Carved(p)
    BY <1>5 DEF Carved
  <2>3. Len(q.freeSlots_) = Len(f) - 1
    BY <1>4, <1>5
  <2>4. (n + 1) + (Len(f) - 1) = n + Len(f)
    BY <2>1
  <2> QED BY <2>1, <2>2, <2>3, <2>4
<1>12. Apart((used \cup {a}) \cup Free(q))
  BY <1>7 DEF PoolOK
<1>13. Distinct(q.blocks) /\ Distinct(q.freeSlots_)
  BY <1>4, <1>5 DEF PoolOK
<1>14. PoolOK(q, used \cup {a}, n + 1)
  BY <1>5, <1>7, <1>8, <1>9, <1>10, <1>11, <1>12, <1>13 DEF PoolOK
<1> QED BY <1>2, <1>8, <1>14

(* A slot of another block, or one before currentSlot_, is apart from the  *)
(* slot at currentSlot_.                                                   *)
LEMMA CurrentApart ==
    ASSUME NEW p \in PoolRec, Distinct(p.blocks), CurrentInv(p),
           p.blocks # <<>>, p.currentSlot_ < p.lastSlot_,
           NEW a \in Nat, Placed(p, a)
    PROVE  a # p.currentSlot_ /\ ~Overlap(a, p.currentSlot_)
           /\ ~Overlap(p.currentSlot_, a)
<1>1. PICK bs \in Seq(Bases), c \in Nat : bs = p.blocks /\ c = p.currentSlot_
  BY DEF PoolRec
<1>2. PICK i \in 1..Len(bs) :
        InBlock(a, bs[i]) /\ (i = 1 => a + SlotSize <= c)
  BY <1>1 DEF Placed
<1>3. Len(bs) \in Nat /\ 1 \in 1..Len(bs)
  BY <1>2, LenProperties
<1>4. PICK b \in Bases, d \in Bases : b = bs[1] /\ d = bs[i]
  BY <1>2, <1>3, ElementOfSeq
<1>5. b \in Nat /\ d \in Nat
  BY SizesNat
<1>6. /\ c >= b + PtrSize /\ c + SlotSize <= b + BlockSize
  <2>1. /\ p.lastSlot_ = b + BlockSize - SlotSize + 1 /\ c >= FirstSlot(b)
    BY <1>1, <1>4 DEF CurrentInv
  <2>2. FirstSlot(b) = b + Lead
    BY FirstSlotIs
  <2>3. c < b + BlockSize - SlotSize + 1
    BY <1>1, <2>1
  <2> QED BY <1>5, <2>1, <2>2, <2>3, SizesNat, LeadIs
<1>7. CASE i = 1
  BY <1>1, <1>2, <1>7, SizesNat DEF Overlap
<1>8. CASE i # 1
  <2>1. b # d
    BY <1>1, <1>3, <1>4, <1>8 DEF Distinct
  <2>2. b + BlockSize <= d \/ d + BlockSize <= b
    BY <1>5, <2>1, PoolAssumption
  <2>3. a >= d + PtrSize /\ a + SlotSize <= d + BlockSize
    BY <1>2, <1>4 DEF InBlock
  <2>4. a + SlotSize <= c \/ c + SlotSize <= a
    <3>1. CASE b + BlockSize <= d
      BY <1>5, <1>6, <2>3, <3>1, SizesNat
    <3>2. CASE d + BlockSize <= b
      BY <1>5, <1>6, <2>3, <3>2, SizesNat
    <3> QED BY <2>2, <3>1, <3>2
  <2>5. a # c /\ ~Overlap(a, c) /\ ~Overlap(c, a)
    BY <2>4, SizesNat DEF Overlap
  <2> QED BY <1>1, <2>5
<1> QED BY <1>7, <1>8

(* allocate, from the current block.                                       *)
LEMMA CarveOK ==
    ASSUME NEW p, NEW used, NEW n \in Nat, PoolOK(p, used, n),
           p.freeSlots_ = <<>>, p.currentSlot_ < p.lastSlot_,
           NEW q, q = [p EXCEPT !.currentSlot_ = p.currentSlot_ + SlotSize]
    PROVE  /\ p.currentSlot_ \notin used /\ p.currentSlot_ \in Nat
           /\ PoolOK(q, used \cup {p.currentSlot_}, n + 1)
<1>1. p \in PoolRec /\ CurrentInv(p) /\ Distinct(p.blocks)
  BY DEF PoolOK
<1>2. p.blocks # <<>>
  BY <1>1 DEF CurrentInv
<1>3. PICK bs \in Seq(Bases), c \in Nat : bs = p.blocks /\ c = p.currentSlot_
  BY <1>1 DEF PoolRec
<1>4. Len(bs) \in Nat /\ Len(bs) > 0
  BY <1>2, <1>3, LenProperties, EmptySeq
<1>5. PICK b \in Bases : b = bs[1]
  BY <1>4, ElementOfSeq
<1>6. b \in Nat /\ FirstSlot(b) = b + Lead /\ FirstSlot(b) % Align = 0
  BY FirstSlotIs
<1>7. /\ p.lastSlot_ = b + BlockSize - SlotSize + 1
      /\ c >= FirstSlot(b) /\ c <= b + BlockSize /\ c % Align = 0
      /\ (c - FirstSlot(b)) % SlotSize = 0
  BY <1>1, <1>2, <1>3, <1>5 DEF CurrentInv
<1>8. c + SlotSize <= b + BlockSize
  <2>1. c < b + BlockSize - SlotSize + 1
    BY <1>3, <1>7
  <2> QED BY <1>6, <2>1, SizesNat
<1>9. PICK d \in Nat : d = c + SlotSize
  BY SizesNat
<1>10. /\ q \in PoolRec /\ q.freeSlots_ = <<>> /\ q.blocks = bs
       /\ q.currentSlot_ = d /\ q.lastSlot_ = p.lastSlot_
  <2>1. q = [p EXCEPT !.currentSlot_ = d]
    BY <1>3, <1>9
  <2> QED BY <1>1, <1>3, <2>1 DEF PoolRec
<1>11. Free(p) = {} /\ Free(q) = {}
  BY <1>10 DEF Free, ToSet
<1>12. /\ d % Align = 0 /\ (d - FirstSlot(b)) % SlotSize = 0
       /\ (d - FirstSlot(b)) \div SlotSize
            = ((c - FirstSlot(b)) \div SlotSize) + 1
  <2>1. SlotSize % Align = 0
    BY PoolAssumption
  <2>2. d % Align = 0
    <3>1. PICK z \in Int, y \in Nat \ {0} : z = SlotSize /\ y = Align
      BY SizesNat
    <3>2. c % y = 0 /\ z % y = 0
      BY <1>7, <2>1, <3>1
    <3>3. (c + z) % y = z % y
      BY <3>2, ModAdd
    <3> QED BY <1>9, <3>1, <3>2, <3>3
  <2>3. PICK x \in Int, y \in Nat \ {0} : x = c - FirstSlot(b) /\ y = SlotSize
    BY <1>6, SizesNat, LeadIs
  <2>4. x % y = 0
    BY <1>7, <2>3
  <2>5. (x + y) % y = 0 /\ (x + y) \div y = (x \div y) + 1
    BY <2>4, NextMultiple
  <2>6. x + y = d - FirstSlot(b)
    BY <1>6, <1>9, <2>3, LeadIs
  <2> QED BY <2>2, <2>3, <2>5, <2>6
<1>13. CurrentInv(q)
  <2>1. q.blocks # <<>> /\ q.blocks[1] = b
    BY <1>2, <1>3, <1>5, <1>10
  <2>2. d >= FirstSlot(b) /\ d <= b + BlockSize
    BY <1>6, <1>7, <1>8, <1>9, SizesNat, LeadIs
  <2> QED BY <1>7, <1>10, <1>12, <2>1, <2>2 DEF CurrentInv
<1>14. ASSUME NEW a \in used
       PROVE  /\ a \in Nat /\ Placed(q, a) /\ a # c
              /\ ~Overlap(a, c) /\ ~Overlap(c, a)
  <2>1. a \in Nat /\ Placed(p, a)
    BY DEF PoolOK
  <2>2. Placed(q, a)
    BY <1>3, <1>9, <1>10, <2>1, SizesNat DEF Placed
  <2>3. a # c /\ ~Overlap(a, c) /\ ~Overlap(c, a)
    BY <1>1, <1>2, <1>3, <2>1, CurrentApart
  <2> QED BY <2>1, <2>2, <2>3
<1>15. Placed(q, c)
  <2>1. c >= b + PtrSize
    BY <1>6, <1>7, LeadIs, SizesNat
  <2>2. InBlock(c, q.blocks[1])
    BY <1>5, <1>7, <1>8, <1>10, <2>1 DEF InBlock
  <2>3. 1 \in 1..Len(q.blocks)
    BY <1>4, <1>10
  <2>4. c + SlotSize <= q.currentSlot_
    BY <1>9, <1>10
  <2> QED BY <2>2, <2>3, <2>4 DEF Placed
<1>16. Apart(used \cup {c})
  <2>1. \A x, y \in used : x # y => ~Overlap(x, y)
    BY <1>11 DEF PoolOK, Apart
  <2> QED BY <1>14, <2>1 DEF Apart
<1>17. (n + 1) + Len(q.freeSlots_) = Carved(q)
  <2>1. n = Carved(p)
    <3>1. Len(p.freeSlots_) = 0
      BY EmptySeq
    <3> QED BY <3>1 DEF PoolOK
  <2>2. PICK k \in Int, m \in Int :
          /\ k = (c - FirstSlot(b)) \div SlotSize
          /\ m = (Len(bs) - 1) * PerBlock
    <3>1. PerBlock \in Int
      BY <1>1, <1>3, <1>4, CarvedIs
    <3>2. c - FirstSlot(b) \in Int
      BY <1>6, LeadIs
    <3> QED BY <1>4, <3>1, <3>2, SizesNat, DivMod
  <2>3. Carved(p) = m + k
    BY <1>1, <1>3, <1>4, <1>5, <2>2, CarvedIs
  <2>4. Carved(q) = m + (k + 1)
    BY <1>4, <1>5, <1>10, <1>12, <2>2, CarvedIs
  <2>5. Len(q.freeSlots_) = 0
    BY <1>10, EmptySeq
  <2> QED BY <2>1, <2>2, <2>3, <2>4, <2>5
<1>18. Distinct(q.blocks) /\ Distinct(q.freeSlots_)
  BY <1>1, <1>3, <1>10, EmptySeq DEF Distinct
<1>19. c \notin used
  BY <1>14
<1>20. PoolOK(q, used \cup {c}, n + 1)
  BY <1>10, <1>11, <1>13, <1>14, <1>15, <1>16, <1>17, <1>18 DEF PoolOK
<1> QED BY <1>3, <1>19, <1>20

(* allocate, when the current block is used up: the new block has room.    *)
LEMMA NewBlockOK ==
    ASSUME NEW p, NEW used, NEW n \in Nat, PoolOK(p, used, n),
           p.freeSlots_ = <<>>, p.currentSlot_ >= p.lastSlot_,
           NEW base \in Bases \ {p.blocks[i] : i \in DOMAIN p.blocks}
    PROVE  /\ PoolOK(NewBlock(p, base), used, n)
           /\ NewBlock(p, base).freeSlots_ = <<>>
           /\ NewBlock(p, base).currentSlot_ < NewBlock(p, base).lastSlot_
<1>1. p \in PoolRec /\ CurrentInv(p) /\ Distinct(p.blocks)
  BY DEF PoolOK
<1>2. PICK bs \in Seq(Bases), c \in Nat : bs = p.blocks /\ c = p.currentSlot_
  BY <1>1 DEF PoolRec
<1>3. Len(bs) \in Nat /\ DOMAIN bs = 1..Len(bs)
  BY LenProperties
<1>4. base \in Bases /\ base \notin ToSet(bs)
  BY <1>2 DEF ToSet
<1>5. PICK cs : cs = <<base>> \o bs
  OBVIOUS
<1>6. /\ cs \in Seq(Bases) /\ Len(cs) = Len(bs) + 1 /\ cs[1] = base
      /\ \A j \in 2..(Len(bs) + 1) : cs[j] = bs[j - 1]
  BY <1>4, <1>5, ConsIs
<1>7. Distinct(cs)
  BY <1>1, <1>2, <1>4, <1>5, ConsSet
<1>8. base \in Nat /\ FirstSlot(base) = base + Lead
      /\ FirstSlot(base) % Align = 0
  BY FirstSlotIs
<1>9. PICK d \in Nat, l \in Int :
        d = FirstSlot(base) /\ l = base + BlockSize - SlotSize + 1
  BY <1>8, LeadIs, SizesNat
<1>10. PICK q : q = NewBlock(p, base)
  OBVIOUS
<1>11. /\ q \in PoolRec /\ q.blocks = cs /\ q.currentSlot_ = d
       /\ q.lastSlot_ = l /\ q.freeSlots_ = <<>>
  <2>1. q = [p EXCEPT !.blocks = cs, !.currentSlot_ = d, !.lastSlot_ = l]
    BY <1>2, <1>5, <1>9, <1>10 DEF NewBlock, FirstSlot
  <2> QED BY <1>1, <1>6, <2>1 DEF PoolRec
<1>12. d < l /\ d <= base + BlockSize
  BY <1>8, <1>9, LeadIs, SizesNat
<1>13. Free(p) = {} /\ Free(q) = {}
  BY <1>11 DEF Free, ToSet
<1>14. CurrentInv(q)
  <2>1. cs # <<>>
    BY <1>3, <1>6, EmptySeq
  <2>2. d - FirstSlot(base) = 0 /\ 0 % SlotSize = 0
    BY <1>9, SizesNat
  <2>3. d >= FirstSlot(base)
    BY <1>9
  <2> QED BY <1>6, <1>8, <1>9, <1>11, <1>12, <2>1, <2>2, <2>3 DEF CurrentInv
<1>15. ASSUME NEW a \in used
       PROVE  a \in Nat /\ Placed(q, a)
  <2>1. a \in Nat /\ Placed(p, a)
    BY DEF PoolOK
  <2>2. PICK i \in 1..Len(bs) : InBlock(a, bs[i])
    BY <1>2, <2>1 DEF Placed
  <2>3. /\ i + 1 \in 2..(Len(bs) + 1) /\ (i + 1) - 1 = i /\ i + 1 # 1
        /\ i + 1 \in 1..Len(cs)
    BY <1>3, <1>6
  <2>4. cs[i + 1] = bs[i]
    BY <1>6, <2>3
  <2> QED BY <1>11, <2>1, <2>2, <2>3, <2>4 DEF Placed
<1>16. n = Carved(p)
  <2>1. Len(p.freeSlots_) = 0
    BY EmptySeq
  <2> QED BY <2>1 DEF PoolOK
<1>17. n = Carved(q)
  <2>1. PerBlock \in Int /\ Carved(q) = Len(bs) * PerBlock
    <3>1. Len(q.blocks) > 0 /\ Len(q.blocks) - 1 = Len(bs)
      BY <1>3, <1>6, <1>11
    <3>2. /\ PerBlock \in Int
          /\ Carved(q) = (Len(q.blocks) - 1) * PerBlock
                + (q.currentSlot_ - FirstSlot(q.blocks[1])) \div SlotSize
      BY <1>11, <3>1, CarvedIs
    <3>3. q.currentSlot_ - FirstSlot(q.blocks[1]) = 0 /\ 0 \div SlotSize = 0
      BY <1>6, <1>9, <1>11, SizesNat
    <3>4. PICK z \in Int : z = Len(bs) * PerBlock
      BY <1>3, <3>2
    <3>5. Carved(q) = z + 0
      BY <3>1, <3>2, <3>3, <3>4, Zenon
    <3> QED BY <3>2, <3>4, <3>5
  <2>2. CASE bs = <<>>
    <3>1. Len(bs) = 0 /\ Carved(p) = 0
      BY <1>2, <2>2, EmptySeq DEF Carved
    <3> QED BY <1>16, <2>1, <3>1
  <2>3. CASE bs # <<>>
    <3>1. Len(bs) > 0
      BY <1>3, <2>3, EmptySeq
    <3>2. PICK b \in Bases : b = bs[1]
      BY <1>3, <3>1, ElementOfSeq
    <3>3. /\ p.lastSlot_ = b + BlockSize - SlotSize + 1
          /\ c >= FirstSlot(b) /\ c <= b + BlockSize
          /\ (c - FirstSlot(b)) % SlotSize = 0
      BY <1>1, <1>2, <2>3, <3>2 DEF CurrentInv
    <3>4. b \in Nat /\ FirstSlot(b) = b + Lead
      BY FirstSlotIs
    <3>5. (c - FirstSlot(b)) \div SlotSize = PerBlock
      <4>1. PICK x \in Int, y \in Nat \ {0}, r \in Int :
              /\ x = c - FirstSlot(b) /\ y = SlotSize
              /\ r = BlockSize - Lead
        BY <3>4, LeadIs, SizesNat
      <4>2. x <= r
        BY <3>3, <3>4, <4>1, LeadIs, SizesNat
      <4>3. r < x + y
        <5>1. c >= b + BlockSize - SlotSize + 1
          BY <1>2, <3>3
        <5> QED BY <3>4, <4>1, <5>1, LeadIs, SizesNat
      <4>4. x % y = 0
        BY <3>3, <4>1
      <4>5. r \div y = x \div y
        BY <4>2, <4>3, <4>4, LastMultiple
      <4> QED BY <4>1, <4>5 DEF PerBlock
    <3>6. Carved(p) = (Len(bs) - 1) * PerBlock + PerBlock
      BY <1>1, <1>2, <3>1, <3>2, <3>5, CarvedIs
    <3>7. (Len(bs) - 1) * PerBlock + PerBlock = Len(bs) * PerBlock
      BY <1>3, <2>1
    <3> QED BY <1>16, <2>1, <3>6, <3>7
  <2> QED BY <2>2, <2>3
<1>18. n + Len(q.freeSlots_) = Carved(q)
  <2>1. Len(q.freeSlots_) = 0
    BY <1>11, EmptySeq
  <2> QED BY <1>17, <2>1
<1>19. Apart(used \cup Free(q))
  BY <1>13 DEF PoolOK
<1>20. Distinct(q.blocks) /\ Distinct(q.freeSlots_)
  BY <1>7, <1>11, EmptySeq DEF Distinct
<1>21. PoolOK(q, used, n)
  BY <1>11, <1>13, <1>14, <1>15, <1>18, <1>19, <1>20 DEF PoolOK
<1> QED BY <1>10, <1>11, <1>12, <1>21

(* allocate() returns a slot nobody uses and keeps the pool sound,         *)
(* whether from the free list, the current block or a new one.             *)
LEMMA AllocateOK ==
    ASSUME NEW p, NEW used, NEW n \in Nat, PoolOK(p, used, n),
           NEW r \in Allocate(p)
    PROVE  /\ r.slot \notin used /\ r.slot \in Nat
           /\ PoolOK(r.pool, used \cup {r.slot}, n + 1)
<1>1. CASE p.freeSlots_ # <<>>
  <2>1. r = [slot |-> Head(p.freeSlots_),
             pool |-> [p EXCEPT !.freeSlots_ = Tail(p.freeSlots_)]]
    BY <1>1 DEF Allocate
  <2>2. /\ r.slot = Head(p.freeSlots_)
        /\ r.pool = [p EXCEPT !.freeSlots_ = Tail(p.freeSlots_)]
    BY <2>1
  <2>3. /\ Head(p.freeSlots_) \notin used /\ Head(p.freeSlots_) \in Nat
        /\ PoolOK(r.pool, used \cup {Head(p.freeSlots_)}, n + 1)
    BY <1>1, <2>2, TakeFreeOK
  <2> QED BY <2>2, <2>3
<1>2. CASE p.freeSlots_ = <<>> /\ p.currentSlot_ >= p.lastSlot_
  <2>1. PICK base \in Bases \ {p.blocks[i] : i \in DOMAIN p.blocks} :
          r = [slot |-> NewBlock(p, base).currentSlot_,
               pool |-> [NewBlock(p, base) EXCEPT
                  !.currentSlot_ = NewBlock(p, base).currentSlot_ + SlotSize]]
    BY <1>2 DEF Allocate
  <2>2. PICK q : q = NewBlock(p, base)
    OBVIOUS
  <2>3. PoolOK(q, used, n) /\ q.freeSlots_ = <<>>
        /\ q.currentSlot_ < q.lastSlot_
    BY <1>2, <2>2, NewBlockOK
  <2>4. r = [slot |-> q.currentSlot_,
             pool |-> [q EXCEPT !.currentSlot_ = q.currentSlot_ + SlotSize]]
    BY <2>1, <2>2
  <2>5. /\ r.slot = q.currentSlot_
        /\ r.pool = [q EXCEPT !.currentSlot_ = q.currentSlot_ + SlotSize]
    BY <2>4
  <2> QED BY <2>3, <2>5, CarveOK
<1>3. CASE p.freeSlots_ = <<>> /\ ~(p.currentSlot_ >= p.lastSlot_)
  <2>1. r = [slot |-> p.currentSlot_,
             pool |-> [p EXCEPT !.currentSlot_ = p.currentSlot_ + SlotSize]]
    BY <1>3 DEF Allocate
  <2>2. /\ r.slot = p.currentSlot_
        /\ r.pool = [p EXCEPT !.currentSlot_ = p.currentSlot_ + SlotSize]
    BY <2>1
  <2>3. p.currentSlot_ < p.lastSlot_
    BY <1>3 DEF PoolOK, PoolRec
  <2> QED BY <1>3, <2>2, <2>3, CarveOK
<1> QED BY <1>1, <1>2, <1>3

-----------------------------------------------------------------------------
(* The list, the nodes and the index.                                      *)

(* Moving a node to the front, with its value overwritten or not, keeps    *)
(* list, nodes and index linked.                                           *)
LEMMA TouchOK ==
    ASSUME NEW l, NEW nd, NEW m, Linked(l, nd, m), NEW i \in 1..Len(l),
           NEW ne \in [ToSet(l) -> Node],
           \A a \in ToSet(l) : ne[a].key = nd[a].key
    PROVE  Linked(Splice(l, l[i]), ne, m) /\ Len(Splice(l, l[i])) = Len(l)
           /\ ToSet(Splice(l, l[i])) = ToSet(l)
<1>1. l \in Seq(Nat) /\ Distinct(l)
  BY DEF Linked
<1>2. PICK t : t = Splice(l, l[i])
  OBVIOUS
<1>3. /\ t \in Seq(Nat) /\ Len(t) = Len(l) /\ Distinct(t)
      /\ ToSet(t) = ToSet(l)
  BY <1>1, <1>2, SpliceIs
<1>4. \A k \in DOMAIN m : m[k] \in ToSet(l) /\ ne[m[k]].key = k
  BY DEF Linked
<1>5. Linked(t, ne, m)
  BY <1>3, <1>4 DEF Linked
<1> QED BY <1>2, <1>3, <1>5

(* Removing the last node and its key keeps list, nodes and index linked.  *)
LEMMA EvictOK ==
    ASSUME NEW l, NEW nd, NEW m, Linked(l, nd, m), Len(l) > 0
    PROVE  Linked(Front(l), Without(nd, Last(l)),
                  Without(m, nd[Last(l)].key))
<1>1. l \in Seq(Nat) /\ Distinct(l) /\ Len(l) \in Nat
  BY LenProperties DEF Linked
<1>2. PICK f, a : f = Front(l) /\ a = Last(l)
  OBVIOUS
<1>3. /\ f \in Seq(Nat) /\ Len(f) = Len(l) - 1 /\ Distinct(f)
      /\ a \in ToSet(l) /\ ToSet(f) = ToSet(l) \ {a}
  BY <1>1, <1>2, FrontIs
<1>4. PICK x : x = nd[a].key
  OBVIOUS
<1>5. x \in DOMAIN m /\ m[x] = a
  BY <1>3, <1>4 DEF Linked
<1>6. PICK ne : ne = Without(nd, a)
  OBVIOUS
<1>7. PICK mm : mm = Without(m, x)
  OBVIOUS
<1>8. DOMAIN nd = ToSet(l) /\ \A b \in ToSet(l) : nd[b] \in Node
  BY DEF Linked
<1>9. ne \in [ToSet(f) -> Node] /\ \A b \in ToSet(f) : ne[b] = nd[b]
  BY <1>3, <1>6, <1>8 DEF Without
<1>10. DOMAIN mm = DOMAIN m \ {x} /\ \A k \in DOMAIN m \ {x} : mm[k] = m[k]
  BY <1>7 DEF Without
<1>11. ASSUME NEW k \in DOMAIN mm
       PROVE  mm[k] \in ToSet(f) /\ ne[mm[k]].key = k
  <2>1. k \in DOMAIN m /\ k # x /\ mm[k] = m[k]
    BY <1>10
  <2>2. m[k] \in ToSet(l) /\ nd[m[k]].key = k
    BY <2>1 DEF Linked
  <2>3. m[k] # a
    BY <1>4, <2>1, <2>2
  <2> QED BY <1>3, <1>9, <2>1, <2>2, <2>3
<1>12. ASSUME NEW b \in ToSet(f)
       PROVE  ne[b].key \in DOMAIN mm /\ mm[ne[b].key] = b
  <2>1. b \in ToSet(l) /\ b # a /\ ne[b] = nd[b]
    BY <1>3, <1>9
  <2>2. nd[b].key \in DOMAIN m /\ m[nd[b].key] = b
    BY <2>1 DEF Linked
  <2>3. nd[b].key # x
    BY <1>5, <2>1, <2>2
  <2> QED BY <1>10, <2>1, <2>2, <2>3
<1>13. mm \in [DOMAIN mm -> ToSet(f)]
  <2>1. mm = [k \in DOMAIN mm |-> mm[k]]
    BY <1>7 DEF Without
  <2> QED BY <1>11, <2>1
<1>14. IsFiniteSet(DOMAIN mm) /\ Cardinality(DOMAIN mm) = Len(f)
  <2>1. IsFiniteSet(DOMAIN m) /\ Cardinality(DOMAIN m) = Len(l)
    BY DEF Linked
  <2>2. /\ IsFiniteSet(DOMAIN m \ {x})
        /\ Cardinality(DOMAIN m \ {x}) = Cardinality(DOMAIN m) - 1
    BY <1>5, <2>1, FS_RemoveElement
  <2> QED BY <1>3, <1>10, <2>1, <2>2
<1>15. Linked(f, ne, mm)
  BY <1>3, <1>9, <1>11, <1>12, <1>13, <1>14 DEF Linked
<1> QED BY <1>2, <1>4, <1>6, <1>7, <1>15

(* A new node in front, with its key in the index, keeps list, nodes and   *)
(* index linked.                                                           *)
LEMMA InsertOK ==
    ASSUME NEW l, NEW nd, NEW m, Linked(l, nd, m),
           NEW a \in Nat, a \notin ToSet(l),
           NEW k \in Keys, k \notin DOMAIN m, NEW v \in Values
    PROVE  /\ Linked(<<a>> \o l, With(nd, a, [key |-> k, value |-> v]),
                     With(m, k, a))
           /\ Len(<<a>> \o l) = Len(l) + 1
           /\ ToSet(<<a>> \o l) = ToSet(l) \cup {a}
<1>1. l \in Seq(Nat) /\ Distinct(l) /\ Len(l) \in Nat
  BY LenProperties DEF Linked
<1>2. PICK t : t = <<a>> \o l
  OBVIOUS
<1>3. /\ t \in Seq(Nat) /\ Len(t) = Len(l) + 1 /\ Distinct(t)
      /\ ToSet(t) = {a} \cup ToSet(l)
  BY <1>1, <1>2, ConsIs, ConsSet
<1>4. PICK e \in Node : e = [key |-> k, value |-> v]
  BY DEF Node
<1>5. PICK ne : ne = With(nd, a, e)
  OBVIOUS
<1>6. PICK mm : mm = With(m, k, a)
  OBVIOUS
<1>7. DOMAIN nd = ToSet(l) /\ \A b \in ToSet(l) : nd[b] \in Node
  BY DEF Linked
<1>8. ne \in [ToSet(t) -> Node] /\ ne[a] = e
      /\ \A b \in ToSet(l) : ne[b] = nd[b]
  BY <1>3, <1>5, <1>7 DEF With
<1>9. /\ DOMAIN mm = DOMAIN m \cup {k} /\ mm[k] = a
      /\ \A x \in DOMAIN m : mm[x] = m[x]
  BY <1>6 DEF With
<1>10. ASSUME NEW x \in DOMAIN mm
       PROVE  mm[x] \in ToSet(t) /\ ne[mm[x]].key = x
  <2>1. CASE x = k
    BY <1>3, <1>4, <1>8, <1>9, <2>1
  <2>2. CASE x # k
    <3>1. m[x] \in ToSet(l) /\ nd[m[x]].key = x /\ mm[x] = m[x]
      BY <1>9, <2>2 DEF Linked
    <3> QED BY <1>3, <1>8, <3>1
  <2> QED BY <2>1, <2>2
<1>11. ASSUME NEW b \in ToSet(t)
       PROVE  ne[b].key \in DOMAIN mm /\ mm[ne[b].key] = b
  <2>1. CASE b = a
    BY <1>4, <1>8, <1>9, <2>1
  <2>2. CASE b # a
    <3>1. b \in ToSet(l) /\ ne[b] = nd[b]
      BY <1>3, <1>8, <2>2
    <3>2. nd[b].key \in DOMAIN m /\ m[nd[b].key] = b
      BY <3>1 DEF Linked
    <3> QED BY <1>9, <3>1, <3>2
  <2> QED BY <2>1, <2>2
<1>12. mm \in [DOMAIN mm -> ToSet(t)]
  <2>1. mm = [x \in DOMAIN mm |-> mm[x]]
    BY <1>6 DEF With
  <2> QED BY <1>10, <2>1
<1>13. IsFiniteSet(DOMAIN mm) /\ Cardinality(DOMAIN mm) = Len(t)
  <2>1. IsFiniteSet(DOMAIN m) /\ Cardinality(DOMAIN m) = Len(l)
    BY DEF Linked
  <2>2. /\ IsFiniteSet(DOMAIN m \cup {k})
        /\ Cardinality(DOMAIN m \cup {k}) = Cardinality(DOMAIN m) + 1
    BY <2>1, FS_AddElement
  <2> QED BY <1>3, <1>9, <2>1, <2>2
<1>14. Linked(t, ne, mm)
  BY <1>3, <1>8, <1>10, <1>11, <1>12, <1>13 DEF Linked
<1>15. ToSet(t) = ToSet(l) \cup {a}
  BY <1>3
<1> QED BY <1>2, <1>3, <1>4, <1>5, <1>6, <1>14, <1>15

(* The list position the index leads to.                                   *)
LEMMA FoundAt ==
    ASSUME NEW l, NEW nd, NEW m, Linked(l, nd, m), NEW k \in DOMAIN m
    PROVE  \E i \in 1..Len(l) : l[i] = m[k]
<1>1. m[k] \in ToSet(l) /\ l \in Seq(Nat)
  BY DEF Linked
<1> QED BY <1>1, ToSetIs

-----------------------------------------------------------------------------
(* The invariant holds initially.                                          *)
LEMMA InvInit == Init => Inv
<1> SUFFICES ASSUME Init PROVE Inv
  OBVIOUS
<1>1. my_list = <<>> /\ map = <<>> /\ node = <<>> /\ allocator_ = EmptyPool
  BY DEF Init
<1>2. my_list \in Seq(Nat) /\ Len(my_list) = 0 /\ ToSet(my_list) = {}
  BY <1>1 DEF ToSet
<1>3. ListInv
  <2>1. DOMAIN map = {} /\ DOMAIN node = {}
    BY <1>1
  <2>2. node \in [{} -> Node] /\ map \in [DOMAIN map -> {}]
    BY <1>1
  <2>3. IsFiniteSet(DOMAIN map) /\ Cardinality(DOMAIN map) = 0
    BY <2>1, FS_EmptySet
  <2> QED BY <1>2, <2>1, <2>2, <2>3 DEF ListInv, Linked, Distinct
<1>4. CapacityInv
  <2>1. capacity \in (Nat \ {0}) \cup {-1}
    BY CapacityAssumption DEF Init
  <2> QED BY <1>2, <2>1 DEF CapacityInv
<1>5. PoolInv
  <2>1. PICK p : p = EmptyPool
    OBVIOUS
  <2>2. /\ p.blocks = <<>> /\ p.currentSlot_ = 0 /\ p.lastSlot_ = 0
        /\ p.freeSlots_ = <<>>
    BY <2>1 DEF EmptyPool, nullptr
  <2>3. p \in PoolRec
    <3>1. <<>> \in Seq(Bases) /\ <<>> \in Seq(Nat)
      OBVIOUS
    <3> QED BY <2>1, <3>1 DEF EmptyPool, nullptr, PoolRec
  <2>4. Free(p) = {} /\ Len(p.freeSlots_) = 0 /\ Len(p.blocks) = 0
    BY <2>2 DEF Free, ToSet
  <2>5. CurrentInv(p) /\ Carved(p) = 0
    BY <2>2 DEF CurrentInv, Carved
  <2>6. PoolOK(p, {}, 0)
    BY <2>3, <2>4, <2>5 DEF PoolOK, Distinct, Apart
  <2> QED BY <1>1, <1>2, <2>1, <2>6 DEF PoolInv
<1> QED BY <1>3, <1>4, <1>5 DEF Inv

(* get, and push of a known key: the node moves to the front.              *)
LEMMA TouchStep ==
    ASSUME Inv, NEW k \in DOMAIN map,
           my_list' = Splice(my_list, map[k]),
           node' \in [ToSet(my_list) -> Node],
           \A a \in ToSet(my_list) : node'[a].key = node[a].key,
           UNCHANGED <<capacity, map, allocator_, alive>>
    PROVE  Inv'
<1>1. Linked(my_list, node, map)
  BY DEF Inv, ListInv
<1>2. PICK i \in 1..Len(my_list) : my_list[i] = map[k]
  BY <1>1, FoundAt
<1>3. /\ Linked(my_list', node', map) /\ Len(my_list') = Len(my_list)
      /\ ToSet(my_list') = ToSet(my_list)
  BY <1>1, <1>2, TouchOK
<1>4. ListInv'
  BY <1>3 DEF ListInv
<1>5. CapacityInv'
  BY <1>3 DEF Inv, CapacityInv
<1>6. PoolInv'
  BY <1>3 DEF Inv, PoolInv
<1> QED BY <1>4, <1>5, <1>6 DEF Inv

(* get() preserves the invariant.                                          *)
LEMMA GetStep ==
    ASSUME Inv, NEW k \in Keys, get(k)
    PROVE  Inv'
<1>1. CASE k \in DOMAIN map
  <2>1. /\ my_list' = Splice(my_list, map[k]) /\ node' = node
        /\ UNCHANGED <<capacity, map, allocator_, alive>>
    BY <1>1 DEF get
  <2>2. node' \in [ToSet(my_list) -> Node]
    BY <2>1 DEF Inv, ListInv, Linked
  <2> QED BY <1>1, <2>1, <2>2, TouchStep
<1>2. CASE k \notin DOMAIN map
  <2>1. UNCHANGED <<my_list, node, capacity, map, allocator_, alive>>
    BY <1>2 DEF get
  <2> QED BY <2>1 DEF Inv, ListInv, CapacityInv, PoolInv
<1> QED BY <1>1, <1>2

(* push() of a key in the cache preserves the invariant and overwrites     *)
(* the value of that key.                                                  *)
LEMMA PushKnownStep ==
    ASSUME Inv, NEW k \in Keys, NEW v \in Values, PushKnown(k, v),
           UNCHANGED <<capacity, alive>>
    PROVE  /\ Inv'
           /\ node' = [node EXCEPT ![map[k]] = [key |-> k, value |-> v]]
<1>1. k \in DOMAIN map /\ my_list' = Splice(my_list, map[k])
      /\ UNCHANGED <<map, allocator_>>
  BY DEF PushKnown
<1>2. /\ node \in [ToSet(my_list) -> Node] /\ map[k] \in ToSet(my_list)
      /\ node[map[k]].key = k
  BY <1>1 DEF Inv, ListInv, Linked
<1>3. PICK a \in ToSet(my_list), e \in Node : a = map[k] /\ e = node[a]
  BY <1>2
<1>4. PICK f \in Node : f = [key |-> k, value |-> v]
  BY DEF Node
<1>5. [e EXCEPT !.value = v] = f
  BY <1>2, <1>3, <1>4 DEF Node
<1>6. node' = [node EXCEPT ![a] = f]
  <2>1. node' = [node EXCEPT ![a] = [e EXCEPT !.value = v]]
    BY <1>2, <1>3 DEF PushKnown
  <2> QED BY <1>5, <2>1
<1>7. node' \in [ToSet(my_list) -> Node]
  BY <1>2, <1>6
<1>8. \A b \in ToSet(my_list) : node'[b].key = node[b].key
  BY <1>2, <1>3, <1>4, <1>6
<1> QED BY <1>1, <1>3, <1>4, <1>6, <1>7, <1>8, TouchStep

(* The cache with room for a new key.                                      *)
LEMMA EvictedOK ==
    ASSUME Inv, alive
    PROVE  /\ Linked(Evicted.list, Evicted.node, Evicted.map)
           /\ DOMAIN Evicted.map \subseteq DOMAIN map
           /\ PoolOK(Evicted.pool, ToSet(Evicted.list), Len(Evicted.list))
           /\ capacity # -1 => Len(Evicted.list) < capacity
<1>1. Linked(my_list, node, map) /\ my_list \in Seq(Nat)
      /\ Distinct(my_list) /\ Len(my_list) \in Nat
  BY LenProperties DEF Inv, ListInv, Linked
<1>2. PoolOK(allocator_, ToSet(my_list), Len(my_list))
  BY DEF Inv, PoolInv
<1>3. CASE capacity # -1 /\ Len(my_list) >= capacity
  <2>1. capacity \in Nat /\ capacity > 0 /\ Len(my_list) = capacity
    BY <1>1, <1>3 DEF Inv, CapacityInv
  <2>2. PICK t : t = Last(my_list)
    OBVIOUS
  <2>3. Evicted =
          [list |-> Front(my_list), map |-> Without(map, node[t].key),
           node |-> Without(node, t), pool |-> Deallocate(allocator_, t)]
    BY <1>3, <2>2 DEF Evicted
  <2>4. /\ Evicted.list = Front(my_list)
        /\ Evicted.map = Without(map, node[t].key)
        /\ Evicted.node = Without(node, t)
        /\ Evicted.pool = Deallocate(allocator_, t)
    BY <2>3
  <2>5. Linked(Evicted.list, Evicted.node, Evicted.map)
    BY <1>1, <2>1, <2>2, <2>4, EvictOK
  <2>6. /\ Len(Front(my_list)) = Len(my_list) - 1 /\ t \in ToSet(my_list)
        /\ ToSet(Front(my_list)) = ToSet(my_list) \ {t}
    BY <1>1, <2>1, <2>2, FrontIs
  <2>7. PoolOK(Evicted.pool, ToSet(Evicted.list), Len(Evicted.list))
    <3>1. Len(my_list) > 0
      BY <2>1
    <3> QED BY <1>1, <1>2, <2>4, <2>6, <3>1, DeallocateOK
  <2>8. DOMAIN Evicted.map \subseteq DOMAIN map
    BY <2>4 DEF Without
  <2>9. Len(Evicted.list) < capacity
    BY <2>1, <2>4, <2>6
  <2> QED BY <2>5, <2>7, <2>8, <2>9
<1>4. CASE ~(capacity # -1 /\ Len(my_list) >= capacity)
  <2>1. Evicted = [list |-> my_list, map |-> map, node |-> node,
                   pool |-> allocator_]
    BY <1>4 DEF Evicted
  <2>2. /\ Evicted.list = my_list /\ Evicted.map = map
        /\ Evicted.node = node /\ Evicted.pool = allocator_
    BY <2>1
  <2>3. capacity # -1 => Len(my_list) < capacity
    BY <1>1, <1>4 DEF Inv, CapacityInv
  <2> QED BY <1>1, <1>2, <2>2, <2>3
<1> QED BY <1>3, <1>4

(* push() of a new key, with the eviction it may need, preserves the       *)
(* invariant.                                                              *)
LEMMA PushNewStep ==
    ASSUME Inv, alive, NEW k \in Keys, NEW v \in Values, PushNew(k, v),
           UNCHANGED <<capacity, alive>>
    PROVE  Inv'
<1>1. PICK l, nd, m, p : /\ l = Evicted.list /\ nd = Evicted.node
                         /\ m = Evicted.map /\ p = Evicted.pool
  OBVIOUS
<1>2. /\ Linked(l, nd, m) /\ DOMAIN m \subseteq DOMAIN map
      /\ PoolOK(p, ToSet(l), Len(l))
      /\ capacity # -1 => Len(l) < capacity
  BY <1>1, EvictedOK
<1>3. Len(l) \in Nat /\ k \notin DOMAIN m
  BY <1>2, LenProperties DEF PushNew, Linked
<1>4. PICK r \in Allocate(p) :
        /\ allocator_' = r.pool
        /\ node' = With(nd, r.slot, [key |-> k, value |-> v])
        /\ my_list' = <<r.slot>> \o l
        /\ map' = With(m, k, r.slot)
  BY <1>1 DEF PushNew
<1>5. /\ r.slot \notin ToSet(l) /\ r.slot \in Nat
      /\ PoolOK(r.pool, ToSet(l) \cup {r.slot}, Len(l) + 1)
  BY <1>2, <1>3, AllocateOK
<1>6. /\ Linked(my_list', node', map') /\ Len(my_list') = Len(l) + 1
      /\ ToSet(my_list') = ToSet(l) \cup {r.slot}
  BY <1>2, <1>3, <1>4, <1>5, InsertOK
<1>7. CapacityInv'
  <2>1. capacity' = capacity /\ capacity \in (Nat \ {0}) \cup {-1}
    BY DEF Inv, CapacityInv
  <2> QED BY <1>2, <1>3, <1>6, <2>1 DEF CapacityInv
<1>8. PoolInv'
  BY <1>4, <1>5, <1>6 DEF PoolInv
<1>9. ListInv'
  BY <1>6 DEF ListInv
<1> QED BY <1>7, <1>8, <1>9 DEF Inv

(* The destructor preserves the invariant.                                 *)
LEMMA DestructorStep ==
    ASSUME Inv, Destructor
    PROVE  Inv'
<1>1. my_list' = <<>> /\ map' = <<>> /\ node' = <<>> /\ capacity' = capacity
  BY DEF Destructor
<1>2. my_list' \in Seq(Nat) /\ Len(my_list') = 0 /\ ToSet(my_list') = {}
  BY <1>1 DEF ToSet
<1>3. ListInv'
  <2>1. DOMAIN map' = {} /\ node' \in [{} -> Node]
        /\ map' \in [DOMAIN map' -> {}]
    BY <1>1
  <2>2. IsFiniteSet(DOMAIN map') /\ Cardinality(DOMAIN map') = 0
    BY <2>1, FS_EmptySet
  <2> QED BY <1>2, <2>1, <2>2 DEF ListInv, Linked, Distinct
<1>4. CapacityInv'
  BY <1>1, <1>2 DEF Inv, CapacityInv
<1>5. PoolInv'
  BY DEF Destructor, PoolInv
<1> QED BY <1>3, <1>4, <1>5 DEF Inv

(* Every operation preserves the invariant.                                *)
LEMMA InvNext == Inv /\ [Next]_vars => Inv'
<1> SUFFICES ASSUME Inv, [Next]_vars PROVE Inv'
  OBVIOUS
<1>1. ASSUME UNCHANGED vars PROVE Inv'
  BY <1>1 DEF vars, Inv, ListInv, CapacityInv, PoolInv
<1>2. ASSUME NEW k \in Keys, get(k) PROVE Inv'
  BY <1>2, GetStep
<1>3. ASSUME NEW k \in Keys, NEW v \in Values, push(k, v) PROVE Inv'
  <2>1. alive /\ UNCHANGED <<capacity, alive>>
    BY <1>3 DEF push
  <2>2. CASE PushKnown(k, v)
    BY <2>1, <2>2, PushKnownStep
  <2>3. CASE PushNew(k, v)
    BY <2>1, <2>3, PushNewStep
  <2> QED BY <1>3, <2>2, <2>3 DEF push
<1>4. CASE Destructor
  BY <1>4, DestructorStep
<1>5. CASE Gone
  BY <1>1, <1>5 DEF Gone
<1> QED BY <1>1, <1>2, <1>3, <1>4, <1>5 DEF Next

(* The invariant holds in every reachable state.                           *)
LEMMA InvAlways == Spec => []Inv
<1> QED BY InvInit, InvNext, PTL DEF Spec

(* push, get and the destructor keep the index and the list in step, for   *)
(* any number of keys and any capacity: no key leads to another key's node *)
(* or to one that was given up.                                            *)
THEOREM IndexAgrees == Spec => []MapMatchesList
<1>1. Inv => MapMatchesList
  BY DEF Inv, ListInv, Linked, MapMatchesList
<1> QED BY <1>1, InvAlways, PTL

(* The pool never gives out a slot that is in use or lies outside a block, *)
(* and none is lost, for any sizes for which a block has room for a slot.  *)
THEOREM SlotsStaySound == Spec => []SlotsSound
<1>1. Inv => SlotsSound
  <2> SUFFICES ASSUME Inv, alive
               PROVE  /\ Len(Slots) = Carved(allocator_)
                      /\ \A i \in DOMAIN Slots :
                           /\ \E base \in ToSet(allocator_.blocks) :
                                 InBlock(Slots[i], base)
                           /\ \A j \in DOMAIN Slots \ {i} :
                                 ~Overlap(Slots[i], Slots[j])
    BY DEF SlotsSound
  <2>1. PoolOK(allocator_, ToSet(my_list), Len(my_list))
    BY DEF Inv, PoolInv
  <2>2. PICK l \in Seq(Nat), f \in Seq(Nat), bs \in Seq(Bases) :
          l = my_list /\ f = allocator_.freeSlots_ /\ bs = allocator_.blocks
    BY <2>1 DEF Inv, ListInv, Linked, PoolOK, PoolRec
  <2>3. Distinct(l) /\ Distinct(f)
    BY <2>1, <2>2 DEF Inv, ListInv, Linked, PoolOK
  <2>4. PICK s : s = l \o f
    OBVIOUS
  <2>5. Slots = s
    BY <2>2, <2>4 DEF Slots
  <2>6. /\ s \in Seq(Nat) /\ Len(s) = Len(l) + Len(f)
        /\ \A i \in 1..(Len(l) + Len(f)) :
             s[i] = IF i <= Len(l) THEN l[i] ELSE f[i - Len(l)]
    BY <2>4, ConcatProperties
  <2>7. /\ Len(l) \in Nat /\ Len(f) \in Nat /\ DOMAIN s = 1..Len(s)
        /\ ToSet(l) = {l[i] : i \in 1..Len(l)}
        /\ ToSet(f) = {f[i] : i \in 1..Len(f)}
        /\ ToSet(bs) = {bs[i] : i \in 1..Len(bs)}
    BY <2>6, ToSetIs
  <2>8. \A i \in 1..Len(s) :
          \/ i \in 1..Len(l) /\ s[i] = l[i] /\ s[i] \in ToSet(l)
          \/ i > Len(l) /\ i - Len(l) \in 1..Len(f) /\ s[i] = f[i - Len(l)]
             /\ s[i] \in ToSet(f)
    <3> SUFFICES ASSUME NEW i \in 1..Len(s)
                 PROVE  \/ /\ i \in 1..Len(l) /\ s[i] = l[i]
                           /\ s[i] \in ToSet(l)
                        \/ /\ i > Len(l) /\ i - Len(l) \in 1..Len(f)
                           /\ s[i] = f[i - Len(l)] /\ s[i] \in ToSet(f)
      OBVIOUS
    <3>1. s[i] = IF i <= Len(l) THEN l[i] ELSE f[i - Len(l)]
      BY <2>6
    <3>2. CASE i <= Len(l)
      <4>1. i \in 1..Len(l)
        BY <2>7, <3>2
      <4> QED BY <2>7, <3>1, <3>2, <4>1
    <3>3. CASE i > Len(l)
      <4>1. i - Len(l) \in 1..Len(f) /\ ~(i <= Len(l))
        BY <2>6, <2>7, <3>3
      <4>2. s[i] = f[i - Len(l)]
        BY <3>1, <4>1
      <4> QED BY <2>7, <3>3, <4>1, <4>2
    <3> QED BY <2>7, <3>2, <3>3
  <2>9. ToSet(l) \cap ToSet(f) = {} /\ Apart(ToSet(l) \cup ToSet(f))
        /\ \A a \in ToSet(l) \cup ToSet(f) : Placed(allocator_, a)
    BY <2>1, <2>2 DEF PoolOK, Free
  <2>10. ASSUME NEW i \in 1..Len(s), NEW j \in 1..Len(s), i # j
         PROVE  s[i] # s[j]
    <3>1. CASE i <= Len(l) /\ j <= Len(l)
      <4>0. ~(i > Len(l)) /\ ~(j > Len(l))
        BY <2>7, <3>1
      <4>1. i \in 1..Len(l) /\ j \in 1..Len(l) /\ s[i] = l[i] /\ s[j] = l[j]
        BY <2>8, <4>0
      <4> QED BY <2>3, <2>10, <4>1 DEF Distinct
    <3>2. CASE i > Len(l) /\ j > Len(l)
      <4>1. /\ i - Len(l) \in 1..Len(f) /\ j - Len(l) \in 1..Len(f)
            /\ s[i] = f[i - Len(l)] /\ s[j] = f[j - Len(l)]
        <5>1. i \notin 1..Len(l) /\ j \notin 1..Len(l)
          BY <2>7, <3>2
        <5> QED BY <2>8, <5>1
      <4>2. i - Len(l) # j - Len(l)
        BY <2>6, <2>7, <2>10
      <4> QED BY <2>3, <4>1, <4>2 DEF Distinct
    <3>3. CASE i <= Len(l) /\ j > Len(l)
      <4>0. ~(i > Len(l)) /\ j \notin 1..Len(l)
        BY <2>6, <2>7, <3>3
      <4>1. s[i] \in ToSet(l) /\ s[j] \in ToSet(f)
        BY <2>8, <4>0
      <4> QED BY <2>9, <4>1
    <3>4. CASE i > Len(l) /\ j <= Len(l)
      <4>0. ~(j > Len(l)) /\ i \notin 1..Len(l)
        BY <2>6, <2>7, <3>4
      <4>1. s[i] \in ToSet(f) /\ s[j] \in ToSet(l)
        BY <2>8, <4>0
      <4> QED BY <2>9, <4>1
    <3>5. /\ i <= Len(l) \/ i > Len(l)
          /\ j <= Len(l) \/ j > Len(l)
      BY <2>7
    <3> QED BY <3>1, <3>2, <3>3, <3>4, <3>5
  <2>11. ASSUME NEW i \in 1..Len(s)
         PROVE  \E base \in ToSet(bs) : InBlock(s[i], base)
    <3>1. Placed(allocator_, s[i])
      BY <2>8, <2>9
    <3> QED BY <2>2, <2>7, <3>1 DEF Placed
  <2>12. ASSUME NEW i \in 1..Len(s), NEW j \in 1..Len(s), i # j
         PROVE  ~Overlap(s[i], s[j])
    <3>1. s[i] # s[j]
      BY <2>10, <2>12
    <3> QED BY <2>8, <2>9, <3>1 DEF Apart
  <2>13. Len(s) = Carved(allocator_)
    BY <2>1, <2>2, <2>6 DEF PoolOK
  <2> QED BY <2>2, <2>5, <2>7, <2>11, <2>12, <2>13
<1> QED BY <1>1, InvAlways, PTL

-----------------------------------------------------------------------------
(* The refinement: LRUCache implements BoundedCache.                       *)

EntriesOf(l, nd) == [i \in DOMAIN l |-> nd[l[i]]]

(* The abstract entries are the nodes in list order, one for each key.     *)
LEMMA EntriesAre ==
    ASSUME NEW l, NEW nd, NEW m, Linked(l, nd, m)
    PROVE  /\ EntriesOf(l, nd) \in Seq(Node)
           /\ Len(EntriesOf(l, nd)) = Len(l)
           /\ \A i \in 1..Len(l) : EntriesOf(l, nd)[i] = nd[l[i]]
           /\ \A i, j \in 1..Len(l) :
                EntriesOf(l, nd)[i].key = EntriesOf(l, nd)[j].key => i = j
<1>1. /\ l \in Seq(Nat) /\ Len(l) \in Nat /\ DOMAIN l = 1..Len(l)
      /\ \A i \in 1..Len(l) : l[i] \in ToSet(l)
  <2>1. l \in Seq(Nat)
    BY DEF Linked
  <2> QED BY <2>1, ToSetIs
<1>2. PICK e : e = EntriesOf(l, nd)
  OBVIOUS
<1>3. e = [i \in 1..Len(l) |-> nd[l[i]]]
  BY <1>1, <1>2 DEF EntriesOf
<1>4. \A i \in 1..Len(l) : nd[l[i]] \in Node
  BY <1>1 DEF Linked
<1>5. e \in [1..Len(l) -> Node]
  BY <1>3, <1>4
<1>6. e \in Seq(Node)
  BY <1>1, <1>5, SeqDef
<1>7. Len(e) = Len(l)
  BY <1>1, <1>5, <1>6, LenProperties
<1>8. ASSUME NEW i \in 1..Len(l), NEW j \in 1..Len(l), e[i].key = e[j].key
      PROVE  i = j
  <2>1. m[nd[l[i]].key] = l[i] /\ m[nd[l[j]].key] = l[j]
    BY <1>1 DEF Linked
  <2>2. l[i] = l[j]
    BY <1>3, <1>8, <2>1
  <2> QED BY <2>2 DEF Linked, Distinct
<1> QED BY <1>2, <1>3, <1>6, <1>7, <1>8

Entries == EntriesOf(my_list, node)

(* What BoundedCache says of a key the cache has, and of one it has not.   *)
LEMMA AbstractFound ==
    ASSUME Inv, NEW k, NEW i \in 1..Len(my_list), Entries[i].key = k
    PROVE  /\ Abstract!Others(k) = RemoveAt(Entries, i)
           /\ Abstract!Has(k) /\ Abstract!Entry(k) = Entries[i]
<1>1. Linked(my_list, node, map)
  BY DEF Inv, ListInv
<1>2. PICK e \in Seq(Node) : e = Entries
  BY <1>1, EntriesAre DEF Entries
<1>3. /\ Len(e) = Len(my_list) /\ e[i].key = k
      /\ \A a, b \in 1..Len(my_list) : e[a].key = e[b].key => a = b
  BY <1>1, <1>2, EntriesAre DEF Entries
<1>4. DOMAIN e = 1..Len(my_list) /\ Len(my_list) \in Nat
  BY <1>2, <1>3, LenProperties
<1>5. e = [a \in DOMAIN my_list |-> node[my_list[a]]]
  BY <1>2 DEF Entries, EntriesOf
<1>6. {a \in 1..Len(e) : e[a].key = k} = {i}
  BY <1>3
<1>7. Abstract!SelectInSeq(e, LAMBDA x : x.key = k) = i
  <2>1. Abstract!Min({i}) = i
    BY <1>4 DEF Abstract!Min
  <2> QED BY <1>6, <2>1 DEF Abstract!SelectInSeq
<1>8. Abstract!Others(k) = RemoveAt(e, i)
  <2>1. \E a \in 1..Len(e) : e[a].key = k
    BY <1>3
  <2>2. Abstract!Others(k) =
          Abstract!RemoveFirstMatch(e, LAMBDA x : x.key = k)
    BY <1>5 DEF Abstract!Others
  <2>3. Abstract!Others(k) = Abstract!RemoveAt(e, i)
    BY <1>7, <2>1, <2>2 DEF Abstract!RemoveFirstMatch
  <2> QED BY <2>3 DEF Abstract!RemoveAt, RemoveAt
<1>9. Abstract!Has(k)
  BY <1>3, <1>4, <1>5 DEF Abstract!Has
<1>10. Abstract!Entry(k) = e[i]
  <2>1. (CHOOSE a \in DOMAIN e : e[a].key = k) = i
    BY <1>3, <1>4
  <2> QED BY <1>5, <2>1 DEF Abstract!Entry
<1> QED BY <1>2, <1>8, <1>9, <1>10

(* A key of no node is unknown to the abstract cache.                      *)
LEMMA AbstractNotFound ==
    ASSUME Inv, NEW k, \A i \in 1..Len(my_list) : Entries[i].key # k
    PROVE  Abstract!Others(k) = Entries /\ ~Abstract!Has(k)
<1>1. Linked(my_list, node, map)
  BY DEF Inv, ListInv
<1>2. PICK e \in Seq(Node) : e = Entries
  BY <1>1, EntriesAre DEF Entries
<1>3. Len(e) = Len(my_list) /\ DOMAIN e = 1..Len(my_list)
  BY <1>1, <1>2, EntriesAre, LenProperties DEF Entries
<1>4. e = [a \in DOMAIN my_list |-> node[my_list[a]]]
  BY <1>2 DEF Entries, EntriesOf
<1>5. Abstract!Others(k) = Abstract!RemoveFirstMatch(e, LAMBDA x : x.key = k)
  BY <1>4 DEF Abstract!Others
<1>6. ~\E a \in 1..Len(e) : e[a].key = k
  BY <1>2, <1>3
<1>7. Abstract!Others(k) = e
  BY <1>5, <1>6 DEF Abstract!RemoveFirstMatch
<1>8. ~Abstract!Has(k)
  BY <1>3, <1>4, <1>6 DEF Abstract!Has
<1> QED BY <1>2, <1>7, <1>8

(* The key of an entry is in the index, and a key in the index has one.    *)
LEMMA KeyAt ==
    ASSUME Inv, NEW k
    PROVE  /\ k \in DOMAIN map =>
                \E i \in 1..Len(my_list) :
                   my_list[i] = map[k] /\ Entries[i] = node[map[k]]
                   /\ Entries[i].key = k
           /\ k \notin DOMAIN map =>
                \A i \in 1..Len(my_list) : Entries[i].key # k
<1>1. Linked(my_list, node, map)
  BY DEF Inv, ListInv
<1>2. \A i \in 1..Len(my_list) : Entries[i] = node[my_list[i]]
  BY <1>1, EntriesAre DEF Entries
<1>3. ASSUME k \in DOMAIN map
      PROVE  \E i \in 1..Len(my_list) :
                my_list[i] = map[k] /\ Entries[i] = node[map[k]]
                /\ Entries[i].key = k
  <2>1. PICK i \in 1..Len(my_list) : my_list[i] = map[k]
    BY <1>1, <1>3, FoundAt
  <2>2. node[map[k]].key = k
    BY <1>1, <1>3 DEF Linked
  <2> QED BY <1>2, <2>1, <2>2
<1>4. ASSUME k \notin DOMAIN map, NEW i \in 1..Len(my_list)
      PROVE  Entries[i].key # k
  <2>1. my_list[i] \in ToSet(my_list)
    <3>1. my_list \in Seq(Nat)
      BY <1>1 DEF Linked
    <3> QED BY <3>1, ToSetIs
  <2>2. node[my_list[i]].key \in DOMAIN map
    BY <1>1, <2>1 DEF Linked
  <2> QED BY <1>2, <1>4, <2>2
<1> QED BY <1>3, <1>4

(* Moving a node to the front moves its abstract entry to the front.       *)
LEMMA TouchEntries ==
    ASSUME NEW l, NEW nd, NEW m, Linked(l, nd, m), NEW i \in 1..Len(l),
           NEW ne \in [ToSet(l) -> Node],
           \A a \in ToSet(l) : ne[a].key = nd[a].key,
           \A a \in ToSet(l) : a # l[i] => ne[a] = nd[a]
    PROVE  EntriesOf(Splice(l, l[i]), ne)
             = <<ne[l[i]]>> \o RemoveAt(EntriesOf(l, nd), i)
<1>1. l \in Seq(Nat) /\ Distinct(l) /\ Len(l) \in Nat
  BY LenProperties DEF Linked
<1>2. PICK t : t = Splice(l, l[i])
  OBVIOUS
<1>3. /\ Linked(t, ne, m) /\ Len(t) = Len(l)
      /\ \A j \in 1..Len(l) : /\ From(i, j) \in 1..Len(l)
                              /\ t[j] = l[From(i, j)]
  <2>1. Linked(t, ne, m)
    BY <1>2, TouchOK
  <2>2. Len(t) = Len(l)
    BY <1>1, <1>2, SpliceIs
  <2>3. ASSUME NEW j \in 1..Len(l)
        PROVE  From(i, j) \in 1..Len(l) /\ t[j] = l[From(i, j)]
    <3>1. From(i, j) \in 1..Len(l)
      BY <1>1 DEF From
    <3>2. l[i] \in Nat /\ t = <<l[i]>> \o RemoveAt(l, i)
      <4>1. l[i] \in Nat
        BY <1>1
      <4>2. Splice(l, l[i]) = <<l[i]>> \o RemoveAt(l, i)
        BY <1>1, SpliceIs
      <4> QED BY <1>2, <4>1, <4>2
    <3>0. PICK S : S = Nat
      OBVIOUS
    <3>3. PICK x \in S : x = l[i]
      BY <3>0, <3>2
    <3>4. /\ t[1] = x
          /\ \A k \in 2..Len(l) : t[k] = l[From(i, k)]
      <4>1. t = <<x>> \o RemoveAt(l, i)
        BY <3>2, <3>3
      <4>2. l \in Seq(S)
        BY <1>1, <3>0
      <4> QED BY <4>1, <4>2, ToFrontIs
    <3>5. CASE j = 1
      BY <3>1, <3>3, <3>4, <3>5 DEF From
    <3>6. CASE j # 1
      <4>1. j \in 2..Len(l)
        BY <1>1, <3>6
      <4> QED BY <3>1, <3>4, <4>1
    <3> QED BY <3>5, <3>6
  <2> QED BY <1>2, <2>1, <2>2, <2>3, Zenon
<1>4. PICK e \in Seq(Node) : e = EntriesOf(l, nd)
  BY EntriesAre
<1>5. Len(e) = Len(l) /\ \A j \in 1..Len(l) : e[j] = nd[l[j]]
  BY <1>4, EntriesAre
<1>6. PICK f \in Seq(Node) : f = EntriesOf(t, ne)
  BY <1>3, EntriesAre
<1>7. Len(f) = Len(l) /\ \A j \in 1..Len(l) : f[j] = ne[t[j]]
  BY <1>3, <1>6, EntriesAre
<1>8. \A j \in 1..Len(l) : l[j] \in ToSet(l)
  BY <1>1, ToSetIs
<1>9. PICK x \in Node : x = ne[l[i]]
  BY <1>8
<1>10. PICK g : g = <<x>> \o RemoveAt(e, i)
  OBVIOUS
<1>11. /\ g \in Seq(Node) /\ Len(g) = Len(l) /\ g[1] = x
       /\ \A j \in 2..Len(l) : g[j] = e[From(i, j)]
  BY <1>5, <1>10, ToFrontIs
<1>12. ASSUME NEW j \in 1..Len(l)
       PROVE  f[j] = g[j]
  <2>1. CASE j = 1
    <3>1. From(i, j) = i
      BY <2>1 DEF From
    <3> QED BY <1>3, <1>7, <1>9, <1>11, <2>1, <3>1
  <2>2. CASE j # 1
    <3>1. j \in 2..Len(l) /\ From(i, j) \in 1..Len(l) /\ From(i, j) # i
      BY <1>1, <1>3, <2>2 DEF From
    <3>2. PICK q \in 1..Len(l) : q = From(i, j)
      BY <3>1
    <3>3. l[q] # l[i] /\ l[q] \in ToSet(l)
      BY <1>1, <1>8, <3>1, <3>2 DEF Distinct
    <3>4. f[j] = ne[l[q]] /\ g[j] = nd[l[q]]
      <4>1. t[j] = l[q] /\ f[j] = ne[t[j]]
        BY <1>3, <1>7, <3>2
      <4>2. g[j] = e[q]
        BY <1>11, <3>1, <3>2
      <4>3. e[q] = nd[l[q]]
        BY <1>5
      <4> QED BY <4>1, <4>2, <4>3
    <3> QED BY <3>3, <3>4
  <2> QED BY <2>1, <2>2
<1>13. f = g
  BY <1>7, <1>11, <1>12, SeqEqual
<1> QED BY <1>2, <1>4, <1>6, <1>9, <1>10, <1>13

(* A new node in front is a new abstract entry in front.                   *)
LEMMA InsertEntries ==
    ASSUME NEW l, NEW nd, NEW m, Linked(l, nd, m),
           NEW a \in Nat, a \notin ToSet(l),
           NEW k \in Keys, k \notin DOMAIN m, NEW v \in Values
    PROVE  EntriesOf(<<a>> \o l, With(nd, a, [key |-> k, value |-> v]))
             = <<[key |-> k, value |-> v]>> \o EntriesOf(l, nd)
<1>1. l \in Seq(Nat) /\ Len(l) \in Nat /\ DOMAIN nd = ToSet(l)
  BY LenProperties DEF Linked
<1>2. PICK x \in Node : x = [key |-> k, value |-> v]
  BY DEF Node
<1>3. PICK t, ne, mm : /\ t = <<a>> \o l /\ ne = With(nd, a, x)
                       /\ mm = With(m, k, a)
  OBVIOUS
<1>4. Linked(t, ne, mm)
  BY <1>2, <1>3, InsertOK
<1>5. /\ Len(t) = Len(l) + 1 /\ t[1] = a
      /\ \A j \in 2..(Len(l) + 1) : t[j] = l[j - 1]
  BY <1>1, <1>3, ConsIs
<1>6. PICK e \in Seq(Node), f \in Seq(Node) :
        e = EntriesOf(l, nd) /\ f = EntriesOf(t, ne)
  BY <1>4, EntriesAre
<1>7. /\ Len(e) = Len(l) /\ \A j \in 1..Len(l) : e[j] = nd[l[j]]
      /\ Len(f) = Len(l) + 1 /\ \A j \in 1..(Len(l) + 1) : f[j] = ne[t[j]]
  BY <1>4, <1>5, <1>6, EntriesAre
<1>8. PICK g : g = <<x>> \o e
  OBVIOUS
<1>9. /\ g \in Seq(Node) /\ Len(g) = Len(l) + 1 /\ g[1] = x
      /\ \A j \in 2..(Len(l) + 1) : g[j] = e[j - 1]
  BY <1>7, <1>8, ConsIs
<1>10. ne[a] = x /\ \A b \in ToSet(l) : ne[b] = nd[b]
  BY <1>1, <1>3 DEF With
<1>11. ASSUME NEW j \in 1..(Len(l) + 1)
       PROVE  f[j] = g[j]
  <2>1. CASE j = 1
    BY <1>5, <1>7, <1>9, <1>10, <2>1
  <2>2. CASE j # 1
    <3>1. j \in 2..(Len(l) + 1) /\ j - 1 \in 1..Len(l)
      BY <1>1, <2>2
    <3>2. l[j - 1] \in ToSet(l)
      BY <1>1, <3>1, ToSetIs
    <3>3. f[j] = ne[l[j - 1]] /\ g[j] = nd[l[j - 1]]
      BY <1>5, <1>7, <1>9, <3>1
    <3> QED BY <1>10, <3>2, <3>3
  <2> QED BY <2>1, <2>2
<1>12. f = g
  BY <1>7, <1>9, <1>11, SeqEqual
<1> QED BY <1>2, <1>3, <1>6, <1>8, <1>12

(* Giving up the last node, then adding one, is adding an entry and cutting*)
(* off what is beyond the capacity.                                        *)
LEMMA EvictEntries ==
    ASSUME NEW l, NEW nd, NEW m, Linked(l, nd, m), Len(l) > 0, NEW x \in Node
    PROVE  <<x>> \o EntriesOf(Front(l), Without(nd, Last(l)))
             = SubSeq(<<x>> \o EntriesOf(l, nd), 1, Len(l))
<1>1. l \in Seq(Nat) /\ Len(l) \in Nat /\ DOMAIN nd = ToSet(l) /\ Distinct(l)
  BY LenProperties DEF Linked
<1>2. PICK t, ne, mm : /\ t = Front(l) /\ ne = Without(nd, Last(l))
                       /\ mm = Without(m, nd[Last(l)].key)
  OBVIOUS
<1>3. Linked(t, ne, mm)
  BY <1>2, EvictOK
<1>4. PICK w \in Nat : w = Len(l) - 1
  BY <1>1
<1>5. /\ Len(t) = w /\ \A j \in 1..w : t[j] = l[j]
      /\ ToSet(t) = ToSet(l) \ {Last(l)} /\ t \in Seq(Nat)
  BY <1>1, <1>2, <1>4, FrontIs
<1>6. PICK e \in Seq(Node), f \in Seq(Node) :
        e = EntriesOf(l, nd) /\ f = EntriesOf(t, ne)
  BY <1>3, EntriesAre
<1>7. /\ Len(e) = w + 1 /\ \A j \in 1..(w + 1) : e[j] = nd[l[j]]
      /\ Len(f) = w /\ \A j \in 1..w : f[j] = ne[t[j]]
  <2>1. Len(l) = w + 1
    BY <1>1, <1>4
  <2>2. Len(e) = Len(l) /\ \A j \in 1..Len(l) : e[j] = nd[l[j]]
    BY <1>6, EntriesAre
  <2>3. Len(f) = Len(t) /\ \A j \in 1..Len(t) : f[j] = ne[t[j]]
    BY <1>3, <1>6, EntriesAre
  <2> QED BY <1>5, <2>1, <2>2, <2>3
<1>8. \A j \in 1..w : f[j] = e[j]
  <2> SUFFICES ASSUME NEW j \in 1..w PROVE f[j] = e[j]
    OBVIOUS
  <2>1. t[j] \in ToSet(t)
    <3>1. ToSet(t) = {t[i] : i \in 1..Len(t)}
      BY <1>5, ToSetIs
    <3> QED BY <1>5, <3>1
  <2>2. ne[t[j]] = nd[t[j]]
    BY <1>1, <1>2, <1>5, <2>1 DEF Without
  <2> QED BY <1>5, <1>7, <2>2
<1>9. PICK g, h : g = <<x>> \o e /\ h = <<x>> \o f
  OBVIOUS
<1>10. /\ g \in Seq(Node) /\ Len(g) = w + 2 /\ g[1] = x
       /\ \A j \in 2..(w + 2) : g[j] = e[j - 1]
  BY <1>7, <1>9, ConsIs
<1>11. /\ h \in Seq(Node) /\ Len(h) = w + 1 /\ h[1] = x
       /\ \A j \in 2..(w + 1) : h[j] = f[j - 1]
  BY <1>7, <1>9, ConsIs
<1>12. PICK c : c = SubSeq(g, 1, w + 1)
  OBVIOUS
<1>13. /\ c \in Seq(Node) /\ Len(c) = w + 1
       /\ \A j \in 1..(w + 1) : c[j] = g[j]
  <2>1. PICK u \in Nat : u = w + 1
    OBVIOUS
  <2>2. \A j \in 1..u : g[j] \in Node
    BY <1>10, <2>1, ElementOfSeq
  <2>3. /\ c \in Seq(Node) /\ Len(c) = IF 1 <= u THEN u - 1 + 1 ELSE 0
        /\ \A j \in 1..(u - 1 + 1) : c[j] = g[1 + j - 1]
    BY <1>12, <2>1, <2>2, SubSeqProperties
  <2>4. Len(c) = u /\ \A j \in 1..u : c[j] = g[j]
    BY <2>1, <2>3
  <2> QED BY <2>1, <2>3, <2>4
<1>14. ASSUME NEW j \in 1..(w + 1)
       PROVE  h[j] = c[j]
  <2>1. CASE j = 1
    BY <1>10, <1>11, <1>13, <2>1
  <2>2. CASE j # 1
    <3>1. j \in 2..(w + 1) /\ j \in 2..(w + 2) /\ j - 1 \in 1..w
      BY <2>2
    <3> QED BY <1>8, <1>10, <1>11, <1>13, <3>1
  <2> QED BY <2>1, <2>2
<1>15. h = c
  BY <1>11, <1>13, <1>14, SeqEqual
<1>16. w + 1 = Len(l)
  BY <1>1, <1>4
<1> QED BY <1>2, <1>6, <1>9, <1>12, <1>15, <1>16

(* get() is a Find of the abstract cache.                                  *)
LEMMA GetImplements ==
    ASSUME Inv, NEW k \in Keys, get(k)
    PROVE  Abstract!Find(k)
<1>1. Linked(my_list, node, map)
  BY DEF Inv, ListInv
<1>2. Entries = [i \in DOMAIN my_list |-> node[my_list[i]]]
      /\ Entries' = [i \in DOMAIN my_list' |-> node'[my_list'[i]]]
  BY DEF Entries, EntriesOf
<1>3. capacity' = capacity /\ node' = node
  BY DEF get
<1>4. CASE k \in DOMAIN map
  <2>1. PICK i \in 1..Len(my_list) :
          my_list[i] = map[k] /\ Entries[i] = node[map[k]]
          /\ Entries[i].key = k
    BY <1>4, KeyAt
  <2>2. /\ Abstract!Others(k) = RemoveAt(Entries, i)
        /\ Abstract!Has(k) /\ Abstract!Entry(k) = Entries[i]
    BY <2>1, AbstractFound
  <2>3. node \in [ToSet(my_list) -> Node]
    BY <1>1 DEF Linked
  <2>4. EntriesOf(Splice(my_list, my_list[i]), node)
          = <<node[my_list[i]]>> \o RemoveAt(Entries, i)
    BY <1>1, <2>3, TouchEntries DEF Entries
  <2>5. my_list' = Splice(my_list, my_list[i])
        /\ reply' = [found |-> TRUE, value |-> node[map[k]].value]
    BY <1>4, <2>1 DEF get
  <2>6. Entries' = <<Abstract!Entry(k)>> \o Abstract!Others(k)
    BY <1>3, <2>1, <2>2, <2>4, <2>5 DEF Entries
  <2>7. reply' = [found |-> TRUE, value |-> Abstract!Entry(k).value]
    BY <2>1, <2>2, <2>5
  <2> QED BY <1>2, <1>3, <2>2, <2>6, <2>7 DEF Abstract!Find
<1>5. CASE k \notin DOMAIN map
  <2>1. ~Abstract!Has(k)
    BY <1>5, KeyAt, AbstractNotFound
  <2>2. my_list' = my_list /\ reply' = [found |-> FALSE, value |-> NoValue]
    BY <1>5 DEF get
  <2>3. Entries' = Entries
    BY <1>3, <2>2 DEF Entries
  <2> QED BY <1>2, <1>3, <2>1, <2>2, <2>3 DEF Abstract!Find
<1> QED BY <1>4, <1>5

(* push() is a Put of the abstract cache, with or without an eviction.     *)
LEMMA PushImplements ==
    ASSUME Inv, NEW k \in Keys, NEW v \in Values, push(k, v)
    PROVE  Abstract!Put(k, v)
<1>1. Linked(my_list, node, map) /\ Len(my_list) \in Nat
  BY LenProperties DEF Inv, ListInv, Linked
<1>2. Entries = [i \in DOMAIN my_list |-> node[my_list[i]]]
      /\ Entries' = [i \in DOMAIN my_list' |-> node'[my_list'[i]]]
  BY DEF Entries, EntriesOf
<1>3. alive /\ UNCHANGED <<capacity, reply, alive>>
  BY DEF push
<1>4. PICK x \in Node : x = [key |-> k, value |-> v]
  BY DEF Node
<1>5. /\ Entries \in Seq(Node) /\ Len(Entries) = Len(my_list)
      /\ \A i \in 1..Len(my_list) : Entries[i] = node[my_list[i]]
  BY <1>1, EntriesAre DEF Entries
<1>6. capacity \in (Nat \ {0}) \cup {-1}
      /\ (capacity # -1 => Len(my_list) <= capacity)
  BY DEF Inv, CapacityInv
<1>7. SUFFICES Entries' = Abstract!Bounded(<<x>> \o Abstract!Others(k))
  BY <1>2, <1>3, <1>4 DEF Abstract!Put
<1>8. CASE PushKnown(k, v)
  <2>1. k \in DOMAIN map
    BY <1>8 DEF PushKnown
  <2>2. PICK i \in 1..Len(my_list) :
          my_list[i] = map[k] /\ Entries[i].key = k
    BY <2>1, KeyAt
  <2>3. Abstract!Others(k) = RemoveAt(Entries, i)
    BY <2>2, AbstractFound
  <2>4. node' = [node EXCEPT ![my_list[i]] = x]
    BY <1>3, <1>4, <1>8, <2>2, PushKnownStep
  <2>5. node \in [ToSet(my_list) -> Node] /\ my_list[i] \in ToSet(my_list)
    BY <1>1, <2>1, <2>2 DEF Linked
  <2>6. /\ node' \in [ToSet(my_list) -> Node] /\ node'[my_list[i]] = x
        /\ \A a \in ToSet(my_list) : a # my_list[i] => node'[a] = node[a]
    BY <2>4, <2>5
  <2>7. \A a \in ToSet(my_list) : node'[a].key = node[a].key
    <3>1. node[my_list[i]].key = k /\ x.key = k
      BY <1>4, <1>5, <2>2
    <3> QED BY <2>6, <3>1
  <2>8. EntriesOf(Splice(my_list, my_list[i]), node')
          = <<x>> \o RemoveAt(Entries, i)
    BY <1>1, <2>6, <2>7, TouchEntries DEF Entries
  <2>9. my_list' = Splice(my_list, my_list[i])
    BY <1>8, <2>2 DEF PushKnown
  <2>10. Entries' = <<x>> \o Abstract!Others(k)
    BY <2>3, <2>8, <2>9 DEF Entries
  <2>11. Len(<<x>> \o RemoveAt(Entries, i)) = Len(my_list)
    <3>1. PICK e \in Seq(Node) : e = Entries
      BY <1>5
    <3>2. i \in 1..Len(e) /\ Len(e) = Len(my_list)
      BY <1>5, <3>1
    <3>3. Len(<<x>> \o RemoveAt(e, i)) = Len(e)
      BY <3>2, ToFrontLen
    <3> QED BY <3>1, <3>2, <3>3
  <2> QED BY <1>6, <2>3, <2>10, <2>11 DEF Abstract!Bounded
<1>9. CASE PushNew(k, v)
  <2>1. k \notin DOMAIN map
    BY <1>9 DEF PushNew
  <2>2. Abstract!Others(k) = Entries
    BY <2>1, KeyAt, AbstractNotFound
  <2>3. PICK l, nd, m, p : /\ l = Evicted.list /\ nd = Evicted.node
                           /\ m = Evicted.map /\ p = Evicted.pool
    OBVIOUS
  <2>4. /\ Linked(l, nd, m) /\ DOMAIN m \subseteq DOMAIN map
        /\ PoolOK(p, ToSet(l), Len(l))
    BY <1>3, <2>3, EvictedOK
  <2>5. Len(l) \in Nat /\ k \notin DOMAIN m
    BY <2>1, <2>4, LenProperties DEF Linked
  <2>6. PICK r \in Allocate(p) :
          /\ node' = With(nd, r.slot, [key |-> k, value |-> v])
          /\ my_list' = <<r.slot>> \o l
    BY <1>9, <2>3 DEF PushNew
  <2>7. r.slot \notin ToSet(l) /\ r.slot \in Nat
    BY <2>4, <2>5, AllocateOK
  <2>8. Entries' = <<x>> \o EntriesOf(l, nd)
    <3>1. PICK a \in Nat : a = r.slot
      BY <2>7
    <3>2. EntriesOf(<<a>> \o l, With(nd, a, [key |-> k, value |-> v]))
            = <<[key |-> k, value |-> v]>> \o EntriesOf(l, nd)
      <4>1. a \notin ToSet(l) /\ Linked(l, nd, m) /\ k \notin DOMAIN m
        BY <2>4, <2>5, <2>7, <3>1
      <4> QED BY <4>1, InsertEntries
    <3>3. my_list' = <<a>> \o l
          /\ node' = With(nd, a, [key |-> k, value |-> v])
      BY <2>6, <3>1
    <3> QED BY <1>4, <3>2, <3>3 DEF Entries
  <2>9. Len(<<x>> \o Entries) = Len(my_list) + 1
    BY <1>5, ConsIs
  <2>10. CASE capacity # -1 /\ Len(my_list) >= capacity
    <3>1. Len(my_list) = capacity /\ Len(my_list) > 0
      BY <1>1, <1>6, <2>10
    <3>2. l = Front(my_list) /\ nd = Without(node, Last(my_list))
      BY <2>3, <2>10 DEF Evicted
    <3>3. Entries' = SubSeq(<<x>> \o Entries, 1, Len(my_list))
      BY <1>1, <2>8, <3>1, <3>2, EvictEntries DEF Entries
    <3>4. ~(capacity = -1 \/ Len(<<x>> \o Entries) <= capacity)
      BY <1>1, <2>9, <2>10, <3>1
    <3> QED BY <2>2, <3>1, <3>3, <3>4 DEF Abstract!Bounded
  <2>11. CASE ~(capacity # -1 /\ Len(my_list) >= capacity)
    <3>1. l = my_list /\ nd = node
      BY <2>3, <2>11 DEF Evicted
    <3>2. capacity = -1 \/ Len(<<x>> \o Entries) <= capacity
      BY <1>1, <1>6, <2>9, <2>11
    <3>3. Entries' = <<x>> \o Entries
      BY <2>8, <3>1 DEF Entries
    <3> QED BY <2>2, <3>2, <3>3 DEF Abstract!Bounded
  <2> QED BY <2>10, <2>11
<1> QED BY <1>8, <1>9 DEF push

(* LRUCache implements BoundedCache: every call, for any keys, values and  *)
(* capacity and whatever memory the pool hands out, answers, keeps and     *)
(* gives up what the bounded cache does.                                   *)
THEOREM ImplementsBoundedCache == Spec => Implements
<1>1. Init => Abstract!Init
  <2> SUFFICES ASSUME Init PROVE Abstract!Init
    OBVIOUS
  <2>1. [i \in DOMAIN my_list |-> node[my_list[i]]] = <<>>
    BY DEF Init
  <2>2. capacity \in Nat \cup {-1}
        /\ reply = [found |-> FALSE, value |-> NoValue]
    BY CapacityAssumption DEF Init
  <2> QED BY <2>1, <2>2 DEF Abstract!Init
<1>2. Inv /\ [Next]_vars => [Abstract!Next]_(Abstract!vars)
  <2> SUFFICES ASSUME Inv, [Next]_vars
               PROVE  Abstract!Next \/ UNCHANGED Abstract!vars
    OBVIOUS
  <2>1. ASSUME NEW k \in Keys, get(k) PROVE Abstract!Next
    BY <2>1, GetImplements DEF Abstract!Next
  <2>2. ASSUME NEW k \in Keys, NEW v \in Values, push(k, v)
        PROVE  Abstract!Next
    BY <2>2, PushImplements DEF Abstract!Next
  <2>3. CASE Destructor
    <3>1. my_list' = <<>> /\ UNCHANGED <<capacity, reply>>
      BY <2>3 DEF Destructor
    <3>2. [i \in DOMAIN my_list' |-> node'[my_list'[i]]] = <<>>
      BY <3>1
    <3> QED BY <3>1, <3>2 DEF Abstract!Next, Abstract!Empty
  <2>4. CASE Gone \/ UNCHANGED vars
    <3>1. UNCHANGED <<capacity, my_list, node, reply>>
      BY <2>4 DEF Gone, vars
    <3> QED BY <3>1 DEF Abstract!vars
  <2> QED BY <2>1, <2>2, <2>3, <2>4 DEF Next
<1> QED BY <1>1, <1>2, InvAlways, PTL DEF Spec, Implements, Abstract!Spec

=============================================================================
