---------------------------- MODULE VirtQueueProofs ----------------------------
(***************************************************************************)
(* The rings of a virtio queue are shared correctly by the driver and the  *)
(* device, for any devices, queues and chains, any size of the rings, and  *)
(* any number of entries served by one notification.                       *)
(***************************************************************************)
EXTENDS VirtQueue, WellFoundedInduction, TLAPS

\* Induction, for a set of numbers.
LEMMA NatInd ==
    ASSUME NEW S, 0 \in S, \A n \in Nat : n \in S => n + 1 \in S
    PROVE  \A n \in Nat : n \in S
<1> DEFINE R == OpToRel(<, Nat)
           T == Nat \ S
<1>1. IsWellFoundedOn(R, Nat)
  BY NatLessThanWellFounded
<1>2. R = {ss \in Nat \X Nat : ss[1] < ss[2]}
  BY DEF OpToRel
<1> HIDE DEF R
<1> SUFFICES ASSUME T # {} PROVE FALSE
  OBVIOUS
<1>3. T \subseteq Nat
  OBVIOUS
<1> HIDE DEF T
<1>4. PICK x \in T : \A y \in T : ~(<<y, x>> \in R)
  BY <1>1, <1>3, WFMin, Zenon
<1>5. x \in Nat /\ x # 0 /\ x - 1 \in Nat /\ x - 1 + 1 = x
  BY <1>3 DEF T
<1>6. <<x - 1, x>> \in R
  BY <1>2, <1>5
<1>7. x - 1 \in S
  BY <1>4, <1>5, <1>6 DEF T
<1> QED
  BY <1>5, <1>7 DEF T

\* The 16-bit indices of a ring.
Idx == 0..(IDX - 1)

\* The entries from a up to b, counted around the ring of indices.
Dist(a, b) == (b - a) % IDX

\* The indices in use between an index a and a later one b.
Window(a, b) == {p \in Idx : Dist(a, p) < Dist(a, b)}

\* An index plus a small offset wraps around at most once.
LEMMA Wrap ==
    ASSUME NEW x \in (-IDX)..(2 * IDX - 1)
    PROVE  x % IDX = IF x < 0 THEN x + IDX ELSE IF x < IDX THEN x ELSE x - IDX
  BY RingAssumption

\* The distance of two indices without the remainder, and the step of an index
\* in queue_notify and virtio_consume_desc.
LEMMA DistIs ==
    ASSUME NEW a \in Idx, NEW b \in Idx
    PROVE  /\ Dist(a, b) = IF a <= b THEN b - a ELSE b - a + IDX
           /\ (a + 1) % IDX = IF a + 1 < IDX THEN a + 1 ELSE 0
           /\ Dist(a, b) \in Idx
           /\ (a + 1) % IDX \in Idx
<1>1. b - a \in (-IDX)..(2 * IDX - 1) /\ a + 1 \in (-IDX)..(2 * IDX - 1)
  BY RingAssumption DEF Idx
<1> QED
  BY <1>1, Wrap, RingAssumption DEF Dist, Idx

\* A distance is a number.
LEMMA DistNat ==
    ASSUME NEW a \in Idx, NEW b \in Idx
    PROVE  Dist(a, b) \in Nat
  BY DistIs DEF Idx

\* DistIs for every pair of indices, with the range of the indices.
LEMMA DistAll ==
    /\ IDX \in Nat /\ IDX > 1
    /\ \A x, y \in 0..(IDX - 1) : Dist(x, y) = IF x <= y THEN y - x ELSE y - x + IDX
    /\ \A x \in 0..(IDX - 1) : (x + 1) % IDX = IF x + 1 < IDX THEN x + 1 ELSE 0
<1>1. IDX \in Nat /\ IDX > 1
  BY RingAssumption DEF Sizes
<1>2. ASSUME NEW x \in 0..(IDX - 1), NEW y \in 0..(IDX - 1)
      PROVE  Dist(x, y) = IF x <= y THEN y - x ELSE y - x + IDX
  BY DistIs DEF Idx
<1>3. ASSUME NEW x \in 0..(IDX - 1)
      PROVE  (x + 1) % IDX = IF x + 1 < IDX THEN x + 1 ELSE 0
  BY DistIs DEF Idx
<1> QED
  BY <1>1, <1>2, <1>3

\* Only an empty window leaves no room between its ends.
LEMMA DistZero ==
    ASSUME NEW a \in Idx, NEW b \in Idx
    PROVE  Dist(a, b) = 0 <=> a = b
<1>1. IDX \in Nat /\ a \in 0..(IDX - 1) /\ b \in 0..(IDX - 1)
  BY DistAll DEF Idx
<1>2. Dist(a, b) = IF a <= b THEN b - a ELSE b - a + IDX
  BY DistAll DEF Idx
<1> QED
  BY <1>1, <1>2

\* Moving the end of a window (avail_idx of the driver, used_idx of the device)
\* adds the old end.
LEMMA WindowGrows ==
    ASSUME NEW a \in Idx, NEW b \in Idx, Dist(a, b) + 1 < IDX
    PROVE  /\ Window(a, (b + 1) % IDX) = Window(a, b) \cup {b}
           /\ Dist(a, (b + 1) % IDX) = Dist(a, b) + 1
           /\ b \notin Window(a, b)
<1> DEFINE c == (b + 1) % IDX
<1>1. c \in 0..(IDX - 1) /\ c = IF b + 1 < IDX THEN b + 1 ELSE 0
  BY DistAll DEF Idx
<1> HIDE DEF c
<1>a. Dist(a, c) = IF a <= c THEN c - a ELSE c - a + IDX
  BY <1>1, DistAll DEF Idx
<1>b. Dist(a, b) = IF a <= b THEN b - a ELSE b - a + IDX
  BY <1>1, DistAll DEF Idx
<1>c. IDX \in Nat /\ a \in 0..(IDX - 1) /\ b \in 0..(IDX - 1)
  BY DistAll DEF Idx
<1>2. Dist(a, c) = Dist(a, b) + 1
  BY <1>1, <1>a, <1>b, <1>c
<1>3. ASSUME NEW p \in 0..(IDX - 1)
      PROVE  Dist(a, p) < Dist(a, b) + 1 <=> (Dist(a, p) < Dist(a, b) \/ p = b)
  <2>1. Dist(a, p) = IF a <= p THEN p - a ELSE p - a + IDX
    BY <1>3, DistAll DEF Idx
  <2> QED
    BY <1>b, <1>c, <2>1
<1>4. Window(a, c) = Window(a, b) \cup {b}
  BY <1>2, <1>3 DEF Window, Idx
<1>5. b \notin Window(a, b)
  BY DistAll DEF Window, Idx
<1> QED
  BY <1>2, <1>4, <1>5 DEF c

\* Moving the start of a window (last_avail_idx of the device, last_used of the
\* driver) drops the old start.
LEMMA WindowShrinks ==
    ASSUME NEW a \in Idx, NEW b \in Idx, a # b
    PROVE  /\ Window((a + 1) % IDX, b) = Window(a, b) \ {a}
           /\ Dist((a + 1) % IDX, b) = Dist(a, b) - 1
           /\ a \in Window(a, b)
<1> DEFINE c == (a + 1) % IDX
<1>1. c \in 0..(IDX - 1) /\ c = IF a + 1 < IDX THEN a + 1 ELSE 0
  BY DistAll DEF Idx
<1> HIDE DEF c
<1>2. Dist(c, b) = Dist(a, b) - 1
  BY <1>1, DistAll DEF Idx
<1>3. ASSUME NEW p \in 0..(IDX - 1)
      PROVE  Dist(c, p) < Dist(a, b) - 1 <=> (Dist(a, p) < Dist(a, b) /\ p # a)
  <2>1. IDX \in Nat /\ a \in 0..(IDX - 1) /\ b \in 0..(IDX - 1)
    BY DistAll DEF Idx
  <2>2. Dist(a, b) = IF a <= b THEN b - a ELSE b - a + IDX
    BY DistAll DEF Idx
  <2>3. Dist(a, p) = IF a <= p THEN p - a ELSE p - a + IDX
    BY DistAll DEF Idx
  <2>4. Dist(c, p) = IF c <= p THEN p - c ELSE p - c + IDX
    BY <1>1, DistAll DEF Idx
  <2> QED
    BY <1>1, <2>1, <2>2, <2>3, <2>4
<1>4. Window(c, b) = Window(a, b) \ {a}
  BY <1>2, <1>3 DEF Window, Idx
<1>5. a \in Window(a, b)
  BY DistAll DEF Window, Idx
<1> QED
  BY <1>2, <1>4, <1>5 DEF c

\* The size the driver may set divides the range of the indices.
LEMMA SizeDivides ==
    ASSUME NEW num \in Sizes, num <= MAX_QUEUE_NUM
    PROVE  IDX % num = 0
  BY RingAssumption DEF Sizes

\* The code finds the slot of an index by a mask with num - 1.  The end of a
\* window that is not full has a slot that no index of the window has, also
\* where the indices wrap around.
LEMMA SlotsDiffer ==
    ASSUME NEW num \in Sizes, num <= MAX_QUEUE_NUM,
           NEW a \in Idx, NEW b \in Idx, NEW p \in Window(a, b), Dist(a, b) < num
    PROVE  p % num # b % num
<1>1. IDX % num = 0
  BY SizeDivides
<1>2. p \in Idx /\ p # b
  BY DistAll DEF Window, Idx
<1>3. \/ p < b /\ b - p < num
      \/ b < p /\ b + IDX - p < num
  <2>1. Dist(a, p) < Dist(a, b)
    BY DEF Window
  <2>2. Dist(a, b) = IF a <= b THEN b - a ELSE b - a + IDX
    BY DistAll DEF Idx
  <2>3. Dist(a, p) = IF a <= p THEN p - a ELSE p - a + IDX
    BY <1>2, DistAll DEF Idx
  <2>4. IDX \in Nat /\ a \in 0..(IDX - 1) /\ b \in 0..(IDX - 1) /\ p \in 0..(IDX - 1)
    BY <1>2, DistAll DEF Idx
  <2>5. num \in Nat
    BY DEF Sizes
  <2> QED
    BY <1>2, <2>1, <2>2, <2>3, <2>4, <2>5
<1>4. num \in {1, 2, 4, 8, 16}
  BY DEF Sizes
<1> QED
  BY <1>1, <1>2, <1>3, <1>4, RingAssumption DEF Idx

\* The slot of an index is one of the ring.
LEMMA SlotIn ==
    ASSUME NEW num \in Sizes, num <= MAX_QUEUE_NUM, NEW p \in Idx
    PROVE  p % num \in 0..(MAX_QUEUE_NUM - 1)
  BY RingAssumption DEF Sizes, Idx

\* The number of chains the device holds: none, or the request in progress.
Size(held) == IF held = {} THEN 0 ELSE 1

\* The account of one queue, with ring r, driver index lu, size num, device index
\* last, the chains given to the device and the ones it holds (held).  The used
\* entries, the entries that wait and the held chain are different given chains,
\* and together no more than the driver has made available and not taken back.
Kept(r, lu, num, last, given, held) ==
    /\ Dist(lu, r.uidx) + Dist(last, r.aidx) + Size(held) <= Dist(lu, r.aidx)
    /\ Dist(lu, r.aidx) <= num
    /\ held \subseteq given
    /\ \A p \in Window(lu, r.uidx) : r.used[p % num] \in given \ held
    /\ \A p \in Window(last, r.aidx) : r.avail[p % num] \in given \ held
    /\ \A p, o \in Window(lu, r.uidx) : p # o => r.used[p % num] # r.used[o % num]
    /\ \A p, o \in Window(last, r.aidx) : p # o => r.avail[p % num] # r.avail[o % num]
    /\ \A p \in Window(lu, r.uidx), o \in Window(last, r.aidx) : r.used[p % num] # r.avail[o % num]

\* The number of held chains is 0 or 1.
LEMMA SizeNat ==
    ASSUME NEW held
    PROVE  Size(held) \in {0, 1}
  BY DEF Size

\* The next chain of the avail ring is one the device does not have yet.  It
\* may be left out, or be held if no other one is.
LEMMA Take ==
    ASSUME NEW r \in Rings, NEW lu \in Idx, NEW num \in Sizes,
           NEW last \in Idx, NEW given, NEW held,
           Kept(r, lu, num, last, given, held), last # r.aidx
    PROVE  /\ r.avail[last % num] \in given \ held
           /\ Kept(r, lu, num, (last + 1) % IDX, given, held)
           /\ held = {} => Kept(r, lu, num, (last + 1) % IDX, given, {r.avail[last % num]})
<1> DEFINE h == r.avail[last % num]
           n == (last + 1) % IDX
<1>1. r.uidx \in Idx /\ r.aidx \in Idx
  BY DEF Rings, Idx
<1>2. /\ Window(n, r.aidx) = Window(last, r.aidx) \ {last}
      /\ Dist(n, r.aidx) = Dist(last, r.aidx) - 1
      /\ last \in Window(last, r.aidx)
  BY <1>1, WindowShrinks
<1>3. Dist(lu, r.uidx) \in Nat /\ Dist(last, r.aidx) \in Nat /\ Dist(lu, r.aidx) \in Nat
  BY <1>1, DistNat
<1>4. h \in given \ held
  BY <1>2 DEF Kept
<1> HIDE DEF n
<1>5. /\ Dist(lu, r.uidx) + Dist(n, r.aidx) + Size(held) <= Dist(lu, r.aidx)
      /\ held = {} => Dist(lu, r.uidx) + Dist(n, r.aidx) + Size({h}) <= Dist(lu, r.aidx)
  BY <1>2, <1>3, SizeNat DEF Kept, Size
<1>6. Kept(r, lu, num, n, given, held)
  BY <1>2, <1>5, Zenon DEF Kept
<1>7. ASSUME held = {} PROVE Kept(r, lu, num, n, given, {h})
  <2> SUFFICES /\ \A p \in Window(lu, r.uidx) : r.used[p % num] \in given \ {h}
               /\ \A p \in Window(n, r.aidx) : r.avail[p % num] \in given \ {h}
    BY <1>2, <1>4, <1>5, <1>7, Zenon DEF Kept
  <2> QED
    BY <1>2 DEF Kept
<1> QED
  BY <1>4, <1>6, <1>7 DEF n

\* A chain that is no longer held can be left out of the account.
LEMMA Drop ==
    ASSUME NEW r \in Rings, NEW lu \in Idx, NEW num, NEW last \in Idx, NEW given,
           NEW held, Kept(r, lu, num, last, given, held), NEW less \in SUBSET held
    PROVE  Kept(r, lu, num, last, given, less)
<1>1. r.uidx \in Idx /\ r.aidx \in Idx
  BY DEF Rings, Idx
<1>2. Dist(lu, r.uidx) \in Nat /\ Dist(last, r.aidx) \in Nat /\ Dist(lu, r.aidx) \in Nat
  BY <1>1, DistNat
<1>3. Size(less) <= Size(held) /\ Size(less) \in Nat /\ Size(held) \in Nat
  BY DEF Size
<1>4. Dist(lu, r.uidx) + Dist(last, r.aidx) + Size(less) <= Dist(lu, r.aidx)
  BY <1>2, <1>3 DEF Kept
<1> QED
  BY <1>4, Zenon DEF Kept

\* virtio_consume_desc: the held chain goes into the used ring, into a slot the
\* driver has read already.
LEMMA Return ==
    ASSUME NEW r \in Rings, NEW lu \in Idx, NEW num \in Sizes, num <= MAX_QUEUE_NUM,
           NEW last \in Idx, NEW given, NEW h,
           Kept(r, lu, num, last, given, {h}), NEW c \in Rings,
           c.aidx = r.aidx, c.avail = r.avail, c.uidx = (r.uidx + 1) % IDX,
           c.used = [r.used EXCEPT ![r.uidx % num] = h]
    PROVE  Kept(c, lu, num, last, given, {})
<1> DEFINE W == Window(lu, r.uidx)
<1>1. r.uidx \in Idx /\ r.aidx \in Idx /\ r.used \in Slots
  BY DEF Rings, Idx
<1>2. Dist(lu, r.uidx) \in Nat /\ Dist(last, r.aidx) \in Nat /\ Dist(lu, r.aidx) \in Nat
  BY <1>1, DistNat
<1>3. h \in given
  BY DEF Kept
<1>4. Size({h}) = 1 /\ Size({}) = 0
  BY DEF Size
<1>5. num \in Nat /\ MAX_QUEUE_NUM \in Nat /\ MAX_QUEUE_NUM < IDX /\ IDX \in Nat
  BY RingAssumption DEF Sizes
<1>6. Dist(lu, r.uidx) < num /\ Dist(lu, r.uidx) + 1 < IDX
  BY <1>2, <1>4, <1>5 DEF Kept
<1>7. Window(lu, c.uidx) = W \cup {r.uidx} /\ Dist(lu, c.uidx) = Dist(lu, r.uidx) + 1
  BY <1>1, <1>6, WindowGrows
<1>8. \A p \in W : p % num # r.uidx % num
  BY <1>1, <1>6, SlotsDiffer
<1>9. r.uidx % num \in DOMAIN r.used
  BY <1>1, SlotIn, Zenon DEF Slots
<1>10. c.used[r.uidx % num] = h /\ \A p \in W : c.used[p % num] = r.used[p % num]
  BY <1>8, <1>9
<1>11. Dist(lu, c.uidx) + Dist(last, c.aidx) + Size({}) <= Dist(lu, c.aidx)
  BY <1>2, <1>4, <1>7 DEF Kept
<1> HIDE DEF W
<1>12. \A p \in W : r.used[p % num] \in given \ {h}
  BY DEF Kept, W
<1>13. \A p \in Window(last, r.aidx) : r.avail[p % num] \in given \ {h}
  BY DEF Kept
<1>14. \A p \in W \cup {r.uidx} : c.used[p % num] \in given \ {}
  BY <1>10, <1>12 DEF Kept
<1>15. \A p, o \in W \cup {r.uidx} : p # o => c.used[p % num] # c.used[o % num]
  <2>1. \A p, o \in W : p # o => r.used[p % num] # r.used[o % num]
    BY DEF Kept, W
  <2> QED
    BY <1>10, <1>12, <2>1
<1>16. \A p \in W \cup {r.uidx}, o \in Window(last, r.aidx) : c.used[p % num] # r.avail[o % num]
  <2>1. \A p \in W, o \in Window(last, r.aidx) : r.used[p % num] # r.avail[o % num]
    BY DEF Kept, W
  <2> QED
    BY <1>10, <1>13, <2>1
<1> QED
  <2>1. {} \subseteq given /\ Dist(lu, c.aidx) <= num
    BY DEF Kept
  <2>2. \A p \in Window(last, c.aidx) : c.avail[p % num] \in given \ {}
    BY <1>13
  <2>3. \A p, o \in Window(last, c.aidx) : p # o => c.avail[p % num] # c.avail[o % num]
    BY DEF Kept
  <2>4. \A p \in Window(lu, c.uidx) : c.used[p % num] \in given \ {}
    BY <1>7, <1>14
  <2>5. \A p, o \in Window(lu, c.uidx) : p # o => c.used[p % num] # c.used[o % num]
    BY <1>7, <1>15
  <2>6. \A p \in Window(lu, c.uidx), o \in Window(last, c.aidx) : c.used[p % num] # c.avail[o % num]
    BY <1>7, <1>16
  <2> QED
    BY <1>11, <2>1, <2>2, <2>3, <2>4, <2>5, <2>6, Zenon DEF Kept

\* The driver makes a chain available that it owns, while the ring has room: the
\* slot is one the device has read already.
LEMMA Add ==
    ASSUME NEW r \in Rings, NEW lu \in Idx, NEW num \in Sizes, num <= MAX_QUEUE_NUM,
           NEW last \in Idx, NEW given, NEW held, NEW h, h \notin given,
           Kept(r, lu, num, last, given, held), Dist(lu, r.aidx) < num, NEW c \in Rings,
           c.uidx = r.uidx, c.used = r.used, c.aidx = (r.aidx + 1) % IDX,
           c.avail = [r.avail EXCEPT ![r.aidx % num] = h]
    PROVE  Kept(c, lu, num, last, given \cup {h}, held)
<1> DEFINE W == Window(last, r.aidx)
<1>1. r.uidx \in Idx /\ r.aidx \in Idx /\ r.avail \in Slots
  BY DEF Rings, Idx
<1>2. Dist(lu, r.uidx) \in Nat /\ Dist(last, r.aidx) \in Nat /\ Dist(lu, r.aidx) \in Nat
  BY <1>1, DistNat
<1>3. Size(held) \in Nat
  BY DEF Size
<1>5. num \in Nat /\ MAX_QUEUE_NUM \in Nat /\ MAX_QUEUE_NUM < IDX /\ IDX \in Nat
  BY RingAssumption DEF Sizes
<1>6. Dist(last, r.aidx) < num /\ Dist(last, r.aidx) + 1 < IDX /\ Dist(lu, r.aidx) + 1 < IDX
  BY <1>2, <1>3, <1>5 DEF Kept
<1>7. /\ Window(last, c.aidx) = W \cup {r.aidx} /\ Dist(last, c.aidx) = Dist(last, r.aidx) + 1
      /\ Dist(lu, c.aidx) = Dist(lu, r.aidx) + 1
  BY <1>1, <1>6, WindowGrows
<1>8. \A p \in W : p % num # r.aidx % num
  BY <1>1, <1>6, SlotsDiffer
<1>9. r.aidx % num \in DOMAIN r.avail
  BY <1>1, SlotIn, Zenon DEF Slots
<1>10. c.avail[r.aidx % num] = h /\ \A p \in W : c.avail[p % num] = r.avail[p % num]
  BY <1>8, <1>9
<1>11. Dist(lu, c.uidx) + Dist(last, c.aidx) + Size(held) <= Dist(lu, c.aidx)
  BY <1>2, <1>3, <1>7 DEF Kept
<1> HIDE DEF W
<1>12. \A p \in W : r.avail[p % num] \in given \ held
  BY DEF Kept, W
<1>13. \A p \in Window(lu, r.uidx) : r.used[p % num] \in given \ held
  BY DEF Kept
<1>14. \A p \in W \cup {r.aidx} : c.avail[p % num] \in (given \cup {h}) \ held
  BY <1>10, <1>12 DEF Kept
<1>15. \A p, o \in W \cup {r.aidx} : p # o => c.avail[p % num] # c.avail[o % num]
  <2>1. \A p, o \in W : p # o => r.avail[p % num] # r.avail[o % num]
    BY DEF Kept, W
  <2> QED
    BY <1>10, <1>12, <2>1
<1>16. \A p \in Window(lu, r.uidx), o \in W \cup {r.aidx} : r.used[p % num] # c.avail[o % num]
  <2>1. \A p \in Window(lu, r.uidx), o \in W : r.used[p % num] # r.avail[o % num]
    BY DEF Kept, W
  <2> QED
    BY <1>10, <1>13, <2>1
<1> QED
  <2>1. held \subseteq given \cup {h}
    BY DEF Kept
  <2>2. \A p \in Window(lu, c.uidx) : c.used[p % num] \in (given \cup {h}) \ held
    BY <1>13
  <2>3. \A p, o \in Window(lu, c.uidx) : p # o => c.used[p % num] # c.used[o % num]
    BY DEF Kept
  <2>4. Dist(lu, c.aidx) <= num
    BY <1>2, <1>5, <1>7
  <2>5. \A p \in Window(last, c.aidx) : c.avail[p % num] \in (given \cup {h}) \ held
    BY <1>7, <1>14
  <2>6. \A p, o \in Window(last, c.aidx) : p # o => c.avail[p % num] # c.avail[o % num]
    BY <1>7, <1>15
  <2>7. \A p \in Window(lu, c.uidx), o \in Window(last, c.aidx) : c.used[p % num] # c.avail[o % num]
    BY <1>7, <1>16
  <2> QED
    BY <1>11, <2>1, <2>2, <2>3, <2>4, <2>5, <2>6, <2>7, Zenon DEF Kept

\* The driver reads the next used entry, which is a chain it has given, and has
\* it back.
LEMMA Reap ==
    ASSUME NEW r \in Rings, NEW lu \in Idx, NEW num \in Sizes,
           NEW last \in Idx, NEW given, NEW held,
           Kept(r, lu, num, last, given, held), lu # r.uidx
    PROVE  /\ r.used[lu % num] \in given
           /\ Kept(r, (lu + 1) % IDX, num, last, given \ {r.used[lu % num]}, held)
<1> DEFINE h == r.used[lu % num]
           n == (lu + 1) % IDX
<1>1. r.uidx \in Idx /\ r.aidx \in Idx
  BY DEF Rings, Idx
<1>2. /\ Window(n, r.uidx) = Window(lu, r.uidx) \ {lu}
      /\ Dist(n, r.uidx) = Dist(lu, r.uidx) - 1
      /\ lu \in Window(lu, r.uidx)
  BY <1>1, WindowShrinks
<1>3. Dist(lu, r.uidx) \in Nat /\ Dist(last, r.aidx) \in Nat /\ Dist(lu, r.aidx) \in Nat /\ Dist(lu, r.uidx) # 0
  BY <1>1, DistNat, DistZero
<1>4. h \in given \ held
  BY <1>2 DEF Kept
<1>5. Size(held) \in Nat /\ num \in Nat
  BY DEF Size, Sizes
<1>6. Dist(lu, r.aidx) # 0
  BY <1>3, <1>5 DEF Kept
<1>7. lu # r.aidx
  BY <1>1, <1>6, DistZero
<1>8. Dist(n, r.aidx) = Dist(lu, r.aidx) - 1
  BY <1>1, <1>7, WindowShrinks
<1> HIDE DEF n
<1>9. Dist(n, r.uidx) + Dist(last, r.aidx) + Size(held) <= Dist(n, r.aidx) /\ Dist(n, r.aidx) <= num
  BY <1>2, <1>3, <1>5, <1>8 DEF Kept
<1>10. Kept(r, n, num, last, given \ {h}, held)
  <2> SUFFICES /\ \A p \in Window(n, r.uidx) : r.used[p % num] \in (given \ {h}) \ held
               /\ \A p \in Window(last, r.aidx) : r.avail[p % num] \in (given \ {h}) \ held
               /\ held \subseteq given \ {h}
    BY <1>2, <1>9, Zenon DEF Kept
  <2> QED
    BY <1>2, <1>4 DEF Kept
<1> QED
  BY <1>4, <1>10 DEF n

\* BlockRequest of the block device.
Reqs == [busy : BOOLEAN, queue_idx : Queues, desc_idx : Heads \cup {0}]

\* The head of the request in progress, if it is one of queue q.
InFlight(rq, q) == IF rq.busy /\ rq.queue_idx = q THEN {rq.desc_idx} ELSE {}

\* A queue that is not ready: nothing was given to it since the last reset.
Quiet(q) ==
    /\ queue[q].last_avail_idx = 0 /\ ring[q].aidx = 0 /\ ring[q].uidx = 0 /\ last_used[q] = 0
    /\ Given(q) = {}

\* What holds of a queue between the handlers.
QueueInv(q) ==
    /\ queue[q].num \in Sizes
    /\ Kept(ring[q], last_used[q], queue[q].num, queue[q].last_avail_idx, Given(q), InFlight(req, q))
    /\ queue[q].ready = 0 => Quiet(q)
    /\ ~queue[q].addr => queue[q].ready = 0

\* The inductive invariant: the properties hold together with the account of
\* each queue, and only the block device has a request in progress.
IInv ==
    /\ TypeOK
    /\ LineMatchesStatus
    /\ ReceiveBuffersKept
    /\ req.busy => dev.kind = "block"
    /\ \A q \in Queues : QueueInv(q)

\* The states of the device inside a handler.
States == [ring : [Queues -> Rings], int_status : SUBSET {1, 2}, irq : {0, 1}, req : Reqs,
           last : Idx, stop : BOOLEAN]

\* The part of the invariant that holds in the middle of a handler of queue q.
StateInv(st, q) ==
    /\ st \in States
    /\ (st.irq = 1) <=> (st.int_status # {})
    /\ st.req.busy => dev.kind = "block"
    /\ \A o \in Queues \ {q} : st.ring[o] = ring[o] /\ InFlight(st.req, o) \subseteq InFlight(req, o)
    /\ st.ring[q].aidx = ring[q].aidx /\ st.ring[q].avail = ring[q].avail
    /\ Kept(st.ring[q], last_used[q], queue[q].num, st.last, Given(q), InFlight(st.req, q))
    /\ manual_recv(q) => st.last = st.ring[q].uidx

\* What the invariant says of the numbers of a queue.
LEMMA QueueFacts ==
    ASSUME IInv, NEW q \in Queues
    PROVE  /\ queue[q].num \in Sizes /\ queue[q].num <= MAX_QUEUE_NUM
           /\ last_used[q] \in Idx /\ queue[q].last_avail_idx \in Idx
           /\ ring[q] \in Rings /\ Given(q) \in SUBSET Heads
           /\ AvailIdx(q) = ring[q].aidx
           /\ ring[q].aidx \in Idx /\ ring[q].uidx \in Idx
<1>1. ring[q] \in Rings /\ last_used[q] \in Idx
  BY DEF IInv, TypeOK, Idx
<1>2. queue[q] \in QueueStates
  BY DEF IInv, TypeOK
<1>3. queue[q].num <= MAX_QUEUE_NUM /\ queue[q].last_avail_idx \in Idx
  BY <1>2, RingAssumption DEF Idx, Sizes, QueueStates
<1>4. AvailIdx(q) = ring[q].aidx
  BY DEF AvailIdx, IInv, QueueInv, Quiet, QueueStates
<1> QED
  BY <1>1, <1>3, <1>4, Zenon DEF IInv, QueueInv, Given, Rings, Idx

\* What consume_desc does to each part of the state.
Consumed(c, st, q, h) ==
    /\ c \in States
    /\ c.irq = 1 /\ c.int_status = st.int_status \cup {1}
    /\ c.req = st.req /\ c.last = st.last /\ c.stop = st.stop
    /\ \A o \in Queues \ {q} : c.ring[o] = st.ring[o]
    /\ c.ring[q].aidx = st.ring[q].aidx /\ c.ring[q].avail = st.ring[q].avail
    /\ c.ring[q].uidx = (st.ring[q].uidx + 1) % IDX
    /\ c.ring[q].used = [st.ring[q].used EXCEPT ![st.ring[q].uidx % queue[q].num] = h]

\* The record that virtio_consume_desc makes, field by field.
LEMMA ConsumeIs ==
    ASSUME NEW st \in States, NEW q \in Queues, NEW h \in Heads,
           queue[q].num \in Sizes, queue[q].num <= MAX_QUEUE_NUM
    PROVE  Consumed(virtio_consume_desc(st, q, h), st, q, h)
<1> DEFINE r == st.ring[q]
           k == r.uidx % queue[q].num
           c == virtio_consume_desc(st, q, h)
           d == [r EXCEPT !.uidx = (r.uidx + 1) % IDX, !.used = [r.used EXCEPT ![k] = h]]
<1>1. r \in Rings /\ r.uidx \in Idx /\ r.used \in Slots
  BY DEF States, Rings, Idx
<1>2. k \in 0..(MAX_QUEUE_NUM - 1) /\ (r.uidx + 1) % IDX \in Idx
  BY <1>1, SlotIn, DistIs, Zenon
<1>3. [r.used EXCEPT ![k] = h] \in Slots
  BY <1>1, <1>2 DEF Slots
<1>4. d \in Rings
  BY <1>1, <1>2, <1>3, Zenon DEF Rings, Idx
<1>5. c = [st EXCEPT !.ring = [st.ring EXCEPT ![q] = d], !.int_status = @ \cup {1}, !.irq = 1]
  BY <1>1 DEF virtio_consume_desc, States, Rings, d
<1> HIDE DEF c, d
<1>6. d.aidx = r.aidx /\ d.avail = r.avail /\ d.uidx = (r.uidx + 1) % IDX /\ d.used = [r.used EXCEPT ![k] = h]
  BY <1>1 DEF d, Rings
<1>7. [st.ring EXCEPT ![q] = d] \in [Queues -> Rings]
  BY <1>4 DEF States
<1>8. c \in States /\ c.irq = 1 /\ c.int_status = st.int_status \cup {1}
      /\ c.req = st.req /\ c.last = st.last /\ c.stop = st.stop /\ c.ring = [st.ring EXCEPT ![q] = d]
  BY <1>5, <1>7, Zenon DEF States
<1>9. c.ring[q] = d /\ \A o \in Queues \ {q} : c.ring[o] = st.ring[o]
  BY <1>8 DEF States
<1>10. Consumed(c, st, q, h)
  BY <1>6, <1>8, <1>9 DEF Consumed
<1> QED
  BY <1>10 DEF c

\* A chain the device holds goes back into the used ring.
LEMMA ConsumeKeeps ==
    ASSUME IInv, NEW q \in Queues, NEW st \in States, NEW last \in Idx, NEW h,
           Kept(st.ring[q], last_used[q], queue[q].num, last, Given(q), {h})
    PROVE  /\ virtio_consume_desc(st, q, h) \in States
           /\ Kept(virtio_consume_desc(st, q, h).ring[q], last_used[q], queue[q].num, last, Given(q), {})
<1> DEFINE c == virtio_consume_desc(st, q, h)
<1>1. h \in Heads
  BY QueueFacts, Zenon DEF Kept
<1>2. Consumed(c, st, q, h)
  BY <1>1, QueueFacts, ConsumeIs
<1> HIDE DEF c
<1>3. st.ring[q] \in Rings /\ c.ring[q] \in Rings /\ c \in States
  BY <1>2 DEF States, Consumed
<1>4. Kept(c.ring[q], last_used[q], queue[q].num, last, Given(q), {})
  BY <1>2, <1>3, QueueFacts, Return, Zenon DEF Consumed
<1> QED
  BY <1>3, <1>4 DEF c

\* What device_recv makes of st when it takes the chain h: the chain goes into
\* the used ring, is the request in progress, or is left out.
Took(st, c, q) ==
    /\ c \in States
    /\ (c.irq = 1) <=> (c.int_status # {})
    /\ c.req.busy => dev.kind = "block"
    /\ \A o \in Queues \ {q} : c.ring[o] = st.ring[o] /\ InFlight(c.req, o) \subseteq InFlight(st.req, o)
    /\ c.ring[q].aidx = st.ring[q].aidx /\ c.ring[q].avail = st.ring[q].avail
    /\ Kept(c.ring[q], last_used[q], queue[q].num, (st.last + 1) % IDX, Given(q), InFlight(c.req, q))

\* A handler that returns the chain to the driver at once has taken it.
LEMMA TookConsumed ==
    ASSUME IInv, NEW q \in Queues, NEW st, StateInv(st, q), NEW h \in Heads, NEW rq \in Reqs,
           InFlight(rq, q) = {},
           rq.busy => dev.kind = "block",
           \A o \in Queues \ {q} : InFlight(rq, o) \subseteq InFlight(st.req, o),
           Kept(st.ring[q], last_used[q], queue[q].num, (st.last + 1) % IDX, Given(q), {h})
    PROVE  Took(st, virtio_consume_desc([st EXCEPT !.req = rq], q, h), q)
<1> DEFINE s == [st EXCEPT !.req = rq]
           c == virtio_consume_desc(s, q, h)
           n == (st.last + 1) % IDX
<1>1. s \in States /\ s.req = rq /\ s.ring = st.ring
  BY DEF StateInv, States
<1>2. n \in Idx
  BY DistIs DEF StateInv, States
<1> HIDE DEF s, n
<1>4. Kept(c.ring[q], last_used[q], queue[q].num, n, Given(q), InFlight(rq, q))
  <2>1. Kept(s.ring[q], last_used[q], queue[q].num, n, Given(q), {h})
    BY <1>1 DEF n
  <2> HIDE DEF c
  <2> QED
    BY <1>1, <1>2, <2>1, ConsumeKeeps, Zenon DEF c
<1>5. /\ c \in States /\ c.irq = 1 /\ c.int_status # {} /\ c.req = rq
      /\ \A o \in Queues \ {q} : c.ring[o] = st.ring[o]
      /\ c.ring[q].aidx = st.ring[q].aidx /\ c.ring[q].avail = st.ring[q].avail
  <2>1. queue[q].num \in Sizes /\ queue[q].num <= MAX_QUEUE_NUM
    BY QueueFacts
  <2>2. Consumed(c, s, q, h)
    BY <1>1, <2>1, ConsumeIs
  <2> HIDE DEF c
  <2> QED
    BY <1>1, <2>2 DEF Consumed
<1> HIDE DEF c
<1>6. Took(st, c, q)
  BY <1>4, <1>5, Zenon DEF Took, n
<1> QED
  BY <1>6 DEF c, s

\* A handler that only changes the request in progress has taken the chain: it
\* is that request, or it is left out (a request too short or of unknown type).
LEMMA TookNot ==
    ASSUME IInv, NEW q \in Queues, NEW st, StateInv(st, q), NEW rq \in Reqs,
           rq.busy => dev.kind = "block",
           \A o \in Queues \ {q} : InFlight(rq, o) \subseteq InFlight(st.req, o),
           Kept(st.ring[q], last_used[q], queue[q].num, (st.last + 1) % IDX, Given(q), InFlight(rq, q))
    PROVE  Took(st, [st EXCEPT !.req = rq], q)
<1> DEFINE s == [st EXCEPT !.req = rq]
<1>1. s \in States /\ s.req = rq /\ s.ring = st.ring /\ s.irq = st.irq /\ s.int_status = st.int_status
  BY DEF StateInv, States
<1> HIDE DEF s
<1>2. Took(st, s, q)
  BY <1>1, Zenon DEF Took, StateInv
<1> QED
  BY <1>2 DEF s

\* A request handler either asks for a retry or takes the chain.
LEMMA RecvTakes ==
    ASSUME IInv, NEW q \in Queues, NEW st, StateInv(st, q), NEW disk, NEW h,
           st.last # ring[q].aidx, h = ring[q].avail[st.last % queue[q].num], ~st.stop,
           NEW c, c = device_recv(st, q, h, disk)
    PROVE  /\ Took(st, st, q)
           /\ c.stop \/ (Took(st, c, q) /\ c.last = st.last /\ ~c.stop)
<1> DEFINE n == (st.last + 1) % IDX
           K(held) == Kept(st.ring[q], last_used[q], queue[q].num, n, Given(q), held)
<1>1. st \in States /\ st.ring[q] \in Rings /\ st.last \in Idx /\ st.req \in Reqs /\ n \in Idx
  BY DistIs, Zenon DEF StateInv, States
<1>2. st.ring[q].aidx = ring[q].aidx /\ st.ring[q].avail = ring[q].avail
  BY Zenon DEF StateInv
<1>3. h \in Given(q) /\ K(InFlight(st.req, q)) /\ (InFlight(st.req, q) = {} => K({h}))
  <2>1. Kept(st.ring[q], last_used[q], queue[q].num, st.last, Given(q), InFlight(st.req, q))
    BY Zenon DEF StateInv
  <2> HIDE DEF K
  <2> QED
    <3>1. queue[q].num \in Sizes /\ last_used[q] \in Idx
      BY QueueFacts, Zenon
    <3>2. h = st.ring[q].avail[st.last % queue[q].num] /\ st.last # st.ring[q].aidx
      BY <1>2, Zenon
    <3> DEFINE r == st.ring[q]
               num == queue[q].num
               lu == last_used[q]
               last == st.last
               given == Given(q)
               held == InFlight(st.req, q)
    <3>3. /\ r \in Rings /\ lu \in Idx /\ num \in Sizes /\ last \in Idx
          /\ Kept(r, lu, num, last, given, held) /\ last # r.aidx
      BY <1>1, <2>1, <3>1, <3>2, Zenon
    <3> HIDE DEF r, num, lu, last, given, held
    <3>4. /\ r.avail[last % num] \in given \ held
          /\ Kept(r, lu, num, (last + 1) % IDX, given, held)
          /\ held = {} => Kept(r, lu, num, (last + 1) % IDX, given, {r.avail[last % num]})
      BY <3>3, Take, Zenon
    <3> QED
      BY <3>2, <3>4, Zenon DEF K, r, num, lu, last, given, held
<1>4. h \in Heads
  BY <1>3, Zenon DEF Given
<1>5. ~st.req.busy => K({}) /\ K({h}) /\ InFlight(st.req, q) = {}
  BY <1>3, Zenon DEF InFlight
<1> HIDE DEF K
<1>6. st = [st EXCEPT !.req = st.req]
  BY <1>1, Zenon DEF States
<1>7. (st.req.busy => dev.kind = "block")
  BY Zenon DEF StateInv
<1>8. Took(st, st, q)
  <2>1. Took(st, [st EXCEPT !.req = st.req], q)
    BY <1>1, <1>3, <1>7, TookNot, Zenon DEF K
  <2> QED
    BY <1>6, <2>1, Zenon
<1>9. ASSUME ~st.req.busy PROVE Took(st, virtio_consume_desc(st, q, h), q)
  <2>1. Took(st, virtio_consume_desc([st EXCEPT !.req = st.req], q, h), q)
    BY <1>1, <1>4, <1>5, <1>7, <1>9, TookConsumed, Zenon DEF K
  <2> QED
    BY <1>6, <2>1, Zenon
<1>10. virtio_consume_desc(st, q, h).last = st.last /\ virtio_consume_desc(st, q, h).stop = st.stop
  <2>1. queue[q].num \in Sizes /\ queue[q].num <= MAX_QUEUE_NUM
    BY QueueFacts, Zenon
  <2>2. Consumed(virtio_consume_desc(st, q, h), st, q, h)
    BY <1>1, <1>4, <2>1, ConsumeIs, Zenon
  <2> QED
    BY <2>2, Zenon DEF Consumed
<1>11. CASE dev.kind # "block"
  <2>1. c \in {st, virtio_consume_desc(st, q, h)}
    <3>1. dev.kind \in {"net", "console"}
      BY <1>11, DeviceAssumption DEF IInv, TypeOK
    <3> HIDE DEF K
    <3> QED
      BY <3>1, Zenon DEF device_recv, virtio_net_recv_request, virtio_console_recv_request
  <2> QED
    BY <1>7, <1>8, <1>9, <1>10, <1>11, <2>1, Zenon
<1>12. CASE dev.kind = "block"
  <2>1. c = virtio_block_recv_request(st, q, h, disk)
    BY <1>12, Zenon DEF device_recv
  <2>2. CASE st.req.busy
    BY <1>1, <1>8, <2>1, <2>2, Zenon DEF virtio_block_recv_request, States
  <2>3. CASE ~st.req.busy
    <3> DEFINE idle == [st.req EXCEPT !.queue_idx = q, !.desc_idx = h]
               busy == [busy |-> TRUE, queue_idx |-> q, desc_idx |-> h]
               x == [st EXCEPT !.req = idle]
               y == [st EXCEPT !.req = busy]
               z == virtio_consume_desc(x, q, h)
    <3> HIDE DEF idle, busy, x, y, z
    <3>1. c \in {st, x, y, z}
      <4>1. [st EXCEPT !.req.queue_idx = q, !.req.desc_idx = h] = x
        BY <1>1, Zenon DEF States, Reqs, x, idle
      <4> QED
        BY <2>1, <2>3, <4>1, Zenon DEF virtio_block_recv_request, y, busy, z
    <3>2. idle \in Reqs /\ busy \in Reqs /\ ~idle.busy
      BY <1>1, <1>4, <2>3, Zenon DEF Reqs, idle, busy
    <3>3. /\ \A o \in Queues : InFlight(idle, o) = {}
          /\ InFlight(busy, q) = {h} /\ \A o \in Queues \ {q} : InFlight(busy, o) = {}
      BY <3>2, Zenon DEF InFlight, busy
    <3>4. x.last = st.last /\ x.stop = st.stop /\ y.last = st.last /\ y.stop = st.stop /\ x \in States
      BY <1>1, <3>2, Zenon DEF States, x, y
    <3>5. z.last = st.last /\ z.stop = st.stop
      <4>1. queue[q].num \in Sizes /\ queue[q].num <= MAX_QUEUE_NUM
        BY QueueFacts, Zenon
      <4>2. Consumed(z, x, q, h)
        BY <1>4, <3>4, <4>1, ConsumeIs, Zenon DEF z
      <4> QED
        BY <3>4, <4>2, Zenon DEF Consumed
    <3>6. Took(st, x, q)
      <4>1. K(InFlight(idle, q))
        BY <1>5, <2>3, <3>3, Zenon
      <4> QED
        BY <3>2, <3>3, <4>1, TookNot, Zenon DEF K, x
    <3>7. Took(st, y, q)
      <4>1. K(InFlight(busy, q))
        BY <1>5, <2>3, <3>3, Zenon
      <4> QED
        BY <1>12, <3>2, <3>3, <4>1, TookNot, Zenon DEF K, y
    <3>8. Took(st, z, q)
      <4>1. K({h})
        BY <1>5, <2>3, Zenon
      <4> QED
        BY <1>4, <3>2, <3>3, <4>1, TookConsumed, Zenon DEF K, x, z
    <3> QED
      BY <1>8, <3>1, <3>4, <3>5, <3>6, <3>7, <3>8, Zenon
  <2> QED
    BY <2>2, <2>3, Zenon
<1> QED
  BY <1>11, <1>12, Zenon

\* The position an offset into the entries that wait stands for.
LEMMA Offset ==
    ASSUME NEW a \in Idx, NEW b \in Idx, NEW i \in Nat, i < Dist(a, b)
    PROVE  /\ (a + i) % IDX \in Window(a, b) /\ (a + i) % IDX # b
           /\ (((a + i) % IDX) + 1) % IDX = (a + i + 1) % IDX
           /\ Dist(a, (a + i) % IDX) = i
<1> DEFINE c == (a + i) % IDX
<1>1. IDX \in Nat /\ a \in 0..(IDX - 1) /\ b \in 0..(IDX - 1) /\ IDX > 1
  BY DistAll DEF Idx
<1>2. Dist(a, b) = IF a <= b THEN b - a ELSE b - a + IDX
  BY DistAll DEF Idx
<1>3. a + i \in (-IDX)..(2 * IDX - 1) /\ a + i + 1 \in (-IDX)..(2 * IDX - 1) /\ a + i \in Nat
  BY <1>1, <1>2
<1>4. c = IF a + i < IDX THEN a + i ELSE a + i - IDX
  BY <1>1, <1>3, Wrap
<1>5. (a + i + 1) % IDX = IF a + i + 1 < IDX THEN a + i + 1 ELSE a + i + 1 - IDX
  BY <1>1, <1>3, Wrap
<1> HIDE DEF c
<1>6. c \in 0..(IDX - 1)
  BY <1>1, <1>3, <1>4
<1>7. (c + 1) % IDX = IF c + 1 < IDX THEN c + 1 ELSE 0
  BY <1>6, DistAll
<1>8. Dist(a, c) = IF a <= c THEN c - a ELSE c - a + IDX
  BY <1>1, <1>6, DistAll
<1>9. Dist(a, c) = i
  BY <1>1, <1>2, <1>3, <1>4, <1>8
<1>10. c # b
  BY <1>1, <1>2, <1>4
<1>11. (c + 1) % IDX = (a + i + 1) % IDX
  BY <1>1, <1>3, <1>4, <1>5, <1>7
<1> QED
  BY <1>6, <1>9, <1>10, <1>11 DEF c, Window, Idx

\* A request to be retried leaves the queue as it is.
LEMMA StopKeeps ==
    ASSUME NEW q \in Queues, NEW st, StateInv(st, q)
    PROVE  StateInv([st EXCEPT !.stop = TRUE], q) /\ [st EXCEPT !.stop = TRUE].stop
<1> DEFINE s == [st EXCEPT !.stop = TRUE]
<1>1. s \in States /\ s.req = st.req /\ s.ring = st.ring /\ s.irq = st.irq /\ s.int_status = st.int_status
      /\ s.last = st.last /\ s.stop
  BY Zenon DEF StateInv, States
<1> HIDE DEF s
<1>2. StateInv(s, q)
  BY <1>1, Zenon DEF StateInv
<1> QED
  BY <1>1, <1>2 DEF s

\* After a chain is taken, last_avail_idx moves past it.
LEMMA TookStep ==
    ASSUME NEW q \in Queues, NEW st, StateInv(st, q), NEW c, Took(st, c, q), c.last = st.last,
           manual_recv(q) => c.ring[q].uidx = (st.last + 1) % IDX,
           NEW s, s = [c EXCEPT !.last = (@ + 1) % IDX]
    PROVE  StateInv(s, q) /\ s.last = (st.last + 1) % IDX
<1> DEFINE n == (st.last + 1) % IDX
<1>1. n \in Idx
  BY DistIs DEF StateInv, States
<1> HIDE DEF n
<1>2. s \in States /\ s.req = c.req /\ s.ring = c.ring /\ s.irq = c.irq /\ s.int_status = c.int_status
      /\ s.last = n
  BY <1>1 DEF Took, States, n
<1>3. \A o \in Queues \ {q} : s.ring[o] = ring[o] /\ InFlight(s.req, o) \subseteq InFlight(req, o)
  BY <1>2 DEF Took, StateInv
<1>4. s.ring[q].aidx = ring[q].aidx /\ s.ring[q].avail = ring[q].avail
  BY <1>2 DEF Took, StateInv
<1>5. Kept(s.ring[q], last_used[q], queue[q].num, s.last, Given(q), InFlight(s.req, q))
  BY <1>2, Zenon DEF Took, n
<1>6. ((s.irq = 1) <=> (s.int_status # {})) /\ (s.req.busy => dev.kind = "block")
  BY <1>2, Zenon DEF Took
<1>7. manual_recv(q) => s.last = s.ring[q].uidx
  BY <1>2, Zenon DEF n
<1>8. StateInv(s, q)
  BY <1>2, <1>3, <1>4, <1>5, <1>6, <1>7, Zenon DEF StateInv
<1> QED
  BY <1>2, <1>8 DEF n

\* One turn of queue_notify's loop.
LEMMA StepKeeps ==
    ASSUME IInv, NEW q \in Queues, ~manual_recv(q), NEW st, StateInv(st, q), NEW disk,
           NEW i \in Nat, i < Waiting(q),
           st.stop \/ st.last = (queue[q].last_avail_idx + i) % IDX,
           NEW s, s = NotifyStep(st, q, Entry(q, i), disk)
    PROVE  /\ StateInv(s, q)
           /\ s.stop \/ s.last = (queue[q].last_avail_idx + i + 1) % IDX
<1> DEFINE h == Entry(q, i)
           a == queue[q].last_avail_idx
           c == device_recv(st, q, h, disk)
           t == IF RwSizeOk(q, h) THEN c ELSE st
<1>1. s = IF st.stop \/ t.stop THEN [st EXCEPT !.stop = TRUE] ELSE [t EXCEPT !.last = (@ + 1) % IDX]
  BY Zenon DEF NotifyStep
<1>2. st.stop \in BOOLEAN
  BY DEF StateInv, States
<1> HIDE DEF h, c, t, a
<1>3. CASE st.stop
  BY <1>1, <1>3, StopKeeps, Zenon
<1>4. CASE ~st.stop
  <2>1. a \in Idx /\ ring[q].aidx \in Idx /\ i < Dist(a, ring[q].aidx)
    BY QueueFacts DEF Waiting, Dist, a
  <2>2. st.last = (a + i) % IDX
    BY <1>4 DEF a
  <2>3. st.last # ring[q].aidx /\ (st.last + 1) % IDX = (a + i + 1) % IDX
    BY <2>1, <2>2, Offset
  <2>4. h = ring[q].avail[st.last % queue[q].num]
    BY <2>2, Zenon DEF h, a, Entry
  <2>5. /\ Took(st, st, q)
        /\ c.stop \/ (Took(st, c, q) /\ c.last = st.last /\ ~c.stop)
    BY <1>4, <2>3, <2>4, RecvTakes, Zenon DEF c
  <2>6. t.stop \/ (Took(st, t, q) /\ t.last = st.last)
    BY <2>5, Zenon DEF t
  <2>7. CASE t.stop
    BY <1>1, <2>7, StopKeeps, Zenon
  <2>8. CASE ~t.stop
    <3>1. s = [t EXCEPT !.last = (@ + 1) % IDX]
      BY <1>1, <1>4, <2>8, Zenon
    <3>2. Took(st, t, q) /\ t.last = st.last
      BY <2>6, <2>8, Zenon
    <3>3. StateInv(s, q) /\ s.last = (st.last + 1) % IDX
      BY <3>1, <3>2, TookStep
    <3> QED
      BY <2>3, <3>3, Zenon DEF a
  <2> QED
    BY <2>7, <2>8, Zenon
<1> QED
  BY <1>3, <1>4, Zenon

\* The loop is what its recursive definition says: there is a function that
\* satisfies the equation, for any number of turns.
LEMMA LoopIs ==
    ASSUME NEW q, NEW st, NEW disk, Waiting(q) \in Nat, NEW f, f = NotifyLoop(st, q, disk)
    PROVE  /\ f[0] = st
           /\ \A i \in 0..Waiting(q) : i > 0 => f[i] = NotifyStep(f[i - 1], q, Entry(q, i - 1), disk)
<1> DEFINE T(x, i) == NotifyStep(x, q, Entry(q, i - 1), disk)
           G(g, n) == g = [i \in 0..n |-> IF i = 0 THEN st ELSE T(g[i - 1], i)]
           S == {n \in Nat : \E g : G(g, n)}
<1> HIDE DEF T
<1>1. 0 \in S
  <2> DEFINE g == [i \in 0..0 |-> st]
  <2>1. G(g, 0)
    OBVIOUS
  <2> QED
    BY <2>1, Zenon
<1>2. ASSUME NEW n \in Nat, n \in S PROVE n + 1 \in S
  <2>1. PICK g : G(g, n)
    BY <1>2
  <2> DEFINE k == [i \in 0..(n + 1) |-> IF i <= n THEN g[i] ELSE T(g[n], n + 1)]
  <2>2. \A i \in 0..n : k[i] = g[i]
    OBVIOUS
  <2>3. ASSUME NEW i \in 0..(n + 1) PROVE k[i] = IF i = 0 THEN st ELSE T(k[i - 1], i)
    <3>1. CASE i = 0
      BY <2>1, <3>1
    <3>2. CASE i # 0 /\ i <= n
      BY <2>1, <2>2, <3>2
    <3>3. CASE i = n + 1
      BY <2>2, <3>3
    <3> QED
      BY <3>1, <3>2, <3>3
  <2>4. G(k, n + 1)
    BY <2>3
  <2> HIDE DEF G, k
  <2>5. \E w : G(w, n + 1)
    BY <2>4, Zenon
  <2>6. n + 1 \in Nat
    OBVIOUS
  <2> QED
    BY <2>5, <2>6, Zenon DEF S
<1>3. \A n \in Nat : n \in S
  <2> HIDE DEF S
  <2> QED
    BY <1>1, <1>2, NatInd
<1>4. PICK g : G(g, Waiting(q))
  BY <1>3
<1>5. NotifyLoop(st, q, disk) = [i \in 0..Waiting(q) |->
          IF i = 0 THEN st ELSE NotifyStep(NotifyLoop(st, q, disk)[i - 1], q, Entry(q, i - 1), disk)]
  BY <1>4, Zenon DEF NotifyLoop, T
<1>6. f = [i \in 0..Waiting(q) |-> IF i = 0 THEN st ELSE NotifyStep(f[i - 1], q, Entry(q, i - 1), disk)]
  BY <1>5, Zenon
<1> QED
  BY <1>6

\* queue_notify keeps the invariant, for any number of entries.
LEMMA NotifyKeeps ==
    ASSUME IInv, NEW q \in Queues, NEW st, StateInv(st, q), NEW disk,
           manual_recv(q) \/ st.last = queue[q].last_avail_idx
    PROVE  StateInv(queue_notify(st, q, disk), q)
<1>1. CASE manual_recv(q)
  BY <1>1, Zenon DEF queue_notify
<1>2. CASE ~manual_recv(q)
  <2> DEFINE f == NotifyLoop(st, q, disk)
             N == Waiting(q)
             a == queue[q].last_avail_idx
             P(n) == n <= N => StateInv(f[n], q) /\ (f[n].stop \/ f[n].last = (a + n) % IDX)
             S == {n \in Nat : P(n)}
  <2>1. N \in Nat /\ a \in Idx
    BY QueueFacts, DistNat DEF Waiting, Dist
  <2>2. /\ f[0] = st
        /\ \A i \in 0..N : i > 0 => f[i] = NotifyStep(f[i - 1], q, Entry(q, i - 1), disk)
    <3> HIDE DEF f
    <3> QED
      BY <2>1, LoopIs DEF f
  <2> HIDE DEF f, N, a
  <2>3. 0 \in S
    <3>1. (a + 0) % IDX = a
      <4>1. a \in 0..(IDX - 1) /\ IDX \in Nat /\ IDX > 1
        BY <2>1, DistAll DEF Idx
      <4>2. a \in (-IDX)..(2 * IDX - 1)
        BY <4>1
      <4> QED
        BY <4>1, <4>2, Wrap
    <3>2. f[0].last = a
      BY <1>2, <2>2 DEF a
    <3> QED
      BY <2>2, <3>1, <3>2
  <2>4. ASSUME NEW n \in Nat, n \in S PROVE n + 1 \in S
    <3> SUFFICES ASSUME n + 1 <= N
                 PROVE  StateInv(f[n + 1], q) /\ (f[n + 1].stop \/ f[n + 1].last = (a + (n + 1)) % IDX)
      OBVIOUS
    <3>1. StateInv(f[n], q) /\ (f[n].stop \/ f[n].last = (a + n) % IDX) /\ n < N
      BY <2>1, <2>4
    <3>2. f[n + 1] = NotifyStep(f[n], q, Entry(q, n), disk)
      <4>1. n + 1 \in 0..N /\ n + 1 > 0 /\ (n + 1) - 1 = n
        BY <2>1
      <4> QED
        BY <2>2, <4>1
    <3>3. StateInv(f[n + 1], q) /\ (f[n + 1].stop \/ f[n + 1].last = (a + n + 1) % IDX)
      BY <1>2, <3>1, <3>2, StepKeeps DEF N, a
    <3>4. a + n + 1 = a + (n + 1)
      BY <2>1 DEF Idx
    <3> QED
      BY <3>3, <3>4
  <2>5. \A n \in Nat : n \in S
    <3> HIDE DEF S
    <3> QED
      BY <2>3, <2>4, NatInd
  <2>6. StateInv(f[N], q)
    BY <2>1, <2>5
  <2> QED
    BY <1>2, <2>6, Zenon DEF queue_notify, f, N
<1> QED
  BY <1>1, <1>2, Zenon

\* A handler starts in a state that satisfies StateInv.
LEMMA NowInv ==
    ASSUME IInv, NEW q \in Queues
    PROVE  StateInv(Now(q), q) /\ Now(q).last = queue[q].last_avail_idx /\ Now(q).stop = FALSE
           /\ Now(q).req = req /\ Now(q).ring = ring
<1> DEFINE s == Now(q)
<1>1. s.req = req /\ s.ring = ring /\ s.irq = irq /\ s.int_status = int_status
      /\ s.last = queue[q].last_avail_idx /\ s.stop = FALSE
  BY DEF Now
<1>2. s \in States
  BY QueueFacts DEF Now, States, IInv, TypeOK, Reqs
<1> HIDE DEF s
<1>3. manual_recv(q) => s.last = s.ring[q].uidx
  BY <1>1 DEF manual_recv, IInv, ReceiveBuffersKept
<1>4. ((s.irq = 1) <=> (s.int_status # {})) /\ (s.req.busy => dev.kind = "block")
  BY <1>1, Zenon DEF IInv, LineMatchesStatus
<1>5. Kept(s.ring[q], last_used[q], queue[q].num, s.last, Given(q), InFlight(s.req, q))
  BY <1>1, Zenon DEF IInv, QueueInv
<1>6. StateInv(s, q)
  BY <1>1, <1>2, <1>3, <1>4, <1>5, Zenon DEF StateInv
<1> QED
  BY <1>1, <1>6 DEF s

\* A handler that ends in such a state leaves the invariant true.
LEMMA BecomeKeeps ==
    ASSUME IInv, NEW q \in Queues, NEW st, StateInv(st, q), Become(st, q),
           UNCHANGED <<dev, queue_sel, chain, last_used, resets>>, kick' \in SUBSET Queues
    PROVE  IInv'
<1>1. /\ ring' = st.ring /\ int_status' = st.int_status /\ irq' = st.irq /\ req' = st.req
      /\ queue' = [queue EXCEPT ![q].last_avail_idx = st.last]
      /\ dev' = dev /\ queue_sel' = queue_sel /\ chain' = chain /\ last_used' = last_used /\ resets' = resets
  BY DEF Become
<1>2. \A o \in Queues : /\ queue'[o].num = queue[o].num /\ queue'[o].ready = queue[o].ready /\ queue'[o].addr = queue[o].addr
                        /\ o # q => queue'[o] = queue[o]
  BY <1>1 DEF IInv, TypeOK, QueueStates
<1>3. queue'[q].last_avail_idx = st.last
  BY <1>1 DEF IInv, TypeOK, QueueStates
<1>4. \A o \in Queues : Given(o)' = Given(o)
  BY <1>1 DEF Given
<1>5. TypeOK'
  <2>1. st \in States
    BY DEF StateInv
  <2>2. queue' \in [Queues -> QueueStates]
    <3>1. st.last \in 0..(IDX - 1) /\ queue[q] \in QueueStates /\ queue \in [Queues -> QueueStates]
      BY <2>1 DEF States, Idx, IInv, TypeOK
    <3>2. [queue[q] EXCEPT !.last_avail_idx = st.last] \in QueueStates
      BY <3>1 DEF QueueStates
    <3>3. queue' = [queue EXCEPT ![q] = [queue[q] EXCEPT !.last_avail_idx = st.last]]
      BY <1>1, <3>1
    <3> QED
      BY <3>1, <3>2, <3>3
  <2>3. ring' \in [Queues -> Rings] /\ int_status' \subseteq {1, 2} /\ irq' \in {0, 1} /\ req' \in Reqs
    BY <1>1, <2>1 DEF States
  <2> QED
    BY <1>1, <2>2, <2>3, Zenon DEF IInv, TypeOK, Reqs
<1>6. LineMatchesStatus' /\ (req.busy => dev.kind = "block")'
  BY <1>1, Zenon DEF StateInv, LineMatchesStatus
<1>7. ReceiveBuffersKept'
  <2> SUFFICES ASSUME dev.kind # "block" PROVE queue'[0].last_avail_idx = ring'[0].uidx
    BY <1>1, Zenon DEF ReceiveBuffersKept
  <2>1. 0 \in Queues
    BY DeviceAssumption
  <2>2. CASE q = 0
    BY <1>1, <1>3, <2>1, <2>2 DEF StateInv, manual_recv
  <2>3. CASE q # 0
    <3>1. queue'[0] = queue[0] /\ st.ring[0] = ring[0]
      BY <1>2, <2>1, <2>3 DEF StateInv
    <3> QED
      BY <1>1, <3>1, Zenon DEF IInv, ReceiveBuffersKept
  <2> QED
    BY <2>2, <2>3
<1>8. ASSUME NEW o \in Queues, o # q PROVE QueueInv(o)'
  <2>1. queue'[o] = queue[o] /\ ring'[o] = ring[o] /\ InFlight(req', o) \subseteq InFlight(req, o)
    BY <1>1, <1>2, <1>8 DEF StateInv
  <2>2. Kept(ring[o], last_used[o], queue[o].num, queue[o].last_avail_idx, Given(o), InFlight(req', o))
    BY <2>1, QueueFacts, Drop DEF IInv, QueueInv
  <2>3. QueueInv(o)
    BY DEF IInv
  <2> QED
    BY <1>1, <1>4, <2>1, <2>2, <2>3, Zenon DEF QueueInv, Quiet
<1>9. QueueInv(q)'
  <2>1. Kept(ring'[q], last_used'[q], queue'[q].num, queue'[q].last_avail_idx, Given(q)', InFlight(req', q))
    BY <1>1, <1>2, <1>3, <1>4, Zenon DEF StateInv
  <2>2. queue'[q].ready = 0 => Quiet(q)'
    <3> SUFFICES ASSUME queue[q].ready = 0 PROVE Quiet(q)'
      BY <1>2, Zenon
    <3>1. Quiet(q)
      BY DEF IInv, QueueInv
    <3>2. st.last \in Idx /\ st.ring[q].uidx \in Idx /\ st.ring[q].aidx = 0 /\ 0 \in Idx /\ last_used[q] = 0
      BY <3>1, QueueFacts DEF StateInv, States, Rings, Idx, Quiet
    <3>3. Dist(0, st.ring[q].uidx) + Dist(st.last, 0) + Size(InFlight(st.req, q)) <= Dist(0, 0)
          /\ InFlight(st.req, q) = {}
      BY <3>1, <3>2, Zenon DEF StateInv, Kept, Quiet
    <3>4. Dist(0, st.ring[q].uidx) \in Nat /\ Dist(st.last, 0) \in Nat /\ Dist(0, 0) = 0
          /\ Size(InFlight(st.req, q)) \in Nat
      BY <3>2, DistNat, DistZero DEF Size
    <3>5. Dist(0, st.ring[q].uidx) = 0 /\ Dist(st.last, 0) = 0
      BY <3>3, <3>4
    <3>6. st.last = 0 /\ st.ring[q].uidx = 0
      BY <3>2, <3>5, DistZero
    <3> QED
      BY <1>1, <1>3, <1>4, <3>1, <3>2, <3>6, Zenon DEF Quiet
  <2>3. QueueInv(q)
    BY DEF IInv
  <2> QED
    BY <1>2, <2>1, <2>2, <2>3, Zenon DEF QueueInv
<1> QED
  BY <1>5, <1>6, <1>7, <1>8, <1>9, Zenon DEF IInv

\* The notify register: queue_notify from the current state.
LEMMA NotifyInv ==
    ASSUME IInv, NEW q \in Queues, MmioQueueNotify(q)
    PROVE  IInv'
<1>1. PICK disk \in Disks : Become(queue_notify(Now(q), q, disk), q)
  BY DEF MmioQueueNotify
<1>2. StateInv(queue_notify(Now(q), q, disk), q)
  BY NowInv, NotifyKeeps, Zenon
<1>3. kick' \in SUBSET Queues
  BY DEF MmioQueueNotify, IInv, TypeOK
<1> QED
  BY <1>1, <1>2, <1>3, BecomeKeeps, Zenon DEF MmioQueueNotify

\* The callback returns the request in progress, and then serves the queue.
LEMMA ReqCbInv ==
    ASSUME IInv, virtio_block_req_cb
    PROVE  IInv'
<1> DEFINE q == req.queue_idx
           h == req.desc_idx
           c == virtio_consume_desc(Now(q), q, h)
           done == [c EXCEPT !.req.busy = FALSE]
<1>1. PICK disk \in Disks : Become(queue_notify(done, q, disk), q)
  BY DEF virtio_block_req_cb
<1>2. req.busy /\ dev.kind = "block" /\ q \in Queues
  BY DEF virtio_block_req_cb, IInv, TypeOK
<1>3. kick' \in SUBSET Queues /\ UNCHANGED <<dev, queue_sel, chain, last_used, resets>>
  BY DEF virtio_block_req_cb, IInv, TypeOK
<1>4. InFlight(req, q) = {h} /\ req \in Reqs
  BY <1>2 DEF InFlight, IInv, TypeOK, Reqs
<1> HIDE DEF q, h, c, done
<1>5. StateInv(Now(q), q) /\ Now(q).last = queue[q].last_avail_idx /\ Now(q).req = req /\ Now(q).ring = ring
  BY <1>2, NowInv, Zenon
<1>6. Now(q) \in States /\ Kept(Now(q).ring[q], last_used[q], queue[q].num, Now(q).last, Given(q), {h})
  BY <1>4, <1>5, Zenon DEF StateInv
<1>7. h \in Heads /\ Now(q).last \in Idx
  BY <1>2, <1>6, QueueFacts, Zenon DEF Kept, States
<1>8. Kept(c.ring[q], last_used[q], queue[q].num, Now(q).last, Given(q), {})
  BY <1>2, <1>6, <1>7, ConsumeKeeps, Zenon DEF c
<1>9. Consumed(c, Now(q), q, h)
  BY <1>2, <1>6, <1>7, QueueFacts, ConsumeIs DEF c
<1>10. /\ done \in States /\ done.ring = c.ring /\ done.irq = 1 /\ done.int_status # {} /\ done.last = Now(q).last
       /\ ~done.req.busy
  BY <1>4, <1>5, <1>9, Zenon DEF Consumed, States, Reqs, done
<1>11. \A o \in Queues : InFlight(done.req, o) = {}
  BY <1>10 DEF InFlight
<1>12. /\ \A o \in Queues \ {q} : done.ring[o] = ring[o]
       /\ done.ring[q].aidx = ring[q].aidx /\ done.ring[q].avail = ring[q].avail
  BY <1>5, <1>9, <1>10 DEF Consumed
<1>13. ~manual_recv(q)
  BY <1>2 DEF manual_recv
<1>14. Kept(done.ring[q], last_used[q], queue[q].num, done.last, Given(q), InFlight(done.req, q))
  BY <1>2, <1>8, <1>10, <1>11, Zenon
<1>15. StateInv(done, q)
  BY <1>2, <1>10, <1>11, <1>12, <1>13, <1>14 DEF StateInv
<1>16. StateInv(queue_notify(done, q, disk), q)
  BY <1>2, <1>5, <1>10, <1>15, NotifyKeeps, Zenon
<1> QED
  BY <1>1, <1>2, <1>3, <1>16, BecomeKeeps, Zenon

\* A packet or a key press goes into the next receive buffer.
LEMMA DeliverInv ==
    ASSUME IInv, dev.kind # "block", Waiting(0) # 0,
           Become([virtio_consume_desc(Now(0), 0, Entry(0, 0)) EXCEPT !.last = (@ + 1) % IDX], 0),
           UNCHANGED <<dev, queue_sel, chain, last_used, resets>>, kick' = kick
    PROVE  IInv'
<1> DEFINE st == Now(0)
           h == Entry(0, 0)
           c == virtio_consume_desc(st, 0, h)
           s == [c EXCEPT !.last = (@ + 1) % IDX]
           a == queue[0].last_avail_idx
<1>1. 0 \in Queues
  BY DeviceAssumption
<1>2. a \in Idx /\ ring[0].aidx \in Idx /\ Waiting(0) = Dist(a, ring[0].aidx)
  BY <1>1, QueueFacts DEF Waiting, Dist
<1>3. a # ring[0].aidx
  BY <1>2, DistZero
<1>4. (a + 0) % IDX = a
  <2>1. a \in 0..(IDX - 1) /\ IDX \in Nat /\ IDX > 1
    BY <1>2, DistAll DEF Idx
  <2>2. a \in (-IDX)..(2 * IDX - 1)
    BY <2>1
  <2> QED
    BY <2>1, <2>2, Wrap
<1>5. h = ring[0].avail[a % queue[0].num]
  BY <1>4, Zenon DEF Entry
<1>6. Become(s, 0)
  OBVIOUS
<1> HIDE DEF st, h, c, s, a
<1>7. StateInv(st, 0) /\ st.last = a /\ st.req = req /\ st.ring = ring
  BY <1>1, NowInv, Zenon DEF st, a
<1>8. ~req.busy /\ req \in Reqs /\ InFlight(req, 0) = {}
  BY DEF IInv, TypeOK, InFlight, Reqs
<1>9. h \in Given(0) /\ Kept(ring[0], last_used[0], queue[0].num, (a + 1) % IDX, Given(0), {h})
  <2>1. Kept(ring[0], last_used[0], queue[0].num, a, Given(0), {})
    BY <1>1, <1>8, Zenon DEF IInv, QueueInv, a
  <2> DEFINE r == ring[0]
             num == queue[0].num
             lu == last_used[0]
             given == Given(0)
  <2>2. r \in Rings /\ lu \in Idx /\ num \in Sizes /\ num <= MAX_QUEUE_NUM /\ given \in SUBSET Heads
    BY <1>1, QueueFacts
  <2>3. Kept(r, lu, num, a, given, {}) /\ a # r.aidx /\ h = r.avail[a % num]
    BY <1>3, <1>5, <2>1
  <2> HIDE DEF r, num, lu, given
  <2>4. r.avail[a % num] \in given /\ Kept(r, lu, num, (a + 1) % IDX, given, {r.avail[a % num]})
    BY <1>2, <2>2, <2>3, Take, Zenon
  <2>5. h \in given /\ Kept(r, lu, num, (a + 1) % IDX, given, {h})
    BY <2>3, <2>4, Zenon
  <2> QED
    BY <2>5 DEF r, num, lu, given
<1>10. h \in Heads
  BY <1>9 DEF Given
<1>11. Took(st, c, 0)
  <2>1. st = [st EXCEPT !.req = req]
    BY <1>7 DEF StateInv, States
  <2>3. Kept(st.ring[0], last_used[0], queue[0].num, (st.last + 1) % IDX, Given(0), {h})
    BY <1>7, <1>9, Zenon
  <2>4. \A o \in Queues \ {0} : InFlight(req, o) \subseteq InFlight(st.req, o)
    BY <1>7
  <2>5. Took(st, virtio_consume_desc([st EXCEPT !.req = req], 0, h), 0)
    BY <1>1, <1>7, <1>8, <1>10, <2>3, <2>4, TookConsumed, Zenon
  <2> QED
    BY <2>1, <2>5, Zenon DEF c
<1>12. Consumed(c, st, 0, h)
  BY <1>1, <1>7, <1>10, QueueFacts, ConsumeIs DEF c, StateInv
<1>13. c.last = st.last /\ c.ring[0].uidx = (st.last + 1) % IDX
  <2>1. st.ring[0].uidx = a
    BY <1>7 DEF a, IInv, ReceiveBuffersKept
  <2> QED
    BY <1>7, <1>12, <2>1, Zenon DEF Consumed
<1>14. StateInv(s, 0)
  BY <1>1, <1>7, <1>11, <1>13, TookStep DEF s
<1>15. kick' \in SUBSET Queues
  BY DEF IInv, TypeOK
<1> QED
  BY <1>1, <1>6, <1>14, <1>15, BecomeKeeps, Zenon

\* A queue with nothing in it.
LEMMA KeptEmpty ==
    ASSUME NEW r, r.uidx = 0, r.aidx = 0, NEW num \in Sizes
    PROVE  Kept(r, 0, num, 0, {}, {})
<1>1. 0 \in Idx /\ num >= 0 /\ Size({}) = 0
  BY DistAll DEF Idx, Sizes, Size
<1>2. Dist(0, 0) = 0
  BY <1>1, DistZero
<1>3. Window(0, 0) = {}
  <2> SUFFICES ASSUME NEW p \in Idx, Dist(0, p) < 0 PROVE FALSE
    BY <1>2 DEF Window
  <2>1. Dist(0, p) \in Nat
    BY <1>1, DistNat
  <2> QED
    BY <2>1
<1> QED
  BY <1>1, <1>2, <1>3 DEF Kept

\* Steps that touch neither the rings nor the requests.
LEMMA SameQueues ==
    ASSUME IInv, UNCHANGED <<dev, queue, ring, chain, last_used, req>>
    PROVE  /\ \A q \in Queues : QueueInv(q)'
           /\ ReceiveBuffersKept' /\ (req.busy => dev.kind = "block")'
<1>1. ASSUME NEW q \in Queues PROVE QueueInv(q)'
  BY Zenon DEF IInv, QueueInv, Quiet, Given
<1> QED
  BY <1>1, Zenon DEF IInv, ReceiveBuffersKept

\* queue_sel, the acknowledge register and a change of configuration touch no
\* queue; each keeps the interrupt line and the status together.
LEMMA RegisterInv ==
    ASSUME IInv, NEW v \in Queues, NEW bits,
           MmioQueueSel(v) \/ MmioInterruptAck(bits) \/ virtio_config_change_notify
    PROVE  IInv'
<1>1. UNCHANGED <<dev, queue, ring, chain, last_used, req, kick, resets>>
  BY Zenon DEF MmioQueueSel, MmioInterruptAck, virtio_config_change_notify
<1>2. irq' \in {0, 1} /\ int_status' \subseteq {1, 2} /\ queue_sel' \in Queues
  BY Zenon DEF MmioQueueSel, MmioInterruptAck, virtio_config_change_notify, IInv, TypeOK
<1>3. TypeOK'
  BY <1>1, <1>2, Zenon DEF IInv, TypeOK
<1>4. LineMatchesStatus'
  <2>1. CASE MmioQueueSel(v)
    BY <2>1 DEF MmioQueueSel, IInv, LineMatchesStatus
  <2>2. CASE MmioInterruptAck(bits)
    BY <2>2 DEF MmioInterruptAck, IInv, LineMatchesStatus
  <2>3. CASE virtio_config_change_notify
    BY <2>3 DEF virtio_config_change_notify, LineMatchesStatus
  <2> QED
    BY <2>1, <2>2, <2>3
<1> QED
  BY <1>1, <1>3, <1>4, SameQueues, Zenon DEF IInv

\* The registers that set up a queue, which is quiet as long as it is not ready.
LEMMA SetupInv ==
    ASSUME IInv, NEW v \in 0..MAX_QUEUE_NUM, NEW q, q = queue_sel,
           MmioQueueNum(v) \/ MmioQueueAddr \/ MmioQueueReady
    PROVE  IInv'
<1>1. q \in Queues /\ queue \in [Queues -> QueueStates] /\ queue[q].ready = 0
  BY DEF IInv, TypeOK, MmioQueueNum, MmioQueueAddr, MmioQueueReady
<1>2. Quiet(q) /\ queue[q].num \in Sizes
  BY <1>1 DEF IInv, QueueInv
<1>3. UNCHANGED <<dev, irq, int_status, queue_sel, chain, kick, req, resets>>
  BY Zenon DEF MmioQueueNum, MmioQueueAddr, MmioQueueReady
<1> DEFINE k == queue'[q]
<1>4. \A o \in Queues \ {q} : queue'[o] = queue[o] /\ ring'[o] = ring[o] /\ last_used'[o] = last_used[o]
  BY <1>1 DEF IInv, TypeOK, MmioQueueNum, MmioQueueAddr, MmioQueueReady
<1>5. k \in QueueStates /\ k.num \in Sizes /\ k.last_avail_idx = 0 /\ (~k.addr => k.ready = 0)
      /\ queue' \in [Queues -> QueueStates]
  <2>1. queue[q] \in QueueStates /\ queue[q].last_avail_idx = 0
    BY <1>1, <1>2 DEF Quiet
  <2>2. CASE MmioQueueNum(v)
    <3>1. CASE v \in Sizes
      <4>1. [queue[q] EXCEPT !.num = v] \in QueueStates
        BY <2>1, <3>1 DEF QueueStates, Sizes
      <4>2. queue' = [queue EXCEPT ![q] = [queue[q] EXCEPT !.num = v]]
        BY <2>2, <3>1 DEF MmioQueueNum
      <4> QED
        BY <1>1, <2>1, <3>1, <4>1, <4>2 DEF QueueStates
    <3>2. CASE v \notin Sizes
      BY <1>1, <1>2, <2>1, <2>2, <3>2 DEF MmioQueueNum, IInv, QueueInv
    <3> QED
      BY <3>1, <3>2
  <2>3. CASE MmioQueueAddr
    <3>1. [queue[q] EXCEPT !.addr = TRUE] \in QueueStates
      BY <2>1, Zenon DEF QueueStates
    <3>2. queue' = [queue EXCEPT ![q] = [queue[q] EXCEPT !.addr = TRUE]]
      BY <2>3 DEF MmioQueueAddr
    <3> QED
      BY <1>1, <1>2, <2>1, <3>1, <3>2 DEF QueueStates
  <2>4. CASE MmioQueueReady
    <3>1. [queue[q] EXCEPT !.ready = 1] \in QueueStates /\ queue[q].addr
      BY <2>1, <2>4 DEF QueueStates, MmioQueueReady
    <3>2. queue' = [queue EXCEPT ![q] = [queue[q] EXCEPT !.ready = 1]]
      BY <2>4 DEF MmioQueueReady
    <3> QED
      BY <1>1, <1>2, <2>1, <3>1, <3>2 DEF QueueStates
  <2> QED
    BY <2>2, <2>3, <2>4
<1>6. EmptyRing \in Rings
  BY RingAssumption DEF EmptyRing, Rings, Slots, Sizes
<1>7. /\ ring' \in [Queues -> Rings] /\ ring'[q].uidx = 0 /\ ring'[q].aidx = 0
      /\ last_used' \in [Queues -> 0..(IDX - 1)] /\ last_used'[q] = 0
  <2>1. ring[q].uidx = 0 /\ ring[q].aidx = 0 /\ last_used[q] = 0 /\ 0 \in 0..(IDX - 1)
    BY <1>2, DistAll DEF Quiet
  <2>2. ring \in [Queues -> Rings] /\ last_used \in [Queues -> 0..(IDX - 1)]
    BY DEF IInv, TypeOK
  <2>3. CASE MmioQueueAddr
    BY <1>1, <1>6, <2>1, <2>2, <2>3 DEF MmioQueueAddr, EmptyRing
  <2>4. CASE UNCHANGED <<ring, last_used>>
    BY <2>1, <2>2, <2>4
  <2> QED
    BY <2>3, <2>4 DEF MmioQueueNum, MmioQueueReady
<1>8. \A o \in Queues : Given(o)' = Given(o)
  BY <1>3 DEF Given
<1>9. TypeOK'
  BY <1>3, <1>5, <1>7, Zenon DEF IInv, TypeOK
<1>10. ReceiveBuffersKept' /\ LineMatchesStatus' /\ (req.busy => dev.kind = "block")'
  <2>1. 0 \in Queues
    BY DeviceAssumption
  <2>2. queue'[0].last_avail_idx = ring'[0].uidx \/ (queue'[0] = queue[0] /\ ring'[0] = ring[0])
    BY <1>4, <1>5, <1>7, <2>1
  <2> QED
    BY <1>3, <2>2, Zenon DEF IInv, ReceiveBuffersKept, LineMatchesStatus
<1>11. ASSUME NEW o \in Queues, o # q PROVE QueueInv(o)'
  <2>1. queue'[o] = queue[o] /\ ring'[o] = ring[o] /\ last_used'[o] = last_used[o] /\ Given(o)' = Given(o)
        /\ req' = req
    BY <1>3, <1>4, <1>8, <1>11
  <2>2. QueueInv(o)
    BY DEF IInv
  <2> QED
    BY <2>1, <2>2, Zenon DEF QueueInv, Quiet
<1>12. QueueInv(q)'
  <2>1. Given(q)' = {}
    BY <1>1, <1>2, <1>8 DEF Quiet
  <2>2. InFlight(req', q) = {}
    BY <1>1, <1>2, <1>3, Zenon DEF IInv, QueueInv, Kept, Quiet
  <2>3. Kept(ring'[q], 0, k.num, 0, {}, {})
    BY <1>5, <1>7, KeptEmpty
  <2>4. Quiet(q)'
    BY <1>5, <1>7, <2>1, Zenon DEF Quiet
  <2> QED
    BY <1>5, <1>7, <2>1, <2>2, <2>3, <2>4, Zenon DEF QueueInv
<1> QED
  BY <1>9, <1>10, <1>11, <1>12, Zenon DEF IInv

\* virtio_reset makes every queue quiet.
LEMMA ResetInv ==
    ASSUME IInv, MmioReset
    PROVE  IInv'
<1>1. EmptyRing \in Rings /\ ResetQueue \in QueueStates /\ MAX_QUEUE_NUM \in Sizes
  BY RingAssumption DEF EmptyRing, Rings, Slots, Sizes, ResetQueue, QueueStates
<1>2. \A q \in Queues : /\ queue'[q] = ResetQueue /\ ring'[q] = EmptyRing /\ last_used'[q] = 0 /\ Given(q)' = {}
  BY DEF MmioReset, Given, Own
<1>3. \A q \in Queues : InFlight(req', q) = {}
  BY DEF MmioReset, InFlight
<1>4. TypeOK'
  <2>1. queue' \in [Queues -> QueueStates] /\ ring' \in [Queues -> Rings]
    BY <1>1 DEF MmioReset
  <2>2. last_used' \in [Queues -> 0..(IDX - 1)]
    BY DistAll DEF MmioReset
  <2>3. chain' \in [Queues -> [Heads -> [owner : {"driver", "device"}, kind : Kinds]]]
    BY DEF MmioReset, Own, Kinds
  <2>4. resets' \in 0..Resets /\ irq' \in {0, 1} /\ int_status' \subseteq {1, 2} /\ queue_sel' \in Queues /\ kick' \subseteq Queues
    BY RingAssumption, DeviceAssumption DEF MmioReset, IInv, TypeOK
  <2>5. dev' = dev /\ req' = req
    BY DEF MmioReset
  <2> QED
    BY <2>1, <2>2, <2>3, <2>4, <2>5, Zenon DEF IInv, TypeOK
<1>5. LineMatchesStatus' /\ ReceiveBuffersKept' /\ (req.busy => dev.kind = "block")'
  BY <1>2, DeviceAssumption DEF MmioReset, LineMatchesStatus, ReceiveBuffersKept, ResetQueue, EmptyRing
<1>6. ASSUME NEW q \in Queues PROVE QueueInv(q)'
  <2>1. EmptyRing.uidx = 0 /\ EmptyRing.aidx = 0 /\ ResetQueue.ready = 0 /\ ResetQueue.num = MAX_QUEUE_NUM /\ ResetQueue.last_avail_idx = 0
    BY DEF EmptyRing, ResetQueue
  <2>2. Kept(EmptyRing, 0, MAX_QUEUE_NUM, 0, {}, {})
    BY <1>1, <2>1, KeptEmpty
  <2>3. Quiet(q)'
    BY <1>2, <2>1, Zenon DEF Quiet
  <2> QED
    BY <1>1, <1>2, <1>3, <2>1, <2>2, <2>3, Zenon DEF QueueInv
<1> QED
  BY <1>4, <1>5, <1>6, Zenon DEF IInv

\* The driver makes a chain available.
LEMMA AddInv ==
    ASSUME IInv, NEW q \in Queues, NEW h \in Heads, NEW kind \in Kinds, DriverAdd(q, h, kind)
    PROVE  IInv'
<1> DEFINE r == ring[q]
           num == queue[q].num
           c == [r EXCEPT !.avail[r.aidx % num] = h, !.aidx = (r.aidx + 1) % IDX]
<1>1. /\ num \in Sizes /\ num <= MAX_QUEUE_NUM /\ last_used[q] \in Idx /\ queue[q].last_avail_idx \in Idx
      /\ r \in Rings /\ Given(q) \in SUBSET Heads /\ r.aidx \in Idx
  BY QueueFacts
<1>2. r.aidx % num \in 0..(MAX_QUEUE_NUM - 1) /\ (r.aidx + 1) % IDX \in Idx
  BY <1>1, SlotIn, DistIs, Zenon
<1>3. /\ c \in Rings /\ c.uidx = r.uidx /\ c.used = r.used /\ c.aidx = (r.aidx + 1) % IDX
      /\ c.avail = [r.avail EXCEPT ![r.aidx % num] = h]
  <2>1. [r.avail EXCEPT ![r.aidx % num] = h] \in Slots
    BY <1>1, <1>2 DEF Rings, Slots
  <2> QED
    BY <1>1, <1>2, <2>1, Zenon DEF Rings, Idx
<1>4. ring' = [ring EXCEPT ![q] = c]
  BY <1>1, Zenon DEF DriverAdd, IInv, TypeOK, Rings
<1>5. UNCHANGED <<dev, irq, int_status, queue_sel, queue, last_used, req, resets>> /\ kick' \subseteq Queues
      /\ queue[q].ready = 1 /\ Dist(last_used[q], ring[q].aidx) < num /\ chain[q][h].owner = "driver"
      /\ chain' = [chain EXCEPT ![q][h] = [owner |-> "device", kind |-> kind]]
  BY DEF DriverAdd, IInv, TypeOK, Dist
<1> HIDE DEF c
<1>6. ring' \in [Queues -> Rings] /\ ring'[q] = c /\ \A o \in Queues \ {q} : ring'[o] = ring[o]
  BY <1>3, <1>4 DEF IInv, TypeOK
<1>7. chain' \in [Queues -> [Heads -> [owner : {"driver", "device"}, kind : Kinds]]]
  BY <1>5 DEF IInv, TypeOK
<1>8. \A o \in Queues \ {q} : Given(o)' = Given(o)
  BY <1>5 DEF Given, IInv, TypeOK
<1>9. Given(q)' = Given(q) \cup {h} /\ h \in Heads \ Given(q)
  BY <1>5 DEF Given, IInv, TypeOK
<1>10. Kept(c, last_used[q], num, queue[q].last_avail_idx, Given(q) \cup {h}, InFlight(req, q))
  <2>1. Kept(r, last_used[q], num, queue[q].last_avail_idx, Given(q), InFlight(req, q))
    BY DEF IInv, QueueInv
  <2> DEFINE lu == last_used[q]
             last == queue[q].last_avail_idx
             given == Given(q)
             held == InFlight(req, q)
  <2>2. /\ r \in Rings /\ lu \in Idx /\ num \in Sizes /\ num <= MAX_QUEUE_NUM /\ last \in Idx
        /\ h \notin given /\ Kept(r, lu, num, last, given, held)
        /\ Dist(lu, r.aidx) < num /\ c \in Rings /\ c.uidx = r.uidx /\ c.used = r.used
        /\ c.aidx = (r.aidx + 1) % IDX /\ c.avail = [r.avail EXCEPT ![r.aidx % num] = h]
    BY <1>1, <1>3, <1>5, <1>9, <2>1
  <2> HIDE DEF r, num, lu, last, given, held
  <2>3. Kept(c, lu, num, last, given \cup {h}, held)
    BY <2>2, Add
  <2> QED
    BY <2>3 DEF r, num, lu, last, given, held
<1>11. TypeOK'
  BY <1>5, <1>6, <1>7, Zenon DEF IInv, TypeOK
<1>12. LineMatchesStatus' /\ (req.busy => dev.kind = "block")'
  BY <1>5, Zenon DEF IInv, LineMatchesStatus
<1>13. ReceiveBuffersKept'
  <2>1. ring'[0].uidx = ring[0].uidx
    BY <1>3, <1>6, DeviceAssumption
  <2> QED
    BY <1>5, <2>1, Zenon DEF IInv, ReceiveBuffersKept
<1>14. ASSUME NEW o \in Queues, o # q PROVE QueueInv(o)'
  BY <1>5, <1>6, <1>8, <1>14, Zenon DEF IInv, QueueInv, Quiet
<1>15. QueueInv(q)'
  <2>1. QueueInv(q)
    BY DEF IInv
  <2>2. queue[q].ready # 0
    BY <1>5
  <2> QED
    BY <1>5, <1>6, <1>9, <1>10, <2>1, <2>2, Zenon DEF QueueInv
<1> QED
  BY <1>11, <1>12, <1>13, <1>14, <1>15, Zenon DEF IInv

\* The driver takes a chain back.
LEMMA ReapInv ==
    ASSUME IInv, NEW q \in Queues, DriverReap(q)
    PROVE  IInv'
<1> DEFINE r == ring[q]
           num == queue[q].num
           lu == last_used[q]
           last == queue[q].last_avail_idx
           given == Given(q)
           held == InFlight(req, q)
           h == r.used[lu % num]
<1>1. /\ num \in Sizes /\ num <= MAX_QUEUE_NUM /\ lu \in Idx /\ last \in Idx
      /\ r \in Rings /\ given \in SUBSET Heads /\ Kept(r, lu, num, last, given, held)
  BY QueueFacts DEF IInv, QueueInv
<1>2. UNCHANGED <<dev, irq, int_status, queue_sel, queue, ring, kick, req, resets>>
      /\ lu # r.uidx /\ chain' = [chain EXCEPT ![q][h] = Own("data")]
      /\ last_used' = [last_used EXCEPT ![q] = (@ + 1) % IDX]
  BY Zenon DEF DriverReap
<1> HIDE DEF r, num, lu, last, given, held
<1>3. h \in given /\ Kept(r, (lu + 1) % IDX, num, last, given \ {h}, held)
  BY <1>1, <1>2, Reap, Zenon
<1>4. (lu + 1) % IDX \in Idx
  BY <1>1, DistIs
<1>5. /\ last_used' \in [Queues -> 0..(IDX - 1)] /\ last_used'[q] = (lu + 1) % IDX
      /\ \A o \in Queues \ {q} : last_used'[o] = last_used[o]
  BY <1>2, <1>4 DEF IInv, TypeOK, Idx, lu
<1>6. h \in Heads /\ h \in Given(q)
  BY <1>1, <1>3 DEF given
<1> HIDE DEF h
<1>7. chain' \in [Queues -> [Heads -> [owner : {"driver", "device"}, kind : Kinds]]]
  BY <1>2, <1>6 DEF IInv, TypeOK, Own, Kinds
<1>8. \A o \in Queues \ {q} : Given(o)' = Given(o)
  BY <1>2 DEF Given, IInv, TypeOK
<1>9. Given(q)' = Given(q) \ {h}
  BY <1>2, <1>6 DEF Given, IInv, TypeOK, Own
<1>10. TypeOK'
  BY <1>2, <1>5, <1>7, Zenon DEF IInv, TypeOK
<1>11. LineMatchesStatus' /\ ReceiveBuffersKept' /\ (req.busy => dev.kind = "block")'
  BY <1>2, Zenon DEF IInv, LineMatchesStatus, ReceiveBuffersKept
<1>12. ASSUME NEW o \in Queues, o # q PROVE QueueInv(o)'
  BY <1>2, <1>5, <1>8, <1>12, Zenon DEF IInv, QueueInv, Quiet
<1>13. QueueInv(q)'
  <2>1. QueueInv(q)
    BY DEF IInv
  <2>2. queue[q].ready # 0
    BY <1>6, <2>1 DEF QueueInv, Quiet
  <2>3. Kept(ring[q], last_used'[q], queue[q].num, queue[q].last_avail_idx, Given(q)', InFlight(req, q))
    BY <1>3, <1>5, <1>9, Zenon DEF r, num, last, given, held
  <2> QED
    BY <1>2, <2>1, <2>2, <2>3, Zenon DEF QueueInv
<1> QED
  BY <1>10, <1>11, <1>12, <1>13, Zenon DEF IInv

\* The device starts as after a reset.
LEMMA InitInv == Init => IInv
<1> SUFFICES ASSUME Init PROVE IInv
  OBVIOUS
<1>1. EmptyRing \in Rings /\ ResetQueue \in QueueStates /\ MAX_QUEUE_NUM \in Sizes
  BY RingAssumption DEF EmptyRing, Rings, Slots, Sizes, ResetQueue, QueueStates
<1>2. \A q \in Queues : /\ queue[q] = ResetQueue /\ ring[q] = EmptyRing /\ last_used[q] = 0 /\ Given(q) = {}
                        /\ InFlight(req, q) = {}
  BY DEF Init, Given, Own, InFlight
<1>3. TypeOK
  <2>1. queue \in [Queues -> QueueStates] /\ ring \in [Queues -> Rings]
    BY <1>1 DEF Init
  <2>2. last_used \in [Queues -> 0..(IDX - 1)]
    BY DistAll DEF Init
  <2>3. chain \in [Queues -> [Heads -> [owner : {"driver", "device"}, kind : Kinds]]]
    BY DEF Init, Own, Kinds
  <2>4. /\ resets \in 0..Resets /\ irq \in {0, 1} /\ int_status \subseteq {1, 2} /\ queue_sel \in Queues
        /\ kick \subseteq Queues /\ req \in [busy : BOOLEAN, queue_idx : Queues, desc_idx : Heads \cup {0}]
        /\ dev \in Devices
    BY RingAssumption, DeviceAssumption DEF Init
  <2> QED
    BY <2>1, <2>2, <2>3, <2>4, Zenon DEF TypeOK
<1>4. LineMatchesStatus /\ ReceiveBuffersKept /\ (req.busy => dev.kind = "block")
  BY <1>2, DeviceAssumption DEF Init, LineMatchesStatus, ReceiveBuffersKept, ResetQueue, EmptyRing
<1>5. ASSUME NEW q \in Queues PROVE QueueInv(q)
  <2>1. EmptyRing.uidx = 0 /\ EmptyRing.aidx = 0 /\ ResetQueue.ready = 0 /\ ResetQueue.num = MAX_QUEUE_NUM /\ ResetQueue.last_avail_idx = 0
    BY DEF EmptyRing, ResetQueue
  <2>2. Kept(EmptyRing, 0, MAX_QUEUE_NUM, 0, {}, {})
    BY <1>1, <2>1, KeptEmpty
  <2>3. Quiet(q)
    BY <1>2, <2>1, Zenon DEF Quiet
  <2> QED
    BY <1>1, <1>2, <2>1, <2>2, <2>3, Zenon DEF QueueInv
<1> QED
  BY <1>3, <1>4, <1>5, Zenon DEF IInv

\* Every register write, callback and step of the driver keeps the invariant.
LEMMA NextInv == IInv /\ [Next]_vars => IInv'
<1> SUFFICES ASSUME IInv, [Next]_vars PROVE IInv'
  OBVIOUS
<1>1. dev.chains \subseteq Queues \X Heads
  BY DeviceAssumption DEF IInv, TypeOK
<1>2. ASSUME NEW c \in dev.chains PROVE c[1] \in Queues /\ c[2] \in Heads
  BY <1>1
<1>3. ASSUME NEW c \in dev.chains, MmioQueueSel(c[1]) PROVE IInv'
  BY <1>2, <1>3, RegisterInv
<1>4. ASSUME NEW bits, MmioInterruptAck(bits) PROVE IInv'
  BY <1>4, DeviceAssumption, RegisterInv
<1>5. ASSUME virtio_config_change_notify PROVE IInv'
  BY <1>5, DeviceAssumption, RegisterInv
<1>6. ASSUME NEW v \in 0..MAX_QUEUE_NUM, MmioQueueNum(v) PROVE IInv'
  BY <1>6, SetupInv
<1>7. ASSUME MmioQueueAddr \/ MmioQueueReady PROVE IInv'
  <2>1. 0 \in 0..MAX_QUEUE_NUM
    BY RingAssumption DEF Sizes
  <2> QED
    BY <1>7, <2>1, SetupInv
<1>8. ASSUME NEW c \in dev.chains, NEW kind \in KindsOf(c[1]), DriverAdd(c[1], c[2], kind) PROVE IInv'
  <2>1. kind \in Kinds
    BY DEF KindsOf, Kinds
  <2> QED
    BY <1>2, <1>8, <2>1, AddInv
<1>9. ASSUME virtio_net_write_packet \/ virtio_console_write_data PROVE IInv'
  BY <1>9, DeliverInv DEF virtio_net_write_packet, virtio_console_write_data
<1>10. CASE UNCHANGED vars
  BY <1>10, Zenon DEF vars, IInv, TypeOK, LineMatchesStatus, ReceiveBuffersKept, QueueInv, Quiet, Given
<1>11. ASSUME Next PROVE IInv'
  BY <1>3, <1>4, <1>5, <1>6, <1>7, <1>8, <1>9, <1>11, NotifyInv, ReqCbInv, ResetInv, ReapInv, Zenon DEF Next
<1> QED
  BY <1>10, <1>11

\* The invariant holds of every device, whatever the driver and the disk do.
THEOREM QueueInvariant == Spec => []IInv
  BY InitInv, NextInv, PTL DEF Spec

\* The indices stay in their 16 bits and the ring entries are heads of chains.
THEOREM QueueTyped == Spec => []TypeOK
<1>1. IInv => TypeOK
  BY DEF IInv
<1> QED
  BY <1>1, QueueInvariant, PTL

\* The interrupt line is high exactly while the status register has a bit set:
\* virtio_consume_desc, virtio_config_change_notify, the acknowledge and the
\* reset never part them.
THEOREM InterruptLine == Spec => []LineMatchesStatus
<1>1. IInv => LineMatchesStatus
  BY DEF IInv
<1> QED
  BY <1>1, QueueInvariant, PTL

\* last_avail_idx of a receive queue is its used index: no receive buffer is lost
\* or used without data, for any number of buffers and wraps of the index.
THEOREM ReceiveBuffers == Spec => []ReceiveBuffersKept
<1>1. IInv => ReceiveBuffersKept
  BY DEF IInv
<1> QED
  BY <1>1, QueueInvariant, PTL

\* The account of the queues says that used entries are given chains, each once,
\* and that the request in progress is neither used nor waiting.
LEMMA KeptSafe == IInv => UsedChainsOutstanding
<1> SUFFICES ASSUME IInv PROVE UsedChainsOutstanding
  OBVIOUS
<1>1. ASSUME req.busy, NEW q, q = req.queue_idx
      PROVE  /\ req.desc_idx \in Given(q)
             /\ \A i \in 0..(Waiting(q) - 1) : Entry(q, i) # req.desc_idx
  <2>1. q \in Queues /\ InFlight(req, q) = {req.desc_idx}
    BY <1>1 DEF IInv, TypeOK, InFlight
  <2>2. Kept(ring[q], last_used[q], queue[q].num, queue[q].last_avail_idx, Given(q), {req.desc_idx})
    BY <2>1, Zenon DEF IInv, QueueInv
  <2>3. queue[q].last_avail_idx \in Idx /\ ring[q].aidx \in Idx
        /\ Waiting(q) = Dist(queue[q].last_avail_idx, ring[q].aidx)
    BY <2>1, QueueFacts DEF Waiting, Dist
  <2>4. Waiting(q) \in Nat
    BY <2>3, DistNat
  <2>5. ASSUME NEW i \in 0..(Waiting(q) - 1) PROVE Entry(q, i) # req.desc_idx
    <3> DEFINE p == (queue[q].last_avail_idx + i) % IDX
    <3>1. p \in Window(queue[q].last_avail_idx, ring[q].aidx)
      <4>1. i \in Nat /\ i < Waiting(q)
        BY <2>4
      <4> QED
        BY <2>3, <4>1, Offset
    <3>2. Entry(q, i) = ring[q].avail[p % queue[q].num]
      BY Zenon DEF Entry
    <3> HIDE DEF p
    <3> QED
      BY <2>2, <3>1, <3>2, Zenon DEF Kept
  <2> QED
    BY <2>2, <2>5, Zenon DEF Kept
<1>2. ASSUME NEW q \in Queues, NEW n, n = (ring[q].uidx - last_used[q]) % IDX
      PROVE  /\ n <= queue[q].num
             /\ \A i \in 0..(n - 1) : ring[q].used[((last_used[q] + i) % IDX) % queue[q].num] \in Given(q)
             /\ \A i, j \in 0..(n - 1) : i # j =>
                    ring[q].used[((last_used[q] + i) % IDX) % queue[q].num]
                        # ring[q].used[((last_used[q] + j) % IDX) % queue[q].num]
  <2> DEFINE lu == last_used[q]
             r == ring[q]
             num == queue[q].num
             last == queue[q].last_avail_idx
             pos(i) == (lu + i) % IDX
  <2>1. n = Dist(lu, r.uidx) /\ lu \in Idx /\ r.uidx \in Idx /\ last \in Idx /\ r.aidx \in Idx
    BY <1>2, QueueFacts DEF Dist
  <2>2. Kept(r, lu, num, last, Given(q), InFlight(req, q))
    BY DEF IInv, QueueInv
  <2> HIDE DEF lu, r, num, last
  <2>3. n \in Nat /\ Dist(last, r.aidx) \in Nat
    BY <2>1, DistNat
  <2>4. ASSUME NEW i \in 0..(n - 1) PROVE pos(i) \in Window(lu, r.uidx) /\ Dist(lu, pos(i)) = i
    <3>1. i \in Nat /\ i < Dist(lu, r.uidx)
      BY <2>1, <2>3
    <3> QED
      BY <2>1, <3>1, Offset
  <2>5. n <= num
    <3>1. Size(InFlight(req, q)) \in Nat /\ Dist(lu, r.aidx) \in Nat /\ num \in Nat
      BY <2>1, DistNat, QueueFacts DEF Size, Sizes, num
    <3> QED
      BY <2>1, <2>2, <2>3, <3>1 DEF Kept
  <2> HIDE DEF pos
  <2>6. \A i \in 0..(n - 1) : r.used[pos(i) % num] \in Given(q)
    BY <2>2, <2>4, Zenon DEF Kept
  <2>7. \A i, j \in 0..(n - 1) : i # j => r.used[pos(i) % num] # r.used[pos(j) % num]
    <3> SUFFICES ASSUME NEW i \in 0..(n - 1), NEW j \in 0..(n - 1), i # j
                 PROVE  r.used[pos(i) % num] # r.used[pos(j) % num]
      BY Zenon
    <3>1. pos(i) # pos(j)
      BY <2>4, Zenon
    <3> QED
      BY <2>2, <2>4, <3>1, Zenon DEF Kept
  <2> QED
    BY <2>5, <2>6, <2>7, Zenon DEF pos, lu, r, num
<1> QED
  BY <1>1, <1>2, Zenon DEF UsedChainsOutstanding

\* The used ring of every queue holds no more entries than its size, each a
\* different chain that the driver gave and has not got back; the request in
\* progress is given and is not served again.
THEOREM UsedRing == Spec => []UsedChainsOutstanding
  BY KeptSafe, QueueInvariant, PTL
=============================================================================
