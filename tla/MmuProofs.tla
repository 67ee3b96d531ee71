-------------------------------- MODULE MmuProofs ------------------------------
(***************************************************************************)
(* The PMP table (Pmp) and the software TLBs (Mmu) of one hart.            *)
(*                                                                         *)
(* The table holds what the PMP registers ask for and keeps locked ranges, *)
(* for any number of registers of any width: its construction is followed  *)
(* entry by entry, by induction.                                           *)
(*                                                                         *)
(* TlbCoherent holds for every number of pages, every TLB size, all page   *)
(* tables and all PMP contents.  The inductive invariant is TypeOK with    *)
(* TlbCoherent itself, stated slot by slot; the argument is that a step    *)
(* either empties the TLBs, or leaves all that a translation depends on    *)
(* alone, or happens in machine mode, where code is not translated.        *)
(***************************************************************************)
EXTENDS Mmu, Pmp, WellFoundedInduction, TLAPS

\* Induction, for a set of numbers.
LEMMA NatInd ==
    ASSUME NEW S, 0 \in S, \A n \in Nat : n \in S => n + 1 \in S
    PROVE  \A n \in Nat : n \in S
<1> DEFINE R == OpToRel(<, Nat)
           T == Nat \ S
<1>1. IsWellFoundedOn(R, Nat)
  BY NatLessThanWellFounded, Zenon
<1>2. R = {ss \in Nat \X Nat : ss[1] < ss[2]}
  BY DEF OpToRel
<1> HIDE DEF R
<1> SUFFICES ASSUME T # {} PROVE FALSE
  OBVIOUS
<1>3. T \subseteq Nat
  OBVIOUS
<1> HIDE DEF T
<1>4. PICK x \in T : \A y \in T : ~(<<y, x>> \in R)
  BY <1>1, <1>3, WFMin, Zenon
<1>5. x \in Nat /\ x # 0 /\ x - 1 \in Nat /\ x - 1 + 1 = x
  BY <1>3 DEF T
<1>6. <<x - 1, x>> \in R
  BY <1>2, <1>5
<1>7. x - 1 \in S
  BY <1>4, <1>5, <1>6 DEF T
<1> QED
  BY <1>5, <1>7 DEF T

\* The powers of two are what their recursive definition says.
LEMMA Pow2Is ==
    /\ Pow2[0] = 1
    /\ \A n \in 0..(AddrBits + 3) : n > 0 => Pow2[n] = 2 * Pow2[n - 1]
<1> DEFINE G(g, n) == g = [i \in 0..n |-> IF i = 0 THEN 1 ELSE 2 * g[i - 1]]
           S == {n \in Nat : \E g : G(g, n)}
<1>1. 0 \in S
  <2> DEFINE g == [i \in 0..0 |-> 1]
  <2>1. G(g, 0)
    OBVIOUS
  <2> QED
    BY <2>1, Zenon
<1>2. ASSUME NEW n \in Nat, n \in S PROVE n + 1 \in S
  <2>1. PICK g : G(g, n)
    BY <1>2
  <2> DEFINE k == [i \in 0..(n + 1) |-> IF i <= n THEN g[i] ELSE 2 * g[n]]
  <2>2. \A i \in 0..n : k[i] = g[i]
    OBVIOUS
  <2>3. ASSUME NEW i \in 0..(n + 1) PROVE k[i] = IF i = 0 THEN 1 ELSE 2 * k[i - 1]
    <3>1. CASE i = 0
      BY <2>1, <3>1
    <3>2. CASE i # 0 /\ i <= n
      BY <2>1, <2>2, <3>2
    <3>3. CASE i = n + 1
      BY <2>2, <3>3
    <3> QED
      BY <3>1, <3>2, <3>3
  <2>4. G(k, n + 1)
    BY <2>3
  <2> HIDE DEF G, k
  <2>5. \E w : G(w, n + 1)
    BY <2>4, Zenon
  <2>6. n + 1 \in Nat
    OBVIOUS
  <2> QED
    BY <2>5, <2>6, Zenon DEF S
<1>3. \A n \in Nat : n \in S
  <2> HIDE DEF S
  <2> QED
    BY <1>1, <1>2, NatInd
<1>4. AddrBits + 3 \in Nat
  BY PmpAssumption
<1>6. PICK g : G(g, AddrBits + 3)
  BY <1>3, <1>4, Zenon
<1>5. Pow2 = [i \in 0..(AddrBits + 3) |-> IF i = 0 THEN 1 ELSE 2 * Pow2[i - 1]]
  BY <1>6, Zenon DEF Pow2
<1> QED
  BY <1>5, PmpAssumption

\* Powers of two are positive.
LEMMA Pow2Pos == \A n \in 0..(AddrBits + 3) : Pow2[n] \in Nat /\ Pow2[n] > 0
<1> DEFINE S == {n \in Nat : n <= AddrBits + 3 => Pow2[n] \in Nat /\ Pow2[n] > 0}
<1>1. 0 \in S
  BY Pow2Is
<1>2. ASSUME NEW n \in Nat, n \in S PROVE n + 1 \in S
  BY <1>2, Pow2Is, PmpAssumption
<1>3. \A n \in Nat : n \in S
  <2> HIDE DEF S
  <2> QED
    BY <1>1, <1>2, NatInd
<1> QED
  BY <1>3, PmpAssumption

\* Division with remainder, as the masks of unpack_pmpaddrs use it.
LEMMA DivMod ==
    ASSUME NEW P \in Nat, P > 0, NEW a \in Nat
    PROVE  a \div P \in Nat /\ a % P \in 0..(P - 1) /\ a = P * (a \div P) + (a % P)
  OBVIOUS

\* Quotient and remainder are determined by the equation they satisfy.
LEMMA DivUnique ==
    ASSUME NEW P \in Nat, P > 0, NEW q \in Nat, NEW r \in 0..(P - 1), NEW a \in Nat, a = P * q + r
    PROVE  a \div P = q /\ a % P = r
<1> DEFINE d == a \div P
<1>1. d \in Nat /\ a % P \in 0..(P - 1) /\ a = P * d + (a % P)
  BY DivMod
<1> HIDE DEF d
<1>2. P * q + r = P * d + (a % P)
  BY <1>1
<1>3. ASSUME d < q PROVE FALSE
  <2>1. d + 1 <= q
    BY <1>1, <1>3
  <2>2. P * (d + 1) <= P * q
    BY <1>1, <2>1
  <2>3. P * (d + 1) = P * d + P
    BY <1>1
  <2> QED
    BY <1>1, <1>2, <2>2, <2>3
<1>4. ASSUME q < d PROVE FALSE
  <2>1. q + 1 <= d
    BY <1>1, <1>4
  <2>2. P * (q + 1) <= P * d
    BY <1>1, <2>1
  <2>3. P * (q + 1) = P * q + P
    BY <1>1
  <2> QED
    BY <1>1, <1>2, <2>2, <2>3
<1>5. d = q
  BY <1>1, <1>3, <1>4
<1> QED
  BY <1>1, <1>2, <1>5 DEF d

\* The words of a naturally aligned block are those that agree in the bits above it.
LEMMA Napot ==
    ASSUME NEW P \in Nat, P > 0, NEW a \in Nat, NEW lo, lo = 4 * a - ((4 * a) % (4 * P)), NEW w \in Nat
    PROVE  /\ (lo <= 4 * w /\ 4 * w < lo + 4 * P) <=> w \div P = a \div P
           /\ lo \in Nat
<1> DEFINE q == a \div P
           r == a % P
           d == w \div P
           m == w % P
           u == P * q
           v == P * d
<1>1. q \in Nat /\ r \in 0..(P - 1) /\ a = u + r
  BY DivMod
<1>2. d \in Nat /\ m \in 0..(P - 1) /\ w = v + m
  BY DivMod
<1>3. u \in Nat /\ v \in Nat
  <2> HIDE DEF q, d
  <2> QED
    BY <1>1, <1>2
<1>4. (4 * P) * q = 4 * u
  <2> HIDE DEF q
  <2> QED
    BY <1>1
<1>5. (4 * a) % (4 * P) = 4 * r
  <2>1. 4 * P \in Nat /\ 4 * P > 0 /\ 4 * r \in 0..(4 * P - 1) /\ 4 * a \in Nat
    BY <1>1
  <2>2. 4 * a = (4 * P) * q + 4 * r
    <3> HIDE DEF q, r, u
    <3> QED
      BY <1>1, <1>3, <1>4
  <2> DEFINE a4 == 4 * a
             P4 == 4 * P
             r4 == 4 * r
  <2>3. P4 \in Nat /\ P4 > 0 /\ r4 \in 0..(P4 - 1) /\ a4 \in Nat /\ a4 = P4 * q + r4
    BY <2>1, <2>2
  <2>4. a4 % P4 = r4
    <3> HIDE DEF q, a4, P4, r4
    <3> QED
      BY <1>1, <2>3, DivUnique
  <2> QED
    BY <2>4
<1>6. d < q => v + P <= u
  <2> HIDE DEF q, d, u, v
  <2>1. ASSUME d < q PROVE P * (d + 1) <= P * q
    BY <1>1, <1>2, <2>1
  <2>2. P * (d + 1) = P * d + P
    BY <1>2
  <2> QED
    BY <2>1, <2>2 DEF u, v
<1>7. q < d => u + P <= v
  <2> HIDE DEF q, d, u, v
  <2>1. ASSUME q < d PROVE P * (q + 1) <= P * d
    BY <1>1, <1>2, <2>1
  <2>2. P * (q + 1) = P * q + P
    BY <1>1
  <2> QED
    BY <2>1, <2>2 DEF u, v
<1>8. q = d => u = v
  OBVIOUS
<1> HIDE DEF q, r, d, m, u, v
<1>9. lo = 4 * u
  BY <1>1, <1>3, <1>5
<1>10. (lo <= 4 * w /\ 4 * w < lo + 4 * P) <=> d = q
  BY <1>1, <1>2, <1>3, <1>6, <1>7, <1>8, <1>9
<1> QED
  BY <1>3, <1>9, <1>10 DEF d, q

\* The loop of unpack_pmpaddrs, turn by turn.
LEMMA TableIs ==
    ASSUME NEW cfg, NEW addr, NEW f, f = Unpacked(cfg, addr)
    PROVE  /\ f[0] = <<>>
           /\ \A i \in 0..PMP_N : i > 0 =>
                f[i] = IF i - 1 \in Active(cfg) THEN Append(f[i - 1], RangeOf(cfg, addr, i - 1)) ELSE f[i - 1]
<1> DEFINE T(x, i) == IF i - 1 \in Active(cfg) THEN Append(x, RangeOf(cfg, addr, i - 1)) ELSE x
           G(g, n) == g = [i \in 0..n |-> IF i = 0 THEN <<>> ELSE T(g[i - 1], i)]
           S == {n \in Nat : \E g : G(g, n)}
<1> HIDE DEF T
<1>1. 0 \in S
  <2> DEFINE g == [i \in 0..0 |-> <<>>]
  <2>1. G(g, 0)
    OBVIOUS
  <2> QED
    BY <2>1, Zenon
<1>2. ASSUME NEW n \in Nat, n \in S PROVE n + 1 \in S
  <2>1. PICK g : G(g, n)
    BY <1>2
  <2> DEFINE k == [i \in 0..(n + 1) |-> IF i <= n THEN g[i] ELSE T(g[n], n + 1)]
  <2>2. \A i \in 0..n : k[i] = g[i]
    OBVIOUS
  <2>3. ASSUME NEW i \in 0..(n + 1) PROVE k[i] = IF i = 0 THEN <<>> ELSE T(k[i - 1], i)
    <3>1. CASE i = 0
      BY <2>1, <3>1
    <3>2. CASE i # 0 /\ i <= n
      BY <2>1, <2>2, <3>2
    <3>3. CASE i = n + 1
      BY <2>2, <3>3
    <3> QED
      BY <3>1, <3>2, <3>3
  <2>4. G(k, n + 1)
    BY <2>3
  <2> HIDE DEF G, k
  <2>5. \E w : G(w, n + 1)
    BY <2>4, Zenon
  <2>6. n + 1 \in Nat
    OBVIOUS
  <2> QED
    BY <2>5, <2>6, Zenon DEF S
<1>3. \A n \in Nat : n \in S
  <2> HIDE DEF S
  <2> QED
    BY <1>1, <1>2, NatInd
<1>4. PICK g : G(g, PMP_N)
  BY <1>3, PmpAssumption, Zenon
<1>5. f = [i \in 0..PMP_N |-> IF i = 0 THEN <<>> ELSE IF i - 1 \in Active(cfg) THEN Append(f[i - 1], RangeOf(cfg, addr, i - 1)) ELSE f[i - 1]]
  BY <1>4, Zenon DEF Unpacked, T
<1>6. \A i \in 0..PMP_N : f[i] = IF i = 0 THEN <<>> ELSE T(f[i - 1], i)
  BY <1>5, Zenon DEF T
<1>7. 0 \in 0..PMP_N
  BY PmpAssumption
<1> HIDE DEF T
<1>8. f[0] = <<>>
  BY <1>6, <1>7
<1>9. \A i \in 0..PMP_N : i > 0 => f[i] = T(f[i - 1], i)
  BY <1>6
<1> QED
  BY <1>8, <1>9, Zenon DEF T

\* The number of entries below one that are not off.
LEMMA BeforeIs ==
    ASSUME NEW cfg, NEW f, f = Before(cfg)
    PROVE  /\ f[0] = 0
           /\ \A i \in 0..PMP_N : i > 0 => f[i] = IF i - 1 \in Active(cfg) THEN f[i - 1] + 1 ELSE f[i - 1]
<1> DEFINE T(x, i) == IF i - 1 \in Active(cfg) THEN x + 1 ELSE x
           G(g, n) == g = [i \in 0..n |-> IF i = 0 THEN 0 ELSE T(g[i - 1], i)]
           S == {n \in Nat : \E g : G(g, n)}
<1> HIDE DEF T
<1>1. 0 \in S
  <2> DEFINE g == [i \in 0..0 |-> 0]
  <2>1. G(g, 0)
    OBVIOUS
  <2> QED
    BY <2>1, Zenon
<1>2. ASSUME NEW n \in Nat, n \in S PROVE n + 1 \in S
  <2>1. PICK g : G(g, n)
    BY <1>2
  <2> DEFINE k == [i \in 0..(n + 1) |-> IF i <= n THEN g[i] ELSE T(g[n], n + 1)]
  <2>2. \A i \in 0..n : k[i] = g[i]
    OBVIOUS
  <2>3. ASSUME NEW i \in 0..(n + 1) PROVE k[i] = IF i = 0 THEN 0 ELSE T(k[i - 1], i)
    <3>1. CASE i = 0
      BY <2>1, <3>1
    <3>2. CASE i # 0 /\ i <= n
      BY <2>1, <2>2, <3>2
    <3>3. CASE i = n + 1
      BY <2>2, <3>3
    <3> QED
      BY <3>1, <3>2, <3>3
  <2>4. G(k, n + 1)
    BY <2>3
  <2> HIDE DEF G, k
  <2>5. \E w : G(w, n + 1)
    BY <2>4, Zenon
  <2>6. n + 1 \in Nat
    OBVIOUS
  <2> QED
    BY <2>5, <2>6, Zenon DEF S
<1>3. \A n \in Nat : n \in S
  <2> HIDE DEF S
  <2> QED
    BY <1>1, <1>2, NatInd
<1>4. PICK g : G(g, PMP_N)
  BY <1>3, PmpAssumption, Zenon
<1>5. f = [i \in 0..PMP_N |-> IF i = 0 THEN 0 ELSE IF i - 1 \in Active(cfg) THEN f[i - 1] + 1 ELSE f[i - 1]]
  BY <1>4, Zenon DEF Before, T
<1>6. \A i \in 0..PMP_N : f[i] = IF i = 0 THEN 0 ELSE T(f[i - 1], i)
  BY <1>5, Zenon DEF T
<1>7. 0 \in 0..PMP_N
  BY PmpAssumption
<1> HIDE DEF T
<1>8. f[0] = 0
  BY <1>6, <1>7
<1>9. \A i \in 0..PMP_N : i > 0 => f[i] = T(f[i - 1], i)
  BY <1>6
<1> QED
  BY <1>8, <1>9, Zenon DEF T

\* Every entry that is not off has its range at its place of the table.
LEMMA TablePlaces ==
    ASSUME NEW cfg, NEW addr, NEW i \in Active(cfg)
    PROVE  unpack_pmpaddrs(cfg, addr)[Before(cfg)[i] + 1] = RangeOf(cfg, addr, i)
<1> DEFINE f == Unpacked(cfg, addr)
           b == Before(cfg)
           R == {RangeOf(cfg, addr, k) : k \in Entries}
           Ok(n) == /\ f[n] \in Seq(R) /\ Len(f[n]) = b[n] /\ b[n] \in Nat
                    /\ \A k \in Active(cfg) : k < n => b[k] \in Nat /\ b[k] < b[n] /\ f[n][b[k] + 1] = RangeOf(cfg, addr, k)
           S == {n \in Nat : n <= PMP_N => Ok(n)}
<1>1. /\ f[0] = <<>>
      /\ \A n \in 0..PMP_N : n > 0 =>
           f[n] = IF n - 1 \in Active(cfg) THEN Append(f[n - 1], RangeOf(cfg, addr, n - 1)) ELSE f[n - 1]
  BY TableIs
<1>2. /\ b[0] = 0
      /\ \A n \in 0..PMP_N : n > 0 => b[n] = IF n - 1 \in Active(cfg) THEN b[n - 1] + 1 ELSE b[n - 1]
  BY BeforeIs
<1>3. \A k \in Active(cfg) : k \in Entries /\ k \in Nat /\ k < PMP_N
  BY PmpAssumption DEF Active, Entries
<1>4. \A k \in Active(cfg) : RangeOf(cfg, addr, k) \in R
  BY <1>3
<1> HIDE DEF f, b, R
<1>5. 0 \in S
  <2>1. f[0] \in Seq(R) /\ Len(f[0]) = b[0] /\ b[0] \in Nat
    BY <1>1, <1>2
  <2>2. \A k \in Active(cfg) : ~(k < 0)
    BY <1>3
  <2> QED
    BY <2>1, <2>2
<1>6. ASSUME NEW n \in Nat, n \in S PROVE n + 1 \in S
  <2> SUFFICES ASSUME n + 1 <= PMP_N PROVE Ok(n + 1)
    OBVIOUS
  <2>1. Ok(n)
    BY <1>6, PmpAssumption
  <2>2. /\ f[n + 1] = IF n \in Active(cfg) THEN Append(f[n], RangeOf(cfg, addr, n)) ELSE f[n]
        /\ b[n + 1] = IF n \in Active(cfg) THEN b[n] + 1 ELSE b[n]
    <3> DEFINE m == n + 1
    <3>1. m \in 0..PMP_N /\ m > 0 /\ m - 1 = n
      BY PmpAssumption
    <3> HIDE DEF m
    <3>2. /\ f[m] = IF m - 1 \in Active(cfg) THEN Append(f[m - 1], RangeOf(cfg, addr, m - 1)) ELSE f[m - 1]
          /\ b[m] = IF m - 1 \in Active(cfg) THEN b[m - 1] + 1 ELSE b[m - 1]
      BY <1>1, <1>2, <3>1, Zenon
    <3>3. /\ f[m] = IF n \in Active(cfg) THEN Append(f[n], RangeOf(cfg, addr, n)) ELSE f[n]
          /\ b[m] = IF n \in Active(cfg) THEN b[n] + 1 ELSE b[n]
      BY <3>1, <3>2, Zenon
    <3> QED
      BY <3>3, Zenon DEF m
  <2>3. CASE n \in Active(cfg)
    <3> DEFINE x == RangeOf(cfg, addr, n)
    <3>1. f[n + 1] = Append(f[n], x) /\ b[n + 1] = b[n] + 1
      BY <2>2, <2>3, Zenon
    <3>2. x \in R
      BY <1>4, <2>3
    <3> HIDE DEF x
    <3>3. f[n + 1] \in Seq(R) /\ Len(f[n + 1]) = b[n + 1] /\ b[n + 1] \in Nat
      BY <2>1, <3>1, <3>2
    <3>4. ASSUME NEW k \in Active(cfg), k < n + 1
          PROVE  b[k] \in Nat /\ b[k] < b[n + 1] /\ f[n + 1][b[k] + 1] = RangeOf(cfg, addr, k)
      <4>1. CASE k = n
        <5>1. Append(f[n], x)[Len(f[n]) + 1] = x
          BY <2>1, <3>2
        <5>2. b[n] \in Nat /\ b[n] < b[n] + 1 /\ Len(f[n]) = b[n]
          BY <2>1
        <5> QED
          BY <3>1, <4>1, <5>1, <5>2 DEF x
      <4>2. CASE k # n
        <5>1. k < n
          BY <1>3, <3>4, <4>2
        <5>2. b[k] \in Nat /\ b[k] < b[n] /\ f[n][b[k] + 1] = RangeOf(cfg, addr, k)
          BY <2>1, <5>1
        <5>3. b[k] + 1 \in 1..Len(f[n])
          BY <2>1, <5>2
        <5>4. Append(f[n], x)[b[k] + 1] = f[n][b[k] + 1]
          BY <2>1, <3>2, <5>3
        <5> QED
          BY <2>1, <3>1, <5>2, <5>4
      <4> QED
        BY <4>1, <4>2
    <3> QED
      BY <3>3, <3>4
  <2>4. CASE n \notin Active(cfg)
    <3>1. f[n + 1] = f[n] /\ b[n + 1] = b[n]
      BY <2>2, <2>4, Zenon
    <3>2. \A k \in Active(cfg) : k < n + 1 => k < n
      BY <1>3, <2>4
    <3> QED
      BY <2>1, <3>1, <3>2, Zenon
  <2> QED
    BY <2>3, <2>4
<1>7. \A n \in Nat : n \in S
  <2> HIDE DEF S
  <2> QED
    BY <1>5, <1>6, NatInd
<1>8. Ok(PMP_N)
  BY <1>7, PmpAssumption
<1> QED
  BY <1>3, <1>8, Zenon DEF unpack_pmpaddrs, f, b

\* A set of numbers has a least one.
LEMMA LeastNat ==
    ASSUME NEW S, S \subseteq Nat, S # {}
    PROVE  \E x \in S : \A y \in S : x <= y
<1> DEFINE R == OpToRel(<, Nat)
<1>1. IsWellFoundedOn(R, Nat)
  BY NatLessThanWellFounded, Zenon
<1>2. R = {ss \in Nat \X Nat : ss[1] < ss[2]}
  BY DEF OpToRel
<1> HIDE DEF R
<1>3. PICK x \in S : \A y \in S : ~(<<y, x>> \in R)
  BY <1>1, WFMin, Zenon
<1>4. \A y \in S : x <= y
  <2> SUFFICES ASSUME NEW y \in S, ~(x <= y) PROVE FALSE
    OBVIOUS
  <2>1. x \in Nat /\ y \in Nat /\ y < x
    OBVIOUS
  <2>2. <<y, x>> \in R
    BY <1>2, <2>1
  <2> QED
    BY <1>3, <2>2, Zenon
<1> QED
  BY <1>4

\* The loop that counts the trailing ones of a register stops.
LEMMA OnesOk ==
    ASSUME NEW a \in Addrs
    PROVE  TrailingOnes(a) \in 0..AddrBits
<1> DEFINE T == {j \in 0..AddrBits : (a \div Pow2[j]) % 2 = 0}
           Ok(j) == (a \div Pow2[j]) % 2 = 0 /\ \A i \in 0..(j - 1) : (a \div Pow2[i]) % 2 = 1
<1>1. Pow2[AddrBits] \in Nat /\ Pow2[AddrBits] > 0
  BY Pow2Pos, PmpAssumption
<1>2. a \in Nat /\ a \in 0..(Pow2[AddrBits] - 1)
  BY <1>1 DEF Addrs
<1>3. a \div Pow2[AddrBits] = 0
  BY <1>1, <1>2, DivUnique
<1>4. AddrBits \in T
  BY <1>3, PmpAssumption
<1>5. PICK j \in T : \A y \in T : j <= y
  <2> HIDE DEF T
  <2>1. T \subseteq Nat
    BY PmpAssumption DEF T
  <2> QED
    BY <1>4, <2>1, LeastNat, Zenon
<1>6. ASSUME NEW i \in 0..(j - 1) PROVE (a \div Pow2[i]) % 2 = 1
  <2>1. i \in 0..AddrBits /\ i < j
    BY <1>6, PmpAssumption
  <2>2. (a \div Pow2[i]) % 2 # 0
    BY <1>5, <2>1
  <2>3. a \div Pow2[i] \in Nat
    BY <1>2, <2>1, Pow2Pos, DivMod, PmpAssumption
  <2> QED
    BY <2>2, <2>3
<1>7. j \in 0..AddrBits /\ Ok(j)
  BY <1>5, <1>6
<1> HIDE DEF Ok
<1>8. TrailingOnes(a) = CHOOSE k \in 0..AddrBits : Ok(k)
  BY DEF TrailingOnes, Ok
<1> QED
  BY <1>7, <1>8, Zenon

--------------------------------------------------------------------------------
\* The range of an entry that is not off covers the words the architecture says.
LEMMA RangeExact ==
    ASSUME csr_pmpcfg \in [Entries -> Cfg], csr_pmpaddr \in [Entries -> Addrs],
           NEW i \in Active(csr_pmpcfg), NEW r, r = RangeOf(csr_pmpcfg, csr_pmpaddr, i)
    PROVE  {w \in 0..Pow2[AddrBits + 1] : r.lo <= 4 * w /\ 4 * w < r.hi} = Matches(i)
<1> DEFINE a == csr_pmpaddr[i]
           kind == csr_pmpcfg[i].A
           top == Pow2[AddrBits + 1]
           before == IF i = 0 THEN 0 ELSE csr_pmpaddr[i - 1]
<1>1. i \in Nat /\ i \in Entries /\ kind \in {"TOR", "NA4", "NAPOT"}
  BY PmpAssumption DEF Active, Entries, Cfg, Types
<1>2. Pow2[AddrBits] \in Nat /\ top = 2 * Pow2[AddrBits] /\ top \in Nat
  BY Pow2Is, Pow2Pos, PmpAssumption
<1>3. \A k \in Entries : csr_pmpaddr[k] \in Nat /\ csr_pmpaddr[k] < Pow2[AddrBits]
  BY <1>2 DEF Addrs
<1>4. a \in Addrs /\ a \in Nat /\ a < top
  BY <1>1, <1>2, <1>3
<1>5. before \in Nat
  <2>1. i # 0 => i - 1 \in Entries
    BY <1>1, PmpAssumption DEF Entries
  <2> QED
    BY <1>3, <2>1, Zenon
<1>6. CASE kind = "TOR"
  <2>1. r.lo = 4 * before /\ r.hi = 4 * a
    BY <1>6 DEF RangeOf
  <2>2. Matches(i) = before..(a - 1)
    BY <1>6 DEF Matches
  <2> HIDE DEF a, before, top
  <2> QED
    BY <1>2, <1>4, <1>5, <2>1, <2>2 DEF top
<1>7. CASE kind = "NA4"
  <2>1. r.lo = 4 * a /\ r.hi = 4 * a + 4
    BY <1>7 DEF RangeOf
  <2>2. Matches(i) = {a}
    BY <1>7 DEF Matches
  <2> HIDE DEF a, top
  <2> QED
    BY <1>2, <1>4, <2>1, <2>2 DEF top
<1>8. CASE kind = "NAPOT"
  <2> DEFINE j == TrailingOnes(a)
             P == Pow2[j + 1]
             lo == 4 * a - ((4 * a) % (4 * P))
  <2>1. j \in 0..AddrBits
    BY <1>4, OnesOk
  <2>2. P \in Nat /\ P > 0 /\ Pow2[j + 3] = 4 * P
    <3> HIDE DEF j
    <3>1. j + 1 \in 0..(AddrBits + 3) /\ j + 2 \in 0..(AddrBits + 3) /\ j + 3 \in 0..(AddrBits + 3)
      BY <2>1, PmpAssumption
    <3>2. Pow2[j + 3] = 2 * Pow2[j + 2] /\ Pow2[j + 2] = 2 * Pow2[j + 1]
      BY <2>1, <3>1, Pow2Is
    <3> QED
      BY <3>1, <3>2, Pow2Pos
  <2>3. r.lo = 4 * a - ((4 * a) % Pow2[j + 3]) /\ r.hi = r.lo + Pow2[j + 3]
    BY <1>8 DEF RangeOf
  <2>4. r.lo = lo /\ r.hi = lo + 4 * P
    BY <2>2, <2>3
  <2>5. Matches(i) = {w \in 0..top : w \div P = a \div P}
    BY <1>8 DEF Matches
  <2> HIDE DEF a, top, P, lo
  <2>6. \A w \in Nat : (lo <= 4 * w /\ 4 * w < lo + 4 * P) <=> w \div P = a \div P
    <3> SUFFICES ASSUME NEW w \in Nat PROVE (lo <= 4 * w /\ 4 * w < lo + 4 * P) <=> w \div P = a \div P
      OBVIOUS
    <3>1. lo = 4 * a - ((4 * a) % (4 * P))
      BY DEF lo
    <3> QED
      BY <1>4, <2>2, <3>1, Napot
  <2>7. \A w \in 0..top : (r.lo <= 4 * w /\ 4 * w < r.hi) <=> w \div P = a \div P
    BY <1>2, <2>4, <2>6
  <2> QED
    BY <2>5, <2>7, Zenon DEF top
<1> QED
  BY <1>1, <1>6, <1>7, <1>8

\* The inductive invariant: the table is the one of the registers.
PmpInv ==
    /\ csr_pmpcfg \in [Entries -> Cfg]
    /\ csr_pmpaddr \in [Entries -> Addrs]
    /\ pmptable = unpack_pmpaddrs(csr_pmpcfg, csr_pmpaddr)

\* The table of registers that are all off is empty.
LEMMA EmptyTable ==
    ASSUME NEW cfg, NEW addr, Active(cfg) = {}
    PROVE  unpack_pmpaddrs(cfg, addr) = <<>>
<1> DEFINE f == Unpacked(cfg, addr)
           S == {n \in Nat : n <= PMP_N => f[n] = <<>>}
<1>1. /\ f[0] = <<>>
      /\ \A n \in 0..PMP_N : n > 0 =>
           f[n] = IF n - 1 \in Active(cfg) THEN Append(f[n - 1], RangeOf(cfg, addr, n - 1)) ELSE f[n - 1]
  BY TableIs
<1> HIDE DEF f
<1>2. \A n \in 0..PMP_N : n > 0 => f[n] = f[n - 1]
  BY <1>1, Zenon
<1>3. 0 \in S
  BY <1>1
<1>4. ASSUME NEW n \in Nat, n \in S PROVE n + 1 \in S
  BY <1>2, <1>4, PmpAssumption
<1>5. \A n \in Nat : n \in S
  <2> HIDE DEF S
  <2> QED
    BY <1>3, <1>4, NatInd
<1>6. f[PMP_N] = <<>>
  BY <1>5, PmpAssumption
<1> QED
  BY <1>6 DEF f, unpack_pmpaddrs

\* The invariant holds at reset.
LEMMA PmpInvInit == PmpInit => PmpInv
<1> SUFFICES ASSUME PmpInit PROVE PmpInv
  OBVIOUS
<1>1. csr_pmpcfg \in [Entries -> Cfg]
  BY DEF PmpInit, Cfg, Types
<1>2. 0 \in Addrs
  BY Pow2Pos, PmpAssumption DEF Addrs
<1>3. csr_pmpaddr \in [Entries -> Addrs]
  BY <1>2 DEF PmpInit
<1>4. Active(csr_pmpcfg) = {}
  BY DEF PmpInit, Active
<1>5. pmptable = unpack_pmpaddrs(csr_pmpcfg, csr_pmpaddr)
  BY <1>4, EmptyTable, Zenon DEF PmpInit
<1> QED
  BY <1>1, <1>3, <1>5, Zenon DEF PmpInv

\* Every write of a register unpacks the registers anew.
LEMMA PmpInvNext == PmpInv /\ [PmpNext]_pmpvars => PmpInv'
<1> SUFFICES ASSUME PmpInv, [PmpNext]_pmpvars PROVE PmpInv'
  OBVIOUS
<1>1. ASSUME pmptable' = unpack_pmpaddrs(csr_pmpcfg', csr_pmpaddr')
      PROVE  (pmptable = unpack_pmpaddrs(csr_pmpcfg, csr_pmpaddr))'
  BY <1>1, Zenon DEF unpack_pmpaddrs, Unpacked, RangeOf, Active, TrailingOnes
<1>2. ASSUME NEW i \in Entries, NEW c \in Cfg, WritePmpcfg([csr_pmpcfg EXCEPT ![i] = c]) PROVE PmpInv'
  <2>1. csr_pmpcfg' \in [Entries -> Cfg]
    BY <1>2 DEF WritePmpcfg, PmpInv
  <2>2. csr_pmpaddr' = csr_pmpaddr /\ pmptable' = unpack_pmpaddrs(csr_pmpcfg', csr_pmpaddr)
    BY <1>2, Zenon DEF WritePmpcfg
  <2> QED
    BY <1>1, <2>1, <2>2, Zenon DEF PmpInv
<1>3. ASSUME NEW i \in Entries, NEW a \in Addrs, WritePmpaddr(i, a) PROVE PmpInv'
  <2>1. csr_pmpaddr' \in [Entries -> Addrs]
    BY <1>3 DEF WritePmpaddr, PmpInv
  <2>2. csr_pmpcfg' = csr_pmpcfg /\ pmptable' = unpack_pmpaddrs(csr_pmpcfg, csr_pmpaddr')
    BY <1>3, Zenon DEF WritePmpaddr
  <2> QED
    BY <1>1, <2>1, <2>2, Zenon DEF PmpInv
<1>4. CASE UNCHANGED pmpvars
  <2>1. csr_pmpcfg' = csr_pmpcfg /\ csr_pmpaddr' = csr_pmpaddr /\ pmptable' = pmptable
    BY <1>4 DEF pmpvars
  <2> QED
    BY <1>1, <2>1, Zenon DEF PmpInv
<1> QED
  BY <1>2, <1>3, <1>4, Zenon DEF PmpNext

\* Under the invariant the table is exact.
LEMMA PmpInvExact == PmpInv => TableExact
<1> SUFFICES ASSUME PmpInv, NEW i \in Active(csr_pmpcfg)
             PROVE  {w \in 0..Pow2[AddrBits + 1] : pmptable[Place(i)].lo <= 4 * w /\ 4 * w < pmptable[Place(i)].hi}
                      = Matches(i)
  BY Zenon DEF TableExact
<1>1. pmptable[Place(i)] = RangeOf(csr_pmpcfg, csr_pmpaddr, i)
  BY TablePlaces, Zenon DEF PmpInv, Place
<1> HIDE DEF PmpInv
<1> DEFINE r == pmptable[Place(i)]
<1>2. csr_pmpcfg \in [Entries -> Cfg] /\ csr_pmpaddr \in [Entries -> Addrs] /\ r = RangeOf(csr_pmpcfg, csr_pmpaddr, i)
  BY <1>1 DEF PmpInv
<1> HIDE DEF r
<1>3. {w \in 0..Pow2[AddrBits + 1] : r.lo <= 4 * w /\ 4 * w < r.hi} = Matches(i)
  BY <1>2, RangeExact
<1> QED
  BY <1>3 DEF r

\* A range depends on its entry and, for TOR, on the address before it.
LEMMA RangeDepends ==
    ASSUME NEW cfg, NEW addr, NEW cfg2, NEW addr2, NEW i, cfg2[i] = cfg[i], addr2[i] = addr[i],
           cfg[i].A \in {"TOR", "NA4", "NAPOT"},
           cfg[i].A = "TOR" /\ i # 0 => addr2[i - 1] = addr[i - 1]
    PROVE  RangeOf(cfg2, addr2, i) = RangeOf(cfg, addr, i)
<1>1. CASE cfg[i].A = "TOR" /\ i # 0
  BY <1>1 DEF RangeOf
<1>2. CASE ~(cfg[i].A = "TOR" /\ i # 0)
  <2>1. CASE cfg[i].A = "TOR"
    BY <1>2, <2>1 DEF RangeOf
  <2>2. CASE cfg[i].A = "NA4"
    BY <2>2 DEF RangeOf
  <2>3. CASE cfg[i].A = "NAPOT"
    BY <2>3 DEF RangeOf
  <2> QED
    BY <2>1, <2>2, <2>3
<1> QED
  BY <1>1, <1>2

\* A write keeps a locked entry and the addresses its range is made of.
LEMMA LockedKept ==
    ASSUME PmpInv, PmpNext, NEW i \in Active(csr_pmpcfg), csr_pmpcfg[i].L
    PROVE  /\ csr_pmpcfg'[i] = csr_pmpcfg[i] /\ csr_pmpaddr'[i] = csr_pmpaddr[i]
           /\ csr_pmpcfg[i].A = "TOR" /\ i # 0 => csr_pmpaddr'[i - 1] = csr_pmpaddr[i - 1]
<1>1. i \in Entries
  BY DEF Active
<1>2. ASSUME NEW k \in Entries, NEW c \in Cfg, WritePmpcfg([csr_pmpcfg EXCEPT ![k] = c])
      PROVE  csr_pmpcfg'[i] = csr_pmpcfg[i] /\ csr_pmpaddr' = csr_pmpaddr
  BY <1>1, <1>2 DEF WritePmpcfg
<1>3. ASSUME NEW k \in Entries, NEW a \in Addrs, WritePmpaddr(k, a)
      PROVE  /\ csr_pmpcfg' = csr_pmpcfg /\ csr_pmpaddr'[i] = csr_pmpaddr[i]
             /\ csr_pmpcfg[i].A = "TOR" /\ i # 0 => csr_pmpaddr'[i - 1] = csr_pmpaddr[i - 1]
  <2>1. csr_pmpcfg' = csr_pmpcfg /\ csr_pmpaddr' = [csr_pmpaddr EXCEPT ![k] = a] /\ ~AddrLocked(k)
    BY <1>3, Zenon DEF WritePmpaddr
  <2>2. k # i
    BY <2>1, Zenon DEF AddrLocked
  <2>3. ASSUME csr_pmpcfg[i].A = "TOR", i # 0 PROVE k # i - 1
    <3> SUFFICES ASSUME k = i - 1 PROVE FALSE
      OBVIOUS
    <3>1. k + 1 = i
      BY <1>1, PmpAssumption DEF Entries
    <3> QED
      BY <1>1, <2>1, <2>3, <3>1, Zenon DEF AddrLocked
  <2>4. i - 1 \in Entries \/ i = 0
    BY <1>1, PmpAssumption DEF Entries
  <2> QED
    BY <1>1, <2>1, <2>2, <2>3, <2>4 DEF PmpInv
<1> QED
  BY <1>2, <1>3, Zenon DEF PmpNext

\* A locked entry keeps its range.
LEMMA KeepsLockedStep == PmpInv /\ PmpInv' /\ [PmpNext]_pmpvars => [KeepsLocked]_pmpvars
<1> SUFFICES ASSUME PmpInv, PmpInv', PmpNext PROVE KeepsLocked
  BY Zenon
<1> SUFFICES ASSUME NEW i \in Active(csr_pmpcfg), csr_pmpcfg[i].L
             PROVE  i \in Active(csr_pmpcfg)' /\ pmptable'[Place(i)'] = pmptable[Place(i)]
  BY Zenon DEF KeepsLocked
<1>1. /\ csr_pmpcfg'[i] = csr_pmpcfg[i] /\ csr_pmpaddr'[i] = csr_pmpaddr[i]
      /\ csr_pmpcfg[i].A = "TOR" /\ i # 0 => csr_pmpaddr'[i - 1] = csr_pmpaddr[i - 1]
  BY LockedKept, Zenon
<1>2. i \in Active(csr_pmpcfg') /\ i \in Active(csr_pmpcfg)'
  BY <1>1, Zenon DEF Active
<1>3. pmptable[Place(i)] = RangeOf(csr_pmpcfg, csr_pmpaddr, i)
  BY TablePlaces, Zenon DEF PmpInv, Place
<1>4. pmptable' = unpack_pmpaddrs(csr_pmpcfg', csr_pmpaddr')
  BY Zenon DEF PmpInv, unpack_pmpaddrs, Unpacked, RangeOf, Active, TrailingOnes
<1>5. Place(i)' = Before(csr_pmpcfg')[i] + 1
  BY Zenon DEF Place, Before, Active
<1>6. pmptable'[Place(i)'] = RangeOf(csr_pmpcfg', csr_pmpaddr', i)
  BY <1>2, <1>4, <1>5, TablePlaces, Zenon
<1>7. RangeOf(csr_pmpcfg', csr_pmpaddr', i) = RangeOf(csr_pmpcfg, csr_pmpaddr, i)
  <2>1. csr_pmpcfg[i].A \in {"TOR", "NA4", "NAPOT"}
    BY DEF PmpInv, Active, Cfg, Types
  <2> QED
    BY <1>1, <2>1, RangeDepends
<1> QED
  BY <1>2, <1>3, <1>6, <1>7, Zenon

\* The table riscv_cpu checks accesses against is, after every write of a PMP
\* register, what the registers say, and locked entries keep their ranges.
THEOREM PmpTable == PmpSpec => PmpRangesExact
  BY PmpInvInit, PmpInvNext, PmpInvExact, KeepsLockedStep, PTL DEF PmpSpec, PmpRangesExact

--------------------------------------------------------------------------------
(* Translation look-aside buffers.                                          *)

\* A valid slot holds what a translation now would give.
SlotOk(acc, i) ==
  tlb[acc][i].vaddr # -1 => get_phys_addr(tlb[acc][i].vaddr, acc) = tlb[acc][i].page

\* The TLBs whose contents the property speaks of.
Live(acc) == ~ptStale /\ (acc = "X" \/ ~mppStale)

Coherent == \A acc \in Access : Live(acc) => \A i \in Index : SlotOk(acc, i)

\* The inductive invariant of TlbCoherent.
IInv == TypeOK /\ Coherent

\* Coherent is TlbCoherent, slot by slot.
LEMMA CoherentIsTlbCoherent == Coherent => TlbCoherent
  BY DEF Coherent, TlbCoherent, Cached, SlotOk, Live

\* riscv_cpu_get_phys_addr depends on nothing else.
LEMMA XlateUnchanged ==
  ASSUME NEW v, NEW acc,
         UNCHANGED <<priv, mprv, sum, mxr, satp, pt, pmp>>,
         mprv => mpp' = mpp
  PROVE  get_phys_addr(v, acc)' = get_phys_addr(v, acc)
  BY DEF get_phys_addr, LeafOk, PmpOk, PmpMatches, EffectivePriv

\* Machine mode fetches untranslated.
LEMMA MachineFetch ==
  ASSUME NEW v, priv = PRV_M, priv' = PRV_M
  PROVE  get_phys_addr(v, "X") = v /\ get_phys_addr(v, "X")' = v
  BY DEF get_phys_addr, EffectivePriv

\* tlb_flush_all establishes the invariant.
LEMMA FlushCoherent == Flush => Coherent'
  BY DEF Flush, Coherent, SlotOk, EmptyTlb, NoEntry

\* A step that leaves the TLBs and what translation depends on alone.
LEMMA KeepCoherent ==
  ASSUME Coherent, KeepTlb,
         UNCHANGED <<priv, mprv, sum, mxr, satp, pt, pmp>>,
         mprv => mpp' = mpp
  PROVE  Coherent'
<1> SUFFICES ASSUME NEW acc \in Access, Live(acc)', NEW i \in Index
             PROVE  SlotOk(acc, i)'
  BY DEF Coherent, Index
<1>1. Live(acc) /\ tlb' = tlb
  BY DEF Live, KeepTlb
<1>2. SlotOk(acc, i)
  BY <1>1 DEF Coherent
<1>3. PICK x : x = tlb[acc][i].vaddr
  OBVIOUS
<1>4. get_phys_addr(x, acc)' = get_phys_addr(x, acc)
  BY XlateUnchanged
<1> QED
  BY <1>1, <1>2, <1>3, <1>4 DEF SlotOk

\* set_priv, whether or not it empties the TLBs, in a step that otherwise
\* changes MPP at most, and MPP only on the way to machine mode or from it.
LEMMA SetPrivCoherent ==
  ASSUME Coherent, NEW p, set_priv(p),
         UNCHANGED <<mprv, sum, mxr, satp, pt, pmp>>,
         mpp' = mpp \/ p = PRV_M \/ priv = PRV_M
  PROVE  Coherent'
<1>1. CASE p # priv
  BY <1>1, FlushCoherent DEF set_priv
<1>2. CASE p = priv
  <2> SUFFICES ASSUME NEW acc \in Access, Live(acc)', NEW i \in Index
               PROVE  SlotOk(acc, i)'
    BY DEF Coherent, Index
  <2>1. tlb' = tlb /\ ptStale' = ptStale /\ priv' = priv
    BY <1>2 DEF set_priv
  <2>2. mppStale' = (mppStale \/ (mprv /\ mpp' # mpp))
    BY <1>2 DEF set_priv
  <2>3. Live(acc)
    BY <2>1, <2>2, Zenon DEF Live
  <2>4. SlotOk(acc, i)
    BY <2>3 DEF Coherent
  <2>x. PICK x : x = tlb[acc][i].vaddr
    OBVIOUS
  <2>5. CASE mprv => mpp' = mpp
    <3>1. get_phys_addr(x, acc)' = get_phys_addr(x, acc)
      BY <2>1, <2>5, XlateUnchanged
    <3> QED
      BY <2>1, <2>4, <2>x, <3>1 DEF SlotOk
  <2>6. CASE mprv /\ mpp' # mpp
    <3>1. acc = "X"
      BY <2>2, <2>6, Zenon DEF Live
    <3>2. priv = PRV_M /\ priv' = PRV_M
      BY <1>2, <2>1, <2>6
    <3>3. get_phys_addr(x, acc)' = get_phys_addr(x, acc)
      BY <3>1, <3>2, MachineFetch
    <3> QED
      BY <2>1, <2>4, <2>x, <3>3 DEF SlotOk
  <2> QED
    BY <2>5, <2>6
<1> QED
  BY <1>1, <1>2

\* A fill stores the walk it just made; the other slots keep theirs.
LEMMA FillCoherent ==
  ASSUME TypeOK, Coherent, NEW acc \in Access, NEW v \in Pages,
         Fill(acc, v, get_phys_addr(v, acc)),
         UNCHANGED <<priv, mprv, mpp, sum, mxr, satp, pt, pmp, ptStale, mppStale>>
  PROVE  Coherent'
<1> SUFFICES ASSUME NEW a \in Access, Live(a)', NEW i \in Index
             PROVE  SlotOk(a, i)'
  BY DEF Coherent, Index
<1>1. Slot(v) \in Index
  BY MmuAssumption DEF Slot, Index
<1>2. tlb' = [tlb EXCEPT ![acc][Slot(v)] = [vaddr |-> v, page |-> get_phys_addr(v, acc)]]
  BY DEF Fill
<1>3. tlb \in [Access -> [Index -> Entry]]
  BY DEF TypeOK
<1>4. SlotOk(a, i)
  BY DEF Coherent, Live
<1>5. CASE a = acc /\ i = Slot(v)
  <2>1. tlb'[a][i] = [vaddr |-> v, page |-> get_phys_addr(v, acc)]
    BY <1>1, <1>2, <1>3, <1>5
  <2>2. get_phys_addr(v, a)' = get_phys_addr(v, a)
    BY XlateUnchanged
  <2> QED
    BY <1>5, <2>1, <2>2 DEF SlotOk
<1>6. CASE ~(a = acc /\ i = Slot(v))
  <2>1. tlb'[a][i] = tlb[a][i]
    BY <1>1, <1>2, <1>3, <1>6
  <2>2. PICK x : x = tlb[a][i].vaddr
    OBVIOUS
  <2>3. get_phys_addr(x, a)' = get_phys_addr(x, a)
    BY XlateUnchanged
  <2> QED
    BY <1>4, <2>1, <2>2, <2>3 DEF SlotOk
<1> QED
  BY <1>5, <1>6

--------------------------------------------------------------------------------
(* Types. *)

\* The reset state: empty TLBs are coherent with anything.
LEMMA InitIInv == Init => IInv
<1> SUFFICES ASSUME Init PROVE IInv
  OBVIOUS
<1>1. tlb \in [Access -> [Index -> Entry]] /\ window \in Entry
  BY DEF Init, EmptyTlb, Entry
<1>m. PRV_M \in Privs
  BY DEF PRV_M, Privs
<1>p. pmp \in PmpConfigs
  BY MmuAssumption, Zenon DEF Init
<1>2. TypeOK
  BY <1>1, <1>m, <1>p, Zenon DEF Init, TypeOK
<1>3. Coherent
  BY DEF Init, Coherent, SlotOk, EmptyTlb, NoEntry
<1> QED
  BY <1>2, <1>3 DEF IInv

\* The part of TypeOK the TLB operations touch.
TlbType == tlb \in [Access -> [Index -> Entry]]
              /\ ptStale \in BOOLEAN /\ mppStale \in BOOLEAN

\* What tlb_flush_all leaves is well typed.
LEMMA FlushType == Flush => TlbType'
  BY Zenon DEF Flush, TlbType, EmptyTlb, Entry

\* So is what set_priv leaves.
LEMMA SetPrivType == ASSUME TypeOK, NEW p \in Privs, set_priv(p)
                     PROVE  TlbType' /\ priv' \in Privs
<1>1. CASE p # priv
  BY <1>1, FlushType DEF set_priv
<1>2. CASE p = priv
  BY <1>2 DEF set_priv, TypeOK, TlbType
<1> QED
  BY <1>1, <1>2

\* And what a fill leaves: Pages holds every page number the step stores.
LEMMA FillType ==
  ASSUME TypeOK, NEW acc \in Access, NEW v \in Pages, NEW page \in Pages,
         Fill(acc, v, page)
  PROVE  tlb' \in [Access -> [Index -> Entry]]
<1>1. Slot(v) \in Index
  BY MmuAssumption DEF Slot, Index
<1>2. [vaddr |-> v, page |-> page] \in Entry
  BY DEF Entry
<1> QED
  BY <1>1, <1>2 DEF Fill, TypeOK

\* set_mstatus, from mstatus and sstatus alike.
LEMMA SetMstatusIInv ==
  ASSUME IInv, NEW b \in BOOLEAN, NEW p \in Privs, NEW c \in BOOLEAN,
         NEW d \in BOOLEAN, NEW e \in {PRV_U, PRV_S}, set_mstatus(b, p, c, d, e)
  PROVE  IInv'
<1>w. winStale' \in BOOLEAN
  BY DEF IInv, TypeOK, set_mstatus
<1>1. CASE MmuConfigChanges(b, p, c, d)
  <2>1. Flush
    BY <1>1 DEF set_mstatus
  <2> QED
    BY <1>w, <2>1, FlushType, FlushCoherent DEF IInv, TypeOK, TlbType, set_mstatus
<1>2. CASE ~MmuConfigChanges(b, p, c, d)
  <2>1. KeepTlb
    BY <1>2 DEF set_mstatus
  <2>2. UNCHANGED <<priv, mprv, sum, mxr, satp, pt, pmp>> /\ (mprv => mpp' = mpp)
    BY <1>2 DEF set_mstatus, MmuConfigChanges
  <2>3. Coherent'
    BY <2>1, <2>2, KeepCoherent DEF IInv
  <2> QED
    BY <1>w, <2>1, <2>3 DEF IInv, TypeOK, KeepTlb, set_mstatus
<1> QED
  BY <1>1, <1>2

--------------------------------------------------------------------------------
(* Every step. *)

\* Each action keeps the TLBs coherent, or empties them.
LEMMA NextIInv == IInv /\ [Next]_vars => IInv'
<1> SUFFICES ASSUME IInv, [Next]_vars PROVE IInv'
  OBVIOUS
<1> USE DEF mstatus, CloseWindow
<1>t. TypeOK /\ Coherent
  BY DEF IInv
<1>w. NoEntry \in Entry
  BY DEF Entry
<1>p. PRV_U \in Privs /\ PRV_S \in Privs /\ PRV_M \in Privs
  BY DEF PRV_U, PRV_S, PRV_M, Privs
<1>1. ASSUME NEW v \in Pages, NEW w, NEW acc \in Access, MissAccess(acc, v, w)
      PROVE  IInv'
  <2>1. CASE get_phys_addr(v, acc) \in RamPages
    <3>1. Fill(acc, v, get_phys_addr(v, acc)) /\ get_phys_addr(v, acc) \in Pages
      BY <1>1, <2>1 DEF MissAccess
    <3>2. Coherent'
      BY <1>t, <1>1, <3>1, FillCoherent DEF MissAccess
    <3>3. tlb' \in [Access -> [Index -> Entry]]
      BY <1>t, <3>1, FillType
    <3> QED
      BY <1>t, <1>1, <3>2, <3>3 DEF IInv, TypeOK, MissAccess
  <2>2. CASE get_phys_addr(v, acc) \notin RamPages
    <3>1. KeepTlb
      BY <1>1, <2>2 DEF MissAccess, KeepTlb
    <3>2. Coherent'
      BY <1>t, <1>1, <3>1, KeepCoherent DEF MissAccess
    <3> QED
      BY <1>t, <1>1, <3>1, <3>2 DEF IInv, TypeOK, MissAccess, KeepTlb
  <2> QED
    BY <2>1, <2>2
<1>2. ASSUME NEW v \in Pages, NEW w, MissFetch(v, w)
      PROVE  IInv'
  <2>a. "X" \in Access
    BY DEF Access
  <2>1. CASE WholePageOk(get_phys_addr(v, "X"))
    <3>1. Fill("X", v, get_phys_addr(v, "X"))
      BY <1>2, <2>1 DEF MissFetch
    <3>p. get_phys_addr(v, "X") \in Pages
      BY <1>2, MmuAssumption, Zenon DEF MissFetch
    <3>2. Coherent'
      BY <1>t, <1>2, <2>a, <3>1, FillCoherent DEF MissFetch
    <3>3. tlb' \in [Access -> [Index -> Entry]]
      BY <1>t, <2>a, <3>1, <3>p, FillType
    <3> QED
      BY <1>t, <1>2, <3>2, <3>3 DEF IInv, TypeOK, MissFetch
  <2>2. CASE ~WholePageOk(get_phys_addr(v, "X"))
    <3>1. KeepTlb
      BY <1>2, <2>2 DEF MissFetch, KeepTlb
    <3>2. Coherent'
      BY <1>t, <1>2, <3>1, KeepCoherent DEF MissFetch
    <3> QED
      BY <1>t, <1>2, <3>1, <3>2 DEF IInv, TypeOK, MissFetch, KeepTlb
  <2> QED
    BY <2>1, <2>2
<1>3. ASSUME NEW v \in Pages, HitFetch(v)
      PROVE  IInv'
  <2>1. Coherent'
    BY <1>t, <1>3, KeepCoherent DEF HitFetch
  <2>2. Slot(v) \in Index /\ "X" \in Access
    BY MmuAssumption DEF Slot, Index, Access
  <2>3. window' \in Entry
    BY <1>t, <1>3, <2>2 DEF HitFetch, TypeOK
  <2> QED
    BY <1>t, <1>3, <2>1, <2>3 DEF IInv, TypeOK, HitFetch, KeepTlb
<1>4. CASE LeavePage
  <2>1. Coherent'
    BY <1>t, <1>4, KeepCoherent DEF LeavePage
  <2> QED
    BY <1>t, <1>w, <1>4, <2>1, Zenon DEF IInv, TypeOK, LeavePage, KeepTlb
<1>5. CASE WriteMstatus
  BY <1>5, MmuAssumption, SetMstatusIInv DEF WriteMstatus
<1>6. CASE WriteSstatus
  BY <1>6, <1>t, SetMstatusIInv DEF WriteSstatus, TypeOK
<1>7. CASE WriteSatp
  BY <1>7, <1>t, <1>w, FlushType, FlushCoherent, Zenon DEF WriteSatp, IInv, TypeOK, TlbType
<1>8. CASE WritePmp
  BY <1>8, <1>t, FlushType, FlushCoherent DEF WritePmp, IInv, TypeOK, TlbType
<1>9. CASE WritePte
  <2>1. PICK root \in Roots, v \in Pages, pte \in Ptes :
          pt' = [pt EXCEPT ![root][v] = pte]
    BY <1>9, Zenon DEF WritePte
  <2>2. pt' \in [Roots -> [Pages -> Ptes]]
    BY <1>t, <2>1 DEF TypeOK
  <2>3. Coherent'
    BY <1>9 DEF WritePte, Coherent, Live
  <2> QED
    BY <1>9, <1>t, <2>2, <2>3 DEF WritePte, IInv, TypeOK
<1>10. CASE SfenceVma
  BY <1>10, <1>t, <1>w, FlushType, FlushCoherent, Zenon DEF SfenceVma, IInv, TypeOK, TlbType
<1>11. CASE TrapToM
  <2>1. Coherent'
    BY <1>11, <1>t, SetPrivCoherent DEF TrapToM
  <2>2. TlbType' /\ priv' \in Privs
    BY <1>11, <1>t, <1>p, SetPrivType DEF TrapToM
  <2> QED
    BY <1>11, <1>t, <1>w, <2>1, <2>2, Zenon DEF TrapToM, IInv, TypeOK, TlbType
<1>12. CASE TrapToS
  <2>1. Coherent'
    BY <1>12, <1>t, SetPrivCoherent DEF TrapToS
  <2>2. TlbType' /\ priv' \in Privs
    BY <1>12, <1>t, <1>p, SetPrivType DEF TrapToS
  <2>3. spp' \in {PRV_U, PRV_S}
    BY <1>12, <1>t DEF TrapToS, TypeOK, Privs, PRV_U, PRV_S
  <2> QED
    BY <1>12, <1>t, <1>w, <2>1, <2>2, <2>3, Zenon DEF TrapToS, IInv, TypeOK, TlbType
<1>13. CASE Mret
  <2>1. Coherent'
    BY <1>13, <1>t, SetPrivCoherent DEF Mret
  <2>2. TlbType' /\ priv' \in Privs
    BY <1>13, <1>t, SetPrivType DEF Mret, TypeOK
  <2> QED
    BY <1>13, <1>t, <1>w, <1>p, <2>1, <2>2, Zenon DEF Mret, IInv, TypeOK, TlbType
<1>14. CASE Sret
  <2>1. Coherent'
    BY <1>14, <1>t, SetPrivCoherent DEF Sret
  <2>2. spp \in Privs
    BY <1>t, <1>p DEF TypeOK
  <2>3. TlbType' /\ priv' \in Privs
    BY <1>14, <1>t, <2>2, SetPrivType DEF Sret
  <2> QED
    BY <1>14, <1>t, <1>w, <2>1, <2>3, Zenon DEF Sret, IInv, TypeOK, TlbType
<1>15. CASE Dret
  <2>1. PICK p \in Privs : set_priv(p)
    BY <1>15 DEF Dret
  <2>2. Coherent'
    BY <1>15, <1>t, <2>1, SetPrivCoherent DEF Dret
  <2>3. TlbType' /\ priv' \in Privs
    BY <1>t, <2>1, SetPrivType
  <2> QED
    BY <1>15, <1>t, <1>w, <2>2, <2>3, Zenon DEF Dret, IInv, TypeOK, TlbType
<1>16. CASE UNCHANGED vars
  <2>1. KeepTlb /\ UNCHANGED <<priv, mstatus, satp, pt, pmp, window, winStale>>
    BY <1>16 DEF vars, cached, KeepTlb
  <2>2. Coherent'
    BY <1>t, <2>1, KeepCoherent
  <2> QED
    BY <1>t, <2>1, <2>2 DEF IInv, TypeOK, KeepTlb
<1>a. {"R", "W"} \subseteq Access
  BY DEF Access
<1> QED
  BY <1>1, <1>2, <1>3, <1>4, <1>5, <1>6, <1>7, <1>8, <1>9, <1>10, <1>11, <1>12,
     <1>13, <1>14, <1>15, <1>16, <1>a DEF Next

--------------------------------------------------------------------------------
(* The fetch window. *)

\* The translation of a fetch does not depend on MXR.
LEMMA FetchUnchanged ==
  ASSUME NEW v, UNCHANGED <<priv, mprv, mpp, sum, satp, pt, pmp>>
  PROVE  get_phys_addr(v, "X")' = get_phys_addr(v, "X")
  BY DEF get_phys_addr, LeafOk, PmpOk, PmpMatches, EffectivePriv

\* A window is opened from a coherent TLB, and closed or left alone after that.
LEMMA NextWindow == IInv /\ FetchWindowCoherent /\ [Next]_vars => FetchWindowCoherent'
<1> SUFFICES ASSUME IInv, FetchWindowCoherent, [Next]_vars PROVE FetchWindowCoherent'
  OBVIOUS
<1> USE DEF mstatus
<1>x. PICK x : x = window.vaddr
  OBVIOUS
<1>c. ASSUME CloseWindow PROVE FetchWindowCoherent'
  BY <1>c DEF CloseWindow, FetchWindowCoherent
<1>k. ASSUME UNCHANGED <<window, winStale, priv, mprv, mpp, sum, satp, pt, pmp>>
      PROVE  FetchWindowCoherent'
  <2>1. get_phys_addr(x, "X")' = get_phys_addr(x, "X")
    BY <1>k, FetchUnchanged
  <2> QED
    BY <1>k, <1>x, <2>1 DEF FetchWindowCoherent
<1>m. ASSUME UNCHANGED <<window, winStale, priv>>, priv = PRV_M
      PROVE  FetchWindowCoherent'
  <2>1. get_phys_addr(x, "X")' = get_phys_addr(x, "X")
    BY <1>m, MachineFetch
  <2> QED
    BY <1>m, <1>x, <2>1 DEF FetchWindowCoherent
<1>s. ASSUME winStale' \/ window' = NoEntry PROVE FetchWindowCoherent'
  BY <1>s DEF FetchWindowCoherent
<1>1. ASSUME NEW v \in Pages, NEW w, NEW acc \in Access, MissAccess(acc, v, w)
      PROVE  FetchWindowCoherent'
  BY <1>1, <1>k DEF MissAccess
<1>2. ASSUME NEW v \in Pages, NEW w, MissFetch(v, w) PROVE FetchWindowCoherent'
  BY <1>2, <1>k DEF MissFetch
<1>3. ASSUME NEW v \in Pages, HitFetch(v) PROVE FetchWindowCoherent'
  <2>1. Slot(v) \in Index /\ "X" \in Access
    BY MmuAssumption DEF Slot, Index, Access
  <2>2. v # -1 /\ tlb["X"][Slot(v)].vaddr = v
    BY <1>3, MmuAssumption DEF HitFetch, Hit
  <2>3. ~ptStale => get_phys_addr(v, "X") = tlb["X"][Slot(v)].page
    BY <2>1, <2>2 DEF IInv, Coherent, Live, SlotOk
  <2>4. get_phys_addr(v, "X")' = get_phys_addr(v, "X")
    BY <1>3, FetchUnchanged DEF HitFetch
  <2> QED
    BY <1>3, <2>2, <2>3, <2>4 DEF HitFetch, FetchWindowCoherent
<1>4. CASE LeavePage
  BY <1>4, <1>c DEF LeavePage
<1>5. CASE WriteMstatus
  <2>1. UNCHANGED <<window, priv>> /\ priv = PRV_M
    BY <1>5 DEF WriteMstatus, set_mstatus
  <2>2. winStale \in BOOLEAN /\ winStale' \in BOOLEAN /\ (winStale => winStale')
    BY <1>5 DEF WriteMstatus, set_mstatus, IInv, TypeOK
  <2> QED
    BY <2>1, <2>2, <1>m, <1>s
<1>6. CASE WriteSstatus
  <2>1. PICK c \in BOOLEAN, d \in BOOLEAN, e \in {PRV_U, PRV_S} :
          set_mstatus(mprv, mpp, c, d, e)
    BY <1>6 DEF WriteSstatus
  <2>2. UNCHANGED <<window, priv, mprv, mpp, satp, pt, pmp>> /\ sum' = c
    BY <2>1 DEF set_mstatus
  <2>3. winStale' = (winStale \/ (c # sum /\ window # NoEntry)) /\ winStale \in BOOLEAN
    BY <2>1 DEF set_mstatus, IInv, TypeOK
  <2>4. CASE c = sum
    BY <2>2, <2>3, <2>4, <1>k
  <2>5. CASE c # sum
    BY <2>2, <2>3, <2>5, <1>s, Zenon
  <2> QED
    BY <2>4, <2>5
<1>7. CASE WriteSatp
  BY <1>7, <1>c DEF WriteSatp
<1>8. CASE WritePmp
  BY <1>8, <1>m DEF WritePmp
<1>9. CASE WritePte
  BY <1>9, <1>s, Zenon DEF WritePte
<1>10. CASE SfenceVma
  BY <1>10, <1>c DEF SfenceVma
<1>11. CASE TrapToM \/ TrapToS \/ Mret \/ Sret \/ Dret
  BY <1>11, <1>c DEF TrapToM, TrapToS, Mret, Sret, Dret
<1>12. CASE UNCHANGED vars
  BY <1>12, <1>k DEF vars, cached
<1>a. {"R", "W"} \subseteq Access
  BY DEF Access
<1> QED
  BY <1>1, <1>2, <1>3, <1>4, <1>5, <1>6, <1>7, <1>8, <1>9, <1>10, <1>11, <1>12, <1>a
  DEF Next

--------------------------------------------------------------------------------
(* The PMP check a hit skips. *)

\* PMP regions of whole pages, for which a TLB that remembers pages can be
\* exact.
WholePagePmp ==
  \A c \in PmpConfigs : \A i \in DOMAIN c :
    \E first, last \in Nat : c[i].lo = first * Words /\ c[i].hi = last * Words

\* Words of one page lie on the same side of the start of another.
LEMMA SameSide ==
  ASSUME NEW a \in Nat, NEW p \in Nat, NEW w \in 0..(Words - 1)
  PROVE  (a * Words <= p * Words + w) <=> (a <= p)
<1>0. Words \in Nat \ {0}
  BY MmuAssumption
<1>1. ASSUME a <= p PROVE a * Words <= p * Words
  <2>1. PICK d \in Nat : p = a + d
    BY <1>1
  <2>2. p * Words = a * Words + d * Words /\ d * Words >= 0 /\ a * Words \in Nat
    BY <1>0, <2>1
  <2> QED
    BY <2>2, <1>0
<1>2. ASSUME ~(a <= p) PROVE a * Words >= p * Words + Words
  <2>1. PICK d \in Nat : a = p + 1 + d
    BY <1>2
  <2>2. a * Words = p * Words + Words + d * Words /\ d * Words >= 0 /\ p * Words \in Nat
    BY <1>0, <2>1
  <2> QED
    BY <2>2, <1>0
<1>3. a * Words \in Nat /\ p * Words \in Nat
  BY <1>0
<1> QED
  BY <1>0, <1>1, <1>2, <1>3

\* So all words of a page, and the page as a whole, meet the same entries.
LEMMA SameMatches ==
  ASSUME WholePagePmp, TypeOK, NEW p \in Pages,
         NEW w \in 0..(Words - 1), NEW x \in 0..(Words - 1), NEW y \in 0..(Words - 1)
  PROVE  PmpMatches(WordOf(p, w), WordOf(p, w)) = PmpMatches(WordOf(p, x), WordOf(p, y))
<1>1. p \in Nat
  BY MmuAssumption
<1>2. SUFFICES ASSUME NEW i \in DOMAIN pmp
               PROVE  (pmp[i].lo <= WordOf(p, w) /\ WordOf(p, w) < pmp[i].hi)
                        <=> (pmp[i].lo <= WordOf(p, y) /\ WordOf(p, x) < pmp[i].hi)
  BY DEF PmpMatches
<1>3. PICK first \in Nat, last \in Nat : pmp[i].lo = first * Words /\ pmp[i].hi = last * Words
  BY DEF WholePagePmp, TypeOK
<1>4. /\ (pmp[i].lo <= WordOf(p, w)) <=> (first <= p)
      /\ (pmp[i].lo <= WordOf(p, y)) <=> (first <= p)
  BY <1>1, <1>3, SameSide DEF WordOf
<1>5. /\ (pmp[i].hi <= WordOf(p, w)) <=> (last <= p)
      /\ (pmp[i].hi <= WordOf(p, x)) <=> (last <= p)
  BY <1>1, <1>3, SameSide DEF WordOf
<1>6. WordOf(p, w) \in Nat /\ WordOf(p, x) \in Nat /\ pmp[i].hi \in Nat
  BY <1>1, <1>3, MmuAssumption DEF WordOf
<1> QED
  BY <1>4, <1>5, <1>6

\* One word of a page that passes the check stands for all of them.
LEMMA OneWordForAll ==
  ASSUME WholePagePmp, TypeOK, NEW p \in Pages, NEW acc \in Access,
         NEW w \in 0..(Words - 1), NEW x \in 0..(Words - 1), NEW y \in 0..(Words - 1),
         PmpOk(WordOf(p, x), WordOf(p, y), acc)
  PROVE  WordOk(p, w, acc)
  BY SameMatches DEF WordOk, PmpOk

\* The PMP grants the access to every word of the page.
PageOk(page, acc) == \A w \in 0..(Words - 1) : WordOk(page, w, acc)

\* The TLBs the property speaks of; the page tables do not matter.
PmpLive(acc) == acc = "X" \/ ~mppStale

\* Every page in a TLB passed the PMP check, for all of its words.
PmpChecked ==
  \A acc \in Access : PmpLive(acc) =>
    \A i \in Index : tlb[acc][i].vaddr # -1 => PageOk(tlb[acc][i].page, acc)

\* The check of a page depends on the PMP registers and on the privilege that
\* counts for the access.
LEMMA PageOkKept ==
  ASSUME NEW page, NEW acc, PageOk(page, acc), pmp' = pmp,
         EffectivePriv(acc)' = EffectivePriv(acc)
  PROVE  PageOk(page, acc)'
  BY DEF PageOk, WordOk, PmpOk, PmpMatches, WordOf

\* A step that leaves TLBs, PMP registers and privileges alone.
LEMMA PmpKept ==
  ASSUME PmpChecked, tlb' = tlb, pmp' = pmp, priv' = priv, mprv' = mprv,
         mppStale' = mppStale, mprv => mpp' = mpp
  PROVE  PmpChecked'
<1> SUFFICES ASSUME NEW acc \in Access, PmpLive(acc)', NEW i \in Index,
                    (tlb[acc][i].vaddr # -1)'
             PROVE  PageOk(tlb[acc][i].page, acc)'
  BY DEF PmpChecked, Index
<1>1. PICK page : page = tlb[acc][i].page
  OBVIOUS
<1>2. PageOk(page, acc)
  BY <1>1 DEF PmpChecked, PmpLive
<1>3. EffectivePriv(acc)' = EffectivePriv(acc)
  BY DEF EffectivePriv
<1> QED
  BY <1>1, <1>2, <1>3, PageOkKept

\* tlb_flush_all.
LEMMA FlushChecked == Flush => PmpChecked'
  BY DEF Flush, PmpChecked, EmptyTlb, NoEntry

\* set_priv: the code TLB depends on the privilege only, the data TLBs are not
\* spoken of once MPP has changed under MPRV.
LEMMA SetPrivChecked ==
  ASSUME PmpChecked, NEW p, set_priv(p), UNCHANGED <<mprv, pmp>>
  PROVE  PmpChecked'
<1>1. CASE p # priv
  BY <1>1, FlushChecked DEF set_priv
<1>2. CASE p = priv
  <2> SUFFICES ASSUME NEW acc \in Access, PmpLive(acc)', NEW i \in Index,
                      (tlb[acc][i].vaddr # -1)'
               PROVE  PageOk(tlb[acc][i].page, acc)'
    BY DEF PmpChecked, Index
  <2>1. tlb' = tlb /\ priv' = priv /\ mppStale' = (mppStale \/ (mprv /\ mpp' # mpp))
    BY <1>2 DEF set_priv
  <2>2. PICK page : page = tlb[acc][i].page
    OBVIOUS
  <2>3. PageOk(page, acc)
    BY <2>1, <2>2, Zenon DEF PmpChecked, PmpLive
  <2>4. EffectivePriv(acc)' = EffectivePriv(acc)
    BY <2>1, Zenon DEF EffectivePriv, PmpLive
  <2> QED
    BY <2>1, <2>2, <2>3, <2>4, PageOkKept
<1> QED
  BY <1>1, <1>2

\* A fill of a page all of whose words pass the check.
LEMMA FillChecked ==
  ASSUME TypeOK, PmpChecked, NEW acc \in Access, NEW v \in Pages, NEW page \in Pages,
         Fill(acc, v, page), PageOk(page, acc),
         UNCHANGED <<priv, mprv, mpp, pmp, mppStale>>
  PROVE  PmpChecked'
<1> SUFFICES ASSUME NEW a \in Access, PmpLive(a)', NEW i \in Index,
                    (tlb[a][i].vaddr # -1)'
             PROVE  PageOk(tlb[a][i].page, a)'
  BY DEF PmpChecked, Index
<1>1. Slot(v) \in Index
  BY MmuAssumption DEF Slot, Index
<1>2. tlb' = [tlb EXCEPT ![acc][Slot(v)] = [vaddr |-> v, page |-> page]]
  BY DEF Fill
<1>3. tlb \in [Access -> [Index -> Entry]]
  BY DEF TypeOK
<1>4. EffectivePriv(a)' = EffectivePriv(a)
  BY DEF EffectivePriv
<1>5. CASE a = acc /\ i = Slot(v)
  <2>1. tlb'[a][i].page = page
    BY <1>1, <1>2, <1>3, <1>5
  <2>2. PageOk(page, a)'
    BY <1>4, <1>5, PageOkKept
  <2> QED
    BY <2>1, <2>2
<1>6. CASE ~(a = acc /\ i = Slot(v))
  <2>1. tlb'[a][i] = tlb[a][i]
    BY <1>1, <1>2, <1>3, <1>6
  <2>2. PICK old : old = tlb[a][i].page
    OBVIOUS
  <2>3. PageOk(old, a)
    BY <2>1, <2>2 DEF PmpChecked, PmpLive
  <2>4. PageOk(old, a)'
    BY <1>4, <2>3, PageOkKept
  <2> QED
    BY <2>1, <2>2, <2>4
<1> QED
  BY <1>5, <1>6

\* Every step: what fills a TLB has checked a word of the page, and with it all
\* of them; what changes the registers or the privilege empties the TLBs.
LEMMA NextChecked ==
  ASSUME WholePagePmp, TypeOK, PmpChecked, [Next]_vars
  PROVE  PmpChecked'
<1> USE DEF mstatus
<1>0. 0 \in 0..(Words - 1) /\ Words - 1 \in 0..(Words - 1)
  BY MmuAssumption
<1>1. ASSUME NEW v \in Pages, NEW w \in 0..(Words - 1), NEW acc \in Access, MissAccess(acc, v, w)
      PROVE  PmpChecked'
  <2>1. CASE get_phys_addr(v, acc) \in RamPages
    <3>1. PICK page \in Pages : page = get_phys_addr(v, acc)
      BY <1>1 DEF MissAccess
    <3>2. Fill(acc, v, page) /\ PmpOk(WordOf(page, w), WordOf(page, w), acc)
      BY <1>1, <2>1, <3>1 DEF MissAccess, WordOk
    <3>3. PageOk(page, acc)
      BY <3>2, OneWordForAll DEF PageOk
    <3> QED
      BY <1>1, <3>2, <3>3, FillChecked DEF MissAccess
  <2>2. CASE get_phys_addr(v, acc) \notin RamPages
    BY <1>1, <2>2, PmpKept DEF MissAccess
  <2> QED
    BY <2>1, <2>2
<1>2. ASSUME NEW v \in Pages, NEW w \in 0..(Words - 1), MissFetch(v, w)
      PROVE  PmpChecked'
  <2>a. "X" \in Access
    BY DEF Access
  <2>1. CASE WholePageOk(get_phys_addr(v, "X"))
    <3>1. PICK page \in Pages : page = get_phys_addr(v, "X")
      BY <1>2, MmuAssumption, Zenon DEF MissFetch
    <3>2. Fill("X", v, page) /\ PmpOk(WordOf(page, 0), WordOf(page, Words - 1), "X")
      BY <1>2, <2>1, <3>1 DEF MissFetch, WholePageOk
    <3>3. PageOk(page, "X")
      BY <1>0, <2>a, <3>2, OneWordForAll DEF PageOk
    <3> QED
      BY <1>2, <2>a, <3>2, <3>3, FillChecked DEF MissFetch
  <2>2. CASE ~WholePageOk(get_phys_addr(v, "X"))
    BY <1>2, <2>2, PmpKept DEF MissFetch
  <2> QED
    BY <2>1, <2>2
<1>3. ASSUME NEW v \in Pages, HitFetch(v) PROVE PmpChecked'
  BY <1>3, PmpKept DEF HitFetch, KeepTlb
<1>4. CASE LeavePage
  BY <1>4, PmpKept DEF LeavePage, KeepTlb
<1>5. ASSUME NEW b, NEW p, NEW c, NEW d, NEW e, set_mstatus(b, p, c, d, e)
      PROVE  PmpChecked'
  <2>1. CASE MmuConfigChanges(b, p, c, d)
    BY <1>5, <2>1, FlushChecked DEF set_mstatus
  <2>2. CASE ~MmuConfigChanges(b, p, c, d)
    BY <1>5, <2>2, PmpKept DEF set_mstatus, MmuConfigChanges, KeepTlb
  <2> QED
    BY <2>1, <2>2
<1>6. CASE WriteMstatus \/ WriteSstatus
  BY <1>5, <1>6 DEF WriteMstatus, WriteSstatus
<1>7. CASE WriteSatp \/ WritePmp \/ SfenceVma
  BY <1>7, FlushChecked DEF WriteSatp, WritePmp, SfenceVma
<1>8. CASE WritePte
  BY <1>8, PmpKept DEF WritePte
<1>9. CASE TrapToM \/ TrapToS \/ Mret \/ Sret \/ Dret
  BY <1>9, SetPrivChecked DEF TrapToM, TrapToS, Mret, Sret, Dret
<1>10. CASE UNCHANGED vars
  BY <1>10, PmpKept DEF vars, cached
<1>a. {"R", "W"} \subseteq Access
  BY DEF Access
<1> QED
  BY <1>1, <1>2, <1>3, <1>4, <1>6, <1>7, <1>8, <1>9, <1>10, <1>a DEF Next

--------------------------------------------------------------------------------
(* Theorems. *)

\* The inductive invariant holds in every reachable state.
THEOREM IInvHolds == Spec => []IInv
  BY InitIInv, NextIInv, PTL DEF Spec

\* Every variable keeps its type: in particular no TLB slot ever holds the
\* failure codes of riscv_cpu_get_phys_addr.
THEOREM MmuTypeCorrect == Spec => []TypeOK
<1>1. IInv => TypeOK
  BY DEF IInv
<1> QED
  BY <1>1, IInvHolds, PTL

\* A TLB hit returns what a walk would return now, whatever the page tables, the
\* PMP contents and the size of the TLBs (tlb_flush_all and its callers).
THEOREM TlbCoherence == Spec => []TlbCoherent
<1>1. IInv => TlbCoherent
  BY CoherentIsTlbCoherent DEF IInv
<1> QED
  BY <1>1, IInvHolds, PTL

\* What the interpreter fetches without a look-up is what a walk would give it
\* (code_ptr and code_end of riscv_cpu_interp).
THEOREM WindowCoherence == Spec => []FetchWindowCoherent
<1>1. Init => FetchWindowCoherent
  BY DEF Init, FetchWindowCoherent
<1> QED
  BY <1>1, NextWindow, IInvHolds, PTL DEF Spec

\* With PMP regions of whole pages, no access that hits a TLB reaches a word that
\* the check it skips would refuse ("The TLB partically caches PMP decisions",
\* unpack_pmpaddrs), although the check before a fill is of one word, or of the
\* first region that overlaps the page.
THEOREM TlbPmp == WholePagePmp => (Spec => []TlbRespectsPmp)
<1> SUFFICES ASSUME WholePagePmp PROVE Spec => []TlbRespectsPmp
  OBVIOUS
<1>1. Init => PmpChecked
  BY DEF Init, PmpChecked, EmptyTlb, NoEntry
<1>2. IInv /\ PmpChecked /\ [Next]_vars => PmpChecked'
  BY NextChecked DEF IInv
<1>3. PmpChecked => TlbRespectsPmp
  BY DEF PmpChecked, PmpLive, PageOk, TlbRespectsPmp, Cached
<1> QED
  BY <1>1, <1>2, <1>3, IInvHolds, PTL DEF Spec
================================================================================
