--------------------------- MODULE SoftwareProofs ---------------------------
(***************************************************************************)
(* The tools beside the hardware: the page tables of ptgen.py and the      *)
(* walker that reads them, the traces of trace_gen.py and their replayer,  *)
(* the histograms, the pictures of blood_graph.py, the traces spike2tr.py  *)
(* makes of a log, and the images of nbf.py on their way into the machine, *)
(* each for inputs of any length.                                          *)
(***************************************************************************)
EXTENDS PtWalker, PcHistogram, BloodGraph, SpikeTrace, TraceGen, BootImage,
        SequenceTheorems, FiniteSetTheorems, WellFoundedInduction, TLAPS

(* Arithmetic.                                                             *)

(* A set of natural numbers has a least one.                               *)
LEMMA Least ==
  ASSUME NEW T, T \subseteq Nat, T # {}
  PROVE  \E k \in T : \A j \in T : k <= j
<1>1. IsWellFoundedOn(OpToRel(<, Nat), Nat)
  BY NatLessThanWellFounded
<1>2. PICK k \in T : \A j \in T : <<j, k>> \notin OpToRel(<, Nat)
  BY <1>1, WFMin
<1>3. \A j \in T : ~(j < k)
  BY <1>2 DEF OpToRel
<1>4. QED
  BY <1>3

(* Induction, for a set instead of a predicate: else there would be a      *)
(* least number outside.                                                   *)
LEMMA Induction ==
  ASSUME NEW S, 0 \in S, \A n \in Nat : n \in S => n + 1 \in S
  PROVE  Nat \subseteq S
<1> DEFINE T == Nat \ S
<1>1. SUFFICES ASSUME T # {}
               PROVE  FALSE
  OBVIOUS
<1>2. PICK k \in T : \A j \in T : k <= j
  BY <1>1, Least
<1>3. k \in Nat /\ k # 0 /\ k - 1 \in Nat /\ (k - 1) + 1 = k
  OBVIOUS
<1>4. k - 1 \in S
  BY <1>2, <1>3
<1>5. QED
  BY <1>3, <1>4

(* The first k elements of a sequence have a greatest one.                 *)
HasMax(s, k) == \E i \in 1 .. k : \A j \in 1 .. k : s[j] <= s[i]

(* One more element does not take the maximum away.                        *)
LEMMA MaxGrows ==
  ASSUME NEW s, NEW k \in Nat, \A i \in 1 .. k + 1 : s[i] \in Nat, k = 0 \/ HasMax(s, k)
  PROVE  HasMax(s, k + 1)
<1>1. \A j \in 1 .. k + 1 : j \in 1 .. k \/ j = k + 1
  OBVIOUS
<1>2. k + 1 \in 1 .. k + 1 /\ s[k + 1] <= s[k + 1]
  OBVIOUS
<1>3. CASE k = 0
  BY <1>1, <1>2, <1>3 DEF HasMax
<1>4. CASE HasMax(s, k)
  <2>1. PICK i \in 1 .. k : \A j \in 1 .. k : s[j] <= s[i]
    BY <1>4 DEF HasMax
  <2>2. i \in 1 .. k + 1
    OBVIOUS
  <2>3. CASE s[k + 1] <= s[i]
    BY <1>1, <2>1, <2>2, <2>3 DEF HasMax
  <2>4. CASE ~(s[k + 1] <= s[i])
    <3>1. ASSUME NEW j \in 1 .. k
          PROVE  s[j] <= s[k + 1]
      <4>1. s[j] \in Nat /\ s[i] \in Nat /\ s[k + 1] \in Nat
        BY <2>2
      <4>2. QED
        BY <2>1, <2>4, <4>1
    <3>2. QED
      BY <1>1, <1>2, <3>1 DEF HasMax
  <2>5. QED
    BY <2>3, <2>4
<1>5. QED
  BY <1>3, <1>4

(* A sequence of natural numbers has a greatest element.                   *)
LEMMA Greatest ==
  ASSUME NEW s \in Seq(Nat), s # <<>>
  PROVE  \E i \in DOMAIN s : \A j \in DOMAIN s : s[j] <= s[i]
<1> DEFINE S == {k \in Nat : k = 0 \/ k > Len(s) \/ HasMax(s, k)}
<1>1. Len(s) \in Nat /\ Len(s) # 0 /\ DOMAIN s = 1 .. Len(s) /\ \A i \in 1 .. Len(s) : s[i] \in Nat
  OBVIOUS
<1>2. 0 \in S
  OBVIOUS
<1>3. ASSUME NEW k \in Nat, k \in S
      PROVE  k + 1 \in S
  <2>1. CASE k + 1 > Len(s)
    BY <2>1
  <2>2. CASE k + 1 <= Len(s)
    <3>1. \A i \in 1 .. k + 1 : s[i] \in Nat
      BY <1>1, <2>2
    <3>2. k = 0 \/ HasMax(s, k)
      BY <1>1, <1>3, <2>2
    <3>3. HasMax(s, k + 1)
      BY <3>1, <3>2, MaxGrows
    <3>4. QED
      BY <3>3
  <2>3. QED
    BY <1>1, <2>1, <2>2
<1>4. Nat \subseteq S
  <2> HIDE DEF S
  <2>1. QED
    BY <1>2, <1>3, Induction
<1>5. HasMax(s, Len(s))
  <2>1. Len(s) \in S
    BY <1>1, <1>4
  <2>2. QED
    BY <1>1, <2>1
<1>6. QED
  BY <1>1, <1>5 DEF HasMax

(* The extent of a sequence of natural numbers.                            *)
LEMMA Extent ==
  ASSUME NEW s \in Seq(Nat), s # <<>>,
         NEW S, S = {s[i] : i \in DOMAIN s}
  PROVE  /\ Min(S) \in Nat /\ Max(S) - Min(S) + 1 \in Nat \ {0}
         /\ \A i \in DOMAIN s : Min(S) <= s[i] /\ s[i] < Min(S) + (Max(S) - Min(S) + 1)
<1>1. S \subseteq Nat /\ S # {}
  <2>1. \A i \in DOMAIN s : s[i] \in Nat
    OBVIOUS
  <2>2. 1 \in DOMAIN s
    OBVIOUS
  <2>3. QED
    BY <2>1, <2>2
<1>2. \E x \in S : \A y \in S : x <= y
  BY <1>1, Least
<1>3. \E x \in S : \A y \in S : x >= y
  <2>1. PICK i \in DOMAIN s : \A j \in DOMAIN s : s[j] <= s[i]
    BY Greatest
  <2>2. s[i] \in S /\ \A y \in S : s[i] >= y
    BY <1>1, <2>1
  <2>3. QED
    BY <2>2
<1>4. Min(S) \in S /\ \A y \in S : Min(S) <= y
  BY <1>2 DEF Min
<1>5. Max(S) \in S /\ \A y \in S : Max(S) >= y
  BY <1>3 DEF Max
<1>6. \A i \in DOMAIN s : s[i] \in S
  OBVIOUS
<1> HIDE DEF Min, Max
<1>7. Min(S) \in Nat /\ Max(S) \in Nat /\ Min(S) <= Max(S)
  BY <1>1, <1>4, <1>5
<1>8. ASSUME NEW i \in DOMAIN s
      PROVE  Min(S) <= s[i] /\ s[i] <= Max(S) /\ s[i] \in Nat
  BY <1>1, <1>4, <1>5, <1>6
<1>9. QED
  BY <1>7, <1>8

(* Quotient and remainder.                                                 *)
LEMMA DivMod ==
  ASSUME NEW d \in Nat \ {0}, NEW a \in Nat
  PROVE  /\ a = (a \div d) * d + (a % d)
         /\ a % d \in 0 .. d - 1 /\ a \div d \in Nat
  OBVIOUS
Splits(a, d, q, r) == a \div d = q /\ a % d = r
(* They are the only ones.                                                 *)
LEMMA DivModOf ==
  ASSUME NEW d \in Nat \ {0}, NEW q \in Nat, NEW r \in 0 .. d - 1,
         NEW a, a = q * d + r
  PROVE  Splits(a, d, q, r)
<1>1. (q * d + r) \div d = q
  BY SMTT(20)
<1>2. (q * d + r) % d = r
  BY SMTT(20)
<1>3. QED
  BY <1>1, <1>2, Zenon DEF Splits

(* A pixel is on a floor of the picture and can be read back.              *)
ReadsBack(W, X, Y, c, x, y, e, p) ==
  /\ (p \div (X * Y)) * W + (c % W) = c
  /\ (p % (X * Y)) % X = x
  /\ (p % (X * Y)) \div X = y
  /\ p < ((e + W) \div W) * (2 + X * Y)

(* The cycle and the tile a pixel stands for, back from where it is.       *)
LEMMA Pixel ==
  ASSUME NEW W \in Nat \ {0}, NEW X \in Nat \ {0}, NEW Y \in Nat \ {0},
         NEW c \in Nat, NEW x \in 0 .. X - 1, NEW y \in 0 .. Y - 1,
         NEW e \in Nat, c < e,
         NEW p, p = (c \div W) * X * Y + x + y * X
  PROVE  ReadsBack(W, X, Y, c, x, y, e, p)
<1> DEFINE q == c \div W  n == X * Y  r == y * X + x  f == (e + W) \div W
<1>1. q \in Nat /\ c = q * W + (c % W) /\ c % W \in 0 .. W - 1
  BY DivMod
<1>2. n \in Nat \ {0} /\ r \in 0 .. n - 1
  <2>1. y + 1 <= Y /\ Y \in Nat /\ X \in Nat /\ y \in Nat
    OBVIOUS
  <2>2. y * X + X <= Y * X
    BY <2>1, SMTT(20)
  <2>3. Y * X = n /\ Y * X \in Nat /\ y * X \in Nat
    BY SMTT(20)
  <2>4. QED
    BY <2>2, <2>3
<1>3. p = q * n + r
  <2>1. q * X * Y = q * n
    <3> HIDE DEF q
    <3>1. q \in Nat /\ X \in Nat /\ Y \in Nat
      BY <1>1
    <3>2. q * X * Y = q * (X * Y)
      BY <3>1, SMTT(20)
    <3>3. QED
      BY <3>2
  <2>2. QED
    BY <1>1, <1>2, <2>1
<1>4. p \div n = q /\ p % n = r
  <2> HIDE DEF q, n, r
  <2>1. q \in Nat
    BY <1>1
  <2>2. n \in Nat \ {0}
    BY <1>2
  <2>3. r \in 0 .. n - 1
    BY <1>2
  <2>4. Splits(p, n, q, r)
    BY <2>1, <2>2, <2>3, <1>3, DivModOf
  <2>5. QED
    BY <2>4 DEF Splits
<1>5. r \div X = y /\ r % X = x
  <2> HIDE DEF r
  <2>1. y \in Nat /\ r = y * X + x
    BY DEF r
  <2>2. Splits(r, X, y, x)
    BY <2>1, DivModOf
  <2>3. QED
    BY <2>2 DEF Splits
<1>6. f \in Nat /\ q + 1 <= f
  <2>1. f \in Nat /\ e + W = f * W + ((e + W) % W) /\ (e + W) % W \in 0 .. W - 1
    <3>1. e + W \in Nat
      OBVIOUS
    <3>2. QED
      BY <3>1, DivMod
  <2>2. q * W < f * W
    <3> HIDE DEF q, f
    <3>1. q * W \in Nat /\ f * W \in Nat
      BY <1>1, <2>1
    <3>2. QED
      BY <1>1, <2>1, <3>1
  <2>3. q < f
    <3> HIDE DEF q, f
    <3>1. QED
      BY <1>1, <2>1, <2>2, SMTT(20)
  <2>4. QED
    BY <1>1, <2>1, <2>3
<1>7. p < f * (2 + n)
  <2> HIDE DEF q, n, r, f
  <2>1. (q + 1) * n <= f * n
    BY <1>1, <1>2, <1>6, SMTT(20)
  <2>2. (q + 1) * n = q * n + n /\ q * n \in Nat /\ f * n \in Nat
    BY <1>1, <1>2, <1>6, SMTT(20)
  <2>3. f * (2 + n) = f * n + 2 * f
    BY <1>2, <1>6, SMTT(20)
  <2>4. QED
    BY <1>2, <1>3, <1>6, <2>1, <2>2, <2>3
<1>8. QED
  <2> HIDE DEF q, n, r, f
  <2>1. (p \div n) * W + (c % W) = c
    BY <1>1, <1>4
  <2>2. (p % n) % X = x /\ (p % n) \div X = y
    BY <1>4, <1>5
  <2>3. QED
    BY <1>7, <2>1, <2>2 DEF n, f, ReadsBack

(* Two multiples of a number are at least that number apart.               *)
LEMMA Multiples ==
  ASSUME NEW d \in Nat \ {0}, NEW q \in Nat, NEW p \in Nat, q < p
  PROVE  q * d + d <= p * d /\ q * d \in Nat /\ p * d \in Nat
<1>1. (q + 1) * d <= p * d
  BY SMTT(20)
<1>2. (q + 1) * d = q * d + d
  BY SMTT(20)
<1>3. q * d \in Nat /\ p * d \in Nat
  BY SMTT(20)
<1>4. QED
  BY <1>1, <1>2, <1>3

(* The place of a number in a set of numbers.                              *)
Rank(C, i) == Cardinality({j \in C : j <= i})

(* Places are counted from one.                                            *)
LEMMA RankOne ==
  ASSUME NEW C, C \subseteq Nat, IsFiniteSet(C), NEW i \in C
  PROVE  Rank(C, i) \in 1 .. Cardinality(C)
<1> DEFINE B == {j \in C : j <= i}
<1>1. i \in B /\ B \subseteq C
  OBVIOUS
<1>2. IsFiniteSet(B) /\ Cardinality(B) <= Cardinality(C)
  <2> HIDE DEF B
  <2>1. QED
    BY <1>1, FS_Subset
<1>3. Cardinality(B) \in Nat /\ Cardinality(C) \in Nat /\ Cardinality(B) # 0
  <2> HIDE DEF B
  <2>1. QED
    BY <1>1, <1>2, FS_CardinalityType, FS_EmptySet
<1>4. Rank(C, i) = Cardinality(B)
  BY DEF Rank
<1>5. QED
  <2> HIDE DEF B
  <2>1. QED
    BY <1>2, <1>3, <1>4

(* No two numbers have the same place.                                     *)
LEMMA RankLess ==
  ASSUME NEW C, C \subseteq Nat, IsFiniteSet(C), NEW i \in C, NEW k \in C, i < k
  PROVE  Rank(C, i) # Rank(C, k)
<1> DEFINE A == {j \in C : j <= i}  B == {j \in C : j <= k}
<1>1. A \subseteq B /\ k \in B /\ k \notin A /\ B \subseteq C
  <2>1. i \in Nat /\ k \in Nat /\ \A j \in C : j \in Nat
    OBVIOUS
  <2>2. \A j \in C : j <= i => j <= k
    BY <2>1
  <2>3. k <= k /\ ~(k <= i)
    BY <2>1
  <2>4. QED
    BY <2>2, <2>3
<1>2. Rank(C, i) = Cardinality(A) /\ Rank(C, k) = Cardinality(B)
  BY DEF Rank
<1> HIDE DEF A, B
<1>3. IsFiniteSet(B)
  BY <1>1, FS_Subset
<1>4. QED
  BY <1>1, <1>2, <1>3, FS_Subset

(* The places of the numbers of a set are exactly those up to its size.    *)
LEMMA Ranks ==
  ASSUME NEW C, C \subseteq Nat, IsFiniteSet(C)
  PROVE  /\ Cardinality(C) \in Nat
         /\ \A i \in C : Rank(C, i) \in 1 .. Cardinality(C)
         /\ \A i, k \in C : Rank(C, i) = Rank(C, k) => i = k
         /\ \A n \in 1 .. Cardinality(C) : \E i \in C : Rank(C, i) = n
<1>1. Cardinality(C) \in Nat
  BY FS_CardinalityType
<1>2. \A i \in C : Rank(C, i) \in 1 .. Cardinality(C)
  BY RankOne
<1>3. ASSUME NEW i \in C, NEW k \in C, i # k
      PROVE  Rank(C, i) # Rank(C, k)
  <2>1. i < k \/ k < i
    BY <1>3
  <2>2. QED
    BY <2>1, RankLess
<1>4. \A n \in 1 .. Cardinality(C) : \E i \in C : Rank(C, i) = n
  <2> DEFINE f == [i \in C |-> Rank(C, i)]  T == 1 .. Cardinality(C)
  <2>1. f \in Injection(C, T)
    BY <1>2, <1>3 DEF Injection, IsInjective
  <2>2. IsFiniteSet(T) /\ Cardinality(T) = Cardinality(C)
    <3>1. IsFiniteSet(T) /\ Cardinality(T) = IF 1 > Cardinality(C) THEN 0 ELSE Cardinality(C) - 1 + 1
      BY <1>1, FS_Interval
    <3>2. QED
      BY <1>1, <3>1
  <2>3. f \in Surjection(C, T)
    <3> HIDE DEF f, T
    <3>1. QED
      BY <2>1, <2>2, FS_Injection
  <2>4. \A n \in T : \E i \in C : f[i] = n
    <3> HIDE DEF f, T
    <3>1. QED
      BY <2>3 DEF Surjection
  <2>5. QED
    BY <2>4
<1>5. QED
  BY <1>1, <1>2, <1>3, <1>4

(* A larger number has a later place.                                      *)
LEMMA RankGrows ==
  ASSUME NEW C, C \subseteq Nat, IsFiniteSet(C), NEW i \in C, NEW k \in C, i < k
  PROVE  Rank(C, i) < Rank(C, k)
<1> DEFINE A == {j \in C : j <= i}  B == {j \in C : j <= k}
<1>1. A \subseteq B /\ B \subseteq C
  <2>1. i \in Nat /\ k \in Nat /\ \A j \in C : j \in Nat
    OBVIOUS
  <2>2. \A j \in C : j <= i => j <= k
    BY <2>1
  <2>3. QED
    BY <2>2
<1>2. Rank(C, i) = Cardinality(A) /\ Rank(C, k) = Cardinality(B)
  BY DEF Rank
<1> HIDE DEF A, B
<1>3. Cardinality(A) <= Cardinality(B)
  BY <1>1, FS_Subset
<1>4. Rank(C, i) # Rank(C, k)
  BY RankLess
<1>5. Rank(C, i) \in 1 .. Cardinality(C) /\ Rank(C, k) \in 1 .. Cardinality(C)
  BY Ranks
<1>6. Cardinality(C) \in Nat
  BY Ranks
<1>7. QED
  BY <1>2, <1>3, <1>4, <1>5, <1>6

(* A sequence, of whatever elements.                                       *)
IsSeq(s) == \E S : s \in Seq(S)

----------------------------------------------------------------------------
(* The page-table walker (bp_be_ptw.v), on tables of any content.          *)

(* The table a walk reads at a level, and what it has read before.         *)
TableOf(vpn, level) ==
  IF level = 2 THEN PtRoot ELSE IF level = 1 THEN Entry2(vpn).ppn ELSE Entry1(vpn).ppn
EntryOf(vpn, level) == PteAt(TableOf(vpn, level), vpn, level)
CameThrough(vpn, level) ==
  /\ level # 2 => LeadsOn(Entry2(vpn))
  /\ level = 0 => LeadsOn(Entry1(vpn))

(* While a walk is on, it is at the table its level calls for; the data it *)
(* has received are the entry of that table, the word in the cache still   *)
(* is, and an entry it is about to write to the TLB is a leaf without a    *)
(* fault.                                                                  *)
OnTheWay ==
  wkState # "idle" =>
    /\ wkReq \in PtRequests /\ wkLevel \in 0 .. 2
    /\ CameThrough(wkReq.vpn, wkLevel)
    /\ wkState # "writeback" => wkPpn = TableOf(wkReq.vpn, wkLevel)
    /\ wkState = "recv" /\ wkHit =>
         wkData = EntryOf(wkReq.vpn, wkLevel) /\ wkWord = wkData
    /\ wkState = "writeback" =>
         /\ wkData = EntryOf(wkReq.vpn, wkLevel) /\ wkPpn = wkData.ppn
         /\ IsLeaf(wkData) /\ ~Faults(wkData)

MemTyped ==
  \A page \in DOMAIN ptMem : ptMem[page] \in [0 .. PtFanout - 1 -> Ptes]
WalkInv ==
  /\ MemTyped
  /\ wkState \in {"idle", "send", "wait", "recv", "writeback"}
  /\ wkHit \in BOOLEAN
  /\ wkReq = <<>> => wkFill = NoFill
  /\ OnTheWay
  /\ WalksTranslate

----------------------------------------------------------------------------
(* The fanout, its powers and the parts of a page number.                  *)
LEMMA LowPositive == \A n \in 0 .. 2 : Low(n) \in Nat \ {0}
<1>1. PtFanout \in Nat \ {0}
  BY PtAssumption
<1>2. PtFanout * PtFanout \in Nat \ {0}
  BY <1>1
<1>3. Low(0) = 1 /\ Low(1) = PtFanout /\ Low(2) = PtFanout * PtFanout
  BY DEF Low
<1>4. TAKE n \in 0 .. 2
<1>5. n = 0 \/ n = 1 \/ n = 2
  OBVIOUS
<1>. QED
  BY <1>1, <1>2, <1>3, <1>5

(* A part of a page number selects an entry of a table.                    *)
LEMMA PartInTable ==
  ASSUME NEW vpn \in Nat, NEW n \in 0 .. 2
  PROVE  Part(vpn, n) \in 0 .. PtFanout - 1
<1>1. PtFanout \in Nat \ {0}
  BY PtAssumption
<1>2. Low(n) \in Nat \ {0}
  BY LowPositive
<1>3. vpn \div Low(n) \in Int
  BY <1>2
<1>. QED
  BY <1>1, <1>3 DEF Part

(* What is read from a table, or beside all tables, is an entry.           *)
LEMMA EntryTyped ==
  ASSUME MemTyped, NEW page, NEW vpn \in Nat, NEW n \in 0 .. 2
  PROVE  PteAt(page, vpn, n) \in Ptes
<1>1. NoPte \in Ptes
  BY DEF NoPte, Pte, Ptes
<1>2. ASSUME page \in DOMAIN ptMem
      PROVE  ptMem[page][Part(vpn, n)] \in Ptes
  BY <1>2, PartInTable DEF MemTyped
<1>. QED
  BY <1>1, <1>2 DEF PteAt

(* A leaf faults unless it is valid, aligned and allows the access.        *)
LEMMA LeafVerdict ==
  ASSUME NEW pte \in Ptes, IsLeaf(pte), wkReq \in PtRequests
  PROVE  Faults(pte) <=> ~(/\ pte.v /\ (pte.w => pte.r)
                           /\ pte.ppn % Low(wkLevel) = 0 /\ Allows(pte, wkReq))
<1>1. /\ wkReq.kind \in {"instr", "load", "store"} /\ wkReq.mode \in {"S", "U"}
      /\ wkReq.sum \in BOOLEAN /\ wkReq.mxr \in BOOLEAN
  BY RequestsAssumption
<1>2. /\ pte.v \in BOOLEAN /\ pte.x \in BOOLEAN /\ pte.w \in BOOLEAN /\ pte.r \in BOOLEAN
      /\ pte.u \in BOOLEAN /\ pte.a \in BOOLEAN /\ pte.d \in BOOLEAN
  BY DEF Ptes
<1>. QED
  BY <1>1, <1>2 DEF Faults, CommonFaults, Allows, IsLeaf

(* Where the walk of a page ends.                                          *)
LEMMA EndOfWay ==
  ASSUME NEW vpn, NEW n \in 0 .. 2, CameThrough(vpn, n),
         n = 0 \/ ~LeadsOn(EntryOf(vpn, n))
  PROVE  EndLevel(vpn) = n /\ EndPte(vpn) = EntryOf(vpn, n)
<1>1. CASE n = 2
  BY <1>1 DEF EndLevel, EndPte, EntryOf, TableOf, Entry2
<1>2. CASE n = 1
  BY <1>2 DEF EndLevel, EndPte, EntryOf, TableOf, CameThrough, Entry1
<1>3. CASE n = 0
  BY <1>3 DEF EndLevel, EndPte, EntryOf, TableOf, CameThrough, Entry0
<1>. QED
  BY <1>1, <1>2, <1>3

----------------------------------------------------------------------------
(* An entry that faults is the end of the way, and not a page.             *)
LEMMA FaultTranslates ==
  ASSUME WalkInv, wkState = "recv", wkHit, Faults(wkData)
  PROVE  Translation(wkReq) = PageFault
<1>. DEFINE vpn == wkReq.vpn
<1>1. /\ wkReq \in PtRequests /\ wkLevel \in 0 .. 2 /\ CameThrough(vpn, wkLevel)
      /\ wkData = EntryOf(vpn, wkLevel)
  BY DEF WalkInv, OnTheWay
<1>2. vpn \in Nat
  BY <1>1, RequestsAssumption
<1>3. wkData \in Ptes
  BY <1>1, <1>2, EntryTyped DEF WalkInv, EntryOf
<1>4. CASE IsLeaf(wkData)
  <2>1. EndLevel(vpn) = wkLevel /\ EndPte(vpn) = wkData
    BY <1>1, <1>4, EndOfWay DEF LeadsOn
  <2>2. ~(/\ wkData.v /\ (wkData.w => wkData.r)
          /\ wkData.ppn % Low(wkLevel) = 0 /\ Allows(wkData, wkReq))
    BY <1>1, <1>3, <1>4, LeafVerdict
  <2>. QED
    BY <2>1, <2>2 DEF Translation
<1>5. CASE ~IsLeaf(wkData)
  <2>1. ~wkData.v \/ wkLevel = 0
    BY <1>3, <1>5 DEF Faults, CommonFaults, IsLeaf, Ptes
  <2>2. EndPte(vpn) = wkData
    BY <1>1, <2>1, EndOfWay DEF LeadsOn
  <2>. QED
    BY <2>2, <1>5 DEF Translation
<1>. QED
  BY <1>4, <1>5

(* What is written to the TLB is the page of the leaf the way ends at.     *)
LEMMA FillTranslates ==
  ASSUME WalkInv, wkState = "writeback"
  PROVE  Translation(wkReq) = Fill("page", Merged(wkPpn, wkReq.vpn, wkLevel), Rights(wkData))
<1>. DEFINE vpn == wkReq.vpn
<1>1. /\ wkReq \in PtRequests /\ wkLevel \in 0 .. 2 /\ CameThrough(vpn, wkLevel)
      /\ wkData = EntryOf(vpn, wkLevel) /\ wkPpn = wkData.ppn
      /\ IsLeaf(wkData) /\ ~Faults(wkData)
  BY DEF WalkInv, OnTheWay
<1>2. vpn \in Nat
  BY <1>1, RequestsAssumption
<1>3. wkData \in Ptes
  BY <1>1, <1>2, EntryTyped DEF WalkInv, EntryOf
<1>4. EndLevel(vpn) = wkLevel /\ EndPte(vpn) = wkData
  BY <1>1, EndOfWay DEF LeadsOn
<1>5. /\ wkData.v /\ (wkData.w => wkData.r)
      /\ wkData.ppn % Low(wkLevel) = 0 /\ Allows(wkData, wkReq)
  BY <1>1, <1>3, LeafVerdict
<1>6. Translation(wkReq) = Fill("page", wkData.ppn + (vpn % Low(wkLevel)), Rights(wkData))
  BY <1>1, <1>4, <1>5 DEF Translation
<1>7. Merged(wkPpn, vpn, wkLevel) = wkData.ppn + (vpn % Low(wkLevel))
  <2>1. Low(wkLevel) \in Nat \ {0}
    BY <1>1, LowPositive
  <2>2. wkData.ppn \in Nat
    BY <1>3 DEF Ptes
  <2>3. vpn % Low(wkLevel) \in Nat
    BY <1>2, <2>1
  <2>. QED
    BY <1>1, <1>5, <2>1, <2>2, <2>3 DEF Merged
<1>. QED
  BY <1>6, <1>7

(* No walk has begun.                                                      *)
LEMMA WalkInitInv == ptMem \in PtOthers /\ WkInit => WalkInv
  BY OthersAssumption DEF WkInit, WalkInv, MemTyped, OnTheWay, WalksTranslate, NoFill

(* A request is not the absence of one.                                    *)
LEMMA RequestIsOne == \A req \in PtRequests : req # <<>>
<1>. SUFFICES ASSUME NEW req \in PtRequests
              PROVE  req # <<>>
  OBVIOUS
<1>1. "vpn" \in DOMAIN req
  BY RequestsAssumption
<1>2. DOMAIN <<>> = {}
  OBVIOUS
<1>. QED
  BY <1>1, <1>2

(* What a walk finds depends on the tables alone.                          *)
LEMMA TablesStay ==
  ASSUME ptMem' = ptMem
  PROVE  /\ \A vpn, n : TableOf(vpn, n)' = TableOf(vpn, n)
         /\ \A vpn, n : EntryOf(vpn, n)' = EntryOf(vpn, n)
         /\ \A vpn, n : CameThrough(vpn, n)' = CameThrough(vpn, n)
  BY DEF TableOf, EntryOf, CameThrough, LeadsOn, IsLeaf, Entry2, Entry1, PteAt, Part

(* And so does the translation of a request.                               *)
LEMMA TranslationStays ==
  ASSUME ptMem' = ptMem, wkReq' = wkReq
  PROVE  Translation(wkReq)' = Translation(wkReq)
  BY DEF Translation, EndPte, EndLevel, LeadsOn, Entry2, Entry1, Entry0, PteAt, Part,
         IsLeaf, Allows, Fill, PageFault, Low

(* The actions that keep the request and the fill keep the translation.    *)
LEMMA TranslatesStays ==
  ASSUME WalksTranslate, ptMem' = ptMem, wkReq' = wkReq, wkFill' = wkFill
  PROVE  WalksTranslate'
  BY TranslationStays DEF WalksTranslate, NoFill, Fill

(* An entry that is neither a fault nor a leaf leads to the next table.    *)
LEMMA NextTable ==
  ASSUME WalkInv, wkState = "recv", wkHit, ~Faults(wkData), ~IsLeaf(wkData)
  PROVE  /\ (wkLevel - 1) % 4 \in 0 .. 2
         /\ CameThrough(wkReq.vpn, (wkLevel - 1) % 4)
         /\ wkData.ppn = TableOf(wkReq.vpn, (wkLevel - 1) % 4)
<1>. DEFINE vpn == wkReq.vpn
<1>1. /\ wkLevel \in 0 .. 2 /\ CameThrough(vpn, wkLevel)
      /\ wkData = EntryOf(vpn, wkLevel)
  BY DEF WalkInv, OnTheWay
<1>2. wkLevel # 0 /\ LeadsOn(wkData)
  BY DEF Faults, CommonFaults, LeadsOn
<1>3. CASE wkLevel = 2
  BY <1>1, <1>2, <1>3 DEF EntryOf, TableOf, CameThrough, Entry2
<1>4. CASE wkLevel = 1
  BY <1>1, <1>2, <1>4 DEF EntryOf, TableOf, CameThrough, Entry1
<1>. QED
  BY <1>1, <1>2, <1>3, <1>4

(* A step of the walker keeps it on the way.                               *)
LEMMA WalkStepInv == WalkInv /\ [WkNext]_<<ptVars, wkVars>> => WalkInv'
<1>. SUFFICES ASSUME WalkInv, [WkNext]_<<ptVars, wkVars>>
              PROVE  WalkInv'
  OBVIOUS
<1>1. ptMem' = ptMem
  BY DEF WkNext, Start, ReadPte, WaitHit, WaitMiss, RecvRetry, RecvPte, WriteBack,
         ptVars, wkVars
<1>0. MemTyped'
  BY <1>1 DEF WalkInv, MemTyped
<1>2. ASSUME NEW req \in PtRequests, Start(req)
      PROVE  WalkInv'
  <2>1. wkFill = NoFill /\ wkFill' = wkFill /\ wkReq' = req
    BY <1>2 DEF Start, WalkInv
  <2>2. WalksTranslate'
    BY <2>1 DEF WalksTranslate, NoFill, Fill
  <2>3. OnTheWay'
    <3>1. CameThrough(req.vpn, 2)' /\ PtRoot = TableOf(req.vpn, 2)'
      BY DEF CameThrough, TableOf
    <3>. QED
      BY <1>2, <3>1 DEF Start, OnTheWay, Depth
  <2>. QED
    BY <1>0, <1>1, <1>2, <2>1, <2>2, <2>3 DEF Start, WalkInv, NoFill, Fill
<1>3. CASE ReadPte
  <2>1. WalksTranslate'
    BY <1>1, <1>3, TranslatesStays DEF ReadPte, WalkInv
  <2>2. OnTheWay'
    BY <1>1, <1>3, TablesStay DEF ReadPte, WalkInv, OnTheWay
  <2>. QED
    BY <1>0, <1>1, <1>3, <2>1, <2>2 DEF ReadPte, WalkInv, NoFill, Fill
<1>4. CASE WaitHit
  <2>1. WalksTranslate'
    BY <1>1, <1>4, TranslatesStays DEF WaitHit, WalkInv
  <2>2. OnTheWay'
    <3>1. wkData' = EntryOf(wkReq.vpn, wkLevel) /\ wkWord' = wkData'
      BY <1>4 DEF WaitHit, WalkInv, OnTheWay, EntryOf
    <3>. QED
      BY <1>1, <1>4, <3>1, TablesStay DEF WaitHit, WalkInv, OnTheWay
  <2>. QED
    BY <1>0, <1>1, <1>4, <2>1, <2>2 DEF WaitHit, WalkInv, NoFill, Fill
<1>5. CASE WaitMiss
  <2>1. WalksTranslate'
    BY <1>1, <1>5, TranslatesStays DEF WaitMiss, WalkInv
  <2>2. OnTheWay'
    BY <1>1, <1>5, TablesStay DEF WaitMiss, WalkInv, OnTheWay
  <2>. QED
    BY <1>0, <1>1, <1>5, <2>1, <2>2 DEF WaitMiss, WalkInv, NoFill, Fill
<1>6. CASE RecvRetry
  <2>1. WalksTranslate'
    BY <1>1, <1>6, TranslatesStays DEF RecvRetry, WalkInv
  <2>2. OnTheWay'
    BY <1>1, <1>6, TablesStay DEF RecvRetry, WalkInv, OnTheWay
  <2>. QED
    BY <1>0, <1>1, <1>6, <2>1, <2>2 DEF RecvRetry, WalkInv, NoFill, Fill
<1>7. CASE RecvPte
  <2>1. wkReq \in PtRequests /\ wkReq # <<>> /\ wkReq' = wkReq
    BY <1>7, RequestIsOne DEF RecvPte, WalkInv, OnTheWay
  <2>2. CASE Faults(wkData)
    <3>1. wkState' = "idle" /\ wkFill' = PageFault /\ wkHit' = FALSE
      BY <1>7, <2>2 DEF RecvPte
    <3>2. Translation(wkReq)' = PageFault
      BY <1>1, <1>7, <2>1, <2>2, FaultTranslates, TranslationStays DEF RecvPte
    <3>3. WalksTranslate'
      BY <3>1, <3>2 DEF WalksTranslate, PageFault, Fill
    <3>. QED
      BY <1>0, <1>1, <2>1, <3>1, <3>3 DEF WalkInv, OnTheWay
  <2>3. CASE ~Faults(wkData) /\ IsLeaf(wkData)
    <3>1. /\ wkState' = "writeback" /\ wkLevel' = wkLevel /\ wkPpn' = wkData.ppn
          /\ wkData' = wkData /\ wkFill' = wkFill /\ wkHit' = FALSE
      BY <1>7, <2>3 DEF RecvPte, WalkInv, OnTheWay
    <3>2. WalksTranslate'
      BY <1>1, <2>1, <3>1, TranslatesStays DEF WalkInv
    <3>3. Faults(wkData)' <=> Faults(wkData)
      BY <2>1, <3>1 DEF Faults, CommonFaults, IsLeaf, Low
    <3>4. OnTheWay'
      BY <1>1, <1>7, <2>1, <2>3, <3>1, <3>3, TablesStay
         DEF RecvPte, WalkInv, OnTheWay, IsLeaf
    <3>. QED
      BY <1>0, <1>1, <2>1, <3>1, <3>2, <3>4 DEF WalkInv
  <2>4. CASE ~Faults(wkData) /\ ~IsLeaf(wkData)
    <3>1. /\ wkState' = "send" /\ wkLevel' = (wkLevel - 1) % 4 /\ wkPpn' = wkData.ppn
          /\ wkFill' = wkFill /\ wkHit' = FALSE
      BY <1>7, <2>4 DEF RecvPte
    <3>2. WalksTranslate'
      BY <1>1, <2>1, <3>1, TranslatesStays DEF WalkInv
    <3>3. OnTheWay'
      <4>1. /\ wkLevel' \in 0 .. 2 /\ CameThrough(wkReq.vpn, wkLevel')
            /\ wkPpn' = TableOf(wkReq.vpn, wkLevel')
        BY <1>7, <2>4, <3>1, NextTable DEF RecvPte
      <4>. QED
        BY <1>1, <2>1, <3>1, <4>1, TablesStay DEF OnTheWay
    <3>. QED
      BY <1>0, <1>1, <2>1, <3>1, <3>2, <3>3 DEF WalkInv
  <2>. QED
    BY <2>2, <2>3, <2>4
<1>8. CASE WriteBack
  <2>1. wkReq \in PtRequests /\ wkReq # <<>> /\ wkReq' = wkReq
    BY <1>8, RequestIsOne DEF WriteBack, WalkInv, OnTheWay
  <2>2. WalksTranslate'
    BY <1>1, <1>8, <2>1, FillTranslates, TranslationStays DEF WriteBack, WalksTranslate
  <2>. QED
    BY <1>0, <1>1, <1>8, <2>1, <2>2 DEF WriteBack, WalkInv, OnTheWay
<1>9. CASE UNCHANGED <<ptVars, wkVars>>
  <2>1. /\ wkReq' = wkReq /\ wkFill' = wkFill /\ wkState' = wkState /\ wkLevel' = wkLevel
        /\ wkPpn' = wkPpn /\ wkData' = wkData /\ wkHit' = wkHit /\ wkWord' = wkWord
    BY <1>9 DEF wkVars
  <2>2. WalksTranslate'
    BY <1>1, <2>1, TranslatesStays DEF WalkInv
  <2>3. Faults(wkData)' <=> Faults(wkData)
    BY <2>1 DEF Faults, CommonFaults, IsLeaf, Low
  <2>4. OnTheWay'
    BY <1>1, <2>1, <2>3, TablesStay DEF WalkInv, OnTheWay, IsLeaf
  <2>. QED
    BY <1>0, <1>1, <2>1, <2>2, <2>4 DEF WalkInv, NoFill, Fill
<1>. QED
  BY <1>2, <1>3, <1>4, <1>5, <1>6, <1>7, <1>8, <1>9 DEF WkNext

(* However often the data cache misses, a walk ends with the page and the  *)
(* rights the tables state, or with a page fault where they state none:    *)
(* for tables of any content, of any fanout, at any place in memory.       *)
THEOREM WalksCorrect == WalkSpec => []WalksTranslate
<1>1. WalkInv => WalksTranslate
  BY DEF WalkInv
<1>. QED
  BY <1>1, WalkInitInv, WalkStepInv, PTL DEF WalkSpec

----------------------------------------------------------------------------
(* The page tables of ptgen.py, and the walker on them.                    *)

(* The digits of a page number.                                            *)
Page(b, j, t) == b * Low(2) + j * PtFanout + t
Digit == 0 .. PtFanout - 1

(* The pages below an entry, by level.                                     *)
LEMMA LowIs ==
  /\ Low(0) = 1 /\ Low(1) = PtFanout /\ Low(2) = PtFanout * PtFanout
  /\ PtFanout \in Nat \ {0} /\ Low(2) \in Nat \ {0}
  /\ Span(0) = Low(2) /\ Span(1) = PtFanout /\ Span(2) = 1
<1>1. PtFanout \in Nat \ {0}
  BY PtAssumption
<1>2. Low(0) = 1 /\ Low(1) = PtFanout /\ Low(2) = PtFanout * PtFanout
  BY DEF Low
<1>3. Span(0) = Low(2) /\ Span(1) = Low(1) /\ Span(2) = Low(0)
  BY DEF Span, Depth
<1>4. Low(2) \in Nat \ {0}
  BY LowPositive
<1>5. QED
  BY <1>1, <1>2, <1>3, <1>4

(* A page of a table of the last level: its number, and how it is parted.  *)
LEMMA PageIs ==
  ASSUME NEW b \in Digit, NEW j \in Digit, NEW t \in Digit
  PROVE  /\ Page(b, j, t) \in Nat
         /\ Page(b, j, t) \div Low(2) = b /\ Page(b, j, t) % Low(2) = j * PtFanout + t
         /\ Page(b, j, t) \div PtFanout = b * PtFanout + j /\ Page(b, j, t) % PtFanout = t
         /\ Part(Page(b, j, t), 2) = b /\ Part(Page(b, j, t), 1) = j
         /\ Part(Page(b, j, t), 0) = t
         /\ j * PtFanout + PtFanout <= Low(2)
<1> DEFINE F == PtFanout  p == Page(b, j, t)  r == j * F + t  q == b * F + j
<1>1. F \in Nat \ {0} /\ Low(2) = F * F /\ Low(2) \in Nat \ {0} /\ Low(1) = F /\ Low(0) = 1
  BY LowIs
<1>2. b \in 0 .. F - 1 /\ j \in 0 .. F - 1 /\ t \in 0 .. F - 1
  BY DEF Digit
<1> HIDE DEF F
<1>3. j * F + F <= Low(2) /\ j * F \in Nat
  <2>1. j \in Nat /\ F \in Nat /\ j < F
    BY <1>1, <1>2
  <2>2. QED
    BY <1>1, <2>1, Multiples
<1>4. r \in 0 .. Low(2) - 1
  BY <1>1, <1>2, <1>3
<1>5. p = b * Low(2) + r /\ p \in Nat
  <2>1. b * Low(2) \in Nat
    BY <1>1, <1>2
  <2>2. p = b * Low(2) + j * F + t
    BY DEF Page, F
  <2>3. QED
    BY <1>1, <1>2, <1>3, <2>1, <2>2
<1>6. p \div Low(2) = b /\ p % Low(2) = r
  <2>1. b \in Nat
    BY <1>1, <1>2
  <2> HIDE DEF r, p
  <2>2. Splits(p, Low(2), b, r)
    BY <1>1, <1>4, <1>5, <2>1, DivModOf
  <2>3. QED
    BY <2>2 DEF Splits
<1>7. q \in Nat /\ p = q * F + t
  <2>1. b * Low(2) = (b * F) * F /\ b * F \in Nat
    <3>1. b \in Nat
      BY <1>1, <1>2
    <3>2. b * (F * F) = (b * F) * F
      BY <1>1, <3>1, SMTT(20)
    <3>3. QED
      BY <1>1, <3>1, <3>2
  <2>2. (b * F + j) * F = (b * F) * F + j * F
    <3> DEFINE x == b * F
    <3>1. x \in Nat /\ j \in Nat
      BY <1>1, <1>2, <2>1
    <3> HIDE DEF x
    <3>2. (x + j) * F = x * F + j * F
      BY <1>1, <3>1, SMTT(20)
    <3>3. QED
      BY <3>2 DEF x
  <2>3. q \in Nat
    BY <1>1, <1>2, <2>1
  <2>4. QED
    BY <1>1, <1>2, <1>3, <1>5, <2>1, <2>2, <2>3
<1>8. p \div F = q /\ p % F = t
  <2> HIDE DEF q, p
  <2>1. Splits(p, F, q, t)
    BY <1>1, <1>2, <1>7, DivModOf
  <2>2. QED
    BY <2>1 DEF Splits
<1>9. q % F = j
  <2> HIDE DEF q
  <2>1. b \in Nat /\ q = b * F + j
    BY <1>1, <1>2 DEF q
  <2>2. Splits(q, F, b, j)
    BY <1>1, <1>2, <2>1, DivModOf
  <2>3. QED
    BY <2>2 DEF Splits
<1>10. b % F = b
  BY <1>1, <1>2
<1>11. Part(p, 2) = b /\ Part(p, 1) = j /\ Part(p, 0) = t
  <2> HIDE DEF p, q
  <2>1. Part(p, 2) = (p \div Low(2)) % F /\ Part(p, 1) = (p \div F) % F
    BY <1>1 DEF Part, F
  <2>2. Part(p, 0) = (p \div 1) % F
    BY <1>1 DEF Part, F
  <2>3. p \div 1 = p
    BY <1>5
  <2>4. QED
    BY <1>6, <1>8, <1>9, <1>10, <2>1, <2>2, <2>3
<1>12. QED
  BY <1>3, <1>5, <1>6, <1>8, <1>11 DEF F

(* Every page number of the address space has three digits.                *)
LEMMA Digits ==
  ASSUME NEW vpn \in Nat, vpn < PtFanout * Low(2)
  PROVE  \E b, j, t \in Digit : vpn = Page(b, j, t)
<1> DEFINE F == PtFanout  q == vpn \div F  t == vpn % F  b == q \div F  j == q % F
<1>1. F \in Nat \ {0} /\ Low(2) = F * F /\ Low(2) \in Nat \ {0}
  BY LowIs
<1> HIDE DEF F
<1>2. vpn = q * F + t /\ t \in 0 .. F - 1 /\ q \in Nat
  BY <1>1, DivMod
<1>3. q = b * F + j /\ j \in 0 .. F - 1 /\ b \in Nat
  <2> HIDE DEF q
  <2>1. QED
    BY <1>1, <1>2, DivMod
<1>4. b < F
  <2> HIDE DEF b, j, t, q
  <2>1. q < F * F
    <3>1. SUFFICES ASSUME q >= F * F
                   PROVE  FALSE
      BY <1>1, <1>2
    <3>2. q * F >= (F * F) * F
      <4> DEFINE x == F * F
      <4>1. x \in Nat /\ q >= x
        BY <1>1, <3>1
      <4> HIDE DEF x
      <4>2. q * F >= x * F
        BY <1>1, <1>2, <4>1, SMTT(20)
      <4>3. QED
        BY <4>2 DEF x
    <3>3. vpn < F * (F * F) /\ F * (F * F) = (F * F) * F
      <4>1. F * (F * F) = (F * F) * F
        <5> DEFINE x == F * F
        <5>1. x \in Nat
          BY <1>1
        <5> HIDE DEF x
        <5>2. F * x = x * F
          BY <1>1, <5>1, SMTT(20)
        <5>3. QED
          BY <5>2 DEF x
      <4>2. QED
        BY <1>1, <4>1 DEF F
    <3>4. q * F \in Nat /\ (F * F) * F \in Nat
      BY <1>1, <1>2
    <3>5. QED
      BY <1>1, <1>2, <3>2, <3>3, <3>4
  <2>2. SUFFICES ASSUME b >= F
                 PROVE  FALSE
    BY <1>1, <1>3
  <2>3. b * F >= F * F /\ b * F \in Nat /\ F * F \in Nat
    BY <1>1, <1>3, <2>2, SMTT(20)
  <2>4. QED
    BY <1>1, <1>3, <2>1, <2>3
<1>5. b * Low(2) + j * F = q * F
  <2> HIDE DEF b, j, q, t
  <2>1. (b * F + j) * F = (b * F) * F + j * F
    <3> DEFINE x == b * F
    <3>1. x \in Nat /\ j \in Nat
      BY <1>1, <1>3
    <3> HIDE DEF x
    <3>2. (x + j) * F = x * F + j * F
      BY <1>1, <3>1, SMTT(20)
    <3>3. QED
      BY <3>2 DEF x
  <2>2. b * (F * F) = (b * F) * F
    BY <1>1, <1>3, SMTT(20)
  <2>3. QED
    BY <1>1, <1>3, <2>1, <2>2
<1>6. vpn = Page(b, j, t)
  <2> HIDE DEF b, j, q, t
  <2>1. QED
    BY <1>2, <1>5 DEF Page, F
<1>7. b \in Digit /\ j \in Digit /\ t \in Digit
  <2> HIDE DEF b, j, q, t
  <2>1. QED
    BY <1>1, <1>2, <1>3, <1>4 DEF Digit, F
<1>8. QED
  BY <1>6, <1>7

----------------------------------------------------------------------------
(* The sections.                                                           *)
Good == ptSecs \in PtSections /\ ptSecs # <<>> /\ Supported

(* The numbers of the tables that map a section, from the root down.       *)
Mid == ptSecs[1].start \div Low(2)
Num(i) == (ptSecs[i].start \div PtFanout) % PtFanout
Nums == {Num(i) : i \in DOMAIN ptSecs}

(* What the assumption on the sections says of those in use.               *)
LEMMA GoodSecs ==
  ASSUME Good
  PROVE  /\ Len(ptSecs) \in Nat \ {0} /\ DOMAIN ptSecs = 1 .. Len(ptSecs)
         /\ 1 \in DOMAIN ptSecs
         /\ \A i \in DOMAIN ptSecs :
              /\ ptSecs[i].start \in Nat /\ ptSecs[i].size \in Nat \ {0}
              /\ ptSecs[i].start + ptSecs[i].size <= PtFanout * Low(2)
              /\ ptSecs[i].start < PtFanout * Low(2)
<1>1. ptSecs \in Seq(ToSet(ptSecs)) /\ ptSecs # <<>>
  BY SectionsAssumption DEF Good
<1>2. Len(ptSecs) \in Nat \ {0} /\ DOMAIN ptSecs = 1 .. Len(ptSecs)
  BY <1>1
<1>3. \A i \in DOMAIN ptSecs :
        /\ ptSecs[i].start \in Nat /\ ptSecs[i].size \in Nat \ {0}
        /\ ptSecs[i].start + ptSecs[i].size <= PtFanout * Low(2)
  BY SectionsAssumption DEF Good
<1>4. PtFanout * Low(2) \in Nat
  <2>1. PtFanout \in Nat /\ Low(2) \in Nat
    BY LowIs
  <2>2. QED
    BY <2>1
<1>5. \A i \in DOMAIN ptSecs : ptSecs[i].start < PtFanout * Low(2)
  <2> DEFINE top == PtFanout * Low(2)
  <2>1. TAKE i \in DOMAIN ptSecs
  <2>2. ptSecs[i].start \in Nat /\ ptSecs[i].size \in Nat \ {0} /\ ptSecs[i].start + ptSecs[i].size <= top
    BY <1>3
  <2>3. top \in Nat
    BY <1>4
  <2> HIDE DEF top
  <2>4. ptSecs[i].start < top
    BY <2>2, <2>3
  <2>5. QED
    BY <2>4 DEF top
<1>6. QED
  BY <1>2, <1>3, <1>5

(* A section lies in its table of the last level.                          *)
LEMMA SectionIs ==
  ASSUME Good, NEW i \in DOMAIN ptSecs
  PROVE  /\ Mid \in Digit /\ Num(i) \in Digit
         /\ TableVpn(i, 1) = Page(Mid, 0, 0) /\ TableVpn(i, 2) = Page(Mid, Num(i), 0)
         /\ Page(Mid, Num(i), 0) <= ptSecs[i].start
         /\ ptSecs[i].start + ptSecs[i].size <= Page(Mid, Num(i), 0) + PtFanout
<1> DEFINE s == ptSecs[i].start  z == ptSecs[i].size  F == PtFanout  e == s + z - 1
<1>1. s \in Nat /\ z \in Nat \ {0} /\ s < F * Low(2) /\ 1 \in DOMAIN ptSecs
  BY GoodSecs
<1>2. F \in Nat \ {0} /\ 0 \in Digit /\ Low(2) \in Nat \ {0}
  BY LowIs DEF Digit
<1>3. PICK b \in Digit, j \in Digit, t \in Digit : s = Page(b, j, t)
  BY <1>1, Digits
<1>4. /\ s \div Low(2) = b /\ s % Low(2) = j * F + t /\ s \div F = b * F + j /\ s % F = t
      /\ Part(s, 1) = j
  BY <1>3, PageIs
<1>5. Mid = b
  <2>1. s \div Low(2) = ptSecs[1].start \div Low(2)
    BY DEF Good, Supported
  <2>2. QED
    BY <1>4, <2>1 DEF Mid
<1>6. Num(i) = j
  BY <1>4, LowIs DEF Num, Part
<1>7. b * Low(2) \in Nat /\ j * F \in Nat /\ t \in 0 .. F - 1
  BY <1>2 DEF Digit
<1>8. Page(b, 0, 0) = b * Low(2) /\ Page(b, j, 0) = b * Low(2) + j * F /\ s = b * Low(2) + j * F + t
  BY <1>2, <1>3, <1>7 DEF Page
<1>9. TableVpn(i, 1) = s - (s % Low(2)) /\ TableVpn(i, 2) = s - (s % F)
  BY LowIs DEF TableVpn
<1>10. TableVpn(i, 1) = Page(b, 0, 0) /\ TableVpn(i, 2) = Page(b, j, 0) /\ Page(b, j, 0) <= s
  <2> HIDE DEF s, F
  <2>1. QED
    BY <1>4, <1>7, <1>8, <1>9
<1>11. s + z <= Page(b, j, 0) + F
  <2>1. s \div F = e \div F
    BY DEF Good, Supported
  <2>2. e \in Nat /\ e = (e \div F) * F + (e % F) /\ e % F \in 0 .. F - 1
    <3>1. e \in Nat
      BY <1>1
    <3> HIDE DEF e, F
    <3>2. QED
      BY <1>2, <3>1, DivMod
  <2>3. (e \div F) * F = Page(b, j, 0)
    <3>1. s = (s \div F) * F + (s % F)
      <4> HIDE DEF s, F
      <4>1. QED
        BY <1>1, <1>2, DivMod
    <3>2. (s \div F) * F \in Nat
      <4> HIDE DEF s, F
      <4>1. s \div F \in Nat
        BY <1>1, <1>2, DivMod
      <4>2. QED
        BY <1>2, <4>1
    <3> HIDE DEF s, F, e
    <3>3. QED
      BY <1>4, <1>7, <1>8, <2>1, <3>1, <3>2
  <2>4. e < Page(b, j, 0) + F
    <3> HIDE DEF e, F, s
    <3>1. QED
      BY <1>2, <1>7, <1>8, <2>2, <2>3
  <2>5. Page(b, j, 0) \in Nat
    BY <1>2, PageIs
  <2>6. QED
    <3> DEFINE p == Page(b, j, 0)
    <3> HIDE DEF p
    <3>1. e < p + F /\ p \in Nat
      BY <2>4, <2>5 DEF p
    <3>2. s + z <= p + F
      BY <1>1, <1>2, <3>1
    <3>3. QED
      BY <3>2 DEF p
<1>12. QED
  BY <1>3, <1>5, <1>6, <1>10, <1>11

(* What is within the reach of a section at each level.                    *)
LEMMA Reach ==
  ASSUME Good
  PROVE  /\ \A k \in Digit : Touches(k * Low(2), 0) <=> k = Mid
         /\ \A k \in Digit : Touches(Page(Mid, k, 0), 1) <=> k \in Nums
         /\ \A k \in Digit : \A t \in Digit : Touches(Page(Mid, k, t), 2) <=> Mapped(Page(Mid, k, t))
         /\ \A b, k, t \in Digit : Mapped(Page(b, k, t)) => b = Mid /\ k \in Nums
         /\ Nums \subseteq Digit /\ Mid \in Digit
<1> DEFINE F == PtFanout  s(i) == ptSecs[i].start  z(i) == ptSecs[i].size  L == Low(2)
           p(i) == Page(Mid, Num(i), 0)
<1>1. ASSUME NEW i \in DOMAIN ptSecs
      PROVE  /\ s(i) \in Nat /\ z(i) \in Nat \ {0} /\ Num(i) \in Digit
             /\ p(i) <= s(i) /\ s(i) + z(i) <= p(i) + F
  BY SectionIs, GoodSecs
<1>2. F \in Nat \ {0} /\ L \in Nat \ {0} /\ 0 \in Digit
  BY LowIs DEF Digit
<1>3. Mid \in Digit /\ Nums \subseteq Digit
  BY <1>1, GoodSecs, SectionIs DEF Nums
<1>4. \A b, k, t \in Digit :
        /\ b * L \in Nat /\ k * F \in Nat /\ t \in 0 .. F - 1 /\ k * F + F <= L
        /\ Page(b, k, t) = b * L + k * F + t
  <2>1. TAKE b \in Digit, k \in Digit, t \in Digit
  <2>2. b \in Nat /\ k \in Nat /\ t \in 0 .. F - 1
    BY <1>2 DEF Digit
  <2>3. b * L \in Nat /\ k * F \in Nat
    BY <1>2, <2>2
  <2>4. k * F + F <= L
    BY PageIs
  <2>5. QED
    BY <2>2, <2>3, <2>4 DEF Page
<1>5. ASSUME NEW i \in DOMAIN ptSecs
      PROVE  /\ p(i) = Mid * L + Num(i) * F /\ p(i) \in Nat
             /\ Mid * L \in Nat /\ Num(i) * F \in Nat /\ Num(i) * F + F <= L
  <2>1. Num(i) \in Digit
    BY <1>1
  <2> DEFINE n == Num(i)
  <2>2. p(i) = Page(Mid, n, 0)
    OBVIOUS
  <2> HIDE DEF n, p
  <2>3. n \in Digit
    BY <2>1 DEF n
  <2>4. Page(Mid, n, 0) = Mid * L + n * F + 0 /\ Mid * L \in Nat /\ n * F \in Nat /\ n * F + F <= L
    BY <1>2, <1>3, <1>4, <2>3
  <2>5. p(i) = Mid * L + n * F /\ p(i) \in Nat
    <3> HIDE DEF F, L
    <3>1. QED
      BY <2>2, <2>4
  <2>6. QED
    BY <2>4, <2>5 DEF n
<1> HIDE DEF p, F, L, s, z
<1>6. ASSUME NEW k \in Digit
      PROVE  Touches(k * L, 0) <=> k = Mid
  <2>0. Touches(k * L, 0) <=>
          \E i \in DOMAIN ptSecs : s(i) <= k * L + L - 1 /\ s(i) + z(i) - 1 >= k * L
    BY LowIs DEF Touches, s, z, L
  <2>1. k \in Nat /\ Mid \in Nat /\ k * L \in Nat /\ Mid * L \in Nat
    BY <1>2, <1>3, <1>4 DEF Digit
  <2>2. ASSUME NEW i \in DOMAIN ptSecs
        PROVE  Mid * L <= s(i) /\ s(i) + z(i) <= Mid * L + L
    BY <1>1, <1>2, <1>5, <2>1
  <2>3. ASSUME k = Mid
        PROVE  Touches(k * L, 0)
    <3>1. 1 \in DOMAIN ptSecs
      BY GoodSecs
    <3>2. s(1) <= k * L + L - 1 /\ s(1) + z(1) - 1 >= k * L
      BY <1>1, <1>2, <2>1, <2>2, <2>3, <3>1
    <3>3. QED
      BY <2>0, <3>1, <3>2
  <2>4. ASSUME k < Mid
        PROVE  ~Touches(k * L, 0)
    <3>1. k * L + L <= Mid * L
      BY <1>2, <2>1, <2>4, Multiples
    <3>2. \A i \in DOMAIN ptSecs : ~(s(i) <= k * L + L - 1)
      BY <1>1, <1>2, <2>1, <2>2, <3>1
    <3>3. QED
      BY <2>0, <3>2
  <2>5. ASSUME Mid < k
        PROVE  ~Touches(k * L, 0)
    <3>1. Mid * L + L <= k * L
      BY <1>2, <2>1, <2>5, Multiples
    <3>2. \A i \in DOMAIN ptSecs : ~(s(i) + z(i) - 1 >= k * L)
      BY <1>1, <1>2, <2>1, <2>2, <3>1
    <3>3. QED
      BY <2>0, <3>2
  <2>6. QED
    BY <2>1, <2>3, <2>4, <2>5
<1>7. ASSUME NEW k \in Digit, NEW i \in DOMAIN ptSecs, NEW x \in Nat,
             Page(Mid, k, 0) <= x, x < Page(Mid, k, 0) + F, s(i) <= x, x < s(i) + z(i)
      PROVE  k = Num(i)
  <2>1. k \in Nat /\ Num(i) \in Nat /\ k * F \in Nat /\ Page(Mid, k, 0) = Mid * L + k * F
    <3>1. k \in Nat /\ Num(i) \in Nat
      BY <1>1, <1>2 DEF Digit
    <3>2. Page(Mid, k, 0) = Mid * L + k * F + 0 /\ k * F \in Nat /\ Mid * L \in Nat
      BY <1>2, <1>3, <1>4
    <3>3. QED
      BY <3>1, <3>2
  <2>2. /\ Mid * L + Num(i) * F <= s(i) /\ s(i) + z(i) <= Mid * L + Num(i) * F + F
        /\ Mid * L \in Nat /\ Num(i) * F \in Nat
    BY <1>1, <1>5
  <2>3. Mid * L + k * F < Mid * L + Num(i) * F + F /\ Mid * L + Num(i) * F < Mid * L + k * F + F
    BY <1>1, <1>2, <1>7, <2>1, <2>2
  <2>4. k * F < Num(i) * F + F /\ Num(i) * F < k * F + F
    BY <1>2, <2>1, <2>2, <2>3
  <2>5. ~(k < Num(i))
    <3>1. SUFFICES ASSUME k < Num(i)
                   PROVE  FALSE
      OBVIOUS
    <3>2. k * F + F <= Num(i) * F
      BY <1>2, <2>1, <3>1, Multiples
    <3>3. QED
      BY <1>2, <2>1, <2>2, <2>4, <3>2
  <2>6. ~(Num(i) < k)
    <3>1. SUFFICES ASSUME Num(i) < k
                   PROVE  FALSE
      OBVIOUS
    <3>2. Num(i) * F + F <= k * F
      BY <1>2, <2>1, <3>1, Multiples
    <3>3. QED
      BY <1>2, <2>1, <2>2, <2>4, <3>2
  <2>7. QED
    BY <2>1, <2>5, <2>6
<1>8. ASSUME NEW k \in Digit
      PROVE  Touches(Page(Mid, k, 0), 1) <=> k \in Nums
  <2> DEFINE x == Page(Mid, k, 0)
  <2>0. Touches(x, 1) <=>
          \E i \in DOMAIN ptSecs : s(i) <= x + F - 1 /\ s(i) + z(i) - 1 >= x
    BY LowIs DEF Touches, s, z, F
  <2>1. x \in Nat
    BY <1>2, <1>3, PageIs
  <2>2. ASSUME k \in Nums
        PROVE  Touches(x, 1)
    <3>1. PICK i \in DOMAIN ptSecs : k = Num(i)
      BY <2>2 DEF Nums
    <3>2. p(i) = x
      BY <3>1 DEF p
    <3>3. s(i) <= x + F - 1 /\ s(i) + z(i) - 1 >= x
      <4> HIDE DEF x
      <4>1. QED
        BY <1>1, <1>2, <2>1, <3>2
    <3>4. QED
      BY <2>0, <3>3
  <2>3. ASSUME NEW i \in DOMAIN ptSecs, s(i) <= x + F - 1, s(i) + z(i) - 1 >= x
        PROVE  k \in Nums
    <3> DEFINE y == IF s(i) <= x THEN x ELSE s(i)
    <3>1. y \in Nat /\ x <= y /\ y < x + F /\ s(i) <= y /\ y < s(i) + z(i)
      <4> HIDE DEF x
      <4>1. QED
        BY <1>1, <1>2, <2>1, <2>3
    <3>2. k = Num(i)
      <4> HIDE DEF y
      <4>1. QED
        BY <1>7, <3>1
    <3>3. QED
      BY <3>2 DEF Nums
  <2>4. QED
    <3> HIDE DEF x
    <3>1. Touches(x, 1) <=> k \in Nums
      BY <2>0, <2>2, <2>3
    <3>2. QED
      BY <3>1 DEF x
<1>9. ASSUME NEW k \in Digit, NEW t \in Digit
      PROVE  Touches(Page(Mid, k, t), 2) <=> Mapped(Page(Mid, k, t))
  <2> DEFINE x == Page(Mid, k, t)
  <2>0. Touches(x, 2) <=>
          \E i \in DOMAIN ptSecs : s(i) <= x + 1 - 1 /\ s(i) + z(i) - 1 >= x
    BY LowIs DEF Touches, s, z
  <2>1. Mapped(x) <=> \E i \in DOMAIN ptSecs : x \in s(i) .. s(i) + z(i) - 1
    BY DEF Mapped, s, z
  <2>2. x \in Nat
    BY <1>3, PageIs
  <2> HIDE DEF x
  <2>3. \A i \in DOMAIN ptSecs :
          (s(i) <= x + 1 - 1 /\ s(i) + z(i) - 1 >= x) <=> x \in s(i) .. s(i) + z(i) - 1
    BY <1>1, <2>2
  <2>4. Touches(x, 2) <=> Mapped(x)
    BY <2>0, <2>1, <2>3
  <2>5. QED
    BY <2>4 DEF x
<1>10. ASSUME NEW b \in Digit, NEW k \in Digit, NEW t \in Digit, Mapped(Page(b, k, t))
       PROVE  b = Mid /\ k \in Nums
  <2> DEFINE x == Page(b, k, t)
  <2>1. PICK i \in DOMAIN ptSecs : x \in s(i) .. s(i) + z(i) - 1
    BY <1>10 DEF Mapped, s, z
  <2>2. /\ x = b * L + k * F + t /\ b * L \in Nat /\ k * F \in Nat /\ t \in 0 .. F - 1
        /\ k * F + F <= L
    BY <1>4
  <2>3. s(i) <= x /\ x < s(i) + z(i) /\ x \in Nat
    <3> HIDE DEF x
    <3>1. QED
      BY <1>1, <1>2, <2>1, <2>2
  <2>4. b \in Nat /\ Mid \in Nat
    BY <1>2, <1>3 DEF Digit
  <2>5. b * L <= x /\ x < b * L + L /\ Mid * L <= x /\ x < Mid * L + L /\ Mid * L \in Nat
    <3>1. b * L <= x /\ x < b * L + L
      BY <1>2, <2>2
    <3> HIDE DEF x
    <3>2. Mid * L <= s(i) /\ s(i) + z(i) <= Mid * L + L /\ Mid * L \in Nat
      BY <1>1, <1>2, <1>5
    <3>3. QED
      BY <1>1, <1>2, <2>3, <3>1, <3>2
  <2>6. b = Mid
    <3> HIDE DEF x
    <3>1. ~(b < Mid)
      <4>1. SUFFICES ASSUME b < Mid
                     PROVE  FALSE
        OBVIOUS
      <4>2. b * L + L <= Mid * L
        BY <1>2, <2>4, <4>1, Multiples
      <4>3. QED
        BY <1>2, <2>2, <2>3, <2>5, <4>2
    <3>2. ~(Mid < b)
      <4>1. SUFFICES ASSUME Mid < b
                     PROVE  FALSE
        OBVIOUS
      <4>2. Mid * L + L <= b * L
        BY <1>2, <2>4, <4>1, Multiples
      <4>3. QED
        BY <1>2, <2>2, <2>3, <2>5, <4>2
    <3>3. QED
      BY <2>4, <3>1, <3>2
  <2>7. Page(Mid, k, 0) <= x /\ x < Page(Mid, k, 0) + F
    <3>1. Page(b, k, 0) = b * L + k * F + 0
      BY <1>2, <1>4
    <3>2. QED
      BY <1>2, <2>2, <2>6, <3>1
  <2>8. k = Num(i)
    <3> HIDE DEF x
    <3>1. QED
      BY <1>7, <2>3, <2>7
  <2>9. QED
    BY <2>6, <2>8 DEF Nums
<1>11. QED
  BY <1>3, <1>6, <1>8, <1>9, <1>10 DEF L

----------------------------------------------------------------------------
(* The tables of the last level.                                           *)
Own == {i \in DOMAIN ptSecs : i = 1 \/ TableVpn(i, 2) # TableVpn(i - 1, 2)}

(* Sections in ascending order are in tables of ascending numbers.         *)
LEMMA NumsAscend ==
  ASSUME Good, NEW i \in DOMAIN ptSecs, NEW k \in DOMAIN ptSecs, i < k
  PROVE  Num(i) <= Num(k)
<1> DEFINE F == PtFanout  m == Num(i)  n == Num(k)
           s == ptSecs[i].start  t == ptSecs[k].start
<1>1. /\ Mid \in Digit /\ m \in Digit /\ n \in Digit
      /\ Page(Mid, m, 0) <= s /\ t + ptSecs[k].size <= Page(Mid, n, 0) + F
      /\ s \in Nat /\ t \in Nat /\ ptSecs[k].size \in Nat \ {0} /\ ptSecs[i].size \in Nat \ {0}
  BY SectionIs, GoodSecs
<1>2. s + ptSecs[i].size <= t
  BY DEF Good, Supported
<1>3. F \in Nat \ {0} /\ Low(2) \in Nat \ {0} /\ m \in Nat /\ n \in Nat /\ Mid \in Nat
  BY <1>1, LowIs DEF Digit
<1>4. Mid * Low(2) \in Nat /\ m * F \in Nat /\ n * F \in Nat
  <2> HIDE DEF m, n
  <2>1. QED
    BY <1>3
<1>5. Page(Mid, m, 0) = Mid * Low(2) + m * F + 0 /\ Page(Mid, n, 0) = Mid * Low(2) + n * F + 0
  BY DEF Page
<1> HIDE DEF m, n, F, s, t
<1>6. m * F < n * F + F
  BY <1>1, <1>2, <1>3, <1>4, <1>5
<1>7. ~(n < m)
  <2>1. SUFFICES ASSUME n < m
                 PROVE  FALSE
    OBVIOUS
  <2>2. n * F + F <= m * F
    BY <1>3, <2>1, Multiples
  <2>3. QED
    BY <1>3, <1>4, <1>6, <2>2
<1>8. QED
  BY <1>3, <1>7 DEF m, n

(* A section has a table of its own if its middle digit is new.            *)
LEMMA OwnIs ==
  ASSUME Good
  PROVE  /\ Own \subseteq DOMAIN ptSecs
         /\ \A i \in DOMAIN ptSecs : i \in Own <=> i = 1 \/ Num(i) # Num(i - 1)
<1>1. \A i \in DOMAIN ptSecs : Num(i) \in Digit /\ TableVpn(i, 2) = Page(Mid, Num(i), 0)
  BY SectionIs
<1>2. \A m, n \in Digit : Page(Mid, m, 0) = Page(Mid, n, 0) => m = n
  <2>1. 0 \in Digit /\ Mid \in Digit
    BY LowIs, GoodSecs, SectionIs DEF Digit
  <2>2. \A n \in Digit : Part(Page(Mid, n, 0), 1) = n
    BY <2>1, PageIs
  <2>3. QED
    BY <2>2
<1>3. \A i \in DOMAIN ptSecs : i # 1 => i - 1 \in DOMAIN ptSecs
  BY GoodSecs
<1>4. QED
  BY <1>1, <1>2, <1>3 DEF Own

(* A section with a table of its own begins a new one.                     *)
LEMMA OwnAscends ==
  ASSUME Good, NEW i \in DOMAIN ptSecs, NEW k \in Own, i < k
  PROVE  Num(i) < Num(k)
<1>1. k \in DOMAIN ptSecs /\ Num(k) # Num(k - 1) /\ k \in Nat /\ i \in Nat /\ k - 1 \in DOMAIN ptSecs
  <2>1. k \in DOMAIN ptSecs /\ (k = 1 \/ Num(k) # Num(k - 1))
    BY OwnIs
  <2>2. DOMAIN ptSecs = 1 .. Len(ptSecs) /\ Len(ptSecs) \in Nat
    BY GoodSecs
  <2>3. k \in Nat /\ i \in Nat /\ i >= 1 /\ k # 1 /\ k - 1 \in DOMAIN ptSecs
    <3> DEFINE n == Len(ptSecs)
    <3>1. k \in 1 .. n /\ i \in 1 .. n /\ n \in Nat
      BY <2>1, <2>2
    <3> HIDE DEF n
    <3>2. k \in Nat /\ i \in Nat /\ i >= 1 /\ k # 1 /\ k - 1 \in 1 .. n
      BY <3>1
    <3>3. QED
      BY <2>2, <3>2 DEF n
  <2>4. QED
    BY <2>1, <2>3
<1>2. Num(i) <= Num(k - 1)
  <2>1. i = k - 1 \/ i < k - 1
    BY <1>1
  <2>2. Num(k - 1) \in Nat
    BY <1>1, SectionIs DEF Digit
  <2>3. QED
    BY <1>1, <2>1, <2>2, NumsAscend
<1>3. Num(k - 1) <= Num(k)
  BY <1>1, NumsAscend
<1>4. Num(i) \in Nat /\ Num(k) \in Nat /\ Num(k - 1) \in Nat
  BY <1>1, SectionIs DEF Digit
<1>5. QED
  BY <1>1, <1>2, <1>3, <1>4

(* Every section shares the table of one that has its own.                 *)
LEMMA OwnCovers ==
  ASSUME Good, NEW n \in Nums
  PROVE  \E i \in Own : Num(i) = n
<1> DEFINE T == {i \in DOMAIN ptSecs : Num(i) = n}
<1>1. DOMAIN ptSecs \subseteq Nat /\ T # {}
  BY GoodSecs DEF Nums
<1>2. PICK i \in T : \A j \in T : i <= j
  BY <1>1, Least
<1>3. CASE i = 1
  BY <1>2, <1>3, OwnIs
<1>4. CASE i # 1
  <2>1. i - 1 \in DOMAIN ptSecs /\ ~(i <= i - 1)
    BY <1>1, <1>4, GoodSecs
  <2>2. Num(i - 1) # n
    BY <1>2, <2>1
  <2>3. QED
    BY <1>2, <2>2, OwnIs
<1>5. QED
  BY <1>3, <1>4

(* As many sections have tables of their own as there are middle digits.   *)
LEMMA OwnCounts ==
  ASSUME Good, NEW A \in SUBSET Own
  PROVE  Cardinality({Num(i) : i \in A}) = Cardinality(A)
<1> DEFINE B == {Num(i) : i \in A}  f == [i \in A |-> Num(i)]
<1>1. IsFiniteSet(A)
  <2>1. IsFiniteSet(DOMAIN ptSecs)
    <3>1. DOMAIN ptSecs = 1 .. Len(ptSecs) /\ Len(ptSecs) \in Nat
      BY GoodSecs
    <3>2. QED
      BY <3>1, FS_Interval
  <2>2. A \subseteq DOMAIN ptSecs
    BY OwnIs
  <2>3. QED
    BY <2>1, <2>2, FS_Subset
<1>2. ASSUME NEW i \in A, NEW k \in A, i # k
      PROVE  Num(i) # Num(k)
  <2>1. i \in DOMAIN ptSecs /\ k \in DOMAIN ptSecs /\ i \in Own /\ k \in Own
    BY OwnIs
  <2>2. i < k \/ k < i
    BY <1>2, <2>1, GoodSecs
  <2>3. Num(i) \in Nat /\ Num(k) \in Nat
    BY <2>1, SectionIs DEF Digit
  <2>4. Num(i) < Num(k) \/ Num(k) < Num(i)
    BY <2>1, <2>2, OwnAscends
  <2>5. QED
    BY <2>3, <2>4
<1>3. f \in Surjection(A, B)
  BY DEF Surjection
<1>4. f \in Injection(A, B)
  BY <1>2 DEF Injection, IsInjective
<1>5. Cardinality(B) = Cardinality(A)
  <2> HIDE DEF f, B
  <2>1. QED
    BY <1>1, <1>3, <1>4, FS_Surjection
<1>6. QED
  BY <1>5

(* The table of a section is the one of its number's rank.                 *)
LEMMA OwnRanks ==
  ASSUME Good
  PROVE  /\ IsFiniteSet(Own) /\ IsFiniteSet(Nums) /\ Own \subseteq Nat /\ Nums \subseteq Nat
         /\ Cardinality(Own) = Cardinality(Nums)
         /\ \A i \in Own : Num(i) \in Nums /\ Rank(Own, i) = Rank(Nums, Num(i))
<1>1. DOMAIN ptSecs = 1 .. Len(ptSecs) /\ Len(ptSecs) \in Nat /\ Own \subseteq DOMAIN ptSecs
  BY GoodSecs, OwnIs
<1>2. IsFiniteSet(Own) /\ Own \subseteq Nat
  <2>1. IsFiniteSet(DOMAIN ptSecs)
    BY <1>1, FS_Interval
  <2>2. QED
    BY <1>1, <2>1, FS_Subset
<1>3. Nums \subseteq Nat /\ IsFiniteSet(Nums)
  <2>1. Nums \subseteq Digit
    BY SectionIs DEF Nums
  <2>2. IsFiniteSet(Digit) /\ Digit \subseteq Nat
    BY LowIs, FS_Interval DEF Digit
  <2>3. QED
    BY <2>1, <2>2, FS_Subset
<1>4. Nums = {Num(i) : i \in Own}
  BY <1>1, OwnCovers DEF Nums
<1>5. Cardinality(Own) = Cardinality(Nums)
  BY <1>4, OwnCounts
<1>6. ASSUME NEW i \in Own
      PROVE  Num(i) \in Nums /\ Rank(Own, i) = Rank(Nums, Num(i))
  <2> DEFINE A == {j \in Own : j <= i}  B == {n \in Nums : n <= Num(i)}
  <2>1. ASSUME NEW j \in A
        PROVE  Num(j) \in B
    <3>1. j \in DOMAIN ptSecs /\ i \in DOMAIN ptSecs /\ j \in Nat /\ i \in Nat /\ j <= i
      BY <1>1, <1>2
    <3>2. Num(j) <= Num(i)
      <4>1. j = i \/ j < i
        BY <3>1
      <4>2. Num(i) \in Nat
        BY <3>1, SectionIs DEF Digit
      <4>3. QED
        BY <3>1, <4>1, <4>2, NumsAscend
    <3>3. QED
      BY <3>1, <3>2 DEF Nums
  <2>2. ASSUME NEW n \in B
        PROVE  \E j \in A : Num(j) = n
    <3>1. PICK j \in Own : Num(j) = n
      BY OwnCovers
    <3>2. j \in DOMAIN ptSecs /\ i \in DOMAIN ptSecs /\ j \in Nat /\ i \in Nat
          /\ Num(i) \in Nat /\ Num(j) \in Nat
      BY <1>1, <1>2, SectionIs DEF Digit
    <3>3. ~(i < j)
      <4>1. i < j => Num(i) < Num(j)
        BY <3>2, OwnAscends
      <4>2. n <= Num(i)
        OBVIOUS
      <4>3. QED
        BY <3>1, <3>2, <4>1, <4>2
    <3>4. QED
      BY <3>1, <3>2, <3>3
  <2>3. B = {Num(j) : j \in A}
    <3> HIDE DEF A, B
    <3>1. QED
      BY <2>1, <2>2
  <2>4. Cardinality(B) = Cardinality(A)
    <3>1. A \subseteq Own
      OBVIOUS
    <3> HIDE DEF A, B
    <3>2. QED
      BY <2>3, <3>1, OwnCounts
  <2>5. QED
    BY <1>1, <2>4 DEF Rank, Nums
<1>7. QED
  BY <1>2, <1>3, <1>5, <1>6

----------------------------------------------------------------------------
(* The tables ptgen.py has made so far.                                    *)
Pointer(ppn) == Pte(TRUE, {}, FALSE, TRUE, TRUE, ppn)
Leaf(ppn)    == Pte(TRUE, {"x", "w", "r"}, FALSE, TRUE, TRUE, ppn)
RootTable == [k \in Digit |-> IF k = Mid THEN Pointer(PtRoot + 1) ELSE NoPte]
MidTable  ==
  [k \in Digit |-> IF k \in Nums THEN Pointer(PtRoot + 1 + Rank(Nums, k)) ELSE NoPte]
LastTable(n) ==
  [k \in Digit |-> IF Mapped(Page(Mid, n, k)) THEN Leaf(Page(Mid, n, k)) ELSE NoPte]

LastVpns ==
  /\ Len(ptVpns[2]) = Cardinality(Nums) /\ DOMAIN ptVpns[2] = 1 .. Cardinality(Nums)
  /\ \A n \in Nums : ptVpns[2][Rank(Nums, n)] = Page(Mid, n, 0)
VpnsTo(level) ==
  /\ DOMAIN ptVpns = Levels /\ ptVpns[0] = <<0>>
  /\ level > 1 => ptVpns[1] = <<Page(Mid, 0, 0)>>
  /\ level > 2 => LastVpns

RootsMade ==
  ptRoots = [level \in Levels |-> [n \in DOMAIN ptVpns[level] |-> PtRoot + level + n - 1]]

MemTo(level) ==
  /\ MemTyped
  /\ DOMAIN ptMem = PtRoot .. (IF level = 3 THEN PtRoot + 1 + Cardinality(Nums) ELSE PtRoot + level - 1)
  /\ level > 0 => ptMem[PtRoot] = RootTable
  /\ level > 1 => ptMem[PtRoot + 1] = MidTable
  /\ level > 2 => \A n \in Nums : ptMem[PtRoot + 1 + Rank(Nums, n)] = LastTable(n)

PagesInv ==
  /\ ptPc \in {"vpns", "roots", "fill", "done"}
  /\ ptPc = "vpns" => ptLevel \in {1, 2} /\ VpnsTo(ptLevel)
  /\ ptPc = "roots" => ptLevel = 0
  /\ ptPc # "vpns" => VpnsTo(3)
  /\ ptPc = "fill" => ptLevel \in 0 .. 2 /\ RootsMade /\ MemTo(ptLevel)
  /\ ptPc \in {"vpns", "roots"} => ptMem = <<>>
  /\ ptPc = "done" => MemTo(3)
  /\ ptPc # "done" => wkState = "idle" /\ wkReq = <<>>
  /\ wkReq = <<>> \/ wkReq \in PtRequests

(* The sections that are supported have one table of the middle level, and *)
(* one of the last for every number.                                       *)
LEMMA VpnsFound ==
  ASSUME Good, FindTables, NEW l \in {1, 2}, ptLevel = l, VpnsTo(l)
  PROVE  VpnsTo(l + 1)'
<1> DEFINE own(k) == {i \in DOMAIN ptSecs : i = 1 \/ TableVpn(i, k) # TableVpn(i - 1, k)}
           nth(k, i) == Cardinality({j \in own(k) : j <= i})
           found(k) == [n \in 1 .. Cardinality(own(k)) |->
                          TableVpn(CHOOSE i \in own(k) : nth(k, i) = n, k)]
<1>1. ptVpns' = [ptVpns EXCEPT ![l] = found(l)] /\ ptSecs' = ptSecs
  BY DEF FindTables
<1>2. DOMAIN ptVpns = Levels /\ ptVpns[0] = <<0>> /\ 1 \in Levels /\ 2 \in Levels
  BY DEF VpnsTo, Levels, Depth
<1>3. Mid' = Mid /\ Nums' = Nums
  BY <1>1 DEF Mid, Nums, Num
<1>4. CASE l = 1
  <2>1. own(1) = {1}
    <3>1. \A i \in DOMAIN ptSecs : TableVpn(i, 1) = Page(Mid, 0, 0)
      BY SectionIs
    <3>2. \A i \in DOMAIN ptSecs : i # 1 => i - 1 \in DOMAIN ptSecs
      BY GoodSecs
    <3>3. 1 \in DOMAIN ptSecs
      BY GoodSecs
    <3>4. QED
      BY <3>1, <3>2, <3>3
  <2>2. Cardinality(own(1)) = 1
    BY <2>1, FS_Singleton
  <2>3. nth(1, 1) = 1
    <3>1. {j \in own(1) : j <= 1} = {1}
      BY <2>1
    <3>2. QED
      BY <3>1, FS_Singleton
  <2>4. (CHOOSE i \in own(1) : nth(1, i) = 1) = 1
    <3> HIDE DEF nth, own
    <3>1. QED
      BY <2>1, <2>3
  <2>5. found(1) = <<Page(Mid, 0, 0)>>
    <3>1. TableVpn(1, 1) = Page(Mid, 0, 0)
      BY GoodSecs, SectionIs
    <3> DEFINE ch(n) == CHOOSE i \in own(1) : nth(1, i) = n  c == Cardinality(own(1))
    <3>2. ch(1) = 1 /\ c = 1
      BY <2>2, <2>4
    <3>3. found(1) = [n \in 1 .. c |-> TableVpn(ch(n), 1)]
      OBVIOUS
    <3> HIDE DEF ch, own, nth, found, c
    <3>4. \A n \in 1 .. c : TableVpn(ch(n), 1) = Page(Mid, 0, 0)
      BY <3>1, <3>2
    <3>5. found(1) = [n \in 1 .. 1 |-> Page(Mid, 0, 0)]
      BY <3>2, <3>3, <3>4
    <3>6. QED
      BY <3>5
  <2>6. /\ ptVpns'[1] = <<Page(Mid, 0, 0)>> /\ ptVpns'[0] = <<0>>
        /\ DOMAIN ptVpns' = Levels
    <3> HIDE DEF found
    <3>1. QED
      BY <1>1, <1>2, <1>4, <2>5
  <2>7. QED
    BY <1>3, <1>4, <2>6 DEF VpnsTo, Page
<1>5. CASE l = 2
  <2>1. own(2) = Own /\ \A i : nth(2, i) = Rank(Own, i)
    BY DEF Own, Rank
  <2>2. /\ IsFiniteSet(Own) /\ IsFiniteSet(Nums) /\ Own \subseteq Nat
        /\ Cardinality(Own) = Cardinality(Nums)
        /\ \A i \in Own : Num(i) \in Nums /\ Rank(Own, i) = Rank(Nums, Num(i))
    BY OwnRanks
  <2> DEFINE N == Cardinality(Nums)
  <2>3. /\ N \in Nat /\ \A i \in Own : Rank(Own, i) \in 1 .. N
        /\ \A i, k \in Own : Rank(Own, i) = Rank(Own, k) => i = k
    BY <2>2, Ranks
  <2>4. found(2) = [n \in 1 .. N |-> TableVpn(CHOOSE i \in Own : Rank(Own, i) = n, 2)]
    <3>1. found(2) = [n \in 1 .. Cardinality(Own) |->
                        TableVpn(CHOOSE i \in Own : Rank(Own, i) = n, 2)]
      BY DEF Own, Rank
    <3> HIDE DEF found
    <3>2. QED
      BY <2>2, <3>1
  <2> HIDE DEF found, own, nth, N
  <2>5. ASSUME NEW n \in Nums
        PROVE  found(2)[Rank(Nums, n)] = Page(Mid, n, 0)
    <3>1. PICK i \in Own : Num(i) = n
      BY OwnCovers
    <3> DEFINE r == Rank(Own, i)  ch(m) == CHOOSE j \in Own : Rank(Own, j) = m
    <3>2. ch(r) = i
      BY <2>3
    <3>3. r \in 1 .. N
      BY <2>3
    <3>4. found(2) = [m \in 1 .. N |-> TableVpn(ch(m), 2)]
      BY <2>4
    <3>5. r = Rank(Nums, n)
      BY <2>2, <3>1
    <3> HIDE DEF r, ch
    <3>6. found(2)[r] = TableVpn(ch(r), 2)
      BY <3>3, <3>4
    <3>7. TableVpn(i, 2) = Page(Mid, n, 0)
      BY <3>1, OwnIs, SectionIs
    <3>8. QED
      BY <3>2, <3>5, <3>6, <3>7
  <2>6. DOMAIN found(2) = 1 .. N /\ Len(found(2)) = N
    <3> DEFINE ch(m) == CHOOSE j \in Own : Rank(Own, j) = m
    <3>1. found(2) = [m \in 1 .. N |-> TableVpn(ch(m), 2)]
      BY <2>4
    <3> HIDE DEF ch
    <3>2. QED
      BY <2>3, <3>1
  <2>7. ptVpns'[2] = found(2) /\ ptVpns'[1] = ptVpns[1] /\ ptVpns'[0] = <<0>> /\ DOMAIN ptVpns' = Levels
    BY <1>1, <1>2, <1>5
  <2>8. ptVpns'[1] = <<Page(Mid, 0, 0)>>
    BY <1>5, <2>7 DEF VpnsTo
  <2>9. LastVpns'
    <3>1. \A n : Rank(Nums, n)' = Rank(Nums, n) /\ Page(Mid, n, 0)' = Page(Mid, n, 0)
      BY <1>3 DEF Rank, Page
    <3>2. N' = N
      BY <1>3 DEF N
    <3>3. QED
      BY <1>3, <2>5, <2>6, <2>7, <3>1, <3>2 DEF LastVpns, N
  <2>10. QED
    BY <1>3, <1>5, <2>7, <2>8, <2>9 DEF VpnsTo, Page
<1>6. QED
  BY <1>4, <1>5

(* The tables of the last level are numbered from one, without gaps.       *)
LEMMA NumsRanks ==
  ASSUME Good
  PROVE  /\ Cardinality(Nums) \in Nat /\ Nums \subseteq Digit /\ Mid \in Digit /\ 0 \in Digit
         /\ \A n \in Nums : Rank(Nums, n) \in 1 .. Cardinality(Nums)
         /\ \A m \in 1 .. Cardinality(Nums) : \E n \in Nums : Rank(Nums, n) = m
<1>1. IsFiniteSet(Nums) /\ Nums \subseteq Nat
  BY OwnRanks
<1>2. Nums \subseteq Digit /\ Mid \in Digit
  BY Reach
<1>3. 0 \in Digit
  BY LowIs DEF Digit
<1>4. QED
  BY <1>1, <1>2, <1>3, Ranks

(* The tables lie one after the other.                                     *)
LEMMA RootsPlaced ==
  ASSUME VpnsTo(3), PlaceTables
  PROVE  RootsMade'
<1> DEFINE before == <<0, Len(ptVpns[0]), Len(ptVpns[0]) + Len(ptVpns[1])>>
<1>1. ptRoots' = [level \in Levels |->
         [n \in DOMAIN ptVpns[level] |-> PtRoot + before[level + 1] + n - 1]]
      /\ ptVpns' = ptVpns
  BY DEF PlaceTables
<1>2. Len(ptVpns[0]) = 1 /\ Len(ptVpns[1]) = 1
  BY DEF VpnsTo
<1>3. before = <<0, 1, 2>>
  BY <1>2
<1>4. \A level \in Levels : before[level + 1] = level
  <2>1. Levels = {0, 1, 2}
    BY DEF Levels, Depth
  <2> HIDE DEF before
  <2>2. before[1] = 0 /\ before[2] = 1 /\ before[3] = 2
    BY <1>3
  <2>3. QED
    BY <2>1, <2>2
<1> HIDE DEF before
<1>5. QED
  BY <1>1, <1>4 DEF RootsMade

(* Where each table lies, once placed.                                     *)
LEMMA RootAt ==
  ASSUME VpnsTo(3), RootsMade
  PROVE  /\ DOMAIN ptVpns[0] = 1 .. 1 /\ DOMAIN ptVpns[1] = 1 .. 1
         /\ DOMAIN ptVpns[2] = 1 .. Cardinality(Nums)
         /\ \A l \in Levels :
              /\ DOMAIN ptRoots[l] = DOMAIN ptVpns[l]
              /\ \A n \in DOMAIN ptVpns[l] : ptRoots[l][n] = PtRoot + l + n - 1
         /\ Len(ptRoots[1]) = 1 /\ (Cardinality(Nums) \in Nat => Len(ptRoots[2]) = Cardinality(Nums))
<1>1. ptVpns[0] = <<0>> /\ ptVpns[1] = <<Page(Mid, 0, 0)>> /\ LastVpns
  BY DEF VpnsTo
<1>2. DOMAIN ptVpns[0] = 1 .. 1 /\ DOMAIN ptVpns[1] = 1 .. 1
  BY <1>1
<1>3. DOMAIN ptVpns[2] = 1 .. Cardinality(Nums)
  BY <1>1 DEF LastVpns
<1>4. \A l \in Levels :
        /\ DOMAIN ptRoots[l] = DOMAIN ptVpns[l]
        /\ \A n \in DOMAIN ptVpns[l] : ptRoots[l][n] = PtRoot + l + n - 1
  BY DEF RootsMade
<1>5. ptRoots[1] = [n \in 1 .. 1 |-> PtRoot + 1 + n - 1]
  BY <1>2 DEF RootsMade, Levels, Depth
<1>6. ptRoots[2] = [n \in 1 .. Cardinality(Nums) |-> PtRoot + 2 + n - 1]
  BY <1>3 DEF RootsMade, Levels, Depth
<1>7. Len(ptRoots[1]) = 1
  BY <1>5
<1>8. Cardinality(Nums) \in Nat => Len(ptRoots[2]) = Cardinality(Nums)
  <2> DEFINE N == Cardinality(Nums)
  <2> HIDE DEF N
  <2>1. ptRoots[2] = [n \in 1 .. N |-> PtRoot + 2 + n - 1]
    BY <1>6 DEF N
  <2>2. N \in Nat => Len(ptRoots[2]) = N
    BY <2>1
  <2>3. QED
    BY <2>2 DEF N
<1>9. QED
  BY <1>2, <1>3, <1>4, <1>7, <1>8

(* An entry by its level.                                                  *)
LEMMA EntryIs ==
  ASSUME NEW n, NEW k
  PROVE  /\ \A l : k \notin Used(l, n) => Entry(l, n, k) = NoPte
         /\ k \in Used(0, n) => Entry(0, n, k) = Pointer(ptRoots[1][Target(0, n, k)])
         /\ k \in Used(1, n) => Entry(1, n, k) = Pointer(ptRoots[2][Target(1, n, k)])
         /\ k \in Used(2, n) => Entry(2, n, k) = Leaf(EntryVpn(2, n, k))
<1>1. 0 # Depth - 1 /\ 1 # Depth - 1 /\ 2 = Depth - 1
  BY DEF Depth
<1>2. 0 + 1 = 1 /\ 1 + 1 = 2
  OBVIOUS
<1>3. \A l : k \notin Used(l, n) => Entry(l, n, k) = NoPte
  BY Zenon DEF Entry
<1>4. k \in Used(0, n) => Entry(0, n, k) = Pointer(ptRoots[0 + 1][Target(0, n, k)])
  BY <1>1, Zenon DEF Entry, Pointer
<1>5. k \in Used(1, n) => Entry(1, n, k) = Pointer(ptRoots[1 + 1][Target(1, n, k)])
  BY <1>1, Zenon DEF Entry, Pointer
<1>6. k \in Used(2, n) => Entry(2, n, k) = Leaf(EntryVpn(2, n, k))
  BY <1>1, Zenon DEF Entry, Leaf
<1>7. QED
  BY <1>2, <1>3, <1>4, <1>5, <1>6, Zenon

(* The entries of the tables, and that there is a table for every entry.   *)
LEMMA Entries ==
  ASSUME Good, VpnsTo(3), RootsMade
  PROVE  /\ \A k \in Digit : Entry(0, 1, k) = RootTable[k]
         /\ \A k \in Digit : Entry(1, 1, k) = MidTable[k]
         /\ \A n \in Nums : \A k \in Digit : Entry(2, Rank(Nums, n), k) = LastTable(n)[k]
         /\ ~IndexError(0) /\ ~IndexError(1) /\ ~IndexError(2)
<1> DEFINE N == Cardinality(Nums)
<1>1. /\ ptVpns[0] = <<0>> /\ ptVpns[1] = <<Page(Mid, 0, 0)>>
      /\ \A n \in Nums : ptVpns[2][Rank(Nums, n)] = Page(Mid, n, 0)
  BY DEF VpnsTo, LastVpns
<1>2. /\ Mid \in Digit /\ Nums \subseteq Digit /\ 0 \in Digit /\ N \in Nat
      /\ \A n \in Nums : Rank(Nums, n) \in 1 .. N
  BY NumsRanks
<1>3. /\ DOMAIN ptVpns[0] = 1 .. 1 /\ DOMAIN ptVpns[1] = 1 .. 1
      /\ \A n \in 1 .. 1 : ptRoots[1][n] = PtRoot + 1 + n - 1
      /\ \A n \in 1 .. N : ptRoots[2][n] = PtRoot + 2 + n - 1
      /\ Len(ptRoots[1]) = 1 /\ Len(ptRoots[2]) = N
  BY <1>2, RootAt DEF Levels, Depth
<1>4. PtRoot \in Nat /\ PtFanout \in Nat \ {0} /\ Digit = 0 .. PtFanout - 1 /\ Low(2) \in Nat \ {0}
  BY PtAssumption, LowIs DEF Digit
<1>5. /\ \A k \in Digit : EntryVpn(0, 1, k) = k * Low(2)
      /\ \A k \in Digit : EntryVpn(1, 1, k) = Page(Mid, k, 0)
      /\ \A n \in Nums : \A k \in Digit : EntryVpn(2, Rank(Nums, n), k) = Page(Mid, n, k)
  <2>1. \A k \in Digit : EntryVpn(0, 1, k) = k * Low(2)
    <3>1. TAKE k \in Digit
    <3>2. k * Low(2) \in Nat
      BY <1>4
    <3>3. EntryVpn(0, 1, k) = 0 + k * Low(2)
      BY <1>1, LowIs DEF EntryVpn
    <3>4. QED
      BY <3>2, <3>3
  <2>2. \A k \in Digit : EntryVpn(1, 1, k) = Page(Mid, k, 0)
    <3>1. TAKE k \in Digit
    <3>2. k * PtFanout \in Nat /\ Mid * Low(2) \in Nat
      <4>1. k \in Nat /\ Mid \in Nat
        BY <1>2, <1>4
      <4> HIDE DEF Mid
      <4>2. QED
        BY <1>4, <4>1
    <3>3. EntryVpn(1, 1, k) = Page(Mid, 0, 0) + k * PtFanout
      BY <1>1, LowIs DEF EntryVpn
    <3>4. QED
      BY <1>4, <3>2, <3>3 DEF Page
  <2>3. \A n \in Nums : \A k \in Digit : EntryVpn(2, Rank(Nums, n), k) = Page(Mid, n, k)
    <3> TAKE n \in Nums
    <3>1. TAKE k \in Digit
    <3>2. n * PtFanout \in Nat /\ Mid * Low(2) \in Nat /\ k \in Nat
      <4>1. n \in Nat /\ Mid \in Nat /\ k \in Nat
        BY <1>2, <1>4
      <4>2. QED
        BY <1>4, <4>1
    <3>3. EntryVpn(2, Rank(Nums, n), k) = Page(Mid, n, 0) + k * 1
      BY <1>1, LowIs DEF EntryVpn
    <3>4. QED
      BY <1>4, <3>2, <3>3 DEF Page
  <2>4. QED
    BY <2>1, <2>2, <2>3
<1>6. /\ Used(0, 1) = {Mid} /\ Used(1, 1) = Nums
      /\ \A n \in Nums : Used(2, Rank(Nums, n)) = {k \in Digit : Mapped(Page(Mid, n, k))}
  <2>1. Used(0, 1) = {k \in Digit : Touches(EntryVpn(0, 1, k), 0)}
    BY DEF Used, Digit
  <2>2. Used(1, 1) = {k \in Digit : Touches(EntryVpn(1, 1, k), 1)}
    BY DEF Used, Digit
  <2>3. \A r : Used(2, r) = {k \in Digit : Touches(EntryVpn(2, r, k), 2)}
    BY DEF Used, Digit
  <2>4. Used(0, 1) = {Mid}
    BY <1>2, <1>5, <2>1, Reach
  <2>5. Used(1, 1) = Nums
    <3>1. \A k \in Digit : Touches(EntryVpn(1, 1, k), 1) <=> k \in Nums
      BY <1>5, Reach
    <3>2. QED
      BY <1>2, <2>2, <3>1
  <2>6. ASSUME NEW n \in Nums
        PROVE  Used(2, Rank(Nums, n)) = {k \in Digit : Mapped(Page(Mid, n, k))}
    <3>1. \A k \in Digit : Touches(EntryVpn(2, Rank(Nums, n), k), 2) <=> Mapped(Page(Mid, n, k))
      <4>1. \A k \in Digit : Touches(Page(Mid, n, k), 2) <=> Mapped(Page(Mid, n, k))
        BY <1>2, Reach
      <4>2. QED
        BY <1>5, <4>1
    <3>2. QED
      BY <2>3, <3>1
  <2>7. QED
    BY <2>4, <2>5, <2>6
<1>7. ASSUME NEW k \in Digit
      PROVE  Entry(0, 1, k) = RootTable[k]
  <2>1. Target(0, 1, Mid) = 1
    <3>1. {j \in Used(0, 1) : j <= Mid} = {Mid}
      BY <1>2, <1>4, <1>6
    <3>2. QED
      BY <3>1, FS_Singleton DEF Target
  <2>2. ptRoots[1][1] = PtRoot + 1
    BY <1>3, <1>4
  <2>3. Entry(0, 1, k) = IF k = Mid THEN Pointer(PtRoot + 1) ELSE NoPte
    <3>1. CASE k = Mid
      <4>1. k \in Used(0, 1) /\ Target(0, 1, k) = 1
        BY <1>6, <2>1, <3>1
      <4>2. Entry(0, 1, k) = Pointer(ptRoots[1][1])
        BY <4>1, EntryIs
      <4>3. QED
        BY <2>2, <3>1, <4>2
    <3>2. CASE k # Mid
      BY <1>6, <3>2, EntryIs
    <3>3. QED
      BY <3>1, <3>2
  <2>4. QED
    BY <2>3 DEF RootTable
<1>8. ASSUME NEW k \in Digit
      PROVE  Entry(1, 1, k) = MidTable[k]
  <2>1. ASSUME k \in Nums
        PROVE  ptRoots[2][Target(1, 1, k)] = PtRoot + 1 + Rank(Nums, k)
    <3>1. Target(1, 1, k) = Rank(Nums, k)
      BY <1>6 DEF Target, Rank
    <3>2. Rank(Nums, k) \in 1 .. N
      BY <1>2, <2>1
    <3>3. QED
      BY <1>2, <1>3, <1>4, <3>1, <3>2
  <2>2. Entry(1, 1, k) = IF k \in Nums THEN Pointer(PtRoot + 1 + Rank(Nums, k)) ELSE NoPte
    <3>1. CASE k \in Nums
      <4>1. Entry(1, 1, k) = Pointer(ptRoots[2][Target(1, 1, k)])
        BY <1>6, <3>1, EntryIs
      <4>2. QED
        BY <2>1, <3>1, <4>1
    <3>2. CASE k \notin Nums
      BY <1>6, <3>2, EntryIs
    <3>3. QED
      BY <3>1, <3>2
  <2>3. QED
    BY <2>2 DEF MidTable
<1>9. ASSUME NEW n \in Nums, NEW k \in Digit
      PROVE  Entry(2, Rank(Nums, n), k) = LastTable(n)[k]
  <2> DEFINE r == Rank(Nums, n)
  <2>1. k \in Used(2, r) <=> Mapped(Page(Mid, n, k))
    BY <1>6
  <2>2. EntryVpn(2, r, k) = Page(Mid, n, k)
    BY <1>5
  <2>3. Entry(2, r, k) = IF Mapped(Page(Mid, n, k)) THEN Leaf(Page(Mid, n, k)) ELSE NoPte
    <3>1. CASE Mapped(Page(Mid, n, k))
      BY <2>1, <2>2, <3>1, EntryIs
    <3>2. CASE ~Mapped(Page(Mid, n, k))
      BY <2>1, <3>2, EntryIs
    <3>3. QED
      BY <3>1, <3>2
  <2>4. QED
    BY <2>3 DEF LastTable
<1>10. ~IndexError(0)
  <2>1. Cardinality(Used(0, 1)) = 1
    BY <1>6, FS_Singleton
  <2>2. \A n \in DOMAIN ptVpns[0] : n = 1
    BY <1>3
  <2>3. QED
    BY <1>3, <2>1, <2>2 DEF IndexError
<1>11. ~IndexError(1)
  <2>1. Cardinality(Used(1, 1)) = N
    BY <1>6
  <2>2. \A n \in DOMAIN ptVpns[1] : n = 1
    BY <1>3
  <2>3. QED
    BY <1>2, <1>3, <2>1, <2>2 DEF IndexError
<1>12. ~IndexError(2)
  BY DEF IndexError, Depth
<1>13. QED
  BY <1>7, <1>8, <1>9, <1>10, <1>11, <1>12

----------------------------------------------------------------------------
(* What the tables are made of.                                            *)
LEMMA TablesTyped ==
  ASSUME Good
  PROVE  /\ RootTable \in [0 .. PtFanout - 1 -> Ptes] /\ MidTable \in [0 .. PtFanout - 1 -> Ptes]
         /\ \A n \in Nums : LastTable(n) \in [0 .. PtFanout - 1 -> Ptes]
<1>1. NoPte \in Ptes /\ \A p \in Nat : Pointer(p) \in Ptes /\ Leaf(p) \in Ptes
  BY DEF NoPte, Pointer, Leaf, Pte, Ptes
<1>2. Digit = 0 .. PtFanout - 1 /\ PtRoot \in Nat
  BY PtAssumption DEF Digit
<1>3. \A n \in Nums : PtRoot + 1 + Rank(Nums, n) \in Nat
  <2>1. TAKE n \in Nums
  <2>2. Rank(Nums, n) \in 1 .. Cardinality(Nums) /\ Cardinality(Nums) \in Nat
    BY NumsRanks
  <2>3. QED
    BY <1>2, <2>2
<1>4. \A n \in Nums : \A k \in Digit : Page(Mid, n, k) \in Nat
  BY NumsRanks, PageIs
<1>5. RootTable \in [Digit -> Ptes]
  BY <1>1, <1>2 DEF RootTable
<1>6. MidTable \in [Digit -> Ptes]
  BY <1>1, <1>3 DEF MidTable
<1>7. \A n \in Nums : LastTable(n) \in [Digit -> Ptes]
  BY <1>1, <1>4 DEF LastTable
<1>8. QED
  BY <1>2, <1>5, <1>6, <1>7

(* The tables of a level take the next pages, and the others stay.         *)
RootedAt(l, c) ==
  DOMAIN ptRoots[l] = 1 .. c /\ \A n \in 1 .. c : ptRoots[l][n] = PtRoot + l + n - 1
GrownBy(l, c) ==
  /\ DOMAIN ptMem' = PtRoot .. PtRoot + l + c - 1
  /\ \A page \in DOMAIN ptMem : ptMem'[page] = ptMem[page]
  /\ \A n \in 1 .. c : ptMem'[PtRoot + l + n - 1] = [k \in Digit |-> Entry(l, n, k)]

LEMMA Filled ==
  ASSUME FillLevel, NEW l \in 0 .. 2, ptLevel = l, ~IndexError(l), NEW c \in Nat,
         RootedAt(l, c), DOMAIN ptMem = PtRoot .. PtRoot + l - 1
  PROVE  GrownBy(l, c)
<1> DEFINE r == ptRoots[l]  old == DOMAIN ptMem  new == ToSet(r)
<1>1. ptMem' = [page \in old \cup new |->
         IF page \in old THEN ptMem[page]
         ELSE LET n == CHOOSE n \in DOMAIN r : r[n] = page
              IN [k \in Digit |-> Entry(l, n, k)]]
  BY DEF FillLevel, Digit
<1>2. PtRoot \in Nat /\ DOMAIN r = 1 .. c /\ \A n \in 1 .. c : r[n] = PtRoot + l + n - 1
  BY PtAssumption DEF RootedAt
<1>3. old = PtRoot .. PtRoot + l - 1
  OBVIOUS
<1>4. new = {r[n] : n \in 1 .. c}
  BY <1>2 DEF ToSet
<1> HIDE DEF r, old, new
<1>5. new = PtRoot + l .. PtRoot + l + c - 1
  <2>1. \A p \in new : p \in PtRoot + l .. PtRoot + l + c - 1
    BY <1>2, <1>4
  <2>2. ASSUME NEW p \in PtRoot + l .. PtRoot + l + c - 1
        PROVE  p \in new
    <3>1. p - PtRoot - l + 1 \in 1 .. c /\ PtRoot + l + (p - PtRoot - l + 1) - 1 = p
      BY <1>2
    <3>2. r[p - PtRoot - l + 1] = p
      BY <1>2, <3>1
    <3>3. QED
      BY <1>4, <3>1, <3>2
  <2>3. QED
    BY <2>1, <2>2
<1>6. old \cup new = PtRoot .. PtRoot + l + c - 1
  BY <1>2, <1>3, <1>5
<1>7. ASSUME NEW n \in 1 .. c
      PROVE  ptMem'[PtRoot + l + n - 1] = [k \in Digit |-> Entry(l, n, k)]
  <2> DEFINE p == PtRoot + l + n - 1
  <2>1. p \in new /\ p \notin old /\ r[n] = p
    BY <1>2, <1>3, <1>5
  <2>2. \A m \in DOMAIN r : r[m] = p => m = n
    BY <1>2
  <2> HIDE DEF p
  <2>3. (CHOOSE m \in DOMAIN r : r[m] = p) = n
    BY <1>2, <2>1, <2>2
  <2>4. ptMem'[p] = LET m == CHOOSE m \in DOMAIN r : r[m] = p
                    IN [k \in Digit |-> Entry(l, m, k)]
    BY <1>1, <2>1
  <2>5. QED
    BY <2>3, <2>4 DEF p
<1>8. QED
  BY <1>1, <1>6, <1>7 DEF old, GrownBy

(* What is said of the sections and the tables stays while they do.        *)
LEMMA SecsStay ==
  ASSUME ptSecs' = ptSecs
  PROVE  /\ Mid' = Mid /\ Nums' = Nums /\ Good' = Good
         /\ RootTable' = RootTable /\ MidTable' = MidTable
         /\ \A n : LastTable(n)' = LastTable(n)
         /\ \A vpn : Mapped(vpn)' <=> Mapped(vpn)
<1>1. Mid' = Mid
  BY DEF Mid, Low
<1>2. Nums' = Nums
  BY DEF Nums, Num
<1>3. Good' = Good
  BY DEF Good, Supported, Low
<1>4. \A vpn : Mapped(vpn)' <=> Mapped(vpn)
  BY DEF Mapped
<1>5. RootTable' = RootTable
  BY <1>1 DEF RootTable, Pointer, NoPte, Pte, Digit
<1>6. MidTable' = MidTable
  BY <1>2 DEF MidTable, Pointer, NoPte, Pte, Digit, Rank
<1>7. \A n : LastTable(n)' = LastTable(n)
  BY <1>1, <1>4 DEF LastTable, Leaf, NoPte, Pte, Digit, Page, Low
<1>8. QED
  BY <1>1, <1>2, <1>3, <1>4, <1>5, <1>6, <1>7

(* Where the tables lie stays while the sections and the tables found do.  *)
LEMMA PlacesStay ==
  ASSUME ptSecs' = ptSecs, ptVpns' = ptVpns
  PROVE  /\ \A l : VpnsTo(l) => VpnsTo(l)'
         /\ ptRoots' = ptRoots /\ RootsMade => RootsMade'
<1>1. Mid' = Mid /\ Nums' = Nums
  BY SecsStay
<1>2. LastVpns => LastVpns'
  BY <1>1 DEF LastVpns, Page, Low, Rank
<1>3. \A l : VpnsTo(l) => VpnsTo(l)'
  BY <1>1, <1>2 DEF VpnsTo, Levels, Depth, Page, Low
<1>4. ptRoots' = ptRoots /\ RootsMade => RootsMade'
  BY DEF RootsMade, Levels, Depth
<1>5. QED
  BY <1>3, <1>4

(* Filling a level makes its tables.                                       *)
LEMMA RootFilled ==
  ASSUME Good, FillLevel, ptLevel = 0, VpnsTo(3), RootsMade, MemTo(0)
  PROVE  MemTo(1)'
<1>1. ptSecs' = ptSecs /\ PtRoot \in Nat
  BY PtAssumption DEF FillLevel
<1>2. DOMAIN ptMem = PtRoot .. PtRoot + 0 - 1 /\ MemTyped
  BY <1>1 DEF MemTo
<1>3. RootedAt(0, 1)
  BY RootAt DEF Levels, Depth, RootedAt
<1>4. ~IndexError(0) /\ \A k \in Digit : Entry(0, 1, k) = RootTable[k]
  BY Entries
<1>5. 0 \in 0 .. 2 /\ 1 \in Nat
  OBVIOUS
<1>6. GrownBy(0, 1)
  BY <1>2, <1>3, <1>4, <1>5, Filled
<1>7. /\ DOMAIN ptMem' = PtRoot .. PtRoot + 0 + 1 - 1
      /\ \A n \in 1 .. 1 : ptMem'[PtRoot + 0 + n - 1] = [k \in Digit |-> Entry(0, n, k)]
  BY <1>6 DEF GrownBy
<1>8. [k \in Digit |-> Entry(0, 1, k)] = RootTable
  BY <1>4 DEF RootTable
<1>9. ptMem'[PtRoot] = RootTable
  <2>1. PtRoot + 0 + 1 - 1 = PtRoot /\ 1 \in 1 .. 1
    BY <1>1
  <2>2. QED
    BY <1>7, <1>8, <2>1
<1>10. DOMAIN ptMem' = PtRoot .. PtRoot + 1 - 1 /\ \A p \in DOMAIN ptMem' : p = PtRoot
  BY <1>1, <1>7
<1>11. MemTyped'
  BY <1>9, <1>10, TablesTyped DEF MemTyped
<1>12. RootTable' = RootTable
  BY <1>1, SecsStay
<1>13. QED
  BY <1>9, <1>10, <1>11, <1>12 DEF MemTo

(* The table below it.                                                     *)
LEMMA MidFilled ==
  ASSUME Good, FillLevel, ptLevel = 1, VpnsTo(3), RootsMade, MemTo(1)
  PROVE  MemTo(2)'
<1>1. ptSecs' = ptSecs /\ PtRoot \in Nat
  BY PtAssumption DEF FillLevel
<1>2. DOMAIN ptMem = PtRoot .. PtRoot + 1 - 1 /\ MemTyped /\ ptMem[PtRoot] = RootTable
  BY <1>1 DEF MemTo
<1>3. RootedAt(1, 1)
  BY RootAt DEF Levels, Depth, RootedAt
<1>4. ~IndexError(1) /\ \A k \in Digit : Entry(1, 1, k) = MidTable[k]
  BY Entries
<1>5. 1 \in 0 .. 2 /\ 1 \in Nat
  OBVIOUS
<1>6. GrownBy(1, 1)
  BY <1>2, <1>3, <1>4, <1>5, Filled
<1>7. /\ DOMAIN ptMem' = PtRoot .. PtRoot + 1 + 1 - 1
      /\ \A p \in DOMAIN ptMem : ptMem'[p] = ptMem[p]
      /\ \A n \in 1 .. 1 : ptMem'[PtRoot + 1 + n - 1] = [k \in Digit |-> Entry(1, n, k)]
  BY <1>6 DEF GrownBy
<1>8. [k \in Digit |-> Entry(1, 1, k)] = MidTable
  BY <1>4 DEF MidTable
<1>9. ptMem'[PtRoot + 1] = MidTable /\ ptMem'[PtRoot] = RootTable
  <2>1. PtRoot + 1 + 1 - 1 = PtRoot + 1 /\ 1 \in 1 .. 1 /\ PtRoot \in DOMAIN ptMem
    BY <1>1, <1>2
  <2>2. QED
    BY <1>2, <1>7, <1>8, <2>1
<1>10. /\ DOMAIN ptMem' = PtRoot .. PtRoot + 2 - 1
      /\ \A p \in DOMAIN ptMem' : p = PtRoot \/ p = PtRoot + 1
  BY <1>1, <1>7
<1>11. MemTyped'
  BY <1>9, <1>10, TablesTyped DEF MemTyped
<1>12. RootTable' = RootTable /\ MidTable' = MidTable
  BY <1>1, SecsStay
<1>13. QED
  BY <1>9, <1>10, <1>11, <1>12 DEF MemTo

(* The tables of the last level.                                           *)
LEMMA LastFilled ==
  ASSUME Good, FillLevel, ptLevel = 2, VpnsTo(3), RootsMade, MemTo(2)
  PROVE  MemTo(3)'
<1> DEFINE N == Cardinality(Nums)
<1>1. ptSecs' = ptSecs /\ PtRoot \in Nat
  BY PtAssumption DEF FillLevel
<1>2. /\ DOMAIN ptMem = PtRoot .. PtRoot + 2 - 1 /\ MemTyped
      /\ ptMem[PtRoot] = RootTable /\ ptMem[PtRoot + 1] = MidTable
  BY <1>1 DEF MemTo
<1>3. /\ N \in Nat /\ \A n \in Nums : Rank(Nums, n) \in 1 .. N
      /\ \A m \in 1 .. N : \E n \in Nums : Rank(Nums, n) = m
  BY NumsRanks
<1>4. RootedAt(2, N)
  <2>1. /\ DOMAIN ptVpns[2] = 1 .. N /\ DOMAIN ptRoots[2] = DOMAIN ptVpns[2]
        /\ \A n \in DOMAIN ptVpns[2] : ptRoots[2][n] = PtRoot + 2 + n - 1
    <3>1. 2 \in Levels
      BY DEF Levels, Depth
    <3>2. QED
      BY <3>1, RootAt
  <2> HIDE DEF N
  <2>2. QED
    BY <2>1 DEF RootedAt
<1>5. ~IndexError(2) /\ \A n \in Nums : \A k \in Digit : Entry(2, Rank(Nums, n), k) = LastTable(n)[k]
  BY Entries
<1> HIDE DEF N
<1>6. GrownBy(2, N)
  <2>1. 2 \in 0 .. 2
    OBVIOUS
  <2>2. QED
    BY <1>2, <1>3, <1>4, <1>5, <2>1, Filled
<1>7. /\ DOMAIN ptMem' = PtRoot .. PtRoot + 2 + N - 1
      /\ \A p \in DOMAIN ptMem : ptMem'[p] = ptMem[p]
      /\ \A n \in 1 .. N : ptMem'[PtRoot + 2 + n - 1] = [k \in Digit |-> Entry(2, n, k)]
  BY <1>6 DEF GrownBy
<1>8. \A n \in Nums : [k \in Digit |-> Entry(2, Rank(Nums, n), k)] = LastTable(n)
  BY <1>5 DEF LastTable
<1>9. ptMem'[PtRoot + 1] = MidTable /\ ptMem'[PtRoot] = RootTable
  BY <1>1, <1>2, <1>7
<1>10. \A n \in Nums : ptMem'[PtRoot + 1 + Rank(Nums, n)] = LastTable(n)
  <2>1. TAKE n \in Nums
  <2>2. Rank(Nums, n) \in 1 .. N /\ PtRoot + 2 + Rank(Nums, n) - 1 = PtRoot + 1 + Rank(Nums, n)
    BY <1>1, <1>3
  <2>3. QED
    BY <1>7, <1>8, <2>2
<1>11. DOMAIN ptMem' = PtRoot .. PtRoot + 1 + N
  BY <1>1, <1>3, <1>7
<1>12. MemTyped'
  <2>1. ASSUME NEW p \in DOMAIN ptMem', p # PtRoot, p # PtRoot + 1
        PROVE  \E n \in Nums : ptMem'[p] = LastTable(n)
    <3>1. p - PtRoot - 1 \in 1 .. N /\ p \in Int
      BY <1>1, <1>3, <1>11, <2>1
    <3>2. PICK n \in Nums : Rank(Nums, n) = p - PtRoot - 1
      BY <1>3, <3>1
    <3>3. PtRoot + 1 + Rank(Nums, n) = p
      BY <1>1, <3>1, <3>2
    <3>4. QED
      BY <1>10, <3>3
  <2>2. QED
    BY <1>9, <2>1, TablesTyped DEF MemTyped
<1>13. /\ RootTable' = RootTable /\ MidTable' = MidTable /\ Nums' = Nums
       /\ \A n : LastTable(n)' = LastTable(n)
  BY <1>1, SecsStay
<1>14. DOMAIN ptMem' = PtRoot .. PtRoot + 1 + Cardinality(Nums)
  BY <1>11 DEF N
<1>15. QED
  BY <1>9, <1>10, <1>12, <1>13, <1>14 DEF MemTo, Rank

----------------------------------------------------------------------------
(* What the hardware finds in the tables.                                  *)
LEMMA PteKinds ==
  /\ ~NoPte.v /\ ~LeadsOn(NoPte)
  /\ \A p : LeadsOn(Pointer(p)) /\ Pointer(p).ppn = p
  /\ \A p : Leaf(p).v /\ IsLeaf(Leaf(p)) /\ Leaf(p).r /\ Leaf(p).ppn = p
  /\ \A p : Rights(Leaf(p)) = SectionRights
  /\ \A p : \A req \in PtRequests : Allows(Leaf(p), req) <=> req.mode = "S"
<1>1. ~NoPte.v /\ ~LeadsOn(NoPte)
  BY DEF NoPte, Pte, LeadsOn
<1>2. \A p : LeadsOn(Pointer(p)) /\ Pointer(p).ppn = p
  BY DEF Pointer, Pte, LeadsOn, IsLeaf
<1>3. \A p : /\ Leaf(p).v /\ Leaf(p).x /\ Leaf(p).w /\ Leaf(p).r /\ Leaf(p).a /\ Leaf(p).d
              /\ Leaf(p).u = FALSE /\ Leaf(p).ppn = p
  BY DEF Leaf, Pte
<1>4. \A p : IsLeaf(Leaf(p))
  BY <1>3 DEF IsLeaf
<1>5. \A p : Rights(Leaf(p)) = SectionRights
  BY DEF Rights, SectionRights, Leaf, Pte
<1>6. ASSUME NEW p, NEW req \in PtRequests
      PROVE  Allows(Leaf(p), req) <=> req.mode = "S"
  <2>1. req.kind \in {"instr", "load", "store"}
    BY RequestsAssumption
  <2>2. QED
    BY <1>3, <2>1 DEF Allows
<1>7. QED
  BY <1>1, <1>2, <1>3, <1>4, <1>5, <1>6

(* In the finished tables a request ends at its own page or at a fault.    *)
LEMMA PagesFound ==
  ASSUME Good, MemTo(3), NEW req \in PtRequests
  PROVE  Translation(req) = IF Mapped(req.vpn) /\ req.mode = "S"
                            THEN Fill("page", req.vpn, SectionRights) ELSE PageFault
<1> DEFINE vpn == req.vpn
<1>1. vpn \in Nat /\ vpn < PtFanout * Low(2)
  BY RequestsAssumption
<1>2. PICK b \in Digit, k \in Digit, t \in Digit : vpn = Page(b, k, t)
  BY <1>1, Digits
<1>3. Part(vpn, 2) = b /\ Part(vpn, 1) = k /\ Part(vpn, 0) = t
  BY <1>2, PageIs
<1>4. Cardinality(Nums) \in Nat /\ PtRoot \in Nat /\ \A n \in Nums : Rank(Nums, n) \in 1 .. Cardinality(Nums)
  BY NumsRanks, PtAssumption
<1>5. DOMAIN ptMem = PtRoot .. PtRoot + 1 + Cardinality(Nums)
  BY DEF MemTo
<1>6. /\ ptMem[PtRoot] = RootTable /\ ptMem[PtRoot + 1] = MidTable
      /\ \A n \in Nums : ptMem[PtRoot + 1 + Rank(Nums, n)] = LastTable(n)
  BY DEF MemTo
<1>7. /\ PtRoot \in DOMAIN ptMem /\ PtRoot + 1 \in DOMAIN ptMem
      /\ \A n \in Nums : PtRoot + 1 + Rank(Nums, n) \in DOMAIN ptMem
  BY <1>4, <1>5
<1>8. Mapped(vpn) => b = Mid /\ k \in Nums
  BY <1>2, Reach
<1> HIDE DEF vpn
<1>9. Entry2(vpn) = IF b = Mid THEN Pointer(PtRoot + 1) ELSE NoPte
  BY <1>2, <1>3, <1>6, <1>7 DEF Entry2, PteAt, RootTable
<1>10. b = Mid => Entry1(vpn) = IF k \in Nums THEN Pointer(PtRoot + 1 + Rank(Nums, k)) ELSE NoPte
  <2> SUFFICES ASSUME b = Mid
               PROVE  Entry1(vpn) = MidTable[k]
    BY <1>2 DEF MidTable
  <2>1. Entry2(vpn).ppn = PtRoot + 1
    BY <1>9, PteKinds
  <2>2. QED
    BY <1>3, <1>6, <1>7, <2>1 DEF Entry1, PteAt
<1>11. b = Mid /\ k \in Nums => Entry0(vpn) = IF Mapped(vpn) THEN Leaf(vpn) ELSE NoPte
  <2> SUFFICES ASSUME b = Mid, k \in Nums
               PROVE  Entry0(vpn) = LastTable(k)[t]
    BY <1>2 DEF LastTable
  <2>1. Entry1(vpn).ppn = PtRoot + 1 + Rank(Nums, k)
    BY <1>10, PteKinds
  <2>2. QED
    BY <1>3, <1>6, <1>7, <2>1 DEF Entry0, PteAt
<1>12. ASSUME ~Mapped(vpn)
       PROVE  ~EndPte(vpn).v
  <2>1. CASE b # Mid
    BY <1>9, <2>1, PteKinds DEF EndPte
  <2>2. CASE b = Mid /\ k \notin Nums
    BY <1>9, <1>10, <2>2, PteKinds DEF EndPte
  <2>3. CASE b = Mid /\ k \in Nums
    BY <1>9, <1>10, <1>11, <1>12, <2>3, PteKinds DEF EndPte
  <2>4. QED
    BY <2>1, <2>2, <2>3
<1>13. ASSUME Mapped(vpn)
       PROVE  EndPte(vpn) = Leaf(vpn) /\ EndLevel(vpn) = 0
  BY <1>8, <1>9, <1>10, <1>11, <1>13, PteKinds DEF EndPte, EndLevel
<1>14. CASE ~Mapped(vpn)
  BY <1>12, <1>14 DEF Translation, vpn
<1>15. CASE Mapped(vpn)
  <2>1. Low(0) = 1
    BY LowIs
  <2>2. vpn % 1 = 0 /\ vpn + 0 = vpn
    BY <1>1 DEF vpn
  <2>3. Translation(req) = IF Allows(Leaf(vpn), req)
                           THEN Fill("page", vpn + 0, Rights(Leaf(vpn))) ELSE PageFault
    BY <1>13, <1>15, <2>1, <2>2, PteKinds DEF Translation, vpn
  <2>4. QED
    BY <1>15, <2>2, <2>3, PteKinds DEF vpn
<1>16. QED
  BY <1>14, <1>15

----------------------------------------------------------------------------
(* ptgen.py and then the walker.                                           *)
PagingInv ==
  /\ ptSecs = <<>> \/ ptSecs \in PtSections
  /\ Good => PagesInv /\ WalkInv

(* No table is made yet.                                                   *)
LEMMA PagingInitInv == PtInit /\ WkInit => PagingInv
<1> SUFFICES ASSUME PtInit, WkInit
             PROVE  PagingInv
  OBVIOUS
<1>1. CASE ptSecs = <<>>
  BY <1>1 DEF PagingInv, Good
<1>2. CASE PtState("vpns") /\ ptSecs \in PtSections /\ ptMem = <<>>
  <2>1. PagesInv
    BY <1>2 DEF PtState, WkInit, PagesInv, VpnsTo, Levels, Depth
  <2>2. WalkInv
    <3>1. MemTyped
      BY <1>2 DEF MemTyped
    <3>2. wkState = "idle" /\ wkHit = FALSE /\ wkFill = NoFill
      BY DEF WkInit
    <3>3. OnTheWay /\ WalksTranslate
      BY <3>2 DEF OnTheWay, WalksTranslate
    <3>4. QED
      BY <3>1, <3>2, <3>3 DEF WalkInv
  <2>3. QED
    BY <1>2, <2>1, <2>2 DEF PagingInv
<1>3. QED
  BY <1>1, <1>2 DEF PtInit

(* What is in memory stays what it is.                                     *)
LEMMA MemStays ==
  ASSUME ptSecs' = ptSecs, ptMem' = ptMem
  PROVE  \A l : MemTo(l) => MemTo(l)'
<1>1. /\ Nums' = Nums /\ RootTable' = RootTable /\ MidTable' = MidTable
      /\ \A n : LastTable(n)' = LastTable(n)
  BY SecsStay
<1>2. MemTyped => MemTyped'
  BY DEF MemTyped
<1>3. QED
  BY <1>1, <1>2 DEF MemTo, Rank

(* While ptgen.py runs there is no walk.                                   *)
LEMMA NoWalk ==
  ASSUME WalkInv, wkState = "idle", wkReq = <<>>, UNCHANGED wkVars, MemTyped'
  PROVE  WalkInv'
<1>1. wkState' = "idle" /\ wkReq' = <<>> /\ wkHit' = wkHit /\ wkFill' = wkFill
  BY DEF wkVars
<1>2. wkFill' = NoFill
  BY <1>1 DEF WalkInv
<1>3. OnTheWay' /\ WalksTranslate'
  BY <1>1, <1>2 DEF OnTheWay, WalksTranslate, NoFill, Fill
<1>4. wkHit' \in BOOLEAN /\ (wkFill = NoFill)'
  BY <1>1, <1>2 DEF WalkInv, NoFill, Fill
<1>5. QED
  BY <1>1, <1>3, <1>4 DEF WalkInv

(* A step of ptgen.py makes the tables that are called for.                *)
LEMMA TablesStepInv ==
  ASSUME Good, PagesInv, WalkInv, PtNext, UNCHANGED wkVars
  PROVE  PagesInv' /\ WalkInv'
<1>1. wkState = "idle" /\ wkReq = <<>> /\ wkState' = "idle" /\ wkReq' = <<>>
  BY DEF PtNext, FindTables, PlaceTables, FillLevel, PagesInv, wkVars
<1>2. CASE FindTables
  <2>1. ptPc = "vpns" /\ ptLevel \in {1, 2} /\ VpnsTo(ptLevel) /\ ptMem = <<>> /\ ptMem' = <<>>
    BY <1>2 DEF FindTables, PagesInv
  <2>2. CASE ptLevel = 1
    <3>1. VpnsTo(1)
      BY <2>1, <2>2
    <3>2. VpnsTo(1 + 1)'
      BY <1>2, <2>2, <3>1, VpnsFound
    <3>3. ptPc' = "vpns" /\ ptLevel' = 2
      BY <1>2, <2>1, <2>2 DEF FindTables, Depth
    <3>4. VpnsTo(ptLevel)'
      BY <3>2, <3>3 DEF VpnsTo
    <3>5. PagesInv'
      BY <1>1, <2>1, <3>3, <3>4 DEF PagesInv
    <3>6. QED
      BY <1>1, <2>1, <3>5, NoWalk DEF MemTyped
  <2>3. CASE ptLevel = 2
    <3>1. VpnsTo(2)
      BY <2>1, <2>3
    <3>2. VpnsTo(2 + 1)'
      BY <1>2, <2>3, <3>1, VpnsFound
    <3>3. ptPc' = "roots" /\ ptLevel' = 0
      BY <1>2, <2>1, <2>3 DEF FindTables, Depth
    <3>4. VpnsTo(3)'
      BY <3>2 DEF VpnsTo
    <3>5. PagesInv'
      BY <1>1, <2>1, <3>3, <3>4 DEF PagesInv
    <3>6. QED
      BY <1>1, <2>1, <3>5, NoWalk DEF MemTyped
  <2>4. QED
    BY <2>1, <2>2, <2>3
<1>3. CASE PlaceTables
  <2>1. /\ ptPc = "roots" /\ ptLevel = 0 /\ VpnsTo(3) /\ ptMem' = <<>>
        /\ ptPc' = "fill" /\ ptLevel' = 0 /\ ptVpns' = ptVpns /\ ptSecs' = ptSecs
    BY <1>3 DEF PlaceTables, PagesInv
  <2>2. VpnsTo(3)' /\ RootsMade'
    BY <1>3, <2>1, PlacesStay, RootsPlaced
  <2>3. MemTo(ptLevel)' /\ MemTyped'
    <3>1. DOMAIN ptMem' = {} /\ PtRoot .. PtRoot + 0 - 1 = {}
      BY <2>1, PtAssumption
    <3>2. QED
      BY <2>1, <3>1 DEF MemTo, MemTyped
  <2>4. PagesInv'
    BY <1>1, <2>1, <2>2, <2>3 DEF PagesInv
  <2>5. QED
    BY <1>1, <2>3, <2>4, NoWalk
<1>4. CASE FillLevel
  <2>1. /\ ptPc = "fill" /\ ptLevel \in 0 .. 2 /\ VpnsTo(3) /\ RootsMade /\ MemTo(ptLevel)
        /\ ptVpns' = ptVpns /\ ptSecs' = ptSecs /\ ptRoots' = ptRoots
    BY <1>4 DEF FillLevel, PagesInv
  <2>2. VpnsTo(3)' /\ RootsMade'
    BY <2>1, PlacesStay
  <2>3. ~IndexError(ptLevel)
    BY <2>1, Entries
  <2>4. IF ptLevel = 2 THEN ptPc' = "done" ELSE ptPc' = "fill" /\ ptLevel' = ptLevel + 1
    BY <1>4, <2>1, <2>3 DEF FillLevel, Depth
  <2>5. CASE ptLevel = 0
    <3>1. MemTo(1)'
      BY <1>4, <2>1, <2>5, RootFilled
    <3>2. ptPc' = "fill" /\ ptLevel' = 1
      BY <2>4, <2>5
    <3>3. MemTo(ptLevel)' /\ MemTyped'
      BY <3>1, <3>2 DEF MemTo
    <3>4. PagesInv'
      BY <1>1, <2>2, <3>2, <3>3 DEF PagesInv
    <3>5. QED
      BY <1>1, <3>3, <3>4, NoWalk
  <2>6. CASE ptLevel = 1
    <3>1. MemTo(2)'
      BY <1>4, <2>1, <2>6, MidFilled
    <3>2. ptPc' = "fill" /\ ptLevel' = 2
      BY <2>4, <2>6
    <3>3. MemTo(ptLevel)' /\ MemTyped'
      BY <3>1, <3>2 DEF MemTo
    <3>4. PagesInv'
      BY <1>1, <2>2, <3>2, <3>3 DEF PagesInv
    <3>5. QED
      BY <1>1, <3>3, <3>4, NoWalk
  <2>7. CASE ptLevel = 2
    <3>1. MemTo(3)' /\ MemTyped'
      <4>1. MemTo(3)'
        BY <1>4, <2>1, <2>7, LastFilled
      <4>2. QED
        BY <4>1 DEF MemTo
    <3>2. ptPc' = "done"
      BY <2>4, <2>7
    <3>3. PagesInv'
      BY <1>1, <2>2, <3>1, <3>2 DEF PagesInv
    <3>4. QED
      BY <1>1, <3>1, <3>3, NoWalk
  <2>8. QED
    BY <2>1, <2>5, <2>6, <2>7
<1>5. QED
  BY <1>2, <1>3, <1>4 DEF PtNext

(* A step of the walker leaves them as they are.                           *)
LEMMA WalkerStepInv ==
  ASSUME Good, PagesInv, WalkInv, [WkNext]_<<ptVars, wkVars>>
  PROVE  PagesInv' /\ WalkInv'
<1>1. WalkInv'
  BY WalkStepInv
<1>2. /\ ptPc' = ptPc /\ ptSecs' = ptSecs /\ ptLevel' = ptLevel /\ ptVpns' = ptVpns
      /\ ptRoots' = ptRoots /\ ptMem' = ptMem
  BY DEF WkNext, Start, ReadPte, WaitHit, WaitMiss, RecvRetry, RecvPte, WriteBack,
         ptVars, wkVars
<1>3. /\ ptPc # "done" => wkState' = wkState /\ wkReq' = wkReq
      /\ wkReq' = wkReq \/ wkReq' \in PtRequests
  <2>1. ASSUME NEW req \in PtRequests, Start(req)
        PROVE  ptPc = "done" /\ wkReq' \in PtRequests
    BY <2>1 DEF Start
  <2>2. CASE ReadPte \/ WaitHit \/ WaitMiss \/ RecvRetry \/ RecvPte \/ WriteBack
    <3>1. wkReq' = wkReq /\ wkState # "idle"
      BY <2>2 DEF ReadPte, WaitHit, WaitMiss, RecvRetry, RecvPte, WriteBack
    <3>2. ptPc = "done"
      BY <3>1 DEF PagesInv
    <3>3. QED
      BY <3>1, <3>2
  <2>3. CASE UNCHANGED <<ptVars, wkVars>>
    BY <2>3 DEF wkVars
  <2>4. QED
    BY <2>1, <2>2, <2>3 DEF WkNext
<1>4. (\A l : VpnsTo(l) => VpnsTo(l)') /\ (RootsMade => RootsMade')
  BY <1>2, PlacesStay
<1>5. \A l : MemTo(l) => MemTo(l)'
  BY <1>2, MemStays
<1>6. (ptPc = "vpns" => VpnsTo(ptLevel)') /\ (ptPc = "fill" => MemTo(ptLevel)')
  <2>1. ptPc = "vpns" => VpnsTo(ptLevel)'
    BY <1>2, <1>4 DEF PagesInv, VpnsTo
  <2>2. ptPc = "fill" => MemTo(ptLevel)'
    BY <1>2, <1>5 DEF PagesInv, MemTo
  <2>3. QED
    BY <2>1, <2>2
<1>7. PagesInv'
  BY <1>2, <1>3, <1>4, <1>5, <1>6 DEF PagesInv
<1>8. QED
  BY <1>1, <1>7

(* Both together.                                                          *)
LEMMA PagingStepInv == PagingInv /\ [PagingNext]_<<ptVars, wkVars>> => PagingInv'
<1> SUFFICES ASSUME PagingInv, [PagingNext]_<<ptVars, wkVars>>
             PROVE  PagingInv'
  OBVIOUS
<1>1. ptSecs' = ptSecs
  BY DEF PagingNext, PtNext, FindTables, PlaceTables, FillLevel,
         WkNext, Start, ReadPte, WaitHit, WaitMiss, RecvRetry, RecvPte, WriteBack, ptVars
<1>2. Good' = Good
  BY <1>1, SecsStay
<1>3. Good => PagesInv' /\ WalkInv'
  BY TablesStepInv, WalkerStepInv DEF PagingInv, PagingNext
<1>4. QED
  BY <1>1, <1>2, <1>3 DEF PagingInv

(* What that says of every answer of the walker.                           *)
LEMMA PagingFinds == PagingInv => SectionsMapped
<1> SUFFICES ASSUME PagingInv, ptSecs # <<>>, Supported
             PROVE  /\ ptPc # "failed"
                    /\ wkFill # NoFill =>
                         wkFill = IF Mapped(wkReq.vpn) /\ wkReq.mode = "S"
                                  THEN Fill("page", wkReq.vpn, SectionRights) ELSE PageFault
  BY DEF SectionsMapped
<1>1. Good /\ PagesInv /\ WalkInv
  BY DEF PagingInv, Good
<1>2. ptPc # "failed"
  BY <1>1 DEF PagesInv
<1>3. ASSUME wkFill # NoFill
      PROVE  wkFill = IF Mapped(wkReq.vpn) /\ wkReq.mode = "S"
                      THEN Fill("page", wkReq.vpn, SectionRights) ELSE PageFault
  <2>1. wkFill = Translation(wkReq) /\ wkReq # <<>>
    BY <1>1, <1>3 DEF WalkInv, WalksTranslate
  <2>2. wkReq \in PtRequests /\ MemTo(3)
    BY <1>1, <2>1 DEF PagesInv
  <2>3. QED
    BY <1>1, <2>1, <2>2, PagesFound
<1>4. QED
  BY <1>2, <1>3

(* For every fanout and every place of the tables: whatever sections       *)
(* ptgen.py is asked to map, so long as they ascend, each in one table of  *)
(* the last level and all below one entry of the root, its tables lead the *)
(* hardware, through any number of cache misses, to every page of every    *)
(* section, and to no other.                                               *)
THEOREM SectionsFound == PagingSpec => []SectionsMapped
<1>1. QED
  BY PagingInitInv, PagingStepInv, PagingFinds, PTL DEF PagingSpec

----------------------------------------------------------------------------
(* The traces of trace_gen.py, replayed.                                   *)

(* What a line does to the memory m of the cache, and what the cache       *)
(* answers to it.                                                          *)
IsSend(p)  == p.cmd = 1
IsStore(p) == IsSend(p) /\ p.op >= 8
Serves(p, m, n) == n = IF IsStore(p) THEN StoreData(m, p) ELSE m
Answer(p, m) == Reply(p, IF p.op >= 8 THEN Dword(<<>>, 0) ELSE LoadData(m, p))

(* The lines take the cache through the memories mems: an expectation      *)
(* follows its request and is what the cache will answer to it, the end is *)
(* at the end.                                                             *)
Script(lines, mems) ==
  \A i \in 1 .. Len(lines) :
    /\ Serves(lines[i], mems[i], mems[i + 1])
    /\ IsSend(lines[i]) =>
         i < Len(lines) /\ lines[i + 1] = Answer(lines[i], mems[i])
    /\ lines[i].cmd = 2 /\ i # 1 => IsSend(lines[i - 1])
    /\ lines[i].cmd = 3 => i = Len(lines)

(* The bytes of the test.                                                  *)
ByteValue  == {0} \cup {Bytes(v, 8)[i] : v \in Nat, i \in 1 .. 8}
PacketData == Nat \cup Seq(ByteValue)
(* They take it from memory m to memory n.                                 *)
Leads(lines, m, n) ==
  \E mems : Script(lines, mems) /\ mems[1] = m /\ mems[Len(lines) + 1] = n

Endless(lines) == \A i \in 1 .. Len(lines) : lines[i].cmd # 3
(* Request p of a cache with memory m, which becomes n, and expectation q. *)
Expects(p, q, m, n) ==
  IsSend(p) /\ q = Answer(p, m) /\ Serves(p, m, n)

Packets == [cmd : {1, 2, 3, 5, 6}, op : Nat, addr : Nat, data : PacketData]
Pending == tgLines # <<>> /\ Head(tgLines).cmd = 2

(* The memory and the answer the cache comes to with the request it has.   *)
Reached == IF tgCmd # NoCmd /\ IsStore(tgCmd) THEN StoreData(tgCache, tgCmd) ELSE tgCache
Given   == IF tgCmd = NoCmd THEN tgResp ELSE <<Answer(tgCmd, tgCache)>>

TgInv ==
  /\ tgLines \in Seq(Packets) /\ tgVal \in Nat
  /\ tgMem \in [0 .. TgBytes - 1 -> ByteValue]
  /\ tgPc \in {"choose", "replay", "done"}
  /\ tgPc = "choose" =>
       tgLines # <<>> /\ ~Pending /\ Endless(tgLines)
  /\ tgPc = "replay" => tgLines # <<>> /\ tgLines[Len(tgLines)].cmd = 3
  /\ tgPc = "done" => tgLines = <<>>
  /\ tgCmd # NoCmd => IsSend(tgCmd) /\ tgCmd.op \in Nat /\ tgResp = <<>>
  /\ Given = IF Pending THEN <<Head(tgLines)>> ELSE <<>>
  /\ Leads(tgLines, Reached, tgMem)

TgSpec == TgInit /\ [][TgNext]_tgVars

----------------------------------------------------------------------------
(* The code of a size, and back.                                           *)
LEMMA SizeCodes == SizeCode(1) = 0 /\ SizeCode(2) = 1 /\ SizeCode(4) = 2 /\ SizeCode(8) = 3
BY DEF SizeCode

(* The size of a request is read back from its operation.                  *)
LEMMA SizeKept ==
  ASSUME NEW size \in Sizes
  PROVE  /\ OpSize(SizeCode(size) + 8) = size
         /\ OpSize(IF size = 8 THEN 3 ELSE SizeCode(size) + 4) = size
         /\ size = 8 \/ Unsigned(SizeCode(size) + 4)
         /\ SizeCode(size) \in 0 .. 3
<1>1. CASE size = 1
  <2>1. OpSize(8) = 1 /\ OpSize(4) = 1 /\ Unsigned(4)
    BY SMT DEF OpSize, Unsigned
  <2>2. SizeCode(size) = 0
    BY <1>1, SizeCodes
  <2>3. SizeCode(size) + 8 = 8 /\ (IF size = 8 THEN 3 ELSE SizeCode(size) + 4) = 4
        /\ SizeCode(size) + 4 = 4
    BY <1>1, <2>2
  <2>4. QED
    BY <1>1, <2>1, <2>2, <2>3
<1>2. CASE size = 2
  <2>1. OpSize(9) = 2 /\ OpSize(5) = 2 /\ Unsigned(5)
    BY SMT DEF OpSize, Unsigned
  <2>2. SizeCode(size) = 1
    BY <1>2, SizeCodes
  <2>3. SizeCode(size) + 8 = 9 /\ (IF size = 8 THEN 3 ELSE SizeCode(size) + 4) = 5
        /\ SizeCode(size) + 4 = 5
    BY <1>2, <2>2
  <2>4. QED
    BY <1>2, <2>1, <2>2, <2>3
<1>3. CASE size = 4
  <2>1. OpSize(10) = 4 /\ OpSize(6) = 4 /\ Unsigned(6)
    BY SMT DEF OpSize, Unsigned
  <2>2. SizeCode(size) = 2
    BY <1>3, SizeCodes
  <2>3. SizeCode(size) + 8 = 10 /\ (IF size = 8 THEN 3 ELSE SizeCode(size) + 4) = 6
        /\ SizeCode(size) + 4 = 6
    BY <1>3, <2>2
  <2>4. QED
    BY <1>3, <2>1, <2>2, <2>3
<1>4. CASE size = 8
  <2>1. OpSize(11) = 8 /\ OpSize(3) = 8
    BY SMT DEF OpSize
  <2>2. SizeCode(size) = 3
    BY <1>4, SizeCodes
  <2>3. SizeCode(size) + 8 = 11 /\ (IF size = 8 THEN 3 ELSE SizeCode(size) + 4) = 3
    BY <1>4, <2>2
  <2>4. QED
    BY <1>4, <2>1, <2>2, <2>3
<1>5. QED
  BY <1>1, <1>2, <1>3, <1>4 DEF Sizes

(* What the cache answers is a line that receives.                         *)
LEMMA AnswerLine == \A p, m : Answer(p, m).cmd = 2
BY DEF Answer, Reply, Packet

(* A request and its expectation are added.                                *)
LEMMA RequestAdded ==
  ASSUME NEW lines \in Seq(Packets), NEW p \in Packets, NEW q \in Packets,
         NEW m, NEW n0, NEW new,
         Leads(lines, m, n0), Endless(lines), Expects(p, q, n0, new)
  PROVE  Leads(lines \o <<p>> \o <<q>>, m, new)
<1>0. PICK mems : Script(lines, mems) /\ mems[1] = m /\ mems[Len(lines) + 1] = n0
  BY DEF Leads
<1> DEFINE n == Len(lines)
           long == lines \o <<p>> \o <<q>>
           next == [i \in 1 .. n + 3 |-> IF i <= n + 1 THEN mems[i] ELSE new]
<1>1. n \in Nat /\ Len(long) = n + 2 /\ long[n + 1] = p /\ long[n + 2] = q
      /\ \A i \in 1 .. n : long[i] = lines[i]
  OBVIOUS
<1>2. next[1] = mems[1] /\ next[n + 3] = new /\ next[n + 2] = new
      /\ \A i \in 1 .. n + 1 : next[i] = mems[i]
  BY <1>1
<1> HIDE DEF n, long, next
<1>3. ASSUME NEW i \in 1 .. n + 2
      PROVE  /\ Serves(long[i], next[i], next[i + 1])
             /\ IsSend(long[i]) =>
                  i < n + 2 /\ long[i + 1] = Answer(long[i], next[i])
             /\ long[i].cmd = 2 /\ i # 1 => IsSend(long[i - 1])
             /\ long[i].cmd = 3 => i = n + 2
  <2>1. CASE i \in 1 .. n
    <3>1. /\ Serves(lines[i], mems[i], mems[i + 1])
          /\ IsSend(lines[i]) =>
               i < Len(lines) /\ lines[i + 1] = Answer(lines[i], mems[i])
          /\ lines[i].cmd = 2 /\ i # 1 => IsSend(lines[i - 1])
          /\ lines[i].cmd # 3
      BY <1>0, <2>1 DEF Script, n, Endless
    <3>2. long[i] = lines[i] /\ next[i] = mems[i] /\ next[i + 1] = mems[i + 1]
      <4>1. i \in 1 .. n + 1 /\ i + 1 \in 1 .. n + 1
        BY <1>1, <2>1
      <4>2. QED
        BY <1>1, <1>2, <2>1, <4>1
    <3>3. i < n => long[i + 1] = lines[i + 1]
      BY <1>1, <2>1
    <3>4. i # 1 => long[i - 1] = lines[i - 1]
      BY <1>1, <2>1
    <3>5. QED
      BY <1>1, <2>1, <3>1, <3>2, <3>3, <3>4 DEF n
  <2>2. CASE i = n + 1
    BY <1>0, <1>1, <1>2, <2>2, AnswerLine DEF n, IsSend, Expects
  <2>3. CASE i = n + 2
    BY <1>1, <1>2, <2>3, AnswerLine DEF n, IsSend, Serves, IsStore, Expects
  <2>4. QED
    BY <1>1, <2>1, <2>2, <2>3
<1>4. Script(long, next)
  BY <1>1, <1>3 DEF Script
<1>5. next[1] = m /\ next[Len(long) + 1] = new
  BY <1>0, <1>1, <1>2
<1>6. Leads(long, m, new)
  BY <1>4, <1>5 DEF Leads
<1>7. QED
  BY <1>6 DEF long

(* A line that is for the replayer alone is added.                         *)
LEMMA OtherAdded ==
  ASSUME NEW lines \in Seq(Packets), NEW p \in Packets, NEW m, NEW n0,
         Leads(lines, m, n0), Endless(lines), p.cmd \notin {1, 2}
  PROVE  Leads(Append(lines, p), m, n0)
<1>0. PICK mems : Script(lines, mems) /\ mems[1] = m /\ mems[Len(lines) + 1] = n0
  BY DEF Leads
<1> DEFINE n == Len(lines)
           long == Append(lines, p)
           next == [i \in 1 .. n + 2 |-> IF i <= n + 1 THEN mems[i] ELSE mems[n + 1]]
<1>1. n \in Nat /\ Len(long) = n + 1 /\ long[n + 1] = p
      /\ \A i \in 1 .. n : long[i] = lines[i]
  OBVIOUS
<1>2. next[1] = mems[1] /\ next[n + 2] = mems[n + 1]
      /\ \A i \in 1 .. n + 1 : next[i] = mems[i]
  BY <1>1
<1> HIDE DEF n, long, next
<1>3. ASSUME NEW i \in 1 .. n + 1
      PROVE  /\ Serves(long[i], next[i], next[i + 1])
             /\ IsSend(long[i]) =>
                  i < n + 1 /\ long[i + 1] = Answer(long[i], next[i])
             /\ long[i].cmd = 2 /\ i # 1 => IsSend(long[i - 1])
             /\ long[i].cmd = 3 => i = n + 1
  <2>1. CASE i \in 1 .. n
    <3>1. /\ Serves(lines[i], mems[i], mems[i + 1])
          /\ IsSend(lines[i]) =>
               i < Len(lines) /\ lines[i + 1] = Answer(lines[i], mems[i])
          /\ lines[i].cmd = 2 /\ i # 1 => IsSend(lines[i - 1])
          /\ lines[i].cmd # 3
      BY <1>0, <2>1 DEF Script, n, Endless
    <3>2. long[i] = lines[i] /\ next[i] = mems[i] /\ next[i + 1] = mems[i + 1]
      <4>1. i \in 1 .. n + 1 /\ i + 1 \in 1 .. n + 1
        BY <1>1, <2>1
      <4>2. QED
        BY <1>1, <1>2, <2>1, <4>1
    <3>3. i < n => long[i + 1] = lines[i + 1]
      BY <1>1, <2>1
    <3>4. i # 1 => long[i - 1] = lines[i - 1]
      BY <1>1, <2>1
    <3>5. QED
      BY <1>1, <2>1, <3>1, <3>2, <3>3, <3>4 DEF n
  <2>2. CASE i = n + 1
    BY <1>1, <1>2, <2>2 DEF n, IsSend, Serves, IsStore
  <2>3. QED
    BY <1>1, <2>1, <2>2
<1>4. Script(long, next)
  BY <1>1, <1>3 DEF Script
<1>5. QED
  BY <1>0, <1>1, <1>2, <1>4 DEF Leads, n, long

(* A line is taken.                                                        *)
LEMMA LineTaken ==
  ASSUME NEW lines \in Seq(Packets), lines # <<>>, NEW m, NEW mid, NEW n0,
         Leads(lines, m, n0), Serves(Head(lines), m, mid)
  PROVE  Leads(Tail(lines), mid, n0)
<1>0. PICK mems : Script(lines, mems) /\ mems[1] = m /\ mems[Len(lines) + 1] = n0
  BY DEF Leads
<1> DEFINE n == Len(lines)
           next == [i \in 1 .. n |-> mems[i + 1]]
<1>1. n \in Nat \ {0} /\ Len(Tail(lines)) = n - 1
      /\ \A i \in 1 .. n - 1 : Tail(lines)[i] = lines[i + 1]
  OBVIOUS
<1>2. next[1] = mems[2] /\ next[n] = mems[n + 1]
      /\ \A i \in 1 .. n : next[i] = mems[i + 1]
  BY <1>1
<1> HIDE DEF next
<1> DEFINE tail == Tail(lines)
<1> HIDE DEF tail
<1>3. ASSUME NEW i \in 1 .. n - 1
      PROVE  /\ Serves(tail[i], next[i], next[i + 1])
             /\ IsSend(tail[i]) =>
                  i < n - 1 /\ tail[i + 1] = Answer(tail[i], next[i])
             /\ tail[i].cmd = 2 /\ i # 1 => IsSend(tail[i - 1])
             /\ tail[i].cmd = 3 => i = n - 1
  <2> DEFINE j == i + 1
  <2>1. j \in 1 .. n
    BY <1>1
  <2>2. /\ Serves(lines[j], mems[j], mems[j + 1])
        /\ IsSend(lines[j]) =>
             j < n /\ lines[j + 1] = Answer(lines[j], mems[j])
        /\ lines[j].cmd = 2 /\ j # 1 => IsSend(lines[j - 1])
        /\ lines[j].cmd = 3 => j = n
    BY <1>0, <2>1 DEF Script
  <2>3. tail[i] = lines[j] /\ next[i] = mems[j] /\ next[i + 1] = mems[j + 1]
    BY <1>1, <1>2 DEF tail
  <2>4. i < n - 1 => tail[i + 1] = lines[j + 1]
    BY <1>1 DEF tail
  <2>5. i # 1 => tail[i - 1] = lines[j - 1]
    <3> SUFFICES ASSUME i # 1
                 PROVE  tail[i - 1] = lines[j - 1]
      OBVIOUS
    <3>1. i - 1 \in 1 .. n - 1
      BY <1>1
    <3>2. tail[i - 1] = lines[(i - 1) + 1]
      BY <1>1, <3>1 DEF tail
    <3>3. QED
      BY <1>1, <3>2
  <2> HIDE DEF j
  <2>6. j = i + 1
    BY DEF j
  <2> HIDE DEF n
  <2>7. /\ i < n - 1 <=> j < n
        /\ i = n - 1 <=> j = n
        /\ j # 1
    BY <1>1, <2>6
  <2>8. Serves(tail[i], next[i], next[i + 1])
    BY <2>2, <2>3
  <2>9. tail[i].cmd = 3 => i = n - 1
    BY <2>2, <2>3, <2>7
  <2>10. tail[i].cmd = 2 /\ i # 1 => IsSend(tail[i - 1])
    BY <2>2, <2>3, <2>5, <2>7
  <2>11. IsSend(tail[i]) => i < n - 1
    BY <2>2, <2>3, <2>7
  <2>12. QED
    BY <2>2, <2>3, <2>4, <2>8, <2>9, <2>10, <2>11
<1>4. Script(tail, next)
  BY <1>1, <1>3 DEF Script, tail
<1>5. mems[2] = mid
  <2>1. Serves(lines[1], mems[1], mems[2])
    <3>1. 1 \in 1 .. Len(lines) /\ 1 + 1 = 2
      BY <1>1
    <3>2. QED
      BY <1>0, <3>1 DEF Script
  <2>2. Head(lines) = lines[1]
    OBVIOUS
  <2>3. QED
    BY <1>0, <2>1, <2>2 DEF Serves
<1>6. next[1] = mid /\ next[Len(tail) + 1] = n0
  BY <1>0, <1>1, <1>2, <1>5 DEF tail
<1>7. QED
  BY <1>4, <1>6 DEF Leads, tail

----------------------------------------------------------------------------
(* The generator's memory is one of bytes, and so are its packets.         *)
LEMMA BytesTyped ==
  ASSUME NEW mem \in [0 .. TgBytes - 1 -> ByteValue], NEW val \in Nat,
         NEW size \in Sizes, NEW addr \in Addrs(size)
  PROVE  /\ ReadMemory(mem, addr, size) \in [1 .. size -> ByteValue]
         /\ Bytes(val, size) \in [1 .. size -> ByteValue]
         /\ WriteMemory(mem, addr, Bytes(val, size), size) \in [0 .. TgBytes - 1 -> ByteValue]
         /\ addr \in Nat /\ size \in 1 .. 8
<1>1. size \in 1 .. 8 /\ addr \in Nat /\ addr + size <= TgBytes
  BY DEF Sizes, Addrs
<1>2. ReadMemory(mem, addr, size) \in [1 .. size -> ByteValue]
  BY <1>1, TgAssumption DEF ReadMemory
<1>3. Bytes(val, size) \in [1 .. size -> ByteValue]
  <2>1. ASSUME NEW i \in 1 .. size
        PROVE  Bytes(val, size)[i] \in ByteValue
    <3>1. i \in 1 .. 8
      BY <1>1
    <3>2. Bytes(val, size)[i] = Bytes(val, 8)[i]
      BY <3>1 DEF Bytes
    <3>3. QED
      BY <3>1, <3>2 DEF ByteValue
  <2>2. Bytes(val, size) = [i \in 1 .. size |-> Bytes(val, size)[i]]
    BY DEF Bytes
  <2>3. QED
    BY <2>1, <2>2
<1>4. \A a \in 0 .. TgBytes - 1 : a \in addr .. addr + size - 1 => a - addr + 1 \in 1 .. size
  BY <1>1
<1>5. WriteMemory(mem, addr, Bytes(val, size), size) \in [0 .. TgBytes - 1 -> ByteValue]
  BY <1>1, <1>3, <1>4, TgAssumption DEF WriteMemory
<1>6. QED
  BY <1>1, <1>2, <1>3, <1>5

(* Eight bytes are a sequence.                                             *)
LEMMA EightSeq == \A S : [1 .. 8 -> S] \subseteq Seq(S)
BY SeqDef

(* The data of a packet.                                                   *)
LEMMA DwordTyped ==
  ASSUME NEW bytes, NEW size \in Nat, bytes \in [1 .. size -> ByteValue]
  PROVE  Dword(bytes, 0) \in Seq(ByteValue)
<1>1. 0 \in ByteValue
  BY DEF ByteValue
<1>2. Dword(bytes, 0) \in [1 .. 8 -> ByteValue]
  BY <1>1 DEF Dword
<1>3. QED
  BY <1>2, EightSeq

(* No data.                                                                *)
LEMMA ZerosTyped == Dword(<<>>, 0) \in Seq(ByteValue)
<1>1. 0 \in ByteValue
  BY DEF ByteValue
<1>2. Dword(<<>>, 0) = [i \in 1 .. 8 |-> 0]
  <2>1. \A i \in 1 .. 8 : i \notin DOMAIN <<>>
    OBVIOUS
  <2>2. QED
    BY <2>1 DEF Dword
<1>3. Dword(<<>>, 0) \in [1 .. 8 -> ByteValue]
  BY <1>1, <1>2
<1>4. QED
  BY <1>3, EightSeq

(* The cache reads an aligned address where it is.                         *)
LEMMA AddrAligned ==
  ASSUME NEW size \in Sizes, NEW addr \in Addrs(size), NEW p,
         p.addr = addr, OpSize(p.op) = size
  PROVE  Aligned(p) = addr
<1>1. addr \in Nat /\ addr % size = 0
  BY DEF Addrs
<1>2. addr - (addr % size) = addr
  BY <1>1
<1>3. QED
  BY <1>2 DEF Aligned

(* A load without sign answers with the bytes the generator reads.         *)
LEMMA LoadDecoded ==
  ASSUME NEW size \in Sizes, NEW addr \in Addrs(size), NEW p, NEW m,
         p.addr = addr, OpSize(p.op) = size, size = 8 \/ Unsigned(p.op)
  PROVE  LoadData(m, p) = Dword(ReadMemory(m, addr, size), 0)
<1> DEFINE loaded == [i \in 1 .. size |-> m[addr + i - 1]]
<1>1. PICK above : LoadData(m, p) = Dword(loaded, above) /\ (size = 8 \/ above = 0)
  BY AddrAligned DEF LoadData
<1>2. loaded = ReadMemory(m, addr, size) /\ DOMAIN loaded = 1 .. size
  BY DEF ReadMemory
<1> HIDE DEF loaded
<1>3. CASE size = 8
  <2>1. \A i \in 1 .. 8 : i \in DOMAIN loaded
    BY <1>2, <1>3
  <2>2. Dword(loaded, above) = Dword(loaded, 0)
    BY <2>1 DEF Dword
  <2>3. QED
    BY <1>1, <1>2, <2>2
<1>4. QED
  BY <1>1, <1>2, <1>3

(* A store writes the bytes the generator writes.                          *)
LEMMA StoreDecoded ==
  ASSUME NEW size \in Sizes, NEW addr \in Addrs(size), NEW p, NEW m, NEW val \in Nat,
         p.addr = addr, OpSize(p.op) = size, p.data = Dword(Bytes(val, size), 0)
  PROVE  StoreData(m, p) = WriteMemory(m, addr, Bytes(val, size), size)
<1>1. size \in 1 .. 8 /\ addr \in Nat
  BY DEF Sizes, Addrs
<1>2. \A i \in 1 .. size : p.data[i] = Bytes(val, size)[i]
  <2>1. DOMAIN Bytes(val, size) = 1 .. size
    BY DEF Bytes
  <2>2. \A i \in 1 .. size : i \in 1 .. 8
    BY <1>1
  <2>3. QED
    BY <2>1, <2>2 DEF Dword
<1>3. \A a \in addr .. addr + size - 1 : a - addr + 1 \in 1 .. size
  BY <1>1
<1>4. \A a \in addr .. addr + size - 1 :
        p.data[a - addr + 1] = Bytes(val, size)[a - addr + 1]
  BY <1>2, <1>3
<1>5. StoreData(m, p) =
        [a \in DOMAIN m |-> IF a \in addr .. addr + size - 1
                            THEN p.data[a - addr + 1] ELSE m[a]]
  BY AddrAligned DEF StoreData
<1>6. QED
  BY <1>4, <1>5 DEF WriteMemory

(* The generator starts with a pause, and with the same bytes as the cache.*)
LEMMA TgInitInv == TgInit => TgInv
<1> SUFFICES ASSUME TgInit
             PROVE  TgInv
  OBVIOUS
<1>1. tgPc = "choose" /\ tgVal = 1 /\ tgResp = <<>> /\ tgCmd = NoCmd /\ tgLines = WaitLines(1)
      /\ tgCache = tgMem /\ tgMem = [a \in 0 .. TgBytes - 1 |-> 0]
  BY DEF TgInit, TgState
<1>2. tgLines = <<[cmd |-> 6, op |-> 0, addr |-> 0, data |-> 1],
                  [cmd |-> 5, op |-> 0, addr |-> 0, data |-> <<>>]>>
  BY <1>1 DEF WaitLines, Packet
<1>3. tgLines \in Seq(Packets) /\ Len(tgLines) = 2 /\ tgLines # <<>> /\ Head(tgLines) = tgLines[1]
  BY <1>2 DEF Packets, PacketData
<1>4. tgLines[1].cmd = 6 /\ tgLines[2].cmd = 5
  BY <1>2
<1>5. Leads(tgLines, tgCache, tgMem)
  <2> DEFINE mems == [i \in 1 .. 3 |-> tgMem]
  <2>1. mems[1] = tgMem /\ mems[2] = tgMem /\ mems[3] = tgMem
    OBVIOUS
  <2> HIDE DEF mems
  <2>2. Script(tgLines, mems)
    <3>1. ASSUME NEW i \in 1 .. 2
          PROVE  /\ mems[i] = tgMem /\ mems[i + 1] = tgMem
                 /\ tgLines[i].cmd \notin {1, 2, 3}
      BY <1>4, <2>1
    <3>2. QED
      BY <1>3, <3>1 DEF Script, Serves, IsStore, IsSend
  <2>3. mems[Len(tgLines) + 1] = tgMem
    BY <1>3, <2>1
  <2>4. QED
    BY <1>1, <2>1, <2>2, <2>3 DEF Leads
<1>6. ~Pending
  BY <1>3, <1>4 DEF Pending
<1>7. tgMem \in [0 .. TgBytes - 1 -> ByteValue]
  BY <1>1 DEF ByteValue
<1>8. Given = <<>> /\ Reached = tgCache
  BY <1>1 DEF Given, Reached
<1>9. Endless(tgLines)
  BY <1>3, <1>4 DEF Endless
<1>10. Leads(tgLines, Reached, tgMem)
  BY <1>5, <1>8
<1>11. QED
  BY <1>1, <1>3, <1>6, <1>7, <1>8, <1>9, <1>10 DEF TgInv

(* What a request and its expectation make of the invariant.               *)
LEMMA ChooseKeeps ==
  ASSUME TgInv, tgPc = "choose", tgPc' = tgPc,
         tgResp' = tgResp, tgCache' = tgCache, tgCmd' = tgCmd,
         NEW p \in Packets, NEW q \in Packets, tgLines' = tgLines \o <<p>> \o <<q>>,
         Expects(p, q, tgMem, tgMem'),
         tgMem' \in [0 .. TgBytes - 1 -> ByteValue], tgVal' \in Nat
  PROVE  TgInv'
<1>1. tgLines \in Seq(Packets) /\ tgLines # <<>> /\ ~Pending /\ Endless(tgLines)
      /\ Leads(tgLines, Reached, tgMem) /\ Given' = Given /\ Reached' = Reached
  BY DEF TgInv, Given, Reached
<1>2. PICK lines, m, new : lines = tgLines /\ m = Reached /\ new = tgMem'
  OBVIOUS
<1>3. Leads(lines \o <<p>> \o <<q>>, m, new)
  BY <1>1, <1>2, RequestAdded
<1>4. /\ tgLines' \in Seq(Packets) /\ Len(tgLines') = Len(tgLines) + 2 /\ tgLines' # <<>>
      /\ Head(tgLines') = Head(tgLines)
      /\ \A i \in 1 .. Len(tgLines) : tgLines'[i] = tgLines[i]
      /\ tgLines'[Len(tgLines) + 1] = p /\ tgLines'[Len(tgLines) + 2] = q
  BY <1>1
<1>5. Leads(tgLines', Reached', tgMem')
  BY <1>1, <1>2, <1>3
<1>6. ~Pending'
  BY <1>1, <1>4 DEF Pending
<1>7. Endless(tgLines')
  BY <1>1, <1>4, AnswerLine DEF IsSend, Endless, Expects
<1>8. QED
  BY <1>1, <1>4, <1>5, <1>6, <1>7 DEF TgInv

(* A load adds its request and the answer to expect.                       *)
LEMMA ChooseLoadKeeps ==
  ASSUME TgInv, NEW size \in Sizes, NEW addr \in Addrs(size), ChooseLoad(size, addr)
  PROVE  TgInv'
<1>1. tgMem \in [0 .. TgBytes - 1 -> ByteValue] /\ tgVal \in Nat
  BY DEF TgInv
<1>2. tgPc = "choose" /\ tgPc' = tgPc /\ tgMem' = tgMem /\ tgVal' = tgVal /\ tgCache' = tgCache
      /\ tgCmd' = tgCmd /\ tgResp' = tgResp
  BY DEF ChooseLoad
<1> DEFINE op == IF size = 8 THEN 3 ELSE SizeCode(size) + 4
           p == [cmd |-> 1, op |-> op, addr |-> addr, data |-> Dword(<<>>, 0)]
           q == [cmd |-> 2, op |-> 0, addr |-> addr,
                 data |-> Dword(ReadMemory(tgMem, addr, size), 0)]
<1>3. tgLines' = tgLines \o <<p>> \o <<q>>
  BY DEF ChooseLoad, SendLoad, RecvData, Packet
<1>4. op \in 0 .. 7 /\ OpSize(op) = size /\ (size = 8 \/ Unsigned(op))
  BY SizeKept
<1> HIDE DEF op
<1>5. p \in Packets /\ q \in Packets
  <2>1. op \in Nat /\ addr \in Nat
    BY <1>1, <1>4, BytesTyped
  <2>2. Dword(ReadMemory(tgMem, addr, size), 0) \in Seq(ByteValue)
    <3>1. size \in Nat /\ ReadMemory(tgMem, addr, size) \in [1 .. size -> ByteValue]
      BY <1>1, BytesTyped
    <3>2. QED
      BY <3>1, DwordTyped
  <2>3. QED
    BY <2>1, <2>2, ZerosTyped DEF Packets, PacketData
<1>6. LoadData(tgMem, p) = Dword(ReadMemory(tgMem, addr, size), 0)
  <2>1. p.addr = addr /\ p.op = op
    OBVIOUS
  <2> HIDE DEF p
  <2>2. QED
    BY <1>4, <2>1, LoadDecoded
<1>7. Expects(p, q, tgMem, tgMem)
  <2>1. q = Answer(p, tgMem)
    BY <1>4, <1>6 DEF Answer, Reply, Packet
  <2>2. IsSend(p) /\ ~IsStore(p)
    BY <1>4 DEF IsSend, IsStore
  <2>3. QED
    BY <2>1, <2>2 DEF Expects, Serves
<1> HIDE DEF p, q
<1>8. QED
  BY <1>1, <1>2, <1>3, <1>5, <1>7, ChooseKeeps

(* A store adds its request and an empty answer.                           *)
LEMMA ChooseStoreKeeps ==
  ASSUME TgInv, NEW size \in Sizes, NEW addr \in Addrs(size), ChooseStore(size, addr)
  PROVE  TgInv'
<1>1. tgMem \in [0 .. TgBytes - 1 -> ByteValue] /\ tgVal \in Nat
  BY DEF TgInv
<1>2. tgPc = "choose" /\ tgPc' = tgPc /\ tgVal' = tgVal + 1 /\ tgCache' = tgCache
      /\ tgCmd' = tgCmd /\ tgResp' = tgResp
      /\ tgMem' = WriteMemory(tgMem, addr, Bytes(tgVal, size), size)
  BY DEF ChooseStore
<1> DEFINE op == SizeCode(size) + 8
           p == [cmd |-> 1, op |-> op, addr |-> addr, data |-> Dword(Bytes(tgVal, size), 0)]
           q == [cmd |-> 2, op |-> 0, addr |-> addr, data |-> Dword(<<>>, 0)]
<1>3. tgLines' = tgLines \o <<p>> \o <<q>>
  BY DEF ChooseStore, SendStore, RecvData, Packet
<1>4. op \in Nat /\ op >= 8 /\ OpSize(op) = size
  BY SizeKept
<1> HIDE DEF op
<1>5. p \in Packets /\ q \in Packets
  <2>1. Dword(Bytes(tgVal, size), 0) \in Seq(ByteValue) /\ addr \in Nat
    <3>1. size \in Nat /\ addr \in Nat /\ Bytes(tgVal, size) \in [1 .. size -> ByteValue]
      BY <1>1, BytesTyped
    <3>2. QED
      BY <3>1, DwordTyped
  <2>2. QED
    BY <1>4, <2>1, ZerosTyped DEF Packets, PacketData
<1>6. StoreData(tgMem, p) = tgMem'
  <2>1. p.addr = addr /\ p.op = op /\ p.data = Dword(Bytes(tgVal, size), 0)
    OBVIOUS
  <2> HIDE DEF p
  <2>2. QED
    BY <1>1, <1>2, <1>4, <2>1, StoreDecoded
<1>7. tgMem' \in [0 .. TgBytes - 1 -> ByteValue] /\ tgVal' \in Nat
  BY <1>1, <1>2, BytesTyped
<1>8. Expects(p, q, tgMem, tgMem')
  <2>1. q = Answer(p, tgMem)
    BY <1>4 DEF Answer, Reply, Packet
  <2>2. IsSend(p) /\ IsStore(p)
    BY <1>4 DEF IsSend, IsStore
  <2>3. QED
    BY <1>6, <2>1, <2>2 DEF Expects, Serves
<1> HIDE DEF p, q
<1>9. QED
  BY <1>1, <1>2, <1>3, <1>5, <1>7, <1>8, ChooseKeeps

(* The end is added once, after everything else.                           *)
LEMMA EndTestKeeps ==
  ASSUME TgInv, EndTest
  PROVE  TgInv'
<1>1. tgPc = "choose" /\ tgPc' = "replay" /\ tgMem' = tgMem /\ tgVal' = tgVal
      /\ tgCmd' = tgCmd /\ tgResp' = tgResp /\ Reached' = Reached /\ Given' = Given
  BY DEF EndTest, Reached, Given
<1> DEFINE p == [cmd |-> 6, op |-> 0, addr |-> 0, data |-> 8]
           q == [cmd |-> 5, op |-> 0, addr |-> 0, data |-> <<>>]
           r == [cmd |-> 3, op |-> 0, addr |-> 0, data |-> <<>>]
           one == Append(tgLines, p)
           two == Append(one, q)
<1>2. tgLines \in Seq(Packets) /\ tgLines # <<>> /\ ~Pending
      /\ Endless(tgLines)
  BY <1>1 DEF TgInv
<1>3. p \in Packets /\ q \in Packets /\ r \in Packets
  BY EmptySeq DEF Packets, PacketData
<1>4. tgLines' = tgLines \o (<<p, q>> \o <<r>>)
  BY DEF EndTest, TestDone, WaitLines, Packet
<1>5. p.cmd = 6 /\ q.cmd = 5 /\ r.cmd = 3
  OBVIOUS
<1> HIDE DEF p, q, r
<1>6. tgLines' = Append(two, r)
  BY <1>2, <1>3, <1>4
<1>7. one \in Seq(Packets) /\ Len(one) = Len(tgLines) + 1 /\ one[Len(one)] = p
      /\ \A i \in 1 .. Len(tgLines) : one[i] = tgLines[i]
  BY <1>2, <1>3
<1>8. Endless(one)
  BY <1>2, <1>5, <1>7 DEF Endless
<1>9. two \in Seq(Packets) /\ Len(two) = Len(tgLines) + 2 /\ two[Len(two)] = q
      /\ \A i \in 1 .. Len(one) : two[i] = one[i]
  BY <1>3, <1>7
<1>10. Endless(two)
  BY <1>5, <1>7, <1>8, <1>9 DEF Endless
<1>11. tgLines' \in Seq(Packets) /\ Len(tgLines') = Len(tgLines) + 3 /\ tgLines' # <<>>
       /\ tgLines'[Len(tgLines')] = r /\ Head(tgLines') = Head(tgLines)
  BY <1>2, <1>3, <1>4
<1> HIDE DEF one, two
<1>12. PICK m : m = Reached
  OBVIOUS
<1>13. Leads(tgLines, m, tgMem)
  BY <1>12 DEF TgInv
<1>14. Leads(one, m, tgMem)
  BY <1>2, <1>3, <1>5, <1>13, OtherAdded DEF one
<1>15. Leads(two, m, tgMem)
  BY <1>3, <1>5, <1>7, <1>8, <1>14, OtherAdded DEF two
<1>16. Leads(Append(two, r), m, tgMem)
  BY <1>3, <1>5, <1>9, <1>10, <1>15, OtherAdded
<1>17. Leads(tgLines', Reached', tgMem')
  BY <1>1, <1>6, <1>12, <1>16
<1>18. ~Pending'
  BY <1>2, <1>11 DEF Pending
<1>19. QED
  BY <1>1, <1>2, <1>5, <1>11, <1>17, <1>18 DEF TgInv

(* What the line at the head says, and what follows it.                    *)
LEMMA LineFirst ==
  ASSUME TgInv, tgPc = "replay"
  PROVE  /\ tgLines \in Seq(Packets) /\ tgLines # <<>> /\ Head(tgLines) \in Packets
         /\ Tail(tgLines) \in Seq(Packets)
         /\ Head(tgLines).cmd = 3 => Tail(tgLines) = <<>>
         /\ Head(tgLines).cmd # 3 =>
              /\ Tail(tgLines) # <<>> /\ Tail(tgLines)[Len(Tail(tgLines))].cmd = 3
              /\ Head(Tail(tgLines)).cmd = 2 <=> IsSend(Head(tgLines))
              /\ IsSend(Head(tgLines)) =>
                   Head(Tail(tgLines)) = Answer(Head(tgLines), Reached)
<1>1. tgLines \in Seq(Packets) /\ tgLines # <<>> /\ tgLines[Len(tgLines)].cmd = 3
  BY DEF TgInv
<1>2. Head(tgLines) = tgLines[1] /\ Len(tgLines) \in Nat \ {0} /\ tgLines[1] \in Packets
      /\ Tail(tgLines) \in Seq(Packets) /\ Len(Tail(tgLines)) = Len(tgLines) - 1
  BY <1>1
<1>3. PICK mems : mems[1] = Reached /\ Script(tgLines, mems)
  BY DEF TgInv, Leads
<1>4. /\ IsSend(tgLines[1]) => tgLines[2] = Answer(tgLines[1], mems[1])
      /\ tgLines[1].cmd = 3 => 1 = Len(tgLines)
  <2>1. 1 \in 1 .. Len(tgLines) /\ 1 + 1 = 2
    BY <1>2
  <2>2. QED
    BY <1>3, <2>1 DEF Script
<1>5. tgLines[1].cmd = 3 => Tail(tgLines) = <<>>
  <2> SUFFICES ASSUME tgLines[1].cmd = 3
               PROVE  Tail(tgLines) = <<>>
    OBVIOUS
  <2>1. Len(tgLines) = 1
    BY <1>4
  <2>2. Len(Tail(tgLines)) = 0
    BY <1>2, <2>1
  <2>3. QED
    BY <1>2, <2>2, EmptySeq
<1>6. ASSUME tgLines[1].cmd # 3
      PROVE  /\ Tail(tgLines) # <<>> /\ Tail(tgLines)[Len(Tail(tgLines))] = tgLines[Len(tgLines)]
             /\ Head(Tail(tgLines)) = tgLines[2] /\ 2 \in 1 .. Len(tgLines)
  <2>1. Len(tgLines) >= 2
    BY <1>1, <1>2, <1>6
  <2>2. Tail(tgLines) # <<>>
    <3>1. Len(Tail(tgLines)) # 0
      BY <1>2, <2>1
    <3>2. QED
      BY <1>2, <3>1, EmptySeq
  <2>3. \A i \in 1 .. Len(tgLines) - 1 : Tail(tgLines)[i] = tgLines[i + 1]
    BY <1>1
  <2>4. Head(Tail(tgLines)) = Tail(tgLines)[1]
    BY <1>2, <2>2
  <2>5. QED
    BY <1>2, <2>1, <2>2, <2>3, <2>4
<1>7. ASSUME tgLines[1].cmd # 3, tgLines[2].cmd = 2
      PROVE  IsSend(tgLines[1])
  <2>1. 2 \in 1 .. Len(tgLines) /\ 2 # 1 /\ 2 - 1 = 1
    BY <1>6, <1>7
  <2>2. QED
    BY <1>3, <1>7, <2>1 DEF Script
<1>8. QED
  BY <1>1, <1>2, <1>3, <1>4, <1>5, <1>6, <1>7, AnswerLine

(* The replayer goes on to the next line.                                  *)
LEMMA TakeKeeps ==
  ASSUME TgInv, tgPc = "replay", tgLines' = Tail(tgLines), tgMem' = tgMem, tgVal' = tgVal,
         Serves(Head(tgLines), Reached, Reached'),
         tgPc' = IF Head(tgLines).cmd = 3 THEN "done" ELSE "replay",
         Given' = IF IsSend(Head(tgLines)) THEN <<Answer(Head(tgLines), Reached)>> ELSE <<>>,
         tgCmd' # NoCmd => IsSend(tgCmd') /\ tgCmd'.op \in Nat /\ tgResp' = <<>>
  PROVE  TgInv'
<1>1. tgLines \in Seq(Packets) /\ tgLines # <<>> /\ Leads(tgLines, Reached, tgMem)
  BY LineFirst DEF TgInv
<1>2. PICK m, mid : m = Reached /\ mid = Reached'
  OBVIOUS
<1>3. Leads(Tail(tgLines), mid, tgMem)
  BY <1>1, <1>2, LineTaken
<1>4. Leads(tgLines', Reached', tgMem')
  BY <1>2, <1>3
<1>5. CASE Head(tgLines).cmd = 3
  <2>1. tgLines' = <<>> /\ Given' = <<>> /\ tgPc' = "done"
    BY <1>5, LineFirst DEF IsSend
  <2>2. QED
    BY <1>4, <2>1 DEF TgInv, Pending
<1>6. CASE Head(tgLines).cmd # 3
  <2>1. /\ tgLines' \in Seq(Packets) /\ tgLines' # <<>> /\ tgLines'[Len(tgLines')].cmd = 3
        /\ Pending' <=> IsSend(Head(tgLines))
        /\ IsSend(Head(tgLines)) => Head(tgLines') = Answer(Head(tgLines), Reached)
    BY <1>6, LineFirst DEF Pending
  <2>2. tgPc' = "replay"
    BY <1>6
  <2>3. Given' = IF Pending' THEN <<Head(tgLines')>> ELSE <<>>
    BY <2>1
  <2>4. QED
    BY <1>4, <2>1, <2>2, <2>3 DEF TgInv
<1>7. QED
  BY <1>5, <1>6

(* Every step keeps the script one the cache can play.                     *)
LEMMA TgStepInv == TgInv /\ [TgNext]_tgVars => TgInv'
<1> SUFFICES ASSUME TgInv, [TgNext]_tgVars
             PROVE  TgInv'
  OBVIOUS
<1> DEFINE p == Head(tgLines)
<1>1. ASSUME NEW size \in Sizes, NEW addr \in Addrs(size), ChooseLoad(size, addr)
      PROVE  TgInv'
  BY <1>1, ChooseLoadKeeps
<1>2. ASSUME NEW size \in Sizes, NEW addr \in Addrs(size), ChooseStore(size, addr)
      PROVE  TgInv'
  BY <1>2, ChooseStoreKeeps
<1>3. CASE EndTest
  BY <1>3, EndTestKeeps
<1>4. CASE ReplaySend
  <2>1. tgPc = "replay" /\ p.cmd = 1 /\ IsSend(p) /\ tgLines' = Tail(tgLines) /\ tgPc' = tgPc
        /\ tgMem' = tgMem /\ tgVal' = tgVal /\ tgCache' = tgCache
        /\ tgCmd = NoCmd /\ tgResp = <<>> /\ tgCmd' = p /\ tgResp' = tgResp
    BY <1>4 DEF ReplaySend, Replaying, IsSend
  <2> HIDE DEF p
  <2>2. p # NoCmd
    BY <2>1 DEF NoCmd, Packet
  <2>3. Given' = <<Answer(p, Reached)>> /\ Serves(p, Reached, Reached')
    BY <2>1, <2>2 DEF Given, Reached, Serves
  <2>4. tgPc' = IF p.cmd = 3 THEN "done" ELSE "replay"
    BY <2>1
  <2>5. p.op \in Nat
    BY <2>1, LineFirst DEF p, Packets
  <2>6. QED
    BY <2>1, <2>3, <2>4, <2>5, TakeKeeps DEF p
<1>5. CASE LceLoad \/ LceStore
  <2>1. tgCmd # NoCmd /\ tgCmd' = NoCmd /\ tgPc' = tgPc /\ tgLines' = tgLines
        /\ tgMem' = tgMem /\ tgVal' = tgVal
    BY <1>5 DEF LceLoad, LceStore
  <2>2. IsSend(tgCmd) /\ tgResp = <<>>
    BY <2>1 DEF TgInv
  <2>3. tgResp' = Append(tgResp, Answer(tgCmd, tgCache)) /\ tgCache' = Reached
    <3>1. CASE LceLoad
      <4>1. tgCmd.op < 8 /\ ~(tgCmd.op >= 8) /\ tgCache' = tgCache
            /\ tgResp' = Append(tgResp, Reply(tgCmd, LoadData(tgCache, tgCmd)))
        <5>1. tgCmd.op \in Nat
          BY <2>1 DEF TgInv
        <5>2. QED
          BY <3>1, <5>1 DEF LceLoad
      <4>2. QED
        BY <4>1 DEF Answer, Reached, IsStore
    <3>2. CASE LceStore
      BY <2>1, <2>2, <3>2 DEF LceStore, Answer, Reached, IsStore
    <3>3. QED
      BY <1>5, <3>1, <3>2
  <2>4. tgResp' = <<Answer(tgCmd, tgCache)>>
    BY <2>2, <2>3
  <2>5. Given' = Given /\ Reached' = Reached
    BY <2>1, <2>3, <2>4 DEF Given, Reached
  <2>6. QED
    BY <2>1, <2>5 DEF TgInv, Pending
<1>6. CASE ReplayRecv
  <2>1. tgPc = "replay" /\ p.cmd = 2 /\ tgLines # <<>> /\ tgLines' = Tail(tgLines)
        /\ tgMem' = tgMem /\ tgVal' = tgVal /\ tgCache' = tgCache /\ tgCmd' = tgCmd
        /\ tgResp # <<>> /\ tgResp' = Tail(tgResp)
        /\ (Head(tgResp) = p => tgPc' = tgPc)
    BY <1>6 DEF ReplayRecv, Replaying
  <2>2. tgCmd = NoCmd /\ tgResp = <<p>>
    BY <2>1 DEF TgInv, Pending, Given
  <2>3. tgResp' = <<>> /\ Head(tgResp) = p
    BY <2>1, <2>2
  <2>4. Given' = <<>> /\ Reached' = Reached
    BY <2>1, <2>2, <2>3 DEF Given, Reached
  <2>5. Serves(p, Reached, Reached') /\ ~IsSend(p)
    BY <2>1, <2>4 DEF Serves, IsStore, IsSend
  <2>6. QED
    BY <2>1, <2>2, <2>3, <2>4, <2>5, TakeKeeps
<1>7. CASE ReplayWait
  <2>1. tgPc = "replay" /\ p.cmd \in {5, 6} /\ tgPc' = tgPc /\ tgMem' = tgMem /\ tgVal' = tgVal
        /\ tgCache' = tgCache /\ tgCmd' = tgCmd /\ tgResp' = tgResp
        /\ (tgLines' = tgLines \/ tgLines' = Tail(tgLines))
    BY <1>7 DEF ReplayWait, Replaying
  <2>2. Given = <<>> /\ Given' = Given /\ Reached' = Reached /\ ~IsSend(p)
    <3>1. p.cmd # 2 /\ ~IsSend(p)
      BY <2>1 DEF IsSend
    <3>2. Given = <<>>
      BY <3>1 DEF TgInv, Pending
    <3>3. Given' = Given /\ Reached' = Reached
      BY <2>1 DEF Given, Reached
    <3>4. QED
      BY <3>1, <3>2, <3>3
  <2>3. CASE tgLines' = tgLines
    BY <2>1, <2>2, <2>3 DEF TgInv, Pending
  <2>4. CASE tgLines' = Tail(tgLines)
    <3>1. Serves(p, Reached, Reached')
      BY <2>2 DEF Serves, IsStore
    <3>2. tgCmd' # NoCmd => IsSend(tgCmd') /\ tgCmd'.op \in Nat /\ tgResp' = <<>>
      BY <2>1 DEF TgInv
    <3>3. QED
      BY <2>1, <2>2, <2>4, <3>1, <3>2, TakeKeeps
  <2>5. QED
    BY <2>1, <2>3, <2>4
<1>8. CASE ReplayDone
  <2>1. tgPc = "replay" /\ p.cmd = 3 /\ tgPc' = "done" /\ tgMem' = tgMem /\ tgVal' = tgVal
        /\ tgCache' = tgCache /\ tgCmd' = tgCmd /\ tgResp' = tgResp /\ tgLines' = Tail(tgLines)
    BY <1>8 DEF ReplayDone, Replaying
  <2>2. Given' = <<>> /\ Reached' = Reached /\ ~IsSend(p)
    <3>1. Given = <<>> /\ ~IsSend(p)
      BY <2>1 DEF TgInv, Pending, IsSend
    <3>2. Given' = Given /\ Reached' = Reached
      BY <2>1 DEF Given, Reached
    <3>3. QED
      BY <3>1, <3>2
  <2>3. Serves(p, Reached, Reached')
    BY <2>2 DEF Serves, IsStore
  <2>4. tgCmd' # NoCmd => IsSend(tgCmd') /\ tgCmd'.op \in Nat /\ tgResp' = <<>>
    BY <2>1 DEF TgInv
  <2>5. QED
    BY <2>1, <2>2, <2>3, <2>4, TakeKeeps
<1>9. CASE UNCHANGED tgVars
  BY <1>9 DEF tgVars, TgInv, Pending, Given, Reached
<1>10. QED
  BY <1>1, <1>2, <1>3, <1>4, <1>5, <1>6, <1>7, <1>8, <1>9 DEF TgNext

(* The mock cache passes the test, whatever loads and stores               *)
(* bsg_trace_rom.py chooses and however many: the answer it decodes from a *)
(* request is what the generator expects, sign and upper bytes included,   *)
(* and it ends with the generator's bytes.                                 *)
THEOREM TestsPass == TgSpec => []TestPasses
<1>1. TgInv => TestPasses
  <2> SUFFICES ASSUME TgInv
               PROVE  TestPasses
    OBVIOUS
  <2>1. tgPc # "failed"
    BY DEF TgInv
  <2>2. ASSUME tgPc = "done"
        PROVE  tgLines = <<>> /\ tgCmd = NoCmd /\ tgResp = <<>> /\ tgCache = tgMem
    <3>1. tgLines = <<>> /\ tgCmd = NoCmd /\ tgResp = <<>> /\ Reached = tgCache
      BY <2>2 DEF TgInv, Pending, Given, Reached
    <3>2. PICK mems : mems[1] = Reached /\ mems[Len(tgLines) + 1] = tgMem
      BY DEF TgInv, Leads
    <3>3. Len(tgLines) + 1 = 1
      BY <3>1
    <3>4. QED
      BY <3>1, <3>2, <3>3
  <2>3. QED
    BY <2>1, <2>2 DEF TestPasses
<1>2. QED
  BY <1>1, TgInitInv, TgStepInv, PTL DEF TgSpec

----------------------------------------------------------------------------
(* The histograms of pc_histogram.py.                                      *)

PhSpec == PhInit /\ [][PhNext]_phVars

RowTile(i) == <<phTrace[i].y, phTrace[i].x>>
Counted(i) == phTrace[i].op \notin NotCounted

(* All rows are of the tiles, and every tile has a row that is counted.    *)
AllTiles ==
  /\ \A i \in DOMAIN phTrace : RowTile(i) \in Tiles
  /\ \A t \in Tiles : \E i \in DOMAIN phTrace : RowTile(i) = t /\ Counted(i)
Counts ==
  /\ DOMAIN phCnt = Tiles /\ phRow \in 0 .. Len(phTrace)
  /\ \A i \in 1 .. phRow : Counted(i) => phTrace[i].pc \in DOMAIN phCnt[RowTile(i)]

(* On a trace of which every tile executed something, the dimensions are   *)
(* those of the network, every row counted so far is under its tile, and   *)
(* nothing has failed.                                                     *)
PhInv ==
  /\ phTrace \in PhTraces
  /\ phPc \in {"parse", "count", "tiles", "total", "done", "failed"}
  /\ Complete(phTrace) =>
       /\ phPc # "failed"
       /\ phPc = "parse" => phRow = 0
       /\ phPc \in {"count", "tiles"} => AllTiles /\ Counts
       /\ phPc = "tiles" => phRow = Len(phTrace)

----------------------------------------------------------------------------
(* A pair that is not less than any other in either coordinate is the      *)
(* largest.                                                                *)
LEMMA LexMaxIs ==
  ASSUME NEW S, S \subseteq Nat \X Nat, NEW y, NEW x, <<y, x>> \in S,
         \A s \in S : s[1] <= y /\ s[2] <= x
  PROVE  LexMax(S) = <<y, x>>
<1> DEFINE P(m) == \A s \in S : s[1] < m[1] \/ (s[1] = m[1] /\ s[2] <= m[2])
<1>1. P(<<y, x>>)
  OBVIOUS
<1>2. ASSUME NEW m \in S, P(m)
      PROVE  m = <<y, x>>
  <2>1. m[1] \in Nat /\ m[2] \in Nat /\ m = <<m[1], m[2]>> /\ y \in Nat /\ x \in Nat
    OBVIOUS
  <2>2. m[1] = y /\ m[2] = x
    BY <1>2, <2>1
  <2>3. QED
    BY <2>1, <2>2
<1>3. LexMax(S) = CHOOSE m \in S : P(m)
  BY DEF LexMax
<1> HIDE DEF P
<1>4. QED
  BY <1>1, <1>2, <1>3

(* The tiles are all pairs up to the largest pair, which has to dominate.  *)
LEMMA ParseKeeps ==
  ASSUME PhInv, ParseTraces
  PROVE  PhInv'
<1>1. phPc = "parse" /\ phPc' = "count" /\ phTrace' = phTrace /\ phRow' = phRow
  BY DEF ParseTraces
<1>2. SUFFICES ASSUME Complete(phTrace)
               PROVE  AllTiles' /\ Counts'
  BY <1>1 DEF PhInv
<1>3. phTrace \in Seq(ToSet(phTrace))
      /\ \A i \in DOMAIN phTrace : phTrace[i].x \in Nat /\ phTrace[i].y \in Nat
  BY PhAssumption DEF PhInv, ToSet
<1>4. PICK y, x \in 0 .. Len(phTrace) :
        /\ \A row \in ToSet(phTrace) : row.y <= y /\ row.x <= x
        /\ \A t \in (0 .. y) \X (0 .. x) :
             \E row \in ToSet(phTrace) : <<row.y, row.x>> = t /\ row.op \notin NotCounted
  BY <1>2 DEF Complete
<1>5. \A row : row \in ToSet(phTrace) <=> \E i \in DOMAIN phTrace : row = phTrace[i]
  BY DEF ToSet
<1>6. \A i \in DOMAIN phTrace : phTrace[i].y <= y /\ phTrace[i].x <= x
  BY <1>4, <1>5
<1>7. ASSUME NEW t \in (0 .. y) \X (0 .. x)
      PROVE  \E i \in DOMAIN phTrace : RowTile(i) = t /\ Counted(i)
  <2>1. PICK row \in ToSet(phTrace) : <<row.y, row.x>> = t /\ row.op \notin NotCounted
    BY <1>4
  <2>2. PICK i \in DOMAIN phTrace : row = phTrace[i]
    BY <1>5, <2>1
  <2>3. QED
    BY <2>1, <2>2 DEF RowTile, Counted
<1> DEFINE S == {<<0, 0>>} \cup {<<row.y, row.x>> : row \in ToSet(phTrace)}
<1>8. y \in Nat /\ x \in Nat
  BY <1>3, <1>4
<1>9. \A s \in S : s = <<0, 0>> \/ \E i \in DOMAIN phTrace : s = RowTile(i)
  BY DEF ToSet, RowTile
<1>10. S \subseteq Nat \X Nat /\ \A s \in S : s[1] <= y /\ s[2] <= x
  BY <1>3, <1>6, <1>8, <1>9 DEF RowTile
<1>11. <<y, x>> \in S
  <2>1. <<y, x>> \in (0 .. y) \X (0 .. x)
    BY <1>8
  <2>2. PICK i \in DOMAIN phTrace : RowTile(i) = <<y, x>>
    BY <1>7, <2>1
  <2>3. phTrace[i] \in ToSet(phTrace)
    BY DEF ToSet
  <2>4. QED
    BY <2>2, <2>3 DEF RowTile
<1>12. LexMax(S) = <<y, x>>
  BY <1>10, <1>11, LexMaxIs
<1>13. phDim' = [y |-> y + 1, x |-> x + 1] /\ phCnt' = [t \in (0 .. y) \X (0 .. x) |-> <<>>]
  BY <1>8, <1>12 DEF ParseTraces
<1>14. Tiles' = (0 .. y) \X (0 .. x)
  BY <1>8, <1>13 DEF Tiles
<1>15. AllTiles'
  <2>1. \A i \in DOMAIN phTrace : RowTile(i) \in (0 .. y) \X (0 .. x)
    BY <1>3, <1>6, <1>8 DEF RowTile
  <2>2. QED
    BY <1>1, <1>7, <1>14, <2>1 DEF AllTiles, RowTile, Counted
<1>16. Counts'
  BY <1>1, <1>2, <1>3, <1>13, <1>14 DEF Counts, PhInv
<1>17. QED
  BY <1>15, <1>16

(* A row that is counted gives its tile a histogram.                       *)
LEMMA CountRowKeeps ==
  ASSUME PhInv, CountRow
  PROVE  PhInv'
<1>1. phPc = "count" /\ phRow < Len(phTrace) /\ phTrace' = phTrace /\ phRow' = phRow + 1
      /\ phDim' = phDim /\ phPc' \in {"count", "failed"}
  BY DEF CountRow
<1>2. SUFFICES ASSUME Complete(phTrace)
               PROVE  phPc' = "count" /\ AllTiles' /\ Counts'
  BY <1>1 DEF PhInv
<1>3. AllTiles /\ Counts
  BY <1>1, <1>2 DEF PhInv
<1>4. phTrace \in Seq(ToSet(phTrace))
  BY PhAssumption DEF PhInv
<1> DEFINE i == phRow + 1
<1>5. i \in DOMAIN phTrace /\ i \in Nat /\ phRow \in Nat /\ i \in 1 .. Len(phTrace)
  BY <1>1, <1>3, <1>4 DEF Counts
<1>6. RowTile(i) \in Tiles
  BY <1>3, <1>5 DEF AllTiles
<1>7. Tiles' = Tiles /\ AllTiles'
  BY <1>1, <1>3 DEF AllTiles, Tiles, RowTile, Counted
<1>8. CASE ~Counted(i)
  <2>1. phCnt' = phCnt /\ phPc' = "count"
    BY <1>1, <1>8 DEF CountRow, Counted
  <2>2. ASSUME NEW j \in 1 .. phRow + 1, Counted(j)
        PROVE  phTrace[j].pc \in DOMAIN phCnt[RowTile(j)]
    <3>1. j \in 1 .. phRow
      BY <1>5, <1>8, <2>2
    <3>2. QED
      BY <1>3, <2>2, <3>1 DEF Counts
  <2>3. phRow + 1 \in 0 .. Len(phTrace) /\ DOMAIN phCnt = Tiles
    BY <1>3, <1>5 DEF Counts
  <2>4. Counts'
    BY <1>1, <1>7, <2>1, <2>2, <2>3 DEF Counts, RowTile, Counted
  <2>5. QED
    BY <1>7, <2>1, <2>4
<1>9. CASE Counted(i)
  <2>1. phCnt' = [phCnt EXCEPT ![RowTile(i)] = Increment(@, phTrace[i].pc)] /\ phPc' = "count"
    BY <1>1, <1>6, <1>9 DEF CountRow, Counted, RowTile
  <2>2. DOMAIN phCnt' = Tiles
    BY <1>3, <2>1 DEF Counts
  <2>3. /\ DOMAIN phCnt'[RowTile(i)] = DOMAIN phCnt[RowTile(i)] \cup {phTrace[i].pc}
        /\ \A t \in Tiles : t # RowTile(i) => phCnt'[t] = phCnt[t]
    BY <1>3, <1>6, <2>1 DEF Counts, Increment
  <2>4. ASSUME NEW j \in 1 .. phRow + 1, Counted(j)
        PROVE  phTrace[j].pc \in DOMAIN phCnt'[RowTile(j)]
    <3>1. CASE j = i
      BY <2>3, <3>1
    <3>2. CASE j # i
      <4>1. j \in 1 .. phRow /\ j \in DOMAIN phTrace
        BY <1>4, <1>5, <3>2
      <4>2. phTrace[j].pc \in DOMAIN phCnt[RowTile(j)] /\ RowTile(j) \in Tiles
        BY <1>3, <2>4, <4>1 DEF Counts, AllTiles
      <4>3. QED
        BY <2>3, <4>2
    <3>3. QED
      BY <3>1, <3>2
  <2>5. Counts'
    BY <1>1, <1>5, <1>7, <2>2, <2>4 DEF Counts, RowTile, Counted
  <2>6. QED
    BY <1>7, <2>1, <2>5
<1>10. QED
  BY <1>8, <1>9

(* Every tile has one by the time they are made.                           *)
LEMMA TilesKeeps ==
  ASSUME PhInv, TileHistograms
  PROVE  PhInv'
<1>1. phPc = "tiles" /\ phTrace' = phTrace /\ phPc' \in {"failed", "total"}
  BY DEF TileHistograms
<1>2. SUFFICES ASSUME Complete(phTrace)
               PROVE  phPc' = "total"
  BY <1>1 DEF PhInv
<1>3. AllTiles /\ Counts /\ phRow = Len(phTrace)
  BY <1>1, <1>2 DEF PhInv
<1>4. phTrace \in Seq(ToSet(phTrace))
  BY PhAssumption DEF PhInv
<1>5. ASSUME NEW t \in Tiles
      PROVE  DOMAIN phCnt[t] # {}
  <2>1. PICK i \in DOMAIN phTrace : RowTile(i) = t /\ Counted(i)
    BY <1>3 DEF AllTiles
  <2>2. i \in 1 .. phRow
    BY <1>3, <1>4
  <2>3. QED
    BY <1>3, <2>1, <2>2 DEF Counts
<1>6. QED
  BY <1>5 DEF TileHistograms

(* Every step keeps the count.                                             *)
LEMMA PhStepInv == PhInv /\ [PhNext]_phVars => PhInv'
<1> SUFFICES ASSUME PhInv, [PhNext]_phVars
             PROVE  PhInv'
  OBVIOUS
<1>1. CASE CountEnd
  BY <1>1 DEF CountEnd, PhInv, AllTiles, Counts, Tiles, RowTile, Counted
<1>2. CASE TotalHistogram
  BY <1>2 DEF TotalHistogram, PhInv
<1>3. CASE AddTile
  BY <1>3 DEF AddTile, PhInv
<1>4. CASE UNCHANGED phVars
  BY <1>4 DEF phVars, PhInv, AllTiles, Counts, Tiles, RowTile, Counted
<1>5. QED
  BY <1>1, <1>2, <1>3, <1>4, ParseKeeps, CountRowKeeps, TilesKeeps DEF PhNext

(* The script gets to the end on every trace in which each tile of the     *)
(* network executed something: no row is of a tile outside the dimensions  *)
(* __parse_traces found, and no tile is without a first pc.                *)
THEOREM HistogramsComplete == PhSpec => []HistogramsMade
<1>1. PhInit => PhInv
  BY DEF PhInit, PhState, PhInv
<1>2. PhInv => HistogramsMade
  BY DEF PhInv, HistogramsMade
<1>3. QED
  BY <1>1, <1>2, PhStepInv, PTL DEF PhSpec

----------------------------------------------------------------------------
(* The windows of a histogram.                                             *)

(* Where the window of a pc begins, given those of the pcs before.         *)
StartOf(cnt, start, pc) ==
  LET before == {p \in DOMAIN cnt : p < pc}
      prev   == Max(before)
  IN IF before # {} /\ SameBlock(cnt, start[prev], prev, pc) THEN start[prev] ELSE pc

(* A set of naturals with a bound has a maximum.                           *)
LEMMA MaxIs ==
  ASSUME NEW S, S \subseteq Nat, S # {}, NEW n \in Nat, \A s \in S : s <= n
  PROVE  Max(S) \in S /\ \A s \in S : s <= Max(S)
<1> DEFINE T == {n - s : s \in S}
<1>1. T \subseteq Nat /\ T # {}
  <2>1. \A s \in S : n - s \in Nat
    OBVIOUS
  <2>2. T \subseteq Nat
    BY <2>1
  <2>3. T # {}
    <3>1. PICK s \in S : TRUE
      OBVIOUS
    <3>2. n - s \in T
      OBVIOUS
    <3>3. QED
      BY <3>2
  <2>4. QED
    BY <2>2, <2>3
<1>2. PICK k \in T : \A j \in T : k <= j
  BY <1>1, Least
<1>3. PICK m \in S : k = n - m
  BY <1>2
<1>4. \A s \in S : m >= s
  <2>1. TAKE s \in S
  <2>2. n - s \in T
    OBVIOUS
  <2>3. k <= n - s
    BY <1>2, <2>2
  <2>4. s \in Nat /\ m \in Nat
    OBVIOUS
  <2>5. QED
    BY <1>3, <2>3, <2>4
<1>5. Max(S) \in S /\ \A s \in S : Max(S) >= s
  BY <1>4 DEF Max
<1>6. QED
  BY <1>5

(* The pcs before another have one next to it.                             *)
LEMMA PrevIs ==
  ASSUME NEW D, D \subseteq Nat, NEW pc \in Nat, NEW B, B = {p \in D : p < pc}, B # {}
  PROVE  Max(B) \in D /\ Max(B) < pc /\ \A p \in D : p < pc => p <= Max(B)
<1>1. \A p \in B : p \in Nat /\ p <= pc
  <2>1. \A p \in B : p \in D /\ p < pc
    BY Zenon
  <2>2. QED
    BY <2>1
<1>2. Max(B) \in B /\ \A p \in B : p <= Max(B)
  BY <1>1, MaxIs
<1>3. QED
  BY <1>2

(* It depends on the one before only.                                      *)
LEMMA StartDepends ==
  ASSUME NEW cnt, DOMAIN cnt \subseteq Nat, NEW pc \in Nat, NEW f, NEW g,
         \A p \in DOMAIN cnt : p < pc => f[p] = g[p]
  PROVE  StartOf(cnt, f, pc) = StartOf(cnt, g, pc)
<1> DEFINE B == {p \in DOMAIN cnt : p < pc}
<1>1. CASE B = {}
  BY <1>1 DEF StartOf
<1>2. CASE B # {}
  <2>1. Max(B) \in DOMAIN cnt /\ Max(B) < pc
    BY <1>2, PrevIs
  <2>2. f[Max(B)] = g[Max(B)]
    BY <2>1
  <2>3. QED
    BY <2>2 DEF StartOf
<1>3. QED
  BY <1>1, <1>2

(* The windows are found one after the other, which the definition says.   *)
LEMMA WindowIs ==
  ASSUME NEW cnt, DOMAIN cnt \subseteq Nat, NEW n \in Nat, \A p \in DOMAIN cnt : p <= n
  PROVE  \A pc \in DOMAIN cnt : Window(cnt)[pc] = StartOf(cnt, Window(cnt), pc)
<1> DEFINE D == DOMAIN cnt
           Found(k, f) == \A pc \in D : pc < k => f[pc] = StartOf(cnt, f, pc)
           S == {k \in Nat : \E f : Found(k, f)}
<1>1. 0 \in S
  OBVIOUS
<1>2. ASSUME NEW k \in Nat, k \in S
      PROVE  k + 1 \in S
  <2>1. PICK f : Found(k, f)
    BY <1>2
  <2> DEFINE g == [pc \in D |-> IF pc = k THEN StartOf(cnt, f, k) ELSE f[pc]]
  <2>2. \A pc \in D : pc < k => g[pc] = f[pc]
    OBVIOUS
  <2>3. ASSUME NEW pc \in D, pc < k + 1
        PROVE  g[pc] = StartOf(cnt, g, pc)
    <3>1. pc \in Nat /\ \A p \in D : p < pc => p < k
      BY <2>3
    <3>2. \A p \in D : p < pc => g[p] = f[p]
      BY <2>2, <3>1
    <3>3. StartOf(cnt, g, pc) = StartOf(cnt, f, pc)
      <4> HIDE DEF g
      <4>1. QED
        BY <3>1, <3>2, StartDepends
    <3>4. g[pc] = StartOf(cnt, f, pc)
      <4>1. CASE pc = k
        BY <4>1
      <4>2. CASE pc # k
        <5>1. pc < k
          BY <2>3, <3>1, <4>2
        <5>2. QED
          BY <2>1, <2>2, <5>1
      <4>3. QED
        BY <4>1, <4>2
    <3>5. QED
      BY <3>3, <3>4
  <2>4. Found(k + 1, g)
    <3> HIDE DEF g
    <3>1. QED
      BY <2>3
  <2>5. QED
    <3> HIDE DEF Found
    <3>1. QED
      BY <2>4
<1>3. n + 1 \in S
  <2> HIDE DEF S
  <2>1. QED
    BY <1>1, <1>2, Induction
<1>4. PICK f : Found(n + 1, f)
  BY <1>3
<1> DEFINE h == [pc \in D |-> f[pc]]
<1>5. h = [pc \in D |-> StartOf(cnt, h, pc)]
  <2>1. ASSUME NEW pc \in D
        PROVE  h[pc] = StartOf(cnt, h, pc)
    <3>1. pc \in Nat /\ pc < n + 1 /\ h[pc] = f[pc]
      OBVIOUS
    <3>2. f[pc] = StartOf(cnt, f, pc)
      BY <1>4, <3>1
    <3>3. \A p \in D : p < pc => h[p] = f[p]
      OBVIOUS
    <3>4. StartOf(cnt, h, pc) = StartOf(cnt, f, pc)
      <4> HIDE DEF h
      <4>1. QED
        BY <3>1, <3>3, StartDepends
    <3>5. QED
      BY <3>1, <3>2, <3>4
  <2>2. \A pc \in D : h[pc] = StartOf(cnt, h, pc)
    BY <2>1
  <2>3. h = [pc \in D |-> h[pc]]
    OBVIOUS
  <2> HIDE DEF h
  <2>4. QED
    BY <2>2, <2>3
<1>6. Window(cnt) = CHOOSE start : start = [pc \in D |-> StartOf(cnt, start, pc)]
  BY DEF Window, StartOf
<1>7. Window(cnt) = [pc \in D |-> StartOf(cnt, Window(cnt), pc)]
  <2> HIDE DEF h, D
  <2>1. QED
    BY <1>5, <1>6
<1>8. QED
  BY <1>7

(* What a pc has in its window: the pcs from the start on in steps, all    *)
(* counted as often, and no others.                                        *)
WindowRight(cnt, start, pc) ==
  /\ start[pc] \in DOMAIN cnt /\ start[pc] <= pc /\ (pc - start[pc]) % PcStep = 0
  /\ cnt[start[pc]] = cnt[pc]
  /\ \A q \in start[pc] .. pc : q \in DOMAIN cnt <=> (q - start[pc]) % PcStep = 0
  /\ \A q \in DOMAIN cnt : start[pc] <= q /\ q <= pc => start[q] = start[pc] /\ cnt[q] = cnt[pc]

(* One more pc in the window.                                              *)
LEMMA WindowGrows ==
  ASSUME NEW cnt, DOMAIN cnt \subseteq Nat, NEW start, NEW pc \in DOMAIN cnt,
         NEW prev \in DOMAIN cnt, prev < pc, \A p \in DOMAIN cnt : p < pc => p <= prev,
         WindowRight(cnt, start, prev), SameBlock(cnt, start[prev], prev, pc),
         start[pc] = start[prev]
  PROVE  WindowRight(cnt, start, pc)
<1> DEFINE s == start[prev]
<1>1. /\ s \in DOMAIN cnt /\ s <= prev /\ (prev - s) % 4 = 0 /\ cnt[s] = cnt[prev]
      /\ \A q \in s .. prev : q \in DOMAIN cnt <=> (q - s) % 4 = 0
      /\ \A q \in DOMAIN cnt : s <= q /\ q <= prev => start[q] = s /\ cnt[q] = cnt[prev]
  BY DEF WindowRight, PcStep
<1>2. cnt[s] = cnt[pc] /\ pc = prev + 4 /\ s \in Nat /\ prev \in Nat /\ pc \in Nat
  BY <1>1 DEF SameBlock, PcStep
<1> HIDE DEF s
<1>3. s <= pc /\ (pc - s) % 4 = 0
  BY <1>1, <1>2
<1>4. ASSUME NEW q \in s .. pc
      PROVE  q \in DOMAIN cnt <=> (q - s) % 4 = 0
  <2>1. CASE q <= prev
    <3>1. q \in s .. prev
      BY <1>2, <2>1
    <3>2. QED
      BY <1>1, <3>1
  <2>2. CASE q = pc
    BY <1>3, <2>2
  <2>3. CASE prev < q /\ q < pc
    <3>1. q \notin DOMAIN cnt
      BY <1>2, <2>3
    <3>2. (q - s) % 4 # 0
      <4>1. q - s = (prev - s) + 1 \/ q - s = (prev - s) + 2 \/ q - s = (prev - s) + 3
        BY <1>2, <2>3
      <4>2. prev - s \in Nat
        BY <1>1, <1>2
      <4>3. QED
        BY <1>1, <4>1, <4>2
    <3>3. QED
      BY <3>1, <3>2
  <2>4. QED
    BY <1>2, <2>1, <2>2, <2>3
<1>5. ASSUME NEW q \in DOMAIN cnt, s <= q, q <= pc
      PROVE  start[q] = s /\ cnt[q] = cnt[pc]
  <2>1. q = pc \/ q <= prev
    BY <1>2, <1>5
  <2>2. CASE q = pc
    BY <2>2 DEF s
  <2>3. CASE q <= prev
    BY <1>1, <1>2, <1>5, <2>3
  <2>4. QED
    BY <2>1, <2>2, <2>3
<1>6. start[pc] = s
  BY DEF s
<1>7. QED
  BY <1>1, <1>2, <1>3, <1>4, <1>5, <1>6 DEF WindowRight, PcStep

(* A pc that begins a window.                                              *)
LEMMA WindowBegins ==
  ASSUME NEW cnt, DOMAIN cnt \subseteq Nat, NEW start, NEW pc \in DOMAIN cnt, start[pc] = pc
  PROVE  WindowRight(cnt, start, pc)
<1>1. pc \in Nat /\ pc - pc = 0 /\ 0 % 4 = 0
  OBVIOUS
<1>2. \A q \in pc .. pc : q = pc
  BY <1>1
<1>3. \A q \in DOMAIN cnt : pc <= q /\ q <= pc => q = pc
  BY <1>1
<1>4. QED
  BY <1>1, <1>2, <1>3 DEF WindowRight, PcStep

(* How a window is chosen.                                                 *)
LEMMA StartCases ==
  ASSUME NEW cnt, DOMAIN cnt \subseteq Nat, NEW start, NEW pc \in DOMAIN cnt,
         start[pc] = StartOf(cnt, start, pc)
  PROVE  \/ /\ start[pc] = pc
            /\ \A p \in DOMAIN cnt : p < pc /\ (\A q \in DOMAIN cnt : q < pc => q <= p)
                 => ~SameBlock(cnt, start[p], p, pc)
         \/ \E prev \in DOMAIN cnt :
              /\ prev < pc /\ \A p \in DOMAIN cnt : p < pc => p <= prev
              /\ SameBlock(cnt, start[prev], prev, pc) /\ start[pc] = start[prev]
<1> DEFINE B == {p \in DOMAIN cnt : p < pc}
<1>1. pc \in Nat
  OBVIOUS
<1>2. CASE B = {}
  <2>1. start[pc] = pc
    BY <1>2 DEF StartOf
  <2>2. \A p \in DOMAIN cnt : ~(p < pc)
    BY <1>2
  <2>3. QED
    BY <2>1, <2>2
<1>3. CASE B # {}
  <2> DEFINE prev == Max(B)
  <2>1. prev \in DOMAIN cnt /\ prev < pc /\ \A p \in DOMAIN cnt : p < pc => p <= prev
    BY <1>1, <1>3, PrevIs
  <2>2. start[pc] = IF SameBlock(cnt, start[prev], prev, pc) THEN start[prev] ELSE pc
    BY <1>3 DEF StartOf
  <2> HIDE DEF prev, B
  <2>3. CASE SameBlock(cnt, start[prev], prev, pc)
    BY <2>1, <2>2, <2>3
  <2>4. CASE ~SameBlock(cnt, start[prev], prev, pc)
    <3>1. ASSUME NEW p \in DOMAIN cnt, p < pc, \A q \in DOMAIN cnt : q < pc => q <= p
          PROVE  p = prev
      <4>1. p <= prev /\ prev <= p
        BY <2>1, <3>1
      <4>2. QED
        BY <2>1, <4>1
    <3>2. QED
      BY <2>2, <2>4, <3>1
  <2>5. QED
    BY <2>3, <2>4
<1>4. QED
  BY <1>2, <1>3

(* Hence every window is in steps and of one count.                        *)
LEMMA WindowsAre ==
  ASSUME NEW cnt, DOMAIN cnt \subseteq Nat, NEW start,
         \A pc \in DOMAIN cnt : start[pc] = StartOf(cnt, start, pc)
  PROVE  \A pc \in DOMAIN cnt : WindowRight(cnt, start, pc)
<1> DEFINE T == {pc \in DOMAIN cnt : ~WindowRight(cnt, start, pc)}
<1>1. SUFFICES ASSUME T # {}
               PROVE  FALSE
  OBVIOUS
<1>2. T \subseteq Nat
  OBVIOUS
<1>3. PICK pc \in T : \A j \in T : pc <= j
  <2> HIDE DEF T
  <2>1. QED
    BY <1>1, <1>2, Least
<1>4. pc \in DOMAIN cnt /\ pc \in Nat /\ ~WindowRight(cnt, start, pc)
  OBVIOUS
<1>5. CASE start[pc] = pc
  BY <1>4, <1>5, WindowBegins
<1>6. CASE \E prev \in DOMAIN cnt :
             /\ prev < pc /\ \A p \in DOMAIN cnt : p < pc => p <= prev
             /\ SameBlock(cnt, start[prev], prev, pc) /\ start[pc] = start[prev]
  <2>1. PICK prev \in DOMAIN cnt :
          /\ prev < pc /\ \A p \in DOMAIN cnt : p < pc => p <= prev
          /\ SameBlock(cnt, start[prev], prev, pc) /\ start[pc] = start[prev]
    BY <1>6
  <2>2. prev \notin T
    <3>1. prev \in Nat /\ pc \in Nat /\ ~(pc <= prev)
      BY <1>4, <2>1
    <3> HIDE DEF T
    <3>2. QED
      BY <1>3, <3>1
  <2>3. WindowRight(cnt, start, prev)
    BY <2>2
  <2>4. QED
    BY <1>4, <2>1, <2>3, WindowGrows
<1>7. QED
  BY <1>4, <1>5, <1>6, StartCases

----------------------------------------------------------------------------
(* Counting rows.                                                          *)
RowsAt(trace, rows, pcs) == {i \in rows : trace[i].pc \in pcs}

(* The counts of some rows: of the pcs they have, how many have each.      *)
CountsOf(trace, cnt, rows) ==
  /\ DOMAIN cnt = {trace[i].pc : i \in rows}
  /\ \A pc \in DOMAIN cnt : cnt[pc] = Cardinality(RowsAt(trace, rows, {pc}))

LEMMA AtFinite ==
  ASSUME NEW trace, NEW rows, IsFiniteSet(rows), NEW pcs
  PROVE  IsFiniteSet(RowsAt(trace, rows, pcs)) /\ Cardinality(RowsAt(trace, rows, pcs)) \in Nat
<1>1. RowsAt(trace, rows, pcs) \in SUBSET rows
  BY DEF RowsAt
<1>2. IsFiniteSet(RowsAt(trace, rows, pcs))
  BY <1>1, FS_Subset
<1>3. QED
  BY <1>2, FS_CardinalityType

(* Rows of two sets of pcs that have none in common.                       *)
LEMMA AtUnion ==
  ASSUME NEW trace, NEW rows, IsFiniteSet(rows), NEW P, NEW Q, P \cap Q = {}
  PROVE  Cardinality(RowsAt(trace, rows, P \cup Q))
           = Cardinality(RowsAt(trace, rows, P)) + Cardinality(RowsAt(trace, rows, Q))
<1> DEFINE A == RowsAt(trace, rows, P)  B == RowsAt(trace, rows, Q)
<1>1. RowsAt(trace, rows, P \cup Q) = A \cup B /\ A \cap B = {}
  BY DEF RowsAt
<1>2. /\ IsFiniteSet(A) /\ IsFiniteSet(B) /\ Cardinality(A) \in Nat /\ Cardinality(B) \in Nat
  BY AtFinite
<1>3. Cardinality({}) = 0
  BY FS_EmptySet
<1> HIDE DEF A, B
<1>4. Cardinality(A \cup B) = Cardinality(A) + Cardinality(B) - Cardinality(A \cap B)
  BY <1>2, FS_Union
<1>5. A \cap B = {} /\ Cardinality(RowsAt(trace, rows, P \cup Q)) = Cardinality(A \cup B)
  BY <1>1
<1>6. Cardinality(A \cap B) = 0
  BY <1>3, <1>5
<1>7. Cardinality(A \cup B) = Cardinality(A) + Cardinality(B)
  <2>1. Cardinality(A) \in Nat /\ Cardinality(B) \in Nat
    BY <1>2
  <2>2. QED
    BY <2>1, <1>4, <1>6
<1>8. QED
  BY <1>5, <1>7 DEF A, B

(* A block of m + 1 instructions executed c times each has c * (m + 1)     *)
(* rows.                                                                   *)
Stepped(s, m) == {q \in Nat : s <= q /\ q <= s + 4 * m /\ (q - s) % 4 = 0}
LEMMA StepGrows ==
  ASSUME NEW s \in Nat, NEW m \in Nat
  PROVE  /\ Stepped(s, m + 1) = Stepped(s, m) \cup {s + 4 * (m + 1)}
         /\ Stepped(s, m) \cap {s + 4 * (m + 1)} = {}
<1> DEFINE e == s + 4 * (m + 1)
<1>1. e \in Nat /\ s <= e /\ (e - s) % 4 = 0
  OBVIOUS
<1>2. ASSUME NEW q \in Stepped(s, m + 1), q # e
      PROVE  q \in Stepped(s, m)
  <2>1. q \in Nat /\ s <= q /\ q <= e /\ (q - s) % 4 = 0
    BY <1>2 DEF Stepped
  <2>2. q <= s + 4 * m
    <3>1. CASE q = e - 1 \/ q = e - 2 \/ q = e - 3
      <4>1. q - s = 4 * m + 3 \/ q - s = 4 * m + 2 \/ q - s = 4 * m + 1
        BY <3>1
      <4>2. QED
        BY <2>1, <4>1
    <3>2. QED
      BY <1>2, <2>1, <3>1
  <2>3. QED
    BY <2>1, <2>2 DEF Stepped
<1>3. ASSUME NEW q \in Stepped(s, m)
      PROVE  q \in Stepped(s, m + 1) /\ q # e
  BY <1>3 DEF Stepped
<1>4. e \in Stepped(s, m + 1)
  BY <1>1 DEF Stepped
<1>5. QED
  BY <1>2, <1>3, <1>4

Exe(c, m) == c * (m + 1)
Uniform(trace, rows, s, m, c) ==
  \A q \in Stepped(s, m) : Cardinality(RowsAt(trace, rows, {q})) = c

LEMMA BlockRows ==
  ASSUME NEW trace, NEW rows, IsFiniteSet(rows), NEW s \in Nat, NEW m \in Nat, NEW c \in Nat,
         Uniform(trace, rows, s, m, c)
  PROVE  Cardinality(RowsAt(trace, rows, Stepped(s, m))) = Exe(c, m)
<1> DEFINE Right(k) == Cardinality(RowsAt(trace, rows, Stepped(s, k))) = c * (k + 1)
           S == {k \in Nat : k <= m => Right(k)}
<1>1. 0 \in S
  <2>1. Stepped(s, 0) = {s}
    <3>1. \A q \in Stepped(s, 0) : q = s
      BY DEF Stepped
    <3>2. s \in Stepped(s, 0)
      BY DEF Stepped
    <3>3. QED
      BY <3>1, <3>2
  <2>2. s \in Stepped(s, m)
    <3>1. s <= s + 4 * m /\ (s - s) % 4 = 0
      OBVIOUS
    <3>2. QED
      BY <3>1 DEF Stepped
  <2>3. Cardinality(RowsAt(trace, rows, Stepped(s, 0))) = c
    BY <2>1, <2>2 DEF Uniform
  <2>4. c = c * (0 + 1)
    OBVIOUS
  <2>5. QED
    BY <2>3, <2>4
<1>2. ASSUME NEW k \in Nat, k \in S
      PROVE  k + 1 \in S
  <2>1. SUFFICES ASSUME k + 1 <= m
                 PROVE  Right(k + 1)
    OBVIOUS
  <2>2. Right(k)
    BY <1>2, <2>1
  <2> DEFINE e == s + 4 * (k + 1)
  <2>3. e \in Stepped(s, m)
    <3>1. e \in Nat /\ s <= e /\ (e - s) % 4 = 0 /\ e <= s + 4 * m
      BY <2>1
    <3>2. QED
      BY <3>1 DEF Stepped
  <2>4. Cardinality(RowsAt(trace, rows, {e})) = c
    BY <2>3 DEF Uniform
  <2>5. /\ Stepped(s, k + 1) = Stepped(s, k) \cup {e}
        /\ Stepped(s, k) \cap {e} = {}
    BY StepGrows
  <2> HIDE DEF e
  <2>6. Cardinality(RowsAt(trace, rows, Stepped(s, k + 1))) = c * (k + 1) + c
    <3>1. Cardinality(RowsAt(trace, rows, Stepped(s, k) \cup {e}))
            = Cardinality(RowsAt(trace, rows, Stepped(s, k))) + Cardinality(RowsAt(trace, rows, {e}))
      BY <2>5, AtUnion
    <3>2. QED
      BY <2>2, <2>4, <2>5, <3>1
  <2>7. c * (k + 1) + c = c * (k + 1 + 1)
    OBVIOUS
  <2>8. QED
    BY <2>6, <2>7
<1>3. m \in S
  <2> HIDE DEF S
  <2>1. QED
    BY <1>1, <1>2, Induction
<1>4. QED
  BY <1>3 DEF Exe

(* Some numbers have a bound.                                              *)
LEMMA Bounded ==
  ASSUME NEW l \in Nat, NEW s \in [1 .. l -> Nat]
  PROVE  \E n \in Nat : \A i \in 1 .. l : s[i] <= n
<1>1. s \in Seq(Nat) /\ DOMAIN s = 1 .. l
  OBVIOUS
<1>2. CASE l = 0
  <2>1. \A i \in 1 .. l : s[i] <= 0
    BY <1>2
  <2>2. QED
    BY <2>1
<1>3. CASE l # 0
  <2>1. s # <<>>
    BY <1>1, <1>3
  <2>2. PICK i \in 1 .. l : \A j \in 1 .. l : s[j] <= s[i]
    BY <1>1, <2>1, Greatest
  <2>3. QED
    BY <2>2
<1>4. QED
  BY <1>2, <1>3

(* What a table says of the rows it was made of.                           *)
Ends(cnt, start) == {pc \in DOMAIN cnt : \A p \in DOMAIN cnt : start[p] = start[pc] => p <= pc}
BlockOf(cnt, start, pc) == [start |-> start[pc], end |-> pc, cnt |-> cnt[start[pc]]]

(* Every pc is in the block that its window ends as.                       *)
LEMMA EndFound ==
  ASSUME NEW cnt, DOMAIN cnt \subseteq Nat, NEW n \in Nat, \A p \in DOMAIN cnt : p <= n,
         NEW start, NEW pc \in DOMAIN cnt
  PROVE  \E e \in Ends(cnt, start) : start[e] = start[pc] /\ pc <= e
<1> DEFINE W == {p \in DOMAIN cnt : start[p] = start[pc]}
<1>1. W \subseteq Nat /\ pc \in W /\ \A p \in W : p <= n
  OBVIOUS
<1>2. Max(W) \in W /\ \A p \in W : p <= Max(W)
  <2> HIDE DEF W
  <2>1. QED
    BY <1>1, MaxIs
<1> DEFINE e == Max(W)
<1>3. e \in DOMAIN cnt /\ start[e] = start[pc] /\ pc <= e
  BY <1>1, <1>2
<1>4. \A p \in DOMAIN cnt : start[p] = start[e] => p <= e
  BY <1>2, <1>3
<1> HIDE DEF e
<1>5. e \in Ends(cnt, start)
  BY <1>3, <1>4 DEF Ends
<1>6. QED
  BY <1>3, <1>5

(* Two blocks have no address in common.                                   *)
LEMMA BlocksApart ==
  ASSUME NEW cnt, DOMAIN cnt \subseteq Nat, NEW start,
         \A pc \in DOMAIN cnt : WindowRight(cnt, start, pc),
         NEW e \in Ends(cnt, start), NEW f \in Ends(cnt, start), e # f
  PROVE  e < start[f] \/ f < start[e]
<1>1. e \in DOMAIN cnt /\ f \in DOMAIN cnt /\ e \in Nat /\ f \in Nat
  BY DEF Ends
<1>2. start[e] # start[f]
  <2>1. start[e] = start[f] => e <= f /\ f <= e
    BY <1>1 DEF Ends
  <2>2. QED
    BY <1>1, <2>1
<1>3. /\ start[e] \in Nat /\ start[f] \in Nat
      /\ \A q \in DOMAIN cnt : start[e] <= q /\ q <= e => start[q] = start[e]
      /\ \A q \in DOMAIN cnt : start[f] <= q /\ q <= f => start[q] = start[f]
  BY <1>1 DEF WindowRight
<1>4. CASE e < f
  <2>1. ~(start[f] <= e)
    BY <1>1, <1>2, <1>3, <1>4
  <2>2. QED
    BY <1>1, <1>3, <2>1
<1>5. CASE f < e
  <2>1. ~(start[e] <= f)
    BY <1>1, <1>2, <1>3, <1>5
  <2>2. QED
    BY <1>1, <1>3, <2>1
<1>6. QED
  BY <1>1, <1>4, <1>5

(* Nor could two of them be one.                                           *)
LEMMA BlocksMaximal ==
  ASSUME NEW cnt, DOMAIN cnt \subseteq Nat, NEW start,
         \A pc \in DOMAIN cnt : start[pc] = StartOf(cnt, start, pc),
         NEW e \in Ends(cnt, start), NEW f \in Ends(cnt, start),
         start[f] = e + 4, \A q \in e + 1 .. start[f] - 1 : q \notin DOMAIN cnt
  PROVE  cnt[start[e]] # cnt[start[f]]
<1> DEFINE s == start[f]
<1>1. \A pc \in DOMAIN cnt : WindowRight(cnt, start, pc)
  BY WindowsAre
<1>2. e \in DOMAIN cnt /\ f \in DOMAIN cnt /\ e \in Nat /\ f \in Nat
  BY DEF Ends
<1>3. s \in DOMAIN cnt /\ s \in Nat /\ s <= f /\ start[s] = s
  BY <1>1, <1>2 DEF WindowRight
<1>4. s = e + 4
  OBVIOUS
<1>5. e < s /\ \A q \in DOMAIN cnt : q < s => q <= e
  <2>1. \A q \in e + 1 .. s - 1 : q \notin DOMAIN cnt
    OBVIOUS
  <2> HIDE DEF s
  <2>2. ASSUME NEW q \in DOMAIN cnt, q < s, ~(q <= e)
        PROVE  FALSE
    <3>1. q \in e + 1 .. s - 1
      BY <1>2, <1>3, <2>2
    <3>2. QED
      BY <2>1, <3>1
  <2>3. QED
    BY <1>2, <1>4, <2>2
<1> HIDE DEF s
<1>6. ~SameBlock(cnt, start[e], e, s)
  <2>1. CASE \A p \in DOMAIN cnt : p < s /\ (\A q \in DOMAIN cnt : q < s => q <= p)
                => ~SameBlock(cnt, start[p], p, s)
    BY <1>2, <1>5, <2>1
  <2>2. CASE \E prev \in DOMAIN cnt : prev < s /\ start[s] = start[prev]
    <3>1. PICK prev \in DOMAIN cnt : prev < s /\ start[s] = start[prev]
      BY <2>2
    <3>2. start[prev] <= prev /\ start[prev] \in Nat /\ prev \in Nat
      BY <1>1 DEF WindowRight
    <3>3. QED
      BY <1>3, <3>1, <3>2
  <2>3. QED
    BY <1>3, <2>1, <2>2, StartCases
<1>7. s - e = PcStep
  BY <1>2, <1>4 DEF PcStep
<1>8. QED
  BY <1>6, <1>7 DEF SameBlock, s

(* A distance in whole steps.                                              *)
LEMMA WholeSteps ==
  ASSUME NEW s \in Nat, NEW e \in Nat, s <= e, (e - s) % 4 = 0
  PROVE  (e - s) \div 4 \in Nat /\ e = s + 4 * ((e - s) \div 4)
<1>1. PICK d \in Nat : d = e - s
  OBVIOUS
<1>2. d % 4 = 0 /\ e = s + d
  BY <1>1
<1>3. d \div 4 \in Nat /\ d = 4 * (d \div 4)
  BY <1>2
<1>4. QED
  BY <1>1, <1>2, <1>3

(* What has to be said of a table, one row of it at a time.                *)
LEMMA TableDescribes ==
  ASSUME NEW cnt, NEW tiles, NEW l \in Nat, DOMAIN phTrace = 1 .. l,
         \A i \in 1 .. l : phTrace[i].pc \in Nat,
         CountsOf(phTrace, cnt, Executed(tiles))
  PROVE  Describes(Histogram(cnt), tiles)
<1> DEFINE rows == Executed(tiles)
           in(pcs) == {i \in rows : phTrace[i].pc \in pcs}
           start == Window(cnt)
           hist == Histogram(cnt)
<1>1. IsFiniteSet(rows) /\ rows \subseteq 1 .. l
  <2>1. rows \in SUBSET (1 .. l)
    BY DEF Executed
  <2>2. IsFiniteSet(1 .. l)
    BY FS_Interval
  <2>3. QED
    BY <2>1, <2>2, FS_Subset
<1>2. /\ DOMAIN cnt = {phTrace[i].pc : i \in rows}
      /\ \A pc \in DOMAIN cnt : cnt[pc] = Cardinality(RowsAt(phTrace, rows, {pc}))
  BY DEF CountsOf
<1>3. DOMAIN cnt \subseteq Nat
  BY <1>1, <1>2
<1>4. PICK n \in Nat : \A i \in 1 .. l : phTrace[i].pc <= n
  <2> DEFINE f == [i \in 1 .. l |-> phTrace[i].pc]
  <2>1. f \in [1 .. l -> Nat] /\ \A i \in 1 .. l : f[i] = phTrace[i].pc
    OBVIOUS
  <2> HIDE DEF f
  <2>2. QED
    BY <2>1, Bounded
<1>5. \A p \in DOMAIN cnt : p <= n
  BY <1>1, <1>2, <1>4
<1>6. \A pc \in DOMAIN cnt : start[pc] = StartOf(cnt, start, pc)
  BY <1>3, <1>5, WindowIs
<1>7. \A pc \in DOMAIN cnt : WindowRight(cnt, start, pc)
  <2> HIDE DEF start
  <2>1. QED
    BY <1>3, <1>6, WindowsAre
<1>8. \A b : b \in hist <=> \E e \in Ends(cnt, start) : b = BlockOf(cnt, start, e)
  BY DEF Histogram, Ends, BlockOf
<1>9. \A e \in Ends(cnt, start) :
        /\ e \in DOMAIN cnt /\ e \in Nat /\ start[e] \in DOMAIN cnt /\ start[e] \in Nat
        /\ start[e] <= e /\ (e - start[e]) % 4 = 0
        /\ \A q \in start[e] .. e : q \in DOMAIN cnt <=> (q - start[e]) % 4 = 0
        /\ \A q \in DOMAIN cnt : start[e] <= q /\ q <= e => cnt[q] = cnt[start[e]]
  <2>1. TAKE e \in Ends(cnt, start)
  <2>2. e \in DOMAIN cnt
    BY DEF Ends
  <2> HIDE DEF start
  <2>3. QED
    BY <1>3, <1>7, <2>2 DEF WindowRight, PcStep
<1>10. \A e : /\ BlockOf(cnt, start, e).start = start[e] /\ BlockOf(cnt, start, e).end = e
              /\ BlockOf(cnt, start, e).cnt = cnt[start[e]]
  BY DEF BlockOf
<1>11. \A pcs : in(pcs) = RowsAt(phTrace, rows, pcs)
  BY DEF RowsAt
<1> HIDE DEF start, hist
<1>12. \A i \in rows : \E b \in hist : phTrace[i].pc \in b.start .. b.end
  <2>1. TAKE i \in rows
  <2> DEFINE pc == phTrace[i].pc
  <2>2. pc \in DOMAIN cnt /\ pc \in Nat
    BY <1>2, <1>3
  <2> HIDE DEF pc
  <2>3. PICK e \in Ends(cnt, start) : start[e] = start[pc] /\ pc <= e
    BY <1>3, <1>5, <2>2, EndFound
  <2>4. start[pc] <= pc
    BY <1>7, <2>2 DEF WindowRight
  <2>5. pc \in start[e] .. e
    BY <1>9, <2>2, <2>3, <2>4
  <2>6. BlockOf(cnt, start, e) \in hist
    BY <1>8
  <2>7. QED
    BY <1>10, <2>5, <2>6 DEF pc
<1>13. \A b \in hist : \A pc \in {p \in b.start .. b.end : (p - b.start) % PcStep = 0} :
         Cardinality(in({pc})) = b.cnt
  <2>1. TAKE b \in hist
  <2>2. PICK e \in Ends(cnt, start) : b = BlockOf(cnt, start, e)
    BY <1>8
  <2>3. b.start = start[e] /\ b.end = e /\ b.cnt = cnt[start[e]]
    BY <1>10, <2>2
  <2>4. TAKE pc \in {p \in b.start .. b.end : (p - b.start) % PcStep = 0}
  <2>5. pc \in start[e] .. e /\ (pc - start[e]) % 4 = 0
    BY <2>3, <2>4 DEF PcStep
  <2>6. pc \in DOMAIN cnt
    BY <1>9, <2>5
  <2>7. start[e] <= pc /\ pc <= e
    BY <1>9, <2>5
  <2>8. cnt[pc] = cnt[start[e]]
    BY <1>9, <2>6, <2>7
  <2>9. QED
    BY <1>2, <1>11, <2>3, <2>6, <2>8
<1>14. \A b, c \in hist : b # c =>
         /\ b.end < c.start \/ c.end < b.start
         /\ c.start = b.end + PcStep /\ in(b.end + 1 .. c.start - 1) = {} => b.cnt # c.cnt
  <2>1. TAKE b, c \in hist
  <2>2. PICK e \in Ends(cnt, start) : b = BlockOf(cnt, start, e)
    BY <1>8
  <2>3. PICK f \in Ends(cnt, start) : c = BlockOf(cnt, start, f)
    BY <1>8
  <2>4. /\ b.start = start[e] /\ b.end = e /\ b.cnt = cnt[start[e]]
        /\ c.start = start[f] /\ c.end = f /\ c.cnt = cnt[start[f]]
    BY <1>10, <2>2, <2>3
  <2>5. SUFFICES ASSUME e # f
                 PROVE  /\ e < start[f] \/ f < start[e]
                        /\ start[f] = e + PcStep /\ in(e + 1 .. start[f] - 1) = {}
                             => cnt[start[e]] # cnt[start[f]]
    BY <2>2, <2>3, <2>4
  <2>6. e < start[f] \/ f < start[e]
    BY <1>3, <1>7, <2>5, BlocksApart
  <2>7. ASSUME start[f] = e + PcStep, in(e + 1 .. start[f] - 1) = {}
        PROVE  cnt[start[e]] # cnt[start[f]]
    <3>1. ASSUME NEW q \in e + 1 .. start[f] - 1, q \in DOMAIN cnt
          PROVE  FALSE
      <4>1. PICK i \in rows : phTrace[i].pc = q
        BY <1>2, <3>1
      <4>2. i \in in(e + 1 .. start[f] - 1)
        BY <3>1, <4>1
      <4>3. QED
        BY <2>7, <4>2
    <3>2. start[f] = e + 4
      BY <2>7 DEF PcStep
    <3>3. QED
      BY <1>3, <1>6, <3>1, <3>2, BlocksMaximal
  <2>8. QED
    BY <2>6, <2>7
<1>15. \A line \in Printed(hist) :
         line.exe = Cardinality(in(line.block[1] .. line.block[2]))
  <2>1. TAKE line \in Printed(hist)
  <2>2. PICK b \in hist : /\ line.block = <<b.start, b.end>>
                          /\ line.exe = b.cnt * ((b.end - b.start) \div PcStep + 1)
    BY DEF Printed
  <2>3. PICK e \in Ends(cnt, start) : b = BlockOf(cnt, start, e)
    BY <1>8
  <2>4. b.start = start[e] /\ b.end = e /\ b.cnt = cnt[start[e]]
    BY <1>10, <2>3
  <2> DEFINE s == start[e]  m == (e - s) \div 4  c == cnt[s]
  <2>5. s \in Nat /\ e \in Nat /\ s <= e /\ (e - s) % 4 = 0 /\ s \in DOMAIN cnt
    BY <1>9
  <2>6. m \in Nat /\ e = s + 4 * m
    <3> HIDE DEF s
    <3>1. QED
      BY <2>5, WholeSteps
  <2>7. \A q : q \in DOMAIN cnt /\ s <= q /\ q <= e => cnt[q] = c
    BY <1>9
  <2>8. \A q \in s .. e : q \in DOMAIN cnt <=> (q - s) % 4 = 0
    BY <1>9
  <2>9. c \in Nat
    <3>1. Cardinality(RowsAt(phTrace, rows, {s})) \in Nat
      <4> HIDE DEF s, rows
      <4>1. QED
        BY <1>1, AtFinite
    <3>2. QED
      BY <1>2, <2>5, <3>1
  <2> HIDE DEF s, m, c
  <2>10. ASSUME NEW q \in Stepped(s, m)
         PROVE  Cardinality(RowsAt(phTrace, rows, {q})) = c
    <3>1. q \in s .. e /\ (q - s) % 4 = 0 /\ s <= q /\ q <= e
      BY <2>5, <2>6 DEF Stepped
    <3>2. q \in DOMAIN cnt
      BY <2>8, <3>1
    <3>3. QED
      BY <1>2, <2>7, <3>1, <3>2
  <2>11. Cardinality(RowsAt(phTrace, rows, Stepped(s, m))) = Exe(c, m)
    <3> HIDE DEF rows
    <3>1. Uniform(phTrace, rows, s, m, c)
      BY <2>10 DEF Uniform
    <3>2. IsFiniteSet(rows) /\ s \in Nat /\ m \in Nat /\ c \in Nat
      BY <1>1, <2>5, <2>6, <2>9
    <3>3. QED
      BY <3>1, <3>2, BlockRows
  <2>12. RowsAt(phTrace, rows, Stepped(s, m)) = in(s .. e)
    <3>1. ASSUME NEW i \in rows
          PROVE  phTrace[i].pc \in Stepped(s, m) <=> phTrace[i].pc \in s .. e
      <4> DEFINE q == phTrace[i].pc
      <4>1. q \in DOMAIN cnt /\ q \in Nat
        BY <1>2, <1>3
      <4> HIDE DEF q
      <4>2. q \in s .. e <=> s <= q /\ q <= e
        BY <2>5, <4>1
      <4>3. q \in s .. e => (q - s) % 4 = 0
        BY <2>8, <4>1
      <4>4. q \in Stepped(s, m) <=> q \in s .. e
        BY <2>6, <4>1, <4>2, <4>3 DEF Stepped
      <4>5. QED
        BY <4>4 DEF q
    <3>2. QED
      BY <3>1 DEF RowsAt
  <2>13. line.block[1] = s /\ line.block[2] = e
    BY <2>2, <2>4 DEF s
  <2>14. line.exe = Exe(c, m)
    BY <2>2, <2>4 DEF PcStep, s, m, c, Exe
  <2>15. QED
    BY <2>11, <2>12, <2>13, <2>14
<1>16. QED
  <2> HIDE DEF rows
  <2>1. QED
    BY <1>12, <1>13, <1>14, <1>15 DEF Describes, rows, hist

----------------------------------------------------------------------------
(* Adding counts.                                                          *)

(* Those of rows that have none in common.                                 *)
LEMMA RowsAdded ==
  ASSUME NEW trace, NEW cnt, NEW other, NEW R, NEW Q, IsFiniteSet(R), IsFiniteSet(Q), R \cap Q = {},
         CountsOf(trace, cnt, R), CountsOf(trace, other, Q)
  PROVE  CountsOf(trace, Plus(cnt, other), R \cup Q)
<1>1. /\ DOMAIN cnt = {trace[i].pc : i \in R}
      /\ \A pc \in DOMAIN cnt : cnt[pc] = Cardinality(RowsAt(trace, R, {pc}))
  BY DEF CountsOf
<1>2. /\ DOMAIN other = {trace[i].pc : i \in Q}
      /\ \A pc \in DOMAIN other : other[pc] = Cardinality(RowsAt(trace, Q, {pc}))
  BY DEF CountsOf
<1>3. /\ DOMAIN Plus(cnt, other) = DOMAIN cnt \cup DOMAIN other
      /\ \A pc \in DOMAIN cnt \cup DOMAIN other :
           Plus(cnt, other)[pc] = (IF pc \in DOMAIN cnt THEN cnt[pc] ELSE 0)
                                    + (IF pc \in DOMAIN other THEN other[pc] ELSE 0)
  BY DEF Plus
<1>4. DOMAIN Plus(cnt, other) = {trace[i].pc : i \in R \cup Q}
  BY <1>1, <1>2, <1>3
<1>5. Cardinality({}) = 0
  BY FS_EmptySet
<1>6. ASSUME NEW pc \in DOMAIN Plus(cnt, other)
      PROVE  Plus(cnt, other)[pc] = Cardinality(RowsAt(trace, R \cup Q, {pc}))
  <2> DEFINE A == RowsAt(trace, R, {pc})  B == RowsAt(trace, Q, {pc})
  <2>1. RowsAt(trace, R \cup Q, {pc}) = A \cup B /\ A \cap B = {}
    BY DEF RowsAt
  <2>2. IsFiniteSet(A) /\ IsFiniteSet(B) /\ Cardinality(A) \in Nat /\ Cardinality(B) \in Nat
    BY AtFinite
  <2>3. (IF pc \in DOMAIN cnt THEN cnt[pc] ELSE 0) = Cardinality(A)
    <3>1. CASE pc \in DOMAIN cnt
      BY <1>1, <3>1
    <3>2. CASE pc \notin DOMAIN cnt
      <4>1. A = {}
        BY <1>1, <3>2 DEF RowsAt
      <4>2. QED
        BY <1>5, <3>2, <4>1
    <3>3. QED
      BY <3>1, <3>2
  <2>4. (IF pc \in DOMAIN other THEN other[pc] ELSE 0) = Cardinality(B)
    <3>1. CASE pc \in DOMAIN other
      BY <1>2, <3>1
    <3>2. CASE pc \notin DOMAIN other
      <4>1. B = {}
        BY <1>2, <3>2 DEF RowsAt
      <4>2. QED
        BY <1>5, <3>2, <4>1
    <3>3. QED
      BY <3>1, <3>2
  <2>5. Plus(cnt, other)[pc] = Cardinality(A) + Cardinality(B)
    BY <1>3, <1>6, <2>3, <2>4
  <2> HIDE DEF A, B
  <2>6. Cardinality(A \cup B) = Cardinality(A) + Cardinality(B) - Cardinality(A \cap B)
    BY <2>2, FS_Union
  <2>7. Cardinality(A \cap B) = 0
    BY <1>5, <2>1
  <2>8. Cardinality(A \cup B) = Cardinality(A) + Cardinality(B)
    <3>1. Cardinality(A) \in Nat /\ Cardinality(B) \in Nat
      BY <2>2
    <3>2. QED
      BY <2>6, <2>7, <3>1
  <2>9. QED
    BY <2>1, <2>5, <2>8
<1>7. QED
  BY <1>4, <1>6 DEF CountsOf

(* One more row is the counts of that row more.                            *)
LEMMA RowAdded ==
  ASSUME NEW trace, NEW cnt, NEW R, IsFiniteSet(R), NEW i, i \notin R, CountsOf(trace, cnt, R)
  PROVE  CountsOf(trace, Increment(cnt, trace[i].pc), R \cup {i})
<1> DEFINE pc == trace[i].pc  one == [p \in {pc} |-> 1]
<1>1. Increment(cnt, pc) = Plus(cnt, one)
  <2>1. DOMAIN one = {pc} /\ \A p \in DOMAIN one : one[p] = 1
    OBVIOUS
  <2>2. \A p : (IF p = pc THEN 1 ELSE 0) = IF p \in DOMAIN one THEN one[p] ELSE 0
    BY <2>1
  <2> HIDE DEF one
  <2>3. QED
    BY <2>1, <2>2 DEF Increment, Plus
<1>2. CountsOf(trace, one, {i})
  <2>1. RowsAt(trace, {i}, {pc}) = {i}
    BY DEF RowsAt
  <2>2. Cardinality({i}) = 1
    BY FS_Singleton
  <2>3. DOMAIN one = {trace[j].pc : j \in {i}}
    OBVIOUS
  <2>4. \A p \in DOMAIN one : p = pc /\ one[p] = 1
    OBVIOUS
  <2>5. QED
    BY <2>1, <2>2, <2>3, <2>4 DEF CountsOf
<1>3. IsFiniteSet({i})
  BY FS_Singleton
<1> HIDE DEF one
<1>4. CountsOf(trace, Plus(cnt, one), R \cup {i})
  BY <1>2, <1>3, RowsAdded
<1>5. QED
  BY <1>1, <1>4

(* Pairs of numbers have a largest.                                        *)
LEMMA LexMaxFound ==
  ASSUME NEW S, S \subseteq Nat \X Nat, S # {}, NEW n \in Nat, \A s \in S : s[1] <= n /\ s[2] <= n
  PROVE  LexMax(S) \in S
<1> DEFINE Y == {s[1] : s \in S}
<1>1. Y \subseteq Nat /\ Y # {} /\ \A y \in Y : y <= n
  OBVIOUS
<1>2. Max(Y) \in Y /\ \A y \in Y : y <= Max(Y)
  <2> HIDE DEF Y
  <2>1. QED
    BY <1>1, MaxIs
<1>3. PICK r \in S : r[1] = Max(Y)
  BY <1>2
<1> DEFINE X == {s[2] : s \in {r2 \in S : r2[1] = r[1]}}
<1>4. X \subseteq Nat /\ X # {} /\ \A x \in X : x <= n
  OBVIOUS
<1>5. Max(X) \in X /\ \A x \in X : x <= Max(X)
  <2> HIDE DEF X
  <2>1. QED
    BY <1>4, MaxIs
<1>6. PICK m \in S : m[1] = r[1] /\ m[2] = Max(X)
  BY <1>5
<1>7. ASSUME NEW s \in S
      PROVE  s[1] < m[1] \/ (s[1] = m[1] /\ s[2] <= m[2])
  <2>1. s[1] \in Y /\ s[1] \in Nat /\ m[1] \in Nat
    OBVIOUS
  <2>2. s[1] <= m[1]
    BY <1>2, <1>3, <1>6, <2>1
  <2>3. CASE s[1] = m[1]
    <3>1. s[2] \in X
      BY <1>6, <2>3
    <3>2. QED
      BY <1>5, <1>6, <2>3, <3>1
  <2>4. QED
    BY <2>1, <2>2, <2>3
<1> DEFINE P(t) == \A s \in S : s[1] < t[1] \/ (s[1] = t[1] /\ s[2] <= t[2])
<1>8. P(m)
  BY <1>7
<1>9. LexMax(S) = CHOOSE t \in S : P(t)
  BY DEF LexMax
<1> HIDE DEF P
<1>10. QED
  BY <1>8, <1>9

(* The rows among the first n that are counted, of some tiles.             *)
CountedTo(trace, n, tiles) ==
  {i \in 1 .. n : trace[i].op \notin NotCounted /\ <<trace[i].y, trace[i].x>> \in tiles}

(* The counts of the tiles are those of the rows read so far.              *)
TilesCounted(trace, n, tiles, cnt) ==
  /\ \A i \in 1 .. n : trace[i].op \notin NotCounted => <<trace[i].y, trace[i].x>> \in tiles
  /\ DOMAIN cnt = tiles
  /\ \A t \in tiles : CountsOf(trace, cnt[t], CountedTo(trace, n, {t}))

(* The tiles before a pair, row by row.                                    *)
Before(at, tiles) == {t \in tiles : t[1] < at.y \/ (t[1] = at.y /\ t[2] < at.x)}

PhDims == phDim.y \in Nat \ {0} /\ phDim.x \in Nat \ {0}

(* Every table made is that of counts of rows: of each tile those of its   *)
(* own, of the total those of the tiles added.                             *)
CountInv ==
  /\ phTrace \in PhTraces /\ phRow \in 0 .. Len(phTrace)
  /\ phPc \in {"parse", "count", "tiles", "total", "done", "failed"}
  /\ phPc = "parse" => phRow = 0
  /\ phPc \in {"count", "tiles", "total", "done"} =>
       PhDims /\ TilesCounted(phTrace, phRow, Tiles, phCnt)
  /\ phPc \in {"tiles", "total", "done"} => phRow = Len(phTrace)
  /\ phPc \in {"parse", "count", "tiles"} => phAt = [y |-> 0, x |-> 0] /\ phSum = <<>>
  /\ phPc \in {"total", "done"} => phHist = [t \in Tiles |-> Histogram(phCnt[t])]
  /\ phPc = "total" =>
       /\ phAt \in [y : 0 .. phDim.y, x : 0 .. phDim.x - 1] /\ (phAt.y = phDim.y => phAt.x = 0)
       /\ CountsOf(phTrace, phSum, CountedTo(phTrace, phRow, Before(phAt, Tiles)))
  /\ phPc = "done" =>
       /\ phTotal = Histogram(phSum)
       /\ CountsOf(phTrace, phSum, CountedTo(phTrace, phRow, Tiles))

(* What the assumption says of a trace.                                    *)
LEMMA PhRows ==
  ASSUME phTrace \in PhTraces
  PROVE  /\ Len(phTrace) \in Nat /\ DOMAIN phTrace = 1 .. Len(phTrace)
         /\ ToSet(phTrace) = {phTrace[i] : i \in 1 .. Len(phTrace)}
         /\ \A i \in 1 .. Len(phTrace) :
              phTrace[i].x \in Nat /\ phTrace[i].y \in Nat /\ phTrace[i].pc \in Nat
<1>1. phTrace \in Seq(ToSet(phTrace))
  BY PhAssumption
<1>2. Len(phTrace) \in Nat /\ DOMAIN phTrace = 1 .. Len(phTrace)
  BY <1>1
<1>3. ToSet(phTrace) = {phTrace[i] : i \in 1 .. Len(phTrace)}
  BY <1>2 DEF ToSet
<1>4. QED
  BY <1>2, <1>3, PhAssumption

LEMMA CountedFinite ==
  ASSUME NEW trace, NEW n \in Nat, NEW tiles
  PROVE  IsFiniteSet(CountedTo(trace, n, tiles))
<1>1. CountedTo(trace, n, tiles) \in SUBSET (1 .. n)
  BY DEF CountedTo
<1>2. IsFiniteSet(1 .. n)
  BY FS_Interval
<1>3. QED
  BY <1>1, <1>2, FS_Subset

(* No counts are those of no rows.                                         *)
LEMMA NothingCounted ==
  ASSUME NEW trace
  PROVE  CountsOf(trace, <<>>, {})
<1>1. DOMAIN <<>> = {}
  OBVIOUS
<1>2. QED
  BY <1>1 DEF CountsOf

(* The dimensions are positive, and nothing is counted yet.                *)
LEMMA ParseCounts ==
  ASSUME CountInv, ParseTraces
  PROVE  CountInv'
<1>1. /\ phPc = "parse" /\ phPc' = "count" /\ phTrace' = phTrace /\ phRow' = phRow /\ phRow = 0
      /\ phAt' = phAt /\ phSum' = phSum
  BY DEF ParseTraces, CountInv
<1> DEFINE S == {<<0, 0>>} \cup {<<row.y, row.x>> : row \in ToSet(phTrace)}
<1>2. PICK l \in Nat :
        /\ ToSet(phTrace) = {phTrace[i] : i \in 1 .. l}
        /\ \A i \in 1 .. l : phTrace[i].x \in Nat /\ phTrace[i].y \in Nat
  BY PhRows DEF CountInv
<1>3. PICK n1 \in Nat : \A i \in 1 .. l : phTrace[i].y <= n1
  <2> DEFINE f == [i \in 1 .. l |-> phTrace[i].y]
  <2>1. f \in [1 .. l -> Nat] /\ \A i \in 1 .. l : f[i] = phTrace[i].y
    BY <1>2
  <2> HIDE DEF f
  <2>2. \E n \in Nat : \A i \in 1 .. l : f[i] <= n
    BY <2>1, Bounded
  <2>3. QED
    BY <2>1, <2>2
<1>4. PICK n2 \in Nat : \A i \in 1 .. l : phTrace[i].x <= n2
  <2> DEFINE f == [i \in 1 .. l |-> phTrace[i].x]
  <2>1. f \in [1 .. l -> Nat] /\ \A i \in 1 .. l : f[i] = phTrace[i].x
    BY <1>2
  <2> HIDE DEF f
  <2>2. \E n \in Nat : \A i \in 1 .. l : f[i] <= n
    BY <2>1, Bounded
  <2>3. QED
    BY <2>1, <2>2
<1>5. \A s \in S : s = <<0, 0>> \/ \E i \in 1 .. l : s = <<phTrace[i].y, phTrace[i].x>>
  BY <1>2
<1>6. S \subseteq Nat \X Nat /\ S # {} /\ \A s \in S : s[1] <= n1 + n2 /\ s[2] <= n1 + n2
  <2>1. \A s \in S : s \in Nat \X Nat /\ s[1] <= n1 + n2 /\ s[2] <= n1 + n2
    BY <1>2, <1>3, <1>4, <1>5
  <2>2. <<0, 0>> \in S
    OBVIOUS
  <2>3. QED
    BY <2>1, <2>2
<1> DEFINE m == LexMax(S)
           dim == [y |-> m[1] + 1, x |-> m[2] + 1]
<1>7. phDim' = dim /\ phCnt' = [t \in (0 .. dim.y - 1) \X (0 .. dim.x - 1) |-> <<>>]
  BY DEF ParseTraces
<1> HIDE DEF S
<1>8. m \in S
  BY <1>6, LexMaxFound
<1>9. m[1] \in Nat /\ m[2] \in Nat
  BY <1>6, <1>8
<1> HIDE DEF m
<1>10. PhDims' /\ phCnt' = [t \in Tiles' |-> <<>>]
  <2>1. dim.y = m[1] + 1 /\ dim.x = m[2] + 1
    OBVIOUS
  <2> HIDE DEF dim
  <2>2. QED
    BY <1>7, <1>9, <2>1 DEF PhDims, Tiles
<1>11. TilesCounted(phTrace, 0, Tiles', phCnt')
  <2>1. \A t \in Tiles' : phCnt'[t] = <<>>
    BY <1>10
  <2>2. DOMAIN phCnt' = Tiles'
    BY <1>10
  <2>3. \A t : CountedTo(phTrace, 0, {t}) = {}
    BY DEF CountedTo
  <2>4. \A t \in Tiles' : CountsOf(phTrace, phCnt'[t], CountedTo(phTrace, 0, {t}))
    BY <2>1, <2>3, NothingCounted
  <2>5. \A i \in 1 .. 0 : FALSE
    OBVIOUS
  <2>6. QED
    BY <2>2, <2>4, <2>5 DEF TilesCounted
<1>12. QED
  BY <1>1, <1>10, <1>11 DEF CountInv

(* A row more is in the counts of its tile, unless it is not counted.      *)
LEMMA RowCounts ==
  ASSUME NEW trace, NEW n \in Nat, NEW tiles, NEW cnt, NEW new, TilesCounted(trace, n, tiles, cnt),
         LET row == trace[n + 1]  tile == <<row.y, row.x>> IN
           \/ row.op \in NotCounted /\ new = cnt
           \/ /\ row.op \notin NotCounted /\ tile \in tiles
              /\ new = [cnt EXCEPT ![tile] = Increment(@, row.pc)]
  PROVE  TilesCounted(trace, n + 1, tiles, new)
<1> DEFINE row == trace[n + 1]  tile == <<row.y, row.x>>
<1>1. /\ \A i \in 1 .. n : trace[i].op \notin NotCounted => <<trace[i].y, trace[i].x>> \in tiles
      /\ DOMAIN cnt = tiles
      /\ \A t \in tiles : CountsOf(trace, cnt[t], CountedTo(trace, n, {t}))
  BY DEF TilesCounted
<1>2. \A i \in 1 .. n + 1 : i \in 1 .. n \/ i = n + 1
  OBVIOUS
<1>3. n + 1 \in 1 .. n + 1 /\ n + 1 \notin 1 .. n /\ \A i \in 1 .. n : i \in 1 .. n + 1
  OBVIOUS
<1>4. \A t : tile \notin t \/ row.op \in NotCounted => CountedTo(trace, n + 1, t) = CountedTo(trace, n, t)
  BY <1>2, <1>3 DEF CountedTo
<1>5. \A t : tile \in t /\ row.op \notin NotCounted
               => CountedTo(trace, n + 1, t) = CountedTo(trace, n, t) \cup {n + 1}
  BY <1>2, <1>3 DEF CountedTo
<1>6. CASE row.op \in NotCounted /\ new = cnt
  <2>1. \A i \in 1 .. n + 1 : trace[i].op \notin NotCounted => <<trace[i].y, trace[i].x>> \in tiles
    BY <1>1, <1>2, <1>6
  <2>2. \A t \in tiles : CountsOf(trace, new[t], CountedTo(trace, n + 1, {t}))
    BY <1>1, <1>4, <1>6
  <2>3. QED
    BY <1>1, <1>6, <2>1, <2>2 DEF TilesCounted
<1>7. CASE /\ row.op \notin NotCounted /\ tile \in tiles
           /\ new = [cnt EXCEPT ![tile] = Increment(@, row.pc)]
  <2>1. \A i \in 1 .. n + 1 : trace[i].op \notin NotCounted => <<trace[i].y, trace[i].x>> \in tiles
    BY <1>1, <1>2, <1>7
  <2>2. /\ DOMAIN new = tiles /\ new[tile] = Increment(cnt[tile], row.pc)
        /\ \A t \in tiles : t # tile => new[t] = cnt[t]
    BY <1>1, <1>7
  <2>3. ASSUME NEW t \in tiles
        PROVE  CountsOf(trace, new[t], CountedTo(trace, n + 1, {t}))
    <3>1. CASE t = tile
      <4>1. CountedTo(trace, n + 1, {tile}) = CountedTo(trace, n, {tile}) \cup {n + 1}
        BY <1>5, <1>7
      <4>2. n + 1 \notin CountedTo(trace, n, {tile}) /\ IsFiniteSet(CountedTo(trace, n, {tile}))
        <5>1. n + 1 \notin CountedTo(trace, n, {tile})
          BY <1>3 DEF CountedTo
        <5>2. QED
          BY <5>1, CountedFinite
      <4>3. CountsOf(trace, cnt[tile], CountedTo(trace, n, {tile}))
        BY <1>1, <1>7
      <4> HIDE DEF tile
      <4>4. CountsOf(trace, Increment(cnt[tile], row.pc), CountedTo(trace, n, {tile}) \cup {n + 1})
        BY <4>2, <4>3, RowAdded
      <4>5. QED
        BY <2>2, <3>1, <4>1, <4>4
    <3>2. CASE t # tile
      <4>1. CountedTo(trace, n + 1, {t}) = CountedTo(trace, n, {t})
        BY <1>4, <3>2
      <4>2. QED
        BY <1>1, <2>2, <3>2, <4>1
    <3>3. QED
      BY <3>1, <3>2
  <2>4. QED
    BY <2>1, <2>2, <2>3 DEF TilesCounted
<1>8. QED
  BY <1>6, <1>7

LEMMA CountRowCounts ==
  ASSUME CountInv, CountRow
  PROVE  CountInv'
<1>1. /\ phPc = "count" /\ phRow < Len(phTrace) /\ phTrace' = phTrace /\ phRow' = phRow + 1
      /\ phDim' = phDim /\ phPc' \in {"count", "failed"} /\ phAt' = phAt /\ phSum' = phSum
  BY DEF CountRow
<1>2. phRow \in Nat /\ Len(phTrace) \in Nat /\ phRow + 1 \in 0 .. Len(phTrace)
  BY <1>1, PhRows DEF CountInv
<1>3. PhDims /\ TilesCounted(phTrace, phRow, Tiles, phCnt)
  BY <1>1 DEF CountInv
<1>4. Tiles' = Tiles /\ (PhDims' <=> PhDims)
  BY <1>1 DEF Tiles, PhDims
<1>5. ASSUME phPc' = "count"
      PROVE  TilesCounted(phTrace, phRow + 1, Tiles, phCnt')
  <2> DEFINE row == phTrace[phRow + 1]  tile == <<row.y, row.x>>
  <2>1. \/ row.op \in NotCounted /\ phCnt' = phCnt
        \/ /\ row.op \notin NotCounted /\ tile \in Tiles
           /\ phCnt' = [phCnt EXCEPT ![tile] = Increment(@, row.pc)]
    BY <1>1, <1>5 DEF CountRow
  <2>2. QED
    BY <1>2, <1>3, <2>1, RowCounts
<1>6. QED
  BY <1>1, <1>2, <1>3, <1>4, <1>5 DEF CountInv

(* The tables of the tiles are made; the total starts with no tile.        *)
LEMMA TilesCounts ==
  ASSUME CountInv, TileHistograms
  PROVE  CountInv'
<1>1. /\ phPc = "tiles" /\ phPc' \in {"failed", "total"}
      /\ UNCHANGED <<phTrace, phDim, phCnt, phRow, phAt, phSum, phTotal>>
      /\ phPc' = "total" => phHist' = [t \in Tiles |-> Histogram(phCnt[t])]
  BY DEF TileHistograms
<1>2. /\ PhDims /\ TilesCounted(phTrace, phRow, Tiles, phCnt) /\ phRow = Len(phTrace)
      /\ phAt = [y |-> 0, x |-> 0] /\ phSum = <<>>
  BY <1>1 DEF CountInv
<1>3. Tiles' = Tiles /\ (PhDims' <=> PhDims)
  BY <1>1 DEF Tiles, PhDims
<1>4. phAt \in [y : 0 .. phDim.y, x : 0 .. phDim.x - 1] /\ phAt.x = 0
  BY <1>2 DEF PhDims
<1>5. CountedTo(phTrace, phRow, Before(phAt, Tiles)) = {}
  <2>1. \A t \in Tiles : t[1] \in Nat /\ t[2] \in Nat
    BY <1>2 DEF Tiles, PhDims
  <2>2. Before(phAt, Tiles) = {}
    BY <1>2, <2>1 DEF Before
  <2>3. QED
    BY <2>2 DEF CountedTo
<1>6. CountsOf(phTrace, phSum, CountedTo(phTrace, phRow, Before(phAt, Tiles)))
  BY <1>2, <1>5, NothingCounted
<1>7. QED
  <2>1. /\ phTrace' \in PhTraces /\ phRow' \in 0 .. Len(phTrace') /\ phRow' = Len(phTrace')
        /\ PhDims' /\ TilesCounted(phTrace, phRow, Tiles, phCnt)'
    BY <1>1, <1>2, <1>3 DEF CountInv
  <2>2. CountsOf(phTrace, phSum, CountedTo(phTrace, phRow, Before(phAt, Tiles)))'
    BY <1>1, <1>3, <1>6
  <2>3. phPc' = "total" => phHist' = [t \in Tiles' |-> Histogram(phCnt'[t])]
    BY <1>1, <1>3
  <2>4. QED
    BY <1>1, <1>4, <2>1, <2>2, <2>3 DEF CountInv

(* The tiles up to the next are those before it and one more.              *)
LEMMA TilesBefore ==
  ASSUME NEW ydim \in Nat \ {0}, NEW xdim \in Nat \ {0},
         NEW y \in 0 .. ydim - 1, NEW x \in 0 .. xdim - 1,
         NEW tiles, tiles = (0 .. ydim - 1) \X (0 .. xdim - 1),
         NEW next, next = IF x + 1 < xdim THEN [y |-> y, x |-> x + 1] ELSE [y |-> y + 1, x |-> 0]
  PROVE  /\ Before(next, tiles) = Before([y |-> y, x |-> x], tiles) \cup {<<y, x>>}
         /\ <<y, x>> \in tiles /\ <<y, x>> \notin Before([y |-> y, x |-> x], tiles)
<1> DEFINE at == [y |-> y, x |-> x]
<1>1. /\ \A t \in tiles : t = <<t[1], t[2]>> /\ t[1] \in 0 .. ydim - 1 /\ t[2] \in 0 .. xdim - 1
      /\ <<y, x>> \in tiles
  OBVIOUS
<1>2. at.y = y /\ at.x = x
  OBVIOUS
<1>3. ASSUME NEW t \in tiles
      PROVE  (t[1] < next.y \/ (t[1] = next.y /\ t[2] < next.x))
               <=> (t[1] < y \/ (t[1] = y /\ t[2] < x)) \/ t = <<y, x>>
  <2>1. t = <<y, x>> <=> t[1] = y /\ t[2] = x
    BY <1>1
  <2>2. t[1] \in Nat /\ t[2] \in Nat /\ t[2] < xdim
    BY <1>1
  <2>3. CASE x + 1 < xdim
    <3>1. next.y = y /\ next.x = x + 1
      BY <2>3
    <3>2. QED
      BY <2>1, <2>2, <3>1
  <2>4. CASE ~(x + 1 < xdim)
    <3>1. next.y = y + 1 /\ next.x = 0 /\ x = xdim - 1
      BY <2>4
    <3>2. QED
      BY <2>1, <2>2, <3>1
  <2>5. QED
    BY <2>3, <2>4
<1> HIDE DEF at
<1>4. \A t \in tiles : t \in Before(at, tiles) <=> (t[1] < y \/ (t[1] = y /\ t[2] < x))
  BY <1>2 DEF Before
<1>5. \A t \in tiles : t \in Before(next, tiles) <=> (t[1] < next.y \/ (t[1] = next.y /\ t[2] < next.x))
  BY DEF Before
<1>6. <<y, x>> \notin Before(at, tiles)
  <2>1. <<y, x>>[1] = y /\ <<y, x>>[2] = x
    OBVIOUS
  <2>2. QED
    BY <1>1, <1>4, <2>1
<1>7. Before(next, tiles) \subseteq tiles /\ Before(at, tiles) \subseteq tiles
  BY DEF Before
<1>8. \A t : t \in Before(next, tiles) <=> t \in Before(at, tiles) \/ t = <<y, x>>
  BY <1>1, <1>3, <1>4, <1>5, <1>7
<1>9. Before(next, tiles) = Before(at, tiles) \cup {<<y, x>>}
  BY <1>8
<1>10. QED
  BY <1>1, <1>6, <1>9 DEF at

(* The counts of a tile are added to those before it.                      *)
LEMMA AddTileCounts ==
  ASSUME CountInv, AddTile
  PROVE  CountInv'
<1>1. /\ phPc = "total" /\ phAt.y < phDim.y
      /\ UNCHANGED <<phPc, phTrace, phDim, phCnt, phRow, phHist, phTotal>>
      /\ phSum' = Plus(phSum, phCnt[<<phAt.y, phAt.x>>])
      /\ phAt' = IF phAt.x + 1 < phDim.x THEN [phAt EXCEPT !.x = @ + 1]
                                         ELSE [y |-> phAt.y + 1, x |-> 0]
  BY DEF AddTile
<1>2. /\ PhDims /\ TilesCounted(phTrace, phRow, Tiles, phCnt) /\ phTrace \in PhTraces
      /\ phRow \in 0 .. Len(phTrace)
      /\ phAt \in [y : 0 .. phDim.y, x : 0 .. phDim.x - 1]
      /\ CountsOf(phTrace, phSum, CountedTo(phTrace, phRow, Before(phAt, Tiles)))
  BY <1>1 DEF CountInv
<1>3. PICK y, x, ydim, xdim : y = phAt.y /\ x = phAt.x /\ ydim = phDim.y /\ xdim = phDim.x
  OBVIOUS
<1>4. /\ ydim \in Nat \ {0} /\ xdim \in Nat \ {0} /\ y \in 0 .. ydim - 1 /\ x \in 0 .. xdim - 1
      /\ Tiles = (0 .. ydim - 1) \X (0 .. xdim - 1)
  BY <1>1, <1>2, <1>3 DEF PhDims, Tiles
<1>5. phAt = [y |-> y, x |-> x]
  BY <1>2, <1>3
<1>6. phAt' = IF x + 1 < xdim THEN [y |-> y, x |-> x + 1] ELSE [y |-> y + 1, x |-> 0]
  BY <1>1, <1>3, <1>5
<1>7. /\ Before(phAt', Tiles) = Before(phAt, Tiles) \cup {<<y, x>>}
      /\ <<y, x>> \in Tiles /\ <<y, x>> \notin Before(phAt, Tiles)
  <2>1. PICK next, tiles : next = phAt' /\ tiles = Tiles
    OBVIOUS
  <2>2. /\ Before(next, tiles) = Before([y |-> y, x |-> x], tiles) \cup {<<y, x>>}
        /\ <<y, x>> \in tiles /\ <<y, x>> \notin Before([y |-> y, x |-> x], tiles)
    <3>1. /\ tiles = (0 .. ydim - 1) \X (0 .. xdim - 1)
          /\ next = IF x + 1 < xdim THEN [y |-> y, x |-> x + 1] ELSE [y |-> y + 1, x |-> 0]
      BY <1>4, <1>6, <2>1
    <3>2. QED
      BY <1>4, <3>1, TilesBefore
  <2>3. QED
    BY <1>5, <2>1, <2>2
<1> DEFINE R == CountedTo(phTrace, phRow, Before(phAt, Tiles))
           Q == CountedTo(phTrace, phRow, {<<y, x>>})
<1>8. phRow \in Nat
  BY <1>2
<1>9. IsFiniteSet(R) /\ IsFiniteSet(Q) /\ R \cap Q = {}
  <2>1. R \cap Q = {}
    BY <1>7 DEF CountedTo
  <2>2. QED
    BY <1>8, <2>1, CountedFinite
<1>10. CountedTo(phTrace, phRow, Before(phAt', Tiles)) = R \cup Q
  BY <1>7 DEF CountedTo
<1>11. CountsOf(phTrace, phCnt[<<y, x>>], Q)
  BY <1>2, <1>7 DEF TilesCounted
<1> HIDE DEF R, Q
<1>12. CountsOf(phTrace, Plus(phSum, phCnt[<<y, x>>]), R \cup Q)
  BY <1>2, <1>9, <1>11, RowsAdded DEF R
<1>13. CountsOf(phTrace, phSum', CountedTo(phTrace, phRow, Before(phAt', Tiles)))
  BY <1>1, <1>3, <1>10, <1>12
<1>14. Tiles' = Tiles /\ (PhDims' <=> PhDims)
  BY <1>1 DEF Tiles, PhDims
<1>15. CountsOf(phTrace, phSum, CountedTo(phTrace, phRow, Before(phAt, Tiles)))'
  BY <1>1, <1>13, <1>14
<1>16. phAt' \in [y : 0 .. ydim, x : 0 .. xdim - 1] /\ (phAt'.y = ydim => phAt'.x = 0)
  <2>1. CASE x + 1 < xdim
    <3>1. phAt' = [y |-> y, x |-> x + 1] /\ y # ydim
      BY <1>4, <1>6, <2>1
    <3>2. QED
      BY <1>4, <2>1, <3>1
  <2>2. CASE ~(x + 1 < xdim)
    <3>1. phAt' = [y |-> y + 1, x |-> 0]
      BY <1>6, <2>2
    <3>2. QED
      BY <1>4, <3>1
  <2>3. QED
    BY <2>1, <2>2
<1>17. QED
  <2>1. TilesCounted(phTrace, phRow, Tiles, phCnt)'
    BY <1>1, <1>2, <1>14
  <2>2. phHist' = [t \in Tiles' |-> Histogram(phCnt'[t])]
    BY <1>1, <1>14 DEF CountInv
  <2>3. phAt' \in [y : 0 .. phDim'.y, x : 0 .. phDim'.x - 1] /\ (phAt'.y = phDim'.y => phAt'.x = 0)
    BY <1>1, <1>3, <1>16
  <2>4. phTrace' \in PhTraces /\ phRow' = Len(phTrace') /\ phRow' \in 0 .. Len(phTrace')
    BY <1>1 DEF CountInv
  <2>5. QED
    BY <1>1, <1>2, <1>14, <1>15, <2>1, <2>2, <2>3, <2>4 DEF CountInv

(* The total is the table of all tiles.                                    *)
LEMMA TotalCounts ==
  ASSUME CountInv, TotalHistogram
  PROVE  CountInv'
<1>1. /\ phPc = "total" /\ phAt.y = phDim.y /\ phPc' = "done" /\ phTotal' = Histogram(phSum)
      /\ UNCHANGED <<phTrace, phDim, phCnt, phRow, phHist, phAt, phSum>>
  BY DEF TotalHistogram
<1>2. /\ PhDims /\ TilesCounted(phTrace, phRow, Tiles, phCnt)
      /\ CountsOf(phTrace, phSum, CountedTo(phTrace, phRow, Before(phAt, Tiles)))
      /\ phHist = [t \in Tiles |-> Histogram(phCnt[t])]
      /\ phTrace \in PhTraces /\ phRow = Len(phTrace) /\ phRow \in 0 .. Len(phTrace)
  BY <1>1 DEF CountInv
<1>3. Before(phAt, Tiles) = Tiles
  <2>1. \A t \in Tiles : t[1] < phAt.y
    BY <1>1, <1>2 DEF Tiles, PhDims
  <2>2. QED
    BY <2>1 DEF Before
<1>4. CountsOf(phTrace, phSum, CountedTo(phTrace, phRow, Tiles))
  BY <1>2, <1>3
<1>5. Tiles' = Tiles /\ (PhDims' <=> PhDims)
  BY <1>1 DEF Tiles, PhDims
<1>6. /\ CountsOf(phTrace, phSum, CountedTo(phTrace, phRow, Tiles))'
      /\ TilesCounted(phTrace, phRow, Tiles, phCnt)'
      /\ phHist' = [t \in Tiles' |-> Histogram(phCnt'[t])] /\ phTotal' = Histogram(phSum')
  BY <1>1, <1>2, <1>4, <1>5
<1>7. QED
  BY <1>1, <1>2, <1>5, <1>6 DEF CountInv

LEMMA CountStepInv == CountInv /\ [PhNext]_phVars => CountInv'
<1> SUFFICES ASSUME CountInv, [PhNext]_phVars
             PROVE  CountInv'
  OBVIOUS
<1>1. CASE CountEnd
  <2>1. /\ phPc = "count" /\ phRow = Len(phTrace) /\ phPc' = "tiles"
        /\ UNCHANGED <<phTrace, phDim, phCnt, phRow, phHist, phAt, phSum, phTotal>>
    BY <1>1 DEF CountEnd
  <2>2. (PhDims' <=> PhDims) /\ Tiles' = Tiles
    BY <2>1 DEF PhDims, Tiles
  <2>3. PhDims /\ TilesCounted(phTrace, phRow, Tiles, phCnt)
    BY <2>1 DEF CountInv
  <2>4. TilesCounted(phTrace, phRow, Tiles, phCnt)'
    BY <2>1, <2>2, <2>3
  <2>5. QED
    BY <2>1, <2>2, <2>3, <2>4 DEF CountInv
<1>2. CASE UNCHANGED phVars
  <2>1. /\ phPc' = phPc
        /\ UNCHANGED <<phTrace, phDim, phCnt, phRow, phHist, phAt, phSum, phTotal>>
    BY <1>2 DEF phVars
  <2>2. (PhDims' <=> PhDims) /\ Tiles' = Tiles
    BY <2>1 DEF PhDims, Tiles
  <2>3. QED
    BY <2>1, <2>2 DEF CountInv
<1>3. QED
  BY <1>1, <1>2, ParseCounts, CountRowCounts, TilesCounts, AddTileCounts, TotalCounts DEF PhNext

(* For every trace: at the end the table of each tile, and that of all,    *)
(* has every executed row in one block, states how often each instruction  *)
(* of a block was executed, splits no block, and adds up, although it was  *)
(* cut from sorted addresses by comparing neighbours only.                 *)
THEOREM HistogramsAreExact == PhSpec => []HistogramsExact
<1>1. PhInit => CountInv
  BY PhRows DEF PhInit, PhState, CountInv
<1>2. CountInv => HistogramsExact
  <2> SUFFICES ASSUME CountInv, phPc = "done"
               PROVE  /\ \A t \in Tiles : Describes(phHist[t], {t})
                      /\ Describes(phTotal, Tiles) /\ Executed(Tiles) = Executed(Int \X Int)
    BY DEF HistogramsExact
  <2>1. /\ PhDims /\ TilesCounted(phTrace, phRow, Tiles, phCnt) /\ phRow = Len(phTrace)
        /\ phHist = [t \in Tiles |-> Histogram(phCnt[t])] /\ phTotal = Histogram(phSum)
        /\ CountsOf(phTrace, phSum, CountedTo(phTrace, phRow, Tiles)) /\ phTrace \in PhTraces
    BY DEF CountInv
  <2>2. PICK l \in Nat : /\ l = Len(phTrace) /\ DOMAIN phTrace = 1 .. l
                         /\ \A i \in 1 .. l : /\ phTrace[i].x \in Nat /\ phTrace[i].y \in Nat
                                              /\ phTrace[i].pc \in Nat
    BY <2>1, PhRows
  <2>3. \A tiles : Executed(tiles) = CountedTo(phTrace, phRow, tiles)
    BY <2>1, <2>2 DEF Executed, CountedTo
  <2>4. ASSUME NEW t \in Tiles
        PROVE  Describes(phHist[t], {t})
    <3>1. CountsOf(phTrace, phCnt[t], Executed({t}))
      BY <2>1, <2>3 DEF TilesCounted
    <3>2. Describes(Histogram(phCnt[t]), {t})
      BY <2>2, <3>1, TableDescribes
    <3>3. QED
      BY <2>1, <3>2
  <2>5. Describes(phTotal, Tiles)
    <3>1. CountsOf(phTrace, phSum, Executed(Tiles))
      BY <2>1, <2>3
    <3>2. QED
      BY <2>1, <2>2, <3>1, TableDescribes
  <2>6. Executed(Tiles) = Executed(Int \X Int)
    <3>1. Tiles \subseteq Int \X Int
      BY DEF Tiles
    <3>2. ASSUME NEW i \in 1 .. l, phTrace[i].op \notin NotCounted
          PROVE  <<phTrace[i].y, phTrace[i].x>> \in Tiles
      BY <2>1, <2>2, <3>2 DEF TilesCounted
    <3>3. QED
      BY <2>2, <3>1, <3>2 DEF Executed
  <2>7. QED
    BY <2>4, <2>5, <2>6
<1>3. QED
  BY <1>1, <1>2, CountStepInv, PTL DEF PhSpec

----------------------------------------------------------------------------
(* The traces of spike2tr.py.                                              *)

SpSpec == SpInit /\ [][SpNext]_spVars

CoreAt(i)  == spLog[i].kind = "core"
BootAt(i)  == CoreAt(i) /\ spLog[i].pc = SpBootPc
EcallAt(i) == CoreAt(i) /\ spLog[i].op = "ecall"
(* The writes of the first n lines that are to be checked.                 *)
CheckedTo(n) ==
  {i \in 1 .. n : /\ spLog[i].kind \in {"rd", "st"}
                  /\ \E b \in 1 .. i : BootAt(b)
                  /\ spLog[OfInstr(i)].op # "csr"}
(* msg holds the lines C, in their order.                                  *)
InOrder(msg, C) ==
  /\ Len(msg) = Cardinality(C)
  /\ \A i \in C : msg[Rank(C, i)] = spLog[i]

(* The registers of the script say what the lines read so far say, and its *)
(* messages are their writes.                                              *)
TopInv ==
  /\ spAt \in 0 .. Len(spLog) /\ spStart \in BOOLEAN /\ spSkip \in BOOLEAN
  /\ spStart <=> \E b \in 1 .. spAt : BootAt(b)
  /\ \A s \in 1 .. spAt : ~EcallAt(s)
  /\ (\E j \in 1 .. spAt : CoreAt(j)) => (spSkip <=> spLog[OfInstr(spAt)].op = "csr")
  /\ spMsg \in Seq(ToSet(spLog)) /\ InOrder(spMsg, CheckedTo(spAt))
  /\ spPc = "done" => spAt = Len(spLog) \/ EcallAt(spAt + 1)
SpInv == spLog \in SpLogs /\ (spTool = "top" => TopInv)

----------------------------------------------------------------------------
(* The instruction a line belongs to: its own, or that of the line before. *)
LEMMA OfInstrNext ==
  ASSUME NEW n \in Nat
  PROVE  /\ CoreAt(n + 1) => OfInstr(n + 1) = n + 1
         /\ ~CoreAt(n + 1) => OfInstr(n + 1) = OfInstr(n)
<1> DEFINE C(k) == {j \in 1 .. k : CoreAt(j)}
<1>1. OfInstr(n + 1) = Max(C(n + 1)) /\ OfInstr(n) = Max(C(n))
  BY DEF OfInstr, CoreAt
<1>2. ASSUME CoreAt(n + 1)
      PROVE  Max(C(n + 1)) = n + 1
  <2>1. n + 1 \in C(n + 1) /\ \A y \in C(n + 1) : n + 1 >= y
    BY <1>2
  <2>2. \A x \in C(n + 1) : (\A y \in C(n + 1) : x >= y) => x = n + 1
    BY <2>1
  <2> HIDE DEF C
  <2>3. QED
    BY <2>1, <2>2 DEF Max
<1>3. ASSUME ~CoreAt(n + 1)
      PROVE  C(n + 1) = C(n)
  BY <1>3
<1>4. QED
  BY <1>1, <1>2, <1>3

(* A line that is not checked, and one that is.                            *)
LEMMA NotChecked ==
  ASSUME NEW n \in Nat, ~(n + 1 \in CheckedTo(n + 1))
  PROVE  CheckedTo(n + 1) = CheckedTo(n)
BY DEF CheckedTo

(* A line to be checked comes after all that were.                         *)
LEMMA OneChecked ==
  ASSUME NEW n \in Nat, n + 1 \in CheckedTo(n + 1), NEW msg \in Seq(ToSet(spLog)),
         InOrder(msg, CheckedTo(n))
  PROVE  InOrder(Append(msg, spLog[n + 1]), CheckedTo(n + 1))
<1> DEFINE C == CheckedTo(n)
           D == CheckedTo(n + 1)
           new == Append(msg, spLog[n + 1])
<1>1. D = C \cup {n + 1} /\ n + 1 \notin C /\ C \subseteq 1 .. n
  BY DEF CheckedTo
<1>2. IsFiniteSet(C)
  <2>1. IsFiniteSet(1 .. n)
    BY FS_Interval
  <2>2. QED
    BY <1>1, <2>1, FS_Subset
<1>3. IsFiniteSet(D) /\ Cardinality(D) = Cardinality(C) + 1 /\ Cardinality(C) \in Nat
  BY <1>1, <1>2, FS_AddElement, FS_CardinalityType
<1> HIDE DEF C, D
<1>4. Len(msg) = Cardinality(C) /\ \A i \in C : msg[Rank(C, i)] = spLog[i]
  BY DEF InOrder, C
<1>5. Len(new) = Cardinality(D) /\ new[Cardinality(D)] = spLog[n + 1]
      /\ \A k \in 1 .. Cardinality(C) : new[k] = msg[k]
  BY <1>3, <1>4
<1> HIDE DEF new
<1>6. ASSUME NEW i \in D
      PROVE  new[Rank(D, i)] = spLog[i]
  <2>1. CASE i = n + 1
    <3>1. {j \in D : j <= i} = D
      <4>1. \A j \in C : j <= n + 1
        BY <1>1
      <4>2. \A j \in D : j <= i
        BY <1>1, <2>1, <4>1
      <4>3. QED
        BY <4>2
    <3>2. QED
      BY <1>5, <2>1, <3>1 DEF Rank
  <2>2. CASE i \in C
    <3>1. {j \in D : j <= i} = {j \in C : j <= i}
      BY <1>1, <2>2
    <3>2. i \in {j \in C : j <= i} /\ {j \in C : j <= i} \subseteq C
      BY <1>1, <2>2
    <3>3. Rank(C, i) \in 1 .. Cardinality(C)
      <4> DEFINE B == {j \in C : j <= i}
      <4>1. IsFiniteSet(B) /\ Cardinality(B) <= Cardinality(C)
        BY <1>2, <3>2, FS_Subset
      <4>2. Cardinality(B) \in Nat /\ Cardinality(B) # 0
        BY <3>2, <4>1, FS_CardinalityType, FS_EmptySet
      <4> HIDE DEF B
      <4>3. Cardinality(B) \in 1 .. Cardinality(C)
        BY <1>3, <4>1, <4>2
      <4>4. QED
        BY <4>3 DEF Rank, B
    <3>4. Rank(D, i) = Rank(C, i)
      BY <3>1 DEF Rank
    <3>5. QED
      BY <1>4, <1>5, <2>2, <3>3, <3>4
  <2>3. QED
    BY <1>1, <2>1, <2>2
<1>7. QED
  BY <1>5, <1>6 DEF InOrder, D, new

(* A line of the log, as the tool of the top level treats it.              *)
LEMMA TopLineKeeps ==
  ASSUME SpInv, TopLine
  PROVE  SpInv'
<1>1. spTool = "top" /\ spTool' = spTool /\ spLog' = spLog /\ spPc' = spPc /\ spPc = "run"
      /\ spAt < Len(spLog) /\ spAt' = spAt + 1 /\ ~EcallAt(spAt + 1)
  BY DEF TopLine, Runs, IsEcall, LogLine, EcallAt, CoreAt
<1>2. TopInv /\ spLog \in SpLogs /\ spLog \in Seq(ToSet(spLog))
  BY <1>1, SpAssumption DEF SpInv
<1>3. spAt \in Nat /\ spAt + 1 \in 1 .. Len(spLog) /\ spLog[spAt + 1] \in ToSet(spLog)
  BY <1>1, <1>2 DEF TopInv, ToSet
<1> DEFINE i == spAt + 1
<1>4. \A k : CoreAt(k)' = CoreAt(k) /\ BootAt(k)' = BootAt(k) /\ EcallAt(k)' = EcallAt(k)
             /\ OfInstr(k)' = OfInstr(k) /\ CheckedTo(k)' = CheckedTo(k)
  BY <1>1 DEF CoreAt, BootAt, EcallAt, OfInstr, CheckedTo
<1>5. spStart' <=> \E b \in 1 .. i : BootAt(b)
  <2>1. spStart' <=> (spStart \/ BootAt(i))
    BY DEF TopLine, BootAt, CoreAt, IsInstr, LogLine
  <2>2. spStart <=> \E b \in 1 .. spAt : BootAt(b)
    BY <1>2 DEF TopInv
  <2>3. \A b : b \in 1 .. i <=> b \in 1 .. spAt \/ b = i
    BY <1>3
  <2> HIDE DEF i
  <2>4. QED
    BY <2>1, <2>2, <2>3
<1>6. \A s \in 1 .. i : ~EcallAt(s)
  <2>1. \A b : b \in 1 .. i <=> b \in 1 .. spAt \/ b = i
    BY <1>3
  <2>2. QED
    BY <1>1, <1>2, <2>1 DEF TopInv
<1>7. spStart' \in BOOLEAN /\ spSkip' \in BOOLEAN
  BY <1>2 DEF TopLine, TopInv, Skips
<1>8. (\E j \in 1 .. i : CoreAt(j)) => (spSkip' <=> spLog[OfInstr(i)].op = "csr")
  <2>1. CASE CoreAt(i)
    <3>1. OfInstr(i) = i
      BY <1>3, <2>1, OfInstrNext
    <3>2. spSkip' = (spLog[i].op = "csr")
      BY <2>1 DEF TopLine, IsInstr, LogLine, Skips, CoreAt
    <3>3. QED
      BY <3>1, <3>2
  <2>2. CASE ~CoreAt(i)
    <3>1. OfInstr(i) = OfInstr(spAt)
      BY <1>3, <2>2, OfInstrNext
    <3>2. spSkip' = spSkip
      BY <2>2 DEF TopLine, IsInstr, LogLine, CoreAt
    <3>3. \A j \in 1 .. i : CoreAt(j) => j \in 1 .. spAt
      BY <1>3, <2>2
    <3>4. QED
      BY <1>2, <3>1, <3>2, <3>3 DEF TopInv
  <2>3. QED
    BY <2>1, <2>2
<1>9. i \in CheckedTo(i) <=> spLog[i].kind \in {"rd", "st"} /\ spStart /\ ~spSkip
  <2>1. ASSUME spLog[i].kind \in {"rd", "st"}
        PROVE  /\ ~CoreAt(i) /\ OfInstr(i) = OfInstr(spAt)
               /\ spStart <=> \E b \in 1 .. i : BootAt(b)
               /\ spStart => (spSkip <=> spLog[OfInstr(i)].op = "csr")
    <3>1. ~CoreAt(i)
      BY <2>1 DEF CoreAt
    <3>2. OfInstr(i) = OfInstr(spAt)
      BY <1>3, <3>1, OfInstrNext
    <3>3. \A b \in 1 .. i : BootAt(b) => b \in 1 .. spAt
      BY <1>3, <3>1 DEF BootAt
    <3>4. \A b \in 1 .. spAt : b \in 1 .. i
      BY <1>3
    <3>5. spStart <=> \E b \in 1 .. i : BootAt(b)
      BY <1>2, <3>3, <3>4 DEF TopInv
    <3>6. spStart => \E j \in 1 .. spAt : CoreAt(j)
      BY <1>2 DEF TopInv, BootAt
    <3>7. QED
      BY <1>2, <3>1, <3>2, <3>5, <3>6 DEF TopInv
  <2>2. i \in 1 .. i
    BY <1>3
  <2> HIDE DEF i
  <2>3. QED
    BY <2>1, <2>2 DEF CheckedTo
<1>10. spMsg' \in Seq(ToSet(spLog)) /\ InOrder(spMsg', CheckedTo(i))
  <2>1. spMsg \in Seq(ToSet(spLog)) /\ InOrder(spMsg, CheckedTo(spAt))
    BY <1>2 DEF TopInv
  <2>2. CASE i \in CheckedTo(i)
    <3>1. spMsg' = Append(spMsg, spLog[i])
      BY <1>9, <2>2 DEF TopLine, LogLine
    <3>2. InOrder(Append(spMsg, spLog[i]), CheckedTo(i))
      BY <1>3, <2>1, <2>2, OneChecked
    <3>3. QED
      BY <1>3, <2>1, <3>1, <3>2
  <2>3. CASE ~(i \in CheckedTo(i))
    <3>1. spMsg' = spMsg
      BY <1>9, <2>3 DEF TopLine, LogLine
    <3>2. QED
      BY <1>3, <2>1, <2>3, <3>1, NotChecked
  <2>4. QED
    BY <2>2, <2>3
<1>11. InOrder(spMsg, CheckedTo(spAt))'
  <2>1. CheckedTo(spAt)' = CheckedTo(i)
    BY <1>1 DEF CheckedTo, OfInstr, BootAt, CoreAt
  <2> HIDE DEF i
  <2>2. QED
    BY <1>1, <1>10, <2>1 DEF InOrder, Rank
<1>12. TopInv'
  <2>1. spAt' \in 0 .. Len(spLog')
    BY <1>1, <1>3
  <2>2. spStart' <=> \E b \in 1 .. spAt' : BootAt(b)'
    BY <1>1, <1>4, <1>5
  <2>3. \A s \in 1 .. spAt' : ~EcallAt(s)'
    BY <1>1, <1>4, <1>6
  <2>4. (\E j \in 1 .. spAt' : CoreAt(j)') => (spSkip' <=> spLog'[OfInstr(spAt)'].op = "csr")
    <3>1. OfInstr(spAt)' = OfInstr(i)
      BY <1>1 DEF OfInstr
    <3>2. QED
      BY <1>1, <1>4, <1>8, <3>1
  <2>5. QED
    BY <1>1, <1>7, <1>10, <1>11, <2>1, <2>2, <2>3, <2>4 DEF TopInv
<1>13. QED
  BY <1>1, <1>2, <1>12 DEF SpInv

(* Nothing is read yet.                                                    *)
LEMMA SpInitInv == SpInit => SpInv
<1> SUFFICES ASSUME SpInit
             PROVE  SpInv
  OBVIOUS
<1>1. spLog \in SpLogs /\ spLog \in Seq(ToSet(spLog)) /\ spAt = 0 /\ spStart = FALSE
      /\ spSkip = FALSE /\ spPc = "run"
  BY SpAssumption DEF SpInit, SpState
<1>2. CheckedTo(0) = {}
  BY DEF CheckedTo
<1>3. ASSUME spTool = "top"
      PROVE  TopInv
  <2>1. spMsg = <<>>
    BY <1>3 DEF SpInit, SpState
  <2>2. InOrder(spMsg, CheckedTo(0))
    BY <1>2, <2>1, FS_EmptySet DEF InOrder
  <2>3. spMsg \in Seq(ToSet(spLog))
    BY <2>1
  <2>4. Len(spLog) \in Nat
    BY <1>1
  <2>5. QED
    <3>1. \A k : k \notin 1 .. spAt
      BY <1>1
    <3>2. InOrder(spMsg, CheckedTo(spAt)) /\ spAt \in 0 .. Len(spLog)
      BY <1>1, <2>2, <2>4
    <3>3. QED
      BY <1>1, <2>3, <3>1, <3>2 DEF TopInv
<1>4. QED
  BY <1>1, <1>3 DEF SpInv

(* No line is read.                                                        *)
LEMMA TopStays ==
  ASSUME TopInv, UNCHANGED <<spLog, spAt, spStart, spSkip, spMsg>>,
         spPc' = "done" => spAt = Len(spLog) \/ EcallAt(spAt + 1)
  PROVE  TopInv'
<1>1. \A k : CoreAt(k)' = CoreAt(k) /\ BootAt(k)' = BootAt(k) /\ EcallAt(k)' = EcallAt(k)
  BY DEF CoreAt, BootAt, EcallAt
<1>2. OfInstr(spAt)' = OfInstr(spAt)
  BY DEF OfInstr
<1>3. CheckedTo(spAt)' = CheckedTo(spAt)
  BY DEF CheckedTo, OfInstr, BootAt, CoreAt
<1>4. InOrder(spMsg, CheckedTo(spAt))'
  BY <1>3 DEF TopInv, InOrder, Rank
<1>5. EcallAt(spAt + 1)' = EcallAt(spAt + 1)
  BY DEF EcallAt, CoreAt
<1>6. QED
  BY <1>1, <1>2, <1>4, <1>5 DEF TopInv

(* Every step keeps the tool in order.                                     *)
LEMMA SpStepInv == SpInv /\ [SpNext]_spVars => SpInv'
<1> SUFFICES ASSUME SpInv, [SpNext]_spVars
             PROVE  SpInv'
  OBVIOUS
<1>1. CASE TopLine
  BY <1>1, TopLineKeeps
<1>2. CASE TopEnd
  <2>1. spTool = "top" /\ (spAt < Len(spLog) => EcallAt(spAt + 1))
        /\ UNCHANGED <<spTool, spLog, spAt, spStart, spSkip, spMsg>>
    BY <1>2 DEF TopEnd, Runs, IsEcall, LogLine, EcallAt, CoreAt
  <2>2. TopInv /\ spLog \in Seq(ToSet(spLog))
    BY <2>1, SpAssumption DEF SpInv
  <2>3. spAt = Len(spLog) \/ EcallAt(spAt + 1)
    BY <2>1, <2>2 DEF TopInv
  <2>4. TopInv'
    BY <2>1, <2>2, <2>3, TopStays
  <2>5. QED
    BY <2>1, <2>4 DEF SpInv
<1>3. CASE UNCHANGED spVars
  <2>1. UNCHANGED <<spTool, spLog, spPc, spAt, spStart, spSkip, spMsg>>
    BY <1>3 DEF spVars
  <2>2. TopInv => TopInv'
    BY <2>1, TopStays DEF TopInv
  <2>3. QED
    BY <2>1, <2>2 DEF SpInv
<1>4. CASE FeLine \/ FeEnd \/ MeLine \/ MeEnd
  <2>1. spTool # "top" /\ spTool' = spTool /\ spLog' = spLog
    BY <1>4 DEF FeLine, FeEnd, MeLine, MeEnd, Runs
  <2>2. QED
    BY <2>1 DEF SpInv
<1>5. QED
  BY <1>1, <1>2, <1>3, <1>4 DEF SpNext

(* A line before the first ecall has been read when the script ends.       *)
LEMMA ReadUpTo ==
  ASSUME TopInv, spPc = "done", spLog \in Seq(ToSet(spLog)), NEW i \in DOMAIN spLog,
         \A s \in DOMAIN spLog : EcallAt(s) => s > i
  PROVE  i \in 1 .. spAt
<1> DEFINE n == Len(spLog)
<1>1. DOMAIN spLog = 1 .. n /\ n \in Nat
  OBVIOUS
<1>2. spAt \in 0 .. n /\ (spAt = n \/ EcallAt(spAt + 1))
  BY DEF TopInv
<1> HIDE DEF n
<1>3. CASE spAt = n
  BY <1>1, <1>3
<1>4. CASE spAt # n /\ EcallAt(spAt + 1)
  <2>1. spAt + 1 \in DOMAIN spLog
    BY <1>1, <1>2, <1>4
  <2>2. spAt + 1 > i
    BY <1>4, <2>1
  <2>3. QED
    BY <1>1, <1>2, <2>2
<1>5. QED
  BY <1>2, <1>3, <1>4

(* Whatever the log, the core is checked on every write of every           *)
(* instruction from boot up to the first ecall, in order, but for those of *)
(* CSR instructions (bp_top/software/py/spike2tr.py).                      *)
THEOREM AllWritesChecked == SpSpec => []WritesChecked
<1>1. SpInv => WritesChecked
  <2> SUFFICES ASSUME SpInv, spTool = "top", spPc = "done",
                      NEW C, C = {i \in DOMAIN spLog :
                        /\ spLog[i].kind \in {"rd", "st"}
                        /\ \E b \in {k \in DOMAIN spLog : BootAt(k)} :
                             b < i /\ \A s \in {k \in DOMAIN spLog : EcallAt(k)} : s > i
                        /\ spLog[OfInstr(i)].op # "csr"}
               PROVE  InOrder(spMsg, C)
    BY DEF WritesChecked, InOrder, Rank, BootAt, EcallAt, CoreAt
  <2>1. TopInv /\ spLog \in Seq(ToSet(spLog))
    BY SpAssumption DEF SpInv
  <2>2. DOMAIN spLog = 1 .. Len(spLog) /\ Len(spLog) \in Nat /\ spAt \in 0 .. Len(spLog)
    BY <2>1 DEF TopInv
  <2>3. \A i \in C : i \in CheckedTo(spAt)
    <3> SUFFICES ASSUME NEW i \in C
                 PROVE  i \in CheckedTo(spAt)
      OBVIOUS
    <3>1. i \in DOMAIN spLog /\ spLog[i].kind \in {"rd", "st"} /\ spLog[OfInstr(i)].op # "csr"
      OBVIOUS
    <3>2. PICK b \in DOMAIN spLog : BootAt(b) /\ b < i /\ \A s \in DOMAIN spLog : EcallAt(s) => s > i
      OBVIOUS
    <3>3. b \in 1 .. i
      BY <2>2, <3>1, <3>2
    <3>4. i \in 1 .. spAt
      BY <2>1, <3>1, <3>2, ReadUpTo
    <3>5. QED
      BY <3>1, <3>2, <3>3, <3>4 DEF CheckedTo
  <2>4. \A i \in CheckedTo(spAt) : i \in C
    <3> SUFFICES ASSUME NEW i \in CheckedTo(spAt)
                 PROVE  i \in C
      OBVIOUS
    <3>1. i \in 1 .. spAt /\ spLog[i].kind \in {"rd", "st"} /\ spLog[OfInstr(i)].op # "csr"
      BY DEF CheckedTo
    <3>2. PICK b \in 1 .. i : BootAt(b)
      BY DEF CheckedTo
    <3>3. i \in DOMAIN spLog /\ b \in DOMAIN spLog
      BY <2>2, <3>1, <3>2
    <3>4. b < i
      <4>1. b # i
        BY <3>1, <3>2 DEF BootAt, CoreAt
      <4>2. QED
        BY <2>2, <3>1, <3>2, <4>1
    <3>5. \A s \in DOMAIN spLog : EcallAt(s) => s > i
      <4> SUFFICES ASSUME NEW s \in DOMAIN spLog, EcallAt(s)
                   PROVE  s > i
        OBVIOUS
      <4>1. s \notin 1 .. spAt
        BY <2>1 DEF TopInv
      <4>2. s \in 1 .. Len(spLog)
        BY <2>2
      <4>3. QED
        BY <2>2, <3>1, <4>1, <4>2
    <3>6. QED
      BY <3>1, <3>2, <3>3, <3>4, <3>5
  <2>5. C = CheckedTo(spAt)
    BY <2>3, <2>4 DEF CheckedTo
  <2>6. QED
    BY <2>1, <2>5 DEF TopInv
<1>2. QED
  BY <1>1, SpInitInv, SpStepInv, PTL DEF SpSpec

----------------------------------------------------------------------------
(* The front end.                                                          *)

Listed(n) == {j \in 1 .. n : CoreAt(j)}

(* What FetchesFollow says of two messages next to each other.             *)
Follows(msg) ==
  \A i \in 2 .. Len(msg) :
    /\ msg[i].msg = "recv" /\ msg[i - 1].msg = "send" => msg[i].pc = msg[i - 1].pc
    /\ msg[i].msg = "send" =>
         msg[i - 1].msg = "recv" /\ (msg[i].taken <=> msg[i].pc # msg[i - 1].pc + 4)

(* After a redirection the next instruction of the list is to be fetched:  *)
(* before the start, the one at the boot address.                          *)
Awaited(msg) ==
  msg[Len(msg)].msg = "send" =>
    msg[Len(msg)].pc = IF spStart THEN PcList[spIdx + 1] ELSE SpBootPc

FeInv ==
  /\ spAt \in 0 .. Len(spLog) /\ spStart \in BOOLEAN
  /\ spIdx = Cardinality(Listed(spAt))
  /\ IsSeq(spMsg) /\ Len(spMsg) # 0
  /\ Follows(spMsg) /\ (spPc = "run" => Awaited(spMsg))
FetchInv == spLog \in SpLogs /\ (spTool = "fe" /\ NoTraps => FeInv)

(* pc_list holds the pc of the instruction at a line at its number.        *)
LEMMA PcAt ==
  ASSUME spLog \in Seq(ToSet(spLog)), NoTraps, NEW n \in Nat, n + 1 \in DOMAIN spLog,
         CoreAt(n + 1)
  PROVE  /\ Cardinality(Listed(n + 1)) = Cardinality(Listed(n)) + 1
         /\ PcList[Cardinality(Listed(n)) + 1] = spLog[n + 1].pc
<1> DEFINE cores == {i \in DOMAIN spLog : spLog[i].kind \in {"core", "trap"}}
           upto(i) == {j \in cores : j <= i}
           k == Cardinality(Listed(n))
           l == n + 1
<1>1. cores = {i \in DOMAIN spLog : CoreAt(i)}
  BY DEF NoTraps, CoreAt
<1>2. DOMAIN spLog = 1 .. Len(spLog) /\ Len(spLog) \in Nat
  OBVIOUS
<1>3. IsFiniteSet(cores) /\ Cardinality(cores) \in Nat
  <2>1. IsFiniteSet(DOMAIN spLog) /\ cores \subseteq DOMAIN spLog
    BY <1>2, FS_Interval
  <2> HIDE DEF cores
  <2>2. QED
    BY <2>1, FS_Subset, FS_CardinalityType
<1>4. \A i : upto(i) \subseteq cores /\ IsFiniteSet(upto(i))
        /\ Cardinality(upto(i)) <= Cardinality(cores)
  <2>1. \A i : upto(i) \subseteq cores
    OBVIOUS
  <2> HIDE DEF cores, upto
  <2>2. QED
    BY <1>3, <2>1, FS_Subset
<1>5. upto(l) = Listed(n + 1) /\ Listed(n + 1) = Listed(n) \cup {l} /\ l \notin Listed(n)
      /\ Listed(n) \subseteq Listed(n + 1) /\ l \in cores
  <2>1. \A j : j \in 1 .. n + 1 <=> j \in DOMAIN spLog /\ j <= n + 1
    BY <1>2
  <2>2. upto(l) = Listed(n + 1)
    BY <1>1, <2>1 DEF Listed
  <2>3. \A j : j \in 1 .. n + 1 <=> j \in 1 .. n \/ j = n + 1
    OBVIOUS
  <2>4. n + 1 \notin 1 .. n
    OBVIOUS
  <2>5. Listed(n + 1) = Listed(n) \cup {l} /\ l \notin Listed(n)
    BY <2>3, <2>4 DEF Listed
  <2>6. QED
    BY <1>1, <2>2, <2>5
<1>6. k \in Nat /\ Cardinality(upto(l)) = k + 1
  <2>1. IsFiniteSet(Listed(n + 1))
    BY <1>4, <1>5
  <2>2. IsFiniteSet(Listed(n))
    BY <1>5, <2>1, FS_Subset
  <2> HIDE DEF upto, l
  <2>3. Cardinality(Listed(n) \cup {l}) = k + 1
    BY <1>5, <2>2, FS_AddElement
  <2>4. k \in Nat
    BY <2>2, FS_CardinalityType
  <2>5. QED
    BY <1>5, <2>3, <2>4
<1>7. ASSUME NEW i \in cores, Cardinality(upto(i)) = k + 1
      PROVE  i = l
  <2>1. i \in Nat /\ l \in Nat
    BY <1>2
  <2>2. CASE i < l
    <3>1. upto(i) \subseteq upto(l) /\ l \in upto(l) /\ l \notin upto(i)
      BY <1>2, <1>5, <2>1, <2>2
    <3> HIDE DEF upto
    <3>2. QED
      BY <1>4, <1>6, <1>7, <3>1, FS_Subset
  <2>3. CASE l < i
    <3>1. upto(l) \subseteq upto(i) /\ i \in upto(i) /\ i \notin upto(l)
      BY <1>2, <1>5, <2>1, <2>3
    <3> HIDE DEF upto
    <3>2. QED
      BY <1>4, <1>6, <1>7, <3>1, FS_Subset
  <2>4. QED
    BY <2>1, <2>2, <2>3
<1>8. (CHOOSE i \in cores : Cardinality(upto(i)) = k + 1) = l
  <2> HIDE DEF upto, cores, l, k
  <2>1. QED
    BY <1>5, <1>6, <1>7
<1>9. k + 1 <= Cardinality(cores)
  BY <1>4, <1>6
<1>10. PcList[k + 1] = spLog[l].pc
  <2> DEFINE nth(m) == CHOOSE i \in cores : Cardinality({j \in cores : j <= i}) = m
             pc(line) == IF line.kind = "core" THEN line.pc ELSE NoPc
             N == Cardinality(cores)
             list == [m \in 1 .. N + 1 |-> IF m <= N THEN pc(spLog[nth(m)]) ELSE 0]
  <2>1. PcList = list
    BY DEF PcList
  <2>2. nth(k + 1) = l
    BY <1>8
  <2>3. k + 1 \in 1 .. N + 1 /\ k + 1 <= N
    BY <1>3, <1>6, <1>9
  <2> HIDE DEF nth, N, k, l
  <2>4. list[k + 1] = pc(spLog[l])
    <3> HIDE DEF pc
    <3>1. QED
      BY <2>2, <2>3
  <2>5. pc(spLog[l]) = spLog[l].pc
    BY DEF CoreAt, l
  <2>6. QED
    <3> HIDE DEF list
    <3>1. QED
      BY <2>1, <2>4, <2>5
<1>11. QED
  BY <1>5, <1>6, <1>10

(* A sequence with one element more.                                       *)
LEMMA Appended ==
  ASSUME NEW s, IsSeq(s), NEW x
  PROVE  /\ IsSeq(Append(s, x)) /\ Len(s) \in Nat /\ Len(Append(s, x)) = Len(s) + 1
         /\ Append(s, x)[Len(s) + 1] = x
         /\ \A i \in 1 .. Len(s) : Append(s, x)[i] = s[i]
<1>1. PICK S : s \in Seq(S)
  BY DEF IsSeq
<1>2. s \in Seq(S \cup {x})
  <2>1. DOMAIN s = 1 .. Len(s) /\ Len(s) \in Nat /\ \A i \in 1 .. Len(s) : s[i] \in S \cup {x}
    BY <1>1
  <2>2. s \in [1 .. Len(s) -> S \cup {x}]
    BY <1>1, <2>1
  <2>3. QED
    BY <2>1, <2>2
<1>3. Append(s, x) \in Seq(S \cup {x})
  BY <1>2
<1>4. QED
  BY <1>2, <1>3 DEF IsSeq

(* A message that fits after the last one.                                 *)
LEMMA MessageFollows ==
  ASSUME NEW s, IsSeq(s), Len(s) # 0, Follows(s), NEW x,
         x.msg = "recv" /\ s[Len(s)].msg = "send" => x.pc = s[Len(s)].pc,
         x.msg = "send" => s[Len(s)].msg = "recv" /\ (x.taken <=> x.pc # s[Len(s)].pc + 4)
  PROVE  Follows(Append(s, x))
<1> DEFINE n == Len(s)  t == Append(s, x)
<1>1. n \in Nat /\ n # 0 /\ Len(t) = n + 1 /\ t[n + 1] = x /\ \A i \in 1 .. n : t[i] = s[i]
  BY Appended
<1>2. ASSUME NEW i \in 2 .. n + 1
      PROVE  /\ t[i].msg = "recv" /\ t[i - 1].msg = "send" => t[i].pc = t[i - 1].pc
             /\ t[i].msg = "send" =>
                  t[i - 1].msg = "recv" /\ (t[i].taken <=> t[i].pc # t[i - 1].pc + 4)
  <2> HIDE DEF t
  <2>1. CASE i = n + 1
    <3>1. t[i] = x /\ t[i - 1] = s[n]
      BY <1>1, <2>1
    <3>2. QED
      BY <3>1
  <2>2. CASE i # n + 1
    <3>1. i \in 2 .. n /\ i - 1 \in 1 .. n /\ i \in 1 .. n
      BY <1>1, <2>2
    <3>2. t[i] = s[i] /\ t[i - 1] = s[i - 1]
      BY <1>1, <3>1
    <3>3. QED
      BY <3>1, <3>2 DEF Follows
  <2>3. QED
    BY <2>1, <2>2
<1>3. QED
  <2> HIDE DEF t
  <2>1. \A i \in 2 .. Len(t) :
          /\ t[i].msg = "recv" /\ t[i - 1].msg = "send" => t[i].pc = t[i - 1].pc
          /\ t[i].msg = "send" =>
               t[i - 1].msg = "recv" /\ (t[i].taken <=> t[i].pc # t[i - 1].pc + 4)
    <3> HIDE DEF n
    <3>1. QED
      BY <1>1, <1>2
  <2>2. QED
    BY <2>1 DEF Follows, t

(* A line of the log, as the tool of the front end treats it.              *)
LEMMA FeLineKeeps ==
  ASSUME FetchInv, FeLine
  PROVE  FetchInv'
<1>1. /\ spTool = "fe" /\ spTool' = spTool /\ spLog' = spLog /\ spPc = "run"
      /\ spAt + 2 < Len(spLog) /\ spAt' = spAt + 1
      /\ spIdx' = IF IsInstr THEN spIdx + 1 ELSE spIdx
      /\ spStart' = (spStart \/ (IsInstr /\ Booted))
  BY DEF FeLine, Runs
<1> SUFFICES ASSUME NoTraps, FeInv
             PROVE  FeInv'
  <2>1. NoTraps' = NoTraps
    BY <1>1 DEF NoTraps
  <2>2. QED
    BY <1>1, <2>1 DEF FetchInv
<1> DEFINE l == spAt + 1  line == spLog[l]  m == spMsg[Len(spMsg)]
<1>3. /\ spLog \in SpLogs /\ spLog \in Seq(ToSet(spLog))
      /\ spAt \in Nat /\ l \in DOMAIN spLog /\ Len(spLog) \in Nat
  <2>1. spLog \in SpLogs /\ spLog \in Seq(ToSet(spLog))
    BY SpAssumption DEF FetchInv
  <2>2. Len(spLog) \in Nat /\ DOMAIN spLog = 1 .. Len(spLog) /\ spAt \in 0 .. Len(spLog)
    BY <2>1 DEF FeInv
  <2>3. QED
    BY <1>1, <2>1, <2>2
<1>4. /\ IsSeq(spMsg) /\ Len(spMsg) \in Nat /\ Len(spMsg) # 0 /\ Follows(spMsg) /\ Awaited(spMsg)
      /\ spIdx = Cardinality(Listed(spAt)) /\ spStart \in BOOLEAN
  BY <1>1, Appended DEF FeInv
<1>5. LogLine = line /\ (IsInstr <=> CoreAt(l)) /\ (Booted <=> spStart \/ line.pc = SpBootPc)
  BY DEF LogLine, IsInstr, CoreAt, Booted
<1>6. PcList' = PcList /\ Listed(spAt)' = Listed(l)
  BY <1>1 DEF PcList, Listed, CoreAt
<1>7. spIdx' = Cardinality(Listed(l))
  <2>1. CASE CoreAt(l)
    BY <1>1, <1>3, <1>4, <1>5, <2>1, PcAt
  <2>2. CASE ~CoreAt(l)
    <3>1. Listed(l) = Listed(spAt)
      BY <1>3, <2>2 DEF Listed
    <3>2. QED
      BY <1>1, <1>4, <1>5, <2>2, <3>1
  <2>3. QED
    BY <2>1, <2>2
<1>8. CoreAt(l) => PcList[spIdx + 1] = line.pc
  BY <1>3, <1>4, PcAt
<1>9. CoreAt(l) /\ Booted /\ m.msg = "send" => m.pc = line.pc
  <2>1. m.msg = "send" => m.pc = IF spStart THEN PcList[spIdx + 1] ELSE SpBootPc
    BY <1>4 DEF Awaited
  <2>2. QED
    BY <1>4, <1>5, <1>8, <2>1
<1>10. Follows(spMsg') /\ IsSeq(spMsg') /\ Len(spMsg') # 0 /\ (spPc' = "run" => Awaited(spMsg)')
  <2> DEFINE recv == RecvPc(line)  got == Append(spMsg, recv)
             send == SendTarget(NextPc, line.pc)
  <2>1. recv.msg = "recv" /\ recv.pc = line.pc
    BY DEF RecvPc
  <2>2. CASE ~(IsInstr /\ Booted)
    <3>1. spMsg' = spMsg /\ spPc' = spPc /\ spStart' = spStart
      BY <1>1, <1>4, <2>2 DEF FeLine
    <3>2. Awaited(spMsg)'
      <4>1. CASE spStart
        <5>1. ~CoreAt(l) /\ spIdx' = spIdx
          BY <1>1, <1>5, <2>2, <4>1
        <5>2. QED
          BY <1>4, <1>6, <3>1, <5>1 DEF Awaited
      <4>2. CASE ~spStart
        BY <1>4, <3>1, <4>2 DEF Awaited
      <4>3. QED
        BY <4>1, <4>2
    <3>3. QED
      BY <1>4, <3>1, <3>2
  <2>3. ASSUME IsInstr, Booted
        PROVE  /\ IsSeq(got) /\ Len(got) = Len(spMsg) + 1 /\ got[Len(spMsg) + 1] = recv
               /\ Follows(got)
    <3>1. m.msg = "send" => recv.pc = m.pc
      BY <1>5, <1>9, <2>1, <2>3
    <3> HIDE DEF recv
    <3>2. Follows(got)
      BY <1>4, <2>1, <3>1, MessageFollows
    <3>3. QED
      BY <1>4, <3>2, Appended
  <2>4. CASE IsInstr /\ Booted /\ line.op # "jump"
    <3>1. spMsg' = got /\ spPc' = spPc
      BY <1>5, <2>4 DEF FeLine
    <3>2. spMsg'[Len(spMsg')] = recv
      <4> HIDE DEF recv, got
      <4>1. QED
        BY <1>4, <2>3, <2>4, <3>1
    <3>3. Awaited(spMsg)'
      BY <2>1, <3>2 DEF Awaited
    <3>4. QED
      <4> HIDE DEF got
      <4>1. QED
        BY <1>4, <2>3, <2>4, <3>1, <3>3
  <2>5. CASE IsInstr /\ Booted /\ line.op = "jump"
    <3>1. CASE NextPc = NoPc
      <4>1. spPc' = "failed" /\ spMsg' = spMsg
        BY <1>5, <2>5, <3>1 DEF FeLine
      <4>2. QED
        BY <1>4, <4>1
    <3>2. CASE NextPc # NoPc
      <4>1. spMsg' = spMsg \o <<recv, send>> /\ spPc' = spPc
        BY <1>5, <2>5, <3>2 DEF FeLine
      <4>2. spMsg' = Append(got, send)
        <5> HIDE DEF recv, send
        <5>1. PICK S : spMsg \in Seq(S)
          BY <1>4 DEF IsSeq
        <5>2. spMsg \o <<recv, send>> = Append(Append(spMsg, recv), send)
          <6> DEFINE T == S \cup {recv, send}
          <6>1. spMsg \in Seq(T)
            <7>1. DOMAIN spMsg = 1 .. Len(spMsg) /\ \A i \in 1 .. Len(spMsg) : spMsg[i] \in T
              BY <5>1
            <7>2. spMsg \in [1 .. Len(spMsg) -> T]
              BY <5>1, <7>1
            <7>3. QED
              BY <1>4, <7>2
          <6> HIDE DEF T
          <6>2. recv \in T /\ send \in T
            BY DEF T
          <6>3. QED
            BY <6>1, <6>2
        <5>3. QED
          BY <4>1, <5>2
      <4>3. /\ send.msg = "send" /\ send.pc = NextPc /\ (send.taken <=> send.pc # line.pc + 4)
        BY DEF SendTarget
      <4>4. got[Len(got)] = recv /\ Len(got) # 0 /\ IsSeq(got) /\ Follows(got)
        <5> HIDE DEF recv, got
        <5>1. QED
          BY <1>4, <2>3, <2>5
      <4> HIDE DEF recv, got, send
      <4>5. Follows(spMsg')
        BY <2>1, <4>2, <4>3, <4>4, MessageFollows
      <4>6. IsSeq(spMsg') /\ Len(spMsg') = Len(got) + 1 /\ Len(got) \in Nat /\ spMsg'[Len(spMsg')] = send
        BY <4>2, <4>4, Appended
      <4>7. spIdx' = spIdx + 1 /\ spStart' = TRUE
        BY <1>1, <2>5
      <4>8. spIdx' + 1 = spIdx + 2
        <5>1. spIdx \in Nat
          <6>1. Listed(spAt) \subseteq 1 .. spAt /\ IsFiniteSet(1 .. spAt)
            <7>1. IsFiniteSet(1 .. spAt)
              BY <1>3, FS_Interval
            <7>2. QED
              BY <7>1 DEF Listed
          <6>2. QED
            BY <1>4, <6>1, FS_Subset, FS_CardinalityType
        <5>2. QED
          BY <4>7, <5>1
      <4>9. send.pc = PcList[spIdx + 2]
        BY <4>3 DEF NextPc
      <4>10. Awaited(spMsg)'
        BY <1>6, <4>3, <4>6, <4>7, <4>8, <4>9 DEF Awaited
      <4>11. QED
        BY <4>5, <4>6, <4>10
    <3>3. QED
      BY <3>1, <3>2
  <2>6. QED
    BY <2>2, <2>4, <2>5
<1>11. spAt' \in 0 .. Len(spLog') /\ spStart' \in BOOLEAN
  BY <1>1, <1>3, <1>4
<1>12. (spIdx = Cardinality(Listed(spAt)))'
  BY <1>6, <1>7
<1>13. (IsSeq(spMsg) /\ Len(spMsg) # 0 /\ Follows(spMsg) /\ (spPc = "run" => Awaited(spMsg)))'
  BY <1>10 DEF IsSeq, Follows
<1>14. QED
  BY <1>11, <1>12, <1>13 DEF FeInv

(* Nothing is sent yet.                                                    *)
LEMMA FetchInitInv == SpInit => FetchInv
<1> SUFFICES ASSUME SpInit
             PROVE  FetchInv
  OBVIOUS
<1>1. spLog \in SpLogs /\ spLog \in Seq(ToSet(spLog)) /\ spAt = 0 /\ spIdx = 0 /\ spStart = FALSE
  BY SpAssumption DEF SpInit, SpState
<1>2. ASSUME spTool = "fe"
      PROVE  FeInv
  <2> DEFINE x == [msg |-> "send", pc |-> SpBootPc, taken |-> FALSE]
  <2>1. spMsg = <<x>>
    BY <1>2 DEF SpInit, SpState
  <2>2. x.msg = "send" /\ x.pc = SpBootPc
    OBVIOUS
  <2> HIDE DEF x
  <2>3. <<x>> \in Seq({x}) /\ Len(<<x>>) = 1 /\ <<x>>[1] = x
    OBVIOUS
  <2>4. IsSeq(spMsg) /\ Len(spMsg) = 1 /\ spMsg[Len(spMsg)] = x
    BY <2>1, <2>3 DEF IsSeq
  <2>5. Follows(spMsg)
    <3>1. \A i : i \notin 2 .. Len(spMsg)
      BY <2>4
    <3>2. QED
      BY <3>1 DEF Follows
  <2>6. Awaited(spMsg)
    BY <1>1, <2>2, <2>4 DEF Awaited
  <2>7. spIdx = Cardinality(Listed(spAt))
    <3>1. Listed(spAt) = {}
      BY <1>1 DEF Listed
    <3>2. QED
      BY <1>1, <3>1, FS_EmptySet
  <2>8. spAt \in 0 .. Len(spLog)
    <3>1. Len(spLog) \in Nat
      BY <1>1
    <3>2. QED
      BY <1>1, <3>1
  <2>9. Len(spMsg) # 0 /\ spStart \in BOOLEAN
    <3>1. Len(spMsg) # 0
      BY <2>4
    <3>2. spStart \in BOOLEAN
      BY <1>1
    <3>3. QED
      BY <3>1, <3>2
  <2>10. QED
    BY <2>4, <2>5, <2>6, <2>7, <2>8, <2>9 DEF FeInv
<1>3. QED
  BY <1>1, <1>2 DEF FetchInv

(* Every step keeps the message one that follows.                          *)
LEMMA FetchStepInv == FetchInv /\ [SpNext]_spVars => FetchInv'
<1> SUFFICES ASSUME FetchInv, [SpNext]_spVars
             PROVE  FetchInv'
  OBVIOUS
<1>1. CASE FeLine
  BY <1>1, FeLineKeeps
<1>2. CASE FeEnd \/ UNCHANGED spVars
  <2>1. /\ UNCHANGED <<spTool, spLog, spAt, spIdx, spStart, spMsg>>
        /\ spPc' = "run" => spPc = "run"
    BY <1>2 DEF FeEnd, spVars
  <2>2. NoTraps' = NoTraps /\ Listed(spAt)' = Listed(spAt)
    BY <2>1 DEF NoTraps, Listed, CoreAt
  <2>3. Awaited(spMsg)' <=> Awaited(spMsg)
    BY <2>1 DEF Awaited, PcList
  <2>4. (IsSeq(spMsg) /\ Follows(spMsg))' <=> IsSeq(spMsg) /\ Follows(spMsg)
    BY <2>1 DEF IsSeq, Follows
  <2>5. FeInv => FeInv'
    BY <2>1, <2>2, <2>3, <2>4 DEF FeInv
  <2>6. QED
    BY <2>1, <2>2, <2>5 DEF FetchInv
<1>3. CASE TopLine \/ TopEnd \/ MeLine \/ MeEnd
  <2>1. spTool # "fe" /\ spTool' = spTool /\ spLog' = spLog
    BY <1>3 DEF TopLine, TopEnd, MeLine, MeEnd, Runs
  <2>2. QED
    BY <2>1 DEF FetchInv
<1>4. QED
  BY <1>1, <1>2, <1>3 DEF SpNext

(* A replay of the front end, for any log without exceptions, never asks   *)
(* for a fetch from elsewhere than where it last sent it: pc_list[pc_idx]  *)
(* is the next instruction of the log at every jump, and a redirection is  *)
(* marked as taken exactly when it is not to the instruction behind it     *)
(* (bp_fe/software/py/spike2tr.py).                                        *)
THEOREM FetchesMatch == SpSpec => []FetchesFollow
<1>1. FetchInv => FetchesFollow
  BY DEF FetchInv, FeInv, Follows, FetchesFollow
<1>2. QED
  BY <1>1, FetchInitInv, FetchStepInv, PTL DEF SpSpec

----------------------------------------------------------------------------
(* The pictures of blood_graph.py.                                         *)

BgSpec == BgInit /\ [][BgNext]_bgVars

(* What is not changed once chosen.                                        *)
BgChosen ==
  /\ bgTrace \in BgTraces /\ bgStats \in BgStats /\ bgAbstract \in BOOLEAN
  /\ bgCustom \in [start : BgCycles \cup {Unset}, end : BgCycles \cup {Unset}]

(* All tiles are inside the group that is drawn.                           *)
Inside ==
  /\ bgDim.xmin \in Nat /\ bgDim.ymin \in Nat
  /\ bgDim.xdim \in Nat \ {0} /\ bgDim.ydim \in Nat \ {0}
  /\ \A i \in DOMAIN bgTrace :
       /\ bgDim.xmin <= bgTrace[i].x /\ bgTrace[i].x < bgDim.xmin + bgDim.xdim
       /\ bgDim.ymin <= bgTrace[i].y /\ bgTrace[i].y < bgDim.ymin + bgDim.ydim

(* The cycles the picture covers, and when it can.                         *)
Asked ==
  [start |-> IF bgCustom.start # Unset THEN bgCustom.start
             ELSE IF bgStats # <<>> THEN Head(bgStats) ELSE Head(bgTrace).cycle,
   end   |-> IF bgCustom.end # Unset THEN bgCustom.end
             ELSE IF bgStats # <<>> THEN Last(bgStats) ELSE Last(bgTrace).cycle]
Backwards == bgWindow.end < bgWindow.start

(* The rows drawn so far, and nothing else, have their pixel.              *)
Drawn == {i \in 1 .. bgRow : InWindow(bgTrace[i])}
Painted ==
  /\ DOMAIN bgPixel = {Place(bgTrace[i]) : i \in Drawn}
  /\ \A i \in Drawn : /\ Known(bgTrace[i].op)
                       /\ bgPixel[Place(bgTrace[i])] = Colour(bgTrace[i].op)

(* The labels of the key and their colours.                                *)
KeyMade ==
  {[label |-> op, colour |-> op] : op \in STALLS}
    \cup {[label |-> l, colour |-> "white"] : l \in {"unified_instr", "unified_fp_instr"}}

Unreadable ==
  \E i \in DOMAIN bgTrace : InWindow(bgTrace[i]) /\ ~Known(bgTrace[i].op)

BgInv ==
  /\ BgChosen /\ bgRow \in 0 .. Len(bgTrace)
  /\ bgPc \in {"parse", "window", "init", "mark", "key", "done", "failed"}
  /\ bgPc # "parse" => Inside
  /\ bgPc \notin {"parse", "window"} =>
       bgWindow.start \in Nat /\ bgWindow.end \in Nat /\ bgWindow = Asked
  /\ bgPc \in {"parse", "window", "init"} => bgRow = 0
  /\ bgPc \in {"mark", "key", "done"} => Painted
  /\ bgPc = "mark" => bgHeight = Floors * (2 + Size) /\ ~(bgHeight < 0)
  /\ bgPc \in {"key", "done"} => bgRow = Len(bgTrace) /\ ~Backwards
  /\ bgPc = "failed" => Backwards \/ Unreadable \/ (bgRow = Len(bgTrace) /\ bgAbstract)
  /\ bgPc # "done" => bgKey = {}
  /\ bgKey # {} => ~bgAbstract /\ bgKey = KeyMade

(* What the assumption says of a trace that was chosen.                    *)
LEMMA RowsOf ==
  ASSUME BgChosen
  PROVE  /\ Len(bgTrace) \in Nat \ {0} /\ DOMAIN bgTrace = 1 .. Len(bgTrace)
         /\ ToSet(bgTrace) = {bgTrace[i] : i \in DOMAIN bgTrace}
         /\ \A i \in DOMAIN bgTrace :
              bgTrace[i].cycle \in Nat /\ bgTrace[i].x \in Nat /\ bgTrace[i].y \in Nat
         /\ \A i, j \in DOMAIN bgTrace :
              bgTrace[i].cycle = bgTrace[j].cycle /\ bgTrace[i].x = bgTrace[j].x
                /\ bgTrace[i].y = bgTrace[j].y => bgTrace[i].op = bgTrace[j].op
         /\ \A i, j \in DOMAIN bgTrace : i <= j => bgTrace[i].cycle <= bgTrace[j].cycle
         /\ bgStats \in Seq(Nat)
<1>1. bgTrace \in BgTraces /\ bgStats \in BgStats
  BY DEF BgChosen
<1>2. ToSet(bgTrace) = {bgTrace[i] : i \in DOMAIN bgTrace}
  BY DEF ToSet
<1>3. bgTrace \in Seq(ToSet(bgTrace)) /\ bgTrace # <<>>
  BY <1>1, BgAssumption
<1>4. Len(bgTrace) \in Nat \ {0} /\ DOMAIN bgTrace = 1 .. Len(bgTrace)
  BY <1>3
<1>5. \A i \in DOMAIN bgTrace : bgTrace[i] \in ToSet(bgTrace)
  BY <1>2
<1>6. \A r \in ToSet(bgTrace) : r.cycle \in Nat /\ r.x \in Nat /\ r.y \in Nat
  BY <1>1, BgAssumption
<1>7. \A r1, r2 \in ToSet(bgTrace) :
        r1.cycle = r2.cycle /\ r1.x = r2.x /\ r1.y = r2.y => r1.op = r2.op
  BY <1>1, BgAssumption
<1>8. bgStats \in Seq(Nat)
  BY <1>1, BgAssumption
<1>9. \A i, j \in DOMAIN bgTrace : i <= j => bgTrace[i].cycle <= bgTrace[j].cycle
  BY <1>1, BgAssumption
<1>10. QED
  BY <1>2, <1>4, <1>5, <1>6, <1>7, <1>8, <1>9

(* A row of the window has a place inside the picture, and the place tells *)
(* which row it was.                                                       *)
(* The place of a row is read back as that row.                            *)
LEMMA PlaceRead ==
  ASSUME BgChosen, Inside, bgWindow.start \in Nat, bgWindow.end \in Nat,
         NEW i \in DOMAIN bgTrace, InWindow(bgTrace[i])
  PROVE  /\ Shown(Place(bgTrace[i])) =
              [cycle |-> bgTrace[i].cycle, x |-> bgTrace[i].x, y |-> bgTrace[i].y]
         /\ Place(bgTrace[i])[2] < Floors * (2 + Size)
<1> DEFINE row == bgTrace[i]  c == row.cycle - bgWindow.start
           x == row.x - bgDim.xmin  y == row.y - bgDim.ymin
           e == bgWindow.end - bgWindow.start
           p == (c \div BgWidth) * bgDim.xdim * bgDim.ydim + x + y * bgDim.xdim
<1>1. row.cycle \in Nat /\ row.x \in Nat /\ row.y \in Nat
  BY RowsOf
<1>2. c \in Nat /\ e \in Nat /\ c < e
  <2> HIDE DEF row
  <2>1. bgWindow.start <= row.cycle /\ row.cycle < bgWindow.end
    BY DEF InWindow, row
  <2>2. QED
    BY <1>1, <2>1
<1>3. x \in 0 .. bgDim.xdim - 1 /\ y \in 0 .. bgDim.ydim - 1
  BY <1>1 DEF Inside
<1>4. /\ BgWidth \in Nat \ {0}
      /\ bgDim.xdim \in Nat \ {0} /\ bgDim.ydim \in Nat \ {0}
      /\ bgDim.xmin \in Nat /\ bgDim.ymin \in Nat
  BY BgAssumption DEF Inside
<1>5. Place(row) = <<c % BgWidth, p>>
  BY DEF Place
<1>6. /\ (p \div Size) * BgWidth + (c % BgWidth) = c
      /\ (p % Size) % bgDim.xdim = x /\ (p % Size) \div bgDim.xdim = y
      /\ p < ((e + BgWidth) \div BgWidth) * (2 + Size)
  <2> HIDE DEF c, e, x, y
  <2> DEFINE W == BgWidth  X == bgDim.xdim  Y == bgDim.ydim
  <2>1. /\ (p \div (X * Y)) * W + (c % W) = c
        /\ (p % (X * Y)) % X = x /\ (p % (X * Y)) \div X = y
        /\ p < ((e + W) \div W) * (2 + X * Y)
    <3>1. W \in Nat \ {0} /\ X \in Nat \ {0} /\ Y \in Nat \ {0}
      BY <1>4
    <3>2. p = (c \div W) * X * Y + x + y * X
      OBVIOUS
    <3>3. c \in Nat /\ e \in Nat /\ c < e /\ x \in 0 .. X - 1 /\ y \in 0 .. Y - 1
      BY <1>2, <1>3
    <3> HIDE DEF W, X, Y, p
    <3>4. ReadsBack(W, X, Y, c, x, y, e, p)
      BY <3>1, <3>2, <3>3, Pixel
    <3>5. QED
      BY <3>4 DEF ReadsBack
  <2>2. QED
    BY <2>1 DEF Size
<1>7. Place(row)[1] = c % BgWidth /\ Place(row)[2] = p
  BY <1>5
<1>8. Place(row)[2] < Floors * (2 + Size)
  BY <1>6, <1>7 DEF Floors
<1>9. /\ bgWindow.start + (p \div Size) * BgWidth + (c % BgWidth) = row.cycle
      /\ bgDim.xmin + ((p % Size) % bgDim.xdim) = row.x
      /\ bgDim.ymin + ((p % Size) \div bgDim.xdim) = row.y
  <2>1. bgDim.xmin + x = row.x /\ bgDim.ymin + y = row.y /\ bgWindow.start + c = row.cycle
    BY <1>1, <1>4
  <2>2. (p \div Size) * BgWidth \in Int /\ c % BgWidth \in Int
    <3>1. Size \in Nat \ {0}
      BY <1>4, SMTT(20) DEF Size
    <3>2. c \div BgWidth \in Nat /\ c % BgWidth \in Nat
      <4> HIDE DEF c
      <4>1. QED
        BY <1>2, <1>4, SMTT(20)
    <3>3. p \in Int
      <4> HIDE DEF c
      <4> DEFINE q == c \div BgWidth
      <4>1. q * bgDim.xdim \in Int
        BY <1>4, <3>2
      <4>2. q * bgDim.xdim * bgDim.ydim \in Int
        BY <1>4, <4>1
      <4>3. x \in Int /\ y * bgDim.xdim \in Int
        BY <1>3, <1>4
      <4>4. QED
        BY <4>2, <4>3
    <3>4. p \div Size \in Int
      <4> HIDE DEF p
      <4>1. QED
        BY <3>1, <3>3
    <3>5. QED
      <4> HIDE DEF p, c
      <4>1. QED
        BY <1>4, <3>2, <3>4
  <2>3. QED
    <3> HIDE DEF p, c, x, y, row
    <3>1. QED
      BY <1>4, <1>6, <2>1, <2>2
<1>10. QED
  <2> HIDE DEF p, c, x, y
  <2>1. Shown(Place(row)) =
          [cycle |-> row.cycle, x |-> row.x, y |-> row.y]
    BY <1>7, <1>9 DEF Shown
  <2>2. QED
    BY <1>8, <2>1

(* The picture has floors unless the window ends before it starts, and has *)
(* no negative number of them unless it ends well before that.             *)
LEMMA HeightTells ==
  ASSUME Inside, bgWindow.start \in Nat, bgWindow.end \in Nat
  PROVE  /\ Floors * (2 + Size) < 0 => Backwards
         /\ Floors * (2 + Size) = 0 => Backwards
         /\ ~(Floors * (2 + Size) < 0) /\ Floors * (2 + Size) # 0 => ~Backwards
<1> DEFINE W == BgWidth  e == bgWindow.end - bgWindow.start  f == Floors  n == 2 + Size
<1>1. W \in Nat \ {0} /\ e \in Int
  BY BgAssumption
<1>2. Size \in Nat /\ n \in Nat \ {0}
  <2>1. Size \in Nat
    BY SMTT(20) DEF Inside, Size
  <2>2. QED
    BY <2>1
<1>3. f = (e + W) \div W
  BY DEF Floors
<1>4. f \in Int /\ (e >= 0 => f > 0) /\ (e < 0 => ~(f > 0))
  <2> HIDE DEF W, e, f
  <2>1. QED
    BY <1>1, <1>3, SMTT(30)
<1>5. (f > 0 => f * n > 0) /\ (f < 0 => f * n < 0) /\ (f = 0 => f * n = 0) /\ f * n \in Int
  <2> HIDE DEF f, n
  <2>1. QED
    BY <1>2, <1>4, SMTT(20)
<1>6. Backwards <=> e < 0
  <2>1. QED
    BY DEF Backwards
<1>7. QED
  <2> HIDE DEF f, n, e
  <2>1. (f * n < 0 => Backwards) /\ (f * n = 0 => Backwards)
        /\ (~(f * n < 0) /\ f * n # 0 => ~Backwards)
    BY <1>1, <1>4, <1>5, <1>6
  <2>2. QED
    BY <2>1 DEF f, n

(* A row of the trace is in the window when it was asked for.              *)
LEMMA WindowAsked ==
  ASSUME BgChosen, bgWindow = Asked, NEW i \in DOMAIN bgTrace
  PROVE  InWindow(bgTrace[i]) <=> InPicture(bgTrace[i])
<1> DEFINE n == Len(bgTrace)  c == bgTrace[i].cycle
<1>1. /\ n \in Nat \ {0} /\ DOMAIN bgTrace = 1 .. n
      /\ ToSet(bgTrace) = {bgTrace[j] : j \in DOMAIN bgTrace}
      /\ \A j \in DOMAIN bgTrace : bgTrace[j].cycle \in Nat
      /\ \A j, k \in DOMAIN bgTrace : j <= k => bgTrace[j].cycle <= bgTrace[k].cycle
  BY RowsOf
<1>2. Head(bgTrace) = bgTrace[1] /\ Last(bgTrace) = bgTrace[n]
  <2>1. bgTrace \in Seq(ToSet(bgTrace)) /\ bgTrace # <<>>
    BY BgAssumption DEF BgChosen
  <2>2. QED
    BY <2>1 DEF Last
<1>3. bgTrace[1].cycle <= c /\ c <= bgTrace[n].cycle /\ c \in Nat
      /\ bgTrace[n].cycle \in Nat
  <2>1. 1 \in DOMAIN bgTrace /\ n \in DOMAIN bgTrace /\ 1 <= i /\ i <= n
    BY <1>1
  <2>2. QED
    BY <1>1, <2>1
<1>4. (\E later \in ToSet(bgTrace) : c < later.cycle) <=> c < bgTrace[n].cycle
  <2>1. ASSUME NEW j \in DOMAIN bgTrace, c < bgTrace[j].cycle
        PROVE  c < bgTrace[n].cycle
    <3>1. n \in DOMAIN bgTrace /\ j <= n
      BY <1>1
    <3>2. bgTrace[j].cycle <= bgTrace[n].cycle /\ bgTrace[j].cycle \in Nat
      BY <1>1, <3>1
    <3>3. QED
      BY <1>3, <2>1, <3>2
  <2>2. bgTrace[n] \in ToSet(bgTrace)
    BY <1>1
  <2>3. QED
    <3> HIDE DEF c, n
    <3>1. QED
      BY <1>1, <2>1, <2>2
<1>5. /\ bgWindow.start = IF bgCustom.start # Unset THEN bgCustom.start
                          ELSE IF bgStats # <<>> THEN Head(bgStats) ELSE bgTrace[1].cycle
      /\ bgWindow.end = IF bgCustom.end # Unset THEN bgCustom.end
                        ELSE IF bgStats # <<>> THEN Last(bgStats) ELSE bgTrace[n].cycle
  <2> HIDE DEF n
  <2>1. QED
    BY <1>2 DEF Asked
<1>6. InWindow(bgTrace[i]) <=> bgWindow.start <= c /\ c < bgWindow.end
  BY DEF InWindow
<1> HIDE DEF c, n
<1>7. bgWindow.start <= c <=>
        IF bgCustom.start # Unset THEN bgCustom.start <= c
        ELSE bgStats # <<>> => Head(bgStats) <= c
  BY <1>3, <1>5
<1>8. c < bgWindow.end <=>
        IF bgCustom.end # Unset THEN c < bgCustom.end
        ELSE IF bgStats # <<>> THEN c < Last(bgStats)
        ELSE \E later \in ToSet(bgTrace) : c < later.cycle
  BY <1>4, <1>5
<1>9. QED
  BY <1>6, <1>7, <1>8 DEF InPicture, c

(* Nothing is drawn yet.                                                   *)
LEMMA BgInitOk == BgInit => BgInv
<1> SUFFICES ASSUME BgInit
             PROVE  BgInv
  OBVIOUS
<1>1. BgChosen /\ bgRow = 0 /\ bgPc = "parse" /\ bgKey = {}
  BY DEF BgInit, BgState, BgChosen
<1>2. Len(bgTrace) \in Nat
  BY <1>1, RowsOf
<1>3. QED
  BY <1>1, <1>2 DEF BgInv

(* The extents of the group are those of its columns and rows.             *)
LEMMA GroupInside ==
  ASSUME BgInv, GetTileGroupDim
  PROVE  Inside'
<1> DEFINE cols == [i \in 1 .. Len(bgTrace) |-> bgTrace[i].x]
           lines == [i \in 1 .. Len(bgTrace) |-> bgTrace[i].y]
           xs == {row.x : row \in ToSet(bgTrace)}
           ys == {row.y : row \in ToSet(bgTrace)}
<1>1. BgChosen /\ bgTrace' = bgTrace
  BY DEF BgInv, GetTileGroupDim, bgIn
<1>2. /\ Len(bgTrace) \in Nat \ {0} /\ DOMAIN bgTrace = 1 .. Len(bgTrace)
      /\ ToSet(bgTrace) = {bgTrace[i] : i \in DOMAIN bgTrace}
      /\ \A i \in DOMAIN bgTrace : bgTrace[i].x \in Nat /\ bgTrace[i].y \in Nat
  BY <1>1, RowsOf
<1>3. cols \in Seq(Nat) /\ cols # <<>> /\ DOMAIN cols = 1 .. Len(bgTrace)
  <2>1. \A i \in 1 .. Len(bgTrace) : bgTrace[i].x \in Nat
    BY <1>2
  <2>2. cols \in [1 .. Len(bgTrace) -> Nat] /\ 1 \in DOMAIN cols
    BY <1>2, <2>1
  <2>3. QED
    BY <1>2, <2>2
<1>4. lines \in Seq(Nat) /\ lines # <<>> /\ DOMAIN lines = 1 .. Len(bgTrace)
  <2>1. \A i \in 1 .. Len(bgTrace) : bgTrace[i].y \in Nat
    BY <1>2
  <2>2. lines \in [1 .. Len(bgTrace) -> Nat] /\ 1 \in DOMAIN lines
    BY <1>2, <2>1
  <2>3. QED
    BY <1>2, <2>2
<1>5. xs = {cols[i] : i \in DOMAIN cols} /\ ys = {lines[i] : i \in DOMAIN lines}
  BY <1>2
<1>6. /\ Min(xs) \in Nat /\ Max(xs) - Min(xs) + 1 \in Nat \ {0}
      /\ \A i \in DOMAIN cols : Min(xs) <= cols[i] /\ cols[i] < Min(xs) + (Max(xs) - Min(xs) + 1)
  <2> HIDE DEF cols, xs
  <2>1. QED
    BY <1>3, <1>5, Extent
<1>7. /\ Min(ys) \in Nat /\ Max(ys) - Min(ys) + 1 \in Nat \ {0}
      /\ \A i \in DOMAIN lines : Min(ys) <= lines[i] /\ lines[i] < Min(ys) + (Max(ys) - Min(ys) + 1)
  <2> HIDE DEF lines, ys
  <2>1. QED
    BY <1>4, <1>5, Extent
<1>8. bgDim' = [xmin |-> Min(xs), ymin |-> Min(ys),
                xdim |-> Max(xs) - Min(xs) + 1, ydim |-> Max(ys) - Min(ys) + 1]
  BY DEF GetTileGroupDim
<1>9. \A i \in DOMAIN bgTrace : cols[i] = bgTrace[i].x /\ lines[i] = bgTrace[i].y
  BY <1>2
<1>10. /\ bgDim'.xmin = Min(xs) /\ bgDim'.ymin = Min(ys)
       /\ bgDim'.xdim = Max(xs) - Min(xs) + 1 /\ bgDim'.ydim = Max(ys) - Min(ys) + 1
  BY <1>8, Zenon
<1> HIDE DEF cols, lines, xs, ys
<1>11. \A i \in DOMAIN bgTrace :
         /\ Min(xs) <= bgTrace[i].x /\ bgTrace[i].x < Min(xs) + (Max(xs) - Min(xs) + 1)
         /\ Min(ys) <= bgTrace[i].y /\ bgTrace[i].y < Min(ys) + (Max(ys) - Min(ys) + 1)
  BY <1>2, <1>3, <1>4, <1>6, <1>7, <1>9
<1>12. QED
  BY <1>1, <1>6, <1>7, <1>10, <1>11 DEF Inside

(* The window is one of cycles.                                            *)
LEMMA WindowNat ==
  ASSUME BgInv, GetTimingWindow
  PROVE  bgWindow.start' \in Nat /\ bgWindow.end' \in Nat /\ (bgWindow = Asked)'
<1>1. BgChosen
  BY DEF BgInv
<1>2. /\ bgCustom.start \in Nat \cup {Unset} /\ bgCustom.end \in Nat \cup {Unset}
  BY <1>1, BgAssumption DEF BgChosen
<1>3. Head(bgTrace).cycle \in Nat /\ Last(bgTrace).cycle \in Nat
  <2>1. /\ Len(bgTrace) \in Nat \ {0} /\ DOMAIN bgTrace = 1 .. Len(bgTrace)
        /\ \A i \in DOMAIN bgTrace : bgTrace[i].cycle \in Nat
    BY <1>1, RowsOf
  <2>2. 1 \in DOMAIN bgTrace /\ Len(bgTrace) \in DOMAIN bgTrace
    BY <2>1
  <2>3. bgTrace[1].cycle \in Nat /\ bgTrace[Len(bgTrace)].cycle \in Nat
    BY <2>1, <2>2
  <2>4. Head(bgTrace) = bgTrace[1]
    <3>1. bgTrace \in Seq(ToSet(bgTrace)) /\ bgTrace # <<>>
      BY <1>1, BgAssumption DEF BgChosen
    <3>2. QED
      BY <3>1
  <2>5. QED
    BY <2>3, <2>4 DEF Last
<1>4. bgStats # <<>> => Head(bgStats) \in Nat /\ Last(bgStats) \in Nat
  BY <1>1, RowsOf DEF Last
<1> DEFINE s == IF bgCustom.start # Unset THEN bgCustom.start
                ELSE IF bgStats # <<>> THEN Head(bgStats) ELSE Head(bgTrace).cycle
           e == IF bgCustom.end # Unset THEN bgCustom.end
                ELSE IF bgStats # <<>> THEN Last(bgStats) ELSE Last(bgTrace).cycle
<1>5. s \in Nat /\ e \in Nat
  BY <1>2, <1>3, <1>4
<1>6. bgWindow' = [start |-> s, end |-> e]
  BY DEF GetTimingWindow
<1>7. Asked' = [start |-> s, end |-> e]
  BY DEF GetTimingWindow, bgIn, Asked
<1>8. QED
  <2> HIDE DEF s, e
  <2>1. QED
    BY <1>5, <1>6, <1>7

(* A row drawn keeps the pixels of the rows before it: another row of the  *)
(* same place is of the same tile and cycle.                               *)
LEMMA MarkPaints ==
  ASSUME BgInv, MarkTrace, InWindow(bgTrace[bgRow + 1]), Known(bgTrace[bgRow + 1].op)
  PROVE  Painted' /\ bgPc' = "mark"
<1> DEFINE r == bgRow + 1  row == bgTrace[r]  at == Place(row)
<1>1. /\ BgChosen /\ Inside /\ bgWindow.start \in Nat /\ bgWindow.end \in Nat
      /\ bgRow \in Nat /\ r \in DOMAIN bgTrace /\ DOMAIN bgTrace = 1 .. Len(bgTrace)
      /\ Len(bgTrace) \in Nat
      /\ bgPc = "mark" /\ Painted /\ bgHeight = Floors * (2 + Size)
  <2>1. BgChosen /\ bgRow \in 0 .. Len(bgTrace) /\ bgPc = "mark" /\ bgRow < Len(bgTrace)
    BY DEF BgInv, MarkTrace
  <2>2. Len(bgTrace) \in Nat /\ DOMAIN bgTrace = 1 .. Len(bgTrace)
    BY <2>1, RowsOf
  <2>3. QED
    BY <2>1, <2>2 DEF BgInv
<1>2. at[2] < bgHeight
  BY <1>1, PlaceRead
<1>3. /\ bgPixel' = [p \in DOMAIN bgPixel \cup {at} |->
                       IF p = at THEN Colour(row.op) ELSE bgPixel[p]]
      /\ bgPc' = bgPc
  <2> HIDE DEF at, row, r
  <2>1. (CASE ~InWindow(row) -> UNCHANGED <<bgPixel, bgPc>>
          [] InWindow(row) /\ Known(row.op) /\ at[2] < bgHeight ->
               /\ bgPixel' = [p \in DOMAIN bgPixel \cup {at} |->
                                IF p = at THEN Colour(row.op) ELSE bgPixel[p]]
               /\ UNCHANGED bgPc
          [] OTHER -> bgPc' = "failed" /\ UNCHANGED bgPixel)
    BY DEF MarkTrace, at, row, r
  <2>2. InWindow(row) /\ Known(row.op) /\ at[2] < bgHeight
    BY <1>2 DEF row, r
  <2>3. QED
    BY <2>1, <2>2
<1>4. /\ bgTrace' = bgTrace /\ bgAbstract' = bgAbstract /\ bgDim' = bgDim
      /\ bgWindow' = bgWindow /\ bgRow' = r
  BY DEF MarkTrace, bgIn
<1>5. Drawn' = Drawn \cup {r}
  <2>1. Drawn' = {i \in 1 .. r : InWindow(bgTrace[i])}
    BY <1>4 DEF Drawn, InWindow
  <2>2. 1 .. r = (1 .. bgRow) \cup {r}
    BY <1>1
  <2>3. InWindow(bgTrace[r])
    OBVIOUS
  <2>4. QED
    <3> HIDE DEF r
    <3>1. QED
      BY <2>1, <2>2, <2>3 DEF Drawn
<1>6. \A i \in DOMAIN bgTrace :
        /\ Place(bgTrace[i])' = Place(bgTrace[i])
        /\ Colour(bgTrace[i].op)' = Colour(bgTrace[i].op)
        /\ Known(bgTrace[i].op)' = Known(bgTrace[i].op)
  BY <1>4 DEF Place, Colour, Coloured, Known
<1>7. Drawn' \subseteq DOMAIN bgTrace /\ Drawn \subseteq DOMAIN bgTrace
  <2>1. Drawn \subseteq 1 .. bgRow /\ 1 .. bgRow \subseteq DOMAIN bgTrace
    BY <1>1 DEF Drawn
  <2>2. QED
    BY <1>1, <1>5, <2>1
<1>8. ASSUME NEW i \in Drawn, Place(bgTrace[i]) = at
      PROVE  Colour(bgTrace[i].op) = Colour(row.op)
  <2>1. i \in DOMAIN bgTrace /\ InWindow(bgTrace[i])
    BY <1>7 DEF Drawn
  <2>2. Shown(Place(bgTrace[i])) =
          [cycle |-> bgTrace[i].cycle, x |-> bgTrace[i].x, y |-> bgTrace[i].y]
    BY <1>1, <2>1, PlaceRead
  <2>3. Shown(at) = [cycle |-> row.cycle, x |-> row.x, y |-> row.y]
    BY <1>1, PlaceRead
  <2>4. bgTrace[i].cycle = row.cycle /\ bgTrace[i].x = row.x /\ bgTrace[i].y = row.y
    <3> HIDE DEF at, row
    <3>1. QED
      BY <1>8, <2>2, <2>3
  <2>5. bgTrace[i].op = row.op
    BY <1>1, <2>1, <2>4, RowsOf
  <2>6. QED
    BY <2>5
<1>9. DOMAIN bgPixel' = {Place(bgTrace[i]) : i \in Drawn'}
  <2> HIDE DEF at
  <2>1. DOMAIN bgPixel' = DOMAIN bgPixel \cup {at}
    BY <1>3
  <2>2. DOMAIN bgPixel = {Place(bgTrace[i]) : i \in Drawn}
    BY <1>1 DEF Painted
  <2>3. at = Place(bgTrace[r])
    BY DEF at
  <2>4. QED
    <3> HIDE DEF r
    <3>1. QED
      BY <1>5, <2>1, <2>2, <2>3
<1>10. ASSUME NEW i \in Drawn'
       PROVE  /\ Known(bgTrace[i].op)
              /\ bgPixel'[Place(bgTrace[i])] = Colour(bgTrace[i].op)
  <2>1. i \in Drawn \/ i = r
    BY <1>5
  <2> HIDE DEF at, row
  <2>2. CASE Place(bgTrace[i]) = at
    <3>1. bgPixel'[Place(bgTrace[i])] = Colour(row.op)
      BY <1>3, <2>2
    <3>2. CASE i \in Drawn
      BY <1>1, <1>8, <2>2, <3>1, <3>2 DEF Painted
    <3>3. CASE i = r
      BY <3>1, <3>3 DEF row
    <3>4. QED
      BY <2>1, <3>2, <3>3
  <2>3. CASE Place(bgTrace[i]) # at
    <3>1. i \in Drawn
      BY <2>1, <2>3 DEF at, row
    <3>2. /\ Place(bgTrace[i]) \in DOMAIN bgPixel /\ Known(bgTrace[i].op)
          /\ bgPixel[Place(bgTrace[i])] = Colour(bgTrace[i].op)
      BY <1>1, <3>1 DEF Painted
    <3>3. QED
      BY <1>3, <2>3, <3>2
  <2>4. QED
    BY <2>2, <2>3
<1>11. Painted'
  <2>1. {Place(bgTrace[i]) : i \in Drawn}' = {Place(bgTrace[i]) : i \in Drawn'}
    BY <1>4, <1>6, <1>7
  <2>2. \A i \in Drawn' : /\ Known(bgTrace[i].op)'
                          /\ bgPixel'[Place(bgTrace[i])'] = Colour(bgTrace[i].op)'
    BY <1>6, <1>7, <1>10
  <2>3. QED
    BY <1>4, <1>9, <2>1, <2>2 DEF Painted
<1>12. QED
  BY <1>1, <1>3, <1>11

(* A row outside the window is passed over; an operation of no name ends   *)
(* the drawing.                                                            *)
LEMMA MarkPasses ==
  ASSUME BgInv, MarkTrace, ~InWindow(bgTrace[bgRow + 1])
  PROVE  Painted' /\ bgPc' = "mark"
<1> DEFINE r == bgRow + 1
<1>1. bgPixel' = bgPixel /\ bgPc' = bgPc
  <2>1. (CASE ~InWindow(bgTrace[r]) -> UNCHANGED <<bgPixel, bgPc>>
           [] InWindow(bgTrace[r]) /\ Known(bgTrace[r].op) /\ Place(bgTrace[r])[2] < bgHeight ->
                /\ bgPixel' = [p \in DOMAIN bgPixel \cup {Place(bgTrace[r])} |->
                                 IF p = Place(bgTrace[r]) THEN Colour(bgTrace[r].op) ELSE bgPixel[p]]
                /\ UNCHANGED bgPc
           [] OTHER -> bgPc' = "failed" /\ UNCHANGED bgPixel)
    BY DEF MarkTrace
  <2>2. QED
    BY <2>1
<1>2. /\ bgTrace' = bgTrace /\ bgAbstract' = bgAbstract /\ bgDim' = bgDim
      /\ bgWindow' = bgWindow /\ bgRow' = r
  BY DEF MarkTrace, bgIn
<1>3. bgRow \in Nat /\ bgPc = "mark" /\ Painted
  <2>1. bgPc = "mark" /\ BgChosen /\ bgRow \in 0 .. Len(bgTrace)
    BY DEF BgInv, MarkTrace
  <2>2. Len(bgTrace) \in Nat
    BY <2>1, RowsOf
  <2>3. QED
    BY <2>1, <2>2 DEF BgInv
<1>4. Drawn' = Drawn
  <2>1. Drawn' = {i \in 1 .. r : InWindow(bgTrace[i])}
    BY <1>2 DEF Drawn, InWindow
  <2>2. 1 .. r = (1 .. bgRow) \cup {r}
    BY <1>3
  <2>3. ~InWindow(bgTrace[r])
    OBVIOUS
  <2>4. QED
    <3> HIDE DEF r
    <3>1. QED
      BY <2>1, <2>2, <2>3 DEF Drawn
<1>5. \A i \in Drawn : /\ Place(bgTrace[i])' = Place(bgTrace[i])
                       /\ Colour(bgTrace[i].op)' = Colour(bgTrace[i].op)
                       /\ Known(bgTrace[i].op)' = Known(bgTrace[i].op)
  BY <1>2 DEF Place, Colour, Coloured, Known
<1>6. {Place(bgTrace[i]) : i \in Drawn}' = {Place(bgTrace[i]) : i \in Drawn}
  BY <1>2, <1>4, <1>5
<1>7. QED
  BY <1>1, <1>3, <1>4, <1>5, <1>6 DEF Painted

(* A row of the window whose operation has no name ends the script.        *)
LEMMA MarkFails ==
  ASSUME BgInv, MarkTrace, InWindow(bgTrace[bgRow + 1]), ~Known(bgTrace[bgRow + 1].op)
  PROVE  Unreadable' /\ bgPc' = "failed"
<1> DEFINE r == bgRow + 1
<1>1. bgPc' = "failed"
  <2>1. (CASE ~InWindow(bgTrace[r]) -> UNCHANGED <<bgPixel, bgPc>>
           [] InWindow(bgTrace[r]) /\ Known(bgTrace[r].op) /\ Place(bgTrace[r])[2] < bgHeight ->
                /\ bgPixel' = [p \in DOMAIN bgPixel \cup {Place(bgTrace[r])} |->
                                 IF p = Place(bgTrace[r]) THEN Colour(bgTrace[r].op) ELSE bgPixel[p]]
                /\ UNCHANGED bgPc
           [] OTHER -> bgPc' = "failed" /\ UNCHANGED bgPixel)
    BY DEF MarkTrace
  <2>2. QED
    BY <2>1
<1>2. bgTrace' = bgTrace /\ bgAbstract' = bgAbstract /\ bgWindow' = bgWindow
  BY DEF MarkTrace, bgIn
<1>3. r \in DOMAIN bgTrace
  <2>1. BgChosen /\ bgRow \in 0 .. Len(bgTrace) /\ bgRow < Len(bgTrace)
    BY DEF BgInv, MarkTrace
  <2>2. Len(bgTrace) \in Nat /\ DOMAIN bgTrace = 1 .. Len(bgTrace)
    BY <2>1, RowsOf
  <2>3. QED
    BY <2>1, <2>2
<1>4. Unreadable
  BY <1>3 DEF Unreadable
<1>5. QED
  BY <1>1, <1>2, <1>4 DEF Unreadable, InWindow, Known, Coloured

(* What was asked for is not changed, and the rows drawn are seen alike.   *)
LEMMA NothingElse ==
  ASSUME BgInv, UNCHANGED <<bgTrace, bgStats, bgAbstract, bgCustom, bgRow, bgDim, bgWindow>>
  PROVE  /\ Len(bgTrace) \in Nat /\ BgChosen' /\ bgRow' \in 0 .. Len(bgTrace)'
         /\ (bgPc # "parse" => Inside')
         /\ (bgPc \notin {"parse", "window"} =>
               (bgWindow.start \in Nat /\ bgWindow.end \in Nat /\ bgWindow = Asked)')
         /\ (bgPixel' = bgPixel /\ bgPc \in {"mark", "key", "done"} => Painted')
         /\ Backwards' = Backwards /\ Size' = Size /\ Floors' = Floors
<1>1. Len(bgTrace) \in Nat
  BY RowsOf DEF BgInv
<1>2. BgChosen' /\ bgRow' \in 0 .. Len(bgTrace)' /\ (bgPc # "parse" => Inside')
  BY <1>1 DEF BgInv, BgChosen, Inside
<1>3. bgPc \notin {"parse", "window"} =>
        (bgWindow.start \in Nat /\ bgWindow.end \in Nat /\ bgWindow = Asked)'
  BY DEF BgInv, Asked
<1>4. bgPixel' = bgPixel /\ bgPc \in {"mark", "key", "done"} => Painted'
  BY DEF BgInv, Painted, Drawn, InWindow, Place, Colour, Coloured, Known
<1>5. Backwards' = Backwards /\ Size' = Size /\ Floors' = Floors
  BY DEF Backwards, Size, Floors
<1>6. QED
  BY <1>1, <1>2, <1>3, <1>4, <1>5

(* Every step keeps the picture.                                           *)
LEMMA BgNextOk == BgInv /\ [BgNext]_bgVars => BgInv'
<1> SUFFICES ASSUME BgInv, [BgNext]_bgVars
             PROVE  BgInv'
  OBVIOUS
<1>0. Len(bgTrace) \in Nat /\ BgChosen
  BY RowsOf DEF BgInv
<1>1. CASE GetTileGroupDim
  <2>1. Inside'
    BY <1>1, GroupInside
  <2>2. /\ UNCHANGED <<bgTrace, bgStats, bgAbstract, bgCustom, bgRow, bgKey>>
        /\ bgPc' = "window" /\ bgPc = "parse"
    BY <1>1 DEF GetTileGroupDim, bgIn
  <2>3. BgChosen' /\ bgRow' = 0 /\ bgRow' \in 0 .. Len(bgTrace)' /\ bgKey' = {}
    BY <1>0, <2>2 DEF BgInv, BgChosen
  <2>4. QED
    BY <2>1, <2>2, <2>3 DEF BgInv
<1>2. CASE GetTimingWindow
  <2>1. bgWindow.start' \in Nat /\ bgWindow.end' \in Nat /\ (bgWindow = Asked)'
    BY <1>2, WindowNat
  <2>2. /\ UNCHANGED <<bgTrace, bgStats, bgAbstract, bgCustom, bgRow, bgDim, bgKey>>
        /\ bgPc' = "init" /\ bgPc = "window"
    BY <1>2 DEF GetTimingWindow, bgIn
  <2>3. BgChosen' /\ bgRow' = 0 /\ bgRow' \in 0 .. Len(bgTrace)' /\ Inside' /\ bgKey' = {}
    BY <1>0, <2>2 DEF BgInv, BgChosen, Inside
  <2>4. QED
    BY <2>1, <2>2, <2>3 DEF BgInv
<1>3. CASE InitImage
  <2>1. /\ UNCHANGED <<bgTrace, bgStats, bgAbstract, bgCustom, bgRow, bgDim, bgWindow, bgKey>>
        /\ bgPc = "init" /\ bgPixel' = <<>> /\ bgHeight' = Floors * (2 + Size)
        /\ bgPc' = IF bgHeight' < 0 THEN "failed" ELSE "mark"
    BY <1>3 DEF InitImage, bgIn, Size
  <2>2. /\ BgChosen' /\ bgRow' = 0 /\ bgRow' \in 0 .. Len(bgTrace)' /\ Inside' /\ bgKey' = {}
        /\ bgWindow.start' \in Nat /\ bgWindow.end' \in Nat /\ (bgWindow = Asked)'
        /\ Backwards' = Backwards /\ Size' = Size /\ Floors' = Floors
    BY <2>1, NothingElse DEF BgInv
  <2>3. bgHeight' < 0 => Backwards'
    BY <2>1, <2>2, HeightTells DEF BgInv
  <2>4. Painted'
    <3>1. Drawn' = {}
      BY <2>2 DEF Drawn
    <3>2. QED
      BY <2>1, <3>1 DEF Painted
  <2>5. bgHeight' = Floors' * (2 + Size')
    BY <2>1, <2>2
  <2>6. QED
    BY <2>1, <2>2, <2>3, <2>4, <2>5 DEF BgInv
<1>4. CASE MarkTrace
  <2>1. /\ UNCHANGED <<bgTrace, bgStats, bgAbstract, bgCustom, bgDim, bgWindow, bgHeight, bgKey>>
        /\ bgPc = "mark" /\ bgRow' = bgRow + 1 /\ bgRow < Len(bgTrace)
    BY <1>4 DEF MarkTrace, bgIn
  <2>2. BgChosen' /\ bgRow' \in 0 .. Len(bgTrace)' /\ Inside' /\ bgKey' = {}
    BY <1>0, <2>1 DEF BgInv, BgChosen, Inside
  <2>3. bgWindow.start' \in Nat /\ bgWindow.end' \in Nat /\ (bgWindow = Asked)'
    BY <2>1 DEF BgInv, Asked
  <2>4. bgHeight' = Floors' * (2 + Size') /\ ~(bgHeight' < 0)
    BY <2>1 DEF Floors, Size, BgInv
  <2>5. \/ Painted' /\ bgPc' = "mark"
        \/ Unreadable' /\ bgPc' = "failed"
    BY <1>4, MarkPaints, MarkPasses, MarkFails
  <2>6. QED
    BY <2>2, <2>3, <2>4, <2>5 DEF BgInv
<1>5. CASE SaveImage
  <2>1. /\ UNCHANGED <<bgTrace, bgStats, bgAbstract, bgCustom, bgDim, bgWindow, bgPixel, bgRow,
                       bgKey>>
        /\ bgPc = "mark" /\ bgRow = Len(bgTrace)
        /\ bgPc' = IF bgHeight = 0 THEN "failed" ELSE "key"
    BY <1>5 DEF SaveImage, bgIn
  <2>2. /\ BgChosen' /\ Inside' /\ Painted' /\ bgRow' \in 0 .. Len(bgTrace)' /\ bgKey' = {}
        /\ bgWindow.start' \in Nat /\ bgWindow.end' \in Nat /\ (bgWindow = Asked)'
        /\ Backwards' = Backwards
    BY <2>1, NothingElse DEF BgInv
  <2>3. IF bgHeight = 0 THEN Backwards ELSE ~Backwards
    BY <2>1, HeightTells DEF BgInv
  <2>4. QED
    BY <2>1, <2>2, <2>3 DEF BgInv
<1>6. CASE GenerateKey \/ NoKey
  <2>1. /\ UNCHANGED <<bgTrace, bgStats, bgAbstract, bgCustom, bgDim, bgWindow, bgPixel, bgRow>>
        /\ bgPc = "key"
    BY <1>6 DEF GenerateKey, NoKey, bgIn
  <2>2. \/ bgPc' = "done" /\ bgKey' = KeyMade /\ ~bgAbstract
        \/ bgPc' = "failed" /\ bgKey' = bgKey /\ bgAbstract
        \/ bgPc' = "done" /\ bgKey' = bgKey
    <3>1. CASE GenerateKey
      <4>1. bgAbstract => ~(STALLS \subseteq Coloured)
        <5>1. "freeze" \in STALLS
          BY DEF STALLS
        <5>2. bgAbstract => "freeze" \notin Coloured
          BY DEF Coloured, AbstractColour
        <5>3. QED
          BY <5>1, <5>2
      <4>2. ~bgAbstract => STALLS \subseteq Coloured /\ \A op \in STALLS : Colour(op) = op
        BY <1>0 DEF Coloured, Colour, BgChosen
      <4>3. CASE bgAbstract
        BY <3>1, <4>1, <4>3 DEF GenerateKey
      <4>4. CASE ~bgAbstract
        <5>1. {[label |-> op, colour |-> Colour(op)] : op \in STALLS}
                = {[label |-> op, colour |-> op] : op \in STALLS}
          BY <4>2, <4>4
        <5>2. QED
          BY <3>1, <4>2, <4>4, <5>1 DEF GenerateKey, KeyMade
      <4>5. QED
        BY <4>3, <4>4
    <3>2. CASE NoKey
      BY <3>2 DEF NoKey
    <3>3. QED
      BY <1>6, <3>1, <3>2
  <2>3. /\ BgChosen' /\ Inside' /\ Painted' /\ bgRow' \in 0 .. Len(bgTrace)'
        /\ bgRow' = Len(bgTrace)' /\ bgAbstract' = bgAbstract
        /\ bgWindow.start' \in Nat /\ bgWindow.end' \in Nat /\ (bgWindow = Asked)'
        /\ ~Backwards' /\ bgKey = {} /\ KeyMade' = KeyMade
    <3>1. ~Backwards /\ bgRow = Len(bgTrace) /\ bgKey = {} /\ KeyMade' = KeyMade
      BY <2>1 DEF BgInv, KeyMade, STALLS
    <3>2. QED
      BY <2>1, <3>1, NothingElse
  <2>4. QED
    BY <2>1, <2>2, <2>3 DEF BgInv
<1>7. CASE UNCHANGED bgVars
  <2>1. UNCHANGED <<bgTrace, bgStats, bgAbstract, bgCustom, bgDim, bgWindow, bgPixel, bgRow, bgPc,
                    bgHeight, bgKey>>
    BY <1>7 DEF bgVars, bgIn
  <2>2. Unreadable' = Unreadable /\ KeyMade' = KeyMade
    BY <2>1 DEF Unreadable, InWindow, Known, Coloured, KeyMade
  <2>3. QED
    BY <2>1, <2>2, NothingElse DEF BgInv
<1>8. QED
  BY <1>1, <1>2, <1>3, <1>4, <1>5, <1>6, <1>7 DEF BgNext

(* There is no picture if the window ends before it starts or an operation *)
(* to be shown is in no list of names, and for nothing else, whatever the  *)
(* trace, the tiles, the width and what is asked for: __init_image makes   *)
(* the picture high enough for every pixel __mark_trace computes.          *)
THEOREM PicturesFit == BgSpec => []PictureFits
<1> DEFINE Lost == \E row \in ToSet(bgTrace) : InPicture(row) /\ ~Known(row.op)
<1>1. ASSUME BgInv, bgPc \in {"key", "done", "failed"}, bgWindow = Asked
      PROVE  Lost <=> Unreadable
  <2>1. ToSet(bgTrace) = {bgTrace[i] : i \in DOMAIN bgTrace}
    BY <1>1, RowsOf DEF BgInv
  <2>2. \A i \in DOMAIN bgTrace : InWindow(bgTrace[i]) <=> InPicture(bgTrace[i])
    BY <1>1, WindowAsked DEF BgInv
  <2>3. QED
    BY <2>1, <2>2 DEF Unreadable
<1>2. ASSUME BgInv
      PROVE  PictureFits
  <2>1. bgPc \in {"key", "done", "failed"} => bgWindow = Asked
    BY <1>2 DEF BgInv
  <2>2. bgPc = "failed" => Backwards \/ Lost \/ (bgRow = Len(bgTrace) /\ bgAbstract)
    BY <1>1, <1>2, <2>1 DEF BgInv
  <2>3. ASSUME bgPc \in {"key", "done"}
        PROVE  ~Backwards /\ ~Lost
    <3>1. Drawn = {i \in DOMAIN bgTrace : InWindow(bgTrace[i])}
      BY <1>2, <2>3, RowsOf DEF BgInv, Drawn
    <3>2. ~Unreadable
      BY <1>2, <2>3, <3>1 DEF BgInv, Painted, Unreadable
    <3>3. QED
      BY <1>1, <1>2, <2>1, <2>3, <3>2 DEF BgInv
  <2>4. QED
    BY <2>2, <2>3 DEF PictureFits, Backwards
<1>3. QED
  BY <1>2, BgInitOk, BgNextOk, PTL DEF BgSpec

(* An operation is seen unless its colour is black, and two have one       *)
(* colour when they are not to be told apart.                              *)
LEMMA ColourTells ==
  ASSUME bgAbstract \in BOOLEAN, NEW op1, NEW op2, Known(op1), Known(op2)
  PROVE  /\ Colour(op1) = "black" <=> op1 \in Hidden
         /\ op1 \notin Hidden /\ op2 \notin Hidden =>
              (Colour(op1) = Colour(op2) <=> Alike(op1, op2))
<1>1. CASE bgAbstract
  <2>1. Hidden = {"stall_depend", "bubble"} /\ Coloured = DOMAIN AbstractColour
        /\ Bright = {"instr", "unknown", "fadd", "stall_md"}
    BY <1>1 DEF Hidden, Coloured, Bright, INSTRS, FP_INSTRS
  <2>2. \A op : Known(op) =>
          \/ op \in {"instr", "unknown", "fadd"} /\ Colour(op) = "white"
          \/ op = "stall_depend_remote_load_dram" /\ Colour(op) = "red"
          \/ op = "stall_depend_remote_load_group" /\ Colour(op) = "green"
          \/ op = "stall_lr_aq" /\ Colour(op) = "dark gray"
          \/ op = "icache_miss" /\ Colour(op) = "blue"
          \/ op = "stall_md" /\ Colour(op) = "white"
          \/ op = "stall_depend" /\ Colour(op) = "black"
          \/ op = "bubble" /\ Colour(op) = "black"
    <3>1. DOMAIN AbstractColour =
            {"stall_depend_remote_load_dram", "stall_depend_remote_load_group", "stall_lr_aq",
             "icache_miss", "stall_md", "stall_depend", "bubble"}
      BY DEF AbstractColour
    <3>2. /\ AbstractColour["stall_depend_remote_load_dram"] = "red"
          /\ AbstractColour["stall_depend_remote_load_group"] = "green"
          /\ AbstractColour["stall_lr_aq"] = "dark gray" /\ AbstractColour["icache_miss"] = "blue"
          /\ AbstractColour["stall_md"] = "white" /\ AbstractColour["stall_depend"] = "black"
          /\ AbstractColour["bubble"] = "black"
      BY DEF AbstractColour
    <3>3. \A op \in Coloured : Colour(op) = AbstractColour[op]
      BY <1>1 DEF Colour
    <3>4. \A op : Known(op) /\ op \notin Coloured =>
            op \in {"instr", "unknown", "fadd"} /\ Colour(op) = "white"
      BY DEF Known, Colour, INSTRS, FP_INSTRS
    <3>5. QED
      BY <2>1, <3>1, <3>2, <3>3, <3>4
  <2>3. QED
    BY <2>1, <2>2 DEF Alike
<1>2. CASE ~bgAbstract
  <2>1. Hidden = {} /\ Coloured = STALLS /\ Bright = {"instr", "unknown", "fadd"}
    BY <1>2 DEF Hidden, Coloured, Bright, INSTRS, FP_INSTRS
  <2>2. \A op : Known(op) => \/ op \in STALLS /\ Colour(op) = op
                             \/ op \in Bright /\ Colour(op) = "white"
    BY <1>2, <2>1 DEF Known, Colour, INSTRS, FP_INSTRS
  <2>3. "white" \notin STALLS /\ "black" \notin STALLS /\ Bright \cap STALLS = {}
    BY <2>1 DEF STALLS
  <2>4. QED
    BY <2>1, <2>2, <2>3 DEF Alike
<1>3. QED
  BY <1>1, <1>2

(* The key gives the colour of a stall its name, that of an instruction    *)
(* both names of instructions.                                             *)
LEMMA KeyTells ==
  ASSUME ~bgAbstract, bgKey = KeyMade, NEW op, Known(op)
  PROVE  Labels(Colour(op)) =
           IF op \in Bright THEN {"unified_instr", "unified_fp_instr"} ELSE {op}
<1>1. Coloured = STALLS /\ Bright = INSTRS \cup FP_INSTRS
  BY DEF Coloured, Bright
<1>2. \/ op \in STALLS /\ Colour(op) = op /\ op \notin Bright /\ op # "white"
      \/ op \notin STALLS /\ op \in Bright /\ Colour(op) = "white"
  BY <1>1 DEF Known, Colour, STALLS, INSTRS, FP_INSTRS
<1>3. Labels(Colour(op)) = {k.label : k \in {k \in KeyMade : k.colour = Colour(op)}}
  BY DEF Labels
<1>4. "white" \notin STALLS
  BY DEF STALLS
<1>5. CASE op \in STALLS
  <2>1. {k \in KeyMade : k.colour = op} = {[label |-> op, colour |-> op]}
    BY <1>2, <1>5 DEF KeyMade
  <2>2. {k.label : k \in {[label |-> op, colour |-> op]}} = {op}
    <3>1. [label |-> op, colour |-> op].label = op
      OBVIOUS
    <3>2. QED
      BY <3>1
  <2>3. QED
    BY <1>2, <1>3, <1>5, <2>1, <2>2
<1>6. CASE op \notin STALLS
  <2>1. {k \in KeyMade : k.colour = "white"} =
          {[label |-> l, colour |-> "white"] : l \in {"unified_instr", "unified_fp_instr"}}
    BY <1>4 DEF KeyMade
  <2>2. {[label |-> l, colour |-> "white"] : l \in {"unified_instr", "unified_fp_instr"}}
          = {[label |-> "unified_instr", colour |-> "white"],
             [label |-> "unified_fp_instr", colour |-> "white"]}
    OBVIOUS
  <2>3. {k.label : k \in {[label |-> "unified_instr", colour |-> "white"],
                          [label |-> "unified_fp_instr", colour |-> "white"]}}
          = {"unified_instr", "unified_fp_instr"}
    <3>1. /\ [label |-> "unified_instr", colour |-> "white"].label = "unified_instr"
          /\ [label |-> "unified_fp_instr", colour |-> "white"].label = "unified_fp_instr"
      OBVIOUS
    <3>2. QED
      BY <3>1
  <2>4. QED
    BY <1>2, <1>3, <1>6, <2>1, <2>2, <2>3
<1>7. QED
  BY <1>5, <1>6

(* A finished picture has a pixel for each row that was asked for, and no  *)
(* pixel that is not one's.                                                *)
LEMMA AllDrawn ==
  ASSUME BgInv, bgPc \in {"key", "done"}
  PROVE  /\ \A row \in ToSet(bgTrace) : InPicture(row) =>
              /\ Known(row.op) /\ Shown(Place(row)) = At(row)
              /\ Place(row) \in DOMAIN bgPixel /\ bgPixel[Place(row)] = Colour(row.op)
         /\ \A p \in DOMAIN bgPixel : \E row \in ToSet(bgTrace) :
              InPicture(row) /\ p = Place(row)
<1>1. /\ BgChosen /\ Inside /\ bgWindow.start \in Nat /\ bgWindow.end \in Nat
      /\ bgWindow = Asked /\ Painted /\ bgRow = Len(bgTrace)
  BY DEF BgInv
<1>2. /\ Drawn = {i \in DOMAIN bgTrace : InWindow(bgTrace[i])}
      /\ ToSet(bgTrace) = {bgTrace[i] : i \in DOMAIN bgTrace}
  BY <1>1, RowsOf DEF Drawn
<1>3. \A i \in DOMAIN bgTrace : InPicture(bgTrace[i]) <=> i \in Drawn
  BY <1>1, <1>2, WindowAsked
<1>4. \A i \in Drawn : /\ Known(bgTrace[i].op) /\ Shown(Place(bgTrace[i])) = At(bgTrace[i])
                       /\ Place(bgTrace[i]) \in DOMAIN bgPixel
                       /\ bgPixel[Place(bgTrace[i])] = Colour(bgTrace[i].op)
  <2> SUFFICES ASSUME NEW i \in Drawn
               PROVE  /\ Known(bgTrace[i].op) /\ Shown(Place(bgTrace[i])) = At(bgTrace[i])
                      /\ Place(bgTrace[i]) \in DOMAIN bgPixel
                      /\ bgPixel[Place(bgTrace[i])] = Colour(bgTrace[i].op)
    OBVIOUS
  <2>1. Shown(Place(bgTrace[i])) = At(bgTrace[i])
    BY <1>1, <1>2, PlaceRead DEF At
  <2>2. QED
    BY <1>1, <2>1 DEF Painted
<1>5. \A p \in DOMAIN bgPixel : \E i \in Drawn : p = Place(bgTrace[i])
  BY <1>1 DEF Painted
<1>6. QED
  BY <1>2, <1>3, <1>4, <1>5

(* Read back, a finished picture shows each tile in each cycle that was    *)
(* asked for, by any option or by none, and nothing else: the place        *)
(* __mark_trace computes is a different one for every tile and cycle,      *)
(* whatever the width and the dimensions of the group of tiles.  Its       *)
(* colours, and the key of generate_key, tell the stalls apart.            *)
THEOREM PicturesFaithful == BgSpec => []PictureFaithful
<1>1. ASSUME BgInv, bgPc \in {"key", "done"}
      PROVE  PictureFaithful
  <2>1. /\ \A row \in ToSet(bgTrace) : InPicture(row) =>
             /\ Known(row.op) /\ Shown(Place(row)) = At(row)
             /\ Place(row) \in DOMAIN bgPixel /\ bgPixel[Place(row)] = Colour(row.op)
        /\ \A p \in DOMAIN bgPixel : \E row \in ToSet(bgTrace) :
             InPicture(row) /\ p = Place(row)
    BY <1>1, AllDrawn
  <2>2. BgChosen /\ bgAbstract \in BOOLEAN
    BY <1>1 DEF BgInv, BgChosen
  <2>3. \A row \in Told : Known(row.op) /\ Shown(Place(row)) = At(row)
                          /\ Place(row) \in Visible /\ bgPixel[Place(row)] = Colour(row.op)
    BY <2>1, <2>2, ColourTells DEF Told, Visible
  <2>4. \A p \in Visible : \E row \in Told : p = Place(row)
    BY <2>1, <2>2, ColourTells DEF Told, Visible
  <2>5. {Shown(p) : p \in Visible} = {At(row) : row \in Told}
    BY <2>3, <2>4
  <2>6. ASSUME NEW p \in Visible
        PROVE  Known(What[p]) /\ What[p] \notin Hidden /\ bgPixel[p] = Colour(What[p])
    <3>1. PICK row \in Told : p = Place(row)
      BY <2>4
    <3> DEFINE chosen == CHOOSE r \in Told : At(r) = Shown(p)
    <3>2. chosen \in Told /\ At(chosen) = Shown(p)
      BY <2>3, <3>1
    <3>3. What[p] = chosen.op
      BY DEF What
    <3> HIDE DEF chosen
    <3>4. At(chosen) = At(row) /\ row \in ToSet(bgTrace) /\ chosen \in ToSet(bgTrace)
      BY <2>3, <3>1, <3>2 DEF Told
    <3>5. chosen.cycle = row.cycle /\ chosen.x = row.x /\ chosen.y = row.y
      BY <3>4 DEF At
    <3>6. chosen.op = row.op
      BY <2>2, <3>4, <3>5, BgAssumption DEF BgChosen
    <3>7. QED
      BY <2>3, <3>1, <3>2, <3>3, <3>6 DEF Told
  <2>7. \A p, q \in Visible : bgPixel[p] = bgPixel[q] <=> Alike(What[p], What[q])
    <3> SUFFICES ASSUME NEW p \in Visible, NEW q \in Visible
                 PROVE  bgPixel[p] = bgPixel[q] <=> Alike(What[p], What[q])
      OBVIOUS
    <3>1. Known(What[p]) /\ What[p] \notin Hidden /\ bgPixel[p] = Colour(What[p])
      BY <2>6
    <3>2. Known(What[q]) /\ What[q] \notin Hidden /\ bgPixel[q] = Colour(What[q])
      BY <2>6
    <3>3. Colour(What[p]) = Colour(What[q]) <=> Alike(What[p], What[q])
      BY <2>2, <3>1, <3>2, ColourTells
    <3>4. QED
      BY <3>1, <3>2, <3>3
  <2>8. ASSUME bgKey # {}, NEW p \in Visible
        PROVE  Labels(bgPixel[p]) = IF What[p] \in Bright
                                    THEN {"unified_instr", "unified_fp_instr"} ELSE {What[p]}
    <3>1. Known(What[p]) /\ bgPixel[p] = Colour(What[p])
      BY <2>6
    <3>2. ~bgAbstract /\ bgKey = KeyMade
      BY <1>1, <2>8 DEF BgInv
    <3>3. Labels(Colour(What[p])) =
            IF What[p] \in Bright THEN {"unified_instr", "unified_fp_instr"} ELSE {What[p]}
      BY <3>1, <3>2, KeyTells
    <3>4. QED
      BY <3>1, <3>3
  <2>9. QED
    BY <2>5, <2>7, <2>8 DEF PictureFaithful
<1>2. BgInv => PictureFaithful
  BY <1>1 DEF PictureFaithful
<1>3. QED
  BY <1>2, BgInitOk, BgNextOk, PTL DEF BgSpec

----------------------------------------------------------------------------
(* The image of nbf.py, loaded through the links.                          *)

(* The numbers of a set in ascending order.                                *)
LEMMA AscendingIs ==
  ASSUME NEW S, S \subseteq Nat, IsFiniteSet(S)
  PROVE  /\ Cardinality(S) \in Nat /\ DOMAIN Ascending(S) = 1 .. Cardinality(S)
         /\ IsSeq(Ascending(S)) /\ Len(Ascending(S)) = Cardinality(S)
         /\ \A n \in 1 .. Cardinality(S) : Ascending(S)[n] \in S
         /\ \A a \in S : \E n \in 1 .. Cardinality(S) : Ascending(S)[n] = a
         /\ \A m, n \in 1 .. Cardinality(S) : m < n => Ascending(S)[m] < Ascending(S)[n]
<1> DEFINE N == Cardinality(S)  A == Ascending(S)
<1>1. /\ N \in Nat /\ \A i \in S : Rank(S, i) \in 1 .. N
      /\ \A i, k \in S : Rank(S, i) = Rank(S, k) => i = k
      /\ \A n \in 1 .. N : \E i \in S : Rank(S, i) = n
  BY Ranks
<1>2. A = [n \in 1 .. N |-> CHOOSE a \in S : Rank(S, a) = n]
  BY DEF Ascending, Rank
<1> HIDE DEF N, A
<1>3. ASSUME NEW n \in 1 .. N
      PROVE  A[n] \in S /\ Rank(S, A[n]) = n
  BY <1>1, <1>2
<1>4. A \in [1 .. N -> S]
  BY <1>2, <1>3
<1>5. A \in Seq(S) /\ Len(A) = N
  BY <1>1, <1>4
<1>6. ASSUME NEW a \in S
      PROVE  \E n \in 1 .. N : A[n] = a
  BY <1>1, <1>3
<1>7. ASSUME NEW m \in 1 .. N, NEW n \in 1 .. N, m < n
      PROVE  A[m] < A[n]
  <2>1. CASE A[m] = A[n]
    BY <1>3, <1>7, <2>1
  <2>2. CASE A[n] < A[m]
    <3>1. Rank(S, A[n]) < Rank(S, A[m])
      BY <1>3, <2>2, RankGrows
    <3>2. QED
      BY <1>1, <1>3, <1>7, <3>1
  <2>3. A[m] \in Nat /\ A[n] \in Nat
    BY <1>3
  <2>4. QED
    BY <2>1, <2>2, <2>3
<1>8. QED
  BY <1>1, <1>3, <1>4, <1>5, <1>6, <1>7 DEF A, N, IsSeq

(* Two sequences, one behind the other.                                    *)
LEMMA Joined ==
  ASSUME NEW s, NEW t, IsSeq(s), IsSeq(t)
  PROVE  /\ IsSeq(s \o t) /\ Len(s) \in Nat /\ Len(t) \in Nat
         /\ Len(s \o t) = Len(s) + Len(t)
         /\ \A i \in 1 .. Len(s) : (s \o t)[i] = s[i]
         /\ \A i \in 1 .. Len(t) : (s \o t)[Len(s) + i] = t[i]
<1>1. PICK S, T : s \in Seq(S) /\ t \in Seq(T)
  BY DEF IsSeq
<1>2. s \in Seq(S \cup T) /\ t \in Seq(S \cup T)
  <2>1. /\ DOMAIN s = 1 .. Len(s) /\ Len(s) \in Nat /\ \A i \in 1 .. Len(s) : s[i] \in S \cup T
        /\ DOMAIN t = 1 .. Len(t) /\ Len(t) \in Nat /\ \A i \in 1 .. Len(t) : t[i] \in S \cup T
    BY <1>1
  <2>2. s = [i \in 1 .. Len(s) |-> s[i]] /\ t = [i \in 1 .. Len(t) |-> t[i]]
    BY <1>1
  <2>3. QED
    BY <2>1, <2>2
<1>3. /\ s \o t \in Seq(S \cup T) /\ Len(s \o t) = Len(s) + Len(t)
      /\ \A i \in 1 .. Len(s) + Len(t) :
           (s \o t)[i] = IF i <= Len(s) THEN s[i] ELSE t[i - Len(s)]
  BY <1>2, ConcatProperties
<1>4. Len(s) \in Nat /\ Len(t) \in Nat
  BY <1>1
<1> DEFINE m == Len(s)  n == Len(t)  u == s \o t
<1>5. m \in Nat /\ n \in Nat /\ \A i \in 1 .. m + n : u[i] = IF i <= m THEN s[i] ELSE t[i - m]
  BY <1>3, <1>4
<1> HIDE DEF m, n, u
<1>6. \A i \in 1 .. m : u[i] = s[i]
  BY <1>5
<1>7. \A i \in 1 .. n : u[m + i] = t[i]
  BY <1>5
<1>8. QED
  BY <1>3, <1>4, <1>6, <1>7 DEF m, n, u, IsSeq

(* What is in the two is in the whole.                                     *)
LEMMA JoinedSet ==
  ASSUME NEW s, NEW t, IsSeq(s), IsSeq(t)
  PROVE  ToSet(s \o t) = ToSet(s) \cup ToSet(t)
<1>1. \A q : IsSeq(q) => ToSet(q) = {q[i] : i \in 1 .. Len(q)} /\ Len(q) \in Nat
  BY DEF ToSet, IsSeq
<1>2. IsSeq(s \o t)
  BY Joined
<1> DEFINE m == Len(s)  n == Len(t)  u == s \o t
<1>3. /\ m \in Nat /\ n \in Nat /\ Len(u) = m + n
      /\ \A i \in 1 .. m : u[i] = s[i]
      /\ \A i \in 1 .. n : u[m + i] = t[i]
  BY Joined
<1>4. /\ ToSet(s) = {s[i] : i \in 1 .. m} /\ ToSet(t) = {t[i] : i \in 1 .. n}
      /\ ToSet(u) = {u[i] : i \in 1 .. Len(u)}
  BY <1>1, <1>2
<1> HIDE DEF m, n, u
<1>5. ASSUME NEW i \in 1 .. m + n
      PROVE  u[i] \in ToSet(s) \cup ToSet(t)
  <2>1. CASE i <= m
    BY <1>3, <1>4, <2>1
  <2>2. CASE i > m
    <3>1. i - m \in 1 .. n /\ i = m + (i - m)
      BY <1>3, <2>2
    <3>2. u[i] = t[i - m]
      BY <1>3, <3>1
    <3>3. QED
      BY <1>4, <3>1, <3>2
  <2>3. QED
    BY <1>3, <2>1, <2>2
<1>6. ASSUME NEW i \in 1 .. m
      PROVE  s[i] \in ToSet(u)
  BY <1>3, <1>4
<1>7. ASSUME NEW i \in 1 .. n
      PROVE  t[i] \in ToSet(u)
  <2>1. m + i \in 1 .. Len(u) /\ u[m + i] = t[i]
    BY <1>3
  <2>2. QED
    BY <1>4, <2>1
<1>8. ToSet(u) = ToSet(s) \cup ToSet(t)
  <2>1. \A e \in ToSet(u) : e \in ToSet(s) \cup ToSet(t)
    BY <1>3, <1>4, <1>5
  <2>2. \A e \in ToSet(s) : e \in ToSet(u)
    BY <1>4, <1>6
  <2>3. \A e \in ToSet(t) : e \in ToSet(u)
    BY <1>4, <1>7
  <2>4. QED
    BY <2>1, <2>2, <2>3
<1>9. QED
  BY <1>8 DEF u

----------------------------------------------------------------------------
(* Sequences by the set of their elements.                                 *)
LEMMA Elements ==
  ASSUME NEW s, IsSeq(s)
  PROVE  /\ Len(s) \in Nat
         /\ \A i \in 1 .. Len(s) : s[i] \in ToSet(s)
         /\ \A e \in ToSet(s) : \E i \in 1 .. Len(s) : s[i] = e
  BY DEF ToSet, IsSeq

(* One element more.                                                       *)
LEMMA AppendedTo ==
  ASSUME NEW s, IsSeq(s), NEW x
  PROVE  /\ IsSeq(Append(s, x)) /\ Len(s) \in Nat /\ Len(Append(s, x)) = Len(s) + 1
         /\ \A i \in 1 .. Len(s) : Append(s, x)[i] = s[i]
         /\ Append(s, x)[Len(s) + 1] = x
<1>1. PICK S : s \in Seq(S)
  BY DEF IsSeq
<1>2. s \in Seq(S \cup {x})
  <2>1. /\ DOMAIN s = 1 .. Len(s) /\ Len(s) \in Nat /\ \A i \in 1 .. Len(s) : s[i] \in S \cup {x}
    BY <1>1
  <2>2. s = [i \in 1 .. Len(s) |-> s[i]]
    BY <1>1
  <2>3. QED
    BY <2>1, <2>2
<1>3. Append(s, x) \in Seq(S \cup {x})
  BY <1>2
<1>4. QED
  BY <1>2, <1>3 DEF IsSeq

(* One element less.                                                       *)
LEMMA HeadTaken ==
  ASSUME NEW s, IsSeq(s), s # <<>>
  PROVE  /\ Len(s) \in Nat \ {0} /\ Head(s) = s[1]
         /\ IsSeq(Tail(s)) /\ Len(Tail(s)) = Len(s) - 1
         /\ \A i \in 1 .. Len(s) - 1 : Tail(s)[i] = s[i + 1]
<1>1. PICK S : s \in Seq(S)
  BY DEF IsSeq
<1>2. Tail(s) \in Seq(S) /\ Len(s) \in Nat \ {0}
  BY <1>1
<1>3. QED
  BY <1>1, <1>2 DEF IsSeq

(* A single element.                                                       *)
LEMMA OneElement == \A x : IsSeq(<<x>>) /\ Len(<<x>>) = 1 /\ <<x>>[1] = x /\ ToSet(<<x>>) = {x}
<1> TAKE x
<1>1. <<x>> \in Seq({x}) /\ Len(<<x>>) = 1 /\ <<x>>[1] = x
  OBVIOUS
<1>2. IsSeq(<<x>>)
  BY <1>1 DEF IsSeq
<1>3. ToSet(<<x>>) = {x}
  BY <1>1 DEF ToSet
<1>4. QED
  BY <1>1, <1>2, <1>3

(* No element.                                                             *)
LEMMA NoElement == IsSeq(<<>>) /\ Len(<<>>) = 0 /\ ToSet(<<>>) = {}
<1>1. <<>> \in Seq({}) /\ Len(<<>>) = 0
  OBVIOUS
<1>2. QED
  BY <1>1 DEF IsSeq, ToSet

----------------------------------------------------------------------------
(* The lines of the image.                                                 *)
CoresList == Ascending(BootCores)

(* The cores in the order of their numbers.                                *)
LEMMA CoresAre ==
  /\ \A c \in BootCores : c \in Nat \ {0}
  /\ DOMAIN CoresList = 1 .. Cardinality(BootCores) /\ Cardinality(BootCores) \in Nat
  /\ \A n \in 1 .. Cardinality(BootCores) : CoresList[n] \in BootCores
  /\ \A c \in BootCores : \E n \in 1 .. Cardinality(BootCores) : CoresList[n] = c
<1>1. BootCores \subseteq Nat /\ IsFiniteSet(BootCores)
  BY BootAssumption
<1>2. QED
  BY <1>1, AscendingIs, BootAssumption DEF CoresList

(* One line for every core.                                                *)
LEMMA AllCoresAre ==
  ASSUME NEW reg, NEW val
  PROVE  /\ IsSeq(AllCores(reg, val))
         /\ ToSet(AllCores(reg, val)) = {Line(c, reg, 3, val) : c \in BootCores}
<1> DEFINE n == Cardinality(BootCores)  s == AllCores(reg, val)
<1>1. n \in Nat /\ DOMAIN CoresList = 1 .. n
  BY CoresAre
<1>2. s = [i \in 1 .. n |-> Line(CoresList[i], reg, 3, val)]
  BY <1>1 DEF AllCores, CoresList
<1> HIDE DEF n, s
<1>3. IsSeq(s)
  <2>1. s \in Seq({s[i] : i \in 1 .. n})
    BY <1>1, <1>2
  <2>2. QED
    BY <2>1 DEF IsSeq
<1>4. ToSet(s) = {Line(CoresList[i], reg, 3, val) : i \in 1 .. n}
  BY <1>2 DEF ToSet
<1>5. (\A i \in 1 .. n : CoresList[i] \in BootCores) /\ (\A c \in BootCores : \E i \in 1 .. n : CoresList[i] = c)
  BY CoresAre DEF n
<1>6. QED
  BY <1>3, <1>4, <1>5 DEF s

(* One line for every word of the microcode of every core.                 *)
LEMMA UcodeAre ==
  /\ IsSeq(UcodeLines)
  /\ \A e \in ToSet(UcodeLines) :
       \E c \in BootCores, w \in DOMAIN BootUcode : e = Line(c, <<"ucode", w>>, 3, BootUcode[w])
  /\ \A c \in BootCores, w \in DOMAIN BootUcode :
       Line(c, <<"ucode", w>>, 3, BootUcode[w]) \in ToSet(UcodeLines)
<1> DEFINE n == Cardinality(BootCores)  u == Len(BootUcode)
           C(i) == ((i - 1) \div u) + 1  W(i) == ((i - 1) % u) + 1
           G(i) == Line(CoresList[C(i)], <<"ucode", W(i)>>, 3, BootUcode[W(i)])
           s == UcodeLines
<1>1. n \in Nat /\ u \in Nat /\ DOMAIN BootUcode = 1 .. u
  BY CoresAre, BootAssumption
<1>2. n * u \in Nat
  BY <1>1
<1>3. s = [i \in 1 .. n * u |-> G(i)]
  BY DEF UcodeLines, CoresList
<1>4. ASSUME NEW i \in 1 .. n * u
      PROVE  C(i) \in 1 .. n /\ W(i) \in 1 .. u
  <2>1. u # 0
    BY <1>1, <1>2
  <2> DEFINE q == (i - 1) \div u  r == (i - 1) % u
  <2>2. i - 1 = q * u + r /\ r \in 0 .. u - 1 /\ q \in Nat
    <3> HIDE DEF n, u
    <3>1. u \in Nat \ {0} /\ i - 1 \in Nat
      BY <1>1, <1>2, <2>1
    <3>2. QED
      BY <3>1, DivMod
  <2> HIDE DEF q, r, n, u
  <2>3. q < n
    <3>1. CASE q >= n
      <4>1. q * u >= n * u
        BY <1>1, <2>2, <3>1, SMTT(20)
      <4>2. QED
        BY <1>1, <1>2, <2>2, <4>1
    <3>2. QED
      BY <1>1, <2>2, <3>1
  <2>4. q + 1 \in 1 .. n /\ r + 1 \in 1 .. u
    BY <1>1, <2>2, <2>3
  <2>5. QED
    BY <2>4 DEF q, r
<1>5. ASSUME NEW m \in 1 .. n, NEW w \in 1 .. u
      PROVE  \E i \in 1 .. n * u : C(i) = m /\ W(i) = w
  <2> DEFINE p == (m - 1) * u + (w - 1)
  <2> HIDE DEF n, u
  <2>1. p \in Nat /\ p < n * u
    <3>1. (m - 1) * u >= 0 /\ (m - 1) * u + u <= n * u
      BY <1>1, SMTT(20)
    <3>2. (m - 1) * u \in Int
      BY <1>1
    <3>3. QED
      BY <1>1, <1>2, <3>1, <3>2
  <2>2. Splits(p, u, m - 1, w - 1)
    <3>1. u \in Nat \ {0} /\ m - 1 \in Nat /\ w - 1 \in 0 .. u - 1
      BY <1>1
    <3>2. QED
      BY <3>1, DivModOf
  <2> HIDE DEF p
  <2>3. p + 1 \in 1 .. n * u /\ (p + 1) - 1 = p
    BY <1>2, <2>1
  <2>4. p \div u = m - 1 /\ p % u = w - 1
    BY <2>2 DEF Splits
  <2>5. C(p + 1) = m /\ W(p + 1) = w
    BY <2>3, <2>4
  <2>6. QED
    BY <2>3, <2>5
<1>6. IsSeq(s) /\ ToSet(s) = {G(i) : i \in 1 .. n * u}
  <2> HIDE DEF n, u, G
  <2>1. s \in Seq({G(i) : i \in 1 .. n * u})
    BY <1>2, <1>3
  <2>2. ToSet(s) = {G(i) : i \in 1 .. n * u}
    BY <1>3 DEF ToSet
  <2>3. QED
    BY <2>1, <2>2 DEF IsSeq
<1>7. (\A i \in 1 .. n : CoresList[i] \in BootCores) /\ (\A c \in BootCores : \E i \in 1 .. n : CoresList[i] = c)
  BY CoresAre
<1> HIDE DEF n, u, C, W
<1>8. \A i \in 1 .. n * u : \E c \in BootCores, w \in DOMAIN BootUcode :
        G(i) = Line(c, <<"ucode", w>>, 3, BootUcode[w])
  <2>1. SUFFICES ASSUME NEW i \in 1 .. n * u
                 PROVE  \E c \in BootCores, w \in DOMAIN BootUcode :
                          G(i) = Line(c, <<"ucode", w>>, 3, BootUcode[w])
    OBVIOUS
  <2>2. CoresList[C(i)] \in BootCores /\ W(i) \in DOMAIN BootUcode
    BY <1>1, <1>4, <1>7
  <2>3. QED
    BY <2>2
<1>9. \A c \in BootCores, w \in DOMAIN BootUcode :
        \E i \in 1 .. n * u : G(i) = Line(c, <<"ucode", w>>, 3, BootUcode[w])
  <2>1. SUFFICES ASSUME NEW c \in BootCores, NEW w \in DOMAIN BootUcode
                 PROVE  \E i \in 1 .. n * u : G(i) = Line(c, <<"ucode", w>>, 3, BootUcode[w])
    OBVIOUS
  <2>2. PICK m \in 1 .. n : CoresList[m] = c
    BY <1>7
  <2>3. PICK i \in 1 .. n * u : C(i) = m /\ W(i) = w
    BY <1>1, <1>5
  <2>4. QED
    BY <2>2, <2>3
<1> HIDE DEF G
<1> HIDE DEF G
<1>10. /\ \A e \in ToSet(s) :
            \E c \in BootCores, w \in DOMAIN BootUcode : e = Line(c, <<"ucode", w>>, 3, BootUcode[w])
       /\ \A c \in BootCores, w \in DOMAIN BootUcode :
            Line(c, <<"ucode", w>>, 3, BootUcode[w]) \in ToSet(s)
  <2>1. \A e \in ToSet(s) : \E i \in 1 .. n * u : e = G(i)
    BY <1>6
  <2>2. \A i \in 1 .. n * u : G(i) \in ToSet(s)
    BY <1>6
  <2>3. QED
    BY <1>8, <1>9, <2>1, <2>2
<1>11. QED
  BY <1>6, <1>10 DEF s

(* The registers that --config sets, and what to.                          *)
ConfigRegs == Registers \ {Freeze}
Want(r)    == IF r[1] = "ucode" THEN BootUcode[r[2]] ELSE 1
ModeRegs   == {<<"icache_mode", 0>>, <<"dcache_mode", 0>>, <<"cce_mode", 0>>}

(* Which registers there are, and which are not set with --config.         *)
LEMMA RegistersAre ==
  /\ Freeze \in Registers
  /\ <<"reset", 0>> \notin Registers /\ <<"none", 0>> \notin Registers
  /\ <<"reset", 0>> # Freeze /\ <<"none", 0>> # Freeze
  /\ \A r \in ModeRegs : r \in ConfigRegs /\ Want(r) = 1
  /\ \A w \in DOMAIN BootUcode : <<"ucode", w>> \in ConfigRegs /\ Want(<<"ucode", w>>) = BootUcode[w]
  /\ \A r \in ConfigRegs : r \in ModeRegs \/ \E w \in DOMAIN BootUcode : r = <<"ucode", w>>
<1>1. \A w : <<"ucode", w>> # Freeze /\ <<"ucode", w>> # <<"reset", 0>> /\ <<"ucode", w>> # <<"none", 0>>
  BY DEF Freeze
<1>2. \A w : <<"ucode", w>>[1] = "ucode" /\ <<"ucode", w>>[2] = w
  OBVIOUS
<1>3. \A r \in ModeRegs : r # Freeze /\ r[1] # "ucode" /\ r # <<"reset", 0>> /\ r # <<"none", 0>>
  BY DEF ModeRegs, Freeze
<1>4. Registers = {Freeze} \cup ModeRegs \cup {<<"ucode", w>> : w \in DOMAIN BootUcode}
  BY DEF Registers, ModeRegs
<1>5. <<"reset", 0>> # Freeze /\ <<"none", 0>> # Freeze
  BY DEF Freeze
<1>6. /\ <<"reset", 0>> \notin Registers /\ <<"none", 0>> \notin Registers
  BY <1>1, <1>3, <1>4, <1>5
<1>7. \A r \in ModeRegs : r \in ConfigRegs /\ Want(r) = 1
  BY <1>3, <1>4 DEF ConfigRegs, Want
<1>8. \A w \in DOMAIN BootUcode : <<"ucode", w>> \in ConfigRegs /\ Want(<<"ucode", w>>) = BootUcode[w]
  <2>1. \A w \in DOMAIN BootUcode : <<"ucode", w>> \in ConfigRegs
    BY <1>1, <1>4 DEF ConfigRegs
  <2>2. \A w : Want(<<"ucode", w>>) = BootUcode[w]
    BY <1>2 DEF Want
  <2>3. QED
    BY <2>1, <2>2
<1>9. \A r \in ConfigRegs : r \in ModeRegs \/ \E w \in DOMAIN BootUcode : r = <<"ucode", w>>
  BY <1>4 DEF ConfigRegs
<1>10. QED
  BY <1>4, <1>5, <1>6, <1>7, <1>8, <1>9

(* Lines that prepare the cores and release none.                          *)
SetsUp(line) ==
  /\ line.dst \in BootCores /\ line.op # 255
  /\ line.addr = Freeze => line.data = 1
  /\ line.addr \in ConfigRegs => line.data = Want(line.addr)

(* The parts of a line.                                                    *)
LEMMA LineIs ==
  \A dst, addr, op, data :
    /\ Line(dst, addr, op, data).dst = dst /\ Line(dst, addr, op, data).addr = addr
    /\ Line(dst, addr, op, data).op = op /\ Line(dst, addr, op, data).data = data
  BY DEF Line

(* A line for every core, by what it writes.                               *)
LEMMA AllCoresSetUp ==
  ASSUME NEW reg, NEW val, reg = Freeze => val = 1, reg \in ConfigRegs => val = Want(reg)
  PROVE  /\ IsSeq(AllCores(reg, val))
         /\ \A e \in ToSet(AllCores(reg, val)) : SetsUp(e)
         /\ \A t \in BootCores : \E e \in ToSet(AllCores(reg, val)) : e.dst = t /\ e.addr = reg
<1>1. IsSeq(AllCores(reg, val)) /\ ToSet(AllCores(reg, val)) = {Line(c, reg, 3, val) : c \in BootCores}
  BY AllCoresAre
<1>2. \A c \in BootCores : SetsUp(Line(c, reg, 3, val))
  BY LineIs DEF SetsUp
<1>3. \A c \in BootCores : Line(c, reg, 3, val).dst = c /\ Line(c, reg, 3, val).addr = reg
  BY LineIs
<1>4. QED
  BY <1>1, <1>2, <1>3

(* The lines of --config name every register of every core.                *)
LEMMA ConfigSetsUp ==
  /\ IsSeq(ConfigLines)
  /\ \A e \in ToSet(ConfigLines) : SetsUp(e)
  /\ bootConfig => \A t \in BootCores, r \in ConfigRegs :
                     \E e \in ToSet(ConfigLines) : e.dst = t /\ e.addr = r
<1>1. CASE bootConfig
  <2> DEFINE I == AllCores(<<"icache_mode", 0>>, 1)  D == AllCores(<<"dcache_mode", 0>>, 1)
             C == AllCores(<<"cce_mode", 0>>, 1)  U == UcodeLines
  <2>1. ConfigLines = ((U \o I) \o D) \o C
    BY <1>1 DEF ConfigLines
  <2>2. /\ <<"icache_mode", 0>> \in ModeRegs /\ <<"dcache_mode", 0>> \in ModeRegs
        /\ <<"cce_mode", 0>> \in ModeRegs
    BY DEF ModeRegs
  <2>3. \A r \in ModeRegs : r \in ConfigRegs /\ r # Freeze /\ Want(r) = 1
    BY RegistersAre DEF ConfigRegs
  <2>4. /\ IsSeq(I) /\ \A e \in ToSet(I) : SetsUp(e)
        /\ \A t \in BootCores : \E e \in ToSet(I) : e.dst = t /\ e.addr = <<"icache_mode", 0>>
    BY <2>2, <2>3, AllCoresSetUp
  <2>5. /\ IsSeq(D) /\ \A e \in ToSet(D) : SetsUp(e)
        /\ \A t \in BootCores : \E e \in ToSet(D) : e.dst = t /\ e.addr = <<"dcache_mode", 0>>
    BY <2>2, <2>3, AllCoresSetUp
  <2>6. /\ IsSeq(C) /\ \A e \in ToSet(C) : SetsUp(e)
        /\ \A t \in BootCores : \E e \in ToSet(C) : e.dst = t /\ e.addr = <<"cce_mode", 0>>
    BY <2>2, <2>3, AllCoresSetUp
  <2>7. /\ IsSeq(U) /\ \A e \in ToSet(U) : SetsUp(e)
        /\ \A t \in BootCores, w \in DOMAIN BootUcode :
             \E e \in ToSet(U) : e.dst = t /\ e.addr = <<"ucode", w>>
    <3>1. \A w \in DOMAIN BootUcode :
            /\ <<"ucode", w>> # Freeze /\ Want(<<"ucode", w>>) = BootUcode[w]
      BY RegistersAre DEF ConfigRegs
    <3>2. \A c \in BootCores, w \in DOMAIN BootUcode :
            /\ SetsUp(Line(c, <<"ucode", w>>, 3, BootUcode[w]))
            /\ Line(c, <<"ucode", w>>, 3, BootUcode[w]).dst = c
            /\ Line(c, <<"ucode", w>>, 3, BootUcode[w]).addr = <<"ucode", w>>
      <4>1. SUFFICES ASSUME NEW c \in BootCores, NEW w \in DOMAIN BootUcode
                     PROVE  /\ SetsUp(Line(c, <<"ucode", w>>, 3, BootUcode[w]))
                            /\ Line(c, <<"ucode", w>>, 3, BootUcode[w]).dst = c
                            /\ Line(c, <<"ucode", w>>, 3, BootUcode[w]).addr = <<"ucode", w>>
        OBVIOUS
      <4> DEFINE reg == <<"ucode", w>>  val == BootUcode[w]
      <4>2. reg # Freeze /\ Want(reg) = val
        BY <3>1
      <4> HIDE DEF reg, val
      <4>3. SetsUp(Line(c, reg, 3, val)) /\ Line(c, reg, 3, val).dst = c /\ Line(c, reg, 3, val).addr = reg
        BY <4>2, LineIs DEF SetsUp
      <4>4. QED
        BY <4>3 DEF reg, val
    <3>3. QED
      BY <3>2, UcodeAre
  <2> HIDE DEF I, D, C, U
  <2>8. IsSeq(U \o I) /\ ToSet(U \o I) = ToSet(U) \cup ToSet(I)
    BY <2>4, <2>7, Joined, JoinedSet
  <2>9. IsSeq((U \o I) \o D) /\ ToSet((U \o I) \o D) = ToSet(U) \cup ToSet(I) \cup ToSet(D)
    BY <2>5, <2>8, Joined, JoinedSet
  <2>10. /\ IsSeq(ConfigLines)
         /\ ToSet(ConfigLines) = ToSet(U) \cup ToSet(I) \cup ToSet(D) \cup ToSet(C)
    BY <2>1, <2>6, <2>9, Joined, JoinedSet
  <2>11. ASSUME NEW t \in BootCores, NEW r \in ConfigRegs
         PROVE  \E e \in ToSet(ConfigLines) : e.dst = t /\ e.addr = r
    <3>1. CASE r \in ModeRegs
      BY <2>4, <2>5, <2>6, <2>10, <3>1 DEF ModeRegs
    <3>2. CASE \E w \in DOMAIN BootUcode : r = <<"ucode", w>>
      <4>1. PICK w \in DOMAIN BootUcode : r = <<"ucode", w>>
        BY <3>2
      <4>2. PICK e \in ToSet(U) : e.dst = t /\ e.addr = <<"ucode", w>>
        BY <2>7
      <4>3. QED
        BY <2>10, <4>1, <4>2
    <3>3. QED
      BY <3>1, <3>2, RegistersAre
  <2>12. QED
    BY <2>4, <2>5, <2>6, <2>7, <2>10, <2>11
<1>2. CASE ~bootConfig
  BY <1>2, NoElement DEF ConfigLines
<1>3. QED
  BY <1>1, <1>2

First == AllCores(<<"reset", 0>>, 1) \o AllCores(<<"freeze", 0>>, 1) \o AllCores(<<"reset", 0>>, 0)
           \o ConfigLines \o BootCheckpoint

(* The lines before the program configure the cores and release none.      *)
LEMMA FirstIs ==
  /\ IsSeq(First)
  /\ \A e \in ToSet(First) : SetsUp(e)
  /\ bootConfig => \A t \in BootCores, r \in ConfigRegs :
                     \E e \in ToSet(First) : e.dst = t /\ e.addr = r
<1> DEFINE A == AllCores(<<"reset", 0>>, 1)  B == AllCores(<<"freeze", 0>>, 1)
           C == AllCores(<<"reset", 0>>, 0)  G == ConfigLines  K == BootCheckpoint
<1>1. First = (((A \o B) \o C) \o G) \o K
  BY DEF First
<1>2. /\ <<"reset", 0>> # Freeze /\ <<"reset", 0>> \notin ConfigRegs
      /\ <<"freeze", 0>> = Freeze /\ Freeze \notin ConfigRegs
  BY RegistersAre DEF ConfigRegs, Freeze
<1>3. IsSeq(A) /\ \A e \in ToSet(A) : SetsUp(e)
  BY <1>2, AllCoresSetUp
<1>4. IsSeq(B) /\ \A e \in ToSet(B) : SetsUp(e)
  BY <1>2, AllCoresSetUp
<1>5. IsSeq(C) /\ \A e \in ToSet(C) : SetsUp(e)
  BY <1>2, AllCoresSetUp
<1>6. IsSeq(G) /\ \A e \in ToSet(G) : SetsUp(e)
  BY ConfigSetsUp
<1>7. IsSeq(K) /\ \A e \in ToSet(K) : SetsUp(e)
  <2>1. ASSUME NEW e \in ToSet(K)
        PROVE  SetsUp(e)
    <3>1. e.dst \in BootCores /\ e.addr \notin Registers /\ e.op # 255
      BY CheckpointAssumption
    <3>2. e.addr # Freeze /\ e.addr \notin ConfigRegs
      BY <3>1, RegistersAre DEF ConfigRegs
    <3>3. QED
      BY <3>1, <3>2 DEF SetsUp
  <2>2. IsSeq(K)
    BY CheckpointAssumption DEF IsSeq
  <2>3. QED
    BY <2>1, <2>2
<1> HIDE DEF A, B, C, G, K
<1>8. IsSeq(A \o B) /\ ToSet(A \o B) = ToSet(A) \cup ToSet(B)
  BY <1>3, <1>4, Joined, JoinedSet
<1>9. IsSeq((A \o B) \o C) /\ ToSet((A \o B) \o C) = ToSet(A) \cup ToSet(B) \cup ToSet(C)
  BY <1>5, <1>8, Joined, JoinedSet
<1>10. /\ IsSeq(((A \o B) \o C) \o G)
       /\ ToSet(((A \o B) \o C) \o G) = ToSet(A) \cup ToSet(B) \cup ToSet(C) \cup ToSet(G)
  BY <1>6, <1>9, Joined, JoinedSet
<1>11. /\ IsSeq(First)
       /\ ToSet(First) = ToSet(A) \cup ToSet(B) \cup ToSet(C) \cup ToSet(G) \cup ToSet(K)
  BY <1>1, <1>7, <1>10, Joined, JoinedSet
<1>12. \A e \in ToSet(First) : SetsUp(e)
  BY <1>3, <1>4, <1>5, <1>6, <1>7, <1>11
<1>13. ToSet(ConfigLines) \subseteq ToSet(First)
  BY <1>11 DEF G
<1>14. QED
  BY <1>11, <1>12, <1>13, ConfigSetsUp

----------------------------------------------------------------------------
(* What the tool has made of the first q lines of a dump.                  *)
ByteAt(f, i, x, b) == i \in BytesIn(f) /\ AddrOf(f, i) = x /\ f[i].byte = b

WordOk(a, bytes) ==
  a \in Nat /\ a % 4 = 0 /\ IsSeq(bytes) /\ Len(bytes) \in 1 .. BytesOf(GetOpcode(a))

(* Words of known bytes, of all bytes, none in two words.                  *)
Words(f, v, q) ==
  /\ IsFiniteSet(DOMAIN v)
  /\ \A a \in DOMAIN v : WordOk(a, v[a])
  /\ \A a \in DOMAIN v : \A k \in 1 .. Len(v[a]) : \E i \in 1 .. q : ByteAt(f, i, a + k - 1, v[a][k])
  /\ \A i \in BytesIn(f) : i <= q =>
       \E a \in DOMAIN v : \E k \in 1 .. Len(v[a]) : ByteAt(f, i, a + k - 1, v[a][k])
  /\ \A a, b \in DOMAIN v : \A j \in 1 .. Len(v[a]) : \A k \in 1 .. Len(v[b]) : a + j = b + k => a = b

Assembled(f, at, bytes, q) ==
  IsSeq(bytes) /\ \A k \in 1 .. Len(bytes) : ByteAt(f, q + k, at + k - 1, bytes[k])

(* A word of new bytes joins those that are known.                         *)
LEMMA WordAdded ==
  ASSUME NEW f \in BootFiles, NEW v, NEW q \in Nat, Words(f, v, q),
         NEW c, NEW h, WordOk(c, h), Assembled(f, c, h, q),
         NEW w, w = [a \in DOMAIN v \cup {c} |-> IF a = c THEN h ELSE v[a]]
  PROVE  Words(f, w, q + Len(h))
<1> DEFINE n == Len(h)
<1>1. n \in Nat \ {0} /\ c \in Nat /\ IsSeq(h)
  <2>1. BytesOf(GetOpcode(c)) \in Nat
    BY DEF BytesOf
  <2>2. QED
    BY <2>1 DEF WordOk
<1>2. DOMAIN w = DOMAIN v \cup {c} /\ w[c] = h /\ \A a \in DOMAIN v : a # c => w[a] = v[a]
  OBVIOUS
<1>3. /\ IsFiniteSet(DOMAIN v)
      /\ \A a \in DOMAIN v : WordOk(a, v[a])
      /\ \A a \in DOMAIN v : \A k \in 1 .. Len(v[a]) : \E i \in 1 .. q : ByteAt(f, i, a + k - 1, v[a][k])
      /\ \A i \in BytesIn(f) : i <= q =>
           \E a \in DOMAIN v : \E k \in 1 .. Len(v[a]) : ByteAt(f, i, a + k - 1, v[a][k])
      /\ \A a, b \in DOMAIN v : \A j \in 1 .. Len(v[a]) : \A k \in 1 .. Len(v[b]) : a + j = b + k => a = b
  BY DEF Words
<1>4. \A k \in 1 .. n : ByteAt(f, q + k, c + k - 1, h[k])
  BY DEF Assembled
<1>5. \A a \in DOMAIN v : a \in Nat /\ Len(v[a]) \in Nat \ {0}
  <2>1. \A a \in DOMAIN v : BytesOf(GetOpcode(a)) \in Nat
    BY DEF BytesOf
  <2>2. QED
    BY <1>3, <2>1 DEF WordOk
<1>6. \A i, j : \A x, b, d : ByteAt(f, i, x, b) /\ ByteAt(f, j, x, d) => i = j
  BY FilesAssumption DEF ByteAt
<1> HIDE DEF n
<1>7. ASSUME NEW a \in DOMAIN v, NEW j \in 1 .. Len(v[a]), NEW k \in 1 .. n
      PROVE  a + j # c + k
  <2>1. PICK i \in 1 .. q : ByteAt(f, i, a + j - 1, v[a][j])
    BY <1>3
  <2>2. ByteAt(f, q + k, c + k - 1, h[k])
    BY <1>4
  <2>3. SUFFICES ASSUME a + j = c + k  PROVE FALSE
    OBVIOUS
  <2>4. a + j - 1 = c + k - 1
    BY <1>1, <1>5, <2>3
  <2>5. i = q + k
    BY <1>6, <2>1, <2>2, <2>4
  <2>6. QED
    BY <1>1, <2>5
<1>8. c \notin DOMAIN v
  <2>1. SUFFICES ASSUME c \in DOMAIN v  PROVE FALSE
    OBVIOUS
  <2>2. 1 \in 1 .. Len(v[c]) /\ 1 \in 1 .. n
    BY <1>1, <1>5, <2>1
  <2>3. QED
    BY <1>7, <2>1, <2>2
<1>9. /\ DOMAIN w = DOMAIN v \cup {c} /\ w[c] = h /\ Len(w[c]) = n
      /\ \A a \in DOMAIN v : w[a] = v[a] /\ a # c
  BY <1>2, <1>8 DEF n
<1>10. IsFiniteSet(DOMAIN w)
  BY <1>3, <1>9, FS_AddElement
<1>11. \A a \in DOMAIN w : WordOk(a, w[a])
  BY <1>3, <1>9
<1>12. ASSUME NEW a \in DOMAIN w, NEW k \in 1 .. Len(w[a])
       PROVE  \E i \in 1 .. q + n : ByteAt(f, i, a + k - 1, w[a][k])
  <2>1. CASE a \in DOMAIN v
    <3>1. k \in 1 .. Len(v[a]) /\ w[a] = v[a]
      BY <1>9, <2>1
    <3>2. PICK i \in 1 .. q : ByteAt(f, i, a + k - 1, v[a][k])
      BY <1>3, <2>1, <3>1
    <3>3. i \in 1 .. q + n
      BY <1>1
    <3>4. QED
      BY <3>1, <3>2, <3>3
  <2>2. CASE a = c
    <3>1. k \in 1 .. n
      BY <1>9, <2>2
    <3>2. q + k \in 1 .. q + n /\ ByteAt(f, q + k, a + k - 1, w[a][k])
      BY <1>1, <1>4, <1>9, <2>2, <3>1
    <3>3. QED
      BY <3>2
  <2>3. QED
    BY <1>9, <2>1, <2>2
<1>13. ASSUME NEW i \in BytesIn(f), i <= q + n
       PROVE  \E a \in DOMAIN w : \E k \in 1 .. Len(w[a]) : ByteAt(f, i, a + k - 1, w[a][k])
  <2>1. CASE i <= q
    <3>1. PICK a \in DOMAIN v : \E k \in 1 .. Len(v[a]) : ByteAt(f, i, a + k - 1, v[a][k])
      BY <1>3, <2>1
    <3>2. a \in DOMAIN w /\ w[a] = v[a]
      BY <1>9
    <3>3. QED
      BY <3>1, <3>2
  <2>2. CASE i > q
    <3>1. i \in Nat
      <4>1. f \in Seq([at : Nat] \cup [byte : Nat])
        BY FilesAssumption
      <4>2. QED
        BY <4>1 DEF BytesIn
    <3>2. i - q \in 1 .. n /\ q + (i - q) = i
      BY <1>1, <1>13, <2>2, <3>1
    <3>3. ByteAt(f, i, c + (i - q) - 1, h[i - q])
      BY <1>4, <3>2
    <3>4. c \in DOMAIN w /\ i - q \in 1 .. Len(w[c]) /\ ByteAt(f, i, c + (i - q) - 1, w[c][i - q])
      BY <1>9, <3>2, <3>3
    <3>5. QED
      BY <3>4
  <2>3. QED
    <3>1. i \in Nat
      <4>1. f \in Seq([at : Nat] \cup [byte : Nat])
        BY FilesAssumption
      <4>2. QED
        BY <4>1 DEF BytesIn
    <3>2. i <= q \/ i > q
      BY <3>1
    <3>3. QED
      BY <2>1, <2>2, <3>2, Zenon
<1>14. ASSUME NEW a \in DOMAIN w, NEW b \in DOMAIN w, NEW j \in 1 .. Len(w[a]), NEW k \in 1 .. Len(w[b]),
              a + j = b + k
       PROVE  a = b
  <2>1. CASE a \in DOMAIN v /\ b \in DOMAIN v
    BY <1>3, <1>9, <1>14, <2>1
  <2>2. CASE a \in DOMAIN v /\ b = c
    BY <1>7, <1>9, <1>14, <2>2
  <2>3. CASE a = c /\ b \in DOMAIN v
    BY <1>7, <1>9, <1>14, <2>3
  <2>4. QED
    BY <1>9, <2>1, <2>2, <2>3
<1>15. Words(f, w, q + n)
  BY <1>10, <1>11, <1>12, <1>13, <1>14 DEF Words
<1>16. QED
  BY <1>15 DEF n

(* The lines of a dump are of one of two kinds.                            *)
LEMMA TokenKinds ==
  ASSUME NEW f \in BootFiles
  PROVE  /\ Len(f) \in Nat /\ DOMAIN f = 1 .. Len(f)
         /\ \A i \in 1 .. Len(f) :
              /\ ("at" \in DOMAIN f[i]) <=> ~("byte" \in DOMAIN f[i])
              /\ "at" \in DOMAIN f[i] => f[i].at \in Nat /\ f[i].at % 4 = 0
              /\ ("byte" \in DOMAIN f[i]) <=> i \in BytesIn(f)
         /\ \A i \in BytesIn(f) : i \in 1 .. Len(f)
         /\ Len(f) # 0 => "at" \in DOMAIN f[1]
<1>1. f \in Seq([at : Nat] \cup [byte : Nat])
  BY FilesAssumption
<1>2. /\ Len(f) \in Nat /\ DOMAIN f = 1 .. Len(f)
      /\ \A i \in 1 .. Len(f) : f[i] \in [at : Nat] \/ f[i] \in [byte : Nat]
  BY <1>1
<1>3. \A r \in [at : Nat] : DOMAIN r = {"at"} /\ r.at \in Nat
  OBVIOUS
<1>4. \A r \in [byte : Nat] : DOMAIN r = {"byte"}
  OBVIOUS
<1>5. BytesIn(f) = {i \in DOMAIN f : "byte" \in DOMAIN f[i]}
  BY DEF BytesIn
<1>6. ASSUME NEW i \in 1 .. Len(f)
      PROVE  /\ ("at" \in DOMAIN f[i]) <=> ~("byte" \in DOMAIN f[i])
             /\ "at" \in DOMAIN f[i] => f[i].at \in Nat
  BY <1>2, <1>3, <1>4
<1>7. ASSUME NEW i \in 1 .. Len(f), "at" \in DOMAIN f[i]
      PROVE  f[i].at % 4 = 0
  <2>1. i \in DOMAIN f \ BytesIn(f)
    BY <1>2, <1>5, <1>6, <1>7
  <2>2. QED
    BY <2>1, FilesAssumption
<1>8. Len(f) # 0 => "at" \in DOMAIN f[1]
  <2>1. Len(f) # 0 => f # <<>>
    OBVIOUS
  <2>2. QED
    BY <2>1, FilesAssumption
<1>9. QED
  BY <1>2, <1>5, <1>6, <1>7, <1>8

(* Where the bytes after an address line are.                              *)
LEMMA SectionAt ==
  ASSUME NEW f \in BootFiles, NEW i \in 1 .. Len(f), NEW s \in 1 .. i,
         "at" \in DOMAIN f[s], \A k \in s + 1 .. i : "byte" \in DOMAIN f[k]
  PROVE  AddrOf(f, i) = f[s].at + i - s - 1
<1> DEFINE Here(j) == "at" \in DOMAIN f[j] /\ \A k \in j + 1 .. i : "byte" \in DOMAIN f[k]
<1>1. Len(f) \in Nat /\ \A k \in 1 .. Len(f) : ("at" \in DOMAIN f[k]) => ~("byte" \in DOMAIN f[k])
  BY TokenKinds
<1>2. Here(s)
  OBVIOUS
<1>3. ASSUME NEW j \in 1 .. i, Here(j)
      PROVE  j = s
  <2>1. CASE j < s
    <3>1. s \in j + 1 .. i /\ s \in 1 .. Len(f)
      BY <1>1, <2>1
    <3>2. QED
      BY <1>1, <1>3, <3>1
  <2>2. CASE s < j
    <3>1. j \in s + 1 .. i /\ j \in 1 .. Len(f)
      BY <1>1, <2>2
    <3>2. QED
      BY <1>1, <1>3, <3>1
  <2>3. QED
    BY <2>1, <2>2
<1>4. SectionOf(f, i) = CHOOSE j \in 1 .. i : Here(j)
  BY DEF SectionOf
<1> HIDE DEF Here
<1>5. SectionOf(f, i) = s
  BY <1>2, <1>3, <1>4
<1>6. QED
  BY <1>5 DEF AddrOf

----------------------------------------------------------------------------
(* The file as it is read: all but the last bytes are in words, these are  *)
(* in the word under assembly.                                             *)
Stored == bootPos - Len(bootHex)

(* The next byte belongs behind those of the word under assembly.          *)
InSection(f, s, p, x) ==
  /\ "at" \in DOMAIN f[s] /\ \A k \in s + 1 .. p : "byte" \in DOMAIN f[k]
  /\ f[s].at + p - s = x

Reading ==
  /\ bootPos \in 0 .. Len(bootFile) /\ Stored \in Nat
  /\ Words(bootFile, bootVals, Stored)
  /\ Assembled(bootFile, bootCurr, bootHex, Stored)
  /\ bootPos = 0 => bootHex = <<>>
  /\ bootPos # 0 => /\ bootCurr \in Nat /\ bootCurr % 4 = 0
                    /\ bootStep = BytesOf(GetOpcode(bootCurr)) /\ Len(bootHex) < bootStep
                    /\ \E s \in 1 .. bootPos :
                         InSection(bootFile, s, bootPos, bootCurr + Len(bootHex))

ReadInv ==
  /\ bootFile \in BootFiles
  /\ bootPc \in {"read", "dump", "send", "done"}
  /\ bootPc = "read" => Reading
  /\ bootPc # "read" => Words(bootFile, bootVals, Len(bootFile))

(* A word has four bytes, or eight.                                        *)
LEMMA WordSizes == \A a : BytesOf(GetOpcode(a)) \in {4, 8}
  BY DEF BytesOf

(* The next word is aligned too.                                           *)
LEMMA Steps == \A a \in Nat, n \in {4, 8} : a % 4 = 0 => (a + n) % 4 = 0
  OBVIOUS

(* The word under assembly, stored as it is.                               *)
LEMMA FlushedOk ==
  ASSUME ReadInv, bootPc = "read"
  PROVE  Words(bootFile, Flushed, bootPos)
<1>1. Reading /\ bootFile \in BootFiles
  BY DEF ReadInv
<1>2. /\ IsSeq(bootHex) /\ Stored \in Nat /\ Words(bootFile, bootVals, Stored)
      /\ Assembled(bootFile, bootCurr, bootHex, Stored)
  BY <1>1 DEF Reading, Assembled
<1>3. Len(bootHex) \in Nat /\ bootPos \in Nat
  BY <1>1, <1>2, Elements, TokenKinds DEF Reading
<1>4. CASE bootHex = <<>>
  <2>1. Stored = bootPos
    BY <1>3, <1>4, NoElement DEF Stored
  <2>2. Flushed = bootVals
    BY <1>4 DEF Flushed
  <2>3. QED
    BY <1>2, <2>1, <2>2
<1>5. CASE bootHex # <<>>
  <2>1. Len(bootHex) # 0
    BY <1>2, <1>5, HeadTaken
  <2>2. bootPos # 0
    BY <1>1, <1>5 DEF Reading
  <2>3. bootCurr \in Nat /\ bootCurr % 4 = 0 /\ Len(bootHex) < BytesOf(GetOpcode(bootCurr))
    BY <1>1, <2>2 DEF Reading
  <2>4. WordOk(bootCurr, bootHex)
    <3>1. BytesOf(GetOpcode(bootCurr)) \in Nat
      BY WordSizes
    <3>2. Len(bootHex) \in 1 .. BytesOf(GetOpcode(bootCurr))
      BY <1>3, <2>1, <2>3, <3>1
    <3>3. QED
      BY <1>2, <2>3, <3>2 DEF WordOk
  <2>5. Flushed = [a \in DOMAIN bootVals \cup {bootCurr} |-> IF a = bootCurr THEN bootHex ELSE bootVals[a]]
    BY <1>5 DEF Flushed, WithWord
  <2>6. Words(bootFile, Flushed, Stored + Len(bootHex))
    BY <1>1, <1>2, <2>4, <2>5, WordAdded
  <2>7. Stored + Len(bootHex) = bootPos
    BY <1>3 DEF Stored
  <2>8. QED
    BY <2>6, <2>7
<1>6. QED
  BY <1>4, <1>5

(* Nothing is read yet.                                                    *)
LEMMA ReadInitInv == BootInit => ReadInv
<1> SUFFICES ASSUME BootInit  PROVE ReadInv
  OBVIOUS
<1>1. /\ bootPc = "read" /\ bootFile \in BootFiles /\ bootPos = 0 /\ bootHex = <<>> /\ bootVals = <<>>
  BY DEF BootInit, BootState
<1>2. Len(bootFile) \in Nat /\ \A i \in BytesIn(bootFile) : i \in 1 .. Len(bootFile)
  BY <1>1, TokenKinds
<1>3. Stored = 0
  <2>1. Len(bootHex) = 0
    BY <1>1, NoElement
  <2>2. bootPos = 0
    BY <1>1
  <2>3. QED
    BY <2>1, <2>2 DEF Stored
<1>4. DOMAIN bootVals = {}
  BY <1>1
<1>5. \A i \in BytesIn(bootFile) : ~(i <= 0)
  BY <1>2
<1>6. Words(bootFile, bootVals, Stored)
  BY <1>3, <1>4, <1>5, FS_EmptySet DEF Words
<1>7. Assembled(bootFile, bootCurr, bootHex, Stored)
  BY <1>1, NoElement DEF Assembled
<1>8. QED
  BY <1>1, <1>2, <1>3, <1>6, <1>7 DEF ReadInv, Reading

(* No byte is under assembly after a word is stored.                       *)
LEMMA NothingAssembled == \A f, c, q : Assembled(f, c, <<>>, q)
<1>1. \A k : ~(k \in 1 .. Len(<<>>))
  BY NoElement
<1>2. QED
  BY <1>1, NoElement DEF Assembled

(* An address line ends the word before it.                                *)
LEMMA ReadAtOk == ReadInv /\ ReadAt => ReadInv'
<1> SUFFICES ASSUME ReadInv, ReadAt  PROVE ReadInv'
  OBVIOUS
<1>1. /\ bootPc = "read" /\ bootPc' = "read" /\ bootFile' = bootFile /\ bootPos < Len(bootFile)
      /\ "at" \in DOMAIN bootFile[bootPos + 1]
      /\ bootVals' = Flushed /\ bootHex' = <<>> /\ bootCurr' = bootFile[bootPos + 1].at
      /\ bootStep' = BytesOf(GetOpcode(bootCurr')) /\ bootPos' = bootPos + 1
  BY DEF ReadAt, More, Token, bootIn
<1>2. bootFile \in BootFiles /\ Reading
  BY <1>1 DEF ReadInv
<1>3. /\ Len(bootFile) \in Nat
      /\ \A i \in 1 .. Len(bootFile) :
           /\ ("at" \in DOMAIN bootFile[i]) <=> ~("byte" \in DOMAIN bootFile[i])
           /\ "at" \in DOMAIN bootFile[i] => bootFile[i].at \in Nat /\ bootFile[i].at % 4 = 0
           /\ ("byte" \in DOMAIN bootFile[i]) <=> i \in BytesIn(bootFile)
      /\ \A i \in BytesIn(bootFile) : i \in 1 .. Len(bootFile)
  BY <1>2, TokenKinds
<1>4. bootPos \in Nat /\ bootPos + 1 \in 1 .. Len(bootFile)
  BY <1>1, <1>2, <1>3 DEF Reading
<1>5. bootCurr' \in Nat /\ bootCurr' % 4 = 0
  BY <1>1, <1>3, <1>4
<1>6. Stored' = bootPos + 1
  BY <1>1, <1>4, NoElement DEF Stored
<1>7. Words(bootFile, bootVals', bootPos + 1)
  <2>1. Words(bootFile, bootVals', bootPos)
    BY <1>1, FlushedOk
  <2>2. bootPos + 1 \notin BytesIn(bootFile)
    BY <1>1, <1>3, <1>4
  <2>3. \A i \in BytesIn(bootFile) : i <= bootPos + 1 => i <= bootPos
    BY <1>3, <1>4, <2>2
  <2>4. \A i \in 1 .. bootPos : i \in 1 .. bootPos + 1
    BY <1>4
  <2>5. QED
    BY <2>1, <2>3, <2>4 DEF Words
<1>8. InSection(bootFile, bootPos + 1, bootPos + 1, bootCurr' + Len(bootHex'))
  <2>1. \A k : ~(k \in (bootPos + 1) + 1 .. bootPos + 1)
    BY <1>4
  <2>2. Len(bootHex') = 0
    BY <1>1, NoElement
  <2>3. bootFile[bootPos + 1].at + (bootPos + 1) - (bootPos + 1) = bootCurr' + Len(bootHex')
    BY <1>1, <1>4, <1>5, <2>2
  <2>4. QED
    BY <1>1, <2>1, <2>3 DEF InSection
<1>9. Reading'
  <2>1. bootPos' \in 0 .. Len(bootFile') /\ Stored' \in Nat /\ bootPos' # 0 /\ bootPos + 1 \in 1 .. bootPos'
    BY <1>1, <1>3, <1>4, <1>6
  <2>2. Assembled(bootFile, bootCurr, bootHex, Stored)'
    BY <1>1, NothingAssembled
  <2>3. Len(bootHex') < bootStep'
    BY <1>1, <1>5, NoElement, WordSizes
  <2>4. Words(bootFile', bootVals', Stored')
    BY <1>1, <1>6, <1>7
  <2>5. \E s \in 1 .. bootPos' : InSection(bootFile', s, bootPos', bootCurr' + Len(bootHex'))
    BY <1>1, <1>8, <2>1
  <2>6. QED
    BY <1>1, <1>5, <2>1, <2>2, <2>3, <2>4, <2>5 DEF Reading
<1>10. QED
  BY <1>1, <1>2, <1>9 DEF ReadInv

(* A byte joins the word under assembly, and may complete it.              *)
LEMMA ReadByteOk == ReadInv /\ ReadByte => ReadInv'
<1> SUFFICES ASSUME ReadInv, ReadByte  PROVE ReadInv'
  OBVIOUS
<1> DEFINE f == bootFile  p == bootPos  c == bootCurr  b == bootFile[bootPos + 1].byte
           hex == Append(bootHex, b)  n == Len(bootHex)
<1>1. /\ bootPc = "read" /\ bootPc' = "read" /\ bootFile' = f /\ p < Len(f)
      /\ "byte" \in DOMAIN f[p + 1] /\ bootPos' = p + 1
      /\ IF Len(hex) = bootStep
         THEN /\ bootVals' = WithWord(hex) /\ bootCurr' = c + bootStep
              /\ bootStep' = BytesOf(GetOpcode(c + bootStep)) /\ bootHex' = <<>>
         ELSE bootHex' = hex /\ UNCHANGED <<bootVals, bootCurr, bootStep>>
  BY DEF ReadByte, More, Token, bootIn
<1>2. f \in BootFiles /\ Reading
  BY <1>1 DEF ReadInv
<1>3. /\ Len(f) \in Nat
      /\ \A i \in 1 .. Len(f) :
           /\ ("at" \in DOMAIN f[i]) <=> ~("byte" \in DOMAIN f[i])
           /\ ("byte" \in DOMAIN f[i]) <=> i \in BytesIn(f)
      /\ Len(f) # 0 => "at" \in DOMAIN f[1]
  BY <1>2, TokenKinds
<1>4. p \in Nat /\ p + 1 \in 1 .. Len(f) /\ p # 0
  <2>1. p \in Nat /\ p + 1 \in 1 .. Len(f)
    BY <1>1, <1>2, <1>3 DEF Reading
  <2>2. p # 0
    BY <1>1, <1>3, <2>1
  <2>3. QED
    BY <2>1, <2>2
<1>5. /\ Stored \in Nat /\ Words(f, bootVals, Stored) /\ Assembled(f, c, bootHex, Stored)
      /\ c \in Nat /\ c % 4 = 0 /\ bootStep = BytesOf(GetOpcode(c)) /\ n < bootStep
  BY <1>2, <1>4 DEF Reading
<1>6. PICK s \in 1 .. p : InSection(f, s, p, c + n)
  BY <1>2, <1>4 DEF Reading
<1>7. /\ IsSeq(hex) /\ n \in Nat /\ Len(hex) = n + 1
      /\ (\A i \in 1 .. n : hex[i] = bootHex[i]) /\ hex[n + 1] = b
  BY <1>5, AppendedTo DEF Assembled
<1>8. Stored + n = p /\ Stored + (n + 1) = p + 1
  BY <1>4, <1>7 DEF Stored
<1>9. "at" \in DOMAIN f[s] /\ (\A k \in s + 1 .. p + 1 : "byte" \in DOMAIN f[k]) /\ f[s].at + p - s = c + n
  <2>1. "at" \in DOMAIN f[s] /\ (\A k \in s + 1 .. p : "byte" \in DOMAIN f[k]) /\ f[s].at + p - s = c + n
    BY <1>6 DEF InSection
  <2>2. \A k \in s + 1 .. p + 1 : k \in s + 1 .. p \/ k = p + 1
    BY <1>4
  <2>3. QED
    BY <1>1, <2>1, <2>2
<1>10. f[s].at \in Nat
  BY <1>2, <1>3, <1>4, <1>9, TokenKinds
<1>11. ByteAt(f, p + 1, c + n, b)
  <2>1. s \in 1 .. p + 1
    BY <1>4
  <2>2. AddrOf(f, p + 1) = f[s].at + (p + 1) - s - 1
    BY <1>2, <1>4, <1>9, <2>1, SectionAt
  <2>3. f[s].at + (p + 1) - s - 1 = c + n
    BY <1>4, <1>5, <1>7, <1>9, <1>10
  <2>4. p + 1 \in BytesIn(f)
    BY <1>1, <1>3, <1>4
  <2>5. QED
    BY <2>2, <2>3, <2>4 DEF ByteAt
<1>12. Assembled(f, c, hex, Stored)
  <2>1. \A k \in 1 .. n : ByteAt(f, Stored + k, c + k - 1, bootHex[k])
    BY <1>5 DEF Assembled
  <2>2. ByteAt(f, Stored + (n + 1), c + (n + 1) - 1, hex[n + 1])
    <3>1. c + (n + 1) - 1 = c + n
      BY <1>5, <1>7
    <3>2. QED
      BY <1>7, <1>8, <1>11, <3>1
  <2> HIDE DEF hex, n, f, p, c, b
  <2>3. ASSUME NEW k \in 1 .. n + 1
        PROVE  ByteAt(f, Stored + k, c + k - 1, hex[k])
    <3>1. CASE k \in 1 .. n
      BY <1>7, <2>1, <3>1
    <3>2. CASE k = n + 1
      BY <2>2, <3>2
    <3>3. QED
      BY <1>7, <3>1, <3>2
  <2>4. QED
    BY <1>7, <2>3 DEF Assembled
<1>13. InSection(f, s, p + 1, c + n + 1)
  <2>1. f[s].at + (p + 1) - s = c + n + 1
    <3>1. s \in Nat /\ f[s].at + p - s = c + n
      BY <1>4, <1>9
    <3>2. p \in Nat /\ c \in Nat /\ n \in Nat
      BY <1>4, <1>5, <1>7
    <3> HIDE DEF f, p, c, n
    <3>3. \A at \in Nat : at + p - s = c + n => at + (p + 1) - s = c + n + 1
      BY <3>1, <3>2
    <3>4. QED
      BY <1>10, <3>1, <3>3
  <2>2. QED
    BY <1>9, <2>1 DEF InSection
<1>14. s \in 1 .. p + 1 /\ p + 1 # 0 /\ p + 1 \in 0 .. Len(f)
  BY <1>3, <1>4
<1> HIDE DEF hex, n, f, p, c, b
<1>15. CASE Len(hex) = bootStep
  <2>1. /\ bootVals' = WithWord(hex) /\ bootCurr' = c + bootStep
        /\ bootStep' = BytesOf(GetOpcode(c + bootStep)) /\ bootHex' = <<>>
    BY <1>1, <1>15
  <2>2. WordOk(c, hex)
    <3>1. Len(hex) \in 1 .. BytesOf(GetOpcode(c))
      BY <1>5, <1>7, <1>15
    <3>2. QED
      BY <1>5, <1>7, <3>1 DEF WordOk
  <2>3. bootVals' = [a \in DOMAIN bootVals \cup {c} |-> IF a = c THEN hex ELSE bootVals[a]]
    BY <2>1 DEF WithWord, c
  <2>4. Words(f, bootVals', Stored + Len(hex))
    BY <1>2, <1>5, <1>12, <2>2, <2>3, WordAdded DEF f
  <2>5. Len(bootHex') = 0 /\ bootPos' = p + 1
    BY <1>1, <2>1, NoElement
  <2>6. Stored' = p + 1
    BY <1>4, <2>5 DEF Stored
  <2>7. Words(f, bootVals', Stored')
    BY <1>7, <1>8, <2>4, <2>6
  <2>8. bootCurr' \in Nat /\ bootCurr' % 4 = 0 /\ bootStep' = BytesOf(GetOpcode(bootCurr'))
    <3>1. bootStep \in {4, 8}
      BY <1>5, WordSizes
    <3>2. QED
      BY <1>5, <2>1, <3>1, Steps
  <2>9. Len(bootHex') < bootStep'
    BY <2>5, <2>8, WordSizes
  <2>10. bootCurr' + Len(bootHex') = c + n + 1
    BY <1>5, <1>7, <1>15, <2>1, <2>5
  <2>11. Assembled(f, bootCurr', bootHex', Stored')
    BY <2>1, NothingAssembled
  <2>12. /\ bootFile' = f /\ bootPos' \in 0 .. Len(f) /\ Stored' \in Nat /\ bootPos' # 0
         /\ \E t \in 1 .. bootPos' : InSection(f, t, bootPos', bootCurr' + Len(bootHex'))
    BY <1>1, <1>4, <1>13, <1>14, <2>5, <2>6, <2>10
  <2>13. Reading'
    BY <2>7, <2>8, <2>9, <2>11, <2>12 DEF Reading
  <2>14. QED
    BY <1>1, <1>2, <2>13 DEF ReadInv, f
<1>16. CASE Len(hex) # bootStep
  <2>1. bootHex' = hex /\ bootVals' = bootVals /\ bootCurr' = c /\ bootStep' = bootStep
    BY <1>1, <1>16 DEF c
  <2>2. Len(bootHex') = n + 1 /\ bootPos' = p + 1
    BY <1>1, <1>7, <2>1
  <2>3. Stored' = Stored
    BY <1>4, <1>5, <1>7, <1>8, <2>2 DEF Stored
  <2>4. Len(bootHex') < bootStep'
    <3>1. bootStep \in {4, 8}
      BY <1>5, WordSizes
    <3>2. QED
      BY <1>5, <1>7, <1>16, <2>1, <2>2, <3>1
  <2>5. bootCurr' + Len(bootHex') = c + n + 1
    BY <1>5, <1>7, <2>1, <2>2
  <2>6. Assembled(f, bootCurr', bootHex', Stored')
    BY <1>12, <2>1, <2>3
  <2>7. Words(f, bootVals', Stored')
    BY <1>5, <2>1, <2>3
  <2>8. /\ bootFile' = f /\ bootPos' \in 0 .. Len(f) /\ Stored' \in Nat /\ bootPos' # 0
        /\ \E t \in 1 .. bootPos' : InSection(f, t, bootPos', bootCurr' + Len(bootHex'))
    BY <1>1, <1>4, <1>5, <1>13, <1>14, <2>2, <2>3, <2>5
  <2>9. bootCurr' \in Nat /\ bootCurr' % 4 = 0 /\ bootStep' = BytesOf(GetOpcode(bootCurr'))
    BY <1>5, <2>1
  <2>10. Reading'
    BY <2>4, <2>6, <2>7, <2>8, <2>9 DEF Reading
  <2>11. QED
    BY <1>1, <1>2, <2>10 DEF ReadInv, f
<1>17. QED
  BY <1>15, <1>16

(* The end of the file ends the last word.                                 *)
LEMMA ReadEndOk == ReadInv /\ ReadEnd => ReadInv'
<1> SUFFICES ASSUME ReadInv, ReadEnd  PROVE ReadInv'
  OBVIOUS
<1>1. /\ bootPc = "read" /\ bootPc' = "dump" /\ bootFile' = bootFile /\ ~(bootPos < Len(bootFile))
      /\ bootVals' = Flushed
  BY DEF ReadEnd, More, bootIn
<1>2. bootFile \in BootFiles /\ Reading
  BY <1>1 DEF ReadInv
<1>3. bootPos = Len(bootFile)
  BY <1>1, <1>2, TokenKinds DEF Reading
<1>4. Words(bootFile', bootVals', Len(bootFile'))
  BY <1>1, <1>3, FlushedOk
<1>5. QED
  BY <1>1, <1>2, <1>4 DEF ReadInv

----------------------------------------------------------------------------
(* The order of the lines: the cores are prepared, memory is written word  *)
(* by word, the cores are released, the file ends.                         *)
LastLine == Line(1, <<"none", 0>>, 255, 0)
KeptList    == Ascending(Kept)

NbfIn(s, c, n, m) ==
  /\ IsSeq(s) /\ Len(s) = c + n + m + 1
  /\ \A i \in 1 .. c : SetsUp(s[i])
  /\ bootConfig => \A t \in BootCores, r \in ConfigRegs : \E i \in 1 .. c : s[i].dst = t /\ s[i].addr = r
  /\ \A i \in 1 .. n : s[c + i] = DramLine(KeptList[i])
  /\ \A i \in 1 .. m : /\ s[c + n + i].dst \in BootCores /\ s[c + n + i].addr = Freeze
                       /\ s[c + n + i].op = 3
  /\ s[c + n + m + 1] = LastLine

(* The words of the dump, in the order of their addresses.                 *)
LEMMA KeptIs ==
  ASSUME Words(bootFile, bootVals, Len(bootFile))
  PROVE  /\ Kept \subseteq DOMAIN bootVals /\ Kept \subseteq Nat /\ IsFiniteSet(Kept)
         /\ Cardinality(Kept) \in Nat /\ DOMAIN KeptList = 1 .. Cardinality(Kept)
         /\ \A i \in 1 .. Cardinality(Kept) : KeptList[i] \in Kept
         /\ \A a \in Kept : \E i \in 1 .. Cardinality(Kept) : KeptList[i] = a
         /\ \A i, j \in 1 .. Cardinality(Kept) : i < j => KeptList[i] < KeptList[j]
<1>1. IsFiniteSet(DOMAIN bootVals) /\ \A a \in DOMAIN bootVals : a \in Nat
  BY DEF Words, WordOk
<1>2. Kept \subseteq DOMAIN bootVals
  BY DEF Kept
<1>3. Kept \subseteq Nat /\ IsFiniteSet(Kept)
  BY <1>1, <1>2, FS_Subset
<1>4. QED
  BY <1>2, <1>3, AscendingIs DEF KeptList

(* The image is made of these parts.                                       *)
LEMMA NbfIs ==
  ASSUME Words(bootFile, bootVals, Len(bootFile))
  PROVE  \E c, m \in Nat : NbfIn(NbfLines, c, Cardinality(Kept), m)
<1> DEFINE n == Cardinality(Kept)  F == First  D == DramLines
           R == AllCores(<<"freeze", 0>>, 0)  L == <<LastLine>>
           c == Len(F)  m == Len(R)  N == NbfLines
<1>1. N = ((F \o D) \o R) \o L
  BY DEF NbfLines, First, LastLine
<1>2. IsSeq(F) /\ c \in Nat /\ \A i \in 1 .. c : SetsUp(F[i])
  BY FirstIs, Elements
<1>3. bootConfig => \A t \in BootCores, r \in ConfigRegs : \E i \in 1 .. c : F[i].dst = t /\ F[i].addr = r
  <2>1. SUFFICES ASSUME bootConfig, NEW t \in BootCores, NEW r \in ConfigRegs
                 PROVE  \E i \in 1 .. c : F[i].dst = t /\ F[i].addr = r
    OBVIOUS
  <2>2. PICK e \in ToSet(First) : e.dst = t /\ e.addr = r
    BY <2>1, FirstIs
  <2>3. PICK i \in 1 .. Len(First) : First[i] = e
    BY FirstIs, Elements
  <2>4. QED
    BY <2>2, <2>3
<1>4. n \in Nat /\ DOMAIN KeptList = 1 .. n
  BY KeptIs
<1>5. D = [i \in 1 .. n |-> DramLine(KeptList[i])]
  BY <1>4 DEF DramLines, KeptList
<1>6. IsSeq(D) /\ Len(D) = n /\ \A i \in 1 .. n : D[i] = DramLine(KeptList[i])
  <2> HIDE DEF n, D
  <2>1. D \in Seq({DramLine(KeptList[i]) : i \in 1 .. n}) /\ Len(D) = n
    BY <1>4, <1>5
  <2>2. \A i \in 1 .. n : D[i] = DramLine(KeptList[i])
    BY <1>5
  <2>3. QED
    BY <2>1, <2>2 DEF IsSeq
<1>7. /\ IsSeq(R) /\ m \in Nat
      /\ \A i \in 1 .. m : R[i].dst \in BootCores /\ R[i].addr = Freeze /\ R[i].op = 3
  <2>1. IsSeq(R) /\ ToSet(R) = {Line(t, <<"freeze", 0>>, 3, 0) : t \in BootCores}
    BY AllCoresAre
  <2>2. \A e \in ToSet(R) : e.dst \in BootCores /\ e.addr = Freeze /\ e.op = 3
    BY <2>1, LineIs DEF Freeze
  <2>3. QED
    BY <2>1, <2>2, Elements
<1>8. IsSeq(L) /\ Len(L) = 1 /\ L[1] = LastLine
  BY OneElement
<1> HIDE DEF n, F, D, R, L, c, m, N
<1>9. /\ IsSeq(F \o D) /\ Len(F \o D) = c + n
      /\ \A i \in 1 .. c : (F \o D)[i] = F[i]
      /\ \A i \in 1 .. n : (F \o D)[c + i] = D[i]
  BY <1>2, <1>6, Joined DEF c
<1>10. /\ IsSeq((F \o D) \o R) /\ Len((F \o D) \o R) = c + n + m
       /\ \A i \in 1 .. c + n : ((F \o D) \o R)[i] = (F \o D)[i]
       /\ \A i \in 1 .. m : ((F \o D) \o R)[c + n + i] = R[i]
  BY <1>7, <1>9, Joined DEF m
<1>11. /\ IsSeq(N) /\ Len(N) = c + n + m + 1
       /\ \A i \in 1 .. c + n + m : N[i] = ((F \o D) \o R)[i]
       /\ N[c + n + m + 1] = LastLine
  <2> DEFINE G == (F \o D) \o R  q == Len(G)
  <2>1. N = G \o L /\ IsSeq(G) /\ q = c + n + m
    BY <1>1, <1>10
  <2> HIDE DEF G
  <2>2. /\ IsSeq(N) /\ Len(N) = q + Len(L)
        /\ \A i \in 1 .. q : N[i] = G[i]
        /\ \A i \in 1 .. Len(L) : N[q + i] = L[i]
    <3>1. /\ IsSeq(G \o L) /\ Len(G \o L) = Len(G) + Len(L)
          /\ \A i \in 1 .. Len(G) : (G \o L)[i] = G[i]
          /\ \A i \in 1 .. Len(L) : (G \o L)[Len(G) + i] = L[i]
      <4>1. IsSeq(G) /\ IsSeq(L)
        BY <1>8, <2>1
      <4>2. QED
        BY <4>1, Joined
    <3>2. QED
      BY <2>1, <3>1
  <2> HIDE DEF q
  <2>3. Len(N) = q + 1 /\ N[q + 1] = L[1]
    BY <1>8, <2>2
  <2>4. QED
    BY <1>8, <2>1, <2>2, <2>3 DEF G
<1>12. \A i \in 1 .. c : N[i] = F[i]
  <2>1. n \in Nat
    BY <1>4 DEF n
  <2>2. \A i \in 1 .. c : i \in 1 .. c + n /\ i \in 1 .. c + n + m
    BY <1>2, <1>7, <2>1
  <2>3. QED
    BY <1>9, <1>10, <1>11, <2>2
<1>13. ASSUME NEW i \in 1 .. n  PROVE N[c + i] = DramLine(KeptList[i])
  <2>1. n \in Nat
    BY <1>4 DEF n
  <2>2. c + i \in 1 .. c + n /\ c + i \in 1 .. c + n + m
    BY <1>2, <1>7, <2>1
  <2>3. QED
    BY <1>6, <1>9, <1>10, <1>11, <2>2
<1>14. ASSUME NEW i \in 1 .. m  PROVE N[c + n + i] = R[i]
  <2>1. n \in Nat
    BY <1>4 DEF n
  <2>2. c + n + i \in 1 .. c + n + m
    BY <1>2, <1>7, <2>1
  <2>3. QED
    BY <1>10, <1>11, <2>2
<1>15. NbfIn(N, c, n, m)
  BY <1>2, <1>3, <1>7, <1>11, <1>12, <1>13, <1>14 DEF NbfIn
<1>16. QED
  BY <1>2, <1>7, <1>15 DEF N, n

----------------------------------------------------------------------------
(* Memory as the words of a dump say.                                      *)
Holds(v, a, x) == a <= x /\ x < a + Len(v[a])
IsFinal(v, x, b) ==
  /\ \A a \in DOMAIN v : Holds(v, a, x) => b = v[a][x - a + 1]
  /\ (\A a \in DOMAIN v : ~Holds(v, a, x)) => b = 0

Covers(line, x) == line.dst = Dram /\ x \in line.addr .. line.addr + BytesOf(line.op) - 1
ByteOf(line, x) == IF x - line.addr < Len(line.data) THEN line.data[x - line.addr + 1] ELSE 0
Wrong(v, line, x) == Covers(line, x) /\ ~IsFinal(v, x, ByteOf(line, x))

(* Lines that leave a byte right, and lines that make it right.            *)
Harmless(v, s, x) == \A i \in 1 .. Len(s) : ~Wrong(v, s[i], x)
Puts(v, s, x) == \E i \in 1 .. Len(s) : Covers(s[i], x) /\ \A j \in i .. Len(s) : ~Wrong(v, s[j], x)

(* A line to memory that covers a byte it does not hold writes a zero to   *)
(* it; only the line of a lower word does so to a byte of another.         *)
LEMMA LinesRight ==
  ASSUME Words(bootFile, bootVals, Len(bootFile)), NEW x \in Nat,
         NEW c \in Nat, NEW m \in Nat, NEW s, NbfIn(s, c, Cardinality(Kept), m)
  PROVE  \/ IsFinal(bootVals, x, 0) /\ Harmless(bootVals, s, x)
         \/ Puts(bootVals, s, x)
<1> DEFINE v == bootVals  n == Cardinality(Kept)
<1>1. /\ \A a \in DOMAIN v : a \in Nat /\ a % 4 = 0 /\ Len(v[a]) \in 1 .. BytesOf(GetOpcode(a)) /\ IsSeq(v[a])
      /\ \A a, b \in DOMAIN v : \A j \in 1 .. Len(v[a]) : \A k \in 1 .. Len(v[b]) : a + j = b + k => a = b
  BY DEF Words, WordOk
<1>2. /\ Kept \subseteq DOMAIN v /\ n \in Nat
      /\ \A i \in 1 .. n : KeptList[i] \in Kept
      /\ \A a \in Kept : \E i \in 1 .. n : KeptList[i] = a
      /\ \A i, j \in 1 .. n : i < j => KeptList[i] < KeptList[j]
  BY KeptIs
<1>3. \A a \in DOMAIN v : Len(v[a]) \in Nat \ {0}
  BY <1>1, WordSizes
<1>4. \A a, b \in DOMAIN v : Holds(v, a, x) /\ Holds(v, b, x) => a = b
  <2>1. SUFFICES ASSUME NEW a \in DOMAIN v, NEW b \in DOMAIN v, Holds(v, a, x), Holds(v, b, x)
                 PROVE  a = b
    OBVIOUS
  <2>2. x - a + 1 \in 1 .. Len(v[a]) /\ x - b + 1 \in 1 .. Len(v[b])
    BY <1>1, <1>3, <2>1 DEF Holds
  <2>3. a + (x - a + 1) = b + (x - b + 1)
    BY <1>1
  <2>4. QED
    BY <1>1, <2>2, <2>3
<1>5. \A a : /\ DramLine(a).dst = Dram /\ DramLine(a).addr = a /\ DramLine(a).op = GetOpcode(a)
             /\ DramLine(a).data = v[a]
  BY LineIs DEF DramLine
<1>6. ASSUME NEW a \in DOMAIN v, Covers(DramLine(a), x), ~Holds(v, a, x)
      PROVE  ByteOf(DramLine(a), x) = 0
  <2>1. x \in a .. a + BytesOf(GetOpcode(a)) - 1
    BY <1>5, <1>6 DEF Covers
  <2>2. ~(x - a < Len(v[a]))
    BY <1>1, <1>3, <1>6, <2>1 DEF Holds
  <2>3. QED
    BY <1>5, <2>2 DEF ByteOf
<1>7. ASSUME NEW a \in DOMAIN v, Holds(v, a, x)
      PROVE  Covers(DramLine(a), x) /\ ~Wrong(v, DramLine(a), x)
  <2>1. BytesOf(GetOpcode(a)) \in {4, 8}
    BY WordSizes
  <2>2. x \in a .. a + BytesOf(GetOpcode(a)) - 1 /\ x - a < Len(v[a])
    BY <1>1, <1>3, <1>7, <2>1 DEF Holds
  <2>3. Covers(DramLine(a), x)
    BY <1>5, <2>2 DEF Covers
  <2>4. ByteOf(DramLine(a), x) = v[a][x - a + 1]
    BY <1>5, <2>2 DEF ByteOf
  <2>5. IsFinal(v, x, v[a][x - a + 1])
    BY <1>4, <1>7 DEF IsFinal
  <2>6. QED
    BY <2>3, <2>4, <2>5 DEF Wrong
<1>8. /\ IsSeq(s) /\ Len(s) = c + n + m + 1 /\ \A i \in 1 .. n : s[c + i] = DramLine(KeptList[i])
      /\ \A i \in 1 .. Len(s) : i \notin c + 1 .. c + n => ~Covers(s[i], x)
  <2>1. \A t \in BootCores : t # Dram
    BY CoresAre DEF Dram
  <2>2. /\ IsSeq(s) /\ Len(s) = c + n + m + 1 /\ \A i \in 1 .. n : s[c + i] = DramLine(KeptList[i])
        /\ \A i \in 1 .. c : s[i].dst \in BootCores
        /\ \A i \in 1 .. m : s[c + n + i].dst \in BootCores
        /\ s[c + n + m + 1] = LastLine
    BY DEF NbfIn, SetsUp
  <2>3. LastLine.dst \in BootCores
    BY LineIs, BootAssumption DEF LastLine
  <2> HIDE DEF n
  <2>4. ASSUME NEW i \in 1 .. Len(s), i \notin c + 1 .. c + n
        PROVE  s[i].dst \in BootCores
    <3>1. CASE i \in 1 .. c
      BY <2>2, <3>1
    <3>2. CASE i \in c + n + 1 .. c + n + m
      <4>1. i - (c + n) \in 1 .. m /\ c + n + (i - (c + n)) = i
        BY <1>2, <3>2 DEF n
      <4>2. QED
        BY <2>2, <4>1
    <3>3. CASE i = c + n + m + 1
      BY <2>2, <2>3, <3>3
    <3>4. n \in Nat
      BY <1>2 DEF n
    <3>5. i \in 1 .. c \/ i \in c + n + 1 .. c + n + m \/ i = c + n + m + 1
      BY <2>2, <2>4, <3>4
    <3>6. QED
      BY <3>1, <3>2, <3>3, <3>5
  <2>5. QED
    BY <2>1, <2>2, <2>4 DEF Covers
<1> HIDE DEF n, v
<1>9. ASSUME NEW i \in 1 .. Len(s), Covers(s[i], x)
      PROVE  \E k \in 1 .. n : i = c + k /\ s[i] = DramLine(KeptList[k]) /\ KeptList[k] \in Kept
  <2>1. n \in Nat
    BY <1>2 DEF n
  <2>2. i \in c + 1 .. c + n
    BY <1>8, <1>9
  <2>3. i - c \in 1 .. n /\ c + (i - c) = i
    BY <2>1, <2>2
  <2>4. QED
    BY <1>2, <1>8, <2>3
<1>10. CASE \A a \in Kept : ~Holds(v, a, x)
  <2>1. IsFinal(v, x, 0)
    <3>1. ASSUME NEW a \in DOMAIN v, Holds(v, a, x)
          PROVE  v[a][x - a + 1] = 0
      <4>1. a \notin Kept
        BY <1>10, <3>1
      <4>2. ToSet(v[a]) = {0}
        BY <4>1 DEF Kept, v
      <4>3. x - a + 1 \in 1 .. Len(v[a])
        BY <1>1, <1>3, <3>1 DEF Holds
      <4>4. IsSeq(v[a])
        BY <1>1
      <4>5. v[a][x - a + 1] \in ToSet(v[a])
        BY <4>3, <4>4, Elements
      <4>6. QED
        BY <4>2, <4>5
    <3>2. QED
      BY <3>1 DEF IsFinal
  <2>2. ASSUME NEW i \in 1 .. Len(s)
        PROVE  ~Wrong(v, s[i], x)
    <3>1. SUFFICES ASSUME Covers(s[i], x)  PROVE IsFinal(v, x, ByteOf(s[i], x))
      BY DEF Wrong
    <3>2. PICK k \in 1 .. n : s[i] = DramLine(KeptList[k]) /\ KeptList[k] \in Kept
      BY <1>9, <3>1
    <3>3. ByteOf(s[i], x) = 0
      BY <1>2, <1>6, <1>10, <3>1, <3>2
    <3>4. QED
      BY <2>1, <3>3
  <2>3. QED
    BY <2>1, <2>2 DEF Harmless, v
<1>11. ASSUME NEW a \in Kept, Holds(v, a, x)
       PROVE  Puts(v, s, x)
  <2>1. PICK k \in 1 .. n : KeptList[k] = a
    BY <1>2
  <2>2. a \in DOMAIN v /\ n \in Nat /\ k \in Nat /\ a \in Nat
    BY <1>1, <1>2 DEF n
  <2>3. s[c + k] = DramLine(a) /\ c + k \in 1 .. Len(s)
    BY <1>8, <2>1, <2>2
  <2>4. Covers(s[c + k], x) /\ ~Wrong(v, s[c + k], x)
    BY <1>7, <1>11, <2>2, <2>3
  <2>5. ASSUME NEW j \in c + k .. Len(s), j # c + k
        PROVE  ~Covers(s[j], x)
    <3>1. SUFFICES ASSUME Covers(s[j], x)  PROVE FALSE
      OBVIOUS
    <3>2. j \in 1 .. Len(s)
      BY <1>8, <2>2
    <3>3. PICK l \in 1 .. n : j = c + l /\ s[j] = DramLine(KeptList[l]) /\ KeptList[l] \in Kept
      BY <1>9, <3>1, <3>2
    <3> DEFINE b == KeptList[l]
    <3>4. k < l
      BY <2>2, <2>5, <3>3
    <3>5. a < b /\ b \in DOMAIN v
      BY <1>2, <2>1, <3>3, <3>4
    <3>6. x \in b .. b + BytesOf(GetOpcode(b)) - 1
      BY <1>5, <3>1, <3>3 DEF Covers
    <3> HIDE DEF b
    <3>7. b \in Nat /\ b % 4 = 0 /\ a % 4 = 0 /\ 1 \in 1 .. Len(v[b])
      BY <1>1, <1>3, <2>2, <3>5
    <3>8. b <= x
      BY <3>6, <3>7, WordSizes
    <3>9. a <= x /\ x < a + Len(v[a]) /\ Len(v[a]) \in 1 .. BytesOf(GetOpcode(a))
      BY <1>1, <1>11, <2>2 DEF Holds
    <3>10. Len(v[a]) \in Nat /\ Len(v[a]) <= 8
      BY <3>9, WordSizes
    <3>11. b - a + 1 \in 1 .. Len(v[a]) /\ a + (b - a + 1) = b + 1
      BY <2>2, <3>5, <3>7, <3>8, <3>9, <3>10
    <3>12. a = b
      BY <1>1, <2>2, <3>5, <3>7, <3>11
    <3>13. QED
      BY <2>2, <3>5, <3>12
  <2>6. \A j \in c + k .. Len(s) : ~Wrong(v, s[j], x)
    BY <2>4, <2>5 DEF Wrong
  <2>7. QED
    BY <2>3, <2>4, <2>6 DEF Puts
<1>12. QED
  BY <1>10, <1>11 DEF v

----------------------------------------------------------------------------
(* A byte of memory on its way: b is there now, q are the lines on the     *)
(* link to memory, s those still to be sent.                               *)
Settling(v, x, b, q, s) ==
  \/ IsFinal(v, x, b) /\ Harmless(v, q, x) /\ Harmless(v, s, x)
  \/ Puts(v, q, x) /\ Harmless(v, s, x)
  \/ Puts(v, s, x)

(* A line is sent behind others.                                           *)
LEMMA HarmlessAppend ==
  ASSUME NEW v, NEW x, NEW s, IsSeq(s), NEW l, ~Wrong(v, l, x)
  PROVE  /\ Harmless(v, s, x) => Harmless(v, Append(s, l), x)
         /\ Puts(v, s, x) => Puts(v, Append(s, l), x)
         /\ Covers(l, x) => Puts(v, Append(s, l), x)
<1> DEFINE n == Len(s)  a == Append(s, l)
<1>1. n \in Nat /\ Len(a) = n + 1 /\ (\A i \in 1 .. n : a[i] = s[i]) /\ a[n + 1] = l
  BY AppendedTo
<1> HIDE DEF n, a
<1>2. \A i \in 1 .. n + 1 : i \in 1 .. n \/ i = n + 1
  BY <1>1
<1>3. ASSUME Harmless(v, s, x)  PROVE Harmless(v, a, x)
  BY <1>1, <1>2, <1>3 DEF Harmless, n
<1>4. ASSUME Puts(v, s, x)  PROVE Puts(v, a, x)
  <2>1. PICK i \in 1 .. n : Covers(s[i], x) /\ \A j \in i .. n : ~Wrong(v, s[j], x)
    BY <1>4 DEF Puts, n
  <2>2. i \in 1 .. n + 1 /\ Covers(a[i], x)
    BY <1>1, <2>1
  <2>3. ASSUME NEW j \in i .. n + 1  PROVE ~Wrong(v, a[j], x)
    <3>1. CASE j = n + 1
      BY <1>1, <3>1
    <3>2. CASE j # n + 1
      <4>1. j \in i .. n /\ j \in 1 .. n
        BY <1>1, <3>2
      <4>2. QED
        BY <1>1, <2>1, <4>1
    <3>3. QED
      BY <3>1, <3>2
  <2>4. QED
    BY <1>1, <2>2, <2>3 DEF Puts
<1>5. ASSUME Covers(l, x)  PROVE Puts(v, a, x)
  <2>1. n + 1 \in 1 .. n + 1 /\ \A j \in n + 1 .. n + 1 : j = n + 1
    BY <1>1
  <2>2. QED
    BY <1>1, <1>5, <2>1 DEF Puts
<1>6. QED
  BY <1>3, <1>4, <1>5 DEF a

(* The first line is taken.                                                *)
LEMMA HarmlessTail ==
  ASSUME NEW v, NEW x, NEW s, IsSeq(s), s # <<>>
  PROVE  /\ Harmless(v, s, x) => ~Wrong(v, Head(s), x) /\ Harmless(v, Tail(s), x)
         /\ Puts(v, s, x) => \/ Puts(v, Tail(s), x)
                             \/ Covers(Head(s), x) /\ ~Wrong(v, Head(s), x) /\ Harmless(v, Tail(s), x)
<1> DEFINE n == Len(s)  t == Tail(s)
<1>1. n \in Nat \ {0} /\ Head(s) = s[1] /\ Len(t) = n - 1 /\ \A i \in 1 .. n - 1 : t[i] = s[i + 1]
  BY HeadTaken
<1> HIDE DEF n, t
<1>2. 1 \in 1 .. n /\ \A i \in 1 .. n - 1 : i + 1 \in 1 .. n
  BY <1>1
<1>3. ASSUME Harmless(v, s, x)  PROVE ~Wrong(v, Head(s), x) /\ Harmless(v, t, x)
  BY <1>1, <1>2, <1>3 DEF Harmless, n
<1>4. ASSUME Puts(v, s, x)
      PROVE  \/ Puts(v, t, x)
             \/ Covers(Head(s), x) /\ ~Wrong(v, Head(s), x) /\ Harmless(v, t, x)
  <2>1. PICK i \in 1 .. n : Covers(s[i], x) /\ \A j \in i .. n : ~Wrong(v, s[j], x)
    BY <1>4 DEF Puts, n
  <2>2. CASE i = 1
    BY <1>1, <1>2, <2>1, <2>2 DEF Harmless
  <2>3. CASE i # 1
    <3>1. i - 1 \in 1 .. n - 1 /\ (i - 1) + 1 = i
      BY <1>1, <2>3
    <3>2. Covers(t[i - 1], x)
      BY <1>1, <2>1, <3>1
    <3>3. ASSUME NEW j \in i - 1 .. n - 1  PROVE ~Wrong(v, t[j], x)
      <4>1. j \in 1 .. n - 1 /\ j + 1 \in i .. n
        BY <1>1, <3>1
      <4>2. QED
        BY <1>1, <2>1, <4>1
    <3>4. QED
      BY <1>1, <3>1, <3>2, <3>3 DEF Puts
  <2>4. QED
    BY <2>2, <2>3
<1>5. QED
  BY <1>3, <1>4 DEF t

(* The next line is sent, to memory or elsewhere.                          *)
LEMMA SentSettles ==
  ASSUME NEW v, NEW x, NEW b, NEW q, IsSeq(q), NEW s, IsSeq(s), s # <<>>, Settling(v, x, b, q, s),
         NEW p, p = Append(q, Head(s)) \/ (p = q /\ ~Covers(Head(s), x))
  PROVE  Settling(v, x, b, p, Tail(s))
<1> DEFINE h == Head(s)  t == Tail(s)
<1>1. CASE Harmless(v, s, x) /\ ((IsFinal(v, x, b) /\ Harmless(v, q, x)) \/ Puts(v, q, x))
  <2>1. ~Wrong(v, h, x) /\ Harmless(v, t, x)
    BY <1>1, HarmlessTail
  <2>2. /\ Harmless(v, q, x) => Harmless(v, p, x)
        /\ Puts(v, q, x) => Puts(v, p, x)
    BY <2>1, HarmlessAppend
  <2>3. QED
    BY <1>1, <2>1, <2>2 DEF Settling
<1>2. CASE Puts(v, s, x)
  <2>1. CASE Puts(v, t, x)
    BY <2>1 DEF Settling
  <2>2. CASE Covers(h, x) /\ ~Wrong(v, h, x) /\ Harmless(v, t, x)
    <3>1. p = Append(q, h)
      BY <2>2
    <3>2. Puts(v, p, x)
      BY <2>2, <3>1, HarmlessAppend
    <3>3. QED
      BY <2>2, <3>2 DEF Settling
  <2>3. QED
    BY <1>2, <2>1, <2>2, HarmlessTail
<1>3. QED
  BY <1>1, <1>2 DEF Settling

(* Memory carries out the first line.                                      *)
LEMMA ServedSettles ==
  ASSUME NEW v, NEW x, NEW b, NEW q, IsSeq(q), q # <<>>, NEW s, Settling(v, x, b, q, s),
         NEW d, d = IF Covers(Head(q), x) THEN ByteOf(Head(q), x) ELSE b
  PROVE  Settling(v, x, d, Tail(q), s)
<1> DEFINE h == Head(q)  t == Tail(q)
<1>1. CASE IsFinal(v, x, b) /\ Harmless(v, q, x) /\ Harmless(v, s, x)
  <2>1. ~Wrong(v, h, x) /\ Harmless(v, t, x)
    BY <1>1, HarmlessTail
  <2>2. IsFinal(v, x, d)
    BY <1>1, <2>1 DEF Wrong
  <2>3. QED
    BY <1>1, <2>1, <2>2 DEF Settling
<1>2. CASE Puts(v, q, x) /\ Harmless(v, s, x)
  <2>1. CASE Puts(v, t, x)
    BY <1>2, <2>1 DEF Settling
  <2>2. CASE Covers(h, x) /\ ~Wrong(v, h, x) /\ Harmless(v, t, x)
    <3>1. IsFinal(v, x, d)
      BY <2>2 DEF Wrong
    <3>2. QED
      BY <1>2, <2>2, <3>1 DEF Settling
  <2>3. QED
    BY <1>2, <2>1, <2>2, HarmlessTail
<1>3. CASE Puts(v, s, x)
  BY <1>3 DEF Settling
<1>4. QED
  BY <1>1, <1>2, <1>3 DEF Settling

----------------------------------------------------------------------------
(* A register on its way: f and w are the tile's freeze register and this  *)
(* one, q the lines on the link to the tile, s those still to be sent.     *)
Release(line, t)  == line.dst = t /\ line.addr = Freeze /\ line.data = 0
Unreleased(s, t)  == \A i \in 1 .. Len(s) : ~Release(s[i], t)
Ahead(s, t, r) ==
  \E i \in 1 .. Len(s) : s[i].dst = t /\ s[i].addr = r /\ \A j \in 1 .. i : ~Release(s[j], t)
Due(f, w, t, r, q, s) ==
  \/ w = Want(r)
  \/ f # 0 /\ Ahead(q, t, r)
  \/ f # 0 /\ Unreleased(q, t) /\ Ahead(s, t, r)

WantLine(line) ==
  line.dst \in BootCores /\ line.addr \in ConfigRegs => line.data = Want(line.addr) /\ line.op # 255

(* A line is sent behind others to a tile.                                 *)
LEMMA AheadAppend ==
  ASSUME NEW t, NEW r, NEW s, IsSeq(s), NEW l
  PROVE  /\ Ahead(s, t, r) => Ahead(Append(s, l), t, r)
         /\ Unreleased(s, t) /\ ~Release(l, t) => Unreleased(Append(s, l), t)
         /\ Unreleased(s, t) /\ ~Release(l, t) /\ l.dst = t /\ l.addr = r => Ahead(Append(s, l), t, r)
<1> DEFINE n == Len(s)  a == Append(s, l)
<1>1. n \in Nat /\ Len(a) = n + 1 /\ (\A i \in 1 .. n : a[i] = s[i]) /\ a[n + 1] = l
  BY AppendedTo
<1> HIDE DEF n, a
<1>2. \A i \in 1 .. n + 1 : i \in 1 .. n \/ i = n + 1
  BY <1>1
<1>3. ASSUME Ahead(s, t, r)  PROVE Ahead(a, t, r)
  <2>1. PICK i \in 1 .. n : s[i].dst = t /\ s[i].addr = r /\ \A j \in 1 .. i : ~Release(s[j], t)
    BY <1>3 DEF Ahead, n
  <2>2. i \in 1 .. n + 1 /\ \A j \in 1 .. i : j \in 1 .. n
    BY <1>1
  <2>3. QED
    BY <1>1, <2>1, <2>2 DEF Ahead
<1>4. ASSUME Unreleased(s, t), ~Release(l, t)  PROVE Unreleased(a, t)
  BY <1>1, <1>2, <1>4 DEF Unreleased, n
<1>5. ASSUME Unreleased(s, t), ~Release(l, t), l.dst = t, l.addr = r  PROVE Ahead(a, t, r)
  <2>1. \A j \in 1 .. n + 1 : ~Release(a[j], t)
    BY <1>1, <1>4, <1>5 DEF Unreleased
  <2>2. n + 1 \in 1 .. n + 1
    BY <1>1
  <2>3. QED
    BY <1>1, <1>5, <2>1, <2>2 DEF Ahead
<1>6. QED
  BY <1>3, <1>4, <1>5 DEF a

(* The first line to a tile is taken.                                      *)
LEMMA AheadTail ==
  ASSUME NEW t, NEW r, NEW s, IsSeq(s), s # <<>>
  PROVE  /\ Unreleased(s, t) => ~Release(Head(s), t) /\ Unreleased(Tail(s), t)
         /\ Ahead(s, t, r) => /\ ~Release(Head(s), t)
                              /\ (Head(s).dst = t /\ Head(s).addr = r) \/ Ahead(Tail(s), t, r)
<1> DEFINE n == Len(s)  a == Tail(s)
<1>1. n \in Nat \ {0} /\ Head(s) = s[1] /\ Len(a) = n - 1 /\ \A i \in 1 .. n - 1 : a[i] = s[i + 1]
  BY HeadTaken
<1> HIDE DEF n, a
<1>2. 1 \in 1 .. n /\ \A i \in 1 .. n - 1 : i + 1 \in 1 .. n
  BY <1>1
<1>3. ASSUME Unreleased(s, t)  PROVE ~Release(Head(s), t) /\ Unreleased(a, t)
  BY <1>1, <1>2, <1>3 DEF Unreleased, n
<1>4. ASSUME Ahead(s, t, r)
      PROVE  ~Release(Head(s), t) /\ ((Head(s).dst = t /\ Head(s).addr = r) \/ Ahead(a, t, r))
  <2>1. PICK i \in 1 .. n : s[i].dst = t /\ s[i].addr = r /\ \A j \in 1 .. i : ~Release(s[j], t)
    BY <1>4 DEF Ahead, n
  <2>2. ~Release(Head(s), t)
    <3>1. 1 \in 1 .. i
      OBVIOUS
    <3>2. QED
      BY <1>1, <2>1, <3>1
  <2>3. CASE i = 1
    BY <1>1, <2>1, <2>2, <2>3
  <2>4. CASE i # 1
    <3>1. i - 1 \in 1 .. n - 1 /\ (i - 1) + 1 = i
      BY <1>1, <2>4
    <3>2. \A j \in 1 .. i - 1 : j \in 1 .. n - 1 /\ j + 1 \in 1 .. i
      BY <1>1
    <3>3. QED
      BY <1>1, <2>1, <2>2, <3>1, <3>2 DEF Ahead
  <2>5. QED
    BY <2>3, <2>4
<1>5. QED
  BY <1>3, <1>4 DEF a

(* The next line is sent, to this tile or elsewhere.                       *)
LEMMA SentDue ==
  ASSUME NEW f, NEW w, NEW t, NEW r, NEW q, IsSeq(q), NEW s, IsSeq(s), s # <<>>, Due(f, w, t, r, q, s),
         NEW p, p = Append(q, Head(s)) \/ (p = q /\ ~(Head(s).dst = t /\ Head(s).addr = r))
  PROVE  Due(f, w, t, r, p, Tail(s))
<1> DEFINE h == Head(s)
<1>1. CASE w = Want(r)
  BY <1>1 DEF Due
<1>2. CASE f # 0 /\ Ahead(q, t, r)
  BY <1>2, AheadAppend DEF Due
<1>3. CASE f # 0 /\ Unreleased(q, t) /\ Ahead(s, t, r)
  <2>1. ~Release(h, t) /\ ((h.dst = t /\ h.addr = r) \/ Ahead(Tail(s), t, r))
    BY <1>3, AheadTail
  <2>2. CASE h.dst = t /\ h.addr = r
    BY <1>3, <2>1, <2>2, AheadAppend DEF Due
  <2>3. CASE Ahead(Tail(s), t, r)
    <3>1. Unreleased(p, t)
      BY <1>3, <2>1, AheadAppend
    <3>2. QED
      BY <1>3, <2>3, <3>1 DEF Due
  <2>4. QED
    BY <2>1, <2>2, <2>3
<1>4. QED
  BY <1>1, <1>2, <1>3 DEF Due

(* The tile carries out the first line.                                    *)
LEMMA ServedDue ==
  ASSUME NEW f, NEW w, NEW t \in BootCores, NEW r \in ConfigRegs, NEW q, IsSeq(q), q # <<>>, NEW s,
         Due(f, w, t, r, q, s), Head(q).dst = t, WantLine(Head(q)),
         NEW g, g = IF Head(q).addr = Freeze THEN Head(q).data ELSE f,
         NEW u, u = IF Head(q).addr = r THEN Head(q).data ELSE w
  PROVE  Due(g, u, t, r, Tail(q), s)
<1> DEFINE h == Head(q)
<1>1. h.addr = r => u = Want(r)
  BY DEF WantLine
<1>2. ~Release(h, t) /\ f # 0 => g # 0
  BY DEF Release
<1>3. CASE w = Want(r)
  BY <1>1, <1>3 DEF Due
<1>4. CASE f # 0 /\ Ahead(q, t, r)
  <2>1. ~Release(h, t) /\ ((h.dst = t /\ h.addr = r) \/ Ahead(Tail(q), t, r))
    BY <1>4, AheadTail
  <2>2. QED
    BY <1>1, <1>2, <1>4, <2>1 DEF Due
<1>5. CASE f # 0 /\ Unreleased(q, t) /\ Ahead(s, t, r)
  <2>1. ~Release(h, t) /\ Unreleased(Tail(q), t)
    BY <1>5, AheadTail
  <2>2. QED
    BY <1>2, <1>5, <2>1 DEF Due
<1>6. QED
  BY <1>3, <1>4, <1>5 DEF Due

----------------------------------------------------------------------------
(* The links, the lines to be sent, memory and the tiles.                  *)
LinksOk(l) ==
  /\ l = [d \in Dest |-> l[d]]
  /\ \A d \in Dest : /\ IsSeq(l[d])
                     /\ \A i \in 1 .. Len(l[d]) : l[d][i].dst = d /\ WantLine(l[d][i])

LastOk(s) ==
  /\ IsSeq(s)
  /\ \A i \in 1 .. Len(s) :
       /\ s[i].dst \in Dest /\ WantLine(s[i])
       /\ (s[i].op = 255) <=> i = Len(s)
       /\ s[i].op = 255 => s[i].dst \in BootCores

TilesOk(tiles) ==
  /\ tiles = [t \in BootCores |-> tiles[t]]
  /\ \A t \in BootCores : tiles[t] = [r \in Registers |-> tiles[t][r]]

Settled == \A x \in BootMemory : Settling(bootVals, x, bootDram[x], bootLinks[Dram], bootNbf)
AllDue ==
  bootConfig => \A t \in BootCores : \A r \in ConfigRegs :
    Due(bootTile[t][Freeze], bootTile[t][r], t, r, bootLinks[t], bootNbf)

SendInv ==
  /\ LinksOk(bootLinks) /\ LastOk(bootNbf) /\ TilesOk(bootTile)
  /\ bootDram = [x \in BootMemory |-> bootDram[x]]
  /\ bootPc = "send" => bootNbf # <<>>
  /\ bootPc # "send" => bootNbf = <<>>
  /\ bootPc \in {"read", "dump"} =>
       /\ \A d \in Dest : bootLinks[d] = <<>>
       /\ \A x \in BootMemory : bootDram[x] = 0
       /\ \A t \in BootCores : bootTile[t][Freeze] = 1
  /\ bootPc \in {"send", "done"} => Settled /\ AllDue

(* Memory and the cores are different destinations.                        *)
LEMMA DestIs == Dram \in Dest /\ (\A t \in BootCores : t \in Dest /\ t # Dram) /\ \A d \in Dest : d = Dram \/ d \in BootCores
  BY CoresAre DEF Dest, Dram

(* Nothing is sent yet.                                                    *)
LEMMA SendInitInv == BootInit => SendInv
<1> SUFFICES ASSUME BootInit  PROVE SendInv
  OBVIOUS
<1>1. /\ bootPc = "read" /\ bootNbf = <<>> /\ bootLinks = [d \in Dest |-> <<>>]
      /\ bootDram = [a \in BootMemory |-> 0]
      /\ bootTile = [t \in BootCores |-> [r \in Registers |-> IF r = Freeze THEN 1 ELSE 0]]
  BY DEF BootInit, BootState
<1>2. Freeze \in Registers
  BY RegistersAre
<1>3. \A i : ~(i \in 1 .. Len(<<>>))
  BY NoElement
<1>4. LinksOk(bootLinks)
  <2>1. \A d \in Dest : bootLinks[d] = <<>>
    BY <1>1
  <2>2. bootLinks = [d \in Dest |-> bootLinks[d]]
    BY <1>1
  <2>3. QED
    BY <1>3, <2>1, <2>2, NoElement DEF LinksOk
<1>5. LastOk(bootNbf)
  BY <1>1, <1>3, NoElement DEF LastOk
<1>6. TilesOk(bootTile) /\ \A t \in BootCores : bootTile[t][Freeze] = 1
  BY <1>1, <1>2 DEF TilesOk
<1>7. /\ bootDram = [x \in BootMemory |-> bootDram[x]] /\ \A x \in BootMemory : bootDram[x] = 0
      /\ \A d \in Dest : bootLinks[d] = <<>>
  BY <1>1
<1>8. QED
  BY <1>1, <1>4, <1>5, <1>6, <1>7 DEF SendInv

(* A step of something else.                                               *)
LEMMA WordsStay ==
  ASSUME SendInv, UNCHANGED <<bootPc, bootConfig, bootVals, bootNbf, bootLinks, bootDram, bootTile>>
  PROVE  SendInv'
<1>1. (LinksOk(bootLinks) /\ LastOk(bootNbf) /\ TilesOk(bootTile))' <=>
        LinksOk(bootLinks) /\ LastOk(bootNbf) /\ TilesOk(bootTile)
  OBVIOUS
<1>2. (Settled' <=> Settled) /\ (AllDue' <=> AllDue)
  BY DEF Settled, AllDue
<1>3. QED
  BY <1>1, <1>2 DEF SendInv

(* Until the image is dumped nothing is sent.                              *)
LEMMA ReadSends ==
  ASSUME SendInv, bootPc = "read", bootPc' \in {"read", "dump"},
         UNCHANGED <<bootNbf, bootLinks, bootDram, bootTile>>
  PROVE  SendInv'
<1>1. (LinksOk(bootLinks) /\ LastOk(bootNbf) /\ TilesOk(bootTile))' <=>
        LinksOk(bootLinks) /\ LastOk(bootNbf) /\ TilesOk(bootTile)
  OBVIOUS
<1>2. bootPc' # "send" /\ bootPc' # "done"
  OBVIOUS
<1>3. QED
  BY <1>1, <1>2 DEF SendInv

(* The image is complete, and every line of it is still to be sent.        *)
LEMMA DumpOk == ReadInv /\ SendInv /\ Dump => SendInv'
<1> SUFFICES ASSUME ReadInv, SendInv, Dump  PROVE SendInv'
  OBVIOUS
<1>1. /\ bootPc = "dump" /\ bootPc' = "send" /\ bootNbf' = NbfLines
      /\ UNCHANGED <<bootConfig, bootVals, bootLinks, bootDram, bootTile>>
  BY DEF Dump, bootIn, bootRead
<1>2. Words(bootFile, bootVals, Len(bootFile))
  BY <1>1 DEF ReadInv
<1> DEFINE n == Cardinality(Kept)  s == NbfLines
<1>3. PICK c \in Nat, m \in Nat : NbfIn(s, c, n, m)
  BY <1>2, NbfIs
<1>4. n \in Nat /\ \A i \in 1 .. n : KeptList[i] \in Kept
  BY <1>2, KeptIs
<1>5. /\ IsSeq(s) /\ Len(s) = c + n + m + 1
      /\ \A i \in 1 .. c : SetsUp(s[i])
      /\ bootConfig => \A t \in BootCores, r \in ConfigRegs : \E i \in 1 .. c : s[i].dst = t /\ s[i].addr = r
      /\ \A i \in 1 .. n : s[c + i] = DramLine(KeptList[i])
      /\ \A i \in 1 .. m : s[c + n + i].dst \in BootCores /\ s[c + n + i].addr = Freeze /\ s[c + n + i].op = 3
      /\ s[c + n + m + 1] = LastLine
  BY <1>3 DEF NbfIn
<1> HIDE DEF n, s
<1>6. ASSUME NEW i \in 1 .. Len(s)
      PROVE  \/ i \in 1 .. c
             \/ i - c \in 1 .. n /\ c + (i - c) = i
             \/ i - (c + n) \in 1 .. m /\ c + n + (i - (c + n)) = i
             \/ i = c + n + m + 1
  BY <1>4, <1>5
<1>7. ASSUME NEW i \in 1 .. Len(s)
      PROVE  /\ s[i].dst \in Dest /\ WantLine(s[i])
             /\ (s[i].op = 255) <=> i = Len(s)
             /\ s[i].op = 255 => s[i].dst \in BootCores
  <2>1. CASE i \in 1 .. c
    <3>1. SetsUp(s[i]) /\ i # Len(s)
      BY <1>4, <1>5, <2>1
    <3>2. QED
      BY <3>1, DestIs DEF SetsUp, WantLine
  <2>2. CASE i - c \in 1 .. n /\ c + (i - c) = i
    <3>1. s[i] = DramLine(KeptList[i - c]) /\ i # Len(s)
      BY <1>4, <1>5, <2>2
    <3>2. s[i].dst = Dram /\ s[i].op = GetOpcode(KeptList[i - c])
      BY <3>1, LineIs DEF DramLine
    <3>3. s[i].op # 255
      BY <3>2 DEF GetOpcode
    <3>4. QED
      BY <3>1, <3>2, <3>3, DestIs DEF WantLine
  <2>3. CASE i - (c + n) \in 1 .. m /\ c + n + (i - (c + n)) = i
    <3>1. s[i].dst \in BootCores /\ s[i].addr = Freeze /\ s[i].op = 3 /\ i # Len(s)
      <4>1. PICK j \in 1 .. m : j = i - (c + n) /\ c + n + j = i
        BY <2>3
      <4>2. s[i].dst \in BootCores /\ s[i].addr = Freeze /\ s[i].op = 3
        BY <1>5, <4>1
      <4>3. i # Len(s)
        BY <1>4, <1>5, <4>1
      <4>4. QED
        BY <4>2, <4>3
    <3>2. Freeze \notin ConfigRegs
      BY DEF ConfigRegs
    <3>3. QED
      BY <3>1, <3>2, DestIs DEF WantLine
  <2>4. CASE i = c + n + m + 1
    <3>1. s[i].dst = 1 /\ s[i].addr = <<"none", 0>> /\ s[i].op = 255 /\ i = Len(s)
      BY <1>5, <2>4, LineIs DEF LastLine
    <3>2. <<"none", 0>> \notin ConfigRegs /\ 1 \in BootCores
      BY RegistersAre, BootAssumption DEF ConfigRegs
    <3>3. QED
      BY <3>1, <3>2, DestIs DEF WantLine
  <2>5. QED
    BY <1>6, <2>1, <2>2, <2>3, <2>4
<1>8. LastOk(s)
  BY <1>5, <1>7 DEF LastOk
<1>9. s # <<>>
  BY <1>4, <1>5, NoElement
<1>10. /\ \A d \in Dest : bootLinks[d] = <<>>
       /\ \A x \in BootMemory : bootDram[x] = 0
       /\ \A t \in BootCores : bootTile[t][Freeze] = 1
  BY <1>1 DEF SendInv
<1>11. ASSUME NEW x \in BootMemory
       PROVE  Settling(bootVals, x, bootDram[x], bootLinks[Dram], s)
  <2>1. x \in Nat
    BY BootAssumption
  <2>2. (IsFinal(bootVals, x, 0) /\ Harmless(bootVals, s, x)) \/ Puts(bootVals, s, x)
    BY <1>2, <1>3, <2>1, LinesRight DEF n
  <2>3. Harmless(bootVals, bootLinks[Dram], x)
    BY <1>10, DestIs, NoElement DEF Harmless
  <2>4. QED
    BY <1>10, <2>2, <2>3 DEF Settling
<1>12. Settled'
  BY <1>1, <1>11 DEF Settled, s
<1>13. ASSUME bootConfig, NEW t \in BootCores, NEW r \in ConfigRegs
       PROVE  Due(bootTile[t][Freeze], bootTile[t][r], t, r, bootLinks[t], s)
  <2>1. PICK i \in 1 .. c : s[i].dst = t /\ s[i].addr = r
    BY <1>5, <1>13
  <2>2. i \in 1 .. Len(s) /\ \A j \in 1 .. i : j \in 1 .. c
    BY <1>4, <1>5
  <2>3. \A j \in 1 .. i : ~Release(s[j], t)
    BY <1>5, <2>2 DEF SetsUp, Release
  <2>4. Ahead(s, t, r)
    BY <2>1, <2>2, <2>3 DEF Ahead
  <2>5. Unreleased(bootLinks[t], t)
    BY <1>10, DestIs, NoElement DEF Unreleased
  <2>6. bootTile[t][Freeze] # 0
    BY <1>10
  <2>7. QED
    BY <2>4, <2>5, <2>6 DEF Due
<1>14. AllDue'
  BY <1>1, <1>13 DEF AllDue, s
<1>15. LinksOk(bootLinks') /\ LastOk(bootNbf') /\ TilesOk(bootTile')
  BY <1>1, <1>8 DEF SendInv, s
<1>16. QED
  BY <1>1, <1>9, <1>12, <1>14, <1>15 DEF SendInv, s

(* A line is taken from the image, and sent to its destination or, if it   *)
(* is the last one, perhaps not.                                           *)
Pushed(l, line) == [l EXCEPT ![line.dst] = Append(@, line)]

LEMMA SendOk ==
  ASSUME SendInv, bootPc = "send", bootPc' \in {"send", "done"}, bootNbf' = Tail(bootNbf),
         bootPc' = "send" <=> Head(bootNbf).op # 255,
         bootLinks' = Pushed(bootLinks, Head(bootNbf)) \/ (Head(bootNbf).op = 255 /\ bootLinks' = bootLinks),
         UNCHANGED <<bootConfig, bootVals, bootDram, bootTile>>
  PROVE  SendInv'
<1> DEFINE s == bootNbf  h == Head(bootNbf)  t == Tail(bootNbf)  n == Len(bootNbf)
<1>1. /\ LinksOk(bootLinks) /\ LastOk(s) /\ TilesOk(bootTile) /\ s # <<>> /\ Settled /\ AllDue
      /\ bootDram = [x \in BootMemory |-> bootDram[x]]
  BY DEF SendInv
<1>2. /\ n \in Nat \ {0} /\ h = s[1] /\ IsSeq(t) /\ Len(t) = n - 1 /\ IsSeq(s)
      /\ \A i \in 1 .. n - 1 : t[i] = s[i + 1]
  BY <1>1, HeadTaken DEF LastOk
<1>3. \A i \in 1 .. n : /\ s[i].dst \in Dest /\ WantLine(s[i]) /\ ((s[i].op = 255) <=> i = n)
                        /\ s[i].op = 255 => s[i].dst \in BootCores
  BY <1>1 DEF LastOk
<1>4. /\ h.dst \in Dest /\ WantLine(h) /\ ((h.op = 255) <=> n = 1)
      /\ h.op = 255 => h.dst \in BootCores
  <2> HIDE DEF h, t, n
  <2>1. 1 \in 1 .. n /\ (1 = n <=> n = 1)
    BY <1>2
  <2> DEFINE e == s[1]
  <2>2. /\ e.dst \in Dest /\ WantLine(e) /\ ((e.op = 255) <=> 1 = n)
        /\ e.op = 255 => e.dst \in BootCores
    BY <1>3, <2>1
  <2>3. h = e
    BY <1>2
  <2> HIDE DEF e
  <2>4. QED
    BY <2>1, <2>2, <2>3
<1> HIDE DEF h, t, n
<1>5. LastOk(t)
  <2>1. ASSUME NEW i \in 1 .. n - 1
        PROVE  /\ t[i].dst \in Dest /\ WantLine(t[i]) /\ ((t[i].op = 255) <=> i = n - 1)
               /\ t[i].op = 255 => t[i].dst \in BootCores
    <3>1. i + 1 \in 1 .. n /\ (i + 1 = n <=> i = n - 1)
      BY <1>2
    <3>2. t[i] = s[i + 1]
      BY <1>2
    <3> DEFINE e == s[i + 1]
    <3>3. /\ e.dst \in Dest /\ WantLine(e) /\ ((e.op = 255) <=> i + 1 = n)
          /\ e.op = 255 => e.dst \in BootCores
      BY <1>3, <3>1
    <3> HIDE DEF e
    <3>4. t[i] = e
      BY <3>2 DEF e
    <3>5. QED
      BY <3>1, <3>3, <3>4
  <2>2. QED
    BY <1>2, <2>1 DEF LastOk
<1>6. (t = <<>>) <=> h.op = 255
  <2>1. t = <<>> => Len(t) = 0
    BY NoElement
  <2>2. Len(t) = 0 => t = <<>>
    BY <1>2, HeadTaken
  <2>3. Len(t) = 0 <=> n = 1
    BY <1>2
  <2>4. QED
    BY <1>4, <2>1, <2>2, <2>3
<1>7. /\ bootLinks = [d \in Dest |-> bootLinks[d]]
      /\ \A d \in Dest : /\ IsSeq(bootLinks[d])
                         /\ \A i \in 1 .. Len(bootLinks[d]) : bootLinks[d][i].dst = d /\ WantLine(bootLinks[d][i])
  BY <1>1 DEF LinksOk
<1>8. /\ bootLinks' = [d \in Dest |-> bootLinks'[d]]
      /\ \A d \in Dest : \/ d = h.dst /\ bootLinks'[d] = Append(bootLinks[d], h)
                         \/ bootLinks'[d] = bootLinks[d] /\ (d # h.dst \/ h.op = 255)
  <2>1. CASE bootLinks' = Pushed(bootLinks, h)
    BY <1>4, <1>7, <2>1 DEF Pushed
  <2>2. CASE h.op = 255 /\ bootLinks' = bootLinks
    BY <1>7, <2>2
  <2>3. QED
    BY <2>1, <2>2 DEF h
<1>9. LinksOk(bootLinks')
  <2>1. ASSUME NEW d \in Dest
        PROVE  /\ IsSeq(bootLinks'[d])
               /\ \A i \in 1 .. Len(bootLinks'[d]) : bootLinks'[d][i].dst = d /\ WantLine(bootLinks'[d][i])
    <3>1. CASE d = h.dst /\ bootLinks'[d] = Append(bootLinks[d], h)
      <4> DEFINE q == bootLinks[d]  p == Append(q, h)  k == Len(q)
      <4>1. IsSeq(q) /\ \A i \in 1 .. k : q[i].dst = d /\ WantLine(q[i])
        BY <1>7
      <4>2. IsSeq(p) /\ k \in Nat /\ Len(p) = k + 1 /\ (\A i \in 1 .. k : p[i] = q[i]) /\ p[k + 1] = h
        BY <4>1, AppendedTo
      <4> HIDE DEF q, p, k
      <4>3. \A i \in 1 .. k + 1 : i \in 1 .. k \/ i = k + 1
        BY <4>2
      <4>4. \A i \in 1 .. k + 1 : p[i].dst = d /\ WantLine(p[i])
        BY <1>4, <3>1, <4>1, <4>2, <4>3
      <4>5. bootLinks'[d] = p
        BY <3>1 DEF p, q
      <4>6. QED
        BY <4>2, <4>4, <4>5
    <3>2. CASE bootLinks'[d] = bootLinks[d]
      BY <1>7, <3>2
    <3>3. QED
      BY <1>8, <3>1, <3>2
  <2>2. QED
    BY <1>8, <2>1 DEF LinksOk
<1>10. ASSUME NEW x \in BootMemory
       PROVE  Settling(bootVals, x, bootDram[x], bootLinks'[Dram], t)
  <2>1. Settling(bootVals, x, bootDram[x], bootLinks[Dram], s)
    BY <1>1 DEF Settled
  <2>2. IsSeq(bootLinks[Dram])
    BY <1>7, DestIs
  <2>3. \/ bootLinks'[Dram] = Append(bootLinks[Dram], h)
        \/ bootLinks'[Dram] = bootLinks[Dram] /\ ~Covers(h, x)
    BY <1>4, <1>8, DestIs DEF Covers
  <2>4. QED
    BY <1>1, <1>2, <2>1, <2>2, <2>3, SentSettles DEF h, t
<1>11. Settled'
  BY <1>10 DEF Settled, t
<1>12. ASSUME bootConfig, NEW u \in BootCores, NEW r \in ConfigRegs
       PROVE  Due(bootTile[u][Freeze], bootTile[u][r], u, r, bootLinks'[u], t)
  <2>1. Due(bootTile[u][Freeze], bootTile[u][r], u, r, bootLinks[u], s)
    BY <1>1, <1>12 DEF AllDue
  <2>2. IsSeq(bootLinks[u])
    BY <1>7, DestIs
  <2>3. h.op = 255 => ~(h.dst = u /\ h.addr = r)
    BY <1>4 DEF WantLine
  <2>4. \/ bootLinks'[u] = Append(bootLinks[u], h)
        \/ bootLinks'[u] = bootLinks[u] /\ ~(h.dst = u /\ h.addr = r)
    BY <1>8, <2>3, DestIs
  <2>5. QED
    BY <1>1, <1>2, <2>1, <2>2, <2>4, SentDue DEF h, t
<1>13. AllDue'
  BY <1>12 DEF AllDue, t
<1>14. bootNbf' = t
  BY DEF t
<1>15. (bootPc' = "send" => bootNbf' # <<>>) /\ (bootPc' # "send" => bootNbf' = <<>>)
  BY <1>6, <1>14 DEF h
<1>16. LastOk(bootNbf') /\ TilesOk(bootTile') /\ bootDram' = [x \in BootMemory |-> bootDram'[x]]
  BY <1>1, <1>5, <1>14
<1>17. bootPc' \notin {"read", "dump"}
  OBVIOUS
<1>18. QED
  BY <1>9, <1>11, <1>13, <1>15, <1>16, <1>17 DEF SendInv

(* Memory carries out a line.                                              *)
LEMMA ServeDramOk == SendInv /\ ServeDram => SendInv'
<1> SUFFICES ASSUME SendInv, ServeDram  PROVE SendInv'
  OBVIOUS
<1> DEFINE q == bootLinks[Dram]  w == Head(bootLinks[Dram])
<1>1. /\ q # <<>> /\ bootLinks' = [bootLinks EXCEPT ![Dram] = Tail(@)]
      /\ bootDram' = [a \in BootMemory |->
           IF a \notin w.addr .. w.addr + BytesOf(w.op) - 1 THEN bootDram[a]
           ELSE IF a - w.addr < Len(w.data) THEN w.data[a - w.addr + 1] ELSE 0]
      /\ UNCHANGED <<bootPc, bootConfig, bootVals, bootNbf, bootTile>>
  BY DEF ServeDram, bootIn, bootRead
<1>2. /\ bootLinks = [d \in Dest |-> bootLinks[d]]
      /\ \A d \in Dest : /\ IsSeq(bootLinks[d])
                         /\ \A i \in 1 .. Len(bootLinks[d]) : bootLinks[d][i].dst = d /\ WantLine(bootLinks[d][i])
  BY DEF SendInv, LinksOk
<1>3. /\ Len(q) \in Nat \ {0} /\ w = q[1] /\ IsSeq(Tail(q)) /\ Len(Tail(q)) = Len(q) - 1
      /\ \A i \in 1 .. Len(q) - 1 : Tail(q)[i] = q[i + 1]
  BY <1>1, <1>2, DestIs, HeadTaken
<1>4. /\ bootLinks' = [d \in Dest |-> bootLinks'[d]]
      /\ bootLinks'[Dram] = Tail(q)
      /\ \A d \in Dest : d # Dram => bootLinks'[d] = bootLinks[d]
  BY <1>1, <1>2, DestIs
<1>5. LinksOk(bootLinks')
  <2>1. ASSUME NEW i \in 1 .. Len(Tail(q))
        PROVE  Tail(q)[i].dst = Dram /\ WantLine(Tail(q)[i])
    <3>1. i + 1 \in 1 .. Len(q) /\ Tail(q)[i] = q[i + 1]
      BY <1>3
    <3>2. q[i + 1].dst = Dram /\ WantLine(q[i + 1])
      BY <1>2, <3>1, DestIs
    <3>3. QED
      BY <3>1, <3>2
  <2>2. ASSUME NEW d \in Dest
        PROVE  /\ IsSeq(bootLinks'[d])
               /\ \A i \in 1 .. Len(bootLinks'[d]) : bootLinks'[d][i].dst = d /\ WantLine(bootLinks'[d][i])
    <3>1. CASE d = Dram
      BY <1>3, <1>4, <2>1, <3>1
    <3>2. CASE d # Dram
      BY <1>2, <1>4, <3>2
    <3>3. QED
      BY <3>1, <3>2
  <2>3. QED
    BY <1>4, <2>2 DEF LinksOk
<1>6. w.dst = Dram
  <2>1. 1 \in 1 .. Len(q)
    BY <1>3
  <2>2. QED
    BY <1>2, <1>3, <2>1, DestIs
<1>7. (bootPc \in {"send", "done"} /\ Settled /\ AllDue) \/ bootPc \notin {"send", "done"}
  BY DEF SendInv
<1>8. bootPc \notin {"read", "dump"}
  BY <1>1, DestIs DEF SendInv
<1>9. ASSUME Settled, NEW x \in BootMemory
      PROVE  Settling(bootVals, x, bootDram'[x], bootLinks'[Dram], bootNbf)
  <2>1. Settling(bootVals, x, bootDram[x], q, bootNbf)
    BY <1>9 DEF Settled
  <2>2. bootDram'[x] = IF Covers(w, x) THEN ByteOf(w, x) ELSE bootDram[x]
    BY <1>1, <1>6 DEF Covers, ByteOf
  <2>3. IsSeq(q)
    BY <1>2, DestIs
  <2>4. Settling(bootVals, x, bootDram'[x], Tail(q), bootNbf)
    BY <1>1, <2>1, <2>2, <2>3, ServedSettles
  <2>5. QED
    BY <1>4, <2>4
<1>10. Settled => Settled'
  BY <1>1, <1>9 DEF Settled
<1>11. AllDue => AllDue'
  <2>1. \A t \in BootCores : bootLinks'[t] = bootLinks[t]
    BY <1>4, DestIs
  <2>2. QED
    BY <1>1, <2>1 DEF AllDue
<1>12. bootDram' = [x \in BootMemory |-> bootDram'[x]]
  BY <1>1
<1>13. LastOk(bootNbf') /\ TilesOk(bootTile')
  BY <1>1 DEF SendInv
<1>14. QED
  BY <1>1, <1>5, <1>7, <1>8, <1>10, <1>11, <1>12, <1>13 DEF SendInv

(* A tile carries out a line.                                              *)
LEMMA ServeTileOk == \A t \in BootCores : SendInv /\ ServeTile(t) => SendInv'
<1> SUFFICES ASSUME NEW t \in BootCores, SendInv, ServeTile(t)  PROVE SendInv'
  OBVIOUS
<1> DEFINE q == bootLinks[t]  w == Head(bootLinks[t])
<1>1. /\ q # <<>> /\ bootLinks' = [bootLinks EXCEPT ![t] = Tail(@)]
      /\ bootTile' = IF w.addr \in DOMAIN bootTile[t]
                     THEN [bootTile EXCEPT ![t][w.addr] = w.data] ELSE bootTile
      /\ UNCHANGED <<bootPc, bootConfig, bootVals, bootNbf, bootDram>>
  BY DEF ServeTile, bootIn, bootRead
<1>2. /\ bootLinks = [d \in Dest |-> bootLinks[d]]
      /\ \A d \in Dest : /\ IsSeq(bootLinks[d])
                         /\ \A i \in 1 .. Len(bootLinks[d]) : bootLinks[d][i].dst = d /\ WantLine(bootLinks[d][i])
  BY DEF SendInv, LinksOk
<1>3. /\ Len(q) \in Nat \ {0} /\ w = q[1] /\ IsSeq(Tail(q)) /\ Len(Tail(q)) = Len(q) - 1
      /\ \A i \in 1 .. Len(q) - 1 : Tail(q)[i] = q[i + 1]
  BY <1>1, <1>2, DestIs, HeadTaken
<1>4. /\ bootLinks' = [d \in Dest |-> bootLinks'[d]]
      /\ bootLinks'[t] = Tail(q)
      /\ \A d \in Dest : d # t => bootLinks'[d] = bootLinks[d]
  BY <1>1, <1>2, DestIs
<1>5. LinksOk(bootLinks')
  <2>1. ASSUME NEW i \in 1 .. Len(Tail(q))
        PROVE  Tail(q)[i].dst = t /\ WantLine(Tail(q)[i])
    <3>1. i + 1 \in 1 .. Len(q) /\ Tail(q)[i] = q[i + 1]
      BY <1>3
    <3>2. q[i + 1].dst = t /\ WantLine(q[i + 1])
      BY <1>2, <3>1, DestIs
    <3>3. QED
      BY <3>1, <3>2
  <2>2. ASSUME NEW d \in Dest
        PROVE  /\ IsSeq(bootLinks'[d])
               /\ \A i \in 1 .. Len(bootLinks'[d]) : bootLinks'[d][i].dst = d /\ WantLine(bootLinks'[d][i])
    <3>1. CASE d = t
      BY <1>3, <1>4, <2>1, <3>1
    <3>2. CASE d # t
      BY <1>2, <1>4, <3>2
    <3>3. QED
      BY <3>1, <3>2
  <2>3. QED
    BY <1>4, <2>2 DEF LinksOk
<1>6. w.dst = t /\ WantLine(w)
  <2>1. 1 \in 1 .. Len(q)
    BY <1>3
  <2>2. QED
    BY <1>2, <1>3, <2>1, DestIs
<1>7. (bootPc \in {"send", "done"} /\ Settled /\ AllDue) \/ bootPc \notin {"send", "done"}
  BY DEF SendInv
<1>8. bootPc \notin {"read", "dump"}
  BY <1>1, DestIs DEF SendInv
<1>9. /\ bootTile = [u \in BootCores |-> bootTile[u]]
      /\ \A u \in BootCores : bootTile[u] = [r \in Registers |-> bootTile[u][r]]
  BY DEF SendInv, TilesOk
<1>10. /\ bootTile' = [u \in BootCores |-> bootTile'[u]]
       /\ \A u \in BootCores : u # t => bootTile'[u] = bootTile[u]
       /\ bootTile'[t] = [r \in Registers |-> IF r = w.addr THEN w.data ELSE bootTile[t][r]]
  <2>1. CASE w.addr \in DOMAIN bootTile[t]
    <3>1. bootTile' = [bootTile EXCEPT ![t][w.addr] = w.data]
      BY <1>1, <2>1
    <3>2. QED
      BY <1>9, <3>1
  <2>2. CASE w.addr \notin DOMAIN bootTile[t]
    <3>1. bootTile' = bootTile
      BY <1>1, <2>2
    <3>2. \A r \in Registers : r # w.addr
      BY <1>9, <2>2
    <3>3. QED
      BY <1>9, <3>1, <3>2
  <2>3. QED
    BY <2>1, <2>2
<1>11. TilesOk(bootTile')
  <2>1. \A u \in BootCores : bootTile'[u] = [r \in Registers |-> bootTile'[u][r]]
    BY <1>9, <1>10
  <2>2. QED
    BY <1>10, <2>1 DEF TilesOk
<1>12. Settled => Settled'
  <2>1. bootLinks'[Dram] = bootLinks[Dram]
    BY <1>4, DestIs
  <2>2. QED
    BY <1>1, <2>1 DEF Settled
<1>13. ASSUME AllDue, bootConfig, NEW u \in BootCores, NEW r \in ConfigRegs
       PROVE  Due(bootTile'[u][Freeze], bootTile'[u][r], u, r, bootLinks'[u], bootNbf)
  <2>1. Due(bootTile[u][Freeze], bootTile[u][r], u, r, bootLinks[u], bootNbf)
    BY <1>13 DEF AllDue
  <2>2. CASE u # t
    BY <1>4, <1>10, <2>1, <2>2, DestIs
  <2>3. CASE u = t
    <3>1. Freeze \in Registers /\ r \in Registers
      BY RegistersAre DEF ConfigRegs
    <3>2. bootTile'[t][Freeze] = IF w.addr = Freeze THEN w.data ELSE bootTile[t][Freeze]
      BY <1>10, <3>1
    <3>3. bootTile'[t][r] = IF w.addr = r THEN w.data ELSE bootTile[t][r]
      BY <1>10, <3>1
    <3>4. IsSeq(q)
      BY <1>2, DestIs
    <3>5. Due(bootTile[t][Freeze], bootTile[t][r], t, r, q, bootNbf)
      BY <2>1, <2>3
    <3>6. Due(bootTile'[t][Freeze], bootTile'[t][r], t, r, Tail(q), bootNbf)
      BY <1>1, <1>6, <3>2, <3>3, <3>4, <3>5, ServedDue
    <3>7. QED
      BY <1>4, <2>3, <3>6
  <2>4. QED
    BY <2>2, <2>3
<1>14. AllDue => AllDue'
  BY <1>1, <1>13 DEF AllDue
<1>15. LastOk(bootNbf') /\ bootDram' = [x \in BootMemory |-> bootDram'[x]]
  BY <1>1 DEF SendInv
<1>16. QED
  BY <1>1, <1>5, <1>7, <1>8, <1>11, <1>12, <1>14, <1>15 DEF SendInv

----------------------------------------------------------------------------
ImageInv == ReadInv /\ SendInv
BootSpec == BootInit /\ [][BootNext]_bootVars

(* What was read stays.                                                    *)
LEMMA ReadStays ==
  ASSUME ReadInv, UNCHANGED <<bootFile, bootRead>>,
         bootPc' = bootPc \/ (bootPc # "read" /\ bootPc' \in {"dump", "send", "done"})
  PROVE  ReadInv'
<1>1. UNCHANGED <<bootFile, bootPos, bootCurr, bootStep, bootHex, bootVals>>
  BY DEF bootRead
<1>2. Reading' <=> Reading
  BY <1>1 DEF Reading, Stored
<1>3. Words(bootFile', bootVals', Len(bootFile')) <=> Words(bootFile, bootVals, Len(bootFile))
  BY <1>1
<1>4. QED
  BY <1>1, <1>2, <1>3 DEF ReadInv

(* Every step of the tool, the loader and the destinations.                *)
LEMMA ImageStepInv == ImageInv /\ [BootNext]_bootVars => ImageInv'
<1> SUFFICES ASSUME ReadInv, SendInv, [BootNext]_bootVars  PROVE ReadInv' /\ SendInv'
  BY DEF ImageInv
<1>1. CASE ReadAt
  <2>1. bootPc = "read" /\ bootPc' = "read" /\ UNCHANGED <<bootNbf, bootLinks, bootDram, bootTile>>
    BY <1>1 DEF ReadAt
  <2>2. QED
    BY <1>1, <2>1, ReadAtOk, ReadSends
<1>2. CASE ReadByte
  <2>1. bootPc = "read" /\ bootPc' = "read" /\ UNCHANGED <<bootNbf, bootLinks, bootDram, bootTile>>
    BY <1>2 DEF ReadByte
  <2>2. QED
    BY <1>2, <2>1, ReadByteOk, ReadSends
<1>3. CASE ReadEnd
  <2>1. bootPc = "read" /\ bootPc' = "dump" /\ UNCHANGED <<bootNbf, bootLinks, bootDram, bootTile>>
    BY <1>3 DEF ReadEnd
  <2>2. QED
    BY <1>3, <2>1, ReadEndOk, ReadSends
<1>4. CASE Dump
  <2>1. bootPc = "dump" /\ bootPc' = "send" /\ UNCHANGED <<bootFile, bootRead>>
    BY <1>4 DEF Dump, bootIn
  <2>2. QED
    BY <1>4, <2>1, DumpOk, ReadStays
<1>5. CASE SendLine
  <2>1. /\ bootPc = "send" /\ bootPc' = "send" /\ Head(bootNbf).op # 255 /\ bootNbf' = Tail(bootNbf)
        /\ bootLinks' = Pushed(bootLinks, Head(bootNbf))
        /\ UNCHANGED <<bootFile, bootRead, bootConfig, bootVals, bootDram, bootTile>>
    BY <1>5 DEF SendLine, Queued, Pushed, bootIn, bootRead
  <2>2. ReadInv'
    BY <2>1, ReadStays
  <2>3. QED
    BY <2>1, <2>2, SendOk
<1>6. CASE SendFinish
  <2>1. /\ bootPc = "send" /\ bootPc' = "done" /\ Head(bootNbf).op = 255 /\ bootNbf' = Tail(bootNbf)
        /\ bootLinks' = Pushed(bootLinks, Head(bootNbf)) \/ bootLinks' = bootLinks
        /\ UNCHANGED <<bootFile, bootRead, bootConfig, bootVals, bootDram, bootTile>>
    BY <1>6 DEF SendFinish, Queued, Pushed, bootIn, bootRead
  <2>2. ReadInv'
    BY <2>1, ReadStays
  <2>3. QED
    BY <2>1, <2>2, SendOk
<1>7. CASE ServeDram
  <2>1. bootPc' = bootPc /\ UNCHANGED <<bootFile, bootRead>>
    BY <1>7 DEF ServeDram, bootIn
  <2>2. QED
    BY <1>7, <2>1, ServeDramOk, ReadStays
<1>8. ASSUME NEW t \in BootCores, ServeTile(t)
      PROVE  ReadInv' /\ SendInv'
  <2>1. bootPc' = bootPc /\ UNCHANGED <<bootFile, bootRead>>
    BY <1>8 DEF ServeTile, bootIn
  <2>2. QED
    BY <1>8, <2>1, ServeTileOk, ReadStays
<1>9. CASE UNCHANGED bootVars
  <2>1. /\ UNCHANGED <<bootPc, bootConfig, bootVals, bootNbf, bootLinks, bootDram, bootTile>>
        /\ UNCHANGED <<bootFile, bootRead>>
    BY <1>9 DEF bootVars, bootIn, bootRead
  <2>2. QED
    BY <2>1, WordsStay, ReadStays
<1>10. QED
  BY <1>1, <1>2, <1>3, <1>4, <1>5, <1>6, <1>7, <1>8, <1>9 DEF BootNext

(* A released core has no register to wait for.                            *)
LEMMA InvConfigured == ImageInv => ConfiguredBeforeRelease
<1> SUFFICES ASSUME SendInv, ReadInv, bootConfig, NEW t \in BootCores, bootTile[t][Freeze] = 0,
                    NEW r \in Registers \ {Freeze}
             PROVE  bootTile[t][r] = IF r[1] = "ucode" THEN BootUcode[r[2]] ELSE 1
  BY DEF ImageInv, ConfiguredBeforeRelease
<1>1. r \in ConfigRegs
  BY DEF ConfigRegs
<1>2. bootPc \in {"send", "done"}
  <2>1. bootPc \in {"read", "dump", "send", "done"}
    BY DEF ReadInv
  <2>2. bootPc \in {"read", "dump"} => bootTile[t][Freeze] = 1
    BY DEF SendInv
  <2>3. QED
    BY <2>1, <2>2
<1>3. Due(bootTile[t][Freeze], bootTile[t][r], t, r, bootLinks[t], bootNbf)
  BY <1>1, <1>2 DEF SendInv, AllDue
<1>4. bootTile[t][r] = Want(r)
  BY <1>3 DEF Due
<1>5. QED
  BY <1>4 DEF Want

(* With no line left every byte has settled.                               *)
LEMMA InvLoaded == ImageInv => ImageLoaded
<1> SUFFICES ASSUME SendInv, ReadInv, bootPc = "done", \A d \in Dest : bootLinks[d] = <<>>,
                    NEW x \in BootMemory
             PROVE  bootDram[x] = IF \E f \in FileBytes : f.addr = x
                                  THEN (CHOOSE f \in FileBytes : f.addr = x).byte ELSE 0
  BY DEF ImageInv, ImageLoaded
<1> DEFINE F == bootFile  v == bootVals
<1>1. F \in BootFiles /\ Words(F, v, Len(F))
  BY DEF ReadInv
<1>2. Settled /\ bootNbf = <<>> /\ bootLinks[Dram] = <<>>
  BY DestIs DEF SendInv
<1>3. IsFinal(v, x, bootDram[x])
  <2>1. Settling(v, x, bootDram[x], <<>>, <<>>)
    BY <1>2 DEF Settled
  <2>2. ~Puts(v, <<>>, x)
    BY NoElement DEF Puts
  <2>3. QED
    BY <2>1, <2>2 DEF Settling
<1>4. /\ \A a \in DOMAIN v : WordOk(a, v[a])
      /\ \A a \in DOMAIN v : \A k \in 1 .. Len(v[a]) : \E i \in 1 .. Len(F) : ByteAt(F, i, a + k - 1, v[a][k])
      /\ \A i \in BytesIn(F) : i <= Len(F) =>
           \E a \in DOMAIN v : \E k \in 1 .. Len(v[a]) : ByteAt(F, i, a + k - 1, v[a][k])
  BY <1>1 DEF Words
<1>5. \A a \in DOMAIN v : a \in Nat /\ Len(v[a]) \in Nat
  <2>1. \A a \in DOMAIN v : BytesOf(GetOpcode(a)) \in Nat
    BY DEF BytesOf
  <2>2. QED
    BY <1>4, <2>1 DEF WordOk
<1>6. x \in Nat
  BY BootAssumption
<1>7. ASSUME NEW i \in BytesIn(F), AddrOf(F, i) = x
      PROVE  bootDram[x] = F[i].byte
  <2>1. i <= Len(F)
    BY <1>1, TokenKinds
  <2>2. PICK a \in DOMAIN v : \E k \in 1 .. Len(v[a]) : ByteAt(F, i, a + k - 1, v[a][k])
    BY <1>4, <2>1
  <2>3. PICK k \in 1 .. Len(v[a]) : ByteAt(F, i, a + k - 1, v[a][k])
    BY <2>2
  <2>4. a + k - 1 = x /\ F[i].byte = v[a][k]
    BY <1>7, <2>3 DEF ByteAt
  <2>5. Holds(v, a, x) /\ x - a + 1 = k
    BY <1>5, <1>6, <2>4 DEF Holds
  <2>6. QED
    BY <1>3, <2>4, <2>5 DEF IsFinal
<1>8. ASSUME \A i \in BytesIn(F) : AddrOf(F, i) # x
      PROVE  bootDram[x] = 0
  <2>1. ASSUME NEW a \in DOMAIN v, Holds(v, a, x)
        PROVE  FALSE
    <3>1. x - a + 1 \in 1 .. Len(v[a]) /\ a + (x - a + 1) - 1 = x
      BY <1>5, <1>6, <2>1 DEF Holds
    <3>2. PICK i \in 1 .. Len(F) : ByteAt(F, i, a + (x - a + 1) - 1, v[a][x - a + 1])
      BY <1>4, <3>1
    <3>3. QED
      BY <1>8, <3>1, <3>2 DEF ByteAt
  <2>2. QED
    BY <1>3, <2>1 DEF IsFinal
<1>9. \A f : f \in FileBytes <=> \E i \in BytesIn(F) : f = [addr |-> AddrOf(F, i), byte |-> F[i].byte]
  BY DEF FileBytes, FileByte
<1>10. CASE \E f \in FileBytes : f.addr = x
  <2>1. ASSUME NEW f \in FileBytes, f.addr = x
        PROVE  bootDram[x] = f.byte
    <3>1. PICK i \in BytesIn(F) : f = [addr |-> AddrOf(F, i), byte |-> F[i].byte]
      BY <1>9
    <3>2. AddrOf(F, i) = x /\ f.byte = F[i].byte
      BY <2>1, <3>1
    <3>3. QED
      BY <1>7, <3>2
  <2> DEFINE g == CHOOSE f \in FileBytes : f.addr = x
  <2>2. g \in FileBytes /\ g.addr = x
    BY <1>10
  <2>3. bootDram[x] = g.byte
    BY <2>1, <2>2
  <2>4. QED
    BY <1>10, <2>3
<1>11. CASE ~\E f \in FileBytes : f.addr = x
  <2>1. ASSUME NEW i \in BytesIn(F)
        PROVE  AddrOf(F, i) # x
    <3> DEFINE f == [addr |-> AddrOf(F, i), byte |-> F[i].byte]
    <3>1. f \in FileBytes /\ f.addr = AddrOf(F, i)
      BY <1>9
    <3>2. QED
      BY <1>11, <3>1
  <2>2. QED
    BY <1>8, <1>11, <2>1
<1>12. QED
  BY <1>10, <1>11

(* The invariant holds.                                                    *)
LEMMA ImageAlways == BootSpec => []ImageInv
<1>1. BootInit => ImageInv
  BY ReadInitInv, SendInitInv DEF ImageInv
<1>2. QED
  BY <1>1, ImageStepInv, PTL DEF BootSpec

(* In every execution, and for every program, a core that --config sets up *)
(* starts with its microcode in place and its caches and coherence engine  *)
(* in their normal modes, although the loader waits for none of its writes.*)
THEOREM CoresConfigured == BootSpec => []ConfiguredBeforeRelease
<1>1. QED
  BY ImageAlways, InvConfigured, PTL

(* For every dump of aligned sections that do not overlap, and every       *)
(* number of cores and credits: when the last line is served memory holds  *)
(* what the dump says of each address, and zeros elsewhere, although a     *)
(* line writes zeros behind a word that is cut short.                      *)
THEOREM ImagesLoaded == BootSpec => []ImageLoaded
<1>1. QED
  BY ImageAlways, InvLoaded, PTL
=============================================================================
