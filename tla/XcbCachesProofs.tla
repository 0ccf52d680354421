-------------------------- MODULE XcbCachesProofs ---------------------------
(***************************************************************************)
(* The caches of libxcb for any number of threads and whatever they call:  *)
(* each lock is held by the thread between lock and unlock, an extension   *)
(* is asked about once and every caller gets the answer, the maximum       *)
(* request length is the server's, no request is sent that the server does *)
(* not take, and no id is given out that is in use.                        *)
(***************************************************************************)
EXTENDS XcbCaches, SequenceTheorems, WellFoundedInduction, TLAPS

-----------------------------------------------------------------------------
(* Words and their bits                                                    *)

\* Induction: a set of numbers that is not empty has a least one.
LEMMA LeastNumber ==
    ASSUME NEW T \in SUBSET Nat, T # {}
    PROVE  \E x \in T : \A y \in T : x <= y
<1> DEFINE R == OpToRel(<, Nat)
<1>1. IsWellFoundedOn(R, Nat)
  BY NatLessThanWellFounded
<1>2. \A x, y \in Nat : y < x => <<y, x>> \in R
  BY DEF OpToRel
<1> HIDE DEF R
<1>3. PICK x \in T : \A y \in T : ~ (<<y, x>> \in R)
  BY <1>1, WFMin
<1>4. \A y \in T : ~(y < x)
  BY <1>2, <1>3
<1> QED
  BY <1>4

Powers(f, n) ==
    /\ f \in [0 .. n -> Nat \ {0}] /\ f[0] = 1
    /\ \A i \in 1 .. n : f[i] = 2 * f[i - 1]

LEMMA PowersExist ==
    ASSUME NEW n \in Nat
    PROVE  \E f : Powers(f, n)
<1> DEFINE T == {k \in Nat : ~ \E f : Powers(f, k)}
<1> SUFFICES ASSUME T # {} PROVE FALSE
  OBVIOUS
<1>1. PICK x \in T : \A y \in T : x <= y
  BY LeastNumber
<1>2. CASE x = 0
  <2>1. Powers([i \in 0 .. 0 |-> 1], 0)
    BY DEF Powers
  <2> QED
    BY <1>2, <2>1
<1>3. CASE x # 0
  <2>1. x - 1 \in Nat /\ x - 1 \notin T /\ x \in Nat
    BY <1>1, <1>3
  <2>2. PICK f : Powers(f, x - 1)
    BY <2>1
  <2> DEFINE g == [i \in 0 .. x |-> IF i = x THEN 2 * f[x - 1] ELSE f[i]]
  <2>3. \A i \in 0 .. x : i = x \/ i \in 0 .. x - 1
    BY <2>1
  <2>4. \A i \in 0 .. x : g[i] \in Nat \ {0}
    <3>1. \A i \in 0 .. x - 1 : f[i] \in Nat \ {0}
      BY <2>2 DEF Powers
    <3>2. f[x - 1] \in Nat \ {0} /\ 2 * f[x - 1] \in Nat \ {0}
      BY <3>1, <2>1
    <3> QED
      BY <3>1, <3>2, <2>3
  <2>5. g[0] = 1 /\ g \in [0 .. x -> Nat \ {0}]
    <3>1. g[0] = 1
      BY <1>3, <2>1, <2>2 DEF Powers
    <3> QED
      BY <2>4, <3>1
  <2>6. \A i \in 1 .. x : g[i] = 2 * g[i - 1]
    <3> TAKE i \in 1 .. x
    <3>1. i - 1 \in 0 .. x /\ i - 1 # x /\ i \in 0 .. x /\ g[i - 1] = f[i - 1]
      BY <2>1
    <3>2. CASE i = x
      BY <3>1, <3>2
    <3>3. CASE i # x
      <4>1. i \in 1 .. x - 1 /\ g[i] = f[i]
        BY <3>3, <2>1
      <4> QED
        BY <3>1, <4>1, <2>2 DEF Powers
    <3> QED
      BY <3>2, <3>3
  <2>7. Powers(g, x)
    BY <2>5, <2>6 DEF Powers
  <2> QED
    BY <2>7
<1> QED
  BY <1>2, <1>3

LEMMA PowersOfTwo == Powers(pow2, WordBits)
<1> DEFINE n == WordBits
           E(h) == [i \in 0 .. n |-> IF i = 0 THEN 1 ELSE 2 * h[i - 1]]
<1>1. n \in Nat
  BY CachesAssumption
<1>2. PICK f : Powers(f, n)
  BY <1>1, PowersExist
<1>3. f = E(f)
  <2>1. \A i \in 0 .. n : i # 0 => i \in 1 .. n
    BY <1>1
  <2>2. \A i \in 0 .. n : f[i] = IF i = 0 THEN 1 ELSE 2 * f[i - 1]
    BY <1>2, <2>1 DEF Powers
  <2>3. f = [i \in 0 .. n |-> f[i]]
    BY <1>2 DEF Powers
  <2> QED
    BY <2>2, <2>3, Zenon
<1>4. pow2 = CHOOSE h : h = E(h)
  BY DEF pow2
<1>5. pow2 = E(pow2)
  <2> HIDE DEF E
  <2> QED
    BY <1>3, <1>4
<1>6. \A i \in 0 .. n : pow2[i] = IF i = 0 THEN 1 ELSE 2 * pow2[i - 1]
  BY <1>5
<1>7. pow2[0] = 1 /\ \A i \in 1 .. n : pow2[i] = 2 * pow2[i - 1]
  BY <1>1, <1>6
<1>8. \A i \in 0 .. n : pow2[i] = f[i]
  <2> DEFINE T == {i \in 0 .. n : pow2[i] # f[i]}
  <2> SUFFICES ASSUME T # {} PROVE FALSE
    OBVIOUS
  <2>1. PICK x \in T : \A y \in T : x <= y
    <3>1. T \in SUBSET Nat
      BY <1>1
    <3> QED
      BY <3>1, LeastNumber
  <2>2. x # 0
    BY <1>7, <1>2, <2>1 DEF Powers
  <2>3. x \in 1 .. n /\ x - 1 \in 0 .. n /\ x - 1 \notin T
    BY <1>1, <2>1, <2>2
  <2>4. pow2[x] = f[x]
    BY <1>2, <1>7, <2>3 DEF Powers
  <2> QED
    BY <2>1, <2>4
<1>9. pow2 = [i \in 0 .. n |-> pow2[i]]
  BY <1>5
<1>10. pow2 \in [0 .. n -> Nat \ {0}]
  BY <1>2, <1>8, <1>9 DEF Powers
<1> QED
  BY <1>7, <1>10 DEF Powers

\* n without its last i bits.
Shift(n, i) == n \div pow2[i]

\* A quotient.
LEMMA Quotient ==
    ASSUME NEW n \in Nat, NEW p \in Nat \ {0}
    PROVE  /\ n \div p \in Nat
           /\ (n \div p) * p <= n /\ n < (n \div p) * p + p
  BY Z3

LEMMA OneQuotient ==
    ASSUME NEW n \in Nat, NEW p \in Nat \ {0}, NEW q \in Nat, NEW r \in Nat,
           q * p <= n, n < q * p + p, r * p <= n, n < r * p + p
    PROVE  q = r
<1>1. ASSUME NEW x \in Nat, NEW y \in Nat, x < y PROVE x * p + p <= y * p
  <2>1. PICK d \in Nat : y = x + 1 + d
    <3>1. y - x - 1 \in Nat /\ y = x + 1 + (y - x - 1)
      BY <1>1
    <3> QED
      BY <3>1
  <2>2. y * p = x * p + p + d * p
    BY <2>1
  <2>3. d * p \in Nat /\ x * p \in Nat
    OBVIOUS
  <2> QED
    BY <2>2, <2>3
<1>2. q * p \in Nat /\ r * p \in Nat
  OBVIOUS
<1>3. ~(q < r)
  <2> SUFFICES ASSUME q < r PROVE FALSE
    OBVIOUS
  <2>1. q * p + p <= r * p
    BY <1>1
  <2> QED
    BY <1>2, <2>1
<1>4. ~(r < q)
  <2> SUFFICES ASSUME r < q PROVE FALSE
    OBVIOUS
  <2>1. r * p + p <= q * p
    BY <1>1
  <2> QED
    BY <1>2, <2>1
<1> QED
  BY <1>3, <1>4

LEMMA Shifts ==
    ASSUME NEW n \in Nat
    PROVE  /\ \A i \in 0 .. WordBits : Shift(n, i) \in Nat
           /\ Shift(n, 0) = n
           /\ \A i \in 1 .. WordBits : Shift(n, i) = Shift(n, i - 1) \div 2
           /\ Shift(n, WordBits) = 0 <=> n < Word
<1>1. /\ WordBits \in Nat /\ pow2[0] = 1
      /\ \A i \in 0 .. WordBits : pow2[i] \in Nat \ {0}
      /\ \A i \in 1 .. WordBits : pow2[i] = 2 * pow2[i - 1]
  BY PowersOfTwo, CachesAssumption DEF Powers
<1>2. \A i \in 0 .. WordBits : Shift(n, i) \in Nat
  BY <1>1, Quotient DEF Shift
<1>3. Shift(n, 0) = n
  BY <1>1 DEF Shift
<1>4. ASSUME NEW i \in 1 .. WordBits PROVE Shift(n, i) = Shift(n, i - 1) \div 2
  <2> DEFINE p == pow2[i - 1]
             q == n \div p
             r == n \div (2 * p)
             h == q \div 2
  <2>1. p \in Nat \ {0} /\ pow2[i] = 2 * p /\ 2 * p \in Nat \ {0}
    BY <1>1
  <2>2. q \in Nat /\ q * p <= n /\ n < q * p + p
    BY <2>1, Quotient
  <2>3. r \in Nat /\ r * (2 * p) <= n /\ n < r * (2 * p) + 2 * p
    BY <2>1, Quotient
  <2> HIDE DEF p, q, r
  <2>4. h \in Nat /\ (q = 2 * h \/ q = 2 * h + 1)
    BY <2>2
  <2> HIDE DEF h
  <2>5. h * (2 * p) = (2 * h) * p /\ (2 * h + 1) * p = (2 * h) * p + p /\ (2 * h) * p \in Nat
    BY <2>1, <2>4
  <2>6. h * (2 * p) <= n /\ n < h * (2 * p) + 2 * p
    BY <2>1, <2>2, <2>4, <2>5
  <2>7. h = r
    BY <2>1, <2>3, <2>4, <2>6, OneQuotient
  <2> QED
    BY <2>1, <2>7 DEF Shift, h, q, r, p
<1>5. Shift(n, WordBits) = 0 <=> n < Word
  <2>1. Word \in Nat \ {0}
    BY <1>1 DEF Word
  <2> DEFINE q == n \div Word
  <2>2. q \in Nat /\ q * Word <= n /\ n < q * Word + Word
    BY <2>1, Quotient
  <2>3. q = Shift(n, WordBits)
    BY DEF Shift, Word
  <2> HIDE DEF q
  <2>4. q = 0 => n < Word
    BY <2>1, <2>2
  <2>5. n < Word => q = 0
    <3>1. 0 * Word <= n /\ (n < Word => n < 0 * Word + Word)
      BY <2>1
    <3> QED
      BY <2>1, <2>2, <3>1, OneQuotient
  <2> QED
    BY <2>3, <2>4, <2>5
<1> QED
  BY <1>2, <1>3, <1>4, <1>5

LEMMA BitsByShifts ==
    ASSUME NEW n
    PROVE  /\ Bits(n) \subseteq 0 .. WordBits - 1
           /\ \A i \in 0 .. WordBits - 1 : i \in Bits(n) <=> Shift(n, i) % 2 = 1
  BY DEF Bits, Shift

\* A number is what its bits say.
LEMMA BitsDiffer ==
    ASSUME NEW n \in 0 .. Word - 1, NEW m \in 0 .. Word - 1, Bits(n) = Bits(m)
    PROVE  n = m
<1> DEFINE W == WordBits
           T == {k \in 0 .. W : Shift(n, W - k) # Shift(m, W - k)}
<1>1. /\ W \in Nat /\ n \in Nat /\ m \in Nat /\ n < Word /\ m < Word
  <2>1. Word \in Nat
    BY PowersOfTwo, CachesAssumption DEF Powers, Word
  <2> QED
    BY <2>1, CachesAssumption
<1>2. /\ \A i \in 0 .. W : Shift(n, i) \in Nat /\ Shift(m, i) \in Nat
      /\ \A i \in 1 .. W : Shift(n, i) = Shift(n, i - 1) \div 2
      /\ \A i \in 1 .. W : Shift(m, i) = Shift(m, i - 1) \div 2
      /\ Shift(n, 0) = n /\ Shift(m, 0) = m /\ Shift(n, W) = 0 /\ Shift(m, W) = 0
  BY <1>1, Shifts
<1>3. T = {}
  <2> SUFFICES ASSUME T # {} PROVE FALSE
    OBVIOUS
  <2>1. PICK x \in T : \A y \in T : x <= y
    <3>1. T \in SUBSET Nat
      BY <1>1
    <3> QED
      BY <3>1, LeastNumber
  <2>2. x # 0
    BY <1>1, <1>2, <2>1
  <2>3. x \in 1 .. W /\ x - 1 \in 0 .. W /\ x - 1 \notin T
    BY <1>1, <2>1, <2>2
  <2> DEFINE i == W - x
  <2>4. i \in 0 .. W - 1 /\ i + 1 \in 1 .. W /\ (i + 1) - 1 = i /\ W - (x - 1) = i + 1 /\ i \in 0 .. W
    BY <1>1, <2>3
  <2>5. Shift(n, i + 1) = Shift(m, i + 1)
    BY <2>3, <2>4
  <2>6. Shift(n, i) # Shift(m, i)
    BY <2>1
  <2> HIDE DEF i
  <2>7. Shift(n, i) \div 2 = Shift(m, i) \div 2
    BY <1>2, <2>4, <2>5
  <2>8. Shift(n, i) % 2 = 1 <=> Shift(m, i) % 2 = 1
    BY <2>4, BitsByShifts
  <2>9. Shift(n, i) \in Nat /\ Shift(m, i) \in Nat
    BY <1>2, <2>4
  <2> QED
    BY <2>6, <2>7, <2>8, <2>9
<1>4. W \in 0 .. W /\ W - W = 0
  BY <1>1
<1>5. Shift(n, W - W) = Shift(m, W - W)
  BY <1>3, <1>4
<1> QED
  BY <1>2, <1>4, <1>5

\* Adding numbers without a common bit carries nothing.
LEMMA AddShifts ==
    ASSUME NEW a \in Nat, NEW b \in Nat, Bits(a) \cap Bits(b) = {}
    PROVE  \A i \in 0 .. WordBits : Shift(a + b, i) = Shift(a, i) + Shift(b, i)
<1> DEFINE W == WordBits
           c == a + b
           T == {i \in 0 .. W : Shift(c, i) # Shift(a, i) + Shift(b, i)}
<1>1. W \in Nat /\ c \in Nat
  BY CachesAssumption
<1> SUFFICES ASSUME T # {} PROVE FALSE
  OBVIOUS
<1>2. PICK x \in T : \A y \in T : x <= y
  <2>1. T \in SUBSET Nat
    BY <1>1
  <2> QED
    BY <2>1, LeastNumber
<1>3. Shift(a, 0) = a /\ Shift(b, 0) = b /\ Shift(c, 0) = c
  BY <1>1, Shifts
<1>4. x \in 1 .. W /\ x - 1 \in 0 .. W - 1 /\ x - 1 \in 0 .. W /\ x - 1 \notin T
  BY <1>1, <1>2, <1>3
<1> DEFINE s == Shift(a, x - 1)
           r == Shift(b, x - 1)
<1>5. /\ s \in Nat /\ r \in Nat
      /\ Shift(a, x) = s \div 2 /\ Shift(b, x) = r \div 2 /\ Shift(c, x) = Shift(c, x - 1) \div 2
  BY <1>1, <1>4, Shifts
<1>6. Shift(c, x - 1) = s + r
  BY <1>4
<1>7. ~(s % 2 = 1 /\ r % 2 = 1)
  BY <1>4, BitsByShifts
<1>8. (s + r) \div 2 = (s \div 2) + (r \div 2)
  <2> HIDE DEF s, r
  <2> QED
    BY <1>5, <1>7
<1>9. Shift(c, x) # Shift(a, x) + Shift(b, x)
  BY <1>2
<1> QED
  BY <1>5, <1>6, <1>8, <1>9

LEMMA AddBits ==
    ASSUME NEW a \in 0 .. Word - 1, NEW b \in 0 .. Word - 1, Bits(a) \cap Bits(b) = {}
    PROVE  a + b < Word /\ Bits(a + b) = Bits(a) \cup Bits(b)
<1>1. Word \in Nat \ {0} /\ WordBits \in Nat
  BY PowersOfTwo, CachesAssumption DEF Powers, Word
<1>2. a \in Nat /\ b \in Nat /\ a + b \in Nat /\ a < Word /\ b < Word
  BY <1>1
<1>3. \A i \in 0 .. WordBits : Shift(a + b, i) = Shift(a, i) + Shift(b, i)
  BY <1>2, AddShifts
<1>4. Shift(a, WordBits) = 0 /\ Shift(b, WordBits) = 0 /\ WordBits \in 0 .. WordBits
  BY <1>1, <1>2, Shifts
<1>5. a + b < Word
  <2>1. Shift(a + b, WordBits) = 0
    BY <1>3, <1>4
  <2> QED
    BY <1>2, <2>1, Shifts
<1>6. ASSUME NEW i \in 0 .. WordBits - 1
      PROVE  i \in Bits(a + b) <=> i \in Bits(a) \/ i \in Bits(b)
  <2> DEFINE s == Shift(a, i)
             r == Shift(b, i)
  <2>1. s \in Nat /\ r \in Nat /\ Shift(a + b, i) = s + r
    BY <1>1, <1>2, <1>3, Shifts
  <2>2. ~(s % 2 = 1 /\ r % 2 = 1)
    BY BitsByShifts
  <2>3. (s + r) % 2 = 1 <=> s % 2 = 1 \/ r % 2 = 1
    <3> HIDE DEF s, r
    <3> QED
      BY <2>1, <2>2
  <2> QED
    BY <2>1, <2>3, BitsByShifts
<1>7. Bits(a + b) = Bits(a) \cup Bits(b)
  BY <1>6, BitsByShifts
<1> QED
  BY <1>5, <1>7

\* If the bits of a number are the low ones, no smaller number has others.
LEMMA LowBits ==
    ASSUME NEW m \in 0 .. Word - 1, NEW n \in 0 .. m,
           NEW k \in 0 .. WordBits, Bits(m) = 0 .. k - 1
    PROVE  Bits(n) \subseteq Bits(m)
<1> DEFINE W == WordBits
           T == {i \in 0 .. W : ~(Shift(n, i) <= Shift(m, i))}
           U == {i \in 0 .. W - k : Shift(m, W - i) # 0}
<1>1. Word \in Nat \ {0} /\ W \in Nat
  BY PowersOfTwo, CachesAssumption DEF Powers, Word
<1>2. n \in Nat /\ m \in Nat /\ m < Word /\ n <= m
  BY <1>1
<1>3. /\ \A i \in 0 .. W : Shift(n, i) \in Nat /\ Shift(m, i) \in Nat
      /\ \A i \in 1 .. W : Shift(n, i) = Shift(n, i - 1) \div 2
      /\ \A i \in 1 .. W : Shift(m, i) = Shift(m, i - 1) \div 2
      /\ Shift(n, 0) = n /\ Shift(m, 0) = m /\ Shift(m, W) = 0
  BY <1>2, Shifts
<1>4. T = {}
  <2> SUFFICES ASSUME T # {} PROVE FALSE
    OBVIOUS
  <2>1. PICK x \in T : \A y \in T : x <= y
    <3>1. T \in SUBSET Nat
      BY <1>1
    <3> QED
      BY <3>1, LeastNumber
  <2>2. x \in 1 .. W /\ x - 1 \in 0 .. W /\ x - 1 \notin T
    BY <1>1, <1>2, <1>3, <2>1
  <2>3. Shift(n, x - 1) <= Shift(m, x - 1)
    BY <2>2
  <2>4. ASSUME NEW s \in Nat, NEW r \in Nat, s <= r PROVE s \div 2 <= r \div 2
    BY <2>4
  <2>5. Shift(n, x) <= Shift(m, x)
    BY <1>3, <2>2, <2>3, <2>4
  <2> QED
    BY <2>1, <2>5
<1>5. U = {}
  <2> SUFFICES ASSUME U # {} PROVE FALSE
    OBVIOUS
  <2>1. PICK x \in U : \A y \in U : x <= y
    <3>1. U \in SUBSET Nat
      BY <1>1
    <3> QED
      BY <3>1, LeastNumber
  <2>2. x # 0
    BY <1>1, <1>3, <2>1
  <2>3. x \in 1 .. W - k /\ x - 1 \in 0 .. W - k /\ x - 1 \notin U
    BY <1>1, <2>1, <2>2
  <2> DEFINE i == W - x
  <2>4. i \in k .. W - 1 /\ i + 1 \in 1 .. W /\ (i + 1) - 1 = i /\ W - (x - 1) = i + 1
        /\ i \in 0 .. W - 1 /\ i \in 0 .. W /\ i \notin 0 .. k - 1
    BY <1>1, <2>3
  <2>5. Shift(m, i + 1) = 0
    BY <2>3, <2>4
  <2>6. Shift(m, i) # 0
    BY <2>1
  <2> HIDE DEF i
  <2>7. Shift(m, i) \div 2 = 0 /\ Shift(m, i) \in Nat
    BY <1>3, <2>4, <2>5
  <2>8. Shift(m, i) % 2 # 1
    BY <2>4, BitsByShifts
  <2> QED
    BY <2>6, <2>7, <2>8
<1>6. ASSUME NEW i \in Bits(n) PROVE i \in Bits(m)
  <2>1. i \in 0 .. W - 1 /\ i \in 0 .. W /\ Shift(n, i) % 2 = 1
    BY <1>1, BitsByShifts
  <2>2. CASE i \in 0 .. k - 1
    BY <2>2
  <2>3. CASE i \in k .. W - 1
    <3>1. W - i \in 0 .. W - k /\ W - (W - i) = i
      BY <1>1, <2>3
    <3>2. Shift(m, i) = 0
      BY <1>5, <3>1
    <3>3. Shift(n, i) <= 0 /\ Shift(n, i) \in Nat
      BY <1>3, <1>4, <2>1, <3>2
    <3> QED
      BY <2>1, <3>3
  <2> QED
    BY <1>1, <2>1, <2>2, <2>3
<1> QED
  BY <1>6

LEMMA PowerShifts ==
    ASSUME NEW j \in 0 .. WordBits
    PROVE  \A i \in 0 .. j : Shift(pow2[j], i) = pow2[j - i]
<1> DEFINE T == {i \in 0 .. j : Shift(pow2[j], i) # pow2[j - i]}
<1>1. /\ WordBits \in Nat
      /\ \A i \in 0 .. WordBits : pow2[i] \in Nat \ {0}
      /\ \A i \in 1 .. WordBits : pow2[i] = 2 * pow2[i - 1]
  BY PowersOfTwo, CachesAssumption DEF Powers
<1> SUFFICES ASSUME T # {} PROVE FALSE
  OBVIOUS
<1>2. PICK x \in T : \A y \in T : x <= y
  <2>1. T \in SUBSET Nat
    BY <1>1
  <2> QED
    BY <2>1, LeastNumber
<1>3. pow2[j] \in Nat
  BY <1>1
<1>4. Shift(pow2[j], 0) = pow2[j] /\ j - 0 = j
  BY <1>1, <1>3, Shifts
<1>5. x \in 1 .. j /\ x \in 1 .. WordBits /\ x - 1 \in 0 .. j /\ x - 1 \notin T
  BY <1>1, <1>2, <1>4
<1>6. Shift(pow2[j], x) = Shift(pow2[j], x - 1) \div 2
  BY <1>3, <1>5, Shifts
<1>7. Shift(pow2[j], x - 1) = pow2[j - (x - 1)]
  BY <1>5
<1>8. /\ j - (x - 1) \in 1 .. WordBits /\ (j - (x - 1)) - 1 = j - x /\ j - x \in 0 .. WordBits
  BY <1>1, <1>5
<1>9. pow2[j - (x - 1)] = 2 * pow2[j - x] /\ pow2[j - x] \in Nat
  BY <1>1, <1>8
<1>10. Shift(pow2[j], x) = pow2[j - x]
  <2> DEFINE p == pow2[j - x]
  <2>1. p \in Nat /\ Shift(pow2[j], x) = (2 * p) \div 2
    BY <1>6, <1>7, <1>9
  <2> HIDE DEF p
  <2>2. (2 * p) \div 2 = p
    BY <2>1
  <2> QED
    BY <2>1, <2>2 DEF p
<1> QED
  BY <1>2, <1>10

\* A power of two has one bit.
LEMMA PowerBits ==
    ASSUME NEW j \in 0 .. WordBits - 1
    PROVE  pow2[j] \in 1 .. Word - 1 /\ Bits(pow2[j]) = {j}
<1> DEFINE W == WordBits
           T == {i \in j + 1 .. W : Shift(pow2[j], i) # 0}
<1>1. /\ W \in Nat /\ pow2[0] = 1
      /\ \A i \in 0 .. W : pow2[i] \in Nat \ {0}
      /\ \A i \in 1 .. W : pow2[i] = 2 * pow2[i - 1]
  BY PowersOfTwo, CachesAssumption DEF Powers
<1>2. j \in 0 .. W /\ j \in Nat /\ pow2[j] \in Nat \ {0}
  BY <1>1
<1>3. \A i \in 0 .. j : Shift(pow2[j], i) = pow2[j - i]
  BY <1>2, PowerShifts
<1>4. Shift(pow2[j], j) = 1
  BY <1>1, <1>2, <1>3
<1>5. \A i \in 1 .. W : Shift(pow2[j], i) = Shift(pow2[j], i - 1) \div 2
  BY <1>2, Shifts
<1>6. T = {}
  <2> SUFFICES ASSUME T # {} PROVE FALSE
    OBVIOUS
  <2>1. PICK x \in T : \A y \in T : x <= y
    <3>1. T \in SUBSET Nat
      BY <1>1, <1>2
    <3> QED
      BY <3>1, LeastNumber
  <2>2. x \in j + 1 .. W /\ x \in 1 .. W
    BY <1>1, <1>2, <2>1
  <2>3. Shift(pow2[j], x - 1) \in {0, 1}
    <3>1. CASE x = j + 1
      BY <3>1, <1>2, <1>4
    <3>2. CASE x # j + 1
      <4>1. x - 1 \in j + 1 .. W /\ x - 1 \notin T
        BY <3>2, <1>1, <1>2, <2>1, <2>2
      <4> QED
        BY <4>1
    <3> QED
      BY <3>1, <3>2
  <2>4. Shift(pow2[j], x) = 0
    BY <1>5, <2>2, <2>3
  <2> QED
    BY <2>1, <2>4
<1>7. W \in j + 1 .. W
  BY <1>1, <1>2
<1>8. pow2[j] < Word
  <2>1. Shift(pow2[j], W) = 0
    BY <1>6, <1>7
  <2> QED
    BY <1>2, <2>1, Shifts
<1>9. Word \in Nat
  BY <1>1 DEF Word
<1>10. ASSUME NEW i \in 0 .. W - 1 PROVE i \in Bits(pow2[j]) <=> i = j
  <2>1. i \in Bits(pow2[j]) <=> Shift(pow2[j], i) % 2 = 1
    BY BitsByShifts
  <2>2. CASE i < j
    <3>1. i \in 0 .. j /\ j - i \in 1 .. W /\ (j - i) - 1 \in 0 .. W
      BY <1>1, <1>2, <2>2
    <3>2. Shift(pow2[j], i) = 2 * pow2[(j - i) - 1] /\ pow2[(j - i) - 1] \in Nat
      BY <1>1, <1>3, <3>1
    <3>3. Shift(pow2[j], i) % 2 = 0
      <4> DEFINE p == pow2[(j - i) - 1]
      <4>1. p \in Nat /\ Shift(pow2[j], i) = 2 * p
        BY <3>2
      <4> HIDE DEF p
      <4> QED
        BY <4>1
    <3> QED
      BY <2>1, <2>2, <3>3, <1>2
  <2>3. CASE i = j
    BY <2>1, <2>3, <1>4
  <2>4. CASE i > j
    <3>1. i \in j + 1 .. W
      BY <1>1, <1>2, <2>4
    <3>2. Shift(pow2[j], i) = 0
      BY <1>6, <3>1
    <3> QED
      BY <2>1, <2>4, <3>2, <1>2
  <2> QED
    BY <1>1, <1>2, <2>2, <2>3, <2>4
<1> QED
  BY <1>2, <1>8, <1>9, <1>10, BitsByShifts

\* A number and its complement have the lowest bit in common and no other.
LEMMA Complement ==
    ASSUME NEW m \in 1 .. Word - 1, NEW j \in Bits(m), \A i \in Bits(m) : j <= i
    PROVE  Bits(m) \cap Bits(Word - m) = {j}
<1> DEFINE W == WordBits
           c == Word - m
           Sum(i) == pow2[W - i] - IF i > j THEN 1 ELSE 0
           T == {i \in 0 .. W : Shift(m, i) + Shift(c, i) # Sum(i)}
<1>1. /\ W \in Nat /\ Word = pow2[W]
      /\ \A i \in 0 .. W : pow2[i] \in Nat \ {0}
      /\ \A i \in 1 .. W : pow2[i] = 2 * pow2[i - 1]
  BY PowersOfTwo, CachesAssumption DEF Powers, Word
<1>2. m \in Nat /\ c \in Nat /\ Word \in Nat /\ m + c = Word
  BY <1>1
<1>3. j \in 0 .. W - 1 /\ j \in Nat
  BY <1>1, BitsByShifts
<1>4. ASSUME NEW i \in 1 .. W
      PROVE  /\ Shift(m, i - 1) \in Nat /\ Shift(c, i - 1) \in Nat
             /\ Shift(m, i) = Shift(m, i - 1) \div 2 /\ Shift(c, i) = Shift(c, i - 1) \div 2
  <2>1. i - 1 \in 0 .. W
    BY <1>1
  <2> QED
    BY <1>2, <2>1, Shifts
<1>5. ASSUME NEW i \in 0 .. W - 1
      PROVE  pow2[W - i] = 2 * pow2[W - (i + 1)] /\ pow2[W - (i + 1)] \in Nat
  <2>1. W - i \in 1 .. W /\ (W - i) - 1 = W - (i + 1) /\ W - (i + 1) \in 0 .. W
    BY <1>1
  <2> QED
    BY <1>1, <2>1
<1> HIDE DEF c
<1>6. T = {}
  <2> SUFFICES ASSUME T # {} PROVE FALSE
    OBVIOUS
  <2>1. PICK x \in T : \A y \in T : x <= y
    <3>1. T \in SUBSET Nat
      BY <1>1
    <3> QED
      BY <3>1, LeastNumber
  <2>2. x # 0
    <3>1. Shift(m, 0) = m /\ Shift(c, 0) = c /\ W - 0 = W /\ ~(0 > j)
      BY <1>1, <1>2, <1>3, Shifts
    <3>2. Shift(m, 0) + Shift(c, 0) = Sum(0)
      BY <1>1, <1>2, <3>1
    <3> QED
      BY <2>1, <3>2
  <2>3. x \in 1 .. W /\ x - 1 \in 0 .. W /\ x - 1 \notin T /\ x - 1 \in 0 .. W - 1
        /\ (x - 1) + 1 = x
    BY <1>1, <2>1, <2>2
  <2> DEFINE s == Shift(m, x - 1)
             r == Shift(c, x - 1)
             p == pow2[W - x]
  <2>4. s \in Nat /\ r \in Nat /\ Shift(m, x) = s \div 2 /\ Shift(c, x) = r \div 2
    BY <1>4, <2>3
  <2>5. pow2[W - (x - 1)] = 2 * p /\ p \in Nat
    BY <1>5, <2>3
  <2>6. s + r = 2 * p - IF x - 1 > j THEN 1 ELSE 0
    BY <2>3, <2>5
  <2>7. (s % 2 = 1 <=> x - 1 \in Bits(m))
    BY <2>3, BitsByShifts
  <2>8. s \div 2 + r \div 2 # p - IF x > j THEN 1 ELSE 0
    BY <2>1, <2>4
  <2> HIDE DEF s, r, p
  <2>9. CASE x - 1 < j
    <3>1. s % 2 # 1 /\ ~(x - 1 > j) /\ ~(x > j)
      BY <2>9, <2>3, <2>7, <1>3, <1>1
    <3>2. s + r = 2 * p
      BY <2>4, <2>5, <2>6, <3>1
    <3>3. s \div 2 + r \div 2 = p
      BY <2>4, <2>5, <3>1, <3>2
    <3> QED
      BY <2>5, <2>8, <3>1, <3>3
  <2>10. CASE x - 1 = j
    <3>1. s % 2 = 1 /\ ~(x - 1 > j) /\ x > j
      BY <2>10, <2>3, <2>7, <1>3, <1>1
    <3>2. s + r = 2 * p
      BY <2>4, <2>5, <2>6, <3>1
    <3>3. s \div 2 + r \div 2 = p - 1
      BY <2>4, <2>5, <3>1, <3>2
    <3> QED
      BY <2>5, <2>8, <3>1, <3>3
  <2>11. CASE x - 1 > j
    <3>1. x > j
      BY <2>11, <2>3, <1>3, <1>1
    <3>2. s + r = 2 * p - 1
      BY <2>4, <2>5, <2>6, <2>11
    <3>3. s \div 2 + r \div 2 = p - 1
      BY <2>4, <2>5, <3>2
    <3> QED
      BY <2>5, <2>8, <3>1, <3>3
  <2> QED
    BY <1>1, <1>3, <2>3, <2>9, <2>10, <2>11
<1>7. ASSUME NEW i \in 0 .. W - 1 PROVE i \in Bits(m) /\ i \in Bits(c) <=> i = j
  <2> DEFINE s == Shift(m, i)
             r == Shift(c, i)
             p == pow2[W - (i + 1)]
  <2>1. i \in 0 .. W /\ s \in Nat /\ r \in Nat
    <3>1. i \in 0 .. W
      BY <1>1
    <3> QED
      BY <3>1, <1>2, Shifts
  <2>2. (s % 2 = 1 <=> i \in Bits(m)) /\ (r % 2 = 1 <=> i \in Bits(c))
    BY BitsByShifts
  <2>3. p \in Nat /\ s + r = 2 * p - IF i > j THEN 1 ELSE 0
    BY <1>5, <1>6, <2>1
  <2> HIDE DEF s, r, p
  <2>4. CASE i < j
    BY <2>2, <2>4, <1>3
  <2>5. CASE i = j
    <3>1. s + r = 2 * p /\ s % 2 = 1
      BY <2>1, <2>2, <2>3, <2>5, <1>3
    <3>2. r % 2 = 1
      BY <2>1, <2>3, <3>1
    <3> QED
      BY <2>2, <2>5, <3>1, <3>2
  <2>6. CASE i > j
    <3>1. s + r = 2 * p - 1
      BY <2>1, <2>3, <2>6
    <3>2. ~(s % 2 = 1 /\ r % 2 = 1)
      BY <2>1, <2>3, <3>1
    <3> QED
      BY <2>2, <2>6, <3>2, <1>3
  <2> QED
    BY <1>1, <1>3, <2>4, <2>5, <2>6
<1> QED
  BY <1>3, <1>7, BitsByShifts DEF c

\* mask & -mask is a power of two, that of the lowest bit.
LEMMA LowestBit ==
    ASSUME NEW m \in 1 .. Word - 1
    PROVE  \E j \in Bits(m) :
             /\ \A i \in Bits(m) : j <= i
             /\ lowest_bit(m) = pow2[j] /\ lowest_bit(m) \in 1 .. Word - 1
<1>1. WordBits \in Nat /\ Word \in Nat \ {0}
  BY PowersOfTwo, CachesAssumption DEF Powers, Word
<1>2. Bits(0) = {}
  <2>1. ASSUME NEW i \in 0 .. WordBits - 1 PROVE i \notin Bits(0)
    <3>1. pow2[i] \in Nat \ {0}
      BY <1>1, PowersOfTwo DEF Powers
    <3>2. 0 \div pow2[i] = 0
      <4> DEFINE q == 0 \div pow2[i]
      <4>1. q \in Nat /\ q * pow2[i] <= 0 /\ 0 < q * pow2[i] + pow2[i]
        BY <3>1, Quotient
      <4>2. 0 * pow2[i] <= 0 /\ 0 < 0 * pow2[i] + pow2[i]
        BY <3>1
      <4> HIDE DEF q
      <4>3. q = 0
        BY <3>1, <4>1, <4>2, OneQuotient
      <4> QED
        BY <4>3 DEF q
    <3> QED
      BY <3>2 DEF Bits
  <2> QED
    BY <2>1, BitsByShifts
<1>3. Bits(m) # {}
  <2>1. m \in 0 .. Word - 1 /\ 0 \in 0 .. Word - 1 /\ m # 0
    BY <1>1
  <2> QED
    BY <1>2, <2>1, BitsDiffer
<1>4. PICK j \in Bits(m) : \A i \in Bits(m) : j <= i
  <2>1. Bits(m) \in SUBSET Nat
    BY <1>1, BitsByShifts
  <2> QED
    BY <1>3, <2>1, LeastNumber
<1>5. j \in 0 .. WordBits - 1
  BY BitsByShifts
<1>6. pow2[j] \in 1 .. Word - 1 /\ Bits(pow2[j]) = {j}
  BY <1>5, PowerBits
<1>7. Bits(m) \cap Bits(Word - m) = {j}
  BY <1>4, Complement
<1>8. IsLowestBit(pow2[j], m)
  BY <1>6, <1>7 DEF IsLowestBit
<1>9. lowest_bit(m) \in 1 .. Word - 1 /\ IsLowestBit(lowest_bit(m), m)
  BY <1>6, <1>8 DEF lowest_bit
<1>10. lowest_bit(m) = pow2[j]
  <2>1. Bits(lowest_bit(m)) = Bits(pow2[j])
    BY <1>8, <1>9 DEF IsLowestBit
  <2>2. lowest_bit(m) \in 0 .. Word - 1 /\ pow2[j] \in 0 .. Word - 1
    BY <1>1, <1>6, <1>9
  <2> QED
    BY <2>1, <2>2, BitsDiffer
<1> QED
  BY <1>4, <1>9, <1>10

LEMMA WordIsNat == Word \in Nat \ {0}
BY PowersOfTwo, CachesAssumption DEF Powers, Word

-----------------------------------------------------------------------------
(* The invariant: stacks                                                   *)

\* The labels of each function.
GetExt == {"get_ext", "force_ext", "wait_ext", "read_ext"}
LazyExt == {"prefetch_ext", "lazy_ext"}
PrefetchMax == {"prefetch_max", "lock_max", "enable_max", "enabled_max"}
GetMax == {"get_max", "force_max", "wait_max", "read_max"}
Send == {"send", "send_ext", "send_len", "send_long", "send_out"}

\* Frame f has been called by frame g.
CalledBy(f, g) ==
    \/ g.at = "enable_max" /\ f.at \in GetExt /\ f.ext = big_requests
    \/ g.at = "enabled_max" /\ f.at \in Send /\ f.ext = big_requests
    \/ g.at = "force_max" /\ f.at \in PrefetchMax
    \/ g.at = "send_ext" /\ f.at \in GetExt /\ f.ext = g.ext
    \/ g.at = "send_long" /\ f.at \in GetMax
    \/ g.at = "range_id" /\ f.at \in GetExt /\ f.ext = xc_misc
    \/ g.at = "wait_id" /\ f.at \in Send /\ f.ext = xc_misc

Chained(s) == \A i \in 1 .. Len(s) - 1 : CalledBy(s[i], s[i + 1])

\* A stack has a frame at one of these labels; it has one at most.
Some(s, labels) == \E i \in 1 .. Len(s) : s[i].at \in labels
Once(s, labels) ==
    \A i, j \in 1 .. Len(s) : s[i].at \in labels /\ s[j].at \in labels => i = j

InExt == {"wait_ext"}
InMax == {"enable_max", "enabled_max", "wait_max"}
InXid == {"range_id", "wait_id"}

LockLabels == [ext |-> InExt, reqlen |-> InMax, xid |-> InXid]

LockInv ==
    /\ lock \in [Locks -> Thread \cup {NoThread}]
    /\ \A l \in Locks, t \in Thread :
         /\ lock[l] = t <=> Some(stack[t], LockLabels[l])
         /\ Once(stack[t], LockLabels[l])
-----------------------------------------------------------------------------
(* The invariant: the caches                                               *)

Request == [kind : {"query_extension", "send", "raw"}, ext : Ext \cup {NoExt}, len : Nat]
IdRange == [start : 0 .. Word - 1, count : Nat]

CacheTypes ==
    /\ prog \in Programs /\ script \in [Thread -> Seq(Call)]
    /\ stack \in [Thread -> Seq(Frame)] /\ val \in [Thread -> Nat]
    /\ has_error \in BOOLEAN
    /\ global_id \in [Ext -> Nat] /\ next_global_id \in Nat
    /\ extensions \in Seq(Lazy) /\ home \in Nat /\ maxlen \in Lazy
    /\ requests \in Seq(Request)
    /\ answers \in Seq([present : BOOLEAN, length : Nat, range : IdRange])
    /\ Len(answers) <= Len(requests) /\ collected \subseteq 0 .. Len(requests)

XidTypes == last \in 0 .. Word - 1 /\ max \in 0 .. Word - 1 /\ inc \in 1 .. Word - 1

AnswersRight ==
    \A i \in 1 .. Len(answers) :
        /\ answers[i].present <=> requests[i].ext \in prog.has
        /\ answers[i].length = prog.big

\* Request k asks about extension e; it enables BIG-REQUESTS; it asks for ids.
IsQuery(k, e) ==
    k \in 1 .. Len(requests) /\ requests[k] = Req("query_extension", e, 1)
IsSend(k, e) ==
    k \in 1 .. Len(requests) /\ requests[k].kind = "send" /\ requests[k].ext = e

Asked(e) == \E k \in 1 .. Len(requests) : IsQuery(k, e)

\* The answer to the question about e; none if the connection broke.
IsAnswer(v, e) == IsQuery(v, e) /\ v <= Len(answers)

\* What an entry of the table says about extension e.
EntryOK(e, x) ==
    /\ x.tag = "NONE" => ~Asked(e)
    /\ x.tag = "COOKIE" =>
         (x.value = 0 /\ has_error) \/ (IsQuery(x.value, e) /\ x.value \notin collected)
    /\ x.tag = "FORCED" => (x.value = 0 /\ has_error) \/ IsAnswer(x.value, e)

AskedOnce ==
    \A i, j \in 1 .. Len(requests) :
        requests[i].kind = "query_extension" /\ requests[i] = requests[j] => i = j

ExtInv ==
    /\ \A e \in Ext : global_id[e] <= next_global_id
    /\ \A e, f \in Ext : global_id[e] = global_id[f] /\ global_id[e] # 0 => e = f
    /\ \A e \in Ext : IF global_id[e] \in 1 .. Len(extensions)
                      THEN EntryOK(e, extensions[global_id[e]]) ELSE ~Asked(e)
    /\ \A i \in 1 .. Len(extensions) : i > next_global_id => extensions[i].tag = "NONE"
    /\ AskedOnce

\* Nothing was read from where the table had been, and memory was found.
Good == stale = {} /\ "nomem" \notin prog.faults

MaxInv ==
    /\ maxlen.tag = "NONE" => maxlen.value = 0
    /\ maxlen.tag = "COOKIE" =>
         /\ big_requests \in prog.has
         /\ IF maxlen.value = 0 THEN has_error \/ lock["reqlen"] # NoThread
            ELSE IsSend(maxlen.value, big_requests)
    /\ maxlen.tag = "FORCED" =>
         maxlen.value \in {prog.short, Limit} /\ (Good => has_error \/ maxlen.value = Limit)
    /\ maxlen.tag # "FORCED" => \A k \in collected : ~IsSend(k, big_requests)
-----------------------------------------------------------------------------
(* The invariant: what a thread may rely on                                *)

FrameOK(f) ==
    /\ f.at \in GetExt \cup LazyExt => f.ext \in Ext
    /\ f.at = "wait_ext" => extensions[f.data[2]].tag = "COOKIE"
    /\ f.at = "read_ext" => extensions[f.data[2]].tag = "FORCED"
    /\ f.at \in {"wait_ext", "read_ext"} =>
         f.data[2] = global_id[f.ext] /\ f.data[2] \in 1 .. Len(extensions)
    /\ f.at = "send_ext" => f.ext # NoExt
    /\ f.at \in {"send_len", "send_long", "send_out"} => f.ext \in prog.has \cup {NoExt}
    /\ f.at = "send_out" => f.len <= prog.short \/ f.len <= Limit
    /\ f.at = "enable_max" => maxlen.tag = "NONE"
    /\ f.at = "enabled_max" => maxlen.tag = "COOKIE" /\ maxlen.value = 0
    /\ f.at = "wait_max" => maxlen.tag = "COOKIE" /\ (maxlen.value = 0 => has_error)
    /\ f.at = "read_max" => maxlen.tag = "FORCED" \/ has_error

ExtVal(v, e) == IF v = 0 THEN Good => has_error ELSE IsAnswer(v, e)

\* What the call that has just returned to frame f has left in v.
ValOK(f, v) ==
    /\ f.at = "enable_max" => ExtVal(v, big_requests)
    /\ f.at = "send_ext" => ExtVal(v, f.ext)
    /\ f.at = "enabled_max" => IF v = 0 THEN has_error ELSE IsSend(v, big_requests)
    /\ f.at = "wait_id" => v = 0 \/ IsSend(v, xc_misc)
    /\ f.at = "force_max" => maxlen.tag # "NONE" \/ has_error
    /\ f.at = "send_long" => v \in {0, prog.short, Limit}

ThreadOK(t) ==
    /\ Chained(stack[t])
    /\ \A i \in 1 .. Len(stack[t]) : FrameOK(stack[t][i])
    /\ stack[t] # <<>> => ValOK(stack[t][1], val[t])

\* A thread that has seen the connection broken reads the length without
\* waiting for it.  Nobody puts a cookie in its place meanwhile.
Doomed(s, v) ==
    \A i \in 1 .. Len(s) : s[i].at = "enable_max" =>
        (i = 1 /\ v = 0) \/ (i = 2 /\ s[1].at = "get_ext")

NoLateCookie ==
    maxlen.tag # "FORCED" /\ (\E u \in Thread : Some(stack[u], {"read_max"})) =>
        maxlen.tag = "NONE" /\ has_error /\ \A t \in Thread : Doomed(stack[t], val[t])

\* A request that fits the short field, the limit, or the limit but for the word
\* of its long length.
Fits(n, short, limit) == n <= short \/ n <= limit \/ (n = limit + 1 /\ short < limit)

\* What was recorded.
RecordsRight ==
    /\ stale = {} => \A s \in seen : ~s.error => IsQuery(s.reply, s.ext)
    /\ Good => \A l \in lengths : ~l.error => l.length = Limit
    /\ \A i \in 1 .. Len(requests) : requests[i].kind = "send" =>
         /\ Fits(requests[i].len, prog.short, Limit)
         /\ requests[i].ext \in prog.has \cup {NoExt}

CacheInv ==
    /\ CacheTypes /\ XidTypes /\ LockInv /\ AnswersRight /\ ExtInv /\ MaxInv
    /\ (\A t \in Thread : ThreadOK(t)) /\ NoLateCookie /\ RecordsRight
-----------------------------------------------------------------------------
(* Steps of a stack                                                        *)

\* Stack r is s with another first frame f; with f and g in its place;
\* without it.
Retop(s, r, f) ==
    /\ s \in Seq(Frame) /\ r \in Seq(Frame) /\ Len(s) \in Nat /\ Len(s) > 0
    /\ Len(r) = Len(s) /\ r[1] = f /\ \A i \in 2 .. Len(s) : r[i] = s[i]
Pushed(s, r, f, g) ==
    /\ s \in Seq(Frame) /\ r \in Seq(Frame) /\ Len(s) \in Nat /\ Len(s) > 0
    /\ Len(r) = Len(s) + 1 /\ r[1] = f /\ r[2] = g /\ \A i \in 2 .. Len(s) : r[i + 1] = s[i]
Popped(s, r) ==
    /\ s \in Seq(Frame) /\ r \in Seq(Frame) /\ Len(s) \in Nat /\ Len(s) > 0
    /\ Len(r) = Len(s) - 1 /\ \A i \in 2 .. Len(s) : r[i - 1] = s[i]
Called(s, r, f) ==
    s = <<>> /\ r \in Seq(Frame) /\ Len(r) = 1 /\ r[1] = f

\* What a step does to the frames at the labels ls.
Keeps(s, r, ls) == (Some(r, ls) <=> Some(s, ls)) /\ (Once(s, ls) => Once(r, ls))
Gains(s, r, ls) == Some(r, ls) /\ (~Some(s, ls) => Once(r, ls))
Loses(s, r, ls) == Once(s, ls) => ~Some(r, ls) /\ Once(r, ls)

LEMMA RetopLabels ==
    ASSUME NEW s, NEW r, NEW f, NEW ls, Retop(s, r, f)
    PROVE  /\ (f.at \in ls <=> s[1].at \in ls) => Keeps(s, r, ls)
           /\ f.at \in ls => Gains(s, r, ls)
           /\ f.at \notin ls /\ s[1].at \in ls => Loses(s, r, ls)
<1>1. /\ Len(s) \in Nat /\ Len(s) > 0 /\ Len(r) = Len(s) /\ r[1] = f
      /\ \A i \in 1 .. Len(s) : i = 1 \/ r[i] = s[i]
      /\ 1 \in 1 .. Len(s)
  BY DEF Retop
<1>2. (f.at \in ls <=> s[1].at \in ls) => \A i \in 1 .. Len(s) : r[i].at \in ls <=> s[i].at \in ls
  BY <1>1
<1>3. (f.at \in ls <=> s[1].at \in ls) => Keeps(s, r, ls)
  <2> HAVE f.at \in ls <=> s[1].at \in ls
  <2>1. \A i \in 1 .. Len(s) : r[i].at \in ls <=> s[i].at \in ls
    BY <1>2
  <2> QED
    BY <1>1, <2>1 DEF Keeps, Some, Once
<1>4. f.at \in ls => Gains(s, r, ls)
  BY <1>1 DEF Gains, Some, Once
<1>5. f.at \notin ls /\ s[1].at \in ls => Loses(s, r, ls)
  BY <1>1 DEF Loses, Some, Once
<1> QED
  BY <1>3, <1>4, <1>5

LEMMA PushedLabels ==
    ASSUME NEW s, NEW r, NEW f, NEW g, NEW ls, Pushed(s, r, f, g), f.at \notin ls
    PROVE  /\ (g.at \in ls <=> s[1].at \in ls) => Keeps(s, r, ls)
           /\ g.at \in ls => Gains(s, r, ls)
<1>1. /\ Len(s) \in Nat /\ Len(s) > 0 /\ Len(r) = Len(s) + 1 /\ r[1] = f /\ r[2] = g
      /\ \A i \in 2 .. Len(s) : r[i + 1] = s[i]
  BY DEF Pushed
<1>2. /\ \A j \in 1 .. Len(r) : j \in {1, 2} \/ (j - 1 \in 2 .. Len(s) /\ r[j] = s[j - 1])
      /\ 1 \in 1 .. Len(s) /\ 1 \in 1 .. Len(r) /\ 2 \in 1 .. Len(r)
      /\ \A i \in 2 .. Len(s) : i + 1 \in 1 .. Len(r)
      /\ \A i \in 1 .. Len(s) : i = 1 \/ i \in 2 .. Len(s)
  <2>1. \A j \in 1 .. Len(r) : j \in {1, 2} \/ j - 1 \in 2 .. Len(s)
    BY <1>1
  <2>2. \A j \in 1 .. Len(r) : j - 1 \in 2 .. Len(s) => r[j] = s[j - 1]
    <3> TAKE j \in 1 .. Len(r)
    <3> HAVE j - 1 \in 2 .. Len(s)
    <3>1. r[(j - 1) + 1] = s[j - 1]
      BY <1>1
    <3>2. (j - 1) + 1 = j
      OBVIOUS
    <3> QED
      BY <3>1, <3>2
  <2> QED
    BY <1>1, <2>1, <2>2
<1>3. (g.at \in ls <=> s[1].at \in ls) => Keeps(s, r, ls)
  <2> HAVE g.at \in ls <=> s[1].at \in ls
  <2>1. Some(r, ls) => Some(s, ls)
    BY <1>1, <1>2 DEF Some
  <2>2. Some(s, ls) => Some(r, ls)
    BY <1>1, <1>2 DEF Some
  <2>3. Once(s, ls) => Once(r, ls)
    <3> HAVE Once(s, ls)
    <3> SUFFICES ASSUME NEW i \in 1 .. Len(r), NEW j \in 1 .. Len(r),
                        r[i].at \in ls, r[j].at \in ls
                 PROVE  i = j
      BY DEF Once
    <3>1. i # 1 /\ j # 1
      BY <1>1
    <3>2. i - 1 \in 1 .. Len(s) /\ j - 1 \in 1 .. Len(s)
      BY <3>1, <1>1, <1>2
    <3>3. s[i - 1].at \in ls /\ s[j - 1].at \in ls
      BY <3>1, <1>1, <1>2
    <3>4. i - 1 = j - 1
      BY <3>2, <3>3 DEF Once
    <3> QED
      BY <3>4
  <2> QED
    BY <2>1, <2>2, <2>3 DEF Keeps
<1>4. g.at \in ls => Gains(s, r, ls)
  <2> HAVE g.at \in ls
  <2>1. Some(r, ls)
    BY <1>1, <1>2 DEF Some
  <2>2. ~Some(s, ls) => Once(r, ls)
    <3> HAVE ~Some(s, ls)
    <3>1. \A j \in 1 .. Len(r) : r[j].at \in ls => j = 2
      BY <1>1, <1>2 DEF Some
    <3> QED
      BY <3>1 DEF Once
  <2> QED
    BY <2>1, <2>2 DEF Gains
<1> QED
  BY <1>3, <1>4

LEMMA PoppedLabels ==
    ASSUME NEW s, NEW r, NEW ls, Popped(s, r)
    PROVE  /\ s[1].at \notin ls => Keeps(s, r, ls)
           /\ s[1].at \in ls => Loses(s, r, ls)
<1>1. /\ Len(s) \in Nat /\ Len(s) > 0 /\ Len(r) = Len(s) - 1
      /\ \A i \in 2 .. Len(s) : r[i - 1] = s[i]
  BY DEF Popped
<1>2. /\ \A j \in 1 .. Len(r) : j + 1 \in 1 .. Len(s) /\ r[j] = s[j + 1]
      /\ \A i \in 1 .. Len(s) : i = 1 \/ (i - 1 \in 1 .. Len(r) /\ r[i - 1] = s[i])
      /\ 1 \in 1 .. Len(s)
  <2>1. \A j \in 1 .. Len(r) : j + 1 \in 2 .. Len(s) /\ (j + 1) - 1 = j
    BY <1>1
  <2>2. \A j \in 1 .. Len(r) : r[j] = s[j + 1]
    <3> TAKE j \in 1 .. Len(r)
    <3>1. r[(j + 1) - 1] = s[j + 1]
      BY <1>1, <2>1
    <3> QED
      BY <3>1, <2>1
  <2> QED
    BY <1>1, <2>1, <2>2
<1>3. s[1].at \notin ls => Keeps(s, r, ls)
  <2> HAVE s[1].at \notin ls
  <2>1. Some(r, ls) => Some(s, ls)
    BY <1>2 DEF Some
  <2>2. Some(s, ls) => Some(r, ls)
    BY <1>2 DEF Some
  <2>3. Once(s, ls) => Once(r, ls)
    <3> HAVE Once(s, ls)
    <3> SUFFICES ASSUME NEW i \in 1 .. Len(r), NEW j \in 1 .. Len(r),
                        r[i].at \in ls, r[j].at \in ls
                 PROVE  i = j
      BY DEF Once
    <3>1. i + 1 \in 1 .. Len(s) /\ j + 1 \in 1 .. Len(s)
      BY <1>2
    <3>2. s[i + 1].at \in ls /\ s[j + 1].at \in ls
      BY <1>2
    <3>3. i + 1 = j + 1
      BY <3>1, <3>2 DEF Once
    <3> QED
      BY <3>3
  <2> QED
    BY <2>1, <2>2, <2>3 DEF Keeps
<1>4. s[1].at \in ls => Loses(s, r, ls)
  <2> HAVE s[1].at \in ls
  <2> SUFFICES ASSUME Once(s, ls) PROVE ~Some(r, ls) /\ Once(r, ls)
    BY DEF Loses
  <2>1. \A j \in 1 .. Len(r) : r[j].at \notin ls
    <3> SUFFICES ASSUME NEW j \in 1 .. Len(r), r[j].at \in ls PROVE FALSE
      OBVIOUS
    <3>1. j + 1 \in 1 .. Len(s) /\ s[j + 1].at \in ls
      BY <1>2
    <3>2. j + 1 = 1
      BY <3>1, <1>2 DEF Once
    <3> QED
      BY <3>2
  <2> QED
    BY <2>1 DEF Some, Once
<1> QED
  BY <1>3, <1>4

LEMMA CalledLabels ==
    ASSUME NEW s, NEW r, NEW f, NEW ls, Called(s, r, f), f.at \notin ls
    PROVE  Keeps(s, r, ls)
BY EmptySeq DEF Called, Keeps, Some, Once

\* Frame f belongs to the same call as frame h.
Follows(f, h) == \A g : CalledBy(h, g) => CalledBy(f, g)

LEMMA RetopChained ==
    ASSUME NEW s, NEW r, NEW f, Retop(s, r, f), Chained(s), Follows(f, s[1])
    PROVE  Chained(r)
<1> SUFFICES ASSUME NEW i \in 1 .. Len(r) - 1 PROVE CalledBy(r[i], r[i + 1])
  BY DEF Chained
<1>1. Len(s) \in Nat /\ i \in 1 .. Len(s) - 1 /\ i + 1 \in 2 .. Len(s)
  BY DEF Retop
<1>2. CalledBy(s[i], s[i + 1])
  BY <1>1 DEF Chained
<1>3. r[i + 1] = s[i + 1]
  BY <1>1 DEF Retop
<1>4. CASE i = 1
  BY <1>2, <1>3, <1>4 DEF Follows, Retop
<1>5. CASE i # 1
  <2>1. i \in 2 .. Len(s)
    BY <1>1, <1>5
  <2> QED
    BY <2>1, <1>2, <1>3 DEF Retop
<1> QED
  BY <1>4, <1>5

LEMMA PushedChained ==
    ASSUME NEW s, NEW r, NEW f, NEW g, Pushed(s, r, f, g), Chained(s), Follows(g, s[1]),
           CalledBy(f, g)
    PROVE  Chained(r)
<1> SUFFICES ASSUME NEW i \in 1 .. Len(r) - 1 PROVE CalledBy(r[i], r[i + 1])
  BY DEF Chained
<1>1. Len(s) \in Nat /\ Len(r) = Len(s) + 1 /\ r[1] = f /\ r[2] = g
  BY DEF Pushed
<1>2. CASE i = 1
  BY <1>1, <1>2
<1>3. CASE i > 1
  <2>1. i - 1 \in 1 .. Len(s) - 1 /\ i \in 2 .. Len(s) /\ (i - 1) + 1 = i
    BY <1>1, <1>3
  <2>2. CalledBy(s[i - 1], s[i])
    BY <2>1 DEF Chained
  <2>3. r[i + 1] = s[i]
    BY <2>1 DEF Pushed
  <2>4. CASE i = 2
    BY <2>2, <2>3, <2>4, <1>1 DEF Follows
  <2>5. CASE i > 2
    <3>1. i - 1 \in 2 .. Len(s)
      BY <2>1, <2>5
    <3>2. r[(i - 1) + 1] = s[i - 1]
      BY <3>1 DEF Pushed
    <3> QED
      BY <3>2, <2>1, <2>2, <2>3
  <2> QED
    BY <2>4, <2>5, <1>3
<1> QED
  BY <1>2, <1>3

LEMMA PoppedChained ==
    ASSUME NEW s, NEW r, Popped(s, r), Chained(s)
    PROVE  Chained(r) /\ (r # <<>> => CalledBy(s[1], r[1]))
<1>1. Len(s) \in Nat /\ Len(r) = Len(s) - 1 /\ Len(s) > 0
  BY DEF Popped
<1>2. \A j \in 1 .. Len(r) : j + 1 \in 2 .. Len(s) /\ r[j] = s[j + 1]
  <2> TAKE j \in 1 .. Len(r)
  <2>1. j + 1 \in 2 .. Len(s) /\ (j + 1) - 1 = j
    BY <1>1
  <2>2. r[(j + 1) - 1] = s[j + 1]
    BY <2>1 DEF Popped
  <2> QED
    BY <2>1, <2>2
<1>3. Chained(r)
  <2> SUFFICES ASSUME NEW i \in 1 .. Len(r) - 1 PROVE CalledBy(r[i], r[i + 1])
    BY DEF Chained
  <2>1. i \in 1 .. Len(r) /\ i + 1 \in 1 .. Len(r) /\ i + 1 \in 1 .. Len(s) - 1
    BY <1>1
  <2>2. CalledBy(s[i + 1], s[(i + 1) + 1])
    BY <2>1 DEF Chained
  <2> QED
    BY <2>1, <2>2, <1>2
<1>4. r # <<>> => CalledBy(s[1], r[1])
  <2> HAVE r # <<>>
  <2>1. Len(r) > 0 /\ 1 \in 1 .. Len(r) /\ 1 \in 1 .. Len(s) - 1
    BY <1>1, EmptySeq DEF Popped
  <2>2. CalledBy(s[1], s[1 + 1])
    BY <2>1 DEF Chained
  <2> QED
    BY <2>1, <2>2, <1>2
<1> QED
  BY <1>3, <1>4

\* Only thread t changes its stack.
OnlyStack(t) ==
    stack' \in [Thread -> Seq(Frame)] /\ \A u \in Thread \ {t} : stack'[u] = stack[u]

LEMMA TopFrame ==
    ASSUME NEW s \in Seq(Frame), s # <<>>
    PROVE  /\ Len(s) \in Nat /\ Len(s) > 0 /\ 1 \in 1 .. Len(s)
           /\ Head(s) = s[1] /\ s[1] \in Frame
BY EmptySeq

LEMMA GotoShape ==
    ASSUME stack \in [Thread -> Seq(Frame)], NEW t \in Thread, stack[t] # <<>>,
           NEW l \in Label, goto(t, l)
    PROVE  Retop(stack[t], stack'[t], [stack[t][1] EXCEPT !.at = l]) /\ OnlyStack(t)
<1> DEFINE s == stack[t]
           f == [s[1] EXCEPT !.at = l]
           r == [s EXCEPT ![1] = f]
<1>1. s \in Seq(Frame) /\ Len(s) \in Nat /\ Len(s) > 0 /\ 1 \in 1 .. Len(s) /\ s[1] \in Frame
  BY TopFrame
<1>2. f \in Frame
  BY <1>1 DEF Frame
<1> HIDE DEF f
<1>3. r \in Seq(Frame) /\ Len(r) = Len(s) /\ r[1] = f /\ \A i \in 2 .. Len(s) : r[i] = s[i]
  BY <1>1, <1>2
<1>4. stack' = [stack EXCEPT ![t] = r]
  BY DEF goto, f
<1>5. stack'[t] = r
  BY <1>4
<1>6. OnlyStack(t)
  BY <1>3, <1>4 DEF OnlyStack
<1>7. Retop(s, r, f)
  BY <1>1, <1>3 DEF Retop
<1> QED
  BY <1>5, <1>6, <1>7 DEF f

LEMMA HoldShape ==
    ASSUME stack \in [Thread -> Seq(Frame)], NEW t \in Thread, stack[t] # <<>>,
           NEW l \in Label, NEW d \in Nat \X Nat, hold(t, l, d)
    PROVE  /\ Retop(stack[t], stack'[t], [stack[t][1] EXCEPT !.at = l, !.data = d])
           /\ OnlyStack(t)
<1> DEFINE s == stack[t]
           f == [s[1] EXCEPT !.at = l, !.data = d]
           r == [s EXCEPT ![1] = f]
<1>1. s \in Seq(Frame) /\ Len(s) \in Nat /\ Len(s) > 0 /\ 1 \in 1 .. Len(s) /\ s[1] \in Frame
  BY TopFrame
<1>2. f \in Frame
  BY <1>1 DEF Frame
<1> HIDE DEF f
<1>3. r \in Seq(Frame) /\ Len(r) = Len(s) /\ r[1] = f /\ \A i \in 2 .. Len(s) : r[i] = s[i]
  BY <1>1, <1>2
<1>4. stack' = [stack EXCEPT ![t] = r]
  BY DEF hold, f
<1>5. stack'[t] = r
  BY <1>4
<1>6. OnlyStack(t)
  BY <1>3, <1>4 DEF OnlyStack
<1>7. Retop(s, r, f)
  BY <1>1, <1>3 DEF Retop
<1> QED
  BY <1>5, <1>6, <1>7 DEF f

LEMMA InvokeShape ==
    ASSUME stack \in [Thread -> Seq(Frame)], NEW t \in Thread, stack[t] # <<>>,
           NEW l \in Label, NEW f \in Frame, invoke(t, l, f)
    PROVE  /\ Pushed(stack[t], stack'[t], f, [stack[t][1] EXCEPT !.at = l])
           /\ OnlyStack(t)
<1> DEFINE s == stack[t]
           g == [s[1] EXCEPT !.at = l]
           r == <<f, g>> \o Tail(s)
<1>1. /\ s \in Seq(Frame) /\ Len(s) \in Nat /\ Len(s) > 0 /\ 1 \in 1 .. Len(s)
      /\ s[1] \in Frame /\ Head(s) = s[1]
  BY TopFrame
<1>2. g \in Frame
  BY <1>1 DEF Frame
<1>3. /\ Tail(s) \in Seq(Frame) /\ Len(Tail(s)) = Len(s) - 1
      /\ \A i \in 1 .. Len(Tail(s)) : Tail(s)[i] = s[i + 1]
  BY <1>1, HeadTailProperties
<1> HIDE DEF g
<1>4. /\ <<f, g>> \in Seq(Frame) /\ Len(<<f, g>>) = 2
      /\ <<f, g>>[1] = f /\ <<f, g>>[2] = g
  BY <1>2
<1>5. /\ r \in Seq(Frame) /\ Len(r) = 2 + (Len(s) - 1)
      /\ \A i \in 1 .. 2 + (Len(s) - 1) :
            r[i] = IF i <= 2 THEN <<f, g>>[i] ELSE Tail(s)[i - 2]
  BY <1>3, <1>4, ConcatProperties
<1>6. \A i \in 2 .. Len(s) : r[i + 1] = s[i]
  <2> TAKE i \in 2 .. Len(s)
  <2>1. i + 1 \in 1 .. 2 + (Len(s) - 1) /\ ~(i + 1 <= 2) /\ (i + 1) - 2 = i - 1
    BY <1>1
  <2>2. r[i + 1] = Tail(s)[i - 1]
    BY <2>1, <1>5
  <2>3. i - 1 \in 1 .. Len(Tail(s)) /\ (i - 1) + 1 = i
    BY <1>1, <1>3
  <2>4. Tail(s)[i - 1] = s[(i - 1) + 1]
    BY <2>3, <1>3
  <2> QED
    BY <2>2, <2>3, <2>4
<1>7. r[1] = f /\ r[2] = g
  <2>1. 1 \in 1 .. 2 + (Len(s) - 1) /\ 2 \in 1 .. 2 + (Len(s) - 1)
    BY <1>1
  <2> QED
    BY <2>1, <1>4, <1>5
<1>8. Len(r) = Len(s) + 1
  BY <1>1, <1>5
<1>9. stack' = [stack EXCEPT ![t] = r]
  BY <1>1 DEF invoke, Top, g
<1>10. stack'[t] = r
  BY <1>9
<1>11. OnlyStack(t)
  BY <1>5, <1>9 DEF OnlyStack
<1> HIDE DEF r
<1>12. Pushed(s, r, f, g)
  BY <1>1, <1>5, <1>6, <1>7, <1>8 DEF Pushed
<1> QED
  BY <1>10, <1>11, <1>12 DEF g

LEMMA ReturnShape ==
    ASSUME stack \in [Thread -> Seq(Frame)], val \in [Thread -> Nat], NEW t \in Thread,
           stack[t] # <<>>, NEW v \in Nat, return(t, v)
    PROVE  /\ Popped(stack[t], stack'[t]) /\ OnlyStack(t)
           /\ val' \in [Thread -> Nat] /\ val'[t] = v
           /\ \A u \in Thread \ {t} : val'[u] = val[u]
<1> DEFINE s == stack[t]
           r == Tail(s)
<1>1. /\ s \in Seq(Frame) /\ Len(s) \in Nat /\ Len(s) > 0
  BY TopFrame
<1>2. r \in Seq(Frame) /\ Len(r) = Len(s) - 1 /\ \A i \in 1 .. Len(r) : r[i] = s[i + 1]
  BY <1>1, HeadTailProperties
<1>3. \A i \in 2 .. Len(s) : r[i - 1] = s[i]
  <2> TAKE i \in 2 .. Len(s)
  <2>1. i - 1 \in 1 .. Len(r) /\ (i - 1) + 1 = i
    BY <1>1, <1>2
  <2> QED
    BY <2>1, <1>2
<1>4. stack' = [stack EXCEPT ![t] = r]
  BY DEF return
<1>5. stack'[t] = r /\ OnlyStack(t)
  BY <1>2, <1>4 DEF OnlyStack
<1> QED
  BY <1>1, <1>2, <1>3, <1>5 DEF Popped, return
-----------------------------------------------------------------------------
(* What a step of one thread leaves of the invariant                       *)

\* Only thread t gets a value.
OnlyVal(t) ==
    val' \in [Thread -> Nat] /\ \A u \in Thread \ {t} : val'[u] = val[u]

\* Frame f is on some stack and is not the one thread t runs.
Elsewhere(t, f) ==
    \E u \in Thread : \E i \in 1 .. Len(stack[u]) : f = stack[u][i] /\ (u = t => i > 1)

KeptFrames(t) == \A f \in Frame : Elsewhere(t, f) => FrameOK(f)'

\* What no step takes back.
Grows ==
    /\ prog' = prog /\ (has_error => has_error') /\ stale \subseteq stale'
    /\ Len(requests) \in Nat /\ Len(requests') \in Nat /\ Len(requests) <= Len(requests')
    /\ \A k \in 1 .. Len(requests) : requests'[k] = requests[k]
    /\ Len(answers) \in Nat /\ Len(answers') \in Nat /\ Len(answers) <= Len(answers')
    /\ maxlen.tag # "NONE" => maxlen'.tag # "NONE"

LEMMA QueryKept ==
    ASSUME Grows, NEW k, NEW e
    PROVE  /\ IsQuery(k, e) => IsQuery(k, e)'
           /\ IsSend(k, e) => IsSend(k, e)'
           /\ IsAnswer(k, e) => IsAnswer(k, e)'
<1>1. IsQuery(k, e) => IsQuery(k, e)'
  BY DEF Grows, IsQuery, Req
<1>2. IsSend(k, e) => IsSend(k, e)'
  BY DEF Grows, IsSend
<1>3. IsAnswer(k, e) => IsAnswer(k, e)'
  BY <1>1 DEF Grows, IsAnswer, IsQuery
<1> QED
  BY <1>1, <1>2, <1>3

LEMMA ExtValKept ==
    ASSUME Grows, NEW v, NEW e, ExtVal(v, e)
    PROVE  ExtVal(v, e)'
<1>1. CASE v = 0
  <2>1. Good => has_error
    BY <1>1 DEF ExtVal
  <2>2. Good' => Good
    BY DEF Grows, Good
  <2>3. Good' => has_error'
    BY <2>1, <2>2 DEF Grows
  <2> QED
    BY <1>1, <2>3 DEF ExtVal
<1>2. CASE v # 0
  BY <1>2, QueryKept DEF ExtVal
<1> QED
  BY <1>1, <1>2

LEMMA ValKept ==
    ASSUME Grows, NEW f, NEW v, ValOK(f, v)
    PROVE  ValOK(f, v)'
<1>1. f.at = "enable_max" => ExtVal(v, big_requests)'
  BY ExtValKept DEF ValOK
<1>2. f.at = "send_ext" => ExtVal(v, f.ext)'
  BY ExtValKept DEF ValOK
<1>3. f.at = "enabled_max" => IF v = 0 THEN has_error' ELSE IsSend(v, big_requests)'
  BY QueryKept DEF ValOK, Grows
<1>4. f.at = "wait_id" => v = 0 \/ IsSend(v, xc_misc)'
  BY QueryKept DEF ValOK
<1>5. f.at = "force_max" => maxlen'.tag # "NONE" \/ has_error'
  BY DEF ValOK, Grows
<1>6. f.at = "send_long" => v \in {0, prog'.short, Limit'}
  BY DEF ValOK, Grows, Limit
<1> QED
  BY <1>1, <1>2, <1>3, <1>4, <1>5, <1>6 DEF ValOK

\* The frames of the other threads and those below the running one.
LEMMA ElsewhereOK ==
    ASSUME CacheInv, NEW t \in Thread, NEW f, Elsewhere(t, f)
    PROVE  /\ f \in Frame /\ FrameOK(f)
           /\ \A l \in Locks : f.at \in LockLabels[l] =>
                 lock[l] # NoThread /\ ~(stack[t] # <<>> /\ stack[t][1].at \in LockLabels[l])
<1>1. PICK u \in Thread : \E i \in 1 .. Len(stack[u]) : f = stack[u][i] /\ (u = t => i > 1)
  BY DEF Elsewhere
<1>2. PICK i \in 1 .. Len(stack[u]) : f = stack[u][i] /\ (u = t => i > 1)
  BY <1>1
<1>3. stack[u] \in Seq(Frame) /\ stack[t] \in Seq(Frame)
  BY DEF CacheInv, CacheTypes
<1>4. f \in Frame
  BY <1>2, <1>3, ElementOfSeq
<1>5. FrameOK(f)
  BY <1>2 DEF CacheInv, ThreadOK
<1>6. ASSUME NEW l \in Locks, f.at \in LockLabels[l]
      PROVE  lock[l] # NoThread /\ ~(stack[t] # <<>> /\ stack[t][1].at \in LockLabels[l])
  <2>1. Some(stack[u], LockLabels[l])
    BY <1>2, <1>6 DEF Some
  <2>2. lock[l] = u
    BY <2>1 DEF CacheInv, LockInv
  <2>3. lock[l] # NoThread
    BY <2>2, CachesAssumption
  <2>4. ASSUME stack[t] # <<>>, stack[t][1].at \in LockLabels[l] PROVE FALSE
    <3>1. 1 \in 1 .. Len(stack[t])
      BY <2>4, <1>3, TopFrame
    <3>2. Some(stack[t], LockLabels[l])
      BY <3>1, <2>4 DEF Some
    <3>3. lock[l] = t
      BY <3>2 DEF CacheInv, LockInv
    <3>4. u = t
      BY <3>3, <2>2
    <3>5. Once(stack[t], LockLabels[l])
      BY DEF CacheInv, LockInv
    <3>6. i = 1
      BY <3>1, <3>4, <3>5, <2>4, <1>2, <1>6 DEF Once
    <3> QED
      BY <3>4, <3>6, <1>2
  <2> QED
    BY <2>3, <2>4
<1> QED
  BY <1>4, <1>5, <1>6

LEMMA OthersOK ==
    ASSUME CacheInv, NEW t \in Thread, OnlyStack(t), OnlyVal(t), Grows, KeptFrames(t),
           NEW u \in Thread, u # t
    PROVE  ThreadOK(u)'
<1>1. stack'[u] = stack[u] /\ val'[u] = val[u] /\ stack[u] \in Seq(Frame)
  BY DEF OnlyStack, OnlyVal, CacheInv, CacheTypes
<1>2. ThreadOK(u)
  BY DEF CacheInv
<1>3. Chained(stack'[u])
  BY <1>1, <1>2 DEF ThreadOK
<1>4. \A i \in 1 .. Len(stack[u]) : FrameOK(stack[u][i])' 
  <2> SUFFICES ASSUME NEW i \in 1 .. Len(stack[u]), NEW f, f = stack[u][i] PROVE FrameOK(f)'
    BY <1>1
  <2>1. f \in Frame
    BY <1>1, ElementOfSeq
  <2>2. Elsewhere(t, f)
    BY DEF Elsewhere
  <2> QED
    BY <2>1, <2>2 DEF KeptFrames
<1>5. stack[u] # <<>> => ValOK(stack[u][1], val[u])'
  <2> SUFFICES ASSUME stack[u] # <<>>, NEW f, f = stack[u][1], NEW v, v = val[u]
               PROVE  ValOK(f, v)'
    BY <1>1
  <2> QED
    BY <1>2, ValKept DEF ThreadOK
<1> QED
  BY <1>1, <1>3, <1>4, <1>5 DEF ThreadOK

\* Thread t goes on with frame f in the place of the one it ran.
LEMMA ThreadRetop ==
    ASSUME CacheInv, NEW t \in Thread, OnlyStack(t), OnlyVal(t), Grows, KeptFrames(t),
           NEW f, Retop(stack[t], stack'[t], f), Follows(f, stack[t][1]), FrameOK(f)',
           NEW v, v = val'[t], ValOK(f, v)'
    PROVE  \A u \in Thread : ThreadOK(u)'
<1>1. Chained(stack'[t])
  BY RetopChained DEF CacheInv, ThreadOK
<1>2. /\ Len(stack[t]) \in Nat /\ Len(stack'[t]) = Len(stack[t]) /\ stack'[t][1] = f
      /\ \A i \in 2 .. Len(stack[t]) : stack'[t][i] = stack[t][i]
      /\ stack[t] \in Seq(Frame) /\ Len(stack[t]) > 0 /\ stack'[t] # <<>>
  BY EmptySeq DEF Retop
<1>3. \A i \in 1 .. Len(stack'[t]) : FrameOK(stack[t][i])'
  <2> SUFFICES ASSUME NEW i \in 1 .. Len(stack[t]), NEW h, h = stack'[t][i]
               PROVE  FrameOK(h)'
    BY <1>2
  <2>1. CASE i = 1
    BY <2>1, <1>2
  <2>2. CASE i # 1
    <3>1. i \in 2 .. Len(stack[t]) /\ i > 1
      BY <2>2, <1>2
    <3>2. h = stack[t][i]
      BY <3>1, <1>2
    <3>3. Elsewhere(t, h) /\ h \in Frame
      BY <3>1, <3>2, <1>2, ElementOfSeq DEF Elsewhere
    <3> QED
      BY <3>3 DEF KeptFrames
  <2> QED
    BY <2>1, <2>2
<1>4. ThreadOK(t)'
  BY <1>1, <1>2, <1>3 DEF ThreadOK
<1> QED
  BY <1>4, OthersOK

\* Thread t calls a function, frame f, and will go on at frame g.
LEMMA ThreadPushed ==
    ASSUME CacheInv, NEW t \in Thread, OnlyStack(t), OnlyVal(t), Grows, KeptFrames(t),
           NEW f, NEW g, Pushed(stack[t], stack'[t], f, g), Follows(g, stack[t][1]),
           CalledBy(f, g), FrameOK(f)', FrameOK(g)', NEW v, v = val'[t], ValOK(f, v)'
    PROVE  \A u \in Thread : ThreadOK(u)'
<1>1. Chained(stack'[t])
  BY PushedChained DEF CacheInv, ThreadOK
<1>2. /\ Len(stack[t]) \in Nat /\ Len(stack'[t]) = Len(stack[t]) + 1
      /\ stack'[t][1] = f /\ stack'[t][2] = g
      /\ \A i \in 2 .. Len(stack[t]) : stack'[t][i + 1] = stack[t][i]
      /\ stack[t] \in Seq(Frame) /\ Len(stack[t]) > 0 /\ stack'[t] # <<>>
  <2>1. Len(stack'[t]) # 0
    BY DEF Pushed
  <2> QED
    BY <2>1 DEF Pushed
<1>3. \A i \in 1 .. Len(stack'[t]) : FrameOK(stack[t][i])'
  <2> SUFFICES ASSUME NEW i \in 1 .. Len(stack'[t]), NEW h, h = stack'[t][i]
               PROVE  FrameOK(h)'
    OBVIOUS
  <2>1. CASE i = 1 \/ i = 2
    BY <2>1, <1>2
  <2>2. CASE ~(i = 1 \/ i = 2)
    <3>1. i - 1 \in 2 .. Len(stack[t]) /\ i - 1 > 1 /\ (i - 1) + 1 = i
      BY <2>2, <1>2
    <3>2. h = stack[t][i - 1]
      BY <3>1, <1>2
    <3>3. i - 1 \in 1 .. Len(stack[t])
      BY <3>1, <1>2
    <3>4. Elsewhere(t, h) /\ h \in Frame
      BY <3>1, <3>2, <3>3, <1>2, ElementOfSeq DEF Elsewhere
    <3> QED
      BY <3>4 DEF KeptFrames
  <2> QED
    BY <2>1, <2>2
<1>4. ThreadOK(t)'
  BY <1>1, <1>2, <1>3 DEF ThreadOK
<1> QED
  BY <1>4, OthersOK

\* The value v is right for whoever has called frame f.
Gives(f, v) == \A g \in Frame : CalledBy(f, g) /\ FrameOK(g)' => ValOK(g, v)'

\* The running call of thread t returns v.
LEMMA ThreadPopped ==
    ASSUME CacheInv, NEW t \in Thread, OnlyStack(t), OnlyVal(t), Grows, KeptFrames(t),
           Popped(stack[t], stack'[t]), NEW v, v = val'[t], Gives(stack[t][1], v)
    PROVE  \A u \in Thread : ThreadOK(u)'
<1>1. Chained(stack'[t]) /\ (stack'[t] # <<>> => CalledBy(stack[t][1], stack'[t][1]))
  BY PoppedChained DEF CacheInv, ThreadOK
<1>2. /\ Len(stack[t]) \in Nat /\ Len(stack'[t]) = Len(stack[t]) - 1
      /\ \A i \in 2 .. Len(stack[t]) : stack'[t][i - 1] = stack[t][i]
      /\ stack[t] \in Seq(Frame) /\ stack'[t] \in Seq(Frame) /\ Len(stack[t]) > 0
  BY DEF Popped
<1>3. \A i \in 1 .. Len(stack'[t]) : FrameOK(stack[t][i])'
  <2> SUFFICES ASSUME NEW i \in 1 .. Len(stack'[t]), NEW h, h = stack'[t][i]
               PROVE  FrameOK(h)'
    OBVIOUS
  <2>1. i + 1 \in 2 .. Len(stack[t]) /\ i + 1 > 1 /\ (i + 1) - 1 = i
    BY <1>2
  <2>2. h = stack[t][i + 1]
    BY <2>1, <1>2
  <2>3. i + 1 \in 1 .. Len(stack[t])
    BY <2>1, <1>2
  <2>4. Elsewhere(t, h) /\ h \in Frame
    BY <2>1, <2>2, <2>3, <1>2, ElementOfSeq DEF Elsewhere
  <2> QED
    BY <2>4 DEF KeptFrames
<1>4. stack'[t] # <<>> => ValOK(stack[t][1], val[t])'
  <2> SUFFICES ASSUME stack'[t] # <<>>, NEW g, g = stack'[t][1] PROVE ValOK(g, v)'
    OBVIOUS
  <2>1. 1 \in 1 .. Len(stack'[t]) /\ g \in Frame
    BY <1>2, TopFrame
  <2>2. FrameOK(g)'
    BY <2>1, <1>3
  <2> QED
    BY <2>1, <2>2, <1>1 DEF Gives
<1>5. ThreadOK(t)'
  BY <1>1, <1>3, <1>4 DEF ThreadOK
<1> QED
  BY <1>5, OthersOK

\* Thread t leaves the library's code or enters it.
LEMMA ThreadCalled ==
    ASSUME CacheInv, NEW t \in Thread, OnlyStack(t), OnlyVal(t), Grows, KeptFrames(t),
           NEW f, Called(stack[t], stack'[t], f), FrameOK(f)',
           NEW v, v = val'[t], ValOK(f, v)'
    PROVE  \A u \in Thread : ThreadOK(u)'
<1>1. Len(stack'[t]) = 1 /\ stack'[t][1] = f
  BY DEF Called
<1>2. Chained(stack'[t])
  BY <1>1 DEF Chained
<1>3. \A i \in 1 .. Len(stack'[t]) : FrameOK(stack[t][i])'
  BY <1>1
<1>4. ThreadOK(t)'
  BY <1>1, <1>2, <1>3 DEF ThreadOK
<1> QED
  BY <1>4, OthersOK

\* What thread t does with lock l.
LockMove(t, l) ==
    \/ lock'[l] = lock[l] /\ Keeps(stack[t], stack'[t], LockLabels[l])
    \/ lock[l] = NoThread /\ lock'[l] = t /\ Gains(stack[t], stack'[t], LockLabels[l])
    \/ lock[l] = t /\ lock'[l] = NoThread /\ Loses(stack[t], stack'[t], LockLabels[l])

LEMMA LockStep ==
    ASSUME CacheInv, NEW t \in Thread, OnlyStack(t),
           lock' \in [Locks -> Thread \cup {NoThread}], \A l \in Locks : LockMove(t, l)
    PROVE  LockInv'
<1> SUFFICES ASSUME NEW l \in Locks, NEW u \in Thread
             PROVE  /\ lock'[l] = u <=> Some(stack'[u], LockLabels[l])
                    /\ Once(stack'[u], LockLabels[l])
  BY DEF LockInv
<1>1. /\ \A w \in Thread : lock[l] = w <=> Some(stack[w], LockLabels[l])
      /\ \A w \in Thread : Once(stack[w], LockLabels[l])
  BY DEF CacheInv, LockInv
<1>2. LockMove(t, l) /\ NoThread \notin Thread
  BY CachesAssumption
<1>3. CASE u = t
  BY <1>1, <1>2, <1>3 DEF LockMove, Keeps, Gains, Loses
<1>4. CASE u # t
  <2>1. stack'[u] = stack[u]
    BY <1>4 DEF OnlyStack
  <2>2. lock'[l] = u <=> lock[l] = u
    BY <1>2, <1>4 DEF LockMove
  <2> QED
    BY <2>1, <2>2, <1>1
<1> QED
  BY <1>3, <1>4
-----------------------------------------------------------------------------
(* Nobody puts a cookie in the place of the length too late                *)

LEMMA DoomedNone ==
    ASSUME NEW s \in Seq(Frame), NEW v, Doomed(s, v),
           s # <<>> => s[1].at \notin {"get_ext", "enable_max"}
    PROVE  ~Some(s, {"enable_max"})
BY EmptySeq DEF Doomed, Some

LEMMA NoneDoomed ==
    ASSUME NEW s, NEW v, ~Some(s, {"enable_max"})
    PROVE  Doomed(s, v)
BY DEF Doomed, Some

\* Steps that do not touch the length.
LEMMA LateStep ==
    ASSUME CacheInv, NEW t \in Thread, OnlyStack(t), OnlyVal(t), maxlen' = maxlen,
           has_error => has_error',
           has_error /\ Doomed(stack[t], val[t]) => Doomed(stack'[t], val'[t]),
           Some(stack'[t], {"read_max"}) => Some(stack[t], {"read_max"})
    PROVE  NoLateCookie'
<1> SUFFICES ASSUME maxlen'.tag # "FORCED",
                    NEW u \in Thread, Some(stack'[u], {"read_max"})
             PROVE  maxlen'.tag = "NONE" /\ has_error'
                    /\ \A w \in Thread : Doomed(stack'[w], val'[w])
  BY DEF NoLateCookie
<1>1. Some(stack[u], {"read_max"})
  BY DEF OnlyStack
<1>2. maxlen.tag = "NONE" /\ has_error /\ \A w \in Thread : Doomed(stack[w], val[w])
  BY <1>1 DEF CacheInv, NoLateCookie
<1>3. ASSUME NEW w \in Thread PROVE Doomed(stack'[w], val'[w])
  BY <1>2 DEF OnlyStack, OnlyVal
<1> QED
  BY <1>2, <1>3

\* The same if the thread runs no label that counts.
LEMMA LateQuiet ==
    ASSUME CacheInv, NEW t \in Thread, OnlyStack(t), OnlyVal(t), maxlen' = maxlen,
           has_error => has_error',
           stack[t] # <<>> => stack[t][1].at \notin {"get_ext", "enable_max"},
           Keeps(stack[t], stack'[t], {"enable_max"}),
           Keeps(stack[t], stack'[t], {"read_max"}) \/ Some(stack[t], {"read_max"})
    PROVE  NoLateCookie'
<1>1. stack[t] \in Seq(Frame)
  BY DEF CacheInv, CacheTypes
<1>2. Doomed(stack[t], val[t]) => Doomed(stack'[t], val'[t])
  BY <1>1, DoomedNone, NoneDoomed DEF Keeps
<1>3. Some(stack'[t], {"read_max"}) => Some(stack[t], {"read_max"})
  BY DEF Keeps
<1> QED
  BY <1>2, <1>3, LateStep
-----------------------------------------------------------------------------
(* Steps that leave the caches alone                                       *)

Plain == UNCHANGED <<prog, has_error, extvars, maxlen, requests, answers, collected>>

LEMMA PlainFrames ==
    ASSUME CacheInv, NEW t \in Thread, Plain
    PROVE  KeptFrames(t)
<1> SUFFICES ASSUME NEW f \in Frame, Elsewhere(t, f) PROVE FrameOK(f)'
  BY DEF KeptFrames
<1>1. FrameOK(f)
  BY ElsewhereOK
<1>2. UNCHANGED <<prog, has_error, extensions, global_id, maxlen>>
  BY DEF Plain, extvars
<1> QED
  BY <1>1, <1>2 DEF FrameOK, Limit

LEMMA PlainRest ==
    ASSUME CacheInv, NEW t \in Thread, Plain, OnlyStack(t), OnlyVal(t),
           script' \in [Thread -> Seq(Call)], stale \subseteq stale',
           lock["reqlen"] # NoThread => lock'["reqlen"] # NoThread
    PROVE  CacheTypes' /\ AnswersRight' /\ ExtInv' /\ MaxInv' /\ Grows
<1>1. /\ UNCHANGED <<prog, has_error, global_id, next_global_id, extensions, home, maxlen,
                     requests, answers, collected>>
      /\ CacheTypes /\ AnswersRight /\ ExtInv /\ MaxInv
  BY DEF Plain, extvars, CacheInv
<1>2. CacheTypes'
  BY <1>1 DEF CacheTypes, OnlyStack, OnlyVal
<1>3. AnswersRight'
  BY <1>1 DEF AnswersRight
<1>4. ExtInv'
  BY <1>1 DEF ExtInv, EntryOK, Asked, AskedOnce, IsQuery, IsAnswer, Req
<1>5. MaxInv'
  <2>1. Good' => Good
    BY <1>1 DEF Good
  <2> QED
    BY <1>1, <2>1 DEF MaxInv, IsSend, Limit
<1>6. Grows
  BY <1>1, LenProperties DEF Grows, CacheTypes
<1> QED
  BY <1>2, <1>3, <1>4, <1>5, <1>6

\* The thread runs and goes on at labels that are not in ls.
Clear(s, r, ls) ==
    \/ \E f : Retop(s, r, f) /\ f.at \notin ls /\ s[1].at \notin ls
    \/ \E f, g : Pushed(s, r, f, g) /\ f.at \notin ls /\ g.at \notin ls /\ s[1].at \notin ls
    \/ Popped(s, r) /\ s[1].at \notin ls
    \/ \E f : Called(s, r, f) /\ f.at \notin ls

LEMMA ClearKeeps ==
    ASSUME NEW s, NEW r, NEW ls, NEW ms, Clear(s, r, ls), ms \subseteq ls
    PROVE  Keeps(s, r, ms)
<1>1. CASE \E f : Retop(s, r, f) /\ f.at \notin ls /\ s[1].at \notin ls
  BY <1>1, RetopLabels
<1>2. CASE \E f, g : Pushed(s, r, f, g) /\ f.at \notin ls /\ g.at \notin ls /\ s[1].at \notin ls
  <2>1. PICK f, g : Pushed(s, r, f, g) /\ f.at \notin ls /\ g.at \notin ls /\ s[1].at \notin ls
    BY <1>2
  <2>2. f.at \notin ms /\ (g.at \in ms <=> s[1].at \in ms)
    BY <2>1
  <2> QED
    BY <2>1, <2>2, PushedLabels
<1>3. CASE Popped(s, r) /\ s[1].at \notin ls
  BY <1>3, PoppedLabels
<1>4. CASE \E f : Called(s, r, f) /\ f.at \notin ls
  BY <1>4, CalledLabels
<1> QED
  BY <1>1, <1>2, <1>3, <1>4 DEF Clear

Busy == InExt \cup InMax \cup InXid

LEMMA LabelsBusy == \A l \in Locks : LockLabels[l] \subseteq Busy
BY DEF Locks, LockLabels, Busy

LEMMA QuietLocks ==
    ASSUME CacheInv, NEW t \in Thread, OnlyStack(t), lock' = lock,
           Clear(stack[t], stack'[t], Busy)
    PROVE  LockInv'
<1>1. \A l \in Locks : LockMove(t, l)
  BY ClearKeeps, LabelsBusy DEF LockMove
<1>2. lock' \in [Locks -> Thread \cup {NoThread}]
  BY DEF CacheInv, LockInv
<1> QED
  BY <1>1, <1>2, LockStep

LEMMA QuietLate ==
    ASSUME CacheInv, NEW t \in Thread, OnlyStack(t), OnlyVal(t), maxlen' = maxlen,
           has_error => has_error', Clear(stack[t], stack'[t], {"enable_max", "read_max"}),
           has_error /\ stack[t] # <<>> => stack[t][1].at # "get_ext"
    PROVE  NoLateCookie'
<1>1. /\ Keeps(stack[t], stack'[t], {"enable_max"})
      /\ Keeps(stack[t], stack'[t], {"read_max"})
  BY ClearKeeps
<1>2. stack[t] # <<>> => stack[t][1].at # "enable_max"
  BY DEF Clear, Called
<1>3. CASE has_error
  BY <1>1, <1>2, <1>3, LateQuiet
<1>4. CASE ~has_error
  BY <1>1, <1>4, LateStep DEF Keeps
<1> QED
  BY <1>3, <1>4

\* A thread at a label runs its first frame, which is as it should be.
LEMMA Running ==
    ASSUME CacheInv, NEW t \in Thread, NEW l, At(t, l)
    PROVE  /\ stack[t] \in Seq(Frame) /\ stack[t] # <<>> /\ Top(t) = stack[t][1]
           /\ Top(t) \in Frame /\ Top(t).at = l /\ FrameOK(Top(t)) /\ ValOK(Top(t), val[t])
           /\ stack \in [Thread -> Seq(Frame)] /\ val \in [Thread -> Nat] /\ val[t] \in Nat
<1>1. /\ stack \in [Thread -> Seq(Frame)] /\ val \in [Thread -> Nat]
      /\ stack[t] \in Seq(Frame) /\ stack[t] # <<>>
  BY DEF CacheInv, CacheTypes, At
<1>2. 1 \in 1 .. Len(stack[t]) /\ Top(t) = stack[t][1] /\ Top(t) \in Frame
  BY <1>1, TopFrame DEF Top
<1>3. FrameOK(stack[t][1]) /\ ValOK(stack[t][1], val[t])
  BY <1>1, <1>2 DEF CacheInv, ThreadOK
<1> QED
  BY <1>1, <1>2, <1>3 DEF At

\* The invariant without what is recorded and the range of ids.
Core ==
    /\ CacheTypes /\ LockInv /\ AnswersRight /\ ExtInv /\ MaxInv
    /\ (\A t \in Thread : ThreadOK(t)) /\ NoLateCookie

QuietLabels == Busy \cup {"read_max"}

LEMMA PlainGoto ==
    ASSUME CacheInv, NEW t \in Thread, Plain, UNCHANGED <<lock, script, stale, val>>,
           stack[t] # <<>>, NEW l \in Label, goto(t, l),
           NEW f, f = [stack[t][1] EXCEPT !.at = l], f.at \notin QuietLabels,
           stack[t][1].at \notin QuietLabels, has_error => stack[t][1].at # "get_ext",
           Follows(f, stack[t][1]), FrameOK(f), ValOK(f, val[t])
    PROVE  Core'
<1>1. /\ stack \in [Thread -> Seq(Frame)] /\ val \in [Thread -> Nat]
      /\ script \in [Thread -> Seq(Call)]
  BY DEF CacheInv, CacheTypes
<1>2. Retop(stack[t], stack'[t], f) /\ OnlyStack(t)
  BY <1>1, GotoShape
<1>3. OnlyVal(t)
  BY <1>1 DEF OnlyVal
<1>4. CacheTypes' /\ AnswersRight' /\ ExtInv' /\ MaxInv' /\ Grows
  BY <1>1, <1>2, <1>3, PlainRest
<1>5. Clear(stack[t], stack'[t], QuietLabels)
  BY <1>2 DEF Clear
<1>6. Clear(stack[t], stack'[t], Busy) /\ Clear(stack[t], stack'[t], {"enable_max", "read_max"})
  BY <1>2 DEF Clear, QuietLabels, Busy, InMax
<1>7. LockInv'
  BY <1>2, <1>6, QuietLocks
<1>8. NoLateCookie'
  <2>1. maxlen' = maxlen /\ has_error' = has_error
    BY DEF Plain
  <2> QED
    BY <2>1, <1>2, <1>3, <1>6, QuietLate
<1>9. FrameOK(f)'
  BY DEF FrameOK, Plain, extvars, Limit
<1>10. KeptFrames(t)
  BY PlainFrames
<1>11. ValOK(f, val[t])'
  <2>1. \A v : v = val[t] => ValOK(f, v)'
    BY <1>4, ValKept
  <2> QED
    BY <2>1
<1>12. \A u \in Thread : ThreadOK(u)'
  BY <1>2, <1>3, <1>4, <1>9, <1>10, <1>11, ThreadRetop
<1> QED
  BY <1>4, <1>7, <1>8, <1>12 DEF Core

LEMMA PlainInvoke ==
    ASSUME CacheInv, NEW t \in Thread, Plain, UNCHANGED <<lock, script, stale, val>>,
           stack[t] # <<>>, NEW l \in Label, NEW f \in Frame, invoke(t, l, f),
           NEW g, g = [stack[t][1] EXCEPT !.at = l], f.at \notin QuietLabels,
           g.at \notin QuietLabels, stack[t][1].at \notin QuietLabels \cup {"get_ext"},
           Follows(g, stack[t][1]), CalledBy(f, g), FrameOK(f), FrameOK(g), ValOK(f, val[t])
    PROVE  Core'
<1>1. /\ stack \in [Thread -> Seq(Frame)] /\ val \in [Thread -> Nat]
      /\ script \in [Thread -> Seq(Call)]
  BY DEF CacheInv, CacheTypes
<1>2. Pushed(stack[t], stack'[t], f, g) /\ OnlyStack(t)
  BY <1>1, InvokeShape
<1>3. OnlyVal(t)
  BY <1>1 DEF OnlyVal
<1>4. CacheTypes' /\ AnswersRight' /\ ExtInv' /\ MaxInv' /\ Grows
  BY <1>1, <1>2, <1>3, PlainRest
<1>6. Clear(stack[t], stack'[t], Busy) /\ Clear(stack[t], stack'[t], {"enable_max", "read_max"})
  BY <1>2 DEF Clear, QuietLabels, Busy, InMax
<1>7. LockInv'
  BY <1>2, <1>6, QuietLocks
<1>8. NoLateCookie'
  <2>1. maxlen' = maxlen /\ has_error' = has_error
    BY DEF Plain
  <2> QED
    BY <2>1, <1>2, <1>3, <1>6, QuietLate
<1>9. FrameOK(f)' /\ FrameOK(g)'
  BY DEF FrameOK, Plain, extvars, Limit
<1>10. KeptFrames(t)
  BY PlainFrames
<1>11. ValOK(f, val[t])'
  <2>1. \A v : v = val[t] => ValOK(f, v)'
    BY <1>4, ValKept
  <2> QED
    BY <2>1
<1>12. \A u \in Thread : ThreadOK(u)'
  BY <1>2, <1>3, <1>4, <1>9, <1>10, <1>11, ThreadPushed
<1> QED
  BY <1>4, <1>7, <1>8, <1>12 DEF Core

LEMMA PlainReturn ==
    ASSUME CacheInv, NEW t \in Thread, Plain, UNCHANGED <<lock, script>>,
           stale \subseteq stale', stack[t] # <<>>, NEW v \in Nat, return(t, v),
           stack[t][1].at \notin QuietLabels \cup {"get_ext"}, Gives(stack[t][1], v)
    PROVE  Core'
<1>1. /\ stack \in [Thread -> Seq(Frame)] /\ val \in [Thread -> Nat]
      /\ script \in [Thread -> Seq(Call)]
  BY DEF CacheInv, CacheTypes
<1>2. Popped(stack[t], stack'[t]) /\ OnlyStack(t) /\ val'[t] = v /\ OnlyVal(t)
  BY <1>1, ReturnShape DEF OnlyVal
<1>4. CacheTypes' /\ AnswersRight' /\ ExtInv' /\ MaxInv' /\ Grows
  BY <1>1, <1>2, PlainRest
<1>6. Clear(stack[t], stack'[t], Busy) /\ Clear(stack[t], stack'[t], {"enable_max", "read_max"})
  BY <1>2 DEF Clear, QuietLabels, Busy, InMax
<1>7. LockInv'
  BY <1>2, <1>6, QuietLocks
<1>8. NoLateCookie'
  <2>1. maxlen' = maxlen /\ has_error' = has_error
    BY DEF Plain
  <2> QED
    BY <2>1, <1>2, <1>6, QuietLate
<1>10. KeptFrames(t)
  BY PlainFrames
<1>12. \A u \in Thread : ThreadOK(u)'
  BY <1>2, <1>4, <1>10, ThreadPopped
<1> QED
  BY <1>4, <1>7, <1>8, <1>12 DEF Core

LEMMA RecordsSame ==
    ASSUME CacheInv, UNCHANGED <<prog, requests, seen, lengths, stale, last, max, inc>>
    PROVE  XidTypes' /\ RecordsRight'
<1>1. XidTypes /\ RecordsRight
  BY DEF CacheInv
<1>2. XidTypes'
  BY <1>1 DEF XidTypes
<1>3. RecordsRight'
  BY <1>1 DEF RecordsRight, IsQuery, Good, Limit, Req
<1> QED
  BY <1>2, <1>3

\* On a broken connection every call may return nothing.
LEMMA GivesNothing ==
    ASSUME has_error', NEW f
    PROVE  Gives(f, 0)
<1> SUFFICES ASSUME NEW g \in Frame PROVE ValOK(g, 0)'
  BY DEF Gives
<1> QED
  BY DEF ValOK, ExtVal

\* xcb_get_extension_data on a broken connection.
LEMMA GetExtBroken ==
    ASSUME CacheInv, NEW t \in Thread, Plain, UNCHANGED <<lock, script, stale>>,
           At(t, "get_ext"), has_error, return(t, 0)
    PROVE  Core'
<1>1. /\ stack \in [Thread -> Seq(Frame)] /\ val \in [Thread -> Nat]
      /\ script \in [Thread -> Seq(Call)]
  BY DEF CacheInv, CacheTypes
<1>2. stack[t] # <<>> /\ stack[t][1].at = "get_ext"
  BY Running
<1>3. Popped(stack[t], stack'[t]) /\ OnlyStack(t) /\ val'[t] = 0 /\ OnlyVal(t)
  BY <1>1, <1>2, ReturnShape DEF OnlyVal
<1>4. CacheTypes' /\ AnswersRight' /\ ExtInv' /\ MaxInv' /\ Grows
  BY <1>1, <1>3, PlainRest
<1>5. Clear(stack[t], stack'[t], QuietLabels)
  BY <1>2, <1>3 DEF Clear, QuietLabels, Busy, InExt, InMax, InXid
<1>6. LockInv'
  <2>1. Clear(stack[t], stack'[t], Busy)
    BY <1>2, <1>3 DEF Clear, Busy, InExt, InMax, InXid
  <2> QED
    BY <2>1, <1>3, QuietLocks
<1>7. NoLateCookie'
  <2>1. Keeps(stack[t], stack'[t], {"read_max"})
    BY <1>5, ClearKeeps DEF QuietLabels
  <2>2. Doomed(stack[t], val[t]) => Doomed(stack'[t], val'[t])
    <3> HAVE Doomed(stack[t], val[t])
    <3> SUFFICES ASSUME NEW i \in 1 .. Len(stack'[t]), stack'[t][i].at = "enable_max"
                 PROVE  i = 1
      BY <1>3 DEF Doomed
    <3>1. /\ Len(stack[t]) \in Nat /\ i + 1 \in 2 .. Len(stack[t])
          /\ (i + 1) - 1 = i /\ i \in Nat
      BY <1>3 DEF Popped
    <3>2. stack'[t][(i + 1) - 1] = stack[t][i + 1]
      BY <3>1, <1>3 DEF Popped
    <3>3. i + 1 \in 1 .. Len(stack[t]) /\ stack[t][i + 1].at = "enable_max"
      BY <3>1, <3>2
    <3>4. i + 1 = 1 \/ i + 1 = 2
      BY <3>3 DEF Doomed
    <3> QED
      BY <3>1, <3>4
  <2>3. maxlen' = maxlen /\ has_error' = has_error
    BY DEF Plain
  <2> QED
    BY <2>1, <2>2, <2>3, <1>3, LateStep DEF Keeps
<1>8. Gives(stack[t][1], 0)
  BY GivesNothing DEF Plain
<1>9. \A u \in Thread : ThreadOK(u)'
  BY <1>3, <1>4, <1>8, PlainFrames, ThreadPopped
<1> QED
  BY <1>4, <1>6, <1>7, <1>9 DEF Core

\* Frame f is h at label l.
Same(f, h, l) == f \in Frame /\ f.at = l /\ f.ext = h.ext /\ f.len = h.len /\ f.data = h.data

Generate == {"generate_id", "next_id", "range_id", "wait_id"}
SendRaw == {"send_raw", "raw_out"}
Functions == {GetExt, LazyExt, PrefetchMax, GetMax, Send, Generate, SendRaw}

LEMMA SameFollows ==
    ASSUME NEW f, NEW h, NEW l, Same(f, h, l), NEW fun \in Functions, h.at \in fun, l \in fun
    PROVE  Follows(f, h)
<1> SUFFICES ASSUME NEW g, CalledBy(h, g) PROVE CalledBy(f, g)
  BY DEF Follows
<1>1. f.at = l /\ f.ext = h.ext
  BY DEF Same
<1>2. fun = GetExt \/ fun = LazyExt \/ fun = PrefetchMax \/ fun = GetMax \/ fun = Send
        \/ fun = Generate \/ fun = SendRaw
  BY DEF Functions
<1>3. \A m \in {GetExt, Send, PrefetchMax, GetMax} : h.at \in m => f.at \in m
  BY <1>1, <1>2 DEF GetExt, LazyExt, PrefetchMax, GetMax, Send, Generate, SendRaw
<1> QED
  BY <1>1, <1>3 DEF CalledBy

LEMMA SameAt ==
    ASSUME NEW h \in Frame, NEW l \in Label
    PROVE  Same([h EXCEPT !.at = l], h, l)
BY DEF Same, Frame

\* A step from one label to another, in terms of the labels.
LEMMA PlainAt ==
    ASSUME CacheInv, NEW t \in Thread, Plain, UNCHANGED <<lock, script, stale, val>>,
           NEW k, At(t, k), NEW l \in Label, goto(t, l),
           k \notin QuietLabels, l \notin QuietLabels, has_error => k # "get_ext",
           NEW fun \in Functions, k \in fun, l \in fun,
           \A f : Same(f, Top(t), l) => FrameOK(f) /\ ValOK(f, val[t])
    PROVE  Core'
<1>1. stack[t] # <<>> /\ Top(t) = stack[t][1] /\ Top(t) \in Frame /\ Top(t).at = k
  BY Running
<1>2. PICK f : f = [Top(t) EXCEPT !.at = l]
  OBVIOUS
<1>3. Same(f, Top(t), l)
  BY <1>1, <1>2, SameAt
<1>4. Follows(f, Top(t)) /\ f.at = l
  BY <1>1, <1>3, SameFollows DEF Same
<1>5. FrameOK(f) /\ ValOK(f, val[t])
  BY <1>3
<1> QED
  BY <1>1, <1>2, <1>4, <1>5, PlainGoto

LEMMA PlainCall ==
    ASSUME CacheInv, NEW t \in Thread, Plain, UNCHANGED <<lock, script, stale, val>>,
           NEW k, At(t, k), NEW l \in Label, NEW f \in Frame, invoke(t, l, f),
           k \notin QuietLabels, l \notin QuietLabels, k # "get_ext", f.at \notin QuietLabels,
           NEW fun \in Functions, k \in fun, l \in fun,
           FrameOK(f) /\ ValOK(f, val[t]),
           \A g : Same(g, Top(t), l) => FrameOK(g) /\ CalledBy(f, g)
    PROVE  Core'
<1>1. stack[t] # <<>> /\ Top(t) = stack[t][1] /\ Top(t) \in Frame /\ Top(t).at = k
  BY Running
<1>2. PICK g : g = [Top(t) EXCEPT !.at = l]
  OBVIOUS
<1>3. Same(g, Top(t), l)
  BY <1>1, <1>2, SameAt
<1>4. Follows(g, Top(t)) /\ g.at = l
  BY <1>1, <1>3, SameFollows DEF Same
<1>5. FrameOK(g) /\ CalledBy(f, g)
  BY <1>3
<1> QED
  BY <1>1, <1>2, <1>4, <1>5, PlainInvoke

LEMMA PlainBack ==
    ASSUME CacheInv, NEW t \in Thread, Plain, UNCHANGED <<lock, script>>,
           stale \subseteq stale', NEW k, At(t, k), NEW v \in Nat, return(t, v),
           k \notin QuietLabels, k # "get_ext", Gives(Top(t), v)
    PROVE  Core'
<1>1. stack[t] # <<>> /\ Top(t) = stack[t][1] /\ Top(t).at = k
  BY Running
<1> QED
  BY <1>1, PlainReturn

\* The functions look at has_error and go on.
LEMMA EnterCore ==
    ASSUME CacheInv, NEW t \in Thread, EnterStep(t), UNCHANGED <<prog, inc, answers>>
    PROVE  Core'
<1>1. Plain /\ UNCHANGED <<lock, script, stale>> /\ stale \subseteq stale'
  BY DEF EnterStep, Plain, ghosts
<1>2. has_error => Gives(Top(t), 0)
  <2>1. has_error' = has_error
    BY <1>1 DEF Plain
  <2> QED
    BY <2>1, GivesNothing
<1>3. \A l : At(t, l) => FrameOK(Top(t)) /\ Top(t) \in Frame /\ Top(t).at = l
  BY Running
<1>a. 0 \in Nat /\ Null = 0
  BY DEF Null
<1>b. \A l \in {"get_ext", "force_ext", "prefetch_ext", "lazy_ext", "prefetch_max", "lock_max",
                "generate_id", "next_id", "get_max", "force_max", "send", "send_ext",
                "send_len", "send_out", "send_long", "send_raw", "raw_out"} :
          l \notin QuietLabels /\ l \in Label
  BY DEF QuietLabels, Busy, InExt, InMax, InXid, Label
<1>c. /\ GetExt \in Functions /\ "get_ext" \in GetExt /\ "force_ext" \in GetExt
      /\ LazyExt \in Functions /\ "prefetch_ext" \in LazyExt /\ "lazy_ext" \in LazyExt
      /\ PrefetchMax \in Functions /\ "prefetch_max" \in PrefetchMax
      /\ "lock_max" \in PrefetchMax
      /\ Generate \in Functions /\ "generate_id" \in Generate /\ "next_id" \in Generate
      /\ GetMax \in Functions /\ "get_max" \in GetMax /\ "force_max" \in GetMax
      /\ Send \in Functions /\ "send" \in Send /\ "send_ext" \in Send /\ "send_len" \in Send
      /\ "send_long" \in Send /\ "send_out" \in Send
      /\ SendRaw \in Functions /\ "send_raw" \in SendRaw /\ "raw_out" \in SendRaw
  BY DEF GetExt, LazyExt, PrefetchMax, Generate, GetMax, Send, SendRaw, Functions
<1>4. CASE get_ext(t)
  <2>1. At(t, "get_ext")
    BY <1>4 DEF get_ext, Entered
  <2>2. CASE has_error
    <3>1. return(t, 0)
      BY <2>2, <1>4, <1>a DEF get_ext, Entered
    <3> QED
      BY <2>1, <2>2, <3>1, <1>1, GetExtBroken
  <2>3. CASE ~has_error
    <3>1. goto(t, "force_ext") /\ val' = val
      BY <2>3, <1>4 DEF get_ext, Entered
    <3>2. \A f : Same(f, Top(t), "force_ext") => FrameOK(f) /\ ValOK(f, val[t])
      BY <2>1, <1>3 DEF Same, FrameOK, ValOK, GetExt
    <3> QED
      BY <1>1, <1>b, <1>c, <2>1, <2>3, <3>1, <3>2, PlainAt
  <2> QED
    BY <2>2, <2>3
<1>5. CASE prefetch_ext(t)
  <2>1. At(t, "prefetch_ext")
    BY <1>5 DEF prefetch_ext, Entered
  <2>2. CASE has_error
    <3>1. return(t, 0)
      BY <2>2, <1>5, <1>a DEF prefetch_ext, Entered
    <3> QED
      BY <1>1, <1>2, <1>a, <1>b, <2>1, <2>2, <3>1, PlainBack
  <2>3. CASE ~has_error
    <3>1. goto(t, "lazy_ext") /\ val' = val
      BY <2>3, <1>5 DEF prefetch_ext, Entered
    <3>2. \A f : Same(f, Top(t), "lazy_ext") => FrameOK(f) /\ ValOK(f, val[t])
      BY <2>1, <1>3 DEF Same, FrameOK, ValOK, GetExt, LazyExt
    <3> QED
      BY <1>1, <1>b, <1>c, <2>1, <2>3, <3>1, <3>2, PlainAt
  <2> QED
    BY <2>2, <2>3
<1>6. CASE prefetch_max(t)
  <2>1. At(t, "prefetch_max")
    BY <1>6 DEF prefetch_max, Entered
  <2>2. CASE has_error
    <3>1. return(t, 0)
      BY <2>2, <1>6, <1>a DEF prefetch_max, Entered
    <3> QED
      BY <1>1, <1>2, <1>a, <1>b, <2>1, <2>2, <3>1, PlainBack
  <2>3. CASE ~has_error
    <3>1. goto(t, "lock_max") /\ val' = val
      BY <2>3, <1>6 DEF prefetch_max, Entered
    <3>2. \A f : Same(f, Top(t), "lock_max") => FrameOK(f) /\ ValOK(f, val[t])
      BY <2>1, <1>3 DEF Same, FrameOK, ValOK, GetExt, LazyExt
    <3> QED
      BY <1>1, <1>b, <1>c, <2>1, <2>3, <3>1, <3>2, PlainAt
  <2> QED
    BY <2>2, <2>3
<1>7. CASE generate_id(t)
  <2>1. At(t, "generate_id")
    BY <1>7 DEF generate_id, Entered
  <2>2. CASE has_error
    <3>1. return(t, 0)
      BY <2>2, <1>7, <1>a DEF generate_id, Entered
    <3> QED
      BY <1>1, <1>2, <1>a, <1>b, <2>1, <2>2, <3>1, PlainBack
  <2>3. CASE ~has_error
    <3>1. goto(t, "next_id") /\ val' = val
      BY <2>3, <1>7 DEF generate_id, Entered
    <3>2. \A f : Same(f, Top(t), "next_id") => FrameOK(f) /\ ValOK(f, val[t])
      BY <2>1, <1>3 DEF Same, FrameOK, ValOK, GetExt, LazyExt
    <3> QED
      BY <1>1, <1>b, <1>c, <2>1, <2>3, <3>1, <3>2, PlainAt
  <2> QED
    BY <2>2, <2>3
<1>8. CASE get_max(t)
  <2>1. At(t, "get_max")
    BY <1>8 DEF get_max
  <2>2. CASE has_error
    <3>1. return(t, 0)
      BY <2>2, <1>8 DEF get_max
    <3> QED
      BY <1>1, <1>2, <1>a, <1>b, <2>1, <2>2, <3>1, PlainBack
  <2>3. CASE ~has_error
    <3>1. PICK f : f = Enter("prefetch_max", NoExt, 0)
      OBVIOUS
    <3>2. invoke(t, "force_max", f) /\ val' = val
      BY <2>3, <3>1, <1>8 DEF get_max
    <3>3. f \in Frame /\ f.at = "prefetch_max"
      BY <3>1 DEF Frame, Enter, Label
    <3>4. FrameOK(f) /\ ValOK(f, val[t])
      BY <3>3 DEF FrameOK, ValOK, GetExt, LazyExt
    <3>5. \A g : Same(g, Top(t), "force_max") => FrameOK(g) /\ CalledBy(f, g)
      BY <3>3 DEF Same, FrameOK, CalledBy, PrefetchMax, GetExt, LazyExt
    <3> QED
      BY <1>1, <1>b, <1>c, <2>1, <3>2, <3>3, <3>4, <3>5, PlainCall
  <2> QED
    BY <2>2, <2>3
<1>9. CASE send(t)
  <2>1. At(t, "send")
    BY <1>9 DEF send
  <2>2. CASE has_error /\ return(t, 0)
    BY <1>1, <1>2, <1>a, <1>b, <2>1, <2>2, PlainBack
  <2>3. CASE /\ ~has_error /\ Top(t).ext # NoExt
             /\ invoke(t, "send_ext", Enter("get_ext", Top(t).ext, 0))
             /\ UNCHANGED val
    <3>1. PICK f : f = Enter("get_ext", Top(t).ext, 0)
      OBVIOUS
    <3>2. Top(t).ext \in Ext
      BY <2>1, <2>3, <1>3 DEF Frame
    <3>3. f \in Frame /\ f.at = "get_ext" /\ f.ext = Top(t).ext
      BY <3>1, <3>2 DEF Frame, Enter, Label
    <3>4. FrameOK(f) /\ ValOK(f, val[t])
      BY <3>2, <3>3 DEF FrameOK, ValOK
    <3>5. \A g : Same(g, Top(t), "send_ext") => FrameOK(g) /\ CalledBy(f, g)
      BY <2>3, <3>3 DEF Same, FrameOK, CalledBy, GetExt, LazyExt
    <3>6. invoke(t, "send_ext", f) /\ val' = val
      BY <2>3, <3>1
    <3> QED
      BY <1>1, <1>b, <1>c, <2>1, <3>3, <3>4, <3>5, <3>6, PlainCall
  <2>4. CASE ~has_error /\ Top(t).ext = NoExt /\ goto(t, "send_len") /\ UNCHANGED val
    <3>1. \A f : Same(f, Top(t), "send_len") => FrameOK(f) /\ ValOK(f, val[t])
      BY <2>4 DEF Same, FrameOK, ValOK, GetExt, LazyExt
    <3> QED
      BY <1>1, <1>b, <1>c, <2>1, <2>4, <3>1, PlainAt
  <2> QED
    BY <2>2, <2>3, <2>4, <1>9 DEF send
<1>10. CASE send_len(t)
  <2>1. At(t, "send_len") /\ val' = val
    BY <1>10 DEF send_len
  <2>2. FrameOK(Top(t)) /\ Top(t).at = "send_len"
    BY <2>1, <1>3
  <2>3. CASE Top(t).len <= prog.short
    <3>1. goto(t, "send_out")
      BY <2>3, <1>10 DEF send_len
    <3>2. \A f : Same(f, Top(t), "send_out") => FrameOK(f) /\ ValOK(f, val[t])
      BY <2>2, <2>3 DEF Same, FrameOK, ValOK, GetExt, LazyExt
    <3> QED
      BY <1>1, <1>b, <1>c, <2>1, <3>1, <3>2, PlainAt
  <2>4. CASE ~(Top(t).len <= prog.short)
    <3>1. PICK f : f = Enter("get_max", NoExt, 0)
      OBVIOUS
    <3>2. invoke(t, "send_long", f)
      BY <2>4, <3>1, <1>10 DEF send_len
    <3>3. f \in Frame /\ f.at = "get_max"
      BY <3>1 DEF Frame, Enter, Label
    <3>4. FrameOK(f) /\ ValOK(f, val[t])
      BY <3>3 DEF FrameOK, ValOK, GetExt, LazyExt
    <3>5. \A g : Same(g, Top(t), "send_long") => FrameOK(g) /\ CalledBy(f, g)
      BY <2>2, <3>3 DEF Same, FrameOK, CalledBy, GetMax, GetExt, LazyExt
    <3> QED
      BY <1>1, <1>b, <1>c, <2>1, <3>2, <3>3, <3>4, <3>5, PlainCall
  <2> QED
    BY <2>3, <2>4
<1>11. CASE send_raw(t)
  <2>1. At(t, "send_raw")
    BY <1>11 DEF send_raw, Entered
  <2>2. CASE has_error
    <3>1. return(t, 0)
      BY <2>2, <1>11, <1>a DEF send_raw, Entered
    <3> QED
      BY <1>1, <1>2, <1>a, <1>b, <2>1, <2>2, <3>1, PlainBack
  <2>3. CASE ~has_error
    <3>1. goto(t, "raw_out") /\ val' = val
      BY <2>3, <1>11 DEF send_raw, Entered
    <3>2. \A f : Same(f, Top(t), "raw_out") => FrameOK(f) /\ ValOK(f, val[t])
      BY <2>1, <1>3 DEF Same, FrameOK, ValOK, GetExt, LazyExt
    <3> QED
      BY <1>1, <1>b, <1>c, <2>1, <2>3, <3>1, <3>2, PlainAt
  <2> QED
    BY <2>2, <2>3
<1> QED
  BY <1>4, <1>5, <1>6, <1>7, <1>8, <1>9, <1>10, <1>11 DEF EnterStep

LEMMA EnterKeeps ==
    ASSUME CacheInv, NEW t \in Thread, EnterStep(t), UNCHANGED <<prog, inc, answers>>
    PROVE  CacheInv'
<1>1. UNCHANGED <<prog, requests, seen, lengths, stale, last, max, inc>>
  BY DEF EnterStep, xidvars, ghosts
<1>2. XidTypes' /\ RecordsRight'
  BY <1>1, RecordsSame
<1>3. Core'
  BY EnterCore
<1> QED
  BY <1>2, <1>3 DEF Core, CacheInv
-----------------------------------------------------------------------------
(* The other steps that leave the caches alone                             *)

\* Core without the locks and the late cookie.
Base ==
    /\ CacheTypes /\ AnswersRight /\ ExtInv /\ MaxInv /\ (\A t \in Thread : ThreadOK(t))

\* reqlenlock is not given back.
KeepsReqlen == lock["reqlen"] # NoThread => lock'["reqlen"] # NoThread

LEMMA BaseAt ==
    ASSUME CacheInv, NEW t \in Thread, Plain, UNCHANGED <<script, stale, val>>, KeepsReqlen,
           NEW k, At(t, k), NEW l \in Label, goto(t, l),
           NEW fun \in Functions, k \in fun, l \in fun,
           \A f : Same(f, Top(t), l) => FrameOK(f) /\ ValOK(f, val[t])
    PROVE  /\ Base' /\ OnlyStack(t) /\ OnlyVal(t)
           /\ \E f : Retop(stack[t], stack'[t], f) /\ f.at = l
<1>1. /\ stack[t] # <<>> /\ Top(t) = stack[t][1] /\ Top(t) \in Frame /\ Top(t).at = k
      /\ stack \in [Thread -> Seq(Frame)] /\ val \in [Thread -> Nat]
      /\ script \in [Thread -> Seq(Call)]
  BY Running DEF CacheInv, CacheTypes
<1>2. PICK f : f = [stack[t][1] EXCEPT !.at = l]
  OBVIOUS
<1>3. Same(f, Top(t), l)
  BY <1>1, <1>2, SameAt
<1>4. Follows(f, stack[t][1]) /\ f.at = l
  BY <1>1, <1>3, SameFollows DEF Same
<1>5. FrameOK(f) /\ ValOK(f, val[t])
  BY <1>3
<1>6. Retop(stack[t], stack'[t], f) /\ OnlyStack(t)
  BY <1>1, <1>2, GotoShape
<1>7. OnlyVal(t)
  BY <1>1 DEF OnlyVal
<1>8. CacheTypes' /\ AnswersRight' /\ ExtInv' /\ MaxInv' /\ Grows
  BY <1>1, <1>6, <1>7, PlainRest DEF KeepsReqlen
<1>9. FrameOK(f)'
  BY <1>5 DEF FrameOK, Plain, extvars, Limit
<1>10. ValOK(f, val[t])'
  <2>1. \A v : v = val[t] => ValOK(f, v)'
    BY <1>5, <1>8, ValKept
  <2> QED
    BY <2>1
<1>11. \A u \in Thread : ThreadOK(u)'
  BY <1>4, <1>6, <1>7, <1>8, <1>9, <1>10, PlainFrames, ThreadRetop
<1> QED
  BY <1>4, <1>6, <1>7, <1>8, <1>11 DEF Base

LEMMA BaseCall ==
    ASSUME CacheInv, NEW t \in Thread, Plain, UNCHANGED <<script, stale, val>>, KeepsReqlen,
           NEW k, At(t, k), NEW l \in Label, NEW f \in Frame, invoke(t, l, f),
           NEW fun \in Functions, k \in fun, l \in fun,
           FrameOK(f) /\ ValOK(f, val[t]),
           \A g : Same(g, Top(t), l) => FrameOK(g) /\ CalledBy(f, g)
    PROVE  /\ Base' /\ OnlyStack(t) /\ OnlyVal(t)
           /\ \E g : Pushed(stack[t], stack'[t], f, g) /\ g.at = l
<1>1. /\ stack[t] # <<>> /\ Top(t) = stack[t][1] /\ Top(t) \in Frame /\ Top(t).at = k
      /\ stack \in [Thread -> Seq(Frame)] /\ val \in [Thread -> Nat]
      /\ script \in [Thread -> Seq(Call)]
  BY Running DEF CacheInv, CacheTypes
<1>2. PICK g : g = [stack[t][1] EXCEPT !.at = l]
  OBVIOUS
<1>3. Same(g, Top(t), l)
  BY <1>1, <1>2, SameAt
<1>4. Follows(g, stack[t][1]) /\ g.at = l
  BY <1>1, <1>3, SameFollows DEF Same
<1>5. FrameOK(g) /\ CalledBy(f, g)
  BY <1>3
<1>6. Pushed(stack[t], stack'[t], f, g) /\ OnlyStack(t)
  BY <1>1, <1>2, InvokeShape
<1>7. OnlyVal(t)
  BY <1>1 DEF OnlyVal
<1>8. CacheTypes' /\ AnswersRight' /\ ExtInv' /\ MaxInv' /\ Grows
  BY <1>1, <1>6, <1>7, PlainRest DEF KeepsReqlen
<1>9. FrameOK(f)' /\ FrameOK(g)'
  BY <1>5 DEF FrameOK, Plain, extvars, Limit
<1>10. ValOK(f, val[t])'
  <2>1. \A v : v = val[t] => ValOK(f, v)'
    BY <1>8, ValKept
  <2> QED
    BY <2>1
<1>11. \A u \in Thread : ThreadOK(u)'
  BY <1>4, <1>5, <1>6, <1>7, <1>8, <1>9, <1>10, PlainFrames, ThreadPushed
<1> QED
  BY <1>4, <1>6, <1>7, <1>8, <1>11 DEF Base

LEMMA BaseBack ==
    ASSUME CacheInv, NEW t \in Thread, Plain, UNCHANGED script, stale \subseteq stale',
           KeepsReqlen, NEW k, At(t, k), NEW v \in Nat, return(t, v), Gives(Top(t), v)
    PROVE  Base' /\ OnlyStack(t) /\ OnlyVal(t) /\ Popped(stack[t], stack'[t])
<1>1. /\ stack[t] # <<>> /\ Top(t) = stack[t][1]
      /\ stack \in [Thread -> Seq(Frame)] /\ val \in [Thread -> Nat]
      /\ script \in [Thread -> Seq(Call)]
  BY Running DEF CacheInv, CacheTypes
<1>2. Popped(stack[t], stack'[t]) /\ OnlyStack(t) /\ val'[t] = v /\ OnlyVal(t)
  BY <1>1, ReturnShape DEF OnlyVal
<1>3. CacheTypes' /\ AnswersRight' /\ ExtInv' /\ MaxInv' /\ Grows
  BY <1>1, <1>2, PlainRest DEF KeepsReqlen
<1>4. \A u \in Thread : ThreadOK(u)'
  BY <1>1, <1>2, <1>3, PlainFrames, ThreadPopped
<1> QED
  BY <1>2, <1>3, <1>4 DEF Base

\* Thread t takes or gives back lock m.
LEMMA LockTaken ==
    ASSUME CacheInv, NEW t \in Thread, OnlyStack(t), NEW m \in Locks, Free(m), Acquire(t, m),
           Gains(stack[t], stack'[t], LockLabels[m]),
           \A l \in Locks \ {m} : Keeps(stack[t], stack'[t], LockLabels[l])
    PROVE  LockInv'
<1>1. lock \in [Locks -> Thread \cup {NoThread}]
  BY DEF CacheInv, LockInv
<1>2. lock' \in [Locks -> Thread \cup {NoThread}]
  BY <1>1 DEF Acquire
<1>3. \A l \in Locks : LockMove(t, l)
  BY <1>1 DEF LockMove, Acquire, Free
<1> QED
  BY <1>2, <1>3, LockStep

LEMMA LockGiven ==
    ASSUME CacheInv, NEW t \in Thread, OnlyStack(t), NEW m \in Locks, Release(m),
           stack[t] # <<>>, stack[t][1].at \in LockLabels[m],
           Loses(stack[t], stack'[t], LockLabels[m]),
           \A l \in Locks \ {m} : Keeps(stack[t], stack'[t], LockLabels[l])
    PROVE  LockInv'
<1>1. lock \in [Locks -> Thread \cup {NoThread}] /\ stack[t] \in Seq(Frame)
  BY DEF CacheInv, LockInv, CacheTypes
<1>2. lock' \in [Locks -> Thread \cup {NoThread}]
  BY <1>1 DEF Release
<1>3. Some(stack[t], LockLabels[m])
  BY <1>1, TopFrame DEF Some
<1>4. lock[m] = t
  BY <1>3 DEF CacheInv, LockInv
<1>5. \A l \in Locks : LockMove(t, l)
  BY <1>1, <1>4 DEF LockMove, Release
<1> QED
  BY <1>2, <1>5, LockStep

\* Nobody is between lock and unlock of a free lock.
LEMMA FreeNobody ==
    ASSUME CacheInv, NEW l \in Locks, Free(l), NEW u \in Thread
    PROVE  ~Some(stack[u], LockLabels[l])
BY CachesAssumption DEF CacheInv, LockInv, Free

\* A thread starts a call.
LEMMA CallKeeps ==
    ASSUME CacheInv, NEW t \in Thread, call(t), UNCHANGED <<prog, inc, answers>>
    PROVE  CacheInv'
<1>1. /\ Plain /\ UNCHANGED <<lock, stale, val>> /\ stale \subseteq stale'
      /\ UNCHANGED <<prog, requests, seen, lengths, stale, last, max, inc>>
  BY DEF call, Plain, ghosts
<1>2. XidTypes' /\ RecordsRight'
  BY <1>1, RecordsSame
<1>3. /\ stack \in [Thread -> Seq(Frame)] /\ val \in [Thread -> Nat]
      /\ script \in [Thread -> Seq(Call)] /\ stack[t] = <<>> /\ script[t] # <<>>
  BY DEF CacheInv, CacheTypes, call
<1>4. script' \in [Thread -> Seq(Call)] /\ Head(script[t]) \in Call
  <2>1. Tail(script[t]) \in Seq(Call) /\ Head(script[t]) \in Call
    BY <1>3, HeadTailProperties
  <2> QED
    BY <2>1, <1>3 DEF call
<1>5. OnlyVal(t)
  BY <1>1, <1>3 DEF OnlyVal
<1>6. CASE Head(script[t]).op = "free_id"
  <2>1. stack' = stack
    BY <1>6 DEF call
  <2>2. OnlyStack(t)
    BY <2>1, <1>3 DEF OnlyStack
  <2>3. CacheTypes' /\ AnswersRight' /\ ExtInv' /\ MaxInv' /\ Grows
    BY <1>1, <1>4, <1>5, <2>2, PlainRest
  <2>4. ThreadOK(t)'
    <3>1. stack'[t] = <<>> /\ Len(stack'[t]) = 0
      BY <2>1, <1>3, EmptySeq
    <3> QED
      BY <3>1 DEF ThreadOK, Chained
  <2>5. \A u \in Thread : ThreadOK(u)'
    BY <1>1, <1>5, <2>2, <2>3, <2>4, PlainFrames, OthersOK
  <2>6. LockInv'
    BY <1>1, <2>1 DEF CacheInv, LockInv
  <2>7. NoLateCookie'
    BY <1>1, <2>1 DEF CacheInv, NoLateCookie, Plain
  <2> QED
    BY <1>2, <2>3, <2>5, <2>6, <2>7 DEF CacheInv
<1>7. CASE Head(script[t]).op # "free_id"
  <2>1. PICK c : c = Head(script[t])
    OBVIOUS
  <2>2. PICK f : f = Enter(c.op, c.ext, c.len)
    OBVIOUS
  <2>3. stack' = [stack EXCEPT ![t] = <<f>>]
    BY <1>7, <2>1, <2>2 DEF call
  <2>4. /\ c.op \in {"get_ext", "prefetch_ext", "get_max", "prefetch_max", "send",
                  "send_raw", "generate_id"}
        /\ c.ext \in Ext \cup {NoExt} /\ c.len \in Nat
        /\ c.op \in {"get_ext", "prefetch_ext"} => c.ext \in Ext
    BY <1>4, <1>7, <2>1 DEF Call
  <2>5. /\ f \in Frame /\ f.ext = c.ext
        /\ f.at \in {"get_ext", "prefetch_ext", "get_max", "prefetch_max", "send",
                  "send_raw", "generate_id"}
        /\ f.at \in {"get_ext", "prefetch_ext"} => f.ext \in Ext
    BY <2>2, <2>4 DEF Enter, Frame, Label
  <2>6. <<f>> \in Seq(Frame) /\ Len(<<f>>) = 1 /\ <<f>>[1] = f
    BY <2>5
  <2>7. OnlyStack(t) /\ Called(stack[t], stack'[t], f)
    BY <2>3, <2>6, <1>3 DEF OnlyStack, Called
  <2>8. CacheTypes' /\ AnswersRight' /\ ExtInv' /\ MaxInv' /\ Grows
    BY <1>1, <1>4, <1>5, <2>7, PlainRest
  <2>9. FrameOK(f)' /\ \A v : ValOK(f, v)'
    BY <2>5 DEF FrameOK, ValOK, GetExt, LazyExt
  <2>10. \A u \in Thread : ThreadOK(u)'
    BY <1>1, <1>5, <2>7, <2>8, <2>9, PlainFrames, ThreadCalled
  <2>11. f.at \notin Busy /\ f.at \notin {"enable_max", "read_max"}
    BY <2>5 DEF Busy, InExt, InMax, InXid
  <2>12. /\ Clear(stack[t], stack'[t], Busy)
         /\ Clear(stack[t], stack'[t], {"enable_max", "read_max"})
    BY <2>7, <2>11 DEF Clear
  <2>13. LockInv'
    BY <1>1, <2>7, <2>12, QuietLocks
  <2>14. NoLateCookie'
    <3>1. maxlen' = maxlen /\ has_error' = has_error
      BY <1>1 DEF Plain
    <3> QED
      BY <3>1, <1>3, <1>5, <2>7, <2>12, QuietLate
  <2> QED
    BY <1>2, <2>8, <2>10, <2>13, <2>14 DEF CacheInv
<1> QED
  BY <1>6, <1>7

\* xcb_prefetch_maximum_request_length takes reqlenlock.
LEMMA LockMaxKeeps ==
    ASSUME CacheInv, NEW t \in Thread, MaxStep(t), lock_max(t), UNCHANGED <<prog, inc, answers>>
    PROVE  CacheInv'
<1>1. /\ Plain /\ UNCHANGED <<script, stale>> /\ stale \subseteq stale'
      /\ UNCHANGED <<prog, requests, seen, lengths, stale, last, max, inc>>
  BY DEF MaxStep, lock_max, Plain, xidvars
<1>2. XidTypes' /\ RecordsRight'
  BY <1>1, RecordsSame
<1>3. /\ At(t, "lock_max") /\ Free("reqlen") /\ stack[t] # <<>> /\ stack[t][1].at = "lock_max"
      /\ stack[t] \in Seq(Frame) /\ Top(t).at = "lock_max"
  BY Running DEF lock_max
<1>4. CASE maxlen.tag # "NONE" /\ return(t, Null) /\ UNCHANGED lock
  <2>1. Gives(Top(t), 0)
    <3> SUFFICES ASSUME NEW g \in Frame, CalledBy(Top(t), g) PROVE ValOK(g, 0)'
      BY DEF Gives
    <3>1. g.at = "force_max" /\ maxlen' = maxlen
      BY <1>1, <1>3 DEF CalledBy, GetExt, Send, GetMax, PrefetchMax, Plain
    <3> QED
      BY <3>1, <1>4 DEF ValOK
  <2>2. "lock_max" \notin QuietLabels /\ 0 \in Nat /\ return(t, 0)
    BY <1>4 DEF QuietLabels, Busy, InExt, InMax, InXid, Null
  <2>3. Core'
    BY <1>1, <1>3, <1>4, <2>1, <2>2, PlainBack
  <2> QED
    BY <1>2, <2>3 DEF CacheInv, Core
<1>5. CASE /\ maxlen.tag = "NONE" /\ Acquire(t, "reqlen")
           /\ invoke(t, "enable_max", Enter("get_ext", big_requests, 0))
           /\ UNCHANGED val
  <2>1. PICK f : f = Enter("get_ext", big_requests, 0)
    OBVIOUS
  <2>2. f \in Frame /\ f.at = "get_ext" /\ f.ext = big_requests /\ f.ext \in Ext
    BY <2>1 DEF Enter, Frame, Label, Ext
  <2>3. FrameOK(f) /\ ValOK(f, val[t])
    BY <2>2 DEF FrameOK, ValOK
  <2>4. \A g : Same(g, Top(t), "enable_max") => FrameOK(g) /\ CalledBy(f, g)
    BY <2>2, <1>5 DEF Same, FrameOK, CalledBy, GetExt, LazyExt
  <2>5. invoke(t, "enable_max", f)
    BY <1>5, <2>1
  <2>6. lock \in [Locks -> Thread \cup {NoThread}] /\ "reqlen" \in Locks
    BY DEF CacheInv, LockInv, Locks
  <2>7. KeepsReqlen
    BY <1>3 DEF KeepsReqlen, Free
  <2>8. /\ "enable_max" \in Label /\ PrefetchMax \in Functions
        /\ "lock_max" \in PrefetchMax /\ "enable_max" \in PrefetchMax
    BY DEF Label, PrefetchMax, Functions
  <2>9. /\ Base' /\ OnlyStack(t) /\ OnlyVal(t)
        /\ \E g : Pushed(stack[t], stack'[t], f, g) /\ g.at = "enable_max"
    BY <1>1, <1>3, <1>5, <2>2, <2>3, <2>4, <2>5, <2>7, <2>8, BaseCall
  <2>10. PICK g : Pushed(stack[t], stack'[t], f, g) /\ g.at = "enable_max"
    BY <2>9
  <2>11. /\ Gains(stack[t], stack'[t], InMax)
         /\ Keeps(stack[t], stack'[t], InExt) /\ Keeps(stack[t], stack'[t], InXid)
         /\ Keeps(stack[t], stack'[t], {"read_max"})
    BY <1>3, <2>2, <2>10, PushedLabels DEF InMax, InExt, InXid
  <2>12. LockInv'
    <3>1. Gains(stack[t], stack'[t], LockLabels["reqlen"])
      BY <2>11 DEF LockLabels
    <3>2. \A l \in Locks \ {"reqlen"} : Keeps(stack[t], stack'[t], LockLabels[l])
      BY <2>11 DEF LockLabels, Locks
    <3> QED
      BY <3>1, <3>2, <1>3, <1>5, <2>6, <2>9, LockTaken
  <2>13. NoLateCookie'
    <3>1. Doomed(stack[t], val[t]) => Doomed(stack'[t], val'[t])
      <4> HAVE Doomed(stack[t], val[t])
      <4>1. ~Some(stack[t], {"enable_max"})
        BY <1>3, DoomedNone
      <4> SUFFICES ASSUME NEW i \in 1 .. Len(stack'[t]), stack'[t][i].at = "enable_max"
                   PROVE  i = 2 /\ stack'[t][1].at = "get_ext"
        BY DEF Doomed
      <4>2. stack'[t][1] = f /\ i # 1
        BY <2>2, <2>10 DEF Pushed
      <4>3. ASSUME i # 2 PROVE FALSE
        <5>1. i - 1 \in 2 .. Len(stack[t]) /\ (i - 1) + 1 = i /\ i - 1 \in 1 .. Len(stack[t])
          BY <4>2, <4>3, <2>10 DEF Pushed
        <5>2. stack'[t][(i - 1) + 1] = stack[t][i - 1]
          BY <5>1, <2>10 DEF Pushed
        <5> QED
          BY <5>1, <5>2, <4>1 DEF Some
      <4> QED
        BY <4>2, <4>3, <2>2
    <3>2. maxlen' = maxlen /\ has_error' = has_error
      BY <1>1 DEF Plain
    <3>3. Some(stack'[t], {"read_max"}) => Some(stack[t], {"read_max"})
      BY <2>11 DEF Keeps
    <3> QED
      BY <3>1, <3>2, <3>3, <2>9, LateStep
  <2> QED
    BY <1>2, <2>9, <2>12, <2>13 DEF CacheInv, Base
<1> QED
  BY <1>4, <1>5 DEF lock_max

\* xcb_get_maximum_request_length looks at the tag.
LEMMA ForceMaxKeeps ==
    ASSUME CacheInv, NEW t \in Thread, MaxStep(t), force_max(t), UNCHANGED <<prog, inc, answers>>
    PROVE  CacheInv'
<1>1. /\ Plain /\ UNCHANGED <<script, stale, val>> /\ stale \subseteq stale'
      /\ UNCHANGED <<prog, requests, seen, lengths, stale, last, max, inc>>
      /\ maxlen' = maxlen /\ has_error' = has_error
  BY DEF MaxStep, force_max, Plain, xidvars
<1>2. XidTypes' /\ RecordsRight'
  BY <1>1, RecordsSame
<1>3. /\ At(t, "force_max") /\ Free("reqlen") /\ stack[t] # <<>>
      /\ stack[t][1].at = "force_max" /\ stack[t] \in Seq(Frame) /\ Top(t).at = "force_max"
      /\ ValOK(Top(t), val[t])
  BY Running DEF force_max
<1>4. lock \in [Locks -> Thread \cup {NoThread}] /\ "reqlen" \in Locks
  BY DEF CacheInv, LockInv, Locks
<1>5. KeepsReqlen
  BY <1>3 DEF KeepsReqlen, Free
<1>6. /\ "wait_max" \in Label /\ "read_max" \in Label /\ GetMax \in Functions
      /\ "force_max" \in GetMax /\ "wait_max" \in GetMax /\ "read_max" \in GetMax
  BY DEF Label, GetMax, Functions
<1>7. CASE maxlen.tag = "COOKIE"
  <2>1. goto(t, "wait_max") /\ Acquire(t, "reqlen")
    BY <1>7 DEF force_max
  <2>2. maxlen.value = 0 => has_error
    BY <1>3, <1>7 DEF CacheInv, MaxInv, Free
  <2>3. \A f : Same(f, Top(t), "wait_max") => FrameOK(f) /\ ValOK(f, val[t])
    BY <1>7, <2>2 DEF Same, FrameOK, ValOK, GetExt, LazyExt
  <2>4. /\ Base' /\ OnlyStack(t) /\ OnlyVal(t)
        /\ \E f : Retop(stack[t], stack'[t], f) /\ f.at = "wait_max"
    BY <1>1, <1>3, <1>5, <1>6, <2>1, <2>3, BaseAt
  <2>5. PICK f : Retop(stack[t], stack'[t], f) /\ f.at = "wait_max"
    BY <2>4
  <2>6. /\ Gains(stack[t], stack'[t], InMax)
        /\ Keeps(stack[t], stack'[t], InExt) /\ Keeps(stack[t], stack'[t], InXid)
        /\ Keeps(stack[t], stack'[t], {"read_max"})
        /\ Keeps(stack[t], stack'[t], {"enable_max"})
    BY <1>3, <2>5, RetopLabels DEF InMax, InExt, InXid
  <2>7. LockInv'
    <3>1. Gains(stack[t], stack'[t], LockLabels["reqlen"])
      BY <2>6 DEF LockLabels
    <3>2. \A l \in Locks \ {"reqlen"} : Keeps(stack[t], stack'[t], LockLabels[l])
      BY <2>6 DEF LockLabels, Locks
    <3> QED
      BY <3>1, <3>2, <1>3, <1>4, <2>1, <2>4, LockTaken
  <2>8. NoLateCookie'
    BY <1>1, <1>3, <2>4, <2>6, LateQuiet
  <2> QED
    BY <1>2, <2>4, <2>7, <2>8 DEF CacheInv, Base
<1>8. CASE maxlen.tag # "COOKIE"
  <2>1. goto(t, "read_max") /\ lock' = lock
    BY <1>8 DEF force_max
  <2>2. maxlen.tag = "FORCED" \/ (maxlen.tag = "NONE" /\ has_error)
    <3>1. maxlen.tag \in {"NONE", "COOKIE", "FORCED"}
      BY DEF CacheInv, CacheTypes, Lazy
    <3> QED
      BY <3>1, <1>3, <1>8 DEF ValOK
  <2>3. \A f : Same(f, Top(t), "read_max") => FrameOK(f) /\ ValOK(f, val[t])
    BY <2>2 DEF Same, FrameOK, ValOK, GetExt, LazyExt
  <2>4. /\ Base' /\ OnlyStack(t) /\ OnlyVal(t)
        /\ \E f : Retop(stack[t], stack'[t], f) /\ f.at = "read_max"
    BY <1>1, <1>3, <1>5, <1>6, <2>1, <2>3, BaseAt
  <2>5. PICK f : Retop(stack[t], stack'[t], f) /\ f.at = "read_max"
    BY <2>4
  <2>6. Keeps(stack[t], stack'[t], {"enable_max"})
    BY <1>3, <2>5, RetopLabels
  <2>7. LockInv'
    <3>1. Clear(stack[t], stack'[t], Busy)
      BY <2>5, <1>3 DEF Clear, Busy, InExt, InMax, InXid
    <3> QED
      BY <3>1, <2>1, <2>4, QuietLocks
  <2>8. NoLateCookie'
    <3>1. \A u \in Thread : ~Some(stack[u], {"enable_max"})
      <4> TAKE u \in Thread
      <4>1. ~Some(stack[u], InMax)
        BY <1>3, <1>4, FreeNobody DEF LockLabels
      <4> QED
        BY <4>1 DEF Some, InMax
    <3>2. \A u \in Thread : ~Some(stack'[u], {"enable_max"})
      BY <3>1, <2>4, <2>6 DEF Keeps, OnlyStack
    <3>3. \A u \in Thread : Doomed(stack'[u], val'[u])
      BY <3>2, NoneDoomed
    <3> QED
      BY <3>3, <2>2, <1>1 DEF NoLateCookie
  <2> QED
    BY <1>2, <2>4, <2>7, <2>8 DEF CacheInv, Base
<1> QED
  BY <1>7, <1>8

\* The length is returned.
LEMMA ReadMaxKeeps ==
    ASSUME CacheInv, NEW t \in Thread, MaxStep(t), read_max(t), UNCHANGED <<prog, inc, answers>>
    PROVE  CacheInv'
<1>1. /\ Plain /\ UNCHANGED <<script, stale, lock>> /\ stale \subseteq stale'
      /\ UNCHANGED <<prog, requests, seen, stale, last, max, inc>>
      /\ maxlen' = maxlen /\ has_error' = has_error /\ return(t, maxlen.value)
      /\ lengths' = lengths \cup {[length |-> maxlen.value, error |-> has_error]}
  BY DEF MaxStep, read_max, Plain, xidvars
<1>2. /\ At(t, "read_max") /\ stack[t] # <<>> /\ stack[t][1].at = "read_max"
      /\ stack[t] \in Seq(Frame) /\ Top(t).at = "read_max" /\ FrameOK(Top(t))
  BY Running DEF read_max
<1>3. Some(stack[t], {"read_max"})
  BY <1>2, TopFrame DEF Some
<1>4. /\ maxlen \in Lazy /\ maxlen.value \in Nat /\ has_error \in BOOLEAN
  BY DEF CacheInv, CacheTypes, Lazy
<1>5. maxlen.tag = "FORCED" \/ (maxlen.tag = "NONE" /\ has_error)
  BY <1>3 DEF CacheInv, NoLateCookie
<1>6. maxlen.value \in {0, prog.short, Limit}
  BY <1>5 DEF CacheInv, MaxInv
<1>v. PICK v : v = maxlen.value
  OBVIOUS
<1>7. Gives(Top(t), v)
  <2> SUFFICES ASSUME NEW g \in Frame, CalledBy(Top(t), g) PROVE ValOK(g, v)'
    BY DEF Gives
  <2>1. g.at = "send_long"
    BY <1>2 DEF CalledBy, GetExt, Send, GetMax, PrefetchMax
  <2>2. v \in {0, prog'.short, Limit'}
    BY <1>1, <1>6, <1>v DEF Limit
  <2> QED
    BY <2>1, <2>2 DEF ValOK
<1>8. Base' /\ OnlyStack(t) /\ OnlyVal(t) /\ Popped(stack[t], stack'[t])
  <2>1. v \in Nat /\ return(t, v)
    BY <1>1, <1>4, <1>v
  <2> QED
    BY <1>1, <1>2, <1>7, <2>1, BaseBack DEF KeepsReqlen
<1>9. LockInv'
  <2>1. Clear(stack[t], stack'[t], Busy)
    BY <1>2, <1>8 DEF Clear, Busy, InExt, InMax, InXid
  <2> QED
    BY <2>1, <1>1, <1>8, QuietLocks
<1>10. NoLateCookie'
  <2>1. Keeps(stack[t], stack'[t], {"enable_max"})
    BY <1>2, <1>8, PoppedLabels
  <2> QED
    BY <2>1, <1>1, <1>2, <1>3, <1>8, LateQuiet
<1>11. XidTypes'
  BY <1>1 DEF CacheInv, XidTypes
<1>12. RecordsRight'
  <2>1. Good' <=> Good
    BY <1>1 DEF Good
  <2>2. Good' => \A l \in lengths' : ~l.error => l.length = Limit'
    <3> SUFFICES ASSUME Good, NEW l \in lengths', ~l.error PROVE l.length = Limit
      BY <2>1, <1>1 DEF Limit
    <3>1. CASE l \in lengths
      BY <3>1 DEF CacheInv, RecordsRight
    <3>2. CASE l = [length |-> maxlen.value, error |-> has_error]
      <4>1. ~has_error /\ l.length = maxlen.value
        BY <3>2
      <4> QED
        BY <4>1, <1>5 DEF CacheInv, MaxInv
    <3> QED
      BY <3>1, <3>2, <1>1
  <2>3. stale' = {} => \A s \in seen' : ~s.error => IsQuery(s.reply, s.ext)'
    BY <1>1 DEF CacheInv, RecordsRight, IsQuery, Req
  <2>4. \A i \in 1 .. Len(requests') : requests'[i].kind = "send" =>
           /\ Fits(requests'[i].len, prog'.short, Limit')
           /\ requests'[i].ext \in prog'.has \cup {NoExt}
    BY <1>1 DEF CacheInv, RecordsRight, Limit
  <2> QED
    BY <2>2, <2>3, <2>4 DEF RecordsRight
<1> QED
  BY <1>8, <1>9, <1>10, <1>11, <1>12 DEF CacheInv, Base
-----------------------------------------------------------------------------
(* Steps that send a request, see the connection break or collect a reply  *)
(* that is not about the caches                                            *)

Mild ==
    /\ UNCHANGED <<prog, extvars, maxlen, answers>>
    /\ has_error' \in BOOLEAN /\ (has_error => has_error')
    /\ requests' \in Seq(Request)
    /\ Len(requests) \in Nat /\ Len(requests') \in Nat /\ Len(requests) <= Len(requests')
    /\ \A k \in 1 .. Len(requests) : requests'[k] = requests[k]
    /\ \A k \in 1 .. Len(requests') :
         k > Len(requests) => requests'[k].kind # "query_extension"
    /\ collected' \subseteq 0 .. Len(requests')
    /\ \A k \in collected' : k \in collected \/ k = 0 \/ IsSend(k, xc_misc)

LEMMA MildFrame ==
    ASSUME Mild, NEW f, FrameOK(f)
    PROVE  FrameOK(f)'
<1>1. UNCHANGED <<prog, extensions, global_id, maxlen>> /\ (has_error => has_error')
  BY DEF Mild, extvars
<1> QED
  BY <1>1 DEF FrameOK, Limit

LEMMA MildFrames ==
    ASSUME CacheInv, NEW t \in Thread, Mild
    PROVE  KeptFrames(t)
BY ElsewhereOK, MildFrame DEF KeptFrames

LEMMA MildGrows ==
    ASSUME CacheInv, Mild, stale \subseteq stale'
    PROVE  Grows
<1>1. Len(answers) \in Nat
  BY LenProperties DEF CacheInv, CacheTypes
<1> QED
  BY <1>1 DEF Grows, Mild

LEMMA MildExt ==
    ASSUME CacheInv, Mild
    PROVE  ExtInv'
<1>1. /\ UNCHANGED <<global_id, next_global_id, extensions, answers>> /\ ExtInv
      /\ (has_error => has_error')
      /\ collected \subseteq 0 .. Len(requests)
      /\ Len(requests) \in Nat /\ Len(requests') \in Nat /\ Len(requests) <= Len(requests')
      /\ \A k \in 1 .. Len(requests) : requests'[k] = requests[k]
      /\ \A k \in 1 .. Len(requests') :
           k > Len(requests) => requests'[k].kind # "query_extension"
      /\ \A k \in collected' : k \in collected \/ k = 0 \/ IsSend(k, xc_misc)
  BY DEF CacheInv, CacheTypes, Mild, extvars
<1>2. \A k, e : IsQuery(k, e)' <=> IsQuery(k, e)
  BY <1>1 DEF IsQuery, Req
<1>3. \A e : Asked(e)' <=> Asked(e)
  BY <1>1, <1>2 DEF Asked, IsQuery
<1>4. \A k, e : IsAnswer(k, e)' <=> IsAnswer(k, e)
  BY <1>1, <1>2 DEF IsAnswer
<1>5. \A k, e : IsQuery(k, e) /\ k \notin collected => k \notin collected'
  BY <1>1 DEF IsQuery, IsSend, Req
<1>6. \A e, x : EntryOK(e, x) => EntryOK(e, x)'
  BY <1>1, <1>2, <1>3, <1>4, <1>5 DEF EntryOK
<1>7. AskedOnce'
  <2> SUFFICES ASSUME NEW i \in 1 .. Len(requests'), NEW j \in 1 .. Len(requests'),
                      requests'[i].kind = "query_extension", requests'[i] = requests'[j]
               PROVE  i = j
    BY DEF AskedOnce
  <2>1. i \in 1 .. Len(requests) /\ j \in 1 .. Len(requests)
    BY <1>1
  <2> QED
    BY <2>1, <1>1 DEF ExtInv, AskedOnce
<1>8. \A e \in Ext : IF global_id'[e] \in 1 .. Len(extensions')
                     THEN EntryOK(e, extensions[global_id[e]])' ELSE ~Asked(e)'
  <2> TAKE e \in Ext
  <2>1. PICK x : x = extensions[global_id[e]]
    OBVIOUS
  <2>2. CASE global_id[e] \in 1 .. Len(extensions)
    <3>1. EntryOK(e, x)'
      BY <2>1, <2>2, <1>1, <1>6 DEF ExtInv
    <3> QED
      BY <3>1, <2>1, <2>2, <1>1 DEF EntryOK
  <2>3. CASE global_id[e] \notin 1 .. Len(extensions)
    BY <2>3, <1>1, <1>3 DEF ExtInv
  <2> QED
    BY <2>2, <2>3
<1> QED
  BY <1>1, <1>7, <1>8 DEF ExtInv

LEMMA MildMax ==
    ASSUME CacheInv, Mild, KeepsReqlen, stale \subseteq stale'
    PROVE  MaxInv'
<1>1. /\ UNCHANGED <<prog, maxlen>> /\ MaxInv /\ (has_error => has_error')
      /\ collected \subseteq 0 .. Len(requests)
      /\ \A k \in 1 .. Len(requests) : requests'[k] = requests[k]
      /\ \A k \in collected' : k \in collected \/ k = 0 \/ IsSend(k, xc_misc)
      /\ big_requests # xc_misc
  BY CachesAssumption DEF CacheInv, CacheTypes, Mild
<1>2. \A k, e : IsSend(k, e) => IsSend(k, e)'
  BY MildGrows, QueryKept
<1>3. Good' => Good
  BY <1>1 DEF Good
<1>4. Limit' = Limit
  BY <1>1 DEF Limit
<1>5. maxlen.tag # "FORCED" => \A k \in collected' : ~IsSend(k, big_requests)'
  <2> SUFFICES ASSUME maxlen.tag # "FORCED", NEW k \in collected', IsSend(k, big_requests)'
               PROVE  FALSE
    OBVIOUS
  <2>1. k \in 1 .. Len(requests) => IsSend(k, big_requests)
    BY <1>1 DEF IsSend
  <2>2. CASE k \in collected
    BY <2>1, <2>2, <1>1 DEF MaxInv, IsSend
  <2>3. CASE k = 0
    BY <2>3 DEF IsSend
  <2>4. CASE IsSend(k, xc_misc)
    BY <2>1, <2>4, <1>1 DEF IsSend
  <2> QED
    BY <2>2, <2>3, <2>4, <1>1
<1>6. maxlen.tag = "COOKIE" =>
         /\ big_requests \in prog.has
         /\ IF maxlen.value = 0 THEN has_error' \/ lock'["reqlen"] # NoThread
            ELSE IsSend(maxlen.value, big_requests)'
  <2>1. PICK v : v = maxlen.value
    OBVIOUS
  <2>2. IsSend(v, big_requests) => IsSend(v, big_requests)'
    BY <1>2
  <2> QED
    BY <2>1, <2>2, <1>1 DEF MaxInv, KeepsReqlen
<1> QED
  BY <1>1, <1>3, <1>4, <1>5, <1>6 DEF MaxInv

LEMMA MildRest ==
    ASSUME CacheInv, NEW t \in Thread, Mild, OnlyStack(t), OnlyVal(t),
           script' \in [Thread -> Seq(Call)], stale \subseteq stale', KeepsReqlen
    PROVE  CacheTypes' /\ AnswersRight' /\ ExtInv' /\ MaxInv' /\ Grows
<1>1. CacheTypes /\ AnswersRight
  BY DEF CacheInv
<1>2. Len(answers) \in Nat
  BY <1>1, LenProperties DEF CacheTypes
<1>3. CacheTypes'
  BY <1>1, <1>2 DEF CacheTypes, Mild, extvars, OnlyStack, OnlyVal
<1>4. AnswersRight'
  <2>1. /\ UNCHANGED <<prog, answers>> /\ Len(requests) \in Nat /\ Len(answers) <= Len(requests)
        /\ \A k \in 1 .. Len(requests) : requests'[k] = requests[k]
    BY <1>1 DEF Mild, CacheTypes
  <2>2. \A i \in 1 .. Len(answers) : requests'[i] = requests[i]
    BY <1>2, <2>1
  <2> QED
    BY <1>1, <2>1, <2>2 DEF AnswersRight
<1> QED
  BY <1>3, <1>4, MildExt, MildMax, MildGrows

LEMMA MildAt ==
    ASSUME CacheInv, NEW t \in Thread, Mild, UNCHANGED <<script, stale, val>>, KeepsReqlen,
           NEW k, At(t, k), NEW l \in Label, goto(t, l),
           NEW fun \in Functions, k \in fun, l \in fun,
           \A f : Same(f, Top(t), l) => FrameOK(f) /\ ValOK(f, val[t])
    PROVE  /\ Base' /\ OnlyStack(t) /\ OnlyVal(t)
           /\ \E f : Retop(stack[t], stack'[t], f) /\ f.at = l
<1>1. /\ stack[t] # <<>> /\ Top(t) = stack[t][1] /\ Top(t) \in Frame /\ Top(t).at = k
      /\ stack \in [Thread -> Seq(Frame)] /\ val \in [Thread -> Nat]
      /\ script \in [Thread -> Seq(Call)]
  BY Running DEF CacheInv, CacheTypes
<1>2. PICK f : f = [stack[t][1] EXCEPT !.at = l]
  OBVIOUS
<1>3. Same(f, Top(t), l)
  BY <1>1, <1>2, SameAt
<1>4. Follows(f, stack[t][1]) /\ f.at = l
  BY <1>1, <1>3, SameFollows DEF Same
<1>5. FrameOK(f) /\ ValOK(f, val[t])
  BY <1>3
<1>6. Retop(stack[t], stack'[t], f) /\ OnlyStack(t)
  BY <1>1, <1>2, GotoShape
<1>7. OnlyVal(t)
  BY <1>1 DEF OnlyVal
<1>8. CacheTypes' /\ AnswersRight' /\ ExtInv' /\ MaxInv' /\ Grows
  BY <1>1, <1>6, <1>7, MildRest
<1>9. FrameOK(f)'
  BY <1>5, MildFrame
<1>10. ValOK(f, val[t])'
  <2>1. \A v : v = val[t] => ValOK(f, v)'
    BY <1>5, <1>8, ValKept
  <2> QED
    BY <2>1
<1>11. \A u \in Thread : ThreadOK(u)'
  BY <1>4, <1>6, <1>7, <1>8, <1>9, <1>10, MildFrames, ThreadRetop
<1> QED
  BY <1>4, <1>6, <1>7, <1>8, <1>11 DEF Base

LEMMA MildBack ==
    ASSUME CacheInv, NEW t \in Thread, Mild, UNCHANGED script, stale \subseteq stale',
           KeepsReqlen, NEW k, At(t, k), NEW v \in Nat, return(t, v), Gives(Top(t), v)
    PROVE  Base' /\ OnlyStack(t) /\ OnlyVal(t) /\ Popped(stack[t], stack'[t])
<1>1. /\ stack[t] # <<>> /\ Top(t) = stack[t][1]
      /\ stack \in [Thread -> Seq(Frame)] /\ val \in [Thread -> Nat]
      /\ script \in [Thread -> Seq(Call)]
  BY Running DEF CacheInv, CacheTypes
<1>2. Popped(stack[t], stack'[t]) /\ OnlyStack(t) /\ val'[t] = v /\ OnlyVal(t)
  BY <1>1, ReturnShape DEF OnlyVal
<1>3. CacheTypes' /\ AnswersRight' /\ ExtInv' /\ MaxInv' /\ Grows
  BY <1>1, <1>2, MildRest
<1>4. \A u \in Thread : ThreadOK(u)'
  BY <1>1, <1>2, <1>3, MildFrames, ThreadPopped
<1> QED
  BY <1>2, <1>3, <1>4 DEF Base

LEMMA MildCoreAt ==
    ASSUME CacheInv, NEW t \in Thread, Mild, UNCHANGED <<script, stale, val, lock>>,
           NEW k, At(t, k), NEW l \in Label, goto(t, l),
           k \notin QuietLabels, l \notin QuietLabels, k # "get_ext",
           NEW fun \in Functions, k \in fun, l \in fun,
           \A f : Same(f, Top(t), l) => FrameOK(f) /\ ValOK(f, val[t])
    PROVE  Core'
<1>1. KeepsReqlen
  BY DEF KeepsReqlen
<1>2. /\ Base' /\ OnlyStack(t) /\ OnlyVal(t)
      /\ \E f : Retop(stack[t], stack'[t], f) /\ f.at = l
  BY <1>1, MildAt
<1>3. stack[t] # <<>> /\ stack[t][1].at = k
  BY Running
<1>4. Clear(stack[t], stack'[t], Busy) /\ Clear(stack[t], stack'[t], {"enable_max", "read_max"})
  BY <1>2, <1>3 DEF Clear, QuietLabels, Busy, InMax
<1>5. LockInv'
  BY <1>2, <1>4, QuietLocks
<1>6. NoLateCookie'
  <2>1. maxlen' = maxlen /\ (has_error => has_error')
    BY DEF Mild
  <2> QED
    BY <2>1, <1>2, <1>3, <1>4, QuietLate
<1> QED
  BY <1>2, <1>5, <1>6 DEF Core, Base

LEMMA MildCoreBack ==
    ASSUME CacheInv, NEW t \in Thread, Mild, UNCHANGED <<script, lock>>, stale \subseteq stale',
           NEW k, At(t, k), NEW v \in Nat, return(t, v),
           k \notin QuietLabels, k # "get_ext", Gives(Top(t), v)
    PROVE  Core'
<1>1. KeepsReqlen
  BY DEF KeepsReqlen
<1>2. Base' /\ OnlyStack(t) /\ OnlyVal(t) /\ Popped(stack[t], stack'[t])
  BY <1>1, MildBack
<1>3. stack[t] # <<>> /\ stack[t][1].at = k
  BY Running
<1>4. Clear(stack[t], stack'[t], Busy) /\ Clear(stack[t], stack'[t], {"enable_max", "read_max"})
  BY <1>2, <1>3 DEF Clear, QuietLabels, Busy, InMax
<1>5. LockInv'
  BY <1>2, <1>4, QuietLocks
<1>6. NoLateCookie'
  <2>1. maxlen' = maxlen /\ (has_error => has_error')
    BY DEF Mild
  <2> QED
    BY <2>1, <1>2, <1>3, <1>4, QuietLate
<1> QED
  BY <1>2, <1>5, <1>6 DEF Core, Base

\* The records stay right if the requests that are added are.
LEMMA MildRecords ==
    ASSUME CacheInv, Mild, UNCHANGED <<seen, lengths, stale>>,
           \A i \in 1 .. Len(requests') : i > Len(requests) /\ requests'[i].kind = "send" =>
               /\ Fits(requests'[i].len, prog.short, Limit)
               /\ requests'[i].ext \in prog.has \cup {NoExt}
    PROVE  RecordsRight'
<1>1. /\ prog' = prog /\ RecordsRight
      /\ Len(requests) \in Nat /\ Len(requests') \in Nat
      /\ \A k \in 1 .. Len(requests) : requests'[k] = requests[k]
  BY DEF CacheInv, Mild
<1>2. Limit' = Limit /\ (Good' <=> Good)
  BY <1>1 DEF Limit, Good
<1>3. \A k, e : IsQuery(k, e) => IsQuery(k, e)'
  BY MildGrows, QueryKept
<1>4. stale' = {} => \A s \in seen' : ~s.error => IsQuery(s.reply, s.ext)'
  <2> SUFFICES ASSUME stale = {}, NEW s \in seen, ~s.error,
                      NEW k, NEW e, k = s.reply, e = s.ext
               PROVE  IsQuery(k, e)'
    BY DEF IsQuery
  <2> QED
    BY <1>1, <1>3 DEF RecordsRight
<1>5. \A i \in 1 .. Len(requests') : requests'[i].kind = "send" =>
         /\ Fits(requests'[i].len, prog.short, Limit)
         /\ requests'[i].ext \in prog.has \cup {NoExt}
  <2> TAKE i \in 1 .. Len(requests')
  <2>1. CASE i > Len(requests)
    BY <2>1
  <2>2. CASE ~(i > Len(requests))
    <3>1. i \in 1 .. Len(requests)
      BY <2>2, <1>1
    <3> QED
      BY <3>1, <1>1 DEF RecordsRight
  <2> QED
    BY <2>1, <2>2
<1> QED
  BY <1>1, <1>2, <1>4, <1>5 DEF RecordsRight

LEMMA PlainMild ==
    ASSUME CacheInv, Plain
    PROVE  Mild
<1>1. /\ Len(requests) \in Nat /\ requests \in Seq(Request) /\ has_error \in BOOLEAN
      /\ collected \subseteq 0 .. Len(requests)
  BY LenProperties DEF CacheInv, CacheTypes
<1> QED
  BY <1>1 DEF Plain, Mild

\* The connection breaks.
LEMMA BreakKeeps ==
    ASSUME CacheInv, break
    PROVE  CacheInv'
<1>1. /\ UNCHANGED <<prog, extvars, maxlen, answers, requests, collected, script, stack, val,
                     lock, seen, lengths, stale, last, max, inc>>
      /\ has_error' = TRUE
  BY DEF break, ghosts, xidvars
<1>2. Mild
  <2>1. /\ Len(requests) \in Nat /\ requests \in Seq(Request)
        /\ collected \subseteq 0 .. Len(requests)
    BY LenProperties DEF CacheInv, CacheTypes
  <2> QED
    BY <1>1, <2>1 DEF Mild
<1>3. Grows
  BY <1>1, <1>2, MildGrows
<1>4. CacheTypes'
  BY <1>1 DEF CacheInv, CacheTypes, extvars
<1>5. AnswersRight'
  BY <1>1 DEF CacheInv, AnswersRight
<1>6. ExtInv' /\ MaxInv'
  BY <1>1, <1>2, MildExt, MildMax DEF KeepsReqlen
<1>7. LockInv'
  BY <1>1 DEF CacheInv, LockInv
<1>8. \A u \in Thread : ThreadOK(u)'
  <2> SUFFICES ASSUME NEW u \in Thread PROVE ThreadOK(u)'
    OBVIOUS
  <2>1. ThreadOK(u)
    BY DEF CacheInv
  <2>2. \A i \in 1 .. Len(stack[u]) : FrameOK(stack[u][i])'
    <3> SUFFICES ASSUME NEW i \in 1 .. Len(stack[u]), NEW f, f = stack[u][i] PROVE FrameOK(f)'
      BY <1>1
    <3> QED
      BY <1>2, <2>1, MildFrame DEF ThreadOK
  <2>3. stack[u] # <<>> => ValOK(stack[u][1], val[u])'
    <3> SUFFICES ASSUME stack[u] # <<>>, NEW f, f = stack[u][1], NEW v, v = val[u]
                 PROVE  ValOK(f, v)'
      BY <1>1
    <3> QED
      BY <1>3, <2>1, ValKept DEF ThreadOK
  <2> QED
    BY <1>1, <2>1, <2>2, <2>3 DEF ThreadOK
<1>9. NoLateCookie'
  BY <1>1 DEF CacheInv, NoLateCookie
<1>10. XidTypes'
  BY <1>1 DEF CacheInv, XidTypes
<1>11. RecordsRight'
  <2>1. ~(\E i \in 1 .. Len(requests') : i > Len(requests))
    BY <1>1, <1>2 DEF Mild
  <2> QED
    BY <1>1, <1>2, <2>1, MildRecords
<1> QED
  BY <1>4, <1>5, <1>6, <1>7, <1>8, <1>9, <1>10, <1>11 DEF CacheInv
-----------------------------------------------------------------------------
(* xcb_send_request                                                        *)

\* An answer to the question about e tells whether the server has it.
LEMMA AnswerTells ==
    ASSUME CacheInv, NEW v, NEW e, ExtVal(v, e)
    PROVE  /\ Present(v) => e \in prog.has
           /\ ~Present(v) => (Good => has_error) \/ e \notin prog.has
<1>1. CASE v = 0
  BY <1>1 DEF ExtVal, Present, Null
<1>2. CASE v # 0
  <2>1. v \in 1 .. Len(requests) /\ requests[v] = Req("query_extension", e, 1) /\ v <= Len(answers)
    BY <1>2 DEF ExtVal, IsAnswer, IsQuery
  <2>2. Len(answers) \in Nat /\ Len(requests) \in Nat
    BY LenProperties DEF CacheInv, CacheTypes
  <2>3. v \in 1 .. Len(answers) /\ requests[v].ext = e
    BY <2>1, <2>2 DEF Req
  <2>4. answers[v].present <=> e \in prog.has
    BY <2>3 DEF CacheInv, AnswersRight
  <2> QED
    BY <2>4, <1>2 DEF Present, Null
<1> QED
  BY <1>1, <1>2

LEMMA RefusedMild ==
    ASSUME CacheInv, has_error' \in BOOLEAN, has_error => has_error',
           UNCHANGED <<prog, extvars, maxlen, answers, requests, collected>>
    PROVE  Mild /\ ~(\E i \in 1 .. Len(requests') : i > Len(requests))
<1>1. /\ Len(requests) \in Nat /\ requests \in Seq(Request)
      /\ collected \subseteq 0 .. Len(requests)
  BY LenProperties DEF CacheInv, CacheTypes
<1> QED
  BY <1>1 DEF Mild

LEMMA SendKeeps ==
    ASSUME CacheInv, NEW t \in Thread, SendStep(t), UNCHANGED <<prog, inc, answers>>
    PROVE  CacheInv'
<1>1. /\ UNCHANGED <<script, lock, extvars, maxlen, collected, seen, lengths, stale, last, max,
                     prog, inc, answers>>
      /\ stale \subseteq stale' /\ has_error \in BOOLEAN
  BY DEF SendStep, ghosts, xidvars, CacheInv, CacheTypes
<1>2. XidTypes'
  BY <1>1 DEF CacheInv, XidTypes
<1>3. \A l : At(t, l) => /\ FrameOK(Top(t)) /\ Top(t) \in Frame /\ Top(t).at = l
                         /\ ValOK(Top(t), val[t]) /\ val[t] \in Nat
  BY Running
<1>4. /\ \A l \in {"send_ext", "send_len", "send_out", "send_long"} :
             l \notin QuietLabels /\ l \in Label /\ l \in Send /\ l # "get_ext"
      /\ "raw_out" \notin QuietLabels
  BY DEF QuietLabels, Busy, InExt, InMax, InXid, Label, Send
<1>5. Send \in Functions /\ 0 \in Nat
  BY DEF Functions
<1>6. ASSUME NEW k \in {"send_ext", "send_long"}, At(t, k), requests' = requests, refused(t)
      PROVE  CacheInv'
  <2>1. has_error' = TRUE /\ return(t, 0)
    BY <1>6 DEF refused
  <2>2. Mild /\ ~(\E i \in 1 .. Len(requests') : i > Len(requests))
    BY <1>1, <1>6, <2>1, RefusedMild
  <2>3. Gives(Top(t), 0)
    BY <2>1, GivesNothing
  <2>4. Core'
    BY <1>1, <1>4, <1>5, <1>6, <2>1, <2>2, <2>3, MildCoreBack
  <2>5. RecordsRight'
    BY <1>1, <2>2, MildRecords
  <2> QED
    BY <1>2, <2>4, <2>5 DEF CacheInv, Core
<1>7. ASSUME NEW k \in {"send_ext", "send_long"}, At(t, k), requests' = requests,
             UNCHANGED <<has_error, val>>, NEW l \in {"send_len", "send_out"}, goto(t, l),
             \A f : Same(f, Top(t), l) => FrameOK(f) /\ ValOK(f, val[t])
      PROVE  CacheInv'
  <2>1. Mild /\ ~(\E i \in 1 .. Len(requests') : i > Len(requests))
    BY <1>1, <1>7, RefusedMild
  <2>2. Core'
    BY <1>1, <1>4, <1>5, <1>7, <2>1, MildCoreAt
  <2>3. RecordsRight'
    BY <1>1, <2>1, MildRecords
  <2> QED
    BY <1>2, <2>2, <2>3 DEF CacheInv, Core
<1>8. CASE send_ext(t)
  <2>1. At(t, "send_ext") /\ requests' = requests
    BY <1>8 DEF send_ext
  <2>2. CASE Present(val[t])
    <3>1. goto(t, "send_len") /\ UNCHANGED <<has_error, val>>
      BY <1>8, <2>2 DEF send_ext
    <3>2. ExtVal(val[t], Top(t).ext)
      BY <2>1, <1>3 DEF ValOK
    <3>3. Top(t).ext \in prog.has
      BY <2>2, <3>2, AnswerTells
    <3>4. \A f : Same(f, Top(t), "send_len") => FrameOK(f) /\ ValOK(f, val[t])
      BY <3>3 DEF Same, FrameOK, ValOK, GetExt, LazyExt
    <3> QED
      BY <1>7, <2>1, <3>1, <3>4
  <2>3. CASE ~Present(val[t])
    <3>1. refused(t)
      BY <1>8, <2>3 DEF send_ext
    <3> QED
      BY <1>6, <2>1, <3>1
  <2> QED
    BY <2>2, <2>3
<1>9. CASE send_long(t)
  <2>1. At(t, "send_long") /\ requests' = requests
    BY <1>9 DEF send_long
  <2>2. CASE too_long(Top(t).len, val[t])
    <3>1. refused(t)
      BY <1>9, <2>2 DEF send_long
    <3> QED
      BY <1>6, <2>1, <3>1
  <2>3. CASE ~too_long(Top(t).len, val[t])
    <3>1. goto(t, "send_out") /\ UNCHANGED <<has_error, val>>
      BY <1>9, <2>3 DEF send_long
    <3>2. /\ val[t] \in {0, prog.short, Limit} /\ FrameOK(Top(t)) /\ Top(t).at = "send_long"
          /\ Top(t).len \in Nat /\ val[t] \in Nat
      BY <2>1, <1>3 DEF ValOK, Frame
    <3>3. Top(t).len <= val[t]
      BY <2>3, <3>2 DEF too_long
    <3>4. prog.short \in Nat
      BY CachesAssumption DEF CacheInv, CacheTypes, Program
    <3>5. Top(t).len <= prog.short \/ Top(t).len <= Limit
      BY <3>2, <3>3, <3>4
    <3>6. Top(t).ext \in prog.has \cup {NoExt}
      BY <3>2 DEF FrameOK
    <3>7. \A f : Same(f, Top(t), "send_out") => FrameOK(f) /\ ValOK(f, val[t])
      BY <3>5, <3>6 DEF Same, FrameOK, ValOK, GetExt, LazyExt
    <3> QED
      BY <1>7, <2>1, <3>1, <3>7
  <2> QED
    BY <2>2, <2>3
<1>10. ASSUME NEW l \in {"send_out", "raw_out"}, At(t, l), has_error' = has_error,
              NEW q \in Request, requests' = Append(requests, q), q.ext = Top(t).ext,
              return(t, Len(requests')),
              q.kind # "query_extension", l = "send_out" => q.kind = "send",
              q.kind = "send" => /\ Fits(q.len, prog.short, Limit)
                                 /\ q.ext \in prog.has \cup {NoExt}
       PROVE  CacheInv'
  <2>1. /\ requests \in Seq(Request) /\ Len(requests) \in Nat
        /\ collected \subseteq 0 .. Len(requests)
    BY LenProperties DEF CacheInv, CacheTypes
  <2>2. /\ requests' \in Seq(Request) /\ Len(requests') = Len(requests) + 1
        /\ \A i \in 1 .. Len(requests) : requests'[i] = requests[i]
        /\ requests'[Len(requests) + 1] = q
    BY <2>1, <1>10, AppendProperties
  <2>3. \A i \in 1 .. Len(requests') : i > Len(requests) => requests'[i] = q
    BY <2>1, <2>2
  <2>4. Mild
    BY <1>1, <1>10, <2>1, <2>2, <2>3 DEF Mild
  <2>5. PICK v : v = Len(requests')
    OBVIOUS
  <2>6. PICK e : e = Top(t).ext
    OBVIOUS
  <2>7. v \in Nat /\ v # 0 /\ (l = "send_out" => IsSend(v, e)')
    BY <1>10, <2>1, <2>2, <2>5, <2>6 DEF IsSend
  <2>8. Top(t).at = l
    BY <1>10, <1>3
  <2>9. Gives(Top(t), v)
    <3> SUFFICES ASSUME NEW g \in Frame, CalledBy(Top(t), g) PROVE ValOK(g, v)'
      BY DEF Gives
    <3>1. /\ l = "send_out"
          /\ \/ g.at = "enabled_max" /\ e = big_requests
             \/ g.at = "wait_id" /\ e = xc_misc
      BY <2>6, <2>8 DEF CalledBy, GetExt, Send, GetMax, PrefetchMax
    <3> QED
      BY <3>1, <2>7 DEF ValOK
  <2>10. Core'
    <3>1. return(t, v)
      BY <1>10, <2>5
    <3>2. l \notin QuietLabels /\ l # "get_ext"
      BY <1>4, <1>10
    <3> QED
      BY <1>1, <1>10, <2>4, <2>7, <2>9, <3>1, <3>2, MildCoreBack
  <2>11. RecordsRight'
    BY <1>1, <1>10, <2>3, <2>4, MildRecords
  <2> QED
    BY <1>2, <2>10, <2>11 DEF CacheInv, Core
<1>11. CASE send_out(t)
  <2>1. has_error' = has_error /\ return(t, Len(requests'))
    BY <1>11 DEF send_out
  <2>2. CASE /\ At(t, "send_out")
             /\ requests' = Append(requests, Req("send", Top(t).ext, wire_length(Top(t).len)))
    <3>1. /\ Top(t).ext \in prog.has \cup {NoExt} /\ Top(t).ext \in Ext \cup {NoExt}
          /\ Top(t).len <= prog.short \/ Top(t).len <= Limit
          /\ Top(t).len \in Nat
      BY <2>2, <1>3 DEF FrameOK, Frame
    <3>2. prog.short \in Nat /\ Limit \in Nat
      BY CachesAssumption DEF CacheInv, CacheTypes, Program, Limit
    <3>3. PICK n : n = wire_length(Top(t).len)
      OBVIOUS
    <3>4. n \in Nat /\ Fits(n, prog.short, Limit)
      BY <3>1, <3>2, <3>3 DEF wire_length, Fits
    <3>5. PICK q : q = Req("send", Top(t).ext, n)
      OBVIOUS
    <3>6. /\ q \in Request /\ q.kind = "send" /\ q.ext = Top(t).ext /\ q.len = n
      BY <3>1, <3>4, <3>5 DEF Req, Request
    <3> QED
      BY <1>10, <2>1, <2>2, <3>1, <3>3, <3>4, <3>5, <3>6
  <2>3. CASE /\ At(t, "raw_out")
             /\ requests' = Append(requests, Req("raw", Top(t).ext, Top(t).len))
    <3>1. PICK q : q = Req("raw", Top(t).ext, Top(t).len)
      OBVIOUS
    <3>2. /\ q \in Request /\ q.kind = "raw" /\ q.ext = Top(t).ext
      BY <2>3, <3>1, <1>3 DEF Req, Request, Frame
    <3> QED
      BY <1>10, <2>1, <2>3, <3>1, <3>2
  <2> QED
    BY <2>2, <2>3, <1>11 DEF send_out
<1> QED
  BY <1>8, <1>9, <1>11 DEF SendStep
-----------------------------------------------------------------------------
(* xcb_generate_id                                                         *)

LEMMA WordRange ==
    ASSUME XidTypes, NEW n \in Int
    PROVE  n % Word \in 0 .. Word - 1
<1>1. Word \in Nat /\ Word > 0
  BY WordIsNat
<1> QED
  BY <1>1

\* A thread below which nobody waits may return anything.
LEMMA GivesNobody ==
    ASSUME NEW f, f.at \in Generate, NEW v
    PROVE  Gives(f, v)
BY DEF Gives, CalledBy, Generate, GetExt, Send, GetMax, PrefetchMax

LEMMA NextIdKeeps ==
    ASSUME CacheInv, NEW t \in Thread, XidStep(t), next_id(t), UNCHANGED <<prog, inc, answers>>
    PROVE  CacheInv'
<1>1. /\ UNCHANGED <<script, has_error, extvars, maxlen, requests, seen, lengths, stale,
                     prog, inc, answers, collected>>
      /\ Plain /\ stale \subseteq stale'
  BY DEF XidStep, next_id, Plain
<1>2. Mild /\ ~(\E i \in 1 .. Len(requests') : i > Len(requests))
  BY <1>1, RefusedMild DEF CacheInv, CacheTypes
<1>3. RecordsRight'
  BY <1>1, <1>2, MildRecords
<1>4. /\ At(t, "next_id") /\ Free("xid") /\ stack[t] # <<>> /\ stack[t][1].at = "next_id"
      /\ stack[t] \in Seq(Frame) /\ Top(t).at = "next_id"
  BY Running DEF next_id
<1>5. XidTypes /\ prog.mask \in 1 .. Word - 1 /\ Word \in Nat
  BY CachesAssumption, WordIsNat DEF CacheInv, CacheTypes, Program
<1>6. ASSUME return(t, Null), lock' = lock PROVE Core'
  <2>1. "next_id" \notin QuietLabels /\ "next_id" # "get_ext" /\ 0 \in Nat /\ return(t, 0)
    BY <1>6 DEF QuietLabels, Busy, InExt, InMax, InXid, Null
  <2>2. Gives(Top(t), 0)
    BY <1>4, GivesNobody DEF Generate
  <2> QED
    BY <1>1, <1>4, <1>6, <2>1, <2>2, PlainBack
<1>7. CASE /\ exhausted /\ last = 0 /\ max' = prog.mask /\ return(t, Null)
           /\ UNCHANGED <<last, lock>>
  <2>1. XidTypes'
    BY <1>1, <1>5, <1>7 DEF XidTypes
  <2> QED
    BY <1>3, <1>6, <1>7, <2>1 DEF CacheInv, Core
<1>8. CASE /\ Acquire(t, "xid") /\ invoke(t, "range_id", Enter("get_ext", xc_misc, 0))
           /\ UNCHANGED <<xidvars, val>>
  <2>1. PICK f : f = Enter("get_ext", xc_misc, 0)
    OBVIOUS
  <2>2. f \in Frame /\ f.at = "get_ext" /\ f.ext = xc_misc /\ f.ext \in Ext
    BY <2>1 DEF Enter, Frame, Label, Ext
  <2>3. FrameOK(f) /\ ValOK(f, val[t])
    BY <2>2 DEF FrameOK, ValOK
  <2>4. \A g : Same(g, Top(t), "range_id") => FrameOK(g) /\ CalledBy(f, g)
    BY <2>2 DEF Same, FrameOK, CalledBy, GetExt, LazyExt
  <2>5. invoke(t, "range_id", f) /\ val' = val
    BY <1>8, <2>1
  <2>6. lock \in [Locks -> Thread \cup {NoThread}] /\ "xid" \in Locks /\ "reqlen" \in Locks
    BY DEF CacheInv, LockInv, Locks
  <2>7. KeepsReqlen
    BY <1>8, <2>6 DEF KeepsReqlen, Acquire
  <2>8. /\ "range_id" \in Label /\ Generate \in Functions
        /\ "next_id" \in Generate /\ "range_id" \in Generate
    BY DEF Label, Generate, Functions
  <2>9. /\ Base' /\ OnlyStack(t) /\ OnlyVal(t)
        /\ \E g : Pushed(stack[t], stack'[t], f, g) /\ g.at = "range_id"
    BY <1>1, <1>4, <2>2, <2>3, <2>4, <2>5, <2>7, <2>8, BaseCall
  <2>10. PICK g : Pushed(stack[t], stack'[t], f, g) /\ g.at = "range_id"
    BY <2>9
  <2>11. /\ Gains(stack[t], stack'[t], InXid)
         /\ Keeps(stack[t], stack'[t], InExt) /\ Keeps(stack[t], stack'[t], InMax)
         /\ Keeps(stack[t], stack'[t], {"read_max"})
         /\ Keeps(stack[t], stack'[t], {"enable_max"})
    BY <1>4, <2>2, <2>10, PushedLabels DEF InMax, InExt, InXid
  <2>12. LockInv'
    <3>1. Gains(stack[t], stack'[t], LockLabels["xid"])
      BY <2>11 DEF LockLabels
    <3>2. \A l \in Locks \ {"xid"} : Keeps(stack[t], stack'[t], LockLabels[l])
      BY <2>11 DEF LockLabels, Locks
    <3> QED
      BY <3>1, <3>2, <1>4, <1>8, <2>6, <2>9, LockTaken
  <2>13. NoLateCookie'
    BY <1>1, <1>4, <2>9, <2>11, LateQuiet
  <2>14. XidTypes'
    BY <1>1, <1>5, <1>8 DEF XidTypes, xidvars
  <2> QED
    BY <1>3, <2>9, <2>12, <2>13, <2>14 DEF CacheInv, Base
<1>9. CASE ~exhausted /\ last' = (last + inc) % Word /\ return(t, Null) /\ UNCHANGED <<max, lock>>
  <2>1. last + inc \in Int
    BY <1>5 DEF XidTypes
  <2>2. last' \in 0 .. Word - 1
    BY <1>5, <1>9, <2>1, WordRange
  <2>3. XidTypes'
    BY <1>1, <1>5, <1>9, <2>2 DEF XidTypes
  <2> QED
    BY <1>3, <1>6, <1>9, <2>3 DEF CacheInv, Core
<1> QED
  BY <1>7, <1>8, <1>9 DEF next_id

\* No range could be asked for, or it is asked for.
LEMMA RangeIdKeeps ==
    ASSUME CacheInv, NEW t \in Thread, XidStep(t), range_id(t), UNCHANGED <<prog, inc, answers>>
    PROVE  CacheInv'
<1>1. /\ UNCHANGED <<script, has_error, extvars, maxlen, requests, seen, lengths, stale,
                     prog, inc, answers, collected, last, max>>
      /\ Plain /\ stale \subseteq stale'
  BY DEF XidStep, range_id, Plain, xidvars
<1>2. Mild /\ ~(\E i \in 1 .. Len(requests') : i > Len(requests))
  BY <1>1, RefusedMild DEF CacheInv, CacheTypes
<1>3. RecordsRight' /\ XidTypes'
  BY <1>1, <1>2, MildRecords DEF CacheInv, XidTypes
<1>4. /\ At(t, "range_id") /\ stack[t] # <<>> /\ stack[t][1].at = "range_id"
      /\ stack[t] \in Seq(Frame) /\ Top(t).at = "range_id"
  BY Running DEF range_id
<1>5. lock \in [Locks -> Thread \cup {NoThread}] /\ "xid" \in Locks /\ "reqlen" \in Locks
  BY DEF CacheInv, LockInv, Locks
<1>6. CASE return(t, Null) /\ Release("xid")
  <2>1. return(t, 0) /\ 0 \in Nat
    BY <1>6 DEF Null
  <2>2. Gives(Top(t), 0)
    BY <1>4, GivesNobody DEF Generate
  <2>3. KeepsReqlen
    BY <1>5, <1>6 DEF KeepsReqlen, Release
  <2>4. Base' /\ OnlyStack(t) /\ OnlyVal(t) /\ Popped(stack[t], stack'[t])
    BY <1>1, <1>4, <2>1, <2>2, <2>3, BaseBack
  <2>5. /\ Loses(stack[t], stack'[t], InXid)
        /\ Keeps(stack[t], stack'[t], InExt) /\ Keeps(stack[t], stack'[t], InMax)
        /\ Keeps(stack[t], stack'[t], {"read_max"})
        /\ Keeps(stack[t], stack'[t], {"enable_max"})
    BY <1>4, <2>4, PoppedLabels DEF InMax, InExt, InXid
  <2>6. LockInv'
    <3>1. Loses(stack[t], stack'[t], LockLabels["xid"]) /\ stack[t][1].at \in LockLabels["xid"]
      BY <2>5, <1>4 DEF LockLabels, InXid
    <3>2. \A l \in Locks \ {"xid"} : Keeps(stack[t], stack'[t], LockLabels[l])
      BY <2>5 DEF LockLabels, Locks
    <3> QED
      BY <3>1, <3>2, <1>4, <1>5, <1>6, <2>4, LockGiven
  <2>7. NoLateCookie'
    BY <1>1, <1>4, <2>4, <2>5, LateQuiet
  <2> QED
    BY <1>3, <2>4, <2>6, <2>7 DEF CacheInv, Base
<1>7. CASE invoke(t, "wait_id", Enter("send", xc_misc, 1)) /\ UNCHANGED <<val, lock>>
  <2>1. PICK f : f = Enter("send", xc_misc, 1)
    OBVIOUS
  <2>2. f \in Frame /\ f.at = "send" /\ f.ext = xc_misc
    BY <2>1 DEF Enter, Frame, Label, Ext
  <2>3. FrameOK(f) /\ ValOK(f, val[t])
    BY <2>2 DEF FrameOK, ValOK, GetExt, LazyExt
  <2>4. \A g : Same(g, Top(t), "wait_id") => FrameOK(g) /\ CalledBy(f, g)
    BY <2>2 DEF Same, FrameOK, CalledBy, GetExt, LazyExt, Send
  <2>5. invoke(t, "wait_id", f)
    BY <1>7, <2>1
  <2>6. KeepsReqlen
    BY <1>7 DEF KeepsReqlen
  <2>7. /\ "wait_id" \in Label /\ Generate \in Functions
        /\ "wait_id" \in Generate /\ "range_id" \in Generate
    BY DEF Label, Generate, Functions
  <2>8. /\ Base' /\ OnlyStack(t) /\ OnlyVal(t)
        /\ \E g : Pushed(stack[t], stack'[t], f, g) /\ g.at = "wait_id"
    BY <1>1, <1>4, <1>7, <2>2, <2>3, <2>4, <2>5, <2>6, <2>7, BaseCall
  <2>9. PICK g : Pushed(stack[t], stack'[t], f, g) /\ g.at = "wait_id"
    BY <2>8
  <2>10. /\ Keeps(stack[t], stack'[t], InXid)
         /\ Keeps(stack[t], stack'[t], InExt) /\ Keeps(stack[t], stack'[t], InMax)
         /\ Keeps(stack[t], stack'[t], {"read_max"})
         /\ Keeps(stack[t], stack'[t], {"enable_max"})
    BY <1>4, <2>2, <2>9, PushedLabels DEF InMax, InExt, InXid
  <2>11. LockInv'
    <3>1. \A l \in Locks : LockMove(t, l)
      BY <2>10, <1>7 DEF LockLabels, Locks, LockMove
    <3> QED
      BY <3>1, <1>5, <1>7, <2>8, LockStep
  <2>12. NoLateCookie'
    BY <1>1, <1>4, <2>8, <2>10, LateQuiet
  <2> QED
    BY <1>3, <2>8, <2>11, <2>12 DEF CacheInv, Base
<1> QED
  BY <1>6, <1>7 DEF range_id, no_id

\* The range has been asked for.
LEMMA WaitIdKeeps ==
    ASSUME CacheInv, NEW t \in Thread, XidStep(t), wait_id(t), UNCHANGED <<prog, inc, answers>>
    PROVE  CacheInv'
<1>1. /\ UNCHANGED <<script, has_error, extvars, maxlen, requests, seen, lengths, stale,
                     prog, inc, answers>>
      /\ stale \subseteq stale' /\ collected' = collected \cup {val[t]}
      /\ return(t, 0) /\ Release("xid") /\ 0 \in Nat
  BY DEF XidStep, wait_id, Null
<1>2. /\ At(t, "wait_id") /\ stack[t] # <<>> /\ stack[t][1].at = "wait_id"
      /\ stack[t] \in Seq(Frame) /\ Top(t).at = "wait_id" /\ ValOK(Top(t), val[t])
  BY Running DEF wait_id
<1>3. val[t] = 0 \/ IsSend(val[t], xc_misc)
  BY <1>2 DEF ValOK
<1>4. Mild
  <2>1. /\ Len(requests) \in Nat /\ requests \in Seq(Request) /\ has_error \in BOOLEAN
        /\ collected \subseteq 0 .. Len(requests)
    BY LenProperties DEF CacheInv, CacheTypes
  <2>2. collected' \subseteq 0 .. Len(requests)
    BY <1>1, <1>3, <2>1 DEF IsSend
  <2> QED
    BY <1>1, <1>3, <2>1, <2>2 DEF Mild
<1>5. RecordsRight'
  <2>1. ~(\E i \in 1 .. Len(requests') : i > Len(requests))
    BY <1>1, <1>4 DEF Mild
  <2> QED
    BY <1>1, <1>4, <2>1, MildRecords
<1>6. lock \in [Locks -> Thread \cup {NoThread}] /\ "xid" \in Locks /\ "reqlen" \in Locks
  BY DEF CacheInv, LockInv, Locks
<1>7. Gives(Top(t), 0)
  BY <1>2, GivesNobody DEF Generate
<1>8. KeepsReqlen
  BY <1>1, <1>6 DEF KeepsReqlen, Release
<1>9. Base' /\ OnlyStack(t) /\ OnlyVal(t) /\ Popped(stack[t], stack'[t])
  BY <1>1, <1>2, <1>4, <1>7, <1>8, MildBack
<1>10. /\ Loses(stack[t], stack'[t], InXid)
       /\ Keeps(stack[t], stack'[t], InExt) /\ Keeps(stack[t], stack'[t], InMax)
       /\ Keeps(stack[t], stack'[t], {"read_max"})
       /\ Keeps(stack[t], stack'[t], {"enable_max"})
  BY <1>2, <1>9, PoppedLabels DEF InMax, InExt, InXid
<1>11. LockInv'
  <2>1. Loses(stack[t], stack'[t], LockLabels["xid"]) /\ stack[t][1].at \in LockLabels["xid"]
    BY <1>10, <1>2 DEF LockLabels, InXid
  <2>2. \A l \in Locks \ {"xid"} : Keeps(stack[t], stack'[t], LockLabels[l])
    BY <1>10 DEF LockLabels, Locks
  <2> QED
    BY <2>1, <2>2, <1>1, <1>2, <1>6, <1>9, LockGiven
<1>12. NoLateCookie'
  BY <1>1, <1>2, <1>9, <1>10, LateQuiet
<1>13. XidTypes'
  <2>1. XidTypes /\ Word \in Nat
    BY WordIsNat DEF CacheInv
  <2>2. PICK r \in Replies(val[t]) :
            LET range == IF r = Null THEN NoRange ELSE answers[r].range
            IN  \/ UNCHANGED xidvars
                \/ /\ last' = range.start
                   /\ max' = (range.start + (range.count - 1) * inc) % Word
    BY DEF wait_id
  <2>3. PICK range : range = IF r = Null THEN NoRange ELSE answers[r].range
    OBVIOUS
  <2>4. range \in IdRange
    <3>1. NoRange \in IdRange
      BY <2>1 DEF NoRange, IdRange, XidTypes
    <3>2. ASSUME r # Null PROVE answers[r].range \in IdRange
      <4>1. r \in 1 .. Len(answers)
        BY <3>2 DEF Replies
      <4>2. answers \in Seq([present : BOOLEAN, length : Nat, range : IdRange])
        BY DEF CacheInv, CacheTypes
      <4>3. answers[r] \in [present : BOOLEAN, length : Nat, range : IdRange]
        BY <4>1, <4>2, ElementOfSeq
      <4> QED
        BY <4>3
    <3> QED
      BY <2>3, <3>1, <3>2
  <2>5. range.start \in 0 .. Word - 1 /\ range.count \in Nat
    BY <2>4 DEF IdRange
  <2>6. CASE UNCHANGED xidvars
    BY <2>1, <2>6, <1>1 DEF XidTypes, xidvars
  <2>7. CASE last' = range.start /\ max' = (range.start + (range.count - 1) * inc) % Word
    <3>1. range.start \in Int /\ range.count - 1 \in Int /\ inc \in Int
      BY <2>1, <2>5 DEF XidTypes
    <3>2. range.start + (range.count - 1) * inc \in Int
      BY <3>1
    <3>3. max' \in 0 .. Word - 1
      BY <2>1, <2>7, <3>2, WordRange
    <3> QED
      BY <2>1, <2>5, <2>7, <3>3, <1>1 DEF XidTypes
  <2> QED
    BY <2>2, <2>3, <2>6, <2>7
<1> QED
  BY <1>5, <1>9, <1>11, <1>12, <1>13 DEF CacheInv, Base
-----------------------------------------------------------------------------
(* The maximum request length                                              *)

\* A thread that holds reqlenlock changes the length.
SetsMax(t) ==
    /\ UNCHANGED <<prog, has_error, extvars, requests, answers, script, stale>>
    /\ stack[t] # <<>> /\ stack[t][1].at \in InMax
    /\ maxlen' \in Lazy /\ maxlen'.tag # "NONE"
    /\ maxlen'.tag = "FORCED" \/ maxlen.tag # "FORCED"
    /\ collected' \subseteq 0 .. Len(requests)
    /\ \A k \in collected' : k \in collected \/ k = 0 \/ IsSend(k, big_requests)

LEMMA MaxFrames ==
    ASSUME CacheInv, NEW t \in Thread, SetsMax(t)
    PROVE  KeptFrames(t)
<1> SUFFICES ASSUME NEW f \in Frame, Elsewhere(t, f) PROVE FrameOK(f)'
  BY DEF KeptFrames
<1>1. FrameOK(f) /\ f.at \notin InMax
  <2>1. "reqlen" \in Locks /\ LockLabels["reqlen"] = InMax
    BY DEF Locks, LockLabels
  <2> QED
    BY <2>1, ElsewhereOK DEF SetsMax
<1>2. UNCHANGED <<prog, has_error, extensions, global_id>>
  BY DEF SetsMax, extvars
<1>3. f.at = "read_max" => maxlen'.tag = "FORCED" \/ has_error
  BY <1>1 DEF FrameOK, SetsMax
<1> QED
  BY <1>1, <1>2, <1>3 DEF FrameOK, Limit, InMax

LEMMA MaxRest ==
    ASSUME CacheInv, NEW t \in Thread, SetsMax(t), OnlyStack(t), OnlyVal(t)
    PROVE  CacheTypes' /\ AnswersRight' /\ ExtInv' /\ Grows
<1>1. /\ UNCHANGED <<prog, has_error, global_id, next_global_id, extensions, home, requests,
                     answers, script, stale>>
      /\ maxlen' \in Lazy /\ maxlen'.tag # "NONE"
      /\ collected' \subseteq 0 .. Len(requests)
      /\ \A k \in collected' : k \in collected \/ k = 0 \/ IsSend(k, big_requests)
      /\ CacheTypes /\ AnswersRight /\ ExtInv
  BY DEF SetsMax, extvars, CacheInv
<1>2. CacheTypes'
  BY <1>1 DEF CacheTypes, OnlyStack, OnlyVal
<1>3. AnswersRight'
  BY <1>1 DEF AnswersRight
<1>4. \A k, e : IsQuery(k, e) /\ k \notin collected => k \notin collected'
  BY <1>1 DEF IsQuery, IsSend, Req
<1>5. \A e, x : EntryOK(e, x) => EntryOK(e, x)'
  <2> TAKE e, x
  <2>1. \A k : IsQuery(k, e)' <=> IsQuery(k, e)
    BY <1>1 DEF IsQuery, Req
  <2>2. Asked(e)' <=> Asked(e)
    BY <1>1, <2>1 DEF Asked
  <2>3. \A k : IsAnswer(k, e)' <=> IsAnswer(k, e)
    BY <1>1, <2>1 DEF IsAnswer
  <2> QED
    BY <1>1, <1>4, <2>1, <2>2, <2>3 DEF EntryOK
<1>6. \A e : Asked(e)' <=> Asked(e)
  BY <1>1 DEF Asked, IsQuery, Req
<1>7. AskedOnce'
  BY <1>1 DEF ExtInv, AskedOnce
<1>8. \A e \in Ext : IF global_id'[e] \in 1 .. Len(extensions')
                     THEN EntryOK(e, extensions[global_id[e]])' ELSE ~Asked(e)'
  <2> TAKE e \in Ext
  <2>1. PICK x : x = extensions[global_id[e]]
    OBVIOUS
  <2>2. CASE global_id[e] \in 1 .. Len(extensions)
    <3>1. EntryOK(e, x)'
      BY <2>1, <2>2, <1>1, <1>5 DEF ExtInv
    <3> QED
      BY <3>1, <2>1, <2>2, <1>1 DEF EntryOK
  <2>3. CASE global_id[e] \notin 1 .. Len(extensions)
    BY <2>3, <1>1, <1>6 DEF ExtInv
  <2> QED
    BY <2>2, <2>3
<1>9. ExtInv'
  BY <1>1, <1>7, <1>8 DEF ExtInv
<1>10. Grows
  <2>1. Len(requests) \in Nat /\ Len(answers) \in Nat
    BY <1>1, LenProperties DEF CacheTypes
  <2> QED
    BY <1>1, <2>1 DEF Grows
<1> QED
  BY <1>2, <1>3, <1>9, <1>10

\* What a thread at these labels knows.
LEMMA MaxHolder ==
    ASSUME CacheInv, NEW t \in Thread, NEW k \in InMax, At(t, k)
    PROVE  /\ stack[t] \in Seq(Frame) /\ stack[t] # <<>> /\ Top(t) = stack[t][1]
           /\ stack[t][1].at = k /\ stack[t][1] \in Frame
           /\ FrameOK(stack[t][1]) /\ ValOK(stack[t][1], val[t])
           /\ lock["reqlen"] = t /\ t # NoThread /\ "reqlen" \in Locks
           /\ lock \in [Locks -> Thread \cup {NoThread}]
           /\ stack \in [Thread -> Seq(Frame)] /\ val \in [Thread -> Nat] /\ val[t] \in Nat
<1>1. /\ stack[t] \in Seq(Frame) /\ stack[t] # <<>> /\ Top(t) = stack[t][1]
      /\ stack[t][1].at = k /\ stack[t][1] \in Frame
      /\ FrameOK(stack[t][1]) /\ ValOK(stack[t][1], val[t])
      /\ stack \in [Thread -> Seq(Frame)] /\ val \in [Thread -> Nat] /\ val[t] \in Nat
  BY Running
<1>2. "reqlen" \in Locks /\ LockLabels["reqlen"] = InMax
  BY DEF Locks, LockLabels
<1>3. Some(stack[t], InMax)
  BY <1>1, TopFrame DEF Some
<1>4. lock["reqlen"] = t
  BY <1>2, <1>3 DEF CacheInv, LockInv
<1> QED
  BY <1>1, <1>2, <1>4, CachesAssumption DEF CacheInv, LockInv

\* The thread returns and gives reqlenlock back.
LEMMA MaxReturns ==
    ASSUME CacheInv, NEW t \in Thread, SetsMax(t), NEW k \in InMax, At(t, k), k # "wait_max",
           Release("reqlen"), return(t, 0)
    PROVE  /\ CacheTypes' /\ AnswersRight' /\ ExtInv' /\ LockInv'
           /\ (\A u \in Thread : ThreadOK(u)')
           /\ OnlyStack(t) /\ OnlyVal(t) /\ Keeps(stack[t], stack'[t], {"read_max"})
<1>1. /\ stack[t] # <<>> /\ stack[t][1].at = k /\ "reqlen" \in Locks
      /\ lock \in [Locks -> Thread \cup {NoThread}]
      /\ stack \in [Thread -> Seq(Frame)] /\ val \in [Thread -> Nat] /\ 0 \in Nat
  BY MaxHolder
<1>2. Popped(stack[t], stack'[t]) /\ OnlyStack(t) /\ val'[t] = 0 /\ OnlyVal(t)
  BY <1>1, ReturnShape DEF OnlyVal
<1>3. CacheTypes' /\ AnswersRight' /\ ExtInv' /\ Grows
  BY <1>2, MaxRest
<1>4. Gives(stack[t][1], 0)
  <2> SUFFICES ASSUME NEW g \in Frame, CalledBy(stack[t][1], g) PROVE ValOK(g, 0)'
    BY DEF Gives
  <2>1. g.at = "force_max"
    BY <1>1 DEF CalledBy, GetExt, Send, GetMax, PrefetchMax, InMax
  <2> QED
    BY <2>1 DEF ValOK, SetsMax
<1>5. \A u \in Thread : ThreadOK(u)'
  BY <1>2, <1>3, <1>4, MaxFrames, ThreadPopped
<1>6. /\ Loses(stack[t], stack'[t], InMax)
      /\ Keeps(stack[t], stack'[t], InExt) /\ Keeps(stack[t], stack'[t], InXid)
      /\ Keeps(stack[t], stack'[t], {"read_max"})
  BY <1>1, <1>2, PoppedLabels DEF InMax, InExt, InXid
<1>7. LockInv'
  <2>1. Loses(stack[t], stack'[t], LockLabels["reqlen"]) /\ stack[t][1].at \in LockLabels["reqlen"]
    BY <1>6, <1>1 DEF LockLabels
  <2>2. \A l \in Locks \ {"reqlen"} : Keeps(stack[t], stack'[t], LockLabels[l])
    BY <1>6 DEF LockLabels, Locks
  <2> QED
    BY <2>1, <2>2, <1>1, <1>2, LockGiven
<1> QED
  BY <1>2, <1>3, <1>5, <1>6, <1>7

\* The answer about BIG-REQUESTS is in.
LEMMA EnableMaxKeeps ==
    ASSUME CacheInv, NEW t \in Thread, MaxStep(t), enable_max(t), UNCHANGED <<prog, inc, answers>>
    PROVE  CacheInv'
<1>1. UNCHANGED <<script, has_error, extvars, requests, seen, stale, lengths, last, max, prog,
                  inc, answers, collected>>
  BY DEF MaxStep, enable_max, xidvars
<1>2. XidTypes' /\ RecordsRight'
  BY <1>1, RecordsSame
<1>3. At(t, "enable_max") /\ "enable_max" \in InMax
  BY DEF enable_max, InMax
<1>4. /\ stack[t] \in Seq(Frame) /\ stack[t] # <<>> /\ stack[t][1].at = "enable_max"
      /\ FrameOK(stack[t][1]) /\ ValOK(stack[t][1], val[t])
      /\ lock["reqlen"] = t /\ t # NoThread
      /\ stack \in [Thread -> Seq(Frame)] /\ val \in [Thread -> Nat] /\ val[t] \in Nat
      /\ Top(t) = stack[t][1] /\ stack[t][1] \in Frame
  BY <1>3, MaxHolder
<1>5. /\ maxlen.tag = "NONE" /\ maxlen.value = 0 /\ ExtVal(val[t], big_requests)
      /\ maxlen \in Lazy
  BY <1>4 DEF FrameOK, ValOK, CacheInv, MaxInv, CacheTypes
<1>6. collected \subseteq 0 .. Len(requests) /\ prog.short \in Nat
  BY CachesAssumption DEF CacheInv, CacheTypes, Program
<1>7. CASE /\ Present(val[t]) /\ maxlen' = [maxlen EXCEPT !.tag = "COOKIE"]
           /\ invoke(t, "enabled_max", Enter("send", big_requests, 1))
           /\ UNCHANGED <<lock, val>>
  <2>1. maxlen' \in Lazy /\ maxlen'.tag = "COOKIE" /\ maxlen'.value = 0
    BY <1>5, <1>7 DEF Lazy
  <2>2. SetsMax(t)
    BY <1>1, <1>3, <1>4, <1>5, <1>6, <2>1 DEF SetsMax
  <2>3. PICK f : f = Enter("send", big_requests, 1)
    OBVIOUS
  <2>4. f \in Frame /\ f.at = "send" /\ f.ext = big_requests
    BY <2>3 DEF Enter, Frame, Label, Ext
  <2>5. PICK g : g = [stack[t][1] EXCEPT !.at = "enabled_max"]
    OBVIOUS
  <2>6. "enabled_max" \in Label /\ PrefetchMax \in Functions
        /\ "enable_max" \in PrefetchMax /\ "enabled_max" \in PrefetchMax
    BY DEF Label, PrefetchMax, Functions
  <2>7. Same(g, stack[t][1], "enabled_max")
    BY <2>5, <2>6, <1>4, SameAt
  <2>8. Follows(g, stack[t][1]) /\ g.at = "enabled_max"
    BY <2>6, <2>7, <1>4, SameFollows DEF Same
  <2>9. Pushed(stack[t], stack'[t], f, g) /\ OnlyStack(t)
    BY <1>4, <1>7, <2>3, <2>4, <2>5, <2>6, InvokeShape
  <2>10. OnlyVal(t)
    BY <1>4, <1>7 DEF OnlyVal
  <2>11. CacheTypes' /\ AnswersRight' /\ ExtInv' /\ Grows
    BY <2>2, <2>9, <2>10, MaxRest
  <2>12. FrameOK(f)' /\ FrameOK(g)' /\ CalledBy(f, g) /\ \A v : ValOK(f, v)'
    BY <2>1, <2>4, <2>8 DEF FrameOK, ValOK, CalledBy, GetExt, LazyExt, Send
  <2>13. \A u \in Thread : ThreadOK(u)'
    BY <2>2, <2>8, <2>9, <2>10, <2>11, <2>12, MaxFrames, ThreadPushed
  <2>14. /\ Keeps(stack[t], stack'[t], InXid)
         /\ Keeps(stack[t], stack'[t], InExt) /\ Keeps(stack[t], stack'[t], InMax)
         /\ Keeps(stack[t], stack'[t], {"read_max"})
    BY <1>4, <2>4, <2>8, <2>9, PushedLabels DEF InMax, InExt, InXid
  <2>15. LockInv'
    <3>1. \A l \in Locks : LockMove(t, l)
      BY <2>14, <1>7 DEF LockLabels, Locks, LockMove
    <3>2. lock' \in [Locks -> Thread \cup {NoThread}]
      BY <1>7 DEF CacheInv, LockInv
    <3> QED
      BY <3>1, <3>2, <2>9, LockStep
  <2>16. MaxInv'
    <3>1. big_requests \in prog'.has /\ lock'["reqlen"] # NoThread
      BY <1>1, <1>4, <1>5, <1>7, AnswerTells
    <3>2. \A k \in collected' : ~IsSend(k, big_requests)'
      BY <1>1, <1>5 DEF CacheInv, MaxInv, IsSend
    <3> QED
      BY <2>1, <3>1, <3>2 DEF MaxInv
  <2>17. NoLateCookie'
    <3>1. \A u \in Thread : ~Some(stack[u], {"read_max"})
      <4> SUFFICES ASSUME NEW u \in Thread, Some(stack[u], {"read_max"}) PROVE FALSE
        OBVIOUS
      <4>1. Doomed(stack[t], val[t])
        BY <1>5 DEF CacheInv, NoLateCookie
      <4>2. 1 \in 1 .. Len(stack[t])
        BY <1>4, TopFrame
      <4>3. val[t] = 0
        BY <4>1, <4>2, <1>4 DEF Doomed
      <4> QED
        BY <4>3, <1>7 DEF Present, Null
    <3>2. \A u \in Thread : ~Some(stack'[u], {"read_max"})
      BY <3>1, <2>9, <2>14 DEF Keeps, OnlyStack
    <3> QED
      BY <3>2 DEF NoLateCookie
  <2> QED
    BY <1>2, <2>11, <2>13, <2>15, <2>16, <2>17 DEF CacheInv
<1>8. CASE /\ ~Present(val[t]) /\ maxlen' = [tag |-> "FORCED", value |-> prog.short]
           /\ Release("reqlen") /\ return(t, Null)
  <2>1. maxlen' \in Lazy /\ maxlen'.tag = "FORCED" /\ maxlen'.value = prog.short
    BY <1>6, <1>8 DEF Lazy
  <2>2. SetsMax(t)
    BY <1>1, <1>3, <1>4, <1>6, <2>1 DEF SetsMax
  <2>3. /\ CacheTypes' /\ AnswersRight' /\ ExtInv' /\ LockInv'
        /\ (\A u \in Thread : ThreadOK(u)')
    <3>1. return(t, 0)
      BY <1>8 DEF Null
    <3> QED
      BY <1>3, <1>8, <2>2, <3>1, MaxReturns
  <2>4. Good => has_error \/ Limit = prog.short
    BY <1>5, <1>8, AnswerTells DEF Limit
  <2>5. (Good' <=> Good) /\ Limit' = Limit
    BY <1>1 DEF Good, Limit
  <2>6. MaxInv'
    BY <1>1, <2>1, <2>4, <2>5 DEF MaxInv
  <2>7. NoLateCookie'
    BY <2>1 DEF NoLateCookie
  <2> QED
    BY <1>2, <2>3, <2>6, <2>7 DEF CacheInv
<1> QED
  BY <1>7, <1>8 DEF enable_max

\* The request that enables BIG-REQUESTS is out.
LEMMA EnabledMaxKeeps ==
    ASSUME CacheInv, NEW t \in Thread, MaxStep(t), enabled_max(t), UNCHANGED <<prog, inc, answers>>
    PROVE  CacheInv'
<1>1. /\ UNCHANGED <<script, has_error, extvars, requests, seen, stale, lengths, last, max,
                     prog, inc, answers, collected>>
      /\ Release("reqlen") /\ return(t, 0) /\ maxlen' = [maxlen EXCEPT !.value = val[t]]
  BY DEF MaxStep, enabled_max, xidvars, Null
<1>2. XidTypes' /\ RecordsRight'
  BY <1>1, RecordsSame
<1>3. At(t, "enabled_max") /\ "enabled_max" \in InMax
  BY DEF enabled_max, InMax
<1>4. /\ stack[t] # <<>> /\ stack[t][1].at = "enabled_max"
      /\ FrameOK(stack[t][1]) /\ ValOK(stack[t][1], val[t]) /\ val[t] \in Nat
  BY <1>3, MaxHolder
<1>5. /\ maxlen.tag = "COOKIE" /\ maxlen.value = 0 /\ big_requests \in prog.has
      /\ IF val[t] = 0 THEN has_error ELSE IsSend(val[t], big_requests)
      /\ \A k \in collected : ~IsSend(k, big_requests)
      /\ maxlen \in Lazy /\ collected \subseteq 0 .. Len(requests)
  BY <1>4 DEF FrameOK, ValOK, CacheInv, MaxInv, CacheTypes
<1>6. maxlen' \in Lazy /\ maxlen'.tag = "COOKIE" /\ maxlen'.value = val[t]
  BY <1>1, <1>4, <1>5 DEF Lazy
<1>7. SetsMax(t)
  BY <1>1, <1>3, <1>4, <1>5, <1>6 DEF SetsMax
<1>8. /\ CacheTypes' /\ AnswersRight' /\ ExtInv' /\ LockInv'
      /\ (\A u \in Thread : ThreadOK(u)')
      /\ OnlyStack(t) /\ Keeps(stack[t], stack'[t], {"read_max"})
  BY <1>1, <1>3, <1>7, MaxReturns
<1>9. MaxInv'
  <2>1. PICK v : v = val[t]
    OBVIOUS
  <2>2. IF v = 0 THEN has_error' ELSE IsSend(v, big_requests)'
    BY <1>1, <1>5, <2>1 DEF IsSend
  <2>3. \A k \in collected' : ~IsSend(k, big_requests)'
    BY <1>1, <1>5 DEF IsSend
  <2>4. maxlen'.tag = "COOKIE" /\ maxlen'.value = v /\ big_requests \in prog'.has
    BY <1>1, <1>5, <1>6, <2>1
  <2> QED
    BY <2>2, <2>3, <2>4 DEF MaxInv
<1>10. NoLateCookie'
  <2>1. \A u \in Thread : ~Some(stack[u], {"read_max"})
    BY <1>5 DEF CacheInv, NoLateCookie
  <2>2. \A u \in Thread : ~Some(stack'[u], {"read_max"})
    BY <2>1, <1>8 DEF Keeps, OnlyStack
  <2> QED
    BY <2>2 DEF NoLateCookie
<1> QED
  BY <1>2, <1>8, <1>9, <1>10 DEF CacheInv

\* The length the server takes has come, or never will.
LEMMA WaitMaxKeeps ==
    ASSUME CacheInv, NEW t \in Thread, MaxStep(t), wait_max(t), UNCHANGED <<prog, inc, answers>>
    PROVE  CacheInv'
<1>1. /\ UNCHANGED <<script, has_error, extvars, requests, seen, stale, lengths, last, max,
                     prog, inc, answers, val>>
      /\ Release("reqlen") /\ goto(t, "read_max") /\ Answered(maxlen.value)
      /\ collected' = collected \cup {maxlen.value}
  BY DEF MaxStep, wait_max, xidvars
<1>2. XidTypes' /\ RecordsRight'
  BY <1>1, RecordsSame
<1>3. At(t, "wait_max") /\ "wait_max" \in InMax
  BY DEF wait_max, InMax
<1>4. /\ stack[t] # <<>> /\ stack[t][1].at = "wait_max" /\ Top(t) = stack[t][1]
      /\ stack[t][1] \in Frame /\ FrameOK(stack[t][1]) /\ "reqlen" \in Locks
      /\ stack \in [Thread -> Seq(Frame)] /\ val \in [Thread -> Nat]
      /\ lock \in [Locks -> Thread \cup {NoThread}]
  BY <1>3, MaxHolder
<1>5. /\ maxlen.tag = "COOKIE" /\ big_requests \in prog.has
      /\ IF maxlen.value = 0 THEN has_error ELSE IsSend(maxlen.value, big_requests)
      /\ maxlen.value \notin collected \/ maxlen.value = 0
      /\ collected \subseteq 0 .. Len(requests) /\ maxlen.value \in Nat
  BY <1>4 DEF FrameOK, CacheInv, MaxInv, CacheTypes, Lazy
<1>6. PICK r \in Replies(maxlen.value) :
          maxlen' = [tag |-> "FORCED", value |-> forced_length(r)]
  BY DEF wait_max
<1>7. r \in 1 .. Len(answers) \/ (r = Null /\ has_error)
  <2>1. CASE has_error
    BY <1>6, <2>1 DEF Replies
  <2>2. CASE ~has_error
    <3>1. maxlen.value # 0 /\ maxlen.value \notin collected /\ maxlen.value <= Len(answers)
      BY <1>1, <1>5, <2>2 DEF Answered
    <3>2. maxlen.value \in 1 .. Len(answers)
      <4>1. Len(answers) \in Nat
        BY LenProperties DEF CacheInv, CacheTypes
      <4> QED
        BY <4>1, <3>1, <1>5
    <3> QED
      BY <1>6, <3>1, <3>2 DEF Replies
  <2> QED
    BY <2>1, <2>2
<1>8. forced_length(r) \in {prog.short, Limit} /\ (has_error \/ forced_length(r) = Limit)
  <2>1. CASE r = Null
    BY <2>1, <1>7 DEF forced_length, Null
  <2>2. CASE r # Null
    <3>1. r \in 1 .. Len(answers) /\ forced_length(r) = answers[r].length
      BY <2>2, <1>7 DEF forced_length
    <3>2. answers[r].length = prog.big /\ Limit = prog.big
      BY <3>1, <1>5 DEF CacheInv, AnswersRight, Limit
    <3> QED
      BY <3>1, <3>2
  <2> QED
    BY <2>1, <2>2
<1>9. prog.short \in Nat /\ Limit \in Nat
  BY CachesAssumption DEF CacheInv, CacheTypes, Program, Limit
<1>10. maxlen' \in Lazy /\ maxlen'.tag = "FORCED" /\ maxlen'.value = forced_length(r)
  BY <1>6, <1>8, <1>9 DEF Lazy
<1>11. SetsMax(t)
  <2>1. collected' \subseteq 0 .. Len(requests)
    <3>1. Len(requests) \in Nat
      BY LenProperties DEF CacheInv, CacheTypes
    <3>2. maxlen.value \in 0 .. Len(requests)
      BY <3>1, <1>5 DEF IsSend
    <3> QED
      BY <3>2, <1>1, <1>5
  <2> QED
    BY <1>1, <1>3, <1>4, <1>5, <1>10, <2>1 DEF SetsMax
<1>12. PICK f : f = [stack[t][1] EXCEPT !.at = "read_max"]
  OBVIOUS
<1>13. /\ "read_max" \in Label /\ GetMax \in Functions
       /\ "wait_max" \in GetMax /\ "read_max" \in GetMax
  BY DEF Label, GetMax, Functions
<1>14. Same(f, stack[t][1], "read_max")
  BY <1>4, <1>12, <1>13, SameAt
<1>15. Follows(f, stack[t][1]) /\ f.at = "read_max"
  <2>1. stack[t][1].at \in GetMax
    BY <1>4, <1>13
  <2>2. Follows(f, stack[t][1])
    BY <1>13, <1>14, <2>1, SameFollows
  <2> QED
    BY <1>14, <2>2 DEF Same
<1>16. Retop(stack[t], stack'[t], f) /\ OnlyStack(t) /\ OnlyVal(t)
  BY <1>1, <1>4, <1>12, <1>13, GotoShape DEF OnlyVal
<1>17. CacheTypes' /\ AnswersRight' /\ ExtInv' /\ Grows
  BY <1>11, <1>16, MaxRest
<1>18. FrameOK(f)' /\ \A v : ValOK(f, v)'
  BY <1>10, <1>15 DEF FrameOK, ValOK, GetExt, LazyExt
<1>19. \A u \in Thread : ThreadOK(u)'
  BY <1>11, <1>15, <1>16, <1>17, <1>18, MaxFrames, ThreadRetop
<1>20. /\ Loses(stack[t], stack'[t], InMax)
       /\ Keeps(stack[t], stack'[t], InExt) /\ Keeps(stack[t], stack'[t], InXid)
  BY <1>4, <1>15, <1>16, RetopLabels DEF InMax, InExt, InXid
<1>21. LockInv'
  <2>1. Loses(stack[t], stack'[t], LockLabels["reqlen"]) /\ stack[t][1].at \in LockLabels["reqlen"]
    BY <1>20, <1>3, <1>4 DEF LockLabels
  <2>2. \A l \in Locks \ {"reqlen"} : Keeps(stack[t], stack'[t], LockLabels[l])
    BY <1>20 DEF LockLabels, Locks
  <2> QED
    BY <2>1, <2>2, <1>1, <1>4, <1>16, LockGiven
<1>22. MaxInv'
  <2>1. Limit' = Limit /\ prog' = prog /\ has_error' = has_error
    BY <1>1 DEF Limit
  <2> QED
    BY <2>1, <1>8, <1>10 DEF MaxInv
<1>23. NoLateCookie'
  BY <1>10 DEF NoLateCookie
<1> QED
  BY <1>2, <1>17, <1>19, <1>21, <1>22, <1>23 DEF CacheInv
-----------------------------------------------------------------------------
(* The extension cache                                                     *)

\* An extension has a number of its own from the first call on.
LEMMA NumberedOnce ==
    ASSUME CacheInv, NEW e \in Ext, number_ext(e)
    PROVE  /\ global_id' \in [Ext -> Nat] /\ next_global_id' \in Nat
           /\ global_id'[e] # 0 /\ next_global_id <= next_global_id'
           /\ \A f \in Ext : global_id'[f] <= next_global_id'
           /\ \A f \in Ext : f # e => global_id'[f] = global_id[f]
           /\ \A f, g \in Ext : global_id'[f] = global_id'[g] /\ global_id'[f] # 0 => f = g
           /\ global_id'[e] = global_id[e]
              \/ (global_id[e] = 0 /\ global_id'[e] = next_global_id + 1)
<1>1. /\ global_id \in [Ext -> Nat] /\ next_global_id \in Nat
      /\ \A f \in Ext : global_id[f] <= next_global_id
      /\ \A f, g \in Ext : global_id[f] = global_id[g] /\ global_id[f] # 0 => f = g
  BY DEF CacheInv, CacheTypes, ExtInv
<1>2. CASE global_id[e] # 0
  <2>1. UNCHANGED <<global_id, next_global_id>>
    BY <1>2 DEF number_ext
  <2> QED
    BY <1>1, <1>2, <2>1
<1>3. CASE global_id[e] = 0
  <2>1. /\ global_id' = [global_id EXCEPT ![e] = next_global_id + 1]
        /\ next_global_id' = next_global_id + 1
    BY <1>3 DEF number_ext
  <2>2. /\ global_id' \in [Ext -> Nat] /\ next_global_id' \in Nat
        /\ global_id'[e] = next_global_id + 1 /\ next_global_id <= next_global_id'
        /\ \A f \in Ext : f # e => global_id'[f] = global_id[f]
    BY <1>1, <2>1
  <2>3. \A f \in Ext : global_id'[f] <= next_global_id'
    BY <1>1, <2>1, <2>2
  <2>4. \A f \in Ext : f # e => global_id'[f] # global_id'[e]
    BY <1>1, <2>2
  <2>5. \A f, g \in Ext : global_id'[f] = global_id'[g] /\ global_id'[f] # 0 => f = g
    <3> SUFFICES ASSUME NEW f \in Ext, NEW g \in Ext, global_id'[f] = global_id'[g],
                        global_id'[f] # 0, f # g
                 PROVE  FALSE
      OBVIOUS
    <3>1. f # e /\ g # e
      BY <2>4
    <3> QED
      BY <3>1, <1>1, <2>2
  <2> QED
    BY <1>1, <1>3, <2>2, <2>3, <2>5
<1> QED
  BY <1>2, <1>3

\* What get_lazyreply makes of the table: it may have grown, by entries that
\* say nothing, and on a miss the question is asked.
Tabled(e, table) ==
    /\ table \in Seq(Lazy) /\ Len(table) \in Nat /\ Len(extensions) <= Len(table)
    /\ global_id'[e] \in 1 .. Len(table)
    /\ \A i \in 1 .. Len(extensions) : table[i] = extensions[i]
    /\ \A i \in 1 .. Len(table) : i > Len(extensions) => table[i].tag = "NONE"

Hit(e, table) ==
    /\ table[global_id'[e]].tag # "NONE"
    /\ requests' = requests /\ extensions' = table

Miss(e, table) ==
    /\ table[global_id'[e]].tag = "NONE"
    /\ requests' = IF has_error THEN requests
                   ELSE Append(requests, Req("query_extension", e, 1))
    /\ \E x \in Lazy :
         /\ x.tag = "COOKIE" /\ x.value = (IF has_error THEN 0 ELSE Len(requests'))
         /\ extensions' = [table EXCEPT ![global_id'[e]] = x]

LEMMA LazyReplyTable ==
    ASSUME CacheInv, NEW e \in Ext, get_lazyreply(e)
    PROVE  /\ home' \in Nat
           /\ \E table : Tabled(e, table) /\ (Hit(e, table) \/ Miss(e, table))
<1>1. /\ extensions \in Seq(Lazy) /\ Len(extensions) \in Nat /\ home \in Nat
      /\ has_error \in BOOLEAN /\ requests \in Seq(Request) /\ Len(requests) \in Nat
  BY LenProperties DEF CacheInv, CacheTypes
<1>2. number_ext(e)
  BY DEF get_lazyreply
<1>3. global_id'[e] \in Nat /\ global_id'[e] # 0
  BY <1>2, NumberedOnce
<1>4. PICK idx : idx = global_id'[e]
  OBVIOUS
<1>5. PICK size : size = Len(extensions)
  OBVIOUS
<1>6. PICK len : len = IF idx > size THEN idx * 2 ELSE size
  OBVIOUS
<1>7. len \in Nat /\ size <= len /\ idx \in 1 .. len /\ size \in Nat /\ idx \in Nat
  BY <1>1, <1>3, <1>4, <1>5, <1>6
<1>8. PICK none : none = [tag |-> "NONE", value |-> 0]
  OBVIOUS
<1>9. none \in Lazy /\ none.tag = "NONE"
  BY <1>8 DEF Lazy
<1>10. PICK table : table = [i \in 1 .. len |-> IF i <= size THEN extensions[i] ELSE none]
  OBVIOUS
<1>11. \A i \in 1 .. len : i <= size => extensions[i] \in Lazy
  BY <1>1, <1>5, <1>7, ElementOfSeq
<1>12. table \in Seq(Lazy) /\ Len(table) = len
  <2>1. table \in [1 .. len -> Lazy]
    BY <1>9, <1>10, <1>11
  <2> QED
    BY <2>1, <1>7
<1>13. Tabled(e, table)
  <2>1. \A i \in 1 .. size : table[i] = extensions[i]
    BY <1>7, <1>10
  <2>2. \A i \in 1 .. len : i > size => table[i] = none
    BY <1>7, <1>10
  <2> QED
    BY <2>1, <2>2, <1>4, <1>5, <1>7, <1>9, <1>12 DEF Tabled
<1>14. /\ home' \in IF idx > size THEN {home, home + 1} ELSE {home}
       /\ requests' = IF miss(table[idx]) /\ ~has_error
                      THEN Append(requests, Req("query_extension", e, 1)) ELSE requests
       /\ extensions' = IF miss(table[idx])
                        THEN [table EXCEPT ![idx] =
                                [tag |-> "COOKIE",
                                 value |-> IF has_error THEN 0 ELSE Len(requests')]]
                        ELSE table
  BY <1>4, <1>5, <1>6, <1>8, <1>10 DEF get_lazyreply
<1>15. home' \in Nat
  BY <1>1, <1>14
<1>16. CASE miss(table[idx])
  <2>1. PICK x : x = [tag |-> "COOKIE", value |-> IF has_error THEN 0 ELSE Len(requests')]
    OBVIOUS
  <2>2. Len(requests') \in Nat
    <3>1. Req("query_extension", e, 1) \in Request
      BY DEF Req, Request
    <3> QED
      BY <3>1, <1>1, <1>14, AppendProperties
  <2>3. /\ x \in Lazy /\ x.tag = "COOKIE"
        /\ x.value = IF has_error THEN 0 ELSE Len(requests')
    BY <2>1, <2>2 DEF Lazy
  <2>4. /\ requests' = IF has_error THEN requests
                       ELSE Append(requests, Req("query_extension", e, 1))
        /\ extensions' = [table EXCEPT ![idx] = x]
    BY <1>14, <1>16, <2>1
  <2>5. Miss(e, table)
    BY <2>3, <2>4, <1>4, <1>16 DEF Miss, miss
  <2> QED
    BY <2>5, <1>13, <1>15
<1>17. CASE ~miss(table[idx])
  <2>1. Hit(e, table)
    BY <1>4, <1>14, <1>17 DEF Hit, miss
  <2> QED
    BY <2>1, <1>13, <1>15
<1> QED
  BY <1>16, <1>17

\* get_lazyreply and nothing else.
AsksExt(e) ==
    /\ number_ext(e) /\ Free("ext")
    /\ UNCHANGED <<prog, has_error, maxlen, answers, collected, stale>>
    /\ \E table : Tabled(e, table) /\ (Hit(e, table) \/ Miss(e, table))

\* An extension that misses has not been asked about; one that hits has its
\* number.
LEMMA MissUnasked ==
    ASSUME CacheInv, NEW e \in Ext, number_ext(e), NEW table, Tabled(e, table)
    PROVE  /\ table[global_id'[e]].tag = "NONE" => ~Asked(e)
           /\ table[global_id'[e]].tag # "NONE" =>
                 /\ global_id'[e] = global_id[e] /\ global_id[e] \in 1 .. Len(extensions)
                 /\ table[global_id'[e]] = extensions[global_id[e]]
<1>1. /\ global_id'[e] \in Nat /\ global_id'[e] # 0
      /\ global_id'[e] = global_id[e] \/ (global_id[e] = 0 /\ global_id'[e] = next_global_id + 1)
      /\ global_id[e] \in Nat /\ next_global_id \in Nat /\ Len(extensions) \in Nat
  BY NumberedOnce, LenProperties DEF CacheInv, CacheTypes
<1>2. /\ IF global_id[e] \in 1 .. Len(extensions)
         THEN EntryOK(e, extensions[global_id[e]]) ELSE ~Asked(e)
      /\ \A i \in 1 .. Len(extensions) : i > next_global_id => extensions[i].tag = "NONE"
  BY DEF CacheInv, ExtInv
<1>3. /\ Len(table) \in Nat /\ global_id'[e] \in 1 .. Len(table)
      /\ \A i \in 1 .. Len(extensions) : table[i] = extensions[i]
      /\ \A i \in 1 .. Len(table) : i > Len(extensions) => table[i].tag = "NONE"
  BY DEF Tabled
<1>4. table[global_id'[e]].tag = "NONE" => ~Asked(e)
  <2> HAVE table[global_id'[e]].tag = "NONE"
  <2>1. CASE global_id[e] \in 1 .. Len(extensions)
    <3>1. global_id'[e] = global_id[e]
      BY <1>1, <2>1
    <3> QED
      BY <3>1, <2>1, <1>2, <1>3 DEF EntryOK
  <2>2. CASE global_id[e] \notin 1 .. Len(extensions)
    BY <2>2, <1>2
  <2> QED
    BY <2>1, <2>2
<1>5. ASSUME table[global_id'[e]].tag # "NONE"
      PROVE  /\ global_id'[e] = global_id[e] /\ global_id[e] \in 1 .. Len(extensions)
             /\ table[global_id'[e]] = extensions[global_id[e]]
  <2>1. global_id'[e] \in 1 .. Len(extensions)
    BY <1>1, <1>3, <1>5
  <2>2. extensions[global_id'[e]].tag # "NONE"
    BY <2>1, <1>3, <1>5
  <2>3. ~(global_id'[e] > next_global_id)
    BY <2>1, <2>2, <1>2
  <2>4. global_id'[e] = global_id[e]
    BY <2>3, <1>1
  <2> QED
    BY <2>1, <2>4, <1>3
<1> QED
  BY <1>4, <1>5

\* What is asked.
LEMMA AskedMore ==
    ASSUME CacheInv, NEW e \in Ext, AsksExt(e)
    PROVE  /\ requests' \in Seq(Request) /\ Len(requests') \in Nat
           /\ \/ requests' = requests
              \/ /\ Len(requests') = Len(requests) + 1 /\ ~Asked(e)
                 /\ requests'[Len(requests')] = Req("query_extension", e, 1)
           /\ \A k \in 1 .. Len(requests) : requests'[k] = requests[k]
           /\ Grows
<1>1. /\ requests \in Seq(Request) /\ Len(requests) \in Nat /\ Len(answers) \in Nat
  BY LenProperties DEF CacheInv, CacheTypes
<1>2. PICK table : Tabled(e, table) /\ (Hit(e, table) \/ Miss(e, table))
  BY DEF AsksExt
<1>3. CASE requests' = requests
  BY <1>1, <1>3 DEF Grows, AsksExt
<1>4. CASE requests' # requests
  <2>1. Miss(e, table)
    BY <1>2, <1>4 DEF Hit
  <2>2. requests' = Append(requests, Req("query_extension", e, 1))
    BY <1>4, <2>1 DEF Miss
  <2>3. ~Asked(e)
    BY <1>2, <2>1, MissUnasked DEF Miss, AsksExt
  <2>4. Req("query_extension", e, 1) \in Request
    BY DEF Req, Request
  <2>5. /\ requests' \in Seq(Request) /\ Len(requests') = Len(requests) + 1
        /\ requests'[Len(requests) + 1] = Req("query_extension", e, 1)
        /\ \A k \in 1 .. Len(requests) : requests'[k] = requests[k]
    BY <2>2, <2>4, <1>1, AppendProperties
  <2>6. Grows
    BY <2>5, <1>1 DEF Grows, AsksExt
  <2> QED
    BY <2>3, <2>5, <2>6, <1>1
<1> QED
  BY <1>3, <1>4

\* Nothing else is asked, and nothing is sent.
LEMMA AskedOnly ==
    ASSUME CacheInv, NEW e \in Ext, AsksExt(e)
    PROVE  /\ \A k, f : f # e => (IsQuery(k, f)' <=> IsQuery(k, f))
           /\ \A f : f # e => (Asked(f)' <=> Asked(f))
           /\ \A k, f : IsSend(k, f)' <=> IsSend(k, f)
<1>1. /\ Len(requests') \in Nat /\ Len(requests) \in Nat
      /\ \A k \in 1 .. Len(requests) : requests'[k] = requests[k]
      /\ Len(requests) <= Len(requests')
      /\ \A k \in 1 .. Len(requests') : k > Len(requests) =>
             requests'[k] = Req("query_extension", e, 1)
  <2>1. /\ Len(requests') \in Nat
        /\ \/ requests' = requests
           \/ /\ Len(requests') = Len(requests) + 1
              /\ requests'[Len(requests')] = Req("query_extension", e, 1)
        /\ \A k \in 1 .. Len(requests) : requests'[k] = requests[k]
    BY AskedMore
  <2>2. Len(requests) \in Nat
    BY LenProperties DEF CacheInv, CacheTypes
  <2> QED
    BY <2>1, <2>2
<1>2. \A f : Req("query_extension", e, 1) = Req("query_extension", f, 1) => f = e
  <2> TAKE f
  <2> HAVE Req("query_extension", e, 1) = Req("query_extension", f, 1)
  <2>1. Req("query_extension", e, 1).ext = Req("query_extension", f, 1).ext
    OBVIOUS
  <2> QED
    BY <2>1 DEF Req
<1>3. \A k, f : f # e => (IsQuery(k, f)' <=> IsQuery(k, f))
  <2> TAKE k, f
  <2> HAVE f # e
  <2>1. PICK q : q = Req("query_extension", f, 1)
    OBVIOUS
  <2>2. q # Req("query_extension", e, 1)
    BY <2>1, <1>2
  <2>3. (k \in 1 .. Len(requests') /\ requests'[k] = q) <=> (k \in 1 .. Len(requests) /\ requests[k] = q)
    BY <2>2, <1>1
  <2> QED
    BY <2>1, <2>3 DEF IsQuery, Req
<1>4. \A f : f # e => (Asked(f)' <=> Asked(f))
  <2> TAKE f
  <2> HAVE f # e
  <2>1. \A k : IsQuery(k, f)' <=> IsQuery(k, f)
    BY <1>3
  <2>2. \A k : IsQuery(k, f) => k \in 1 .. Len(requests) /\ k \in 1 .. Len(requests')
    BY <1>1 DEF IsQuery
  <2> QED
    BY <2>1, <2>2 DEF Asked
<1>5. Req("query_extension", e, 1).kind # "send"
  BY DEF Req
<1>6. \A k, f : IsSend(k, f)' <=> IsSend(k, f)
  <2> TAKE k, f
  <2>1. k \in 1 .. Len(requests') /\ requests'[k].kind = "send" => k \in 1 .. Len(requests)
    BY <1>1, <1>5
  <2>2. k \in 1 .. Len(requests) => k \in 1 .. Len(requests') /\ requests'[k] = requests[k]
    BY <1>1
  <2> QED
    BY <2>1, <2>2 DEF IsSend
<1> QED
  BY <1>3, <1>4, <1>6

\* The table after the call.
LEMMA AskedTable ==
    ASSUME CacheInv, NEW e \in Ext, AsksExt(e)
    PROVE  /\ extensions' \in Seq(Lazy) /\ Len(extensions') \in Nat
           /\ Len(extensions) <= Len(extensions')
           /\ global_id'[e] \in 1 .. Len(extensions')
           /\ extensions'[global_id'[e]].tag # "NONE"
           /\ \A i \in 1 .. Len(extensions') : i # global_id'[e] =>
                 IF i \in 1 .. Len(extensions) THEN extensions'[i] = extensions[i]
                 ELSE extensions'[i].tag = "NONE"
           /\ \A i \in 1 .. Len(extensions) :
                 extensions[i].tag # "NONE" => extensions'[i] = extensions[i]
<1>1. PICK table : Tabled(e, table) /\ (Hit(e, table) \/ Miss(e, table))
  BY DEF AsksExt
<1>2. /\ table \in Seq(Lazy) /\ Len(table) \in Nat /\ Len(extensions) <= Len(table)
      /\ global_id'[e] \in 1 .. Len(table)
      /\ \A i \in 1 .. Len(extensions) : table[i] = extensions[i]
      /\ \A i \in 1 .. Len(table) : i > Len(extensions) => table[i].tag = "NONE"
      /\ Len(extensions) \in Nat
  BY <1>1, LenProperties DEF Tabled, CacheInv, CacheTypes
<1>3. CASE Hit(e, table)
  <2>1. extensions' = table /\ table[global_id'[e]].tag # "NONE"
    BY <1>3 DEF Hit
  <2> QED
    BY <1>2, <2>1
<1>4. CASE Miss(e, table)
  <2>1. PICK x \in Lazy : x.tag = "COOKIE" /\ extensions' = [table EXCEPT ![global_id'[e]] = x]
    BY <1>4 DEF Miss
  <2>2. table[global_id'[e]].tag = "NONE"
    BY <1>4 DEF Miss
  <2>3. PICK idx : idx = global_id'[e]
    OBVIOUS
  <2>4. /\ extensions' \in Seq(Lazy) /\ Len(extensions') = Len(table)
        /\ extensions'[idx] = x /\ \A i \in 1 .. Len(table) : i # idx => extensions'[i] = table[i]
    BY <1>2, <2>1, <2>3
  <2>5. \A i \in 1 .. Len(table) : i \notin 1 .. Len(extensions) => table[i].tag = "NONE"
    BY <1>2
  <2>6. \A i \in 1 .. Len(extensions) : i \in 1 .. Len(table)
    BY <1>2
  <2> QED
    BY <1>2, <2>1, <2>2, <2>3, <2>4, <2>5, <2>6
<1> QED
  BY <1>1, <1>3, <1>4

\* The entry of the extension that was asked about.
LEMMA AskedEntry ==
    ASSUME CacheInv, NEW e \in Ext, AsksExt(e), NEW x, x = extensions'[global_id'[e]]
    PROVE  EntryOK(e, x)'
<1>1. PICK table : Tabled(e, table) /\ (Hit(e, table) \/ Miss(e, table))
  BY DEF AsksExt
<1>2. /\ table \in Seq(Lazy) /\ Len(table) \in Nat /\ global_id'[e] \in 1 .. Len(table)
      /\ UNCHANGED <<has_error, answers, collected>> /\ number_ext(e)
  BY <1>1 DEF Tabled, AsksExt
<1>3. CASE Hit(e, table)
  <2>1. requests' = requests /\ extensions' = table /\ table[global_id'[e]].tag # "NONE"
    BY <1>3 DEF Hit
  <2>2. x = extensions[global_id[e]] /\ global_id[e] \in 1 .. Len(extensions)
    BY <1>1, <1>2, <2>1, MissUnasked
  <2>3. EntryOK(e, x)
    BY <2>2 DEF CacheInv, ExtInv
  <2> QED
    BY <1>2, <2>1, <2>3 DEF EntryOK, Asked, IsQuery, IsAnswer, Req
<1>4. CASE Miss(e, table)
  <2>1. PICK y \in Lazy : /\ y.tag = "COOKIE"
                          /\ y.value = (IF has_error THEN 0 ELSE Len(requests'))
                          /\ extensions' = [table EXCEPT ![global_id'[e]] = y]
    BY <1>4 DEF Miss
  <2>2. x = y
    BY <1>2, <2>1
  <2>3. CASE has_error
    BY <1>2, <2>1, <2>2, <2>3 DEF EntryOK
  <2>4. CASE ~has_error
    <3>1. requests' = Append(requests, Req("query_extension", e, 1))
      BY <1>4, <2>4 DEF Miss
    <3>2. /\ requests \in Seq(Request) /\ Len(requests) \in Nat
          /\ collected \subseteq 0 .. Len(requests)
      BY LenProperties DEF CacheInv, CacheTypes
    <3>3. Req("query_extension", e, 1) \in Request
      BY DEF Req, Request
    <3>4. /\ Len(requests') = Len(requests) + 1
          /\ requests'[Len(requests) + 1] = Req("query_extension", e, 1)
      BY <3>1, <3>2, <3>3, AppendProperties
    <3>5. x.value = Len(requests) + 1 /\ x.tag = "COOKIE"
      BY <2>1, <2>2, <2>4, <3>4
    <3>6. x.value \in 1 .. Len(requests') /\ requests'[x.value] = Req("query_extension", e, 1)
      BY <3>2, <3>4, <3>5
    <3>7. IsQuery(x.value, e)'
      BY <3>6 DEF IsQuery, Req
    <3>8. x.value \notin collected'
      BY <1>2, <3>2, <3>5
    <3> QED
      BY <3>5, <3>7, <3>8 DEF EntryOK
  <2> QED
    BY <2>3, <2>4
<1> QED
  BY <1>1, <1>3, <1>4

LEMMA AskedExt ==
    ASSUME CacheInv, NEW e \in Ext, AsksExt(e)
    PROVE  ExtInv'
<1>1. /\ global_id' \in [Ext -> Nat] /\ next_global_id' \in Nat
      /\ global_id'[e] # 0 /\ next_global_id <= next_global_id'
      /\ \A f \in Ext : global_id'[f] <= next_global_id'
      /\ \A f \in Ext : f # e => global_id'[f] = global_id[f]
      /\ \A f, g \in Ext : global_id'[f] = global_id'[g] /\ global_id'[f] # 0 => f = g
  BY NumberedOnce DEF AsksExt
<1>2. /\ Len(extensions') \in Nat /\ Len(extensions) <= Len(extensions')
      /\ global_id'[e] \in 1 .. Len(extensions')
      /\ \A i \in 1 .. Len(extensions') : i # global_id'[e] =>
            IF i \in 1 .. Len(extensions) THEN extensions'[i] = extensions[i]
            ELSE extensions'[i].tag = "NONE"
  BY AskedTable
<1>3. /\ ExtInv /\ UNCHANGED <<has_error, answers, collected>> /\ next_global_id \in Nat
      /\ global_id \in [Ext -> Nat] /\ Len(extensions) \in Nat
  BY LenProperties DEF CacheInv, CacheTypes, AsksExt
<1>4. \A f \in Ext : IF global_id'[f] \in 1 .. Len(extensions')
                     THEN EntryOK(f, extensions[global_id[f]])' ELSE ~Asked(f)'
  <2> TAKE f \in Ext
  <2>1. CASE f = e
    <3>1. PICK x : x = extensions'[global_id'[e]]
      OBVIOUS
    <3>2. EntryOK(e, x)'
      BY <3>1, AskedEntry
    <3> QED
      BY <2>1, <3>1, <3>2, <1>2 DEF EntryOK
  <2>2. CASE f # e
    <3>1. /\ global_id'[f] = global_id[f] /\ (Asked(f)' <=> Asked(f))
          /\ \A k : IsQuery(k, f)' <=> IsQuery(k, f)
      BY <2>2, <1>1, AskedOnly
    <3>2. global_id[f] # 0 => global_id'[f] # global_id'[e]
      BY <2>2, <3>1, <1>1
    <3>3. \A x : EntryOK(f, x) => EntryOK(f, x)'
      <4>1. \A k : IsAnswer(k, f)' <=> IsAnswer(k, f)
        BY <3>1, <1>3 DEF IsAnswer
      <4> QED
        BY <3>1, <4>1, <1>3 DEF EntryOK
    <3>4. CASE global_id[f] \in 1 .. Len(extensions)
      <4>1. global_id'[f] \in 1 .. Len(extensions') /\ extensions'[global_id'[f]] = extensions[global_id[f]]
        BY <3>1, <3>2, <3>4, <1>2, <1>3
      <4>2. PICK x : x = extensions[global_id[f]]
        OBVIOUS
      <4>3. EntryOK(f, x)'
        BY <3>3, <3>4, <4>2, <1>3 DEF ExtInv
      <4> QED
        BY <4>1, <4>2, <4>3 DEF EntryOK
    <3>5. CASE global_id[f] \notin 1 .. Len(extensions)
      <4>1. ~Asked(f)'
        BY <3>1, <3>5, <1>3 DEF ExtInv
      <4>2. CASE global_id'[f] \in 1 .. Len(extensions')
        <5>1. extensions'[global_id'[f]].tag = "NONE"
          BY <3>1, <3>2, <3>5, <4>2, <1>2
        <5> QED
          BY <4>1, <4>2, <5>1 DEF EntryOK
      <4> QED
        BY <4>1, <4>2
    <3> QED
      BY <3>4, <3>5
  <2> QED
    BY <2>1, <2>2
<1>5. \A i \in 1 .. Len(extensions') : i > next_global_id' => extensions'[i].tag = "NONE"
  <2> TAKE i \in 1 .. Len(extensions')
  <2> HAVE i > next_global_id'
  <2>1. i # global_id'[e] /\ i > next_global_id
    BY <1>1, <1>3
  <2>2. i \in 1 .. Len(extensions) => extensions[i].tag = "NONE"
    BY <2>1, <1>3 DEF ExtInv
  <2> QED
    BY <2>1, <2>2, <1>2
<1>6. AskedOnce'
  <2>1. AskedOnce
    BY <1>3 DEF ExtInv
  <2>2. /\ \/ requests' = requests
           \/ /\ Len(requests') = Len(requests) + 1 /\ ~Asked(e)
              /\ requests'[Len(requests')] = Req("query_extension", e, 1)
        /\ \A k \in 1 .. Len(requests) : requests'[k] = requests[k]
        /\ Len(requests) \in Nat
    BY AskedMore, LenProperties DEF CacheInv, CacheTypes
  <2>3. CASE requests' = requests
    BY <2>1, <2>3 DEF AskedOnce
  <2>4. CASE /\ Len(requests') = Len(requests) + 1 /\ ~Asked(e)
             /\ requests'[Len(requests')] = Req("query_extension", e, 1)
    <3> SUFFICES ASSUME NEW i \in 1 .. Len(requests'), NEW j \in 1 .. Len(requests'),
                        requests'[i].kind = "query_extension", requests'[i] = requests'[j]
                 PROVE  i = j
      BY DEF AskedOnce
    <3>1. \A k \in 1 .. Len(requests) : requests'[k] # Req("query_extension", e, 1)
      BY <2>2, <2>4 DEF Asked, IsQuery
    <3>2. CASE i \in 1 .. Len(requests) /\ j \in 1 .. Len(requests)
      BY <3>2, <2>1, <2>2 DEF AskedOnce
    <3>3. CASE i \notin 1 .. Len(requests)
      <4>1. i = Len(requests')
        BY <3>3, <2>2, <2>4
      <4>2. j \notin 1 .. Len(requests)
        BY <4>1, <3>1, <2>4
      <4> QED
        BY <4>1, <4>2, <2>2, <2>4
    <3>4. CASE j \notin 1 .. Len(requests)
      <4>1. j = Len(requests')
        BY <3>4, <2>2, <2>4
      <4>2. i \notin 1 .. Len(requests)
        BY <4>1, <3>1, <2>4
      <4> QED
        BY <4>1, <4>2, <2>2, <2>4
    <3> QED
      BY <3>2, <3>3, <3>4
  <2> QED
    BY <2>2, <2>3, <2>4
<1> QED
  BY <1>1, <1>4, <1>5, <1>6 DEF ExtInv

LEMMA AskedMax ==
    ASSUME CacheInv, NEW e \in Ext, AsksExt(e), KeepsReqlen
    PROVE  MaxInv'
<1>1. /\ UNCHANGED <<prog, maxlen, collected, has_error>> /\ MaxInv
      /\ \A k, f : IsSend(k, f)' <=> IsSend(k, f)
  BY AskedOnly DEF AsksExt, CacheInv
<1>2. Limit' = Limit /\ (Good' <=> Good)
  BY <1>1 DEF Limit, Good, AsksExt
<1>3. maxlen.tag = "COOKIE" =>
         /\ big_requests \in prog.has
         /\ IF maxlen.value = 0 THEN has_error' \/ lock'["reqlen"] # NoThread
            ELSE IsSend(maxlen.value, big_requests)'
  <2>1. PICK v : v = maxlen.value
    OBVIOUS
  <2>2. IsSend(v, big_requests) => IsSend(v, big_requests)'
    BY <1>1
  <2> QED
    BY <2>1, <2>2, <1>1 DEF MaxInv, KeepsReqlen
<1>4. maxlen.tag # "FORCED" => \A k \in collected' : ~IsSend(k, big_requests)'
  BY <1>1 DEF MaxInv
<1> QED
  BY <1>1, <1>2, <1>3, <1>4 DEF MaxInv

LEMMA AskedFrames ==
    ASSUME CacheInv, NEW e \in Ext, AsksExt(e), NEW t \in Thread
    PROVE  KeptFrames(t)
<1> SUFFICES ASSUME NEW f \in Frame, Elsewhere(t, f) PROVE FrameOK(f)'
  BY DEF KeptFrames
<1>1. FrameOK(f) /\ f.at # "wait_ext"
  <2>1. "ext" \in Locks /\ LockLabels["ext"] = {"wait_ext"}
    BY DEF Locks, LockLabels, InExt
  <2> QED
    BY <2>1, ElsewhereOK DEF AsksExt, Free
<1>2. UNCHANGED <<prog, has_error, maxlen>>
  BY DEF AsksExt
<1>3. ASSUME f.at = "read_ext"
      PROVE  /\ extensions'[f.data[2]].tag = "FORCED"
             /\ f.data[2] = global_id'[f.ext] /\ f.data[2] \in 1 .. Len(extensions')
  <2>1. /\ extensions[f.data[2]].tag = "FORCED" /\ f.ext \in Ext
        /\ f.data[2] = global_id[f.ext] /\ f.data[2] \in 1 .. Len(extensions)
    BY <1>1, <1>3 DEF FrameOK, GetExt
  <2>2. /\ Len(extensions') \in Nat /\ Len(extensions) <= Len(extensions')
        /\ \A i \in 1 .. Len(extensions) :
              extensions[i].tag # "NONE" => extensions'[i] = extensions[i]
        /\ Len(extensions) \in Nat
    BY AskedTable, LenProperties DEF CacheInv, CacheTypes
  <2>3. global_id'[f.ext] = global_id[f.ext]
    <3>1. /\ \A g \in Ext : g # e => global_id'[g] = global_id[g]
          /\ global_id'[e] = global_id[e] \/ global_id[e] = 0
      BY NumberedOnce DEF AsksExt
    <3>2. global_id[f.ext] # 0
      BY <2>1, <2>2
    <3> QED
      BY <2>1, <3>1, <3>2
  <2> QED
    BY <2>1, <2>2, <2>3
<1> QED
  BY <1>1, <1>2, <1>3 DEF FrameOK, Limit

LEMMA AskedRecords ==
    ASSUME CacheInv, NEW e \in Ext, AsksExt(e), UNCHANGED <<seen, lengths>>
    PROVE  RecordsRight'
<1>1. UNCHANGED <<prog, stale>> /\ RecordsRight /\ Len(requests) \in Nat
  BY LenProperties DEF AsksExt, CacheInv, CacheTypes
<1>2. Limit' = Limit /\ (Good' <=> Good)
  BY <1>1 DEF Limit, Good
<1>3. stale' = {} => \A s \in seen' : ~s.error => IsQuery(s.reply, s.ext)'
  <2> SUFFICES ASSUME stale = {}, NEW s \in seen, ~s.error,
                      NEW k, NEW f, k = s.reply, f = s.ext
               PROVE  IsQuery(k, f)'
    BY <1>1 DEF IsQuery
  <2>1. IsQuery(k, f)
    BY <1>1 DEF RecordsRight
  <2> QED
    BY <2>1, AskedMore, QueryKept
<1>4. \A i \in 1 .. Len(requests') : requests'[i].kind = "send" =>
         /\ Fits(requests'[i].len, prog'.short, Limit')
         /\ requests'[i].ext \in prog'.has \cup {NoExt}
  <2> SUFFICES ASSUME NEW i \in 1 .. Len(requests'), requests'[i].kind = "send"
               PROVE  /\ Fits(requests'[i].len, prog.short, Limit)
                      /\ requests'[i].ext \in prog.has \cup {NoExt}
    BY <1>1, <1>2
  <2>1. IsSend(i, requests'[i].ext)
    <3>1. PICK f : f = requests'[i].ext
      OBVIOUS
    <3>2. IsSend(i, f)'
      BY <3>1 DEF IsSend
    <3> QED
      BY <3>1, <3>2, AskedOnly
  <2>2. i \in 1 .. Len(requests) /\ requests[i].kind = "send"
    BY <2>1 DEF IsSend
  <2>3. requests'[i] = requests[i]
    BY <2>2, AskedMore
  <2> QED
    BY <2>2, <2>3, <1>1 DEF RecordsRight
<1> QED
  BY <1>1, <1>2, <1>3, <1>4 DEF RecordsRight

\* All but the frames of the thread and the locks.
LEMMA AskedRest ==
    ASSUME CacheInv, NEW e \in Ext, AsksExt(e), NEW t \in Thread, OnlyStack(t), OnlyVal(t),
           KeepsReqlen, home' \in Nat, script' = script
    PROVE  CacheTypes' /\ AnswersRight' /\ ExtInv' /\ MaxInv' /\ Grows
<1>1. CacheTypes /\ AnswersRight /\ UNCHANGED <<prog, has_error, maxlen, answers, collected>>
  BY DEF CacheInv, AsksExt
<1>2. /\ requests' \in Seq(Request) /\ Len(requests') \in Nat /\ Grows
      /\ \A k \in 1 .. Len(requests) : requests'[k] = requests[k]
  BY AskedMore
<1>3. Len(requests) \in Nat /\ Len(answers) \in Nat /\ Len(requests) <= Len(requests')
  BY <1>2 DEF Grows
<1>4. CacheTypes'
  <2>1. global_id' \in [Ext -> Nat] /\ next_global_id' \in Nat
    BY NumberedOnce DEF AsksExt
  <2>2. extensions' \in Seq(Lazy)
    BY AskedTable
  <2>3. Len(answers) <= Len(requests') /\ collected \subseteq 0 .. Len(requests')
    BY <1>1, <1>2, <1>3 DEF CacheTypes
  <2> QED
    BY <1>1, <1>2, <2>1, <2>2, <2>3 DEF CacheTypes, OnlyStack, OnlyVal
<1>5. AnswersRight'
  <2>1. \A i \in 1 .. Len(answers) : requests'[i] = requests[i]
    BY <1>1, <1>2, <1>3 DEF CacheTypes
  <2> QED
    BY <1>1, <2>1 DEF AnswersRight
<1> QED
  BY <1>2, <1>4, <1>5, AskedExt, AskedMax

LEMMA AsksStep ==
    ASSUME CacheInv, NEW t \in Thread, ExtStep(t), UNCHANGED <<prog, inc, answers>>,
           NEW e \in Ext, get_lazyreply(e), Free("ext"), UNCHANGED <<collected, seen, stale>>
    PROVE  AsksExt(e) /\ home' \in Nat /\ XidTypes' /\ RecordsRight'
<1>1. UNCHANGED <<has_error, maxlen, lengths, last, max>>
  BY DEF ExtStep, xidvars
<1>2. home' \in Nat /\ \E table : Tabled(e, table) /\ (Hit(e, table) \/ Miss(e, table))
  BY LazyReplyTable
<1>3. AsksExt(e)
  BY <1>1, <1>2 DEF AsksExt, get_lazyreply
<1>4. XidTypes'
  BY <1>1 DEF CacheInv, XidTypes
<1> QED
  BY <1>1, <1>2, <1>3, <1>4, AskedRecords

\* xcb_prefetch_extension_data
LEMMA LazyExtKeeps ==
    ASSUME CacheInv, NEW t \in Thread, ExtStep(t), lazy_ext(t), UNCHANGED <<prog, inc, answers>>
    PROVE  CacheInv'
<1>1. /\ At(t, "lazy_ext") /\ Free("ext") /\ return(t, 0) /\ 0 \in Nat
      /\ UNCHANGED <<lock, collected, seen, stale, script, has_error, maxlen>>
  BY DEF lazy_ext, Null, ExtStep
<1>2. PICK e : e = Top(t).ext
  OBVIOUS
<1>3. /\ stack[t] # <<>> /\ stack[t][1].at = "lazy_ext" /\ Top(t) = stack[t][1]
      /\ stack \in [Thread -> Seq(Frame)] /\ val \in [Thread -> Nat]
      /\ FrameOK(Top(t)) /\ Top(t).at = "lazy_ext"
  BY <1>1, Running
<1>4. e \in Ext
  BY <1>2, <1>3 DEF FrameOK, LazyExt
<1>5. get_lazyreply(e)
  BY <1>2 DEF lazy_ext
<1>6. AsksExt(e) /\ home' \in Nat /\ XidTypes' /\ RecordsRight'
  BY <1>1, <1>4, <1>5, AsksStep
<1>7. Popped(stack[t], stack'[t]) /\ OnlyStack(t) /\ val'[t] = 0 /\ OnlyVal(t)
  BY <1>1, <1>3, ReturnShape DEF OnlyVal
<1>8. CacheTypes' /\ AnswersRight' /\ ExtInv' /\ MaxInv' /\ Grows
  <2>1. KeepsReqlen
    BY <1>1 DEF KeepsReqlen
  <2> QED
    BY <1>1, <1>4, <1>6, <1>7, <2>1, AskedRest
<1>9. Gives(stack[t][1], 0)
  BY <1>3 DEF Gives, CalledBy, GetExt, Send, GetMax, PrefetchMax
<1>10. KeptFrames(t)
  BY <1>4, <1>6, AskedFrames
<1>11. \A u \in Thread : ThreadOK(u)'
  BY <1>7, <1>8, <1>9, <1>10, ThreadPopped
<1>12. Clear(stack[t], stack'[t], Busy) /\ Clear(stack[t], stack'[t], {"enable_max", "read_max"})
  BY <1>3, <1>7 DEF Clear, Busy, InExt, InMax, InXid
<1>13. LockInv'
  BY <1>1, <1>7, <1>12, QuietLocks
<1>14. NoLateCookie'
  BY <1>1, <1>3, <1>7, <1>12, QuietLate
<1> QED
  BY <1>6, <1>8, <1>11, <1>13, <1>14 DEF CacheInv

LEMMA HoldFollows ==
    ASSUME NEW h, h.at \in GetExt, NEW f, f.at \in GetExt, f.ext = h.ext
    PROVE  Follows(f, h)
<1>1. h.at \notin Send /\ h.at \notin PrefetchMax /\ h.at \notin GetMax
  BY DEF GetExt, Send, PrefetchMax, GetMax
<1> QED
  BY <1>1 DEF Follows, CalledBy

\* xcb_get_extension_data up to the wait
LEMMA ForceExtKeeps ==
    ASSUME CacheInv, NEW t \in Thread, ExtStep(t), force_ext(t), UNCHANGED <<prog, inc, answers>>
    PROVE  CacheInv'
<1>1. /\ At(t, "force_ext") /\ Free("ext")
      /\ UNCHANGED <<val, collected, seen, stale, script, has_error, maxlen>>
  BY DEF force_ext, ExtStep
<1>2. PICK e : e = Top(t).ext
  OBVIOUS
<1>3. /\ stack[t] # <<>> /\ stack[t][1].at = "force_ext" /\ Top(t) = stack[t][1]
      /\ stack \in [Thread -> Seq(Frame)] /\ val \in [Thread -> Nat] /\ stack[t] \in Seq(Frame)
      /\ FrameOK(Top(t)) /\ Top(t).at = "force_ext" /\ stack[t][1] \in Frame
  BY <1>1, Running
<1>4. e \in Ext
  BY <1>2, <1>3 DEF FrameOK, GetExt
<1>5. get_lazyreply(e)
  BY <1>2 DEF force_ext
<1>6. AsksExt(e) /\ home' \in Nat /\ XidTypes' /\ RecordsRight'
  BY <1>1, <1>4, <1>5, AsksStep
<1>7. PICK idx : idx = global_id'[e]
  OBVIOUS
<1>8. /\ idx \in 1 .. Len(extensions') /\ idx \in Nat
      /\ extensions'[idx].tag \in {"COOKIE", "FORCED"}
  <2>1. /\ extensions' \in Seq(Lazy) /\ Len(extensions') \in Nat
        /\ idx \in 1 .. Len(extensions') /\ extensions'[idx].tag # "NONE"
    BY <1>4, <1>6, <1>7, AskedTable
  <2>2. extensions'[idx] \in Lazy
    BY <2>1, ElementOfSeq
  <2> QED
    BY <2>1, <2>2 DEF Lazy
<1>9. PICK d : d = <<home', idx>>
  OBVIOUS
<1>10. d \in Nat \X Nat /\ d[2] = idx
  BY <1>6, <1>8, <1>9
<1>11. \/ /\ extensions'[idx].tag = "COOKIE" /\ hold(t, "wait_ext", d) /\ Acquire(t, "ext")
       \/ /\ extensions'[idx].tag = "FORCED" /\ hold(t, "read_ext", d) /\ UNCHANGED lock
  BY <1>2, <1>7, <1>8, <1>9 DEF force_ext
<1>12. /\ lock \in [Locks -> Thread \cup {NoThread}] /\ "ext" \in Locks /\ "reqlen" \in Locks
  BY DEF CacheInv, LockInv, Locks
<1>13. KeepsReqlen
  BY <1>11, <1>12 DEF KeepsReqlen, Acquire
<1>14. OnlyVal(t)
  BY <1>1, <1>3 DEF OnlyVal
<1>15. ASSUME NEW l \in {"wait_ext", "read_ext"}, hold(t, l, d),
              l = "wait_ext" <=> extensions'[idx].tag = "COOKIE"
       PROVE  /\ CacheTypes' /\ AnswersRight' /\ ExtInv' /\ MaxInv'
              /\ (\A u \in Thread : ThreadOK(u)') /\ OnlyStack(t)
              /\ \E f : Retop(stack[t], stack'[t], f) /\ f.at = l
  <2>1. l \in Label /\ l \in GetExt /\ "force_ext" \in GetExt
    BY <1>15 DEF Label, GetExt
  <2>2. PICK f : f = [stack[t][1] EXCEPT !.at = l, !.data = d]
    OBVIOUS
  <2>3. Retop(stack[t], stack'[t], f) /\ OnlyStack(t)
    BY <1>3, <1>10, <1>15, <2>1, <2>2, HoldShape
  <2>4. f \in Frame /\ f.at = l /\ f.ext = e /\ f.data = d /\ Follows(f, stack[t][1])
    <3>1. PICK h : h = stack[t][1]
      OBVIOUS
    <3>2. h \in Frame /\ h.at \in GetExt /\ h.ext = e /\ d \in Nat \X Nat
      BY <3>1, <1>2, <1>3, <1>10, <2>1
    <3>3. f = [h EXCEPT !.at = l, !.data = d]
      BY <3>1, <2>2
    <3>4. f \in Frame /\ f.at = l /\ f.ext = h.ext /\ f.data = d
      BY <3>2, <3>3, <2>1 DEF Frame
    <3>5. Follows(f, h)
      BY <3>2, <3>4, <2>1, HoldFollows
    <3> QED
      BY <3>1, <3>2, <3>4, <3>5
  <2>5. CacheTypes' /\ AnswersRight' /\ ExtInv' /\ MaxInv' /\ Grows
    BY <1>1, <1>4, <1>6, <1>13, <1>14, <2>3, AskedRest
  <2>6. KeptFrames(t)
    BY <1>4, <1>6, AskedFrames
  <2>7. FrameOK(f)'
    BY <1>4, <1>7, <1>8, <1>10, <1>15, <2>4 DEF FrameOK
  <2>8. \A v : ValOK(f, v)'
    BY <1>15, <2>4 DEF ValOK
  <2>9. \A u \in Thread : ThreadOK(u)'
    BY <1>14, <2>3, <2>4, <2>5, <2>6, <2>7, <2>8, ThreadRetop
  <2> QED
    BY <2>3, <2>4, <2>5, <2>9
<1>16. CASE extensions'[idx].tag = "COOKIE" /\ hold(t, "wait_ext", d) /\ Acquire(t, "ext")
  <2>1. /\ CacheTypes' /\ AnswersRight' /\ ExtInv' /\ MaxInv'
        /\ (\A u \in Thread : ThreadOK(u)') /\ OnlyStack(t)
        /\ \E f : Retop(stack[t], stack'[t], f) /\ f.at = "wait_ext"
    BY <1>15, <1>16
  <2>2. PICK f : Retop(stack[t], stack'[t], f) /\ f.at = "wait_ext"
    BY <2>1
  <2>3. /\ Gains(stack[t], stack'[t], InExt)
        /\ Keeps(stack[t], stack'[t], InMax) /\ Keeps(stack[t], stack'[t], InXid)
        /\ Keeps(stack[t], stack'[t], {"read_max"})
        /\ Keeps(stack[t], stack'[t], {"enable_max"})
    BY <1>3, <2>2, RetopLabels DEF InMax, InExt, InXid
  <2>4. LockInv'
    <3>1. Gains(stack[t], stack'[t], LockLabels["ext"])
      BY <2>3 DEF LockLabels
    <3>2. \A l \in Locks \ {"ext"} : Keeps(stack[t], stack'[t], LockLabels[l])
      BY <2>3 DEF LockLabels, Locks
    <3> QED
      BY <3>1, <3>2, <1>1, <1>12, <1>16, <2>1, LockTaken
  <2>5. NoLateCookie'
    BY <1>1, <1>3, <1>14, <2>1, <2>3, LateQuiet
  <2> QED
    BY <1>6, <2>1, <2>4, <2>5 DEF CacheInv
<1>17. CASE extensions'[idx].tag = "FORCED" /\ hold(t, "read_ext", d) /\ UNCHANGED lock
  <2>1. /\ CacheTypes' /\ AnswersRight' /\ ExtInv' /\ MaxInv'
        /\ (\A u \in Thread : ThreadOK(u)') /\ OnlyStack(t)
        /\ \E f : Retop(stack[t], stack'[t], f) /\ f.at = "read_ext"
    BY <1>15, <1>17
  <2>2. Clear(stack[t], stack'[t], Busy) /\ Clear(stack[t], stack'[t], {"enable_max", "read_max"})
    BY <1>3, <2>1 DEF Clear, Busy, InExt, InMax, InXid
  <2>3. LockInv'
    BY <1>17, <2>1, <2>2, QuietLocks
  <2>4. NoLateCookie'
    BY <1>1, <1>3, <1>14, <2>1, <2>2, QuietLate
  <2> QED
    BY <1>6, <2>1, <2>3, <2>4 DEF CacheInv
<1> QED
  BY <1>11, <1>16, <1>17

\* No memory for the table.
LEMMA NoMemKeeps ==
    ASSUME CacheInv, NEW t \in Thread, ExtStep(t), ext_nomem(t), UNCHANGED <<prog, inc, answers>>
    PROVE  CacheInv'
<1>1. /\ "nomem" \in prog.faults /\ Free("ext") /\ return(t, 0) /\ 0 \in Nat
      /\ UNCHANGED <<lock, extensions, home, requests, collected, seen, stale, script,
                     has_error, maxlen, lengths, last, max, prog, inc, answers>>
  BY DEF ext_nomem, ExtStep, Null, xidvars
<1>2. PICK k \in {"lazy_ext", "force_ext"} : At(t, k)
  BY DEF ext_nomem
<1>3. /\ stack[t] # <<>> /\ stack[t][1].at = k /\ Top(t) = stack[t][1]
      /\ stack \in [Thread -> Seq(Frame)] /\ val \in [Thread -> Nat]
      /\ FrameOK(Top(t)) /\ Top(t).at = k
  BY <1>2, Running
<1>4. PICK e : e = Top(t).ext
  OBVIOUS
<1>5. e \in Ext
  BY <1>2, <1>3, <1>4 DEF FrameOK, LazyExt, GetExt
<1>6. number_ext(e) /\ global_id'[e] > Len(extensions)
  BY <1>4 DEF ext_nomem
<1>7. /\ global_id' \in [Ext -> Nat] /\ next_global_id' \in Nat
      /\ global_id'[e] # 0 /\ next_global_id <= next_global_id'
      /\ \A f \in Ext : global_id'[f] <= next_global_id'
      /\ \A f \in Ext : f # e => global_id'[f] = global_id[f]
      /\ \A f, g \in Ext : global_id'[f] = global_id'[g] /\ global_id'[f] # 0 => f = g
      /\ global_id'[e] = global_id[e] \/ global_id[e] = 0
  BY <1>5, <1>6, NumberedOnce
<1>8. Popped(stack[t], stack'[t]) /\ OnlyStack(t) /\ val'[t] = 0 /\ OnlyVal(t)
  BY <1>1, <1>3, ReturnShape DEF OnlyVal
<1>9. XidTypes' /\ RecordsRight'
  BY <1>1, RecordsSame
<1>10. CacheTypes'
  BY <1>1, <1>7, <1>8 DEF CacheInv, CacheTypes, OnlyStack, OnlyVal
<1>11. AnswersRight'
  BY <1>1 DEF CacheInv, AnswersRight
<1>12. Grows
  <2>1. Len(requests) \in Nat /\ Len(answers) \in Nat
    BY LenProperties DEF CacheInv, CacheTypes
  <2> QED
    BY <1>1, <2>1 DEF Grows
<1>13. ExtInv'
  <2>1. ExtInv /\ next_global_id \in Nat /\ global_id \in [Ext -> Nat] /\ Len(extensions) \in Nat
    BY LenProperties DEF CacheInv, CacheTypes
  <2>2. \A f \in Ext : IF global_id'[f] \in 1 .. Len(extensions)
                       THEN EntryOK(f, extensions[global_id'[f]]) ELSE ~Asked(f)
    <3> TAKE f \in Ext
    <3>1. CASE f # e
      BY <3>1, <2>1, <1>7 DEF ExtInv
    <3>2. CASE f = e
      <4>1. global_id[e] \notin 1 .. Len(extensions)
        BY <2>1, <1>5, <1>6, <1>7
      <4>2. ~Asked(e)
        BY <4>1, <2>1, <1>5 DEF ExtInv
      <4>3. global_id'[e] \notin 1 .. Len(extensions)
        BY <2>1, <1>5, <1>6, <1>7
      <4> QED
        BY <3>2, <4>2, <4>3
    <3> QED
      BY <3>1, <3>2
  <2>3. \A f : Asked(f)' <=> Asked(f)
    BY <1>1 DEF Asked, IsQuery, Req
  <2>4. \A f, x : EntryOK(f, x)' <=> EntryOK(f, x)
    <3>1. \A h, f : (IsQuery(h, f)' <=> IsQuery(h, f)) /\ (IsAnswer(h, f)' <=> IsAnswer(h, f))
      BY <1>1 DEF IsAnswer, IsQuery, Req
    <3> QED
      BY <1>1, <2>3, <3>1 DEF EntryOK
  <2>5. \A f \in Ext : IF global_id'[f] \in 1 .. Len(extensions')
                       THEN EntryOK(f, extensions[global_id[f]])' ELSE ~Asked(f)'
    <3> TAKE f \in Ext
    <3>1. PICK x : x = extensions[global_id'[f]]
      OBVIOUS
    <3>2. EntryOK(f, x)' <=> EntryOK(f, x)
      BY <2>4
    <3>3. CASE global_id'[f] \in 1 .. Len(extensions)
      BY <3>1, <3>2, <3>3, <2>2, <1>1
    <3>4. CASE global_id'[f] \notin 1 .. Len(extensions)
      BY <3>4, <2>2, <2>3, <1>1
    <3> QED
      BY <3>3, <3>4
  <2>6. \A i \in 1 .. Len(extensions') : i > next_global_id' => extensions'[i].tag = "NONE"
    BY <2>1, <1>1, <1>7 DEF ExtInv
  <2>7. AskedOnce'
    BY <2>1, <1>1 DEF ExtInv, AskedOnce
  <2> QED
    BY <1>7, <2>5, <2>6, <2>7 DEF ExtInv
<1>14. MaxInv'
  BY <1>1 DEF CacheInv, MaxInv, IsSend, Limit, Good
<1>15. KeptFrames(t)
  <2> SUFFICES ASSUME NEW f \in Frame, Elsewhere(t, f) PROVE FrameOK(f)'
    BY DEF KeptFrames
  <2>1. FrameOK(f) /\ f.at # "wait_ext"
    <3>1. "ext" \in Locks /\ LockLabels["ext"] = {"wait_ext"}
      BY DEF Locks, LockLabels, InExt
    <3> QED
      BY <3>1, <1>1, ElsewhereOK DEF Free
  <2>2. f.at = "read_ext" => f.data[2] = global_id'[f.ext]
    <3> HAVE f.at = "read_ext"
    <3>1. f.ext \in Ext /\ f.data[2] = global_id[f.ext] /\ f.data[2] \in 1 .. Len(extensions)
      BY <2>1 DEF FrameOK, GetExt
    <3>2. global_id[f.ext] # 0
      BY <3>1
    <3> QED
      BY <3>1, <3>2, <1>7
  <2> QED
    BY <2>1, <2>2, <1>1 DEF FrameOK, Limit
<1>16. Gives(stack[t][1], 0)
  <2> SUFFICES ASSUME NEW g \in Frame, CalledBy(stack[t][1], g) PROVE ValOK(g, 0)'
    BY DEF Gives
  <2>1. g.at \in {"enable_max", "send_ext", "range_id"}
    BY <1>2, <1>3 DEF CalledBy, GetExt, Send, GetMax, PrefetchMax
  <2>2. ~Good'
    BY <1>1 DEF Good
  <2> QED
    BY <2>1, <2>2 DEF ValOK, ExtVal
<1>17. \A u \in Thread : ThreadOK(u)'
  BY <1>8, <1>12, <1>15, <1>16, ThreadPopped
<1>18. Clear(stack[t], stack'[t], Busy) /\ Clear(stack[t], stack'[t], {"enable_max", "read_max"})
  BY <1>2, <1>3, <1>8 DEF Clear, Busy, InExt, InMax, InXid
<1>19. LockInv'
  BY <1>1, <1>8, <1>18, QuietLocks
<1>20. NoLateCookie'
  BY <1>1, <1>2, <1>3, <1>8, <1>18, QuietLate
<1> QED
  BY <1>9, <1>10, <1>11, <1>13, <1>14, <1>17, <1>19, <1>20 DEF CacheInv

\* The answer about an extension has come, or never will.
LEMMA WaitExtKeeps ==
    ASSUME CacheInv, NEW t \in Thread, ExtStep(t), wait_ext(t), UNCHANGED <<prog, inc, answers>>
    PROVE  CacheInv'
<1>1. /\ UNCHANGED <<val, global_id, next_global_id, home, requests, seen, stale, script,
                     has_error, maxlen, lengths, last, max, prog, inc, answers>>
      /\ goto(t, "read_ext") /\ Release("ext") /\ At(t, "wait_ext")
  BY DEF wait_ext, ExtStep, xidvars
<1>2. /\ stack[t] # <<>> /\ stack[t][1].at = "wait_ext" /\ Top(t) = stack[t][1]
      /\ stack \in [Thread -> Seq(Frame)] /\ val \in [Thread -> Nat] /\ stack[t] \in Seq(Frame)
      /\ FrameOK(Top(t)) /\ Top(t).at = "wait_ext" /\ stack[t][1] \in Frame
  BY <1>1, Running
<1>3. PICK e : e = Top(t).ext
  OBVIOUS
<1>4. PICK idx : idx = Top(t).data[2]
  OBVIOUS
<1>5. PICK k : k = extensions[idx].value
  OBVIOUS
<1>6. /\ e \in Ext /\ idx = global_id[e] /\ idx \in 1 .. Len(extensions)
      /\ extensions[idx].tag = "COOKIE"
  BY <1>2, <1>3, <1>4 DEF FrameOK, GetExt
<1>7. /\ extensions \in Seq(Lazy) /\ requests \in Seq(Request) /\ Len(requests) \in Nat
      /\ Len(answers) \in Nat /\ Len(extensions) \in Nat /\ collected \subseteq 0 .. Len(requests)
      /\ ExtInv
  BY LenProperties DEF CacheInv, CacheTypes
<1>8. (k = 0 /\ has_error) \/ (IsQuery(k, e) /\ k \notin collected)
  BY <1>5, <1>6, <1>7 DEF ExtInv, EntryOK
<1>9. /\ Answered(k) /\ collected' = collected \cup {k}
      /\ \E r \in Replies(k) :
            extensions' = [extensions EXCEPT ![idx] = [tag |-> "FORCED", value |-> r]]
  BY <1>4, <1>5 DEF wait_ext
<1>10. PICK r \in Replies(k) :
            extensions' = [extensions EXCEPT ![idx] = [tag |-> "FORCED", value |-> r]]
  BY <1>9
<1>11. (r = 0 /\ has_error) \/ (r = k /\ IsAnswer(k, e))
  <2>1. CASE has_error
    <3>1. r = 0 \/ (r = k /\ k \in 1 .. Len(answers))
      BY <1>10 DEF Replies, Null
    <3> QED
      BY <2>1, <3>1, <1>7, <1>8 DEF IsAnswer
  <2>2. CASE ~has_error
    <3>1. IsQuery(k, e) /\ k \notin collected /\ k <= Len(answers)
      BY <2>2, <1>8, <1>9 DEF Answered, IsQuery
    <3>2. k \in 1 .. Len(answers)
      BY <3>1, <1>7 DEF IsQuery
    <3>3. r = k
      BY <2>2, <3>1, <3>2, <1>10 DEF Replies
    <3> QED
      BY <3>1, <3>3 DEF IsAnswer
  <2> QED
    BY <2>1, <2>2
<1>12. PICK x : x = [tag |-> "FORCED", value |-> r]
  OBVIOUS
<1>13. x \in Lazy /\ x.tag = "FORCED" /\ x.value = r
  <2>1. r \in Nat
    BY <1>7, <1>11 DEF IsAnswer, IsQuery
  <2> QED
    BY <2>1, <1>12 DEF Lazy
<1>14. /\ extensions' \in Seq(Lazy) /\ Len(extensions') = Len(extensions)
       /\ extensions'[idx] = x
       /\ \A i \in 1 .. Len(extensions) : i # idx => extensions'[i] = extensions[i]
  <2>1. extensions' = [extensions EXCEPT ![idx] = x]
    BY <1>10, <1>12
  <2> QED
    BY <2>1, <1>6, <1>7, <1>13
<1>15. collected' \subseteq 0 .. Len(requests)
  <2>1. k \in 0 .. Len(requests)
    BY <1>7, <1>8 DEF IsQuery
  <2> QED
    BY <2>1, <1>7, <1>9
<1>16. XidTypes' /\ RecordsRight'
  BY <1>1, RecordsSame
<1>17. PICK f : f = [stack[t][1] EXCEPT !.at = "read_ext"]
  OBVIOUS
<1>18. /\ "read_ext" \in Label /\ GetExt \in Functions /\ "read_ext" \in GetExt
       /\ "wait_ext" \in GetExt
  BY DEF Label, GetExt, Functions
<1>19. Same(f, stack[t][1], "read_ext")
  BY <1>2, <1>17, <1>18, SameAt
<1>20. Follows(f, stack[t][1])
  <2>1. stack[t][1].at \in GetExt
    BY <1>2, <1>18
  <2> QED
    BY <1>18, <1>19, <2>1, SameFollows
<1>21. Retop(stack[t], stack'[t], f) /\ OnlyStack(t) /\ OnlyVal(t)
  BY <1>1, <1>2, <1>17, <1>18, GotoShape DEF OnlyVal
<1>22. CacheTypes' /\ AnswersRight'
  <2>1. CacheTypes'
    BY <1>1, <1>14, <1>15, <1>21 DEF CacheInv, CacheTypes, OnlyStack, OnlyVal
  <2>2. AnswersRight'
    BY <1>1 DEF CacheInv, AnswersRight
  <2> QED
    BY <2>1, <2>2
<1>23. Grows
  BY <1>1, <1>7 DEF Grows
<1>24. \A h, g : (IsQuery(h, g)' <=> IsQuery(h, g)) /\ (IsAnswer(h, g)' <=> IsAnswer(h, g))
  BY <1>1 DEF IsAnswer, IsQuery, Req
<1>25. ExtInv'
  <2>1. \A g : Asked(g)' <=> Asked(g)
    BY <1>1 DEF Asked, IsQuery, Req
  <2>2. \A h, g : g # e /\ IsQuery(h, g) /\ h \notin collected => h \notin collected'
    <3> SUFFICES ASSUME NEW h, NEW g, g # e, IsQuery(h, g), h = k PROVE FALSE
      BY <1>9
    <3>1. h # 0
      BY DEF IsQuery
    <3>2. requests[h] = Req("query_extension", g, 1) /\ requests[h] = Req("query_extension", e, 1)
      BY <3>1, <1>8 DEF IsQuery
    <3> QED
      BY <3>2 DEF Req
  <2>3. \A g \in Ext : IF global_id'[g] \in 1 .. Len(extensions')
                       THEN EntryOK(g, extensions[global_id[g]])' ELSE ~Asked(g)'
    <3> TAKE g \in Ext
    <3>1. CASE g = e
      <4>1. EntryOK(e, x)'
        BY <1>1, <1>11, <1>13, <1>24 DEF EntryOK
      <4>2. global_id'[g] = idx /\ extensions'[idx] = x
        BY <3>1, <1>1, <1>6, <1>14
      <4> QED
        BY <3>1, <4>1, <4>2, <1>6, <1>14
    <3>2. CASE g # e
      <4>1. CASE global_id[g] \in 1 .. Len(extensions)
        <5>1. PICK y : y = extensions[global_id[g]]
          OBVIOUS
        <5>2. EntryOK(g, y)
          BY <4>1, <5>1, <1>7 DEF ExtInv
        <5>3. EntryOK(g, y)'
          BY <5>2, <3>2, <2>1, <2>2, <1>1, <1>24 DEF EntryOK
        <5>4. global_id[g] # idx
          BY <3>2, <4>1, <1>6, <1>7 DEF ExtInv
        <5>5. extensions'[global_id'[g]] = y /\ global_id'[g] \in 1 .. Len(extensions')
          BY <4>1, <5>1, <5>4, <1>1, <1>14
        <5> QED
          BY <5>3, <5>5
      <4>2. CASE global_id[g] \notin 1 .. Len(extensions)
        BY <4>2, <2>1, <1>1, <1>7, <1>14 DEF ExtInv
      <4> QED
        BY <4>1, <4>2
    <3> QED
      BY <3>1, <3>2
  <2>4. \A i \in 1 .. Len(extensions') : i > next_global_id' => extensions'[i].tag = "NONE"
    <3> TAKE i \in 1 .. Len(extensions')
    <3> HAVE i > next_global_id'
    <3>1. extensions[i].tag = "NONE"
      BY <1>1, <1>7, <1>14 DEF ExtInv
    <3>2. i # idx
      BY <3>1, <1>6
    <3> QED
      BY <3>1, <3>2, <1>14
  <2>5. AskedOnce'
    BY <1>1, <1>7 DEF ExtInv, AskedOnce
  <2> QED
    BY <1>1, <1>7, <2>3, <2>4, <2>5 DEF ExtInv
<1>26. lock \in [Locks -> Thread \cup {NoThread}] /\ "ext" \in Locks /\ "reqlen" \in Locks
  BY DEF CacheInv, LockInv, Locks
<1>27. MaxInv'
  <2>1. lock'["reqlen"] = lock["reqlen"]
    BY <1>1, <1>26 DEF Release
  <2>2. \A h : IsSend(h, big_requests)' <=> IsSend(h, big_requests)
    BY <1>1 DEF IsSend
  <2>3. ~IsSend(k, big_requests)
    BY <1>8 DEF IsSend, IsQuery, Req
  <2>4. \A h \in collected' : h \in collected \/ ~IsSend(h, big_requests)'
    BY <2>2, <2>3, <1>9
  <2>5. maxlen.tag # "FORCED" => \A h \in collected' : ~IsSend(h, big_requests)'
    BY <2>2, <2>4 DEF CacheInv, MaxInv
  <2>6. Limit' = Limit /\ (Good' <=> Good) /\ MaxInv
    BY <1>1 DEF Limit, Good, CacheInv
  <2>7. IsSend(maxlen.value, big_requests)' <=> IsSend(maxlen.value, big_requests)
    BY <1>1 DEF IsSend
  <2> QED
    BY <1>1, <2>1, <2>5, <2>6, <2>7 DEF MaxInv
<1>28. KeptFrames(t)
  <2> SUFFICES ASSUME NEW g \in Frame, Elsewhere(t, g) PROVE FrameOK(g)'
    BY DEF KeptFrames
  <2>1. FrameOK(g) /\ g.at # "wait_ext"
    <3>1. "ext" \in Locks /\ LockLabels["ext"] = {"wait_ext"}
      BY DEF Locks, LockLabels, InExt
    <3> QED
      BY <3>1, <1>2, ElsewhereOK
  <2>2. g.at = "read_ext" => /\ extensions'[g.data[2]].tag = "FORCED"
                             /\ g.data[2] \in 1 .. Len(extensions')
    <3> HAVE g.at = "read_ext"
    <3>1. extensions[g.data[2]].tag = "FORCED" /\ g.data[2] \in 1 .. Len(extensions)
      BY <2>1 DEF FrameOK
    <3>2. g.data[2] # idx
      BY <3>1, <1>6
    <3> QED
      BY <3>1, <3>2, <1>14
  <2> QED
    BY <2>1, <2>2, <1>1 DEF FrameOK, Limit
<1>29. FrameOK(f)' /\ \A v : ValOK(f, v)'
  <2>1. f.at = "read_ext" /\ f.ext = e /\ f.data[2] = idx
    BY <1>2, <1>3, <1>4, <1>19 DEF Same
  <2>2. e \in Ext /\ idx = global_id'[e] /\ idx \in 1 .. Len(extensions') /\ extensions'[idx].tag = "FORCED"
    BY <1>1, <1>6, <1>13, <1>14
  <2>3. FrameOK(f)'
    BY <2>1, <2>2 DEF FrameOK
  <2> QED
    BY <2>1, <2>3 DEF ValOK
<1>30. \A u \in Thread : ThreadOK(u)'
  BY <1>20, <1>21, <1>23, <1>28, <1>29, ThreadRetop
<1>31. /\ Loses(stack[t], stack'[t], InExt)
       /\ Keeps(stack[t], stack'[t], InMax) /\ Keeps(stack[t], stack'[t], InXid)
       /\ Keeps(stack[t], stack'[t], {"read_max"})
       /\ Keeps(stack[t], stack'[t], {"enable_max"})
  <2>1. f.at = "read_ext"
    BY <1>19 DEF Same
  <2> QED
    BY <2>1, <1>2, <1>21, RetopLabels DEF InMax, InExt, InXid
<1>32. LockInv'
  <2>1. Loses(stack[t], stack'[t], LockLabels["ext"]) /\ stack[t][1].at \in LockLabels["ext"]
    BY <1>31, <1>2 DEF LockLabels, InExt
  <2>2. \A l \in Locks \ {"ext"} : Keeps(stack[t], stack'[t], LockLabels[l])
    BY <1>31 DEF LockLabels, Locks
  <2> QED
    BY <2>1, <2>2, <1>1, <1>2, <1>26, <1>21, LockGiven
<1>33. NoLateCookie'
  BY <1>1, <1>2, <1>21, <1>31, LateQuiet
<1> QED
  BY <1>16, <1>22, <1>25, <1>27, <1>30, <1>32, <1>33 DEF CacheInv

\* The answer is read, after the unlock.
LEMMA ReadExtKeeps ==
    ASSUME CacheInv, NEW t \in Thread, ExtStep(t), read_ext(t), UNCHANGED <<prog, inc, answers>>
    PROVE  CacheInv'
<1>1. /\ Plain /\ At(t, "read_ext")
      /\ UNCHANGED <<lock, script, requests, lengths, last, max, prog, inc, has_error, answers>>
  BY DEF read_ext, ExtStep, Plain, xidvars
<1>2. FrameOK(Top(t)) /\ Top(t).at = "read_ext" /\ has_error \in BOOLEAN
  BY <1>1, Running DEF CacheInv, CacheTypes
<1>3. PICK e : e = Top(t).ext
  OBVIOUS
<1>4. PICK idx : idx = Top(t).data[2]
  OBVIOUS
<1>5. PICK moved : moved = (Top(t).data[1] # home)
  OBVIOUS
<1>6. PICK here : here = extensions[idx].value
  OBVIOUS
<1>7. /\ e \in Ext /\ idx = global_id[e] /\ idx \in 1 .. Len(extensions)
      /\ extensions[idx].tag = "FORCED"
  BY <1>2, <1>3, <1>4 DEF FrameOK, GetExt
<1>8. (here = 0 /\ has_error) \/ IsAnswer(here, e)
  BY <1>6, <1>7 DEF CacheInv, ExtInv, EntryOK
<1>9. PICK v \in IF moved THEN {here, Null} ELSE {here} :
         /\ return(t, v)
         /\ seen' = seen \cup {[ext |-> e, reply |-> v, error |-> has_error]}
         /\ stale' = IF moved THEN stale \cup {e} ELSE stale
  BY <1>3, <1>4, <1>5, <1>6 DEF read_ext
<1>10. /\ v = here \/ (v = 0 /\ moved)
       /\ v \in Nat /\ stale \subseteq stale'
       /\ stale' = {} => ~moved /\ stale = {}
  <2>1. here \in Nat
    <3>1. Len(requests) \in Nat
      BY LenProperties DEF CacheInv, CacheTypes
    <3> QED
      BY <3>1, <1>8 DEF IsAnswer, IsQuery
  <2>2. v = here \/ (v = 0 /\ moved)
    BY <1>9 DEF Null
  <2>3. stale \subseteq stale' /\ (stale' = {} => ~moved /\ stale = {})
    BY <1>9
  <2> QED
    BY <2>1, <2>2, <2>3
<1>11. IF v = 0 THEN stale' = {} => has_error ELSE IsAnswer(v, e)
  BY <1>8, <1>10 DEF IsAnswer, IsQuery
<1>12. ExtVal(v, e)'
  <2>1. IsAnswer(v, e) => IsAnswer(v, e)'
    BY <1>1 DEF IsAnswer, IsQuery, Req
  <2> QED
    BY <2>1, <1>1, <1>11 DEF ExtVal, Good
<1>13. Gives(Top(t), v)
  <2> SUFFICES ASSUME NEW g \in Frame, CalledBy(Top(t), g) PROVE ValOK(g, v)'
    BY DEF Gives
  <2>1. \/ g.at = "enable_max" /\ e = big_requests
        \/ g.at = "send_ext" /\ e = g.ext
        \/ g.at = "range_id"
    BY <1>2, <1>3 DEF CalledBy, GetExt, Send, GetMax, PrefetchMax
  <2> QED
    BY <2>1, <1>12 DEF ValOK
<1>14. Core'
  <2>1. "read_ext" \notin QuietLabels /\ "read_ext" # "get_ext"
    BY DEF QuietLabels, Busy, InExt, InMax, InXid
  <2>2. v \in Nat /\ return(t, v) /\ stale \subseteq stale' /\ UNCHANGED <<lock, script>>
    BY <1>1, <1>9, <1>10
  <2> QED
    BY <1>1, <1>13, <2>1, <2>2, PlainBack
<1>15. XidTypes'
  BY <1>1 DEF CacheInv, XidTypes
<1>16. RecordsRight'
  <2>1. stale' = {} => \A s \in seen' : ~s.error => IsQuery(s.reply, s.ext)'
    <3> SUFFICES ASSUME stale' = {}, NEW s \in seen', ~s.error PROVE IsQuery(s.reply, s.ext)
      BY <1>1 DEF IsQuery, Req
    <3>1. CASE s \in seen
      BY <3>1, <1>10 DEF CacheInv, RecordsRight
    <3>2. CASE s = [ext |-> e, reply |-> v, error |-> has_error]
      <4>1. s.ext = e /\ s.reply = v /\ ~has_error
        BY <3>2
      <4>2. IsAnswer(v, e)
        BY <4>1, <1>11
      <4> QED
        BY <4>1, <4>2 DEF IsAnswer
    <3> QED
      BY <3>1, <3>2, <1>9
  <2>2. Limit' = Limit /\ (Good' => Good) /\ RecordsRight
    BY <1>1, <1>10 DEF Limit, Good, CacheInv
  <2>3. Good' => \A l \in lengths' : ~l.error => l.length = Limit'
    BY <1>1, <2>2 DEF RecordsRight
  <2>4. \A i \in 1 .. Len(requests') : requests'[i].kind = "send" =>
           /\ Fits(requests'[i].len, prog'.short, Limit')
           /\ requests'[i].ext \in prog'.has \cup {NoExt}
    BY <1>1, <2>2 DEF RecordsRight
  <2> QED
    BY <2>1, <2>3, <2>4 DEF RecordsRight
<1> QED
  BY <1>14, <1>15, <1>16 DEF CacheInv, Core
-----------------------------------------------------------------------------
(* The server, the beginning, and the theorems                             *)

LEMMA SetupIds ==
    ASSUME prog \in Programs
    PROVE  /\ prog.base \in 0 .. Word - 1 /\ prog.mask \in 1 .. Word - 1 /\ Word \in Nat
           /\ prog.base + prog.mask < Word
<1>1. /\ prog.base \in 0 .. Word - 1 /\ prog.mask \in 1 .. Word - 1 /\ Word \in Nat
      /\ Bits(prog.mask) \cap Bits(prog.base) = {}
  BY CachesAssumption, WordIsNat DEF Program
<1>2. prog.mask \in 0 .. Word - 1 /\ Bits(prog.base) \cap Bits(prog.mask) = {}
  BY <1>1
<1>3. prog.base + prog.mask < Word
  BY <1>1, <1>2, AddBits
<1> QED
  BY <1>1, <1>3

LEMMA OffersTyped ==
    ASSUME CacheInv
    PROVE  NoRange \in IdRange /\ Offers \subseteq IdRange
<1>1. /\ prog.base \in 0 .. Word - 1 /\ prog.mask \in 1 .. Word - 1 /\ Word \in Nat
      /\ prog.base + prog.mask < Word
  BY SetupIds DEF CacheInv, CacheTypes
<1>2. NoRange \in IdRange
  BY <1>1 DEF NoRange, IdRange
<1>3. \A n \in 0 .. prog.mask : prog.base + n \in 0 .. Word - 1
  BY <1>1
<1>4. \A c \in 1 .. prog.mask + 1 : c \in Nat
  BY <1>1
<1>5. \A r \in Offers : /\ \E n \in 0 .. prog.mask : r.start = prog.base + n
                        /\ r.count \in 1 .. prog.mask + 1
                        /\ r = [start |-> r.start, count |-> r.count]
  BY DEF Offers
<1>6. \A r \in Offers : r \in IdRange
  <2> TAKE r \in Offers
  <2>1. r.start \in 0 .. Word - 1 /\ r.count \in Nat
    BY <1>3, <1>4, <1>5
  <2>2. [start |-> r.start, count |-> r.count] \in IdRange
    BY <2>1 DEF IdRange
  <2> QED
    BY <2>2, <1>5
<1> QED
  BY <1>2, <1>6

LEMMA ServeKeeps ==
    ASSUME CacheInv, serve
    PROVE  CacheInv'
<1>1. /\ UNCHANGED <<prog, inc, script, stack, val, lock, has_error, global_id, next_global_id,
                     extensions, home, maxlen, last, max, requests, collected, seen, lengths,
                     stale>>
      /\ Len(answers) < Len(requests)
  BY DEF serve, extvars, xidvars, ghosts
<1>2. /\ answers \in Seq([present : BOOLEAN, length : Nat, range : IdRange])
      /\ Len(answers) \in Nat /\ Len(requests) \in Nat /\ prog.big \in Nat
      /\ requests \in Seq(Request)
  BY CachesAssumption, LenProperties DEF CacheInv, CacheTypes, Program
<1>3. PICK q : q = requests[Len(answers) + 1]
  OBVIOUS
<1>4. PICK r \in IdRange : answers' = Append(answers, Answer(q.ext \in prog.has, prog.big, r))
  BY <1>3, OffersTyped DEF serve
<1>b. PICK b \in BOOLEAN : b = (q.ext \in prog.has)
  <2>1. (q.ext \in prog.has) \in BOOLEAN
    OBVIOUS
  <2>2. (q.ext \in prog.has) = (q.ext \in prog.has)
    OBVIOUS
  <2> WITNESS (q.ext \in prog.has) \in BOOLEAN
  <2> QED
    BY <2>2
<1>5. PICK a : a = Answer(b, prog.big, r)
  OBVIOUS
<1>6. /\ a \in [present : BOOLEAN, length : Nat, range : IdRange]
      /\ (a.present <=> q.ext \in prog.has) /\ a.length = prog.big
  <2>1. a \in [present : BOOLEAN, length : Nat, range : IdRange]
    BY <1>2, <1>5 DEF Answer
  <2>2. a.present = b /\ a.length = prog.big
    BY <1>5 DEF Answer
  <2> QED
    BY <2>1, <2>2, <1>b
<1>7. /\ answers' \in Seq([present : BOOLEAN, length : Nat, range : IdRange])
      /\ Len(answers') = Len(answers) + 1
      /\ answers'[Len(answers) + 1] = a
      /\ \A i \in 1 .. Len(answers) : answers'[i] = answers[i]
  <2>1. answers' = Append(answers, a)
    BY <1>4, <1>5, <1>b
  <2> QED
    BY <2>1, <1>2, <1>6, AppendProperties
<1>8. CacheTypes'
  BY <1>1, <1>2, <1>7 DEF CacheInv, CacheTypes
<1>9. AnswersRight'
  <2> SUFFICES ASSUME NEW i \in 1 .. Len(answers')
               PROVE  /\ answers'[i].present <=> requests[i].ext \in prog.has
                      /\ answers'[i].length = prog.big
    BY <1>1 DEF AnswersRight
  <2>1. CASE i = Len(answers) + 1
    BY <2>1, <1>3, <1>6, <1>7
  <2>2. CASE i # Len(answers) + 1
    <3>1. i \in 1 .. Len(answers)
      BY <2>2, <1>2, <1>7
    <3> QED
      BY <3>1, <1>7 DEF CacheInv, AnswersRight
  <2> QED
    BY <2>1, <2>2
<1>10. Grows
  BY <1>1, <1>2, <1>7 DEF Grows
<1>11. ExtInv'
  <2>1. ExtInv
    BY DEF CacheInv
  <2>2. \A k, e : IsQuery(k, e)' <=> IsQuery(k, e)
    BY <1>1 DEF IsQuery, Req
  <2>3. \A k, e : IsAnswer(k, e) => IsAnswer(k, e)'
    BY <1>10, QueryKept
  <2>4. \A e : Asked(e)' <=> Asked(e)
    BY <1>1 DEF Asked, IsQuery, Req
  <2>5. \A e, x : EntryOK(e, x) => EntryOK(e, x)'
    BY <1>1, <2>2, <2>3, <2>4 DEF EntryOK
  <2>6. \A e \in Ext : IF global_id'[e] \in 1 .. Len(extensions')
                       THEN EntryOK(e, extensions[global_id[e]])' ELSE ~Asked(e)'
    <3> TAKE e \in Ext
    <3>1. PICK x : x = extensions[global_id[e]]
      OBVIOUS
    <3>2. CASE global_id[e] \in 1 .. Len(extensions)
      <4>1. EntryOK(e, x)'
        BY <3>1, <3>2, <2>1, <2>5 DEF ExtInv
      <4> QED
        BY <4>1, <3>1, <3>2, <1>1
    <3>3. CASE global_id[e] \notin 1 .. Len(extensions)
      BY <3>3, <1>1, <2>1, <2>4 DEF ExtInv
    <3> QED
      BY <3>2, <3>3
  <2>7. AskedOnce'
    BY <1>1, <2>1 DEF ExtInv, AskedOnce
  <2> QED
    BY <1>1, <2>1, <2>6, <2>7 DEF ExtInv
<1>12. MaxInv'
  BY <1>1 DEF CacheInv, MaxInv, IsSend, Limit, Good
<1>13. LockInv'
  BY <1>1 DEF CacheInv, LockInv
<1>14. \A u \in Thread : ThreadOK(u)'
  <2> SUFFICES ASSUME NEW u \in Thread PROVE ThreadOK(u)'
    OBVIOUS
  <2>1. ThreadOK(u)
    BY DEF CacheInv
  <2>2. \A i \in 1 .. Len(stack[u]) : FrameOK(stack[u][i])'
    BY <1>1, <2>1 DEF ThreadOK, FrameOK, Limit
  <2>3. stack[u] # <<>> => ValOK(stack[u][1], val[u])'
    <3> SUFFICES ASSUME stack[u] # <<>>, NEW f, f = stack[u][1], NEW v, v = val[u]
                 PROVE  ValOK(f, v)'
      BY <1>1
    <3> QED
      BY <1>10, <2>1, ValKept DEF ThreadOK
  <2> QED
    BY <1>1, <2>1, <2>2, <2>3 DEF ThreadOK
<1>15. NoLateCookie'
  BY <1>1 DEF CacheInv, NoLateCookie
<1>16. XidTypes' /\ RecordsRight'
  BY <1>1, RecordsSame
<1> QED
  BY <1>8, <1>9, <1>11, <1>12, <1>13, <1>14, <1>15, <1>16 DEF CacheInv

LEMMA StutterKeeps ==
    ASSUME CacheInv, UNCHANGED vars
    PROVE  CacheInv'
<1>1. UNCHANGED <<prog, inc, script, stack, val, lock, has_error, global_id, next_global_id,
                  extensions, home, maxlen, last, max, requests, answers, collected, seen,
                  lengths, stale>>
  BY DEF vars, extvars, xidvars, ghosts
<1>2. CacheTypes' /\ LockInv' /\ NoLateCookie'
  BY <1>1 DEF CacheInv, CacheTypes, LockInv, NoLateCookie
<1>3. AnswersRight' /\ MaxInv'
  BY <1>1 DEF CacheInv, AnswersRight, MaxInv, IsSend, Limit, Good
<1>4. ExtInv'
  BY <1>1 DEF CacheInv, ExtInv, EntryOK, Asked, AskedOnce, IsQuery, IsAnswer, Req
<1>5. \A t \in Thread : ThreadOK(t)'
  <2> SUFFICES ASSUME NEW t \in Thread PROVE ThreadOK(t)'
    OBVIOUS
  <2>1. ThreadOK(t)
    BY DEF CacheInv
  <2>2. \A i \in 1 .. Len(stack[t]) : FrameOK(stack[t][i])'
    BY <1>1, <2>1 DEF ThreadOK, FrameOK, Limit
  <2>3. stack[t] # <<>> => ValOK(stack[t][1], val[t])'
    BY <1>1, <2>1 DEF ThreadOK, ValOK, ExtVal, IsAnswer, IsQuery, IsSend, Req, Good, Limit
  <2> QED
    BY <1>1, <2>1, <2>2, <2>3 DEF ThreadOK
<1>6. XidTypes' /\ RecordsRight'
  BY <1>1, RecordsSame
<1> QED
  BY <1>2, <1>3, <1>4, <1>5, <1>6 DEF CacheInv

LEMMA CacheInit == Init => CacheInv
<1> HAVE Init
<1>1. /\ prog \in Programs /\ script = prog.script
      /\ stack = [t \in Thread |-> <<>>] /\ val = [t \in Thread |-> 0]
      /\ lock = [l \in Locks |-> NoThread] /\ has_error = FALSE
      /\ global_id = [e \in Ext |-> 0] /\ next_global_id = 0
      /\ extensions = <<>> /\ home = 0 /\ maxlen = [tag |-> "NONE", value |-> 0]
      /\ requests = <<>> /\ answers = <<>> /\ collected = {}
      /\ seen = {} /\ lengths = {} /\ stale = {}
      /\ last = 0 /\ max = 0 /\ inc = lowest_bit(prog.mask)
  BY DEF Init, xid_init, Null
<1>2. /\ prog \in Program /\ Word \in Nat /\ prog.base + prog.mask < Word
      /\ prog.mask \in 1 .. Word - 1
  BY <1>1, CachesAssumption, SetupIds
<1>3. XidTypes
  <2>1. inc \in 1 .. Word - 1
    BY <1>1, <1>2, LowestBit
  <2> QED
    BY <2>1, <1>1, <1>2 DEF XidTypes
<1>4. /\ maxlen \in Lazy /\ maxlen.tag = "NONE" /\ maxlen.value = 0
      /\ Len(requests) = 0 /\ Len(answers) = 0 /\ Len(extensions) = 0
      /\ \A t \in Thread : stack[t] = <<>> /\ Len(stack[t]) = 0
  <2>1. maxlen \in Lazy /\ maxlen.tag = "NONE" /\ maxlen.value = 0
    BY <1>1 DEF Lazy
  <2>2. Len(requests) = 0 /\ Len(answers) = 0 /\ Len(extensions) = 0
    BY <1>1, EmptySeq
  <2>3. \A t \in Thread : stack[t] = <<>> /\ Len(stack[t]) = 0
    BY <1>1, EmptySeq
  <2> QED
    BY <2>1, <2>2, <2>3
<1>5. CacheTypes
  <2>1. script \in [Thread -> Seq(Call)]
    BY <1>1, <1>2 DEF Program
  <2>2. stack \in [Thread -> Seq(Frame)] /\ val \in [Thread -> Nat] /\ global_id \in [Ext -> Nat]
    BY <1>1
  <2>3. has_error \in BOOLEAN /\ next_global_id \in Nat /\ home \in Nat /\ collected \subseteq 0 .. 0
    BY <1>1
  <2>4. /\ requests \in Seq(Request) /\ extensions \in Seq(Lazy)
        /\ answers \in Seq([present : BOOLEAN, length : Nat, range : IdRange])
    BY <1>1
  <2> QED
    BY <1>1, <1>4, <2>1, <2>2, <2>3, <2>4 DEF CacheTypes
<1>6. LockInv
  <2>1. lock \in [Locks -> Thread \cup {NoThread}]
    BY <1>1
  <2>2. \A ls : \A t \in Thread : ~Some(stack[t], ls) /\ Once(stack[t], ls)
    BY <1>4 DEF Some, Once
  <2> QED
    BY <2>1, <2>2, <1>1, CachesAssumption DEF LockInv
<1>7. AnswersRight
  BY <1>4 DEF AnswersRight
<1>8. ExtInv
  <2>1. \A e : ~Asked(e)
    BY <1>4 DEF Asked
  <2>2. AskedOnce
    BY <1>4 DEF AskedOnce
  <2> QED
    BY <1>1, <1>4, <2>1, <2>2 DEF ExtInv
<1>9. MaxInv
  BY <1>1, <1>4 DEF MaxInv
<1>10. \A t \in Thread : ThreadOK(t)
  BY <1>4 DEF ThreadOK, Chained
<1>11. NoLateCookie
  BY <1>4 DEF NoLateCookie, Some
<1>12. RecordsRight
  BY <1>1, <1>4 DEF RecordsRight
<1> QED
  BY <1>3, <1>5, <1>6, <1>7, <1>8, <1>9, <1>10, <1>11, <1>12 DEF CacheInv

LEMMA CacheNext == CacheInv /\ [Next]_vars => CacheInv'
<1> SUFFICES ASSUME CacheInv, [Next]_vars PROVE CacheInv'
  OBVIOUS
<1>1. ASSUME NEW t \in Thread, ThreadStep(t) PROVE CacheInv'
  <2>1. UNCHANGED <<prog, inc, answers>>
    BY <1>1 DEF ThreadStep
  <2>2. CASE call(t)
    BY <2>1, <2>2, CallKeeps
  <2>3. CASE EnterStep(t)
    BY <2>1, <2>3, EnterKeeps
  <2>4. CASE ExtStep(t)
    BY <2>1, <2>4, LazyExtKeeps, ForceExtKeeps, NoMemKeeps, WaitExtKeeps, ReadExtKeeps DEF ExtStep
  <2>5. CASE MaxStep(t)
    BY <2>1, <2>5, LockMaxKeeps, EnableMaxKeeps, EnabledMaxKeeps, ForceMaxKeeps, WaitMaxKeeps,
       ReadMaxKeeps DEF MaxStep
  <2>6. CASE SendStep(t)
    BY <2>1, <2>6, SendKeeps
  <2>7. CASE XidStep(t)
    BY <2>1, <2>7, NextIdKeeps, RangeIdKeeps, WaitIdKeeps DEF XidStep
  <2> QED
    BY <1>1, <2>2, <2>3, <2>4, <2>5, <2>6, <2>7 DEF ThreadStep
<1>2. CASE serve
  BY <1>2, ServeKeeps
<1>3. CASE break
  BY <1>3, BreakKeeps
<1>4. CASE UNCHANGED vars
  BY <1>4, StutterKeeps
<1> QED
  BY <1>1, <1>2, <1>3, <1>4 DEF Next

\* The invariant holds whatever the threads call, with whichever server.
THEOREM CachesInvariant == Spec => []CacheInv
BY CacheInit, CacheNext, PTL DEF Spec

LEMMA HoldsSome ==
    ASSUME CacheInv, NEW t \in Thread, NEW ls
    PROVE  Holds(t, ls) <=> Some(stack[t], ls)
<1>1. stack[t] \in Seq(Frame)
  BY DEF CacheInv, CacheTypes
<1>2. DOMAIN stack[t] = 1 .. Len(stack[t])
  BY <1>1, LenProperties
<1> QED
  BY <1>2 DEF Holds, Some

\* Types; and each of c->ext.lock, c->out.reqlenlock and c->xid.lock is held by
\* the thread that is between locking and unlocking it, and by no other.
THEOREM CachesTyped == Spec => []CachesTypeOK
<1>1. CacheInv => CachesTypeOK
  <2> HAVE CacheInv
  <2>1. /\ stack \in [Thread -> Seq(Frame)] /\ val \in [Thread -> Nat]
        /\ has_error \in BOOLEAN /\ extensions \in Seq(Lazy) /\ maxlen \in Lazy
        /\ last \in 0 .. Word - 1 /\ max \in 0 .. Word - 1 /\ inc \in 1 .. Word - 1
        /\ Len(answers) <= Len(requests) /\ collected \subseteq 0 .. Len(requests)
    BY DEF CacheInv, CacheTypes, XidTypes
  <2>2. \A e \in Ext : global_id[e] \in 0 .. next_global_id
    BY DEF CacheInv, CacheTypes, ExtInv
  <2>3. ASSUME NEW t \in Thread
        PROVE  /\ lock["ext"] = t <=> Holds(t, {"wait_ext"})
               /\ lock["reqlen"] = t <=> Holds(t, {"enable_max", "enabled_max", "wait_max"})
               /\ lock["xid"] = t <=> Holds(t, {"range_id", "wait_id"})
    <3>1. \A l \in Locks : lock[l] = t <=> Some(stack[t], LockLabels[l])
      BY DEF CacheInv, LockInv
    <3>2. \A l \in Locks : lock[l] = t <=> Holds(t, LockLabels[l])
      BY <3>1, HoldsSome
    <3> QED
      BY <3>2 DEF Locks, LockLabels, InExt, InMax, InXid
  <2> QED
    BY <2>1, <2>2, <2>3 DEF CachesTypeOK
<1> QED
  BY <1>1, CachesInvariant, PTL

\* An extension is asked about once (get_lazyreply), also when the table moves
\* or the connection breaks.
THEOREM ExtensionAskedOnce == Spec => []AskedOnce
<1>1. CacheInv => AskedOnce
  BY DEF CacheInv, ExtInv
<1> QED
  BY <1>1, CachesInvariant, PTL

\* As long as nobody has read a table that had moved, every caller of
\* xcb_get_extension_data on a good connection gets the one answer there is.
THEOREM CoherentUnlessMoved == Spec => [](CacheStaysPut => CacheCoherent)
<1>1. CacheInv => (CacheStaysPut => CacheCoherent)
  <2> SUFFICES ASSUME CacheInv, stale = {} PROVE CacheCoherent
    BY DEF CacheStaysPut
  <2>1. DOMAIN requests = 1 .. Len(requests)
    BY LenProperties DEF CacheInv, CacheTypes
  <2>2. AskedOnce
    BY DEF CacheInv, ExtInv
  <2>3. \A s \in seen : ~s.error =>
           s.reply # Null /\ requests[s.reply] = Req("query_extension", s.ext, 1)
    <3> SUFFICES ASSUME NEW s \in seen, ~s.error
                 PROVE  s.reply # 0 /\ requests[s.reply] = Req("query_extension", s.ext, 1)
      BY DEF Null
    <3>1. IsQuery(s.reply, s.ext)
      BY DEF CacheInv, RecordsRight
    <3> QED
      BY <3>1 DEF IsQuery
  <2> QED
    BY <2>1, <2>2, <2>3 DEF CacheCoherent, AskedOnce
<1> QED
  BY <1>1, CachesInvariant, PTL

\* The same for xcb_get_maximum_request_length, if memory for the table of
\* extensions was found: every call on a good connection returns what the
\* server takes.
THEOREM LengthIsTheServers ==
    Spec => [](CacheStaysPut /\ "nomem" \notin prog.faults => MaxLengthRight)
<1>1. CacheInv => (CacheStaysPut /\ "nomem" \notin prog.faults => MaxLengthRight)
  BY DEF CacheInv, RecordsRight, CacheStaysPut, Good, MaxLengthRight
<1> QED
  BY <1>1, CachesInvariant, PTL

\* xcb_send_request sends no request of an extension that the server lacks, and
\* of a longer one than the server takes only that which fills the limit before
\* its long length is put in, however the caches are filled, also when the
\* connection breaks or memory runs out.  The server's long limit is not below
\* its short one, as BIG-REQUESTS has it.
THEOREM AcceptedOnly ==
    ASSUME \A p \in Programs : p.big >= p.short
    PROVE  Spec => []SentAcceptedButFull
<1>1. CacheInv => SentAcceptedButFull
  <2> SUFFICES ASSUME CacheInv, NEW i \in 1 .. Len(requests), requests[i].kind = "send"
               PROVE  /\ \/ requests[i].len <= Limit
                         \/ requests[i].len = Limit + 1 /\ prog.short < Limit
                      /\ requests[i].ext \in prog.has \cup {NoExt}
    <3>1. CacheInv => DOMAIN requests = 1 .. Len(requests)
      BY LenProperties DEF CacheInv, CacheTypes
    <3> QED
      BY <3>1 DEF SentAcceptedButFull, Sent
  <2>1. requests[i] \in Request
    BY ElementOfSeq DEF CacheInv, CacheTypes
  <2>2. requests[i].len \in Nat
    BY <2>1 DEF Request
  <2>3. /\ Fits(requests[i].len, prog.short, Limit)
        /\ requests[i].ext \in prog.has \cup {NoExt}
    BY DEF CacheInv, RecordsRight
  <2>4. prog.short \in Nat /\ prog.big \in Nat /\ prog.big >= prog.short
    BY CachesAssumption DEF CacheInv, CacheTypes, Program
  <2>5. Limit \in Nat /\ prog.short <= Limit
    BY <2>4 DEF Limit
  <2> QED
    BY <2>2, <2>3, <2>4, <2>5 DEF Fits
<1> QED
  BY <1>1, CachesInvariant, PTL
-----------------------------------------------------------------------------
(* Resource ids                                                            *)

\* The bits of the mask are the lowest ones.
FromBitZero == \E k \in 1 .. WordBits : Bits(prog.mask) = 0 .. k - 1

\* The numbers from lo to hi stand for ids of the client, with or without its
\* base.
Stretch(lo, hi) ==
    /\ lo \in Nat /\ hi \in Nat /\ lo <= hi
    /\ hi <= prog.mask \/ (prog.base <= lo /\ hi <= prog.base + prog.mask)

InUse(x) == \E i \in 1 .. Len(live) : live[i] = x
Unused(lo, hi) == \A n \in lo .. hi : ~InUse(Id(n))

\* What an answer offers: nothing, or a stretch of ids.
RangeOK(r) ==
    r = NoRange \/ (r.start > 0 /\ r.count > 0 /\ Stretch(r.start, r.start + r.count - 1))

\* The range in the answer that thread t is about to read.
RangeFree(t) ==
    At(t, "wait_id") /\ val[t] \in 1 .. Len(answers) =>
        LET r == answers[val[t]].range
        IN  r = NoRange \/ Unused(r.start, r.start + r.count - 1)

IdsOwn ==
    \A i \in 1 .. Len(live) :
        Bits(prog.base) \subseteq live[i] /\ live[i] \subseteq Bits(prog.base) \cup Bits(prog.mask)

\* Of the range in c->xid, the ids after last are unused; so is the whole of a
\* range that is on its way, for nobody else generates ids meanwhile.
IdInv ==
    /\ inc = 1 /\ Stretch(last, max) /\ Unused(last + 1, max)
    /\ last = 0 /\ max = 0 => live = <<>>
    /\ live \in Seq(SUBSET (0 .. WordBits - 1)) /\ IdsOwn
    /\ \A i, j \in 1 .. Len(live) : live[i] = live[j] => i = j
    /\ failed = {}
    /\ \A i \in 1 .. Len(answers) : RangeOK(answers[i].range)
    /\ \A t \in Thread : RangeFree(t)

LEMMA IdBits ==
    ASSUME prog \in Programs, FromBitZero, NEW m \in 0 .. prog.mask
    PROVE  /\ prog.base + m \in 0 .. Word - 1 /\ Bits(m) \subseteq Bits(prog.mask)
           /\ Id(m) = Bits(prog.base + m) /\ Id(prog.base + m) = Bits(prog.base + m)
           /\ Bits(prog.base + m) = Bits(prog.base) \cup Bits(m)
<1>1. /\ prog.base \in 0 .. Word - 1 /\ prog.mask \in 1 .. Word - 1 /\ Word \in Nat
      /\ prog.base + prog.mask < Word /\ WordBits \in Nat
      /\ Bits(prog.mask) \cap Bits(prog.base) = {}
  BY SetupIds, CachesAssumption
<1>2. m \in 0 .. Word - 1 /\ prog.mask \in 0 .. Word - 1 /\ prog.base + m \in 0 .. Word - 1
  BY <1>1
<1>3. Bits(m) \subseteq Bits(prog.mask)
  <2>1. PICK k \in 1 .. WordBits : Bits(prog.mask) = 0 .. k - 1
    BY DEF FromBitZero
  <2>2. k \in 0 .. WordBits
    BY <1>1
  <2> QED
    BY <1>2, <2>1, <2>2, LowBits
<1>4. Bits(prog.base + m) = Bits(prog.base) \cup Bits(m)
  <2>1. Bits(prog.base) \cap Bits(m) = {}
    BY <1>1, <1>3
  <2> QED
    BY <1>1, <1>2, <2>1, AddBits
<1> QED
  BY <1>2, <1>3, <1>4 DEF Id

\* The numbers of a stretch stand for ids of the client, each for one of its own.
LEMMA StretchOwn ==
    ASSUME prog \in Programs, FromBitZero, NEW lo, NEW hi, Stretch(lo, hi), NEW n \in lo .. hi
    PROVE  /\ n \in 0 .. Word - 1 /\ Id(n) \in SUBSET (0 .. WordBits - 1)
           /\ Bits(prog.base) \subseteq Id(n)
           /\ Id(n) \subseteq Bits(prog.base) \cup Bits(prog.mask)
<1>1. /\ prog.base \in 0 .. Word - 1 /\ prog.mask \in 1 .. Word - 1 /\ Word \in Nat
      /\ prog.base + prog.mask < Word
  BY SetupIds
<1>2. PICK m \in 0 .. prog.mask : n = m \/ n = prog.base + m
  <2>1. lo \in Nat /\ hi \in Nat
    BY DEF Stretch
  <2>2. CASE hi <= prog.mask
    <3>1. n \in 0 .. prog.mask
      BY <1>1, <2>1, <2>2
    <3> QED
      BY <3>1
  <2>3. CASE prog.base <= lo /\ hi <= prog.base + prog.mask
    <3>1. n - prog.base \in 0 .. prog.mask /\ n = prog.base + (n - prog.base)
      BY <1>1, <2>1, <2>3
    <3> QED
      BY <3>1
  <2> QED
    BY <2>2, <2>3 DEF Stretch
<1>3. n \in 0 .. Word - 1
  BY <1>1, <1>2
<1>4. Id(n) = Bits(prog.base) \cup Bits(m) /\ Bits(m) \subseteq Bits(prog.mask)
  BY <1>2, IdBits
<1>5. Bits(prog.base) \subseteq 0 .. WordBits - 1 /\ Bits(m) \subseteq 0 .. WordBits - 1
  BY BitsByShifts
<1> QED
  BY <1>3, <1>4, <1>5

LEMMA StretchDiffer ==
    ASSUME prog \in Programs, FromBitZero, NEW lo, NEW hi, Stretch(lo, hi),
           NEW n \in lo .. hi, NEW m \in lo .. hi, Id(n) = Id(m)
    PROVE  n = m
<1>1. /\ prog.base \in 0 .. Word - 1 /\ prog.mask \in 1 .. Word - 1 /\ Word \in Nat
      /\ prog.base + prog.mask < Word
  BY SetupIds
<1>2. lo \in Nat /\ hi \in Nat
  BY DEF Stretch
<1>3. CASE hi <= prog.mask
  <2>1. n \in 0 .. prog.mask /\ m \in 0 .. prog.mask
    BY <1>1, <1>2, <1>3
  <2>2. Bits(prog.base + n) = Bits(prog.base + m)
    BY <2>1, IdBits
  <2>3. prog.base + n \in 0 .. Word - 1 /\ prog.base + m \in 0 .. Word - 1
    BY <2>1, IdBits
  <2>4. prog.base + n = prog.base + m
    BY <2>2, <2>3, BitsDiffer
  <2> QED
    BY <1>1, <2>1, <2>4
<1>4. CASE prog.base <= lo /\ hi <= prog.base + prog.mask
  <2>1. /\ n - prog.base \in 0 .. prog.mask /\ n = prog.base + (n - prog.base)
        /\ m - prog.base \in 0 .. prog.mask /\ m = prog.base + (m - prog.base)
    BY <1>1, <1>2, <1>4
  <2>2. Id(n) = Bits(n) /\ Id(m) = Bits(m) /\ n \in 0 .. Word - 1 /\ m \in 0 .. Word - 1
    BY <2>1, IdBits
  <2> QED
    BY <2>2, BitsDiffer
<1> QED
  BY <1>3, <1>4 DEF Stretch

LEMMA IncIsOne ==
    ASSUME prog \in Programs, FromBitZero
    PROVE  lowest_bit(prog.mask) = 1
<1>1. prog.mask \in 1 .. Word - 1 /\ WordBits \in Nat
  BY SetupIds, CachesAssumption
<1>2. PICK j \in Bits(prog.mask) :
         (\A i \in Bits(prog.mask) : j <= i) /\ lowest_bit(prog.mask) = pow2[j]
  BY <1>1, LowestBit
<1>3. PICK k \in 1 .. WordBits : Bits(prog.mask) = 0 .. k - 1
  BY DEF FromBitZero
<1>4. 0 \in Bits(prog.mask) /\ j \in Nat
  BY <1>1, <1>2, <1>3
<1>5. j = 0
  BY <1>2, <1>4
<1> QED
  BY <1>2, <1>5, PowersOfTwo DEF Powers

\* With inc 1 a range is exhausted at its last id.
LEMMA ExhaustedAtMax ==
    ASSUME CacheInv, inc = 1
    PROVE  exhausted <=> last >= max
<1>1. max \in 0 .. Word - 1 /\ Word \in Nat \ {0}
  BY WordIsNat DEF CacheInv, XidTypes
<1>2. (max - inc + 1) % Word = max
  BY <1>1
<1> QED
  BY <1>2 DEF exhausted

\* Who waits for a range holds xid.lock, and nobody else does.
LEMMA WaitingHolds ==
    ASSUME CacheInv, NEW t \in Thread, At(t, "wait_id")
    PROVE  lock["xid"] = t
<1>1. stack[t] \in Seq(Frame) /\ stack[t] # <<>> /\ stack[t][1].at = "wait_id"
  BY Running
<1>2. Some(stack[t], LockLabels["xid"])
  <2>1. 1 \in 1 .. Len(stack[t])
    BY <1>1, EmptySeq, LenProperties
  <2> QED
    BY <1>1, <2>1 DEF Some, LockLabels, InXid
<1>3. "xid" \in Locks
  BY DEF Locks
<1> QED
  BY <1>2, <1>3 DEF CacheInv, LockInv

\* Thread t comes to read a range only with no request or with one that has
\* not been answered, and the other threads stay where they are.
Quiet(t) ==
    /\ At(t, "wait_id")' => val'[t] = 0 \/ val'[t] > Len(answers)
    /\ \A u \in Thread \ {t} : stack'[u] = stack[u] /\ val'[u] = val[u]

LEMMA QuietGoto ==
    ASSUME CacheInv, NEW t \in Thread, NEW k, At(t, k), NEW l \in Label \ {"wait_id"},
           goto(t, l), val' = val
    PROVE  Quiet(t)
<1>1. stack \in [Thread -> Seq(Frame)] /\ stack[t] # <<>>
  BY Running
<1>2. Retop(stack[t], stack'[t], [stack[t][1] EXCEPT !.at = l]) /\ OnlyStack(t)
  BY <1>1, GotoShape
<1>3. stack[t][1] \in Frame
  BY <1>1, TopFrame
<1>4. stack'[t][1].at = l
  BY <1>2, <1>3 DEF Retop, Frame
<1>5. At(t, "wait_id")' => stack'[t][1].at = "wait_id"
  BY <1>2, TopFrame DEF At, Top, OnlyStack
<1> QED
  BY <1>2, <1>4, <1>5 DEF Quiet, OnlyStack

LEMMA QuietHold ==
    ASSUME CacheInv, NEW t \in Thread, NEW k, At(t, k), NEW l \in Label \ {"wait_id"},
           NEW d \in Nat \X Nat, hold(t, l, d), val' = val
    PROVE  Quiet(t)
<1>1. stack \in [Thread -> Seq(Frame)] /\ stack[t] # <<>>
  BY Running
<1>2. Retop(stack[t], stack'[t], [stack[t][1] EXCEPT !.at = l, !.data = d]) /\ OnlyStack(t)
  BY <1>1, HoldShape
<1>3. stack[t][1] \in Frame
  BY <1>1, TopFrame
<1>4. stack'[t][1].at = l
  BY <1>2, <1>3 DEF Retop, Frame
<1>5. At(t, "wait_id")' => stack'[t][1].at = "wait_id"
  BY <1>2, TopFrame DEF At, Top, OnlyStack
<1> QED
  BY <1>2, <1>4, <1>5 DEF Quiet, OnlyStack

LEMMA QuietInvoke ==
    ASSUME CacheInv, NEW t \in Thread, NEW k, At(t, k), NEW l \in Label,
           NEW f \in Frame, f.at # "wait_id", invoke(t, l, f), val' = val
    PROVE  Quiet(t)
<1>1. stack \in [Thread -> Seq(Frame)] /\ stack[t] # <<>>
  BY Running
<1>2. Pushed(stack[t], stack'[t], f, [stack[t][1] EXCEPT !.at = l]) /\ OnlyStack(t)
  BY <1>1, InvokeShape
<1>3. stack'[t][1] = f
  BY <1>2 DEF Pushed
<1>4. At(t, "wait_id")' => stack'[t][1].at = "wait_id"
  BY <1>2, TopFrame DEF At, Top, OnlyStack
<1> QED
  BY <1>2, <1>3, <1>4 DEF Quiet, OnlyStack

\* Only xcb_send_request returns to who waits for a range.
LEMMA QuietReturn ==
    ASSUME CacheInv, NEW t \in Thread, NEW k, At(t, k), NEW v \in Nat, return(t, v),
           k \notin Send \/ v = 0 \/ v > Len(answers)
    PROVE  Quiet(t)
<1>1. stack \in [Thread -> Seq(Frame)] /\ val \in [Thread -> Nat] /\ stack[t] # <<>>
      /\ stack[t][1].at = k
  BY Running
<1>2. /\ Popped(stack[t], stack'[t]) /\ OnlyStack(t) /\ val'[t] = v
      /\ \A u \in Thread \ {t} : val'[u] = val[u]
  BY <1>1, ReturnShape
<1>3. Chained(stack[t])
  BY DEF CacheInv, ThreadOK
<1>4. ASSUME At(t, "wait_id")' PROVE k \in Send
  <2>1. stack'[t] # <<>> /\ stack'[t][1].at = "wait_id"
    BY <1>2, <1>4, TopFrame DEF At, Top, OnlyStack
  <2>2. CalledBy(stack[t][1], stack'[t][1])
    BY <1>2, <1>3, <2>1, PoppedChained
  <2> QED
    BY <1>1, <2>1, <2>2 DEF CalledBy
<1> QED
  BY <1>2, <1>4 DEF Quiet, OnlyStack

LEMMA QuietEntered ==
    ASSUME CacheInv, NEW t \in Thread, NEW k, NEW l \in Label \ {"wait_id"}, Entered(t, k, l)
    PROVE  Quiet(t)
<1>1. At(t, k) /\ (return(t, 0) \/ (goto(t, l) /\ val' = val)) /\ 0 \in Nat
  BY DEF Entered, Null
<1> QED
  BY <1>1, QuietReturn, QuietGoto

LEMMA EnterQuiet ==
    ASSUME CacheInv, NEW t \in Thread, EnterStep(t)
    PROVE  Quiet(t)
<1>1. /\ {"force_ext", "lazy_ext", "lock_max", "next_id", "send_len", "send_out", "raw_out"}
           \subseteq Label \ {"wait_id"}
      /\ {"force_max", "send_ext", "send_long"} \subseteq Label /\ 0 \in Nat
  BY DEF Label
<1>2. CASE \/ get_ext(t) \/ prefetch_ext(t) \/ prefetch_max(t) \/ generate_id(t)
           \/ send_raw(t)
  BY <1>1, <1>2, QuietEntered DEF get_ext, prefetch_ext, prefetch_max, generate_id, send_raw
<1>3. CASE get_max(t)
  <2>1. At(t, "get_max")
    BY <1>3 DEF get_max
  <2> DEFINE f == Enter("prefetch_max", NoExt, 0)
  <2>2. f \in Frame /\ f.at # "wait_id"
    BY DEF Enter, Frame, Label
  <2>3. return(t, 0) \/ (invoke(t, "force_max", f) /\ val' = val)
    BY <1>3 DEF get_max
  <2> HIDE DEF f
  <2> QED
    BY <1>1, <2>1, <2>2, <2>3, QuietReturn, QuietInvoke
<1>4. CASE send(t)
  <2>1. At(t, "send")
    BY <1>4 DEF send
  <2> DEFINE f == Enter("get_ext", Top(t).ext, 0)
  <2>2. f \in Frame /\ f.at # "wait_id"
    <3>1. Top(t) \in Frame
      BY <2>1, Running
    <3>2. Top(t).ext \in Ext \cup {NoExt} /\ "get_ext" \in Label
      BY <3>1 DEF Frame, Label
    <3> QED
      BY <3>2 DEF Enter, Frame
  <2>3. \/ return(t, 0)
        \/ invoke(t, "send_ext", f) /\ val' = val
        \/ goto(t, "send_len") /\ val' = val
    BY <1>4 DEF send
  <2> HIDE DEF f
  <2> QED
    BY <1>1, <2>1, <2>2, <2>3, QuietReturn, QuietInvoke, QuietGoto
<1>5. CASE send_len(t)
  <2>1. At(t, "send_len")
    BY <1>5 DEF send_len
  <2> DEFINE f == Enter("get_max", NoExt, 0)
  <2>2. f \in Frame /\ f.at # "wait_id"
    BY DEF Enter, Frame, Label
  <2>3. (goto(t, "send_out") \/ invoke(t, "send_long", f)) /\ val' = val
    BY <1>5 DEF send_len
  <2> HIDE DEF f
  <2> QED
    BY <1>1, <2>1, <2>2, <2>3, QuietInvoke, QuietGoto
<1> QED
  BY <1>2, <1>3, <1>4, <1>5 DEF EnterStep

LEMMA ExtQuiet ==
    ASSUME CacheInv, CacheInv', NEW t \in Thread, ExtStep(t)
    PROVE  Quiet(t)
<1>1. {"wait_ext", "read_ext"} \subseteq Label \ {"wait_id"} /\ 0 \in Nat
  BY DEF Label
<1>2. CASE lazy_ext(t)
  BY <1>1, <1>2, QuietReturn DEF lazy_ext, Null
<1>3. CASE force_ext(t)
  <2> DEFINE idx == global_id'[Top(t).ext]
  <2>1. At(t, "force_ext") /\ val' = val
        /\ (hold(t, "wait_ext", <<home', idx>>) \/ hold(t, "read_ext", <<home', idx>>))
    BY <1>3 DEF force_ext
  <2>2. <<home', idx>> \in Nat \X Nat
    <3>1. Top(t) \in Frame /\ Top(t).at = "force_ext" /\ FrameOK(Top(t))
      BY <2>1, Running
    <3>2. Top(t).ext \in Ext
      BY <3>1 DEF FrameOK, GetExt
    <3>3. home' \in Nat /\ global_id' \in [Ext -> Nat]
      BY DEF CacheInv, CacheTypes
    <3> QED
      BY <3>2, <3>3
  <2> HIDE DEF idx
  <2> QED
    BY <1>1, <2>1, <2>2, QuietHold
<1>4. CASE ext_nomem(t)
  <2>1. return(t, 0) /\ (At(t, "lazy_ext") \/ At(t, "force_ext"))
    BY <1>4 DEF ext_nomem, Null
  <2> QED
    BY <1>1, <2>1, QuietReturn
<1>5. CASE wait_ext(t)
  BY <1>1, <1>5, QuietGoto DEF wait_ext
<1>6. CASE read_ext(t)
  <2>1. PICK v : At(t, "read_ext") /\ return(t, v)
    BY <1>6 DEF read_ext
  <2>2. stack[t] \in Seq(Frame) /\ val \in [Thread -> Nat] /\ val' \in [Thread -> Nat]
    BY DEF CacheInv, CacheTypes
  <2>3. v \in Nat
    <3>1. val'[t] = v
      BY <2>1, <2>2 DEF return
    <3> QED
      BY <2>2, <3>1
  <2>4. "read_ext" \notin Send
    BY DEF Send
  <2> QED
    BY <2>1, <2>3, <2>4, QuietReturn
<1> QED
  BY <1>2, <1>3, <1>4, <1>5, <1>6 DEF ExtStep

LEMMA MaxQuiet ==
    ASSUME CacheInv, NEW t \in Thread, MaxStep(t)
    PROVE  Quiet(t)
<1>1. /\ {"enable_max", "enabled_max", "wait_max", "read_max"} \subseteq Label \ {"wait_id"}
      /\ 0 \in Nat
  BY DEF Label
<1>2. CASE lock_max(t)
  <2> DEFINE f == Enter("get_ext", big_requests, 0)
  <2>1. f \in Frame /\ f.at # "wait_id"
    BY DEF Enter, Frame, Label, Ext
  <2>2. /\ At(t, "lock_max")
        /\ return(t, 0) \/ (invoke(t, "enable_max", f) /\ val' = val)
    BY <1>2 DEF lock_max, Null
  <2> HIDE DEF f
  <2> QED
    BY <1>1, <2>1, <2>2, QuietReturn, QuietInvoke
<1>3. CASE enable_max(t)
  <2> DEFINE f == Enter("send", big_requests, 1)
  <2>1. f \in Frame /\ f.at # "wait_id"
    BY DEF Enter, Frame, Label, Ext
  <2>2. /\ At(t, "enable_max")
        /\ return(t, 0) \/ (invoke(t, "enabled_max", f) /\ val' = val)
    BY <1>3 DEF enable_max, Null
  <2> HIDE DEF f
  <2> QED
    BY <1>1, <2>1, <2>2, QuietReturn, QuietInvoke
<1>4. CASE enabled_max(t)
  BY <1>1, <1>4, QuietReturn DEF enabled_max, Null
<1>5. CASE force_max(t)
  BY <1>1, <1>5, QuietGoto DEF force_max
<1>6. CASE wait_max(t)
  BY <1>1, <1>6, QuietGoto DEF wait_max
<1>7. CASE read_max(t)
  <2>1. At(t, "read_max") /\ return(t, maxlen.value) /\ "read_max" \notin Send
    BY <1>7 DEF read_max, Send
  <2>2. maxlen.value \in Nat
    BY DEF CacheInv, CacheTypes, Lazy
  <2> QED
    BY <2>1, <2>2, QuietReturn
<1> QED
  BY <1>2, <1>3, <1>4, <1>5, <1>6, <1>7 DEF MaxStep

LEMMA SendQuiet ==
    ASSUME CacheInv, NEW t \in Thread, SendStep(t)
    PROVE  Quiet(t)
<1>1. {"send_len", "send_out"} \subseteq Label \ {"wait_id"} /\ 0 \in Nat
  BY DEF Label
<1>2. CASE send_ext(t)
  <2>1. At(t, "send_ext") /\ (return(t, 0) \/ (goto(t, "send_len") /\ val' = val))
    BY <1>2 DEF send_ext, refused
  <2> QED
    BY <1>1, <2>1, QuietReturn, QuietGoto
<1>3. CASE send_long(t)
  <2>1. At(t, "send_long") /\ (return(t, 0) \/ (goto(t, "send_out") /\ val' = val))
    BY <1>3 DEF send_long, refused
  <2> QED
    BY <1>1, <2>1, QuietReturn, QuietGoto
<1>4. CASE send_out(t)
  <2>1. PICK l, q : At(t, l) /\ requests' = Append(requests, q) /\ return(t, Len(requests'))
    BY <1>4 DEF send_out
  <2>2. /\ requests \in Seq(Request) /\ Len(answers) <= Len(requests)
        /\ Len(answers) \in Nat /\ Len(requests) \in Nat
    BY LenProperties DEF CacheInv, CacheTypes
  <2>3. Len(requests') = Len(requests) + 1
    BY <2>1, <2>2
  <2>4. Len(requests') \in Nat /\ Len(requests') > Len(answers)
    BY <2>2, <2>3
  <2> QED
    BY <2>1, <2>4, QuietReturn
<1> QED
  BY <1>2, <1>3, <1>4 DEF SendStep

\* The ids in use are those before or fewer.
Fewer ==
    /\ live' \in Seq(SUBSET (0 .. WordBits - 1))
    /\ \E f : /\ \A i \in 1 .. Len(live') : f[i] \in 1 .. Len(live) /\ live'[i] = live[f[i]]
              /\ \A i, j \in 1 .. Len(live') : f[i] = f[j] => i = j

LEMMA SameFewer ==
    ASSUME IdInv, live' = live
    PROVE  Fewer
<1> DEFINE f == [i \in 1 .. Len(live) |-> i]
<1>1. \A i \in 1 .. Len(live) : f[i] = i
  OBVIOUS
<1> HIDE DEF f
<1> QED
  BY <1>1 DEF Fewer, IdInv

LEMMA FreedFewer ==
    ASSUME IdInv, live' \in Freed(live)
    PROVE  Fewer
<1> DEFINE S == SUBSET (0 .. WordBits - 1)
<1>1. live \in Seq(S) /\ Len(live) \in Nat /\ DOMAIN live = 1 .. Len(live)
      /\ \A i \in 1 .. Len(live) : live[i] \in S
  BY LenProperties, ElementOfSeq DEF IdInv
<1>2. CASE live' = live
  BY <1>2, SameFewer
<1>3. CASE live' # live
  <2>1. PICK k \in 1 .. Len(live) :
           live' = SubSeq(live, 1, k - 1) \o SubSeq(live, k + 1, Len(live))
    BY <1>1, <1>3 DEF Freed
  <2> DEFINE a == SubSeq(live, 1, k - 1)
             b == SubSeq(live, k + 1, Len(live))
             n == Len(live)
  <2>2. /\ a \in Seq(S) /\ Len(a) = k - 1
        /\ \A i \in 1 .. k - 1 : a[i] = live[i]
    <3>1. \A i \in 1 .. k - 1 : live[i] \in S
      BY <1>1
    <3>2. /\ a \in Seq(S) /\ Len(a) = IF 1 <= k - 1 THEN (k - 1) - 1 + 1 ELSE 0
          /\ \A i \in 1 .. (k - 1) - 1 + 1 : a[i] = live[1 + i - 1]
      BY <3>1, <1>1, SubSeqProperties
    <3> QED
      BY <3>2
  <2>3. /\ b \in Seq(S) /\ Len(b) = n - k
        /\ \A i \in 1 .. n - k : b[i] = live[k + i]
    <3>1. \A i \in k + 1 .. n : live[i] \in S
      BY <1>1
    <3>2. /\ b \in Seq(S) /\ Len(b) = IF k + 1 <= n THEN n - (k + 1) + 1 ELSE 0
          /\ \A i \in 1 .. n - (k + 1) + 1 : b[i] = live[(k + 1) + i - 1]
      BY <3>1, <1>1, SubSeqProperties
    <3>3. n - (k + 1) + 1 = n - k /\ (k + 1 <= n \/ n - k = 0)
      <4>1. n \in Nat /\ k \in 1 .. n
        BY <1>1
      <4> HIDE DEF n
      <4> QED
        BY <4>1
    <3>4. ASSUME NEW i \in 1 .. n - k PROVE (k + 1) + i - 1 = k + i
      BY <1>1
    <3> QED
      BY <3>2, <3>3, <3>4
  <2> HIDE DEF a, b
  <2>4. /\ live' \in Seq(S) /\ Len(live') = Len(a) + Len(b)
        /\ \A i \in 1 .. Len(a) + Len(b) :
             live'[i] = IF i <= Len(a) THEN a[i] ELSE b[i - Len(a)]
    <3>1. live' = a \o b
      BY <2>1 DEF a, b
    <3> QED
      BY <3>1, <2>2, <2>3, ConcatProperties
  <2>5. Len(live') = n - 1
    BY <2>2, <2>3, <2>4, <1>1
  <2> DEFINE f == [i \in 1 .. n - 1 |-> IF i < k THEN i ELSE i + 1]
  <2>6. \A i \in 1 .. n - 1 : live'[i] = live[f[i]] /\ f[i] \in 1 .. n
    <3> TAKE i \in 1 .. n - 1
    <3>1. live'[i] = IF i <= k - 1 THEN a[i] ELSE b[i - (k - 1)]
      BY <1>1, <2>2, <2>3, <2>4
    <3>2. CASE i < k
      BY <3>1, <3>2, <2>2, <1>1
    <3>3. CASE ~(i < k)
      <4>1. i - (k - 1) \in 1 .. n - k /\ k + (i - (k - 1)) = i + 1 /\ ~(i <= k - 1)
        BY <3>3, <1>1
      <4>2. live'[i] = live[i + 1]
        BY <3>1, <4>1, <2>3
      <4> QED
        BY <3>3, <4>2, <1>1
    <3> QED
      BY <3>2, <3>3
  <2>7. \A i, j \in 1 .. n - 1 : f[i] = f[j] => i = j
    BY <1>1
  <2> HIDE DEF f
  <2>8. \A i \in 1 .. Len(live') : f[i] \in 1 .. Len(live) /\ live'[i] = live[f[i]]
    BY <2>5, <2>6
  <2>9. \A i, j \in 1 .. Len(live') : f[i] = f[j] => i = j
    BY <2>5, <2>7
  <2> HIDE DEF n
  <2> QED
    BY <2>4, <2>8, <2>9 DEF Fewer
<1> QED
  BY <1>2, <1>3

\* A step that takes no id and gets no range.
LEMMA IdsKept ==
    ASSUME CacheInv, IdInv, UNCHANGED <<prog, inc, last, max, failed, answers>>, Fewer,
           \A t \in Thread : At(t, "wait_id")' =>
              \/ val'[t] \notin 1 .. Len(answers)
              \/ At(t, "wait_id") /\ val'[t] = val[t]
    PROVE  IdInv'
<1>1. PICK f : /\ \A i \in 1 .. Len(live') : f[i] \in 1 .. Len(live) /\ live'[i] = live[f[i]]
               /\ \A i, j \in 1 .. Len(live') : f[i] = f[j] => i = j
  BY DEF Fewer
<1>2. live' \in Seq(SUBSET (0 .. WordBits - 1)) /\ live \in Seq(SUBSET (0 .. WordBits - 1))
  BY DEF Fewer, IdInv
<1>3. Len(live) \in Nat /\ Len(live') \in Nat
  BY <1>2, LenProperties
<1>4. \A n : Id(n)' = Id(n)
  BY DEF Id
<1>5. \A x : InUse(x)' => InUse(x)
  BY <1>1 DEF InUse
<1>6. \A lo, hi : Unused(lo, hi) => Unused(lo, hi)'
  BY <1>4, <1>5 DEF Unused
<1>7. inc' = 1 /\ Stretch(last, max)' /\ Unused(last + 1, max)'
  BY <1>6 DEF IdInv, Stretch
<1>8. last' = 0 /\ max' = 0 => live' = <<>>
  <2> SUFFICES ASSUME last = 0, max = 0 PROVE live' = <<>>
    OBVIOUS
  <2>1. Len(live) = 0
    BY EmptySeq DEF IdInv
  <2>2. Len(live') = 0
    <3>1. ~(1 \in 1 .. Len(live'))
      BY <1>1, <2>1
    <3> QED
      BY <1>3, <3>1
  <2> QED
    BY <1>2, <2>2, EmptySeq
<1>9. IdsOwn'
  BY <1>1 DEF IdInv, IdsOwn
<1>10. \A i, j \in 1 .. Len(live') : live'[i] = live'[j] => i = j
  BY <1>1 DEF IdInv
<1>11. failed' = {} /\ \A i \in 1 .. Len(answers') : RangeOK(answers[i].range)'
  BY DEF IdInv, RangeOK, Stretch, NoRange
<1>12. ASSUME NEW t \in Thread PROVE RangeFree(t)'
  <2> SUFFICES ASSUME At(t, "wait_id")', val'[t] \in 1 .. Len(answers),
                      NEW r, r = answers[val'[t]].range, r # NoRange
               PROVE  Unused(r.start, r.start + r.count - 1)'
    BY DEF RangeFree, NoRange
  <2>1. At(t, "wait_id") /\ val'[t] = val[t]
    OBVIOUS
  <2>2. Unused(r.start, r.start + r.count - 1)
    BY <2>1 DEF IdInv, RangeFree
  <2> QED
    BY <2>2, <1>6
<1> QED
  BY <1>2, <1>7, <1>8, <1>9, <1>10, <1>11, <1>12 DEF IdInv

LEMMA QuietIds ==
    ASSUME CacheInv, IdInv, NEW t \in Thread, Quiet(t),
           UNCHANGED <<prog, inc, last, max, failed, answers, live>>
    PROVE  IdInv'
<1>1. Fewer
  BY SameFewer
<1>2. ASSUME NEW u \in Thread, At(u, "wait_id")'
      PROVE  \/ val'[u] \notin 1 .. Len(answers)
             \/ At(u, "wait_id") /\ val'[u] = val[u]
  <2>1. CASE u = t
    <3>1. Len(answers) \in Nat
      BY LenProperties DEF CacheInv, CacheTypes
    <3>2. val'[t] = 0 \/ val'[t] > Len(answers)
      BY <1>2, <2>1 DEF Quiet
    <3> QED
      BY <2>1, <3>1, <3>2
  <2>2. CASE u # t
    BY <1>2, <2>2 DEF Quiet, At, Top
  <2> QED
    BY <2>1, <2>2
<1> QED
  BY <1>1, <1>2, IdsKept

LEMMA CallIds ==
    ASSUME CacheInv, IdInv, NEW t \in Thread, call(t), UNCHANGED <<prog, inc, answers>>
    PROVE  IdInv'
<1>1. /\ UNCHANGED <<val, last, max, failed>> /\ stack[t] = <<>>
      /\ \/ live' \in Freed(live) /\ stack' = stack
         \/ live' = live
  BY DEF call, ghosts
<1>2. Fewer
  BY <1>1, SameFewer, FreedFewer
<1>3. ASSUME NEW u \in Thread, At(u, "wait_id")' PROVE At(u, "wait_id")
  <2>1. CASE stack' = stack
    BY <1>3, <2>1 DEF At, Top
  <2>2. CASE stack' # stack
    <3>1. PICK c : /\ c.op # "wait_id"
                   /\ stack' = [stack EXCEPT ![t] = <<Enter(c.op, c.ext, c.len)>>]
      <4>1. script \in [Thread -> Seq(Call)] /\ script[t] # <<>>
        BY DEF CacheInv, CacheTypes, call
      <4>2. Head(script[t]) \in Call
        BY <4>1, HeadTailProperties
      <4>3. Head(script[t]).op # "wait_id"
        BY <4>2 DEF Call
      <4> QED
        BY <2>2, <4>3 DEF call
    <3>2. stack \in [Thread -> Seq(Frame)]
      BY DEF CacheInv, CacheTypes
    <3>3. CASE u = t
      <4>1. stack'[t] = <<Enter(c.op, c.ext, c.len)>>
        BY <3>1, <3>2
      <4>2. Head(stack'[t]).at = c.op
        BY <4>1 DEF Enter
      <4> QED
        BY <1>3, <3>1, <3>3, <4>2 DEF At, Top
    <3>4. CASE u # t
      <4>1. stack'[u] = stack[u]
        BY <3>1, <3>2, <3>4
      <4> QED
        BY <1>3, <4>1 DEF At, Top
    <3> QED
      BY <3>3, <3>4
  <2> QED
    BY <2>1, <2>2
<1> QED
  BY <1>1, <1>2, <1>3, IdsKept

\* A step that takes an id: nobody waits for a range.
LEMMA IdTaken ==
    ASSUME CacheInv, CacheInv', FromBitZero, IdInv,
           UNCHANGED <<prog, inc, failed, answers>>, lock'["xid"] = NoThread,
           NEW n, last' = n, live' = Append(live, Id(n)), Stretch(n, max'), ~InUse(Id(n)),
           Unused(n + 1, max'), ~(n = 0 /\ max' = 0)
    PROVE  IdInv'
<1>1. prog \in Programs
  BY DEF CacheInv, CacheTypes
<1>2. n \in Nat /\ max' \in Nat /\ n <= max' /\ n \in n .. max'
  BY DEF Stretch
<1>3. /\ Id(n) \in SUBSET (0 .. WordBits - 1) /\ Bits(prog.base) \subseteq Id(n)
      /\ Id(n) \subseteq Bits(prog.base) \cup Bits(prog.mask)
  BY <1>1, <1>2, StretchOwn
<1>4. live \in Seq(SUBSET (0 .. WordBits - 1)) /\ Len(live) \in Nat
  BY LenProperties DEF IdInv
<1>5. /\ live' \in Seq(SUBSET (0 .. WordBits - 1)) /\ Len(live') = Len(live) + 1
      /\ live'[Len(live) + 1] = Id(n)
      /\ \A i \in 1 .. Len(live) : live'[i] = live[i]
  BY <1>3, <1>4
<1>6. \A i \in 1 .. Len(live') : i \in 1 .. Len(live) \/ i = Len(live) + 1
  BY <1>4, <1>5
<1>7. \A x : InUse(x)' => InUse(x) \/ x = Id(n)
  BY <1>5, <1>6 DEF InUse
<1>8. Unused(last + 1, max)'
  <2> SUFFICES ASSUME NEW m \in n + 1 .. max', InUse(Id(m))' PROVE FALSE
    BY DEF Unused
  <2>1. Id(m)' = Id(m)
    BY DEF Id
  <2>2. ~InUse(Id(m))
    BY DEF Unused
  <2>3. Id(m) = Id(n)
    BY <1>7, <2>1, <2>2
  <2>4. m \in n .. max' /\ m # n
    BY <1>2
  <2> QED
    BY <1>1, <1>2, <2>3, <2>4, StretchDiffer
<1>9. Stretch(last, max)'
  BY DEF Stretch
<1>10. IdsOwn'
  BY <1>3, <1>5, <1>6 DEF IdInv, IdsOwn
<1>11. \A i, j \in 1 .. Len(live') : live'[i] = live'[j] => i = j
  <2>1. \A i \in 1 .. Len(live) : live[i] # Id(n)
    BY DEF InUse
  <2> QED
    BY <1>5, <1>6, <2>1 DEF IdInv
<1>12. failed' = {} /\ \A i \in 1 .. Len(answers') : RangeOK(answers[i].range)'
  BY DEF IdInv, RangeOK, Stretch, NoRange
<1>13. ASSUME NEW t \in Thread PROVE RangeFree(t)'
  <2>1. ~At(t, "wait_id")'
    <3> SUFFICES ASSUME At(t, "wait_id")' PROVE FALSE
      OBVIOUS
    <3>1. stack'[t] \in Seq(Frame) /\ stack'[t] # <<>> /\ Head(stack'[t]).at = "wait_id"
      BY DEF CacheInv, CacheTypes, At, Top
    <3>2. 1 \in 1 .. Len(stack'[t]) /\ Head(stack'[t]) = stack'[t][1]
      BY <3>1, TopFrame
    <3>3. Some(stack'[t], LockLabels["xid"])
      BY <3>1, <3>2 DEF Some, LockLabels, InXid
    <3>4. "xid" \in Locks
      BY DEF Locks
    <3>5. lock'["xid"] = t
      BY <3>3, <3>4 DEF CacheInv, LockInv
    <3> QED
      BY <3>5, CachesAssumption
  <2> QED
    BY <2>1 DEF RangeFree
<1>14. inc' = 1 /\ ~(last' = 0 /\ max' = 0)
  BY DEF IdInv
<1> QED
  BY <1>5, <1>8, <1>9, <1>10, <1>11, <1>12, <1>13, <1>14 DEF IdInv

LEMMA NextIdIds ==
    ASSUME CacheInv, CacheInv', FromBitZero, IdInv, NEW t \in Thread, next_id(t), XidStep(t),
           UNCHANGED <<prog, inc, answers>>
    PROVE  IdInv'
<1>1. /\ At(t, "next_id") /\ lock["xid"] = NoThread /\ 0 \in Nat
      /\ prog \in Programs /\ inc = 1 /\ Stretch(last, max) /\ Unused(last + 1, max)
  BY DEF next_id, Free, CacheInv, CacheTypes, IdInv
<1>2. /\ last \in Nat /\ max \in Nat /\ last <= max /\ last \in 0 .. Word - 1
      /\ max \in 0 .. Word - 1 /\ Word \in Nat \ {0}
  BY <1>1, WordIsNat DEF Stretch, CacheInv, XidTypes
<1>3. exhausted <=> last = max
  BY <1>1, <1>2, ExhaustedAtMax
<1>4. failed' = failed
  BY <1>3 DEF next_id
<1>5. CASE /\ exhausted /\ last = 0 /\ max' = prog.mask /\ live' = Append(live, Id(last))
           /\ UNCHANGED <<last, lock>>
  <2>1. last = 0 /\ max = 0 /\ live = <<>>
    BY <1>3, <1>5 DEF IdInv
  <2>2. Stretch(0, max')
    BY <1>1, <1>5, SetupIds DEF Stretch
  <2>3. \A x : ~InUse(x)
    BY <2>1, EmptySeq DEF InUse
  <2>4. ~InUse(Id(0)) /\ Unused(0 + 1, max')
    BY <2>3 DEF Unused
  <2>5. ~(0 = 0 /\ max' = 0)
    BY <1>1, <1>5, SetupIds
  <2> QED
    BY <1>1, <1>4, <1>5, <2>1, <2>2, <2>4, <2>5, IdTaken
<1>6. CASE /\ invoke(t, "range_id", Enter("get_ext", xc_misc, 0))
           /\ UNCHANGED <<xidvars, val>>
  <2> DEFINE f == Enter("get_ext", xc_misc, 0)
  <2>1. f \in Frame /\ f.at # "wait_id" /\ "range_id" \in Label
    BY DEF Enter, Frame, Label, Ext
  <2>2. invoke(t, "range_id", f) /\ val' = val /\ UNCHANGED <<last, max, live>>
    BY <1>6 DEF xidvars
  <2> HIDE DEF f
  <2>3. Quiet(t)
    BY <1>1, <2>1, <2>2, QuietInvoke
  <2> QED
    BY <1>4, <2>2, <2>3, QuietIds
<1>7. CASE /\ ~exhausted /\ last' = (last + inc) % Word /\ live' = Append(live, Id(last'))
           /\ UNCHANGED <<max, lock>>
  <2> DEFINE n == last + 1
  <2>1. n \in Nat /\ n <= max /\ last' = n /\ n # 0
    BY <1>1, <1>2, <1>3, <1>7
  <2>2. Stretch(n, max)
    <3>1. prog.base \in 0 .. Word - 1
      BY <1>1, SetupIds
    <3> QED
      BY <1>1, <1>2, <2>1, <3>1 DEF Stretch
  <2>3. ~InUse(Id(n)) /\ Unused(n + 1, max)
    BY <1>1, <1>2, <2>1 DEF Unused
  <2>4. live' = Append(live, Id(n))
    BY <1>7, <2>1
  <2> HIDE DEF n
  <2> QED
    BY <1>1, <1>4, <1>7, <2>1, <2>2, <2>3, <2>4, IdTaken
<1> QED
  BY <1>5, <1>6, <1>7 DEF next_id

LEMMA RangeIdIds ==
    ASSUME CacheInv, CacheInv', IdInv, NEW t \in Thread, range_id(t), XidStep(t),
           UNCHANGED <<prog, inc, answers>>
    PROVE  IdInv'
<1> DEFINE f == Enter("send", xc_misc, 1)
<1>1. f \in Frame /\ f.at # "wait_id" /\ "wait_id" \in Label /\ 0 \in Nat
  BY DEF Enter, Frame, Label, Ext
<1>2. /\ At(t, "range_id") /\ UNCHANGED <<last, max, live, failed>>
      /\ return(t, 0) \/ (invoke(t, "wait_id", f) /\ val' = val)
  BY DEF range_id, no_id, xidvars, Null
<1> HIDE DEF f
<1>3. Quiet(t)
  BY <1>1, <1>2, QuietReturn, QuietInvoke
<1> QED
  BY <1>2, <1>3, QuietIds

LEMMA WaitIdIds ==
    ASSUME CacheInv, CacheInv', FromBitZero, IdInv, NEW t \in Thread, wait_id(t), XidStep(t),
           UNCHANGED <<prog, inc, answers>>
    PROVE  IdInv'
<1>1. At(t, "wait_id") /\ return(t, 0) /\ Release("xid") /\ 0 \in Nat
  BY DEF wait_id, Null
<1>2. lock'["xid"] = NoThread
  <2>1. lock \in [Locks -> Thread \cup {NoThread}] /\ "xid" \in Locks
    BY DEF CacheInv, LockInv, Locks
  <2> QED
    BY <1>1, <2>1 DEF Release
<1>3. PICK r \in Replies(val[t]) :
         LET range == IF r = Null THEN NoRange ELSE answers[r].range
         IN  \/ UNCHANGED <<xidvars, failed>>
             \/ /\ range # NoRange
                /\ last' = range.start
                /\ max' = (range.start + (range.count - 1) * inc) % Word
                /\ live' = Append(live, Id(last'))
                /\ failed' = IF range.count > 0 /\ range.start > 0 THEN failed
                             ELSE failed \cup {"range"}
  BY DEF wait_id
<1>4. CASE UNCHANGED <<xidvars, failed>>
  <2>1. Quiet(t)
    BY <1>1, QuietReturn
  <2> QED
    BY <1>4, <2>1, QuietIds DEF xidvars
<1>5. CASE ~UNCHANGED <<xidvars, failed>>
  <2> DEFINE range == answers[r].range
             n == range.start
             hi == range.start + range.count - 1
  <2>1. r # Null /\ range # NoRange
    BY <1>3, <1>5
  <2>2. r = val[t] /\ r \in 1 .. Len(answers)
    BY <2>1 DEF Replies
  <2>3. RangeOK(range) /\ RangeFree(t)
    BY <2>2 DEF IdInv
  <2>4. n > 0 /\ range.count > 0 /\ Stretch(n, hi)
    BY <2>1, <2>3 DEF RangeOK
  <2>5. Unused(n, hi)
    BY <1>1, <2>1, <2>2, <2>3 DEF RangeFree
  <2>6. /\ last' = n /\ max' = (n + (range.count - 1) * inc) % Word
        /\ live' = Append(live, Id(n))
        /\ failed' = failed
    BY <1>3, <1>5, <2>1, <2>4
  <2>7. prog \in Programs /\ inc = 1 /\ Word \in Nat \ {0}
    BY WordIsNat DEF CacheInv, CacheTypes, IdInv
  <2>8. n \in Nat /\ hi \in Nat /\ n <= hi
    BY <2>4 DEF Stretch
  <2>9. range.count \in Nat
    <3>1. answers[r] \in [present : BOOLEAN, length : Nat, range : IdRange]
      BY <2>2, ElementOfSeq DEF CacheInv, CacheTypes
    <3> QED
      BY <3>1 DEF IdRange
  <2>10. hi \in 0 .. Word - 1
    <3>1. hi \in n .. hi
      BY <2>8
    <3> QED
      BY <2>4, <2>7, <3>1, StretchOwn
  <2>11. max' = hi
    <3>1. n + (range.count - 1) * inc = hi
      BY <2>7, <2>8, <2>9
    <3>2. max' = hi % Word
      BY <2>6, <3>1
    <3> HIDE DEF hi
    <3>3. hi % Word = hi
      BY <2>7, <2>10
    <3> QED
      BY <3>2, <3>3
  <2>12. ~InUse(Id(n)) /\ Unused(n + 1, hi) /\ ~(n = 0 /\ hi = 0)
    <3>1. n \in n .. hi /\ \A m \in n + 1 .. hi : m \in n .. hi
      BY <2>8
    <3> QED
      BY <3>1, <2>4, <2>5, <2>8 DEF Unused
  <2> HIDE DEF n, hi, range
  <2> QED
    BY <1>2, <2>4, <2>6, <2>11, <2>12, IdTaken
<1> QED
  BY <1>4, <1>5

\* The server offers stretches of ids that are not in use.
LEMMA OffersUnused ==
    ASSUME CacheInv, FromBitZero, IdInv, NEW r \in Offers
    PROVE  RangeOK(r) /\ Unused(r.start, r.start + r.count - 1)
<1>1. /\ prog.base \in 0 .. Word - 1 /\ prog.mask \in 1 .. Word - 1 /\ Word \in Nat
      /\ prog.base + prog.mask < Word /\ inc = 1
  BY SetupIds DEF CacheInv, CacheTypes, IdInv
<1>2. DOMAIN live = 1 .. Len(live)
  BY LenProperties DEF IdInv
<1> DEFINE own == {prog.base + n : n \in {m \in 0 .. prog.mask : Bits(m) \subseteq Bits(prog.mask)}}
<1>3. /\ r.start \in own \ {0} /\ r.count \in 1 .. prog.mask + 1
      /\ \A i \in 0 .. r.count - 1 :
            r.start + i * inc \in own /\ ~InUse(Id(r.start + i * inc))
  BY <1>2 DEF Offers, InUse
<1>4. \A x \in own : x \in Nat /\ prog.base <= x /\ x <= prog.base + prog.mask
  BY <1>1
<1> HIDE DEF own
<1>5. r.start \in Nat /\ r.count \in Nat /\ r.count > 0 /\ r.start > 0 /\ prog.base <= r.start
  BY <1>1, <1>3, <1>4
<1>6. \A i \in 0 .. r.count - 1 : r.start + i * inc = r.start + i
  BY <1>1, <1>5
<1>7. \A i \in 0 .. r.count - 1 : r.start + i \in own /\ ~InUse(Id(r.start + i))
  BY <1>3, <1>6
<1>8. r.start + (r.count - 1) \in own /\ r.start + (r.count - 1) = r.start + r.count - 1
  BY <1>5, <1>7
<1>9. Stretch(r.start, r.start + r.count - 1)
  BY <1>1, <1>4, <1>5, <1>8 DEF Stretch
<1>10. Unused(r.start, r.start + r.count - 1)
  <2> SUFFICES ASSUME NEW n \in r.start .. r.start + r.count - 1 PROVE ~InUse(Id(n))
    BY DEF Unused
  <2>1. n - r.start \in 0 .. r.count - 1 /\ r.start + (n - r.start) = n
    BY <1>5
  <2> QED
    BY <1>7, <2>1
<1> QED
  BY <1>5, <1>9, <1>10 DEF RangeOK

LEMMA ServeIds ==
    ASSUME CacheInv, FromBitZero, IdInv, serve
    PROVE  IdInv'
<1>1. UNCHANGED <<prog, inc, stack, val, last, max, live, failed>>
  BY DEF serve, xidvars, ghosts
<1>2. PICK q : q = requests[Len(answers) + 1]
  OBVIOUS
<1>a. PICK r \in IdRange : /\ answers' = Append(answers, Answer(q.ext \in prog.has, prog.big, r))
                           /\ r = NoRange \/ r \in Offers
  BY <1>2, OffersTyped DEF serve
<1>3. RangeOK(r) /\ (r = NoRange \/ Unused(r.start, r.start + r.count - 1))
  BY <1>a, OffersUnused DEF RangeOK
<1>4. /\ Len(answers) \in Nat /\ prog.big \in Nat
      /\ answers \in Seq([present : BOOLEAN, length : Nat, range : IdRange])
  BY CachesAssumption, LenProperties DEF CacheInv, CacheTypes, Program
<1>b. PICK b \in BOOLEAN : b = (q.ext \in prog.has)
  <2>1. (q.ext \in prog.has) \in BOOLEAN
    OBVIOUS
  <2>2. (q.ext \in prog.has) = (q.ext \in prog.has)
    OBVIOUS
  <2> WITNESS (q.ext \in prog.has) \in BOOLEAN
  <2> QED
    BY <2>2
<1>c. PICK a : a = Answer(b, prog.big, r)
  OBVIOUS
<1>d. a \in [present : BOOLEAN, length : Nat, range : IdRange] /\ a.range = r
  BY <1>4, <1>c DEF Answer
<1>5. /\ Len(answers') = Len(answers) + 1
      /\ answers'[Len(answers) + 1] = a
      /\ \A i \in 1 .. Len(answers) : answers'[i] = answers[i]
  <2>1. answers' = Append(answers, a)
    BY <1>a, <1>b, <1>c
  <2> QED
    BY <2>1, <1>4, <1>d, AppendProperties
<1>6. answers'[Len(answers) + 1].range = r
  BY <1>5, <1>d
<1>7. \A i \in 1 .. Len(answers') : i \in 1 .. Len(answers) \/ i = Len(answers) + 1
  BY <1>4, <1>5
<1>8. \A x : InUse(x)' <=> InUse(x)
  BY <1>1 DEF InUse
<1>9. \A lo, hi : (Unused(lo, hi) => Unused(lo, hi)') /\ (Stretch(lo, hi) => Stretch(lo, hi)')
  BY <1>1, <1>8 DEF Unused, Stretch, Id
<1>10. \A i \in 1 .. Len(answers') : RangeOK(answers'[i].range)
  BY <1>3, <1>5, <1>6, <1>7 DEF IdInv
<1>11. \A i \in 1 .. Len(answers') : RangeOK(answers[i].range)'
  BY <1>9, <1>10 DEF RangeOK, NoRange
<1>12. ASSUME NEW t \in Thread PROVE RangeFree(t)'
  <2> SUFFICES ASSUME At(t, "wait_id"), val[t] \in 1 .. Len(answers'),
                      NEW w, w = answers'[val[t]].range, w # NoRange
               PROVE  Unused(w.start, w.start + w.count - 1)'
    BY <1>1 DEF RangeFree, At, Top, NoRange
  <2>1. CASE val[t] \in 1 .. Len(answers)
    <3>1. answers'[val[t]] = answers[val[t]] /\ RangeFree(t)
      BY <1>5, <2>1 DEF IdInv
    <3>2. Unused(w.start, w.start + w.count - 1)
      BY <2>1, <3>1 DEF RangeFree
    <3> QED
      BY <1>9, <3>2
  <2>2. CASE val[t] = Len(answers) + 1
    <3>1. w = r
      BY <1>6, <2>2
    <3> QED
      BY <1>3, <1>9, <3>1
  <2> QED
    BY <1>7, <2>1, <2>2
<1>13. /\ inc' = 1 /\ Stretch(last, max)' /\ Unused(last + 1, max)'
       /\ (last' = 0 /\ max' = 0 => live' = <<>>)
       /\ live' \in Seq(SUBSET (0 .. WordBits - 1)) /\ IdsOwn'
       /\ \A i, j \in 1 .. Len(live') : live'[i] = live'[j] => i = j
       /\ failed' = {}
  BY <1>1, <1>9 DEF IdInv, IdsOwn
<1> QED
  BY <1>11, <1>12, <1>13 DEF IdInv

LEMMA IdInit == Init => (FromBitZero => IdInv)
<1> SUFFICES ASSUME Init, FromBitZero PROVE IdInv
  OBVIOUS
<1>1. /\ prog \in Programs /\ last = 0 /\ max = 0 /\ inc = 1 /\ live = <<>> /\ failed = {}
      /\ answers = <<>> /\ stack = [t \in Thread |-> <<>>]
  BY IncIsOne DEF Init, xid_init
<1>2. Stretch(last, max)
  BY <1>1, SetupIds DEF Stretch
<1>3. Len(live) = 0 /\ Len(answers) = 0 /\ live \in Seq(SUBSET (0 .. WordBits - 1))
  BY <1>1, EmptySeq
<1>4. IdsOwn /\ (\A i, j \in 1 .. Len(live) : live[i] = live[j] => i = j)
  BY <1>3 DEF IdsOwn
<1>5. Unused(last + 1, max)
  BY <1>1 DEF Unused
<1>6. \A t \in Thread : RangeFree(t)
  BY <1>1 DEF RangeFree, At
<1> QED
  BY <1>1, <1>2, <1>3, <1>4, <1>5, <1>6 DEF IdInv

LEMMA IdNext ==
    CacheInv /\ (FromBitZero => IdInv) /\ [Next]_vars => (FromBitZero => IdInv)'
<1> SUFFICES ASSUME CacheInv, FromBitZero => IdInv, [Next]_vars, FromBitZero'
             PROVE  IdInv'
  OBVIOUS
<1>1. CacheInv'
  BY CacheNext
<1>2. prog' = prog
  BY DEF Next, ThreadStep, serve, break, vars
<1>3. FromBitZero /\ IdInv
  BY <1>2 DEF FromBitZero
<1>4. ASSUME NEW t \in Thread, ThreadStep(t) PROVE IdInv'
  <2>1. UNCHANGED <<prog, inc, answers>>
    BY <1>4 DEF ThreadStep
  <2>2. CASE call(t)
    BY <1>3, <2>1, <2>2, CallIds
  <2>3. CASE EnterStep(t)
    BY <1>3, <2>1, <2>3, EnterQuiet, QuietIds DEF EnterStep, xidvars, ghosts
  <2>4. CASE ExtStep(t)
    BY <1>1, <1>3, <2>1, <2>4, ExtQuiet, QuietIds DEF ExtStep, xidvars
  <2>5. CASE MaxStep(t)
    BY <1>3, <2>1, <2>5, MaxQuiet, QuietIds DEF MaxStep, xidvars
  <2>6. CASE SendStep(t)
    BY <1>3, <2>1, <2>6, SendQuiet, QuietIds DEF SendStep, xidvars, ghosts
  <2>7. CASE XidStep(t)
    BY <1>1, <1>3, <2>1, <2>7, NextIdIds, RangeIdIds, WaitIdIds DEF XidStep
  <2> QED
    BY <1>4, <2>2, <2>3, <2>4, <2>5, <2>6, <2>7 DEF ThreadStep
<1>5. CASE serve
  BY <1>3, <1>5, ServeIds
<1>6. CASE break \/ UNCHANGED vars
  <2>1. UNCHANGED <<prog, inc, stack, val, last, max, failed, answers, live>>
    BY <1>6 DEF break, vars, xidvars, ghosts
  <2>2. \A t \in Thread : At(t, "wait_id")' => At(t, "wait_id")
    BY <2>1 DEF At, Top
  <2> QED
    BY <1>3, <2>1, <2>2, SameFewer, IdsKept
<1> QED
  BY <1>4, <1>5, <1>6 DEF Next

LEMMA IdsAlways == Spec => [](CacheInv /\ (FromBitZero => IdInv))
<1>1. Init => CacheInv /\ (FromBitZero => IdInv)
  BY CacheInit, IdInit
<1>2. CacheInv /\ (FromBitZero => IdInv) /\ [Next]_vars => CacheInv' /\ (FromBitZero => IdInv)'
  BY CacheNext, IdNext
<1> QED
  BY <1>1, <1>2, PTL DEF Spec

\* No id is given out that is in use and every id is one of the client's own
\* (xcb_generate_id), however many threads generate ids, send requests and fill
\* the caches at once, and when the connection breaks; for every mask that
\* starts at bit 0, as those of servers do.
THEOREM GeneratedIdsUnique == Spec => [](FromBitZero => IdsUnique)
<1>1. IdInv => IdsUnique
  <2> HAVE IdInv
  <2>1. DOMAIN live = 1 .. Len(live)
    BY LenProperties DEF IdInv
  <2> QED
    BY <2>1 DEF IdInv, IdsOwn, IdsUnique
<1> QED
  BY <1>1, IdsAlways, PTL

\* The two assertions of xcb_generate_id hold for such a mask: a range is used
\* up to its last id and no further, and a range that is taken has ids.
THEOREM RangesAlwaysUsedUp == Spec => [](FromBitZero => RangesUsedUp)
<1>1. IdInv => RangesUsedUp
  BY DEF IdInv, RangesUsedUp
<1> QED
  BY <1>1, IdsAlways, PTL
=============================================================================
