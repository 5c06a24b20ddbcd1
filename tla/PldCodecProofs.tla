--------------------------- MODULE PldCodecProofs ---------------------------
(***************************************************************************)
(* What the functions of pld_tk_plugin.c write and read, for every base    *)
(* and all data: the layout of a packet, that it is read back as it was    *)
(* written, that what is read has the C types whatever the bytes are, and  *)
(* that a packet is recognised as what it was built as.                    *)
(*                                                                         *)
(* Writing and reading are folds over the fields, which is a recursion.    *)
(* The proofs go along the fields with sets of numbers: such a set holds 0 *)
(* and with each k the next one, so it holds all numbers.                  *)
(***************************************************************************)
EXTENDS PldCodec, SequenceTheorems, NaturalsInduction, WellFoundedInduction, TLAPS

-----------------------------------------------------------------------------
(* Induction, as statements about sets of numbers.                         *)

\* A set of numbers that is not empty has a least one.
LEMMA LeastNat ==
    ASSUME NEW T \in SUBSET Nat, T # {}
    PROVE  \E n \in T : \A m \in T : n <= m
  <1>1. PICK n \in T : \A m \in T : ~(<<m, n>> \in OpToRel(<, Nat))
    BY NatLessThanWellFounded, WFMin
  <1>2. \A m \in T : ~(m < n)
    BY <1>1 DEF OpToRel
  <1> QED BY <1>2

\* What holds of 0 and of the successor of every number it holds of holds of all.
LEMMA UpFromZero ==
    ASSUME NEW T, 0 \in T, \A n \in Nat : n \in T => n + 1 \in T
    PROVE  \A n \in Nat : n \in T
  <1> SUFFICES ASSUME Nat \ T # {} PROVE FALSE
    OBVIOUS
  <1>1. PICK n \in Nat \ T : \A m \in Nat \ T : n <= m
    BY LeastNat
  <1>2. n # 0 /\ n - 1 \in Nat
    BY <1>1
  <1>3. n - 1 \in T
    BY <1>1, <1>2
  <1> QED BY <1>1, <1>2, <1>3

\* The maximum of some of the first n numbers.
LEMMA MaxOfSome ==
    ASSUME NEW n \in Nat, NEW s \in SUBSET (1 .. n), s # {}
    PROVE  Max(s) \in s /\ \A x \in s : x <= Max(s)
  <1> DEFINE T == {m \in Nat : \A x \in s : x <= m}
  <1>1. PICK m \in T : \A k \in T : m <= k
    <2>1. \A x \in s : x <= n
      OBVIOUS
    <2>2. n \in T
      BY <2>1
    <2>3. T \in SUBSET Nat /\ T # {}
      BY <2>2
    <2> HIDE DEF T
    <2> QED BY <2>3, LeastNat
  <1>2. m \in s
    <2> SUFFICES ASSUME m \notin s PROVE FALSE
      OBVIOUS
    <2>1. PICK x \in s : TRUE
      OBVIOUS
    <2>2. m \in Nat /\ \A y \in s : y \in Nat /\ y >= 1 /\ y <= m /\ y # m
      OBVIOUS
    <2>3. m - 1 \in Nat /\ \A y \in s : y <= m - 1
      BY <2>1, <2>2
    <2>4. m - 1 \in T
      BY <2>3
    <2>5. m <= m - 1
      BY <1>1, <2>4
    <2> QED BY <2>2, <2>5
  <1>3. \E x \in s : \A y \in s : x >= y
    BY <1>1, <1>2
  <1> QED BY <1>3 DEF Max

-----------------------------------------------------------------------------
(* Folds over sequences.                                                   *)

\* A function on the sets of positions is what FoldLeft defines.
Folds(g, n, base, step) ==
    \A s \in SUBSET (1 .. n) :
        g[s] = IF s = {} THEN base ELSE step[<<g[s \ {Max(s)}], Max(s)>>]

\* There is such a function, which FoldLeft therefore chooses.
LEMMA FoldExists ==
    ASSUME NEW n \in Nat, NEW V, NEW base \in V, NEW step \in [V \X (1 .. n) -> V]
    PROVE  \E g \in [SUBSET (1 .. n) -> V] : Folds(g, n, base, step)
  <1> DEFINE Exists(m) == \E g \in [SUBSET (1 .. m) -> V] : Folds(g, m, base, step)
             T == {m \in Nat : m <= n => Exists(m)}
  <1> HIDE DEF Exists
  <1>0. \A m \in Nat : m \in T <=> (m <= n => Exists(m))
    OBVIOUS
  <1> HIDE DEF T
  <1>1. 0 \in T
    <2> DEFINE g == [s \in SUBSET (1 .. 0) |-> base]
    <2>1. g \in [SUBSET (1 .. 0) -> V] /\ Folds(g, 0, base, step)
      BY DEF Folds
    <2>2. Exists(0)
      BY <2>1 DEF Exists
    <2> QED BY <1>0, <2>2
  <1>2. ASSUME NEW m \in Nat, m \in T PROVE m + 1 \in T
    <2> SUFFICES ASSUME m + 1 <= n
                 PROVE  Exists(m + 1)
      BY <1>0
    <2>0. Exists(m)
      BY <1>0, <1>2
    <2>1. PICK g \in [SUBSET (1 .. m) -> V] : Folds(g, m, base, step)
      BY <2>0 DEF Exists
    <2> DEFINE h == [s \in SUBSET (1 .. m + 1) |->
                        IF m + 1 \in s THEN step[<<g[s \ {m + 1}], m + 1>>] ELSE g[s]]
    <2>2. \A s \in SUBSET (1 .. m + 1) :
             /\ s \ {m + 1} \in SUBSET (1 .. m)
             /\ m + 1 \notin s => s \in SUBSET (1 .. m)
      <3>1. \A x : x \in 1 .. m + 1 <=> x \in 1 .. m \/ x = m + 1
        OBVIOUS
      <3> QED BY <3>1
    <2>3. h \in [SUBSET (1 .. m + 1) -> V]
      BY <2>2
    <2>4. ASSUME NEW s \in SUBSET (1 .. m + 1)
          PROVE  h[s] = IF s = {} THEN base ELSE step[<<h[s \ {Max(s)}], Max(s)>>]
      <3>1. CASE s = {}
        BY <2>1, <3>1 DEF Folds
      <3>2. CASE m + 1 \in s
        <4>1. m + 1 \in Nat /\ s # {}
          BY <3>2
        <4>2. Max(s) \in s /\ \A x \in s : x <= Max(s)
          BY <4>1, MaxOfSome
        <4>3. Max(s) \in 1 .. m + 1 /\ m + 1 <= Max(s)
          BY <3>2, <4>2
        <4>4. Max(s) = m + 1
          BY <4>3
        <4>5. h[s \ {m + 1}] = g[s \ {m + 1}]
          BY <2>2
        <4> QED BY <3>2, <4>1, <4>4, <4>5
      <3>3. CASE m + 1 \notin s /\ s # {}
        <4>1. s \in SUBSET (1 .. m) /\ s \ {Max(s)} \in SUBSET (1 .. m)
          BY <2>2, <3>3
        <4>2. g[s] = step[<<g[s \ {Max(s)}], Max(s)>>]
          BY <2>1, <3>3, <4>1 DEF Folds
        <4>3. h[s] = g[s] /\ h[s \ {Max(s)}] = g[s \ {Max(s)}]
          BY <2>2, <3>3, <4>1
        <4> QED BY <3>3, <4>2, <4>3
      <3> QED BY <3>1, <3>2, <3>3
    <2> QED BY <2>3, <2>4 DEF Folds, Exists
  <1>3. n \in T
    BY <1>1, <1>2, UpFromZero
  <1>4. Exists(n)
    BY <1>0, <1>3
  <1> QED BY <1>4 DEF Exists

\* The sets that a fold over 1 .. n goes through.
LEMMA EachPrefix ==
    ASSUME NEW n \in Nat, NEW k \in 1 .. n
    PROVE  /\ 1 .. k \in SUBSET (1 .. n) /\ 1 .. k # {} /\ Max(1 .. k) = k
           /\ (1 .. k) \ {k} = 1 .. (k - 1)
  <1>1. 1 .. k \in SUBSET (1 .. n) /\ k \in 1 .. k
    OBVIOUS
  <1>2. Max(1 .. k) \in 1 .. k /\ \A x \in 1 .. k : x <= Max(1 .. k)
    BY <1>1, MaxOfSome
  <1>3. Max(1 .. k) = k
    BY <1>1, <1>2
  <1>4. \A x : x \in 1 .. k /\ x # k <=> x \in 1 .. (k - 1)
    OBVIOUS
  <1> QED BY <1>1, <1>3, <1>4

\* What holds of the empty prefix and is handed on holds of every prefix.
LEMMA AlongPrefixes ==
    ASSUME NEW n \in Nat, NEW V, NEW h, h[0] \in V,
           \A k \in 1 .. n : h[k - 1] \in V => h[k] \in V
    PROVE  \A k \in 0 .. n : h[k] \in V
  <1> DEFINE T == {k \in Nat : k <= n => h[k] \in V}
  <1>1. 0 \in T
    OBVIOUS
  <1>2. ASSUME NEW k \in Nat, k \in T PROVE k + 1 \in T
    <2>1. CASE k + 1 <= n
      <3>1. k + 1 \in 1 .. n /\ (k + 1) - 1 = k /\ h[k] \in V
        BY <1>2, <2>1
      <3>2. h[(k + 1) - 1] \in V => h[k + 1] \in V
        BY <3>1
      <3> QED BY <3>1, <3>2
    <2>2. CASE ~(k + 1 <= n)
      BY <2>2
    <2> QED BY <2>1, <2>2
  <1>3. \A k \in Nat : k \in T
    <2> HIDE DEF T
    <2> QED BY <1>1, <1>2, UpFromZero
  <1> QED BY <1>3

\* What holds of 0 and is handed on up to n holds up to n.
LEMMA AlongRange ==
    ASSUME NEW n \in Nat, NEW T, 0 \in T, \A k \in 1 .. n : k - 1 \in T => k \in T
    PROVE  \A k \in 0 .. n : k \in T
  <1> DEFINE h == [k \in 0 .. n |-> IF k \in T THEN 1 ELSE 0]
  <1>0. \A k \in 0 .. n : h[k] \in {1} <=> k \in T
    OBVIOUS
  <1> DEFINE V == {1}
  <1> HIDE DEF h
  <1>1. h[0] \in {1} /\ \A k \in 1 .. n : h[k - 1] \in {1} => h[k] \in {1}
    <2>1. 0 \in 0 .. n /\ \A k \in 1 .. n : k \in 0 .. n /\ k - 1 \in 0 .. n
      OBVIOUS
    <2> QED BY <1>0, <2>1
  <1>2. \A k \in 0 .. n : h[k] \in {1}
    <2>1. h[0] \in V /\ \A k \in 1 .. n : h[k - 1] \in V => h[k] \in V
      BY <1>1
    <2> HIDE DEF V
    <2>2. \A k \in 0 .. n : h[k] \in V
      BY <2>1, AlongPrefixes
    <2> QED BY <2>2 DEF V
  <1> QED BY <1>0, <1>2

\* A function that satisfies the equation of a fold gives the values one after
\* the other, as far as they stay in a set that the steps do not leave.
FoldsIn(V, f, n, base, step) ==
    /\ f[{}] = base
    /\ \A s \in SUBSET (1 .. n) : s # {} /\ f[s \ {Max(s)}] \in V
                                     => f[s] = step[<<f[s \ {Max(s)}], Max(s)>>]

Unrolls(h, f, n, base, step) ==
    /\ h[0] = base /\ h[n] = f[1 .. n]
    /\ \A i \in 1 .. n : h[i] = step[<<h[i - 1], i>>]

\* A fold goes from left to right.
LEMMA FoldUnrolls ==
    ASSUME NEW n \in Nat, NEW V, NEW base \in V, NEW step \in [V \X (1 .. n) -> V], NEW f,
           FoldsIn(V, f, n, base, step)
    PROVE  \E h \in [0 .. n -> V] : Unrolls(h, f, n, base, step)
  <1> DEFINE h == [k \in 0 .. n |-> f[1 .. k]]
  <1>1. h[0] = base /\ h[n] = f[1 .. n]
    <2>1. 1 .. 0 = {}
      OBVIOUS
    <2> QED BY <2>1 DEF FoldsIn
  <1>2. ASSUME NEW i \in 1 .. n, h[i - 1] \in V PROVE h[i] = step[<<h[i - 1], i>>]
    <2>1. /\ 1 .. i \in SUBSET (1 .. n) /\ 1 .. i # {} /\ Max(1 .. i) = i
          /\ (1 .. i) \ {i} = 1 .. (i - 1)
      BY EachPrefix
    <2>2. h[i - 1] = f[1 .. (i - 1)] /\ h[i] = f[1 .. i]
      <3>1. i - 1 \in 0 .. n /\ i \in 0 .. n
        OBVIOUS
      <3> QED BY <3>1
    <2> QED BY <1>2, <2>1, <2>2 DEF FoldsIn
  <1> HIDE DEF h
  <1>3. \A k \in 0 .. n : h[k] \in V
    <2>1. \A i \in 1 .. n : h[i - 1] \in V => h[i] \in V
      BY <1>2
    <2> QED BY <1>1, <2>1, AlongPrefixes
  <1>4. \A i \in 1 .. n : h[i] = step[<<h[i - 1], i>>]
    <2> TAKE i \in 1 .. n
    <2>1. i - 1 \in 0 .. n
      OBVIOUS
    <2> QED BY <1>2, <1>3, <2>1
  <1>5. h \in [0 .. n -> V]
    BY <1>3 DEF h
  <1> QED BY <1>1, <1>4, <1>5 DEF Unrolls

-----------------------------------------------------------------------------
(* Arithmetic of bytes.                                                    *)

\* Division has one quotient and one rest.
LEMMA OneQuotient ==
    ASSUME NEW a \in Int, NEW m \in Nat \ {0}, NEW q \in Int, NEW r \in 0 .. m - 1,
           a = m * q + r
    PROVE  a \div m = q /\ a % m = r
  <1> DEFINE d == a \div m
             e == a % m
  <1>1. d \in Int /\ e \in 0 .. m - 1 /\ a = m * d + e
    OBVIOUS
  <1> HIDE DEF d, e
  <1>2. m * (q - d) = e - r
    BY <1>1
  <1>3. ASSUME NEW x \in Int, x >= 1 PROVE m * x >= m
    <2>1. x - 1 \in Nat /\ m * (x - 1) >= 0
      BY <1>3
    <2> QED BY <2>1
  <1>4. ~(q - d >= 1)
    BY <1>1, <1>2, <1>3
  <1>5. ~(d - q >= 1)
    <2>1. m * (d - q) = r - e
      BY <1>1
    <2> QED BY <1>1, <1>3, <2>1
  <1>6. d = q
    BY <1>1, <1>4, <1>5
  <1> QED BY <1>1, <1>6 DEF d, e

\* Dividing twice is dividing by the product, and the rests add up.
LEMMA QuotientTwice ==
    ASSUME NEW a \in Int, NEW b \in Nat \ {0}, NEW c \in Nat \ {0}
    PROVE  a \div (b * c) = (a \div b) \div c
  <1> DEFINE x == a \div b
             r == a % b
             y == x \div c
             t == x % c
  <1>1. x \in Int /\ r \in 0 .. b - 1 /\ a = b * x + r
    OBVIOUS
  <1>2. y \in Int /\ t \in 0 .. c - 1 /\ x = c * y + t
    OBVIOUS
  <1> HIDE DEF x, r, y, t
  <1>3. b * c \in Nat \ {0}
    OBVIOUS
  <1>4. b * t + r \in 0 .. b * c - 1
    <2>1. c - 1 - t \in Nat /\ b * (c - 1 - t) >= 0 /\ b * t >= 0
      BY <1>2
    <2>2. b * t <= b * c - b
      BY <1>2, <2>1
    <2> QED BY <1>1, <1>2, <2>1, <2>2
  <1>5. a = (b * c) * y + (b * t + r)
    BY <1>1, <1>2
  <1>6. a \div (b * c) = y /\ a % (b * c) = b * t + r
    <2> DEFINE m == b * c
               e == b * t + r
    <2>1. m \in Nat \ {0} /\ e \in 0 .. m - 1 /\ a = m * y + e
      BY <1>3, <1>4, <1>5
    <2> HIDE DEF m, e
    <2>2. a \div m = y /\ a % m = e
      BY <1>2, <2>1, OneQuotient
    <2> QED BY <2>2 DEF m, e
  <1> QED BY <1>6 DEF x, r, y, t

\* The rest of dividing by a product, digit by digit.
LEMMA RestTwice ==
    ASSUME NEW a \in Int, NEW b \in Nat \ {0}, NEW c \in Nat \ {0}
    PROVE  a % (b * c) = b * ((a \div b) % c) + (a % b)
  <1> DEFINE x == a \div b
             y == x \div c
             m == b * c
  <1>1. x \in Int /\ a % b = a - b * x
    OBVIOUS
  <1>2. y \in Int /\ x % c = x - c * y
    OBVIOUS
  <1>3. m \in Nat \ {0} /\ a \div m = y
    <2>1. m \in Nat \ {0}
      OBVIOUS
    <2>2. a \div (b * c) = (a \div b) \div c
      BY QuotientTwice
    <2> QED BY <2>1, <2>2
  <1> HIDE DEF x, y, m
  <1>4. a % m = a - m * y
    <2>1. \A d \in Nat \ {0} : a % d = a - d * (a \div d)
      OBVIOUS
    <2> QED BY <1>3, <2>1
  <1>5. m * y = b * (c * y)
    BY <1>2 DEF m
  <1>6. b * (x - c * y) = b * x - b * (c * y)
    <2>1. \A p, q \in Int : b * (p - q) = b * p - b * q
      OBVIOUS
    <2>2. c * y \in Int
      BY <1>2
    <2> QED BY <1>1, <2>1, <2>2
  <1>7. a % m = b * (x % c) + (a % b)
    <2>1. b * (x % c) = b * x - b * (c * y)
      BY <1>2, <1>6
    <2>2. a % m = a - b * (c * y)
      BY <1>4, <1>5
    <2> DEFINE p == b * x
               q == b * (c * y)
    <2>3. p \in Int /\ q \in Int
      BY <1>1, <1>2
    <2>4. a % b = a - p /\ b * (x % c) = p - q /\ a % m = a - q
      BY <1>1, <2>1, <2>2
    <2> HIDE DEF p, q
    <2> DEFINE l == a % m
               r == b * (x % c)
               e == a % b
    <2>5. e = a - p /\ r = p - q /\ l = a - q
      BY <2>4
    <2> HIDE DEF l, r, e
    <2>6. l = r + e
      BY <2>3, <2>5
    <2> QED BY <2>6 DEF l, r, e
  <1> QED BY <1>7 DEF x, m

\* The powers of the base.
LEMMA PowUnrolls ==
    /\ Pow[0] = 1 /\ \A n \in 0 .. 8 : Pow[n] \in Nat \ {0}
    /\ \A n \in 1 .. 8 : Pow[n] = Base * Pow[n - 1]
  <1> DEFINE Eq(g) == g = [n \in 0 .. 8 |-> IF n = 0 THEN 1 ELSE Base * g[n - 1]]
             Exists(m) == \E g \in [0 .. m -> Nat \ {0}] :
                             g[0] = 1 /\ \A n \in 1 .. m : g[n] = Base * g[n - 1]
             T == {m \in Nat : Exists(m)}
  <1> HIDE DEF Exists
  <1>0. \A m \in Nat : m \in T <=> Exists(m)
    OBVIOUS
  <1> HIDE DEF T
  <1>1. 0 \in T
    <2> DEFINE g == [n \in 0 .. 0 |-> 1]
    <2>1. g \in [0 .. 0 -> Nat \ {0}] /\ g[0] = 1 /\ \A n \in 1 .. 0 : g[n] = Base * g[n - 1]
      OBVIOUS
    <2> QED BY <1>0, <2>1 DEF Exists
  <1>2. ASSUME NEW m \in Nat, m \in T PROVE m + 1 \in T
    <2>1. PICK g \in [0 .. m -> Nat \ {0}] : g[0] = 1 /\ \A n \in 1 .. m : g[n] = Base * g[n - 1]
      BY <1>0, <1>2 DEF Exists
    <2> DEFINE h == [n \in 0 .. m + 1 |-> IF n = m + 1 THEN Base * g[m] ELSE g[n]]
    <2>2. Base * g[m] \in Nat \ {0}
      BY BaseAssumption
    <2>3. h \in [0 .. m + 1 -> Nat \ {0}] /\ h[0] = 1
      BY <2>1, <2>2
    <2>4. ASSUME NEW n \in 1 .. m + 1 PROVE h[n] = Base * h[n - 1]
      <3>1. n - 1 \in 0 .. m /\ n - 1 \in 0 .. m + 1 /\ n - 1 # m + 1 /\ n \in 0 .. m + 1
        OBVIOUS
      <3>2. CASE n = m + 1
        BY <3>1, <3>2
      <3>3. CASE n # m + 1
        <4>1. n \in 1 .. m
          BY <3>3
        <4> QED BY <2>1, <3>1, <3>3, <4>1
      <3> QED BY <3>2, <3>3
    <2> HIDE DEF h
    <2>5. Exists(m + 1)
      BY <2>3, <2>4 DEF Exists
    <2> QED BY <1>0, <2>5
  <1>3. PICK g \in [0 .. 8 -> Nat \ {0}] : g[0] = 1 /\ \A n \in 1 .. 8 : g[n] = Base * g[n - 1]
    <2>1. 8 \in T
      BY <1>1, <1>2, UpFromZero
    <2> QED BY <1>0, <2>1 DEF Exists
  <1>4. Eq(g)
    <2>1. \A n \in 0 .. 8 : g[n] = IF n = 0 THEN 1 ELSE Base * g[n - 1]
      BY <1>3
    <2> QED BY <1>3, <2>1
  <1>5. Eq(Pow)
    <2>1. Pow = CHOOSE p : Eq(p)
      BY DEF Pow
    <2> HIDE DEF Eq
    <2> QED BY <1>4, <2>1
  <1>6. Pow[0] = 1 /\ \A n \in 1 .. 8 : Pow[n] = Base * Pow[n - 1]
    BY <1>5
  <1>7. \A n \in 0 .. 8 : Pow[n] \in Nat \ {0}
    <2>1. \A n \in 1 .. 8 : Pow[n - 1] \in Nat \ {0} => Pow[n] \in Nat \ {0}
      BY <1>6, BaseAssumption
    <2> QED BY <1>6, <2>1, AlongPrefixes
  <1> QED BY <1>6, <1>7

FieldBytes(build, data, i) == ToBytes(data[build.fields[i].name], build.fields[i].bytes)

WritesAlong(h, build, data, n) ==
    /\ h[0] = <<build.cmd>> /\ h[n] = WriteFields(build, data)
    /\ \A i \in 1 .. n : h[i] = h[i - 1] \o FieldBytes(build, data, i)

\* Writing appends one field after the other.
LEMMA WriteFieldsUnrolls ==
    ASSUME NEW build, NEW data, NEW n \in Nat, DOMAIN build.fields = 1 .. n,
           NEW X, build.cmd \in X, \A i \in 1 .. n : FieldBytes(build, data, i) \in Seq(X)
    PROVE  \E h \in [0 .. n -> Seq(X)] : WritesAlong(h, build, data, n)
  <1> DEFINE bytes(i) == FieldBytes(build, data, i)
             base == <<build.cmd>>
             Eq(g) == g = [s \in SUBSET (1 .. n) |->
                             IF s = {} THEN base ELSE g[s \ {Max(s)}] \o bytes(Max(s))]
             iter == CHOOSE g : Eq(g)
             step == [p \in Seq(X) \X (1 .. n) |-> p[1] \o bytes(p[2])]
  <1>1. WriteFields(build, data) = iter[1 .. n]
    BY DEF WriteFields, FoldLeft, MapThenFoldSet, FieldBytes
  <1>2. base \in Seq(X) /\ \A i \in 1 .. n : bytes(i) \in Seq(X)
    OBVIOUS
  <1> HIDE DEF bytes, base
  <1>3. \A v \in Seq(X), i \in 1 .. n : step[<<v, i>>] = v \o bytes(i)
    OBVIOUS
  <1>4. step \in [Seq(X) \X (1 .. n) -> Seq(X)]
    BY <1>2, ConcatProperties
  <1> HIDE DEF step
  <1>5. \A s \in SUBSET (1 .. n) : s # {} => Max(s) \in 1 .. n /\ s \ {Max(s)} \in SUBSET (1 .. n)
    BY MaxOfSome
  <1>6. Eq(iter)
    <2>1. PICK g \in [SUBSET (1 .. n) -> Seq(X)] : Folds(g, n, base, step)
      BY <1>2, <1>4, FoldExists
    <2>2. \A s \in SUBSET (1 .. n) : g[s] = IF s = {} THEN base ELSE g[s \ {Max(s)}] \o bytes(Max(s))
      BY <1>3, <1>5, <2>1 DEF Folds
    <2>3. Eq(g)
      BY <2>1, <2>2
    <2> HIDE DEF Eq
    <2> QED BY <2>3
  <1>7. /\ iter[{}] = base
        /\ \A s \in SUBSET (1 .. n) : s # {} => iter[s] = iter[s \ {Max(s)}] \o bytes(Max(s))
    BY <1>6
  <1> HIDE DEF iter, Eq
  <1>8. \A s \in SUBSET (1 .. n) : s # {} /\ iter[s \ {Max(s)}] \in Seq(X)
                                       => iter[s] = step[<<iter[s \ {Max(s)}], Max(s)>>]
    BY <1>3, <1>5, <1>7
  <1>9. PICK h \in [0 .. n -> Seq(X)] : Unrolls(h, iter, n, base, step)
    <2>1. FoldsIn(Seq(X), iter, n, base, step)
      BY <1>7, <1>8 DEF FoldsIn
    <2> QED BY <1>2, <1>4, <2>1, FoldUnrolls
  <1>10. \A i \in 1 .. n : h[i] = h[i - 1] \o bytes(i)
    <2> TAKE i \in 1 .. n
    <2>1. i - 1 \in 0 .. n
      OBVIOUS
    <2> QED BY <1>3, <1>9, <2>1 DEF Unrolls
  <1> QED BY <1>1, <1>9, <1>10 DEF bytes, base, Unrolls, WritesAlong

-----------------------------------------------------------------------------
(* Numbers as bytes.                                                       *)

Bytes == 0 .. Base - 1

\* A number is written as so many bytes.
LEMMA BytesOf ==
    ASSUME NEW v \in Int, NEW n \in 0 .. 8
    PROVE  /\ ToBytes(v, n) \in Seq(Bytes) /\ Len(ToBytes(v, n)) = n
           /\ \A k \in 1 .. n : ToBytes(v, n)[k] = (v \div Pow[n - k]) % Base
  <1> DEFINE b(k) == (v \div Pow[n - k]) % Base
  <1>1. \A k \in 1 .. n : b(k) \in Bytes
    <2> TAKE k \in 1 .. n
    <2>1. n - k \in 0 .. 8
      OBVIOUS
    <2>2. Pow[n - k] \in Nat \ {0}
      BY <2>1, PowUnrolls
    <2>3. v \div Pow[n - k] \in Int
      BY <2>2
    <2> QED BY <2>3, BaseAssumption DEF Bytes
  <1>2. ToBytes(v, n) = [k \in 1 .. n |-> b(k)]
    BY DEF ToBytes
  <1> HIDE DEF b
  <1>3. [k \in 1 .. n |-> b(k)] \in [1 .. n -> Bytes]
    BY <1>1
  <1>4. \A s \in [1 .. n -> Bytes] : s \in Seq(Bytes) /\ Len(s) = n
    OBVIOUS
  <1> QED BY <1>2, <1>3, <1>4 DEF b

\* Reading a number goes from byte to byte.
LEMMA UnsignedUnrolls ==
    ASSUME NEW bytes \in Seq(Bytes)
    PROVE  \E h \in [0 .. Len(bytes) -> Int] :
               /\ h[0] = 0 /\ h[Len(bytes)] = Unsigned(bytes)
               /\ \A i \in 1 .. Len(bytes) : h[i] = h[i - 1] * Base + bytes[i]
  <1> DEFINE n == Len(bytes)
             V == Int
             Eq(g) == g = [s \in SUBSET (1 .. n) |->
                             IF s = {} THEN 0 ELSE g[s \ {Max(s)}] * Base + bytes[Max(s)]]
             iter == CHOOSE g : Eq(g)
             step == [p \in V \X (1 .. n) |-> p[1] * Base + bytes[p[2]]]
  <1>0. n \in Nat /\ DOMAIN bytes = 1 .. n /\ \A i \in 1 .. n : bytes[i] \in Int
    BY LenProperties, BaseAssumption DEF Bytes
  <1>1. Unsigned(bytes) = iter[1 .. n]
    BY <1>0 DEF Unsigned, FoldLeft, MapThenFoldSet
  <1> HIDE DEF n
  <1>3. \A v \in V, i \in 1 .. n : step[<<v, i>>] = v * Base + bytes[i]
    OBVIOUS
  <1>4. step \in [V \X (1 .. n) -> V]
    <2>1. \A v \in V, i \in 1 .. n : v * Base + bytes[i] \in V
      BY <1>0, BaseAssumption
    <2> QED BY <2>1
  <1>b. 0 \in V
    OBVIOUS
  <1> HIDE DEF step, V
  <1>5. \A s \in SUBSET (1 .. n) : s # {} => Max(s) \in 1 .. n /\ s \ {Max(s)} \in SUBSET (1 .. n)
    BY <1>0, MaxOfSome
  <1>6. Eq(iter)
    <2>1. PICK g \in [SUBSET (1 .. n) -> V] : Folds(g, n, 0, step)
      BY <1>0, <1>b, <1>4, FoldExists
    <2>2. \A s \in SUBSET (1 .. n) : g[s] = IF s = {} THEN 0 ELSE g[s \ {Max(s)}] * Base + bytes[Max(s)]
      BY <1>3, <1>5, <2>1 DEF Folds
    <2>3. Eq(g)
      BY <2>1, <2>2
    <2> HIDE DEF Eq
    <2> QED BY <2>3
  <1>7. /\ iter[{}] = 0
        /\ \A s \in SUBSET (1 .. n) : s # {} => iter[s] = iter[s \ {Max(s)}] * Base + bytes[Max(s)]
    BY <1>6
  <1> HIDE DEF iter, Eq
  <1>8. \A s \in SUBSET (1 .. n) : s # {} /\ iter[s \ {Max(s)}] \in V
                                       => iter[s] = step[<<iter[s \ {Max(s)}], Max(s)>>]
    BY <1>3, <1>5, <1>7
  <1>9. PICK h \in [0 .. n -> V] : Unrolls(h, iter, n, 0, step)
    <2>1. FoldsIn(V, iter, n, 0, step)
      BY <1>7, <1>8 DEF FoldsIn
    <2> QED BY <1>0, <1>b, <1>4, <2>1, FoldUnrolls
  <1>10. \A i \in 1 .. n : h[i] = h[i - 1] * Base + bytes[i]
    <2> TAKE i \in 1 .. n
    <2>1. i - 1 \in 0 .. n
      BY <1>0
    <2> QED BY <1>3, <1>9, <2>1 DEF Unrolls
  <1> QED BY <1>1, <1>9, <1>10 DEF Unrolls, n, V

\* So many bytes stand for a number below the power.
LEMMA UnsignedBounds ==
    ASSUME NEW bytes \in Seq(Bytes), Len(bytes) \in 0 .. 8
    PROVE  Unsigned(bytes) \in 0 .. Pow[Len(bytes)] - 1
  <1> DEFINE n == Len(bytes)
  <1>1. n \in 0 .. 8
    OBVIOUS
  <1>2. PICK h \in [0 .. n -> Int] : /\ h[0] = 0 /\ h[n] = Unsigned(bytes)
                                     /\ \A i \in 1 .. n : h[i] = h[i - 1] * Base + bytes[i]
    BY UnsignedUnrolls
  <1>b. \A i \in 1 .. n : bytes[i] \in Bytes
    BY LenProperties
  <1> HIDE DEF n
  <1> DEFINE ok == {k \in 0 .. n : h[k] \in 0 .. Pow[k] - 1}
  <1>3. 0 \in ok
    <2>1. 0 \in 0 .. n
      BY <1>1
    <2> QED BY <1>2, <2>1, PowUnrolls, SMTT(30)
  <1>4. ASSUME NEW k \in 1 .. n, k - 1 \in ok PROVE k \in ok
    <2>1. k - 1 \in 0 .. n /\ k \in 0 .. n /\ k - 1 \in 0 .. 8 /\ k \in 1 .. 8
      BY <1>1
    <2>2. h[k - 1] \in 0 .. Pow[k - 1] - 1
      BY <1>4, <2>1
    <2>3. Pow[k] = Base * Pow[k - 1] /\ Pow[k - 1] \in Nat \ {0}
      BY <2>1, PowUnrolls
    <2>4. h[k] = h[k - 1] * Base + bytes[k] /\ bytes[k] \in 0 .. Base - 1
      BY <1>2, <1>b DEF Bytes
    <2>5. \A x \in Nat, p \in Nat, b \in 0 .. Base - 1 : x <= p - 1 => x * Base + b \in 0 .. Base * p - 1
      <3> TAKE x \in Nat, p \in Nat, b \in 0 .. Base - 1
      <3> HAVE x <= p - 1
      <3>1. p - 1 - x \in Nat /\ Base \in Nat
        BY BaseAssumption
      <3>2. Base * (p - 1 - x) >= 0 /\ x * Base >= 0
        BY <3>1
      <3> QED BY <3>1, <3>2
    <2>6. h[k] \in 0 .. Pow[k] - 1
      BY <2>2, <2>3, <2>4, <2>5
    <2> QED BY <2>1, <2>6
  <1>5. \A k \in 0 .. n : k \in ok
    <2>1. n \in Nat /\ \A k \in 1 .. n : k - 1 \in ok => k \in ok
      BY <1>1, <1>4
    <2> HIDE DEF ok
    <2> QED BY <1>3, <2>1, AlongRange
  <1>6. h[n] \in 0 .. Pow[n] - 1
    <2>1. n \in 0 .. n
      BY <1>1
    <2> QED BY <1>5, <2>1
  <1> HIDE DEF ok
  <1> QED BY <1>1, <1>2, <1>6 DEF n

\* A number that is written as bytes and read back.
LEMMA BytesBack ==
    ASSUME NEW v \in Int, NEW n \in 0 .. 8
    PROVE  Unsigned(ToBytes(v, n)) = v % Pow[n]
  <1> DEFINE bytes == ToBytes(v, n)
             x(k) == v \div Pow[n - k]
  <1>1. bytes \in Seq(Bytes) /\ Len(bytes) = n /\ \A k \in 1 .. n : bytes[k] = x(k) % Base
    BY BytesOf
  <1> HIDE DEF bytes
  <1>2. PICK h \in [0 .. n -> Int] : /\ h[0] = 0 /\ h[n] = Unsigned(bytes)
                                     /\ \A i \in 1 .. n : h[i] = h[i - 1] * Base + bytes[i]
    BY <1>1, UnsignedUnrolls
  <1>3. \A k \in 0 .. n : x(k) \in Int
    <2> TAKE k \in 0 .. n
    <2>1. n - k \in 0 .. 8
      OBVIOUS
    <2>2. Pow[n - k] \in Nat \ {0}
      BY <2>1, PowUnrolls
    <2> QED BY <2>2
  <1>4. \A k \in 1 .. n : x(k - 1) = x(k) \div Base
    <2> TAKE k \in 1 .. n
    <2>1. n - k \in 0 .. 8 /\ n - (k - 1) \in 1 .. 8 /\ (n - (k - 1)) - 1 = n - k
      OBVIOUS
    <2>2. Pow[n - k] \in Nat \ {0} /\ Pow[n - (k - 1)] = Base * Pow[n - k]
      BY <2>1, PowUnrolls
    <2>3. Base \in Nat \ {0} /\ Base * Pow[n - k] = Pow[n - k] * Base
      BY <2>2, BaseAssumption
    <2>4. v \div (Pow[n - k] * Base) = (v \div Pow[n - k]) \div Base
      <3> DEFINE p == Pow[n - k]
      <3>1. p \in Nat \ {0} /\ Base \in Nat \ {0}
        BY <2>2, <2>3
      <3> HIDE DEF p
      <3>2. v \div (p * Base) = (v \div p) \div Base
        BY <3>1, QuotientTwice
      <3> QED BY <3>2 DEF p
    <2> QED BY <2>2, <2>3, <2>4
  <1> HIDE DEF x
  <1> DEFINE ok == {k \in 0 .. n : h[k] = x(k) % Pow[k]}
  <1>5. 0 \in ok
    <2>1. 0 \in 0 .. n
      OBVIOUS
    <2>2. x(0) \in Int
      BY <1>3, <2>1
    <2>3. x(0) % 1 = 0
      BY <2>2
    <2> QED BY <1>2, <2>1, <2>3, PowUnrolls
  <1>6. ASSUME NEW k \in 1 .. n, k - 1 \in ok PROVE k \in ok
    <2>1. k - 1 \in 0 .. n /\ k \in 0 .. n /\ k - 1 \in 0 .. 8 /\ k \in 1 .. 8
      OBVIOUS
    <2>2. h[k - 1] = x(k - 1) % Pow[k - 1]
      BY <1>6, <2>1
    <2>3. Pow[k] = Base * Pow[k - 1] /\ Pow[k - 1] \in Nat \ {0}
      BY <2>1, PowUnrolls
    <2>4. h[k] = h[k - 1] * Base + (x(k) % Base)
      BY <1>1, <1>2
    <2>5. x(k) \in Int /\ Base \in Nat \ {0}
      BY <1>3, <2>1, BaseAssumption
    <2>6. x(k) % (Base * Pow[k - 1]) = Base * ((x(k) \div Base) % Pow[k - 1]) + (x(k) % Base)
      BY <2>3, <2>5, RestTwice
    <2>7. h[k - 1] = (x(k) \div Base) % Pow[k - 1]
      BY <1>4, <2>2
    <2>8. h[k - 1] \in Int
      BY <2>1
    <2>9. h[k - 1] * Base = Base * h[k - 1]
      BY <2>5, <2>8
    <2>10. h[k] = x(k) % Pow[k]
      BY <2>3, <2>4, <2>6, <2>7, <2>9
    <2> QED BY <2>1, <2>10
  <1>7. \A k \in 0 .. n : k \in ok
    <2>1. n \in Nat /\ \A k \in 1 .. n : k - 1 \in ok => k \in ok
      BY <1>6
    <2> HIDE DEF ok
    <2> QED BY <1>5, <2>1, AlongRange
  <1>8. h[n] = x(n) % Pow[n]
    <2>1. n \in 0 .. n
      OBVIOUS
    <2> QED BY <1>7, <2>1
  <1>9. x(n) = v
    <2>1. n - n = 0 /\ v \div 1 = v
      OBVIOUS
    <2>2. Pow[n - n] = 1
      BY <2>1, PowUnrolls
    <2> QED BY <2>1, <2>2 DEF x
  <1> QED BY <1>2, <1>8, <1>9 DEF bytes

\* A field: so many bytes, signed or not.
IsField(f) == f.bytes \in 1 .. 8 /\ f.signed \in BOOLEAN

\* What is read is a value of the field's type, whatever the bytes are.
LEMMA ReadInType ==
    ASSUME NEW f, IsField(f), NEW bytes \in Seq(Bytes), Len(bytes) = f.bytes
    PROVE  FromBytes(bytes, f.signed) \in ValuesOf(f)
  <1> DEFINE u == Unsigned(bytes)
             full == Pow[f.bytes]
  <1>0. f.bytes \in 1 .. 8
    BY DEF IsField
  <1>1. u \in 0 .. full - 1
    <2>1. Len(bytes) \in 0 .. 8
      BY <1>0
    <2>2. Unsigned(bytes) \in 0 .. Pow[Len(bytes)] - 1
      BY <2>1, UnsignedBounds
    <2> QED BY <2>2
  <1>2. full \in Nat \ {0} /\ full = 2 * (full \div 2)
    <2> DEFINE m == f.bytes
    <2>1. m \in 1 .. 8
      BY <1>0
    <2> HIDE DEF m
    <2>2. Pow[m] = Base * Pow[m - 1] /\ Pow[m] \in Nat \ {0} /\ Pow[m - 1] \in Nat
      <3>1. m \in 0 .. 8 /\ m - 1 \in 0 .. 8
        BY <2>1
      <3> QED BY <2>1, <3>1, PowUnrolls
    <2>3. PICK b \in Nat : Base = 2 * b
      BY BaseAssumption
    <2>4. b * Pow[m - 1] \in Nat /\ Pow[m] = 2 * (b * Pow[m - 1])
      BY <2>2, <2>3
    <2>5. Pow[m] = 2 * (Pow[m] \div 2)
      BY <2>2, <2>4
    <2> QED BY <2>2, <2>5 DEF m
  <1>3. FromBytes(bytes, f.signed) = IF f.signed /\ u >= full \div 2 THEN u - full ELSE u
    BY DEF FromBytes
  <1>4. ValuesOf(f) = IF f.signed THEN -(full \div 2) .. (full \div 2) - 1 ELSE 0 .. full - 1
    BY DEF ValuesOf
  <1> HIDE DEF u, full
  <1> QED BY <1>1, <1>2, <1>3, <1>4 DEF IsField

\* A value of the field's type comes back.
LEMMA ValueBack ==
    ASSUME NEW f, IsField(f), NEW v \in ValuesOf(f)
    PROVE  v \in Int /\ FromBytes(ToBytes(v, f.bytes), f.signed) = v
  <1> DEFINE bytes == ToBytes(v, f.bytes)
             u == Unsigned(bytes)
             full == Pow[f.bytes]
  <1>0. f.bytes \in 0 .. 8 /\ full \in Nat \ {0}
    BY PowUnrolls DEF IsField
  <1>4. ValuesOf(f) = IF f.signed THEN -(full \div 2) .. (full \div 2) - 1 ELSE 0 .. full - 1
    BY DEF ValuesOf
  <1>v. v \in Int
    BY <1>0, <1>4 DEF IsField
  <1>1. u = v % full
    BY <1>0, <1>v, BytesBack
  <1>2. Len(bytes) = f.bytes
    BY <1>0, <1>v, BytesOf
  <1>3. FromBytes(bytes, f.signed) = IF f.signed /\ u >= full \div 2 THEN u - full ELSE u
    BY <1>2 DEF FromBytes
  <1> HIDE DEF u, full, bytes
  <1>5. CASE v >= 0
    <2>1. v \in 0 .. full - 1
      BY <1>0, <1>4, <1>5, <1>v DEF IsField
    <2>2. v % full = v
      BY <1>0, <2>1
    <2> QED BY <1>0, <1>1, <1>3, <1>4, <1>v, <2>2 DEF bytes, IsField
  <1>6. CASE v < 0
    <2>1. f.signed /\ v >= -(full \div 2) /\ full \div 2 \in Nat /\ full - full \div 2 >= full \div 2
      BY <1>0, <1>4, <1>6, <1>v DEF IsField
    <2>2. v + full \in 0 .. full - 1 /\ v = full * (-1) + (v + full)
      BY <1>0, <1>6, <1>v, <2>1
    <2>3. v % full = v + full
      BY <1>0, <1>v, <2>2, OneQuotient
    <2> QED BY <1>0, <1>1, <1>3, <1>v, <2>1, <2>3 DEF bytes
  <1> QED BY <1>v, <1>5, <1>6 DEF bytes

-----------------------------------------------------------------------------
(* Where the fields are.                                                   *)

GoodFields(fields, n) ==
    /\ DOMAIN fields = 1 .. n
    /\ \A i \in 1 .. n : IsField(fields[i])
    /\ \A i, j \in 1 .. n : fields[i].name = fields[j].name => i = j

\* off[i] is the place behind the first i fields.
Offsets(off, fields, n) ==
    off[0] = 2 /\ \A i \in 1 .. n : off[i] = off[i - 1] + fields[i].bytes

\* A later field is at a later place.
LEMMA OffsetsGrow ==
    ASSUME NEW n \in Nat, NEW fields, GoodFields(fields, n),
           NEW off \in [0 .. n -> Nat], Offsets(off, fields, n)
    PROVE  \A k \in 0 .. n : off[k] >= 2 /\ \A j \in 0 .. k : off[j] <= off[k]
  <1> DEFINE ok == {k \in 0 .. n : off[k] >= 2 /\ \A j \in 0 .. k : off[j] <= off[k]}
  <1>0. \A j \in 0 .. n : off[j] \in Nat
    OBVIOUS
  <1>1. 0 \in ok
    BY DEF Offsets
  <1>2. ASSUME NEW k \in 1 .. n, k - 1 \in ok PROVE k \in ok
    <2>1. k \in 0 .. n /\ k - 1 \in 0 .. n
      OBVIOUS
    <2>2. off[k - 1] >= 2 /\ \A j \in 0 .. k - 1 : off[j] <= off[k - 1]
      BY <1>2
    <2>3. fields[k].bytes \in 1 .. 8
      BY DEF GoodFields, IsField
    <2>4. off[k] = off[k - 1] + fields[k].bytes
      BY DEF Offsets
    <2>5. \A j \in 0 .. k : j = k \/ j \in 0 .. k - 1
      OBVIOUS
    <2>6. off[k] >= off[k - 1] /\ off[k] >= 2
      <3>1. off[k] \in Nat /\ off[k - 1] \in Nat
        BY <1>0, <2>1
      <3>2. \A a, b \in Nat, w \in 1 .. 8 : a = b + w /\ b >= 2 => a >= b /\ a >= 2
        OBVIOUS
      <3> QED BY <2>2, <2>3, <2>4, <3>1, <3>2
    <2>7. \A j \in 0 .. k : off[j] <= off[k]
      <3> TAKE j \in 0 .. k
      <3>1. CASE j = k
        BY <1>0, <2>1, <3>1
      <3>2. CASE j \in 0 .. k - 1
        <4>1. off[j] <= off[k - 1] /\ off[j] \in Nat
          BY <1>0, <2>2, <3>2
        <4> QED BY <1>0, <2>1, <2>6, <4>1
      <3> QED BY <2>5, <3>1, <3>2
    <2> QED BY <2>1, <2>6, <2>7
  <1>3. \A k \in 0 .. n : k \in ok
    <2>1. \A k \in 1 .. n : k - 1 \in ok => k \in ok
      BY <1>2
    <2> HIDE DEF ok
    <2> QED BY <1>1, <2>1, AlongRange
  <1> QED BY <1>3

\* A field begins behind the constant byte and ends where the next one begins.
LEMMA EachOffset ==
    ASSUME NEW n \in Nat, NEW fields, GoodFields(fields, n),
           NEW off \in [0 .. n -> Nat], Offsets(off, fields, n), NEW j \in 1 .. n
    PROVE  /\ off[j - 1] \in Nat /\ off[j - 1] >= 2 /\ off[j] \in Nat
           /\ off[j] = off[j - 1] + fields[j].bytes
  <1>1. j \in 0 .. n /\ j - 1 \in 0 .. n
    OBVIOUS
  <1>2. off[j - 1] >= 2
    BY <1>1, OffsetsGrow
  <1> QED BY <1>1, <1>2 DEF Offsets

\* What is written, place by place.
LaidOut(packet, off, build, data, n) ==
    /\ packet \in Seq(Bytes) /\ Len(packet) = off[n] - 1 /\ packet[1] = build.cmd
    /\ \A j \in 1 .. n : \A x \in 1 .. build.fields[j].bytes :
           packet[off[j - 1] + x - 1] = FieldBytes(build, data, j)[x]

\* A packet is the constant byte and each field in its place, and nothing else.
LEMMA PacketLayout ==
    ASSUME NEW build, NEW data, NEW n \in Nat, GoodFields(build.fields, n), build.cmd \in Bytes,
           \A i \in 1 .. n : data[build.fields[i].name] \in Int
    PROVE  \E off \in [0 .. n -> Nat] : /\ Offsets(off, build.fields, n)
                                        /\ LaidOut(WriteFields(build, data), off, build, data, n)
  <1> DEFINE w(i) == build.fields[i].bytes
             b(i) == FieldBytes(build, data, i)
  <1>1. \A i \in 1 .. n : w(i) \in 1 .. 8 /\ b(i) \in Seq(Bytes) /\ Len(b(i)) = w(i)
    <2> TAKE i \in 1 .. n
    <2>1. w(i) \in 1 .. 8
      BY DEF GoodFields, IsField
    <2>2. w(i) \in 0 .. 8 /\ data[build.fields[i].name] \in Int
      BY <2>1
    <2> QED BY <2>1, <2>2, BytesOf DEF FieldBytes
  <1>2. DOMAIN build.fields = 1 .. n
    BY DEF GoodFields
  <1>p. PICK h \in [0 .. n -> Seq(Bytes)] : WritesAlong(h, build, data, n)
    <2>1. \A i \in 1 .. n : b(i) \in Seq(Bytes)
      BY <1>1
    <2> QED BY <1>2, <2>1, WriteFieldsUnrolls
  <1>3. /\ h[0] = <<build.cmd>> /\ h[n] = WriteFields(build, data)
        /\ \A i \in 1 .. n : h[i] = h[i - 1] \o b(i)
    BY <1>p DEF WritesAlong
  <1> HIDE DEF b, w
  <1> DEFINE off == [k \in 0 .. n |-> Len(h[k]) + 1]
             ok == {k \in 0 .. n :
                      /\ h[k][1] = build.cmd
                      /\ \A j \in 1 .. k : \A x \in 1 .. w(j) : h[k][off[j - 1] + x - 1] = b(j)[x]}
  <1>4. \A k \in 0 .. n : Len(h[k]) \in Nat /\ h[k] \in Seq(Bytes)
    BY LenProperties
  <1>5. off \in [0 .. n -> Nat] /\ \A k \in 0 .. n : off[k] = Len(h[k]) + 1
    BY <1>4
  <1> HIDE DEF off
  <1>6. \A i \in 1 .. n : /\ i \in 0 .. n /\ i - 1 \in 0 .. n
                          /\ Len(h[i]) = Len(h[i - 1]) + w(i)
                          /\ \A x \in 1 .. Len(h[i - 1]) : h[i][x] = h[i - 1][x]
                          /\ \A x \in 1 .. w(i) : h[i][Len(h[i - 1]) + x] = b(i)[x]
    <2> TAKE i \in 1 .. n
    <2>1. i \in 0 .. n /\ i - 1 \in 0 .. n
      OBVIOUS
    <2> DEFINE s == h[i - 1]
               t == b(i)
               m == Len(s)
    <2>2. s \in Seq(Bytes) /\ t \in Seq(Bytes) /\ m \in Nat /\ Len(t) = w(i) /\ w(i) \in 1 .. 8
      BY <1>1, <1>4, <2>1
    <2>3. h[i] = s \o t
      BY <1>3
    <2>4. Len(h[i]) = m + Len(t) /\ \A x \in 1 .. m + Len(t) :
                        h[i][x] = IF x <= m THEN s[x] ELSE t[x - m]
      <3> HIDE DEF s, t
      <3> QED BY <2>2, <2>3, ConcatProperties
    <2> HIDE DEF s, t, m
    <2>5. Len(h[i]) = m + w(i) /\ \A x \in 1 .. m : h[i][x] = s[x]
      <3>1. \A x \in 1 .. m : x \in 1 .. m + Len(t) /\ x <= m
        BY <2>2
      <3> QED BY <2>2, <2>4, <3>1
    <2>6. \A x \in 1 .. w(i) : h[i][m + x] = t[x]
      <3> TAKE x \in 1 .. w(i)
      <3>1. m + x \in 1 .. m + Len(t) /\ ~(m + x <= m) /\ (m + x) - m = x
        BY <2>2
      <3> QED BY <2>4, <3>1
    <2> QED BY <2>1, <2>5, <2>6 DEF s, t, m
  <1>7. Offsets(off, build.fields, n)
    <2>1. off[0] = 2
      <3>1. 0 \in 0 .. n /\ Len(<<build.cmd>>) = 1
        OBVIOUS
      <3>2. off[0] = Len(<<build.cmd>>) + 1
        BY <1>3, <1>5, <3>1
      <3> QED BY <3>1, <3>2
    <2>2. ASSUME NEW i \in 1 .. n PROVE off[i] = off[i - 1] + w(i)
      <3>1. w(i) \in Int /\ Len(h[i - 1]) \in Int /\ Len(h[i]) = Len(h[i - 1]) + w(i)
        BY <1>1, <1>4, <1>6
      <3>2. off[i] = Len(h[i]) + 1 /\ off[i - 1] = Len(h[i - 1]) + 1
        BY <1>5, <1>6
      <3> QED BY <3>1, <3>2
    <2> QED BY <2>1, <2>2 DEF Offsets, w
  <1>8. \A j \in 1 .. n : /\ off[j - 1] \in Nat /\ off[j - 1] >= 2
                          /\ off[j] = off[j - 1] + w(j) /\ off[j] \in Nat
    BY <1>5, <1>7, EachOffset DEF w
  <1>9. 0 \in ok
    BY <1>3
  <1>10. ASSUME NEW k \in 1 .. n, k - 1 \in ok PROVE k \in ok
    <2>1. k \in 0 .. n /\ k - 1 \in 0 .. n
      OBVIOUS
    <2> DEFINE m == Len(h[k - 1])
    <2>2. /\ m \in Nat /\ off[k - 1] = m + 1 /\ off[k] = m + 1 + w(k) /\ m >= 1
          /\ \A x \in 1 .. m : h[k][x] = h[k - 1][x]
          /\ \A x \in 1 .. w(k) : h[k][m + x] = b(k)[x]
      <3>1. m \in Nat /\ off[k - 1] = m + 1 /\ off[k - 1] >= 2 /\ off[k] = off[k - 1] + w(k)
        BY <1>4, <1>5, <1>8, <2>1
      <3>2. w(k) \in Nat /\ m >= 1
        BY <1>1, <3>1
      <3> QED BY <1>6, <3>1, <3>2
    <2> HIDE DEF m
    <2>3. /\ h[k - 1][1] = build.cmd
          /\ \A j \in 1 .. k - 1 : \A x \in 1 .. w(j) : h[k - 1][off[j - 1] + x - 1] = b(j)[x]
      BY <1>10
    <2>4. h[k][1] = build.cmd
      BY <2>2, <2>3
    <2>5. ASSUME NEW j \in 1 .. k, NEW x \in 1 .. w(j) PROVE h[k][off[j - 1] + x - 1] = b(j)[x]
      <3>1. CASE j = k
        <4>1. x \in Int /\ off[j - 1] + x - 1 = m + x
          BY <1>1, <2>2, <3>1
        <4> QED BY <2>2, <3>1, <4>1
      <3>2. CASE j \in 1 .. k - 1
        <4>1. j \in 1 .. n /\ j \in 0 .. k - 1 /\ w(j) \in 1 .. 8 /\ x \in Int
          BY <1>1, <3>2
        <4>2. off[j] <= off[k - 1]
          BY <1>5, <1>7, <2>1, <4>1, OffsetsGrow
        <4>3. off[j - 1] \in Nat /\ off[j - 1] >= 2 /\ off[j] = off[j - 1] + w(j)
          BY <1>8, <4>1
        <4>4. off[j - 1] + x - 1 \in 1 .. m
          <5>1. \A p, q, r \in Nat, v \in 1 .. 8, y \in Int :
                   y \in 1 .. v /\ p >= 2 /\ q = p + v /\ q <= r + 1 => p + y - 1 \in 1 .. r
            OBVIOUS
          <5>2. off[j] \in Nat /\ off[j] <= m + 1
            BY <1>8, <2>2, <4>1, <4>2
          <5> QED BY <2>2, <4>1, <4>3, <5>1, <5>2
        <4> QED BY <2>2, <2>3, <3>2, <4>4
      <3>3. j = k \/ j \in 1 .. k - 1
        OBVIOUS
      <3> QED BY <3>1, <3>2, <3>3
    <2> QED BY <2>1, <2>4, <2>5
  <1>11. \A k \in 0 .. n : k \in ok
    <2>1. \A k \in 1 .. n : k - 1 \in ok => k \in ok
      BY <1>10
    <2> HIDE DEF ok
    <2> QED BY <1>9, <2>1, AlongRange
  <1>12. n \in ok /\ n \in 0 .. n
    BY <1>11
  <1>13. LaidOut(WriteFields(build, data), off, build, data, n)
    <2>1. /\ h[n][1] = build.cmd
          /\ \A j \in 1 .. n : \A x \in 1 .. w(j) : h[n][off[j - 1] + x - 1] = b(j)[x]
      BY <1>12
    <2>2. Len(h[n]) = off[n] - 1 /\ h[n] \in Seq(Bytes)
      <3>1. Len(h[n]) \in Nat /\ off[n] = Len(h[n]) + 1
        BY <1>4, <1>5, <1>12
      <3> QED BY <1>4, <1>12, <3>1
    <2> QED BY <1>3, <2>1, <2>2 DEF LaidOut, b, w
  <1> QED BY <1>5, <1>7, <1>13

-----------------------------------------------------------------------------
(* Reading.                                                                *)

Nothing == [next |-> 2, data |-> <<>>]

FieldNames(fields, k) == {fields[i].name : i \in 1 .. k}

ReadAt(fields, bytes, i, at) ==
    FromBytes(SubSeq(bytes, at, at + fields[i].bytes - 1), fields[i].signed)

ReadsAlong(h, fields, bytes, n) ==
    /\ h[0] = Nothing /\ h[n].data = ReadFields(fields, bytes)
    /\ \A i \in 1 .. n : h[i] = ReadField(h[i - 1], fields[i], bytes)

\* Reading goes through one field after the other.
LEMMA ReadFieldsUnrolls ==
    ASSUME NEW fields, NEW n \in Nat, GoodFields(fields, n), NEW bytes
    PROVE  \E h : ReadsAlong(h, fields, bytes, n)
  <1> DEFINE Vals == {ReadAt(fields, bytes, p[1], p[2]) : p \in (1 .. n) \X Nat}
             V == [next : Nat, data : UNION {[N -> Vals] : N \in SUBSET FieldNames(fields, n)}]
             Eq(g) == g = [s \in SUBSET (1 .. n) |->
                             IF s = {} THEN Nothing
                             ELSE ReadField(g[s \ {Max(s)}], fields[Max(s)], bytes)]
             iter == CHOOSE g : Eq(g)
             step == [p \in V \X (1 .. n) |-> ReadField(p[1], fields[p[2]], bytes)]
  <1>0. DOMAIN fields = 1 .. n /\ \A i \in 1 .. n : fields[i].bytes \in Nat
    BY DEF GoodFields, IsField
  <1>1. ReadFields(fields, bytes) = iter[1 .. n].data
    BY <1>0 DEF ReadFields, FoldLeft, MapThenFoldSet, Nothing
  <1>b. Nothing \in V
    <2>1. {} \in SUBSET FieldNames(fields, n) /\ <<>> \in [{} -> Vals]
      OBVIOUS
    <2> HIDE DEF Vals
    <2> QED BY <2>1 DEF Nothing
  <1>2. \A v \in V, i \in 1 .. n : ReadField(v, fields[i], bytes) \in V
    <2> TAKE v \in V, i \in 1 .. n
    <2> DEFINE new == ReadAt(fields, bytes, i, v.next)
               N == DOMAIN v.data \cup {fields[i].name}
               d == [m \in N |-> IF m = fields[i].name THEN new ELSE v.data[m]]
    <2>1. v.next \in Nat /\ new \in Vals
      <3>1. v.next \in Nat
        OBVIOUS
      <3>2. <<i, v.next>> \in (1 .. n) \X Nat
        BY <3>1
      <3> QED BY <3>1, <3>2
    <2>2. PICK M \in SUBSET FieldNames(fields, n) : v.data \in [M -> Vals]
      <3> HIDE DEF Vals
      <3> QED  OBVIOUS
    <2>3. ReadField(v, fields[i], bytes) = [next |-> v.next + fields[i].bytes, data |-> d]
      BY DEF ReadField, ReadAt
    <2> HIDE DEF Vals, new
    <2>4. N \in SUBSET FieldNames(fields, n)
      BY <2>2 DEF FieldNames
    <2>5. d \in [N -> Vals]
      BY <2>1, <2>2
    <2>6. d \in UNION {[K -> Vals] : K \in SUBSET FieldNames(fields, n)}
      BY <2>4, <2>5
    <2>7. v.next + fields[i].bytes \in Nat
      BY <1>0, <2>1
    <2> HIDE DEF d, N
    <2> QED BY <2>3, <2>6, <2>7
  <1> HIDE DEF V, Vals
  <1>3. \A v \in V, i \in 1 .. n : step[<<v, i>>] = ReadField(v, fields[i], bytes)
    OBVIOUS
  <1>4. step \in [V \X (1 .. n) -> V]
    BY <1>2
  <1> HIDE DEF step
  <1>5. \A s \in SUBSET (1 .. n) : s # {} => Max(s) \in 1 .. n /\ s \ {Max(s)} \in SUBSET (1 .. n)
    BY MaxOfSome
  <1>6. Eq(iter)
    <2>1. PICK g \in [SUBSET (1 .. n) -> V] : Folds(g, n, Nothing, step)
      BY <1>b, <1>4, FoldExists
    <2>2. \A s \in SUBSET (1 .. n) : g[s] = IF s = {} THEN Nothing
                                            ELSE ReadField(g[s \ {Max(s)}], fields[Max(s)], bytes)
      BY <1>3, <1>5, <2>1 DEF Folds
    <2>3. Eq(g)
      BY <2>1, <2>2
    <2> HIDE DEF Eq
    <2> QED BY <2>3
  <1>7. /\ iter[{}] = Nothing
        /\ \A s \in SUBSET (1 .. n) :
               s # {} => iter[s] = ReadField(iter[s \ {Max(s)}], fields[Max(s)], bytes)
    BY <1>6
  <1> HIDE DEF iter, Eq
  <1>8. \A s \in SUBSET (1 .. n) : s # {} /\ iter[s \ {Max(s)}] \in V
                                       => iter[s] = step[<<iter[s \ {Max(s)}], Max(s)>>]
    BY <1>3, <1>5, <1>7
  <1>9. PICK h \in [0 .. n -> V] : Unrolls(h, iter, n, Nothing, step)
    <2>1. FoldsIn(V, iter, n, Nothing, step)
      BY <1>7, <1>8 DEF FoldsIn
    <2> QED BY <1>b, <1>4, <2>1, FoldUnrolls
  <1>10. \A i \in 1 .. n : h[i] = ReadField(h[i - 1], fields[i], bytes)
    <2> TAKE i \in 1 .. n
    <2>1. i - 1 \in 0 .. n
      OBVIOUS
    <2> QED BY <1>3, <1>9, <2>1 DEF Unrolls
  <1> QED BY <1>1, <1>9, <1>10 DEF Unrolls, ReadsAlong

\* Every field is read from its own place.
LEMMA ReadsEach ==
    ASSUME NEW fields, NEW n \in Nat, GoodFields(fields, n), NEW bytes,
           NEW off \in [0 .. n -> Nat], Offsets(off, fields, n)
    PROVE  /\ ReadFields(fields, bytes)
                  = [m \in FieldNames(fields, n) |-> ReadFields(fields, bytes)[m]]
           /\ \A j \in 1 .. n :
                  ReadFields(fields, bytes)[fields[j].name] = ReadAt(fields, bytes, j, off[j - 1])
  <1>1. PICK h : ReadsAlong(h, fields, bytes, n)
    BY ReadFieldsUnrolls
  <1>2. \A i \in 1 .. n : h[i] = ReadField(h[i - 1], fields[i], bytes)
    BY <1>1 DEF ReadsAlong
  <1> DEFINE at(j) == ReadAt(fields, bytes, j, off[j - 1])
             ok == {k \in 0 .. n :
                      /\ h[k].next = off[k]
                      /\ h[k].data = [m \in FieldNames(fields, k) |-> h[k].data[m]]
                      /\ \A j \in 1 .. k : h[k].data[fields[j].name] = at(j)}
  <1>3. 0 \in ok
    <2>1. h[0].next = 2 /\ h[0].data = <<>>
      BY <1>1 DEF ReadsAlong, Nothing
    <2>2. FieldNames(fields, 0) = {}
      BY DEF FieldNames
    <2>3. h[0].data = [m \in FieldNames(fields, 0) |-> h[0].data[m]]
      BY <2>1, <2>2
    <2> HIDE DEF at
    <2> QED BY <2>1, <2>3 DEF Offsets
  <1>4. ASSUME NEW k \in 1 .. n, k - 1 \in ok PROVE k \in ok
    <2>1. k \in 0 .. n /\ k - 1 \in 0 .. n
      OBVIOUS
    <2> DEFINE acc == h[k - 1]
    <2>2. /\ acc.next = off[k - 1]
          /\ acc.data = [m \in FieldNames(fields, k - 1) |-> acc.data[m]]
          /\ \A j \in 1 .. k - 1 : acc.data[fields[j].name] = at(j)
      BY <1>4
    <2>3. h[k] = ReadField(acc, fields[k], bytes)
      BY <1>2
    <2> HIDE DEF acc
    <2>4. h[k] = [next |-> off[k - 1] + fields[k].bytes,
                  data |-> [m \in DOMAIN acc.data \cup {fields[k].name} |->
                               IF m = fields[k].name THEN at(k) ELSE acc.data[m]]]
      BY <2>2, <2>3 DEF ReadField, ReadAt
    <2> HIDE DEF at
    <2>5. h[k].next = off[k]
      BY <2>4 DEF Offsets
    <2>6. DOMAIN acc.data \cup {fields[k].name} = FieldNames(fields, k)
      <3>1. DOMAIN acc.data = FieldNames(fields, k - 1)
        BY <2>2
      <3>2. \A i : i \in 1 .. k <=> i \in 1 .. k - 1 \/ i = k
        OBVIOUS
      <3> QED BY <3>1, <3>2 DEF FieldNames
    <2>7. h[k].data = [m \in FieldNames(fields, k) |->
                          IF m = fields[k].name THEN at(k) ELSE acc.data[m]]
      BY <2>4, <2>6
    <2>8. h[k].data = [m \in FieldNames(fields, k) |-> h[k].data[m]]
      BY <2>7
    <2>9. ASSUME NEW j \in 1 .. k PROVE h[k].data[fields[j].name] = at(j)
      <3>1. fields[j].name \in FieldNames(fields, k)
        BY DEF FieldNames
      <3>2. CASE j = k
        BY <2>7, <3>1, <3>2
      <3>3. CASE j \in 1 .. k - 1
        <4>1. j \in 1 .. n /\ k \in 1 .. n /\ j # k
          BY <3>3
        <4>2. fields[j].name # fields[k].name
          BY <4>1 DEF GoodFields
        <4> QED BY <2>2, <2>7, <3>1, <3>3, <4>2
      <3>4. j = k \/ j \in 1 .. k - 1
        OBVIOUS
      <3> QED BY <3>2, <3>3, <3>4
    <2> QED BY <2>1, <2>5, <2>8, <2>9
  <1>5. \A k \in 0 .. n : k \in ok
    <2>1. \A k \in 1 .. n : k - 1 \in ok => k \in ok
      BY <1>4
    <2> HIDE DEF ok
    <2> QED BY <1>3, <2>1, AlongRange
  <1>6. n \in ok
    BY <1>5, SMTT(30)
  <1>7. h[n].data = ReadFields(fields, bytes)
    BY <1>1 DEF ReadsAlong
  <1> HIDE DEF at
  <1>8. /\ h[n].data = [m \in FieldNames(fields, n) |-> h[n].data[m]]
        /\ \A j \in 1 .. n : h[n].data[fields[j].name] = at(j)
    BY <1>6
  <1> QED BY <1>7, <1>8 DEF at

\* What is read has the types of the fields, whatever the bytes are.
LEMMA ReadsInType ==
    ASSUME NEW fields, NEW n \in Nat, GoodFields(fields, n),
           NEW off \in [0 .. n -> Nat], Offsets(off, fields, n),
           NEW bytes \in Seq(Bytes), Len(bytes) = off[n] - 1
    PROVE  \A j \in 1 .. n : ReadFields(fields, bytes)[fields[j].name] \in ValuesOf(fields[j])
  <1> TAKE j \in 1 .. n
  <1> DEFINE a == off[j - 1]
             w == fields[j].bytes
  <1>1. a \in Nat /\ a >= 2 /\ off[j] \in Nat /\ off[j] = a + w
    BY EachOffset
  <1>2. IsField(fields[j]) /\ w \in 1 .. 8
    BY DEF GoodFields, IsField
  <1>3. off[j] <= off[n] /\ off[n] \in Nat
    <2>1. n \in 0 .. n /\ j \in 0 .. n
      OBVIOUS
    <2> QED BY <2>1, OffsetsGrow
  <1>4. ReadFields(fields, bytes)[fields[j].name] = ReadAt(fields, bytes, j, a)
    <2>1. \A i \in 1 .. n :
              ReadFields(fields, bytes)[fields[i].name] = ReadAt(fields, bytes, i, off[i - 1])
      <3> HIDE DEF a, w
      <3> QED BY ReadsEach, ZenonT(60)
    <2> QED BY <2>1
  <1> HIDE DEF a, w
  <1>5. \A i \in a .. a + w - 1 : bytes[i] \in Bytes
    <2> TAKE i \in a .. a + w - 1
    <2>1. i \in 1 .. off[n] - 1
      BY <1>1, <1>2, <1>3
    <2> QED BY <2>1, LenProperties
  <1> DEFINE s == SubSeq(bytes, a, a + w - 1)
  <1>6. s \in Seq(Bytes) /\ Len(s) = w
    <2>1. a \in Int /\ a + w - 1 \in Int /\ a <= a + w - 1 /\ (a + w - 1) - a + 1 = w
      BY <1>1, <1>2
    <2> QED BY <1>5, <2>1, SubSeqProperties
  <1>7. ReadAt(fields, bytes, j, a) = FromBytes(s, fields[j].signed)
    BY DEF ReadAt, w
  <1> HIDE DEF s
  <1>8. FromBytes(s, fields[j].signed) \in ValuesOf(fields[j])
    BY <1>2, <1>6, ReadInType DEF w
  <1> QED BY <1>4, <1>7, <1>8

\* What was written is read back.
LEMMA RoundTrip ==
    ASSUME NEW build, NEW n \in Nat, GoodFields(build.fields, n), build.cmd \in Bytes,
           NEW data, data = [m \in FieldNames(build.fields, n) |-> data[m]],
           \A j \in 1 .. n : data[build.fields[j].name] \in ValuesOf(build.fields[j])
    PROVE  ReadFields(build.fields, WriteFields(build, data)) = data
  <1> DEFINE fields == build.fields
             packet == WriteFields(build, data)
  <1>1. \A j \in 1 .. n : IsField(fields[j])
    BY DEF GoodFields
  <1>2. \A j \in 1 .. n : /\ data[fields[j].name] \in Int
                          /\ FromBytes(FieldBytes(build, data, j), fields[j].signed)
                                 = data[fields[j].name]
    BY <1>1, ValueBack DEF FieldBytes
  <1>3. PICK off \in [0 .. n -> Nat] : Offsets(off, fields, n) /\ LaidOut(packet, off, build, data, n)
    BY <1>2, PacketLayout
  <1> HIDE DEF packet
  <1>4. ASSUME NEW j \in 1 .. n PROVE ReadAt(fields, packet, j, off[j - 1]) = data[fields[j].name]
    <2> DEFINE a == off[j - 1]
               w == fields[j].bytes
               s == SubSeq(packet, a, a + w - 1)
               t == FieldBytes(build, data, j)
    <2>1. a \in Nat /\ a >= 2
      BY <1>3, EachOffset
    <2>2. w \in 1 .. 8
      BY <1>1 DEF IsField
    <2>3. t \in Seq(Bytes) /\ Len(t) = w
      <3>1. w \in 0 .. 8
        BY <2>2
      <3> QED BY <1>2, <3>1, BytesOf DEF FieldBytes
    <2>4. \A x \in 1 .. w : packet[a + x - 1] = t[x]
      BY <1>3 DEF LaidOut
    <2>5. ReadAt(fields, packet, j, a) = FromBytes(s, fields[j].signed)
      BY DEF ReadAt
    <2> HIDE DEF a, w, t
    <2>6. \A i \in a .. a + w - 1 : packet[i] \in Bytes
      <3> TAKE i \in a .. a + w - 1
      <3>1. i - a + 1 \in 1 .. w /\ a + (i - a + 1) - 1 = i
        BY <2>1, <2>2, SMTT(30)
      <3>2. packet[i] = t[i - a + 1]
        BY <2>4, <3>1
      <3>3. t[i - a + 1] \in Bytes
        BY <2>3, <3>1, ElementOfSeq
      <3> QED BY <3>2, <3>3
    <2>7. /\ s \in Seq(Bytes) /\ Len(s) = w /\ \A x \in 1 .. w : s[x] = packet[a + x - 1]
      <3>1. a \in Int /\ a + w - 1 \in Int /\ a <= a + w - 1 /\ (a + w - 1) - a + 1 = w
        BY <2>1, <2>2
      <3> QED BY <2>6, <3>1, SubSeqProperties
    <2> HIDE DEF s
    <2>8. s = t
      BY <2>3, <2>4, <2>7, SeqEqual
    <2> QED BY <1>2, <2>5, <2>8 DEF a, t
  <1>5. /\ ReadFields(fields, packet)
               = [m \in FieldNames(fields, n) |-> ReadFields(fields, packet)[m]]
        /\ \A j \in 1 .. n : ReadFields(fields, packet)[fields[j].name] = data[fields[j].name]
    <2> DEFINE r == ReadFields(fields, packet)
    <2>1. /\ r = [m \in FieldNames(fields, n) |-> r[m]]
          /\ \A j \in 1 .. n : r[fields[j].name] = ReadAt(fields, packet, j, off[j - 1])
      BY <1>3, ReadsEach, SMTT(30)
    <2> QED BY <1>4, <2>1
  <1>6. \A m \in FieldNames(fields, n) : ReadFields(fields, packet)[m] = data[m]
    BY <1>5 DEF FieldNames
  <1>7. ReadFields(fields, packet) = [m \in FieldNames(fields, n) |-> data[m]]
    BY <1>5, <1>6
  <1> QED BY <1>7 DEF packet

-----------------------------------------------------------------------------
(* The eight kinds.                                                        *)

Size(kind) == Len(Structs[kind])

\* The entry and the struct of each kind.
LEMMA EachKind ==
    ASSUME NEW kind \in Kinds
    PROVE  \/ kind = 1 /\ SpecOf(kind) = Spec_SET_TIME_REQ /\ Structs[kind] = TK_SET_TIME_REQ
           \/ kind = 2 /\ SpecOf(kind) = Spec_SET_TIME_RSP /\ Structs[kind] = TK_SET_TIME_RSP
           \/ kind = 3 /\ SpecOf(kind) = Spec_GET_TIME_REQ /\ Structs[kind] = TK_GET_TIME_REQ
           \/ kind = 4 /\ SpecOf(kind) = Spec_GET_TIME_RSP /\ Structs[kind] = TK_GET_TIME_RSP
           \/ kind = 5 /\ SpecOf(kind) = Spec_SYNC_TIME_REQ /\ Structs[kind] = TK_SYNC_TIME_REQ
           \/ kind = 6 /\ SpecOf(kind) = Spec_SYNC_TIME_RSP /\ Structs[kind] = TK_SYNC_TIME_RSP
           \/ kind = 7 /\ SpecOf(kind) = Spec_SYNC_SLAVES_REQ /\ Structs[kind] = TK_SYNC_SLAVES_REQ
           \/ kind = 8 /\ SpecOf(kind) = Spec_SYNC_SLAVES_RSP /\ Structs[kind] = TK_SYNC_SLAVES_RSP
  <1>1. kind \in 1 .. 8
    BY DEF Kinds, Payloads_TK_plugin
  <1>2. SpecOf(kind) = payload_specs[kind]
    BY DEF SpecOf, Payloads_TK_plugin
  <1> QED BY <1>1, <1>2 DEF payload_specs, Structs

\* The members of a struct are fields, each with a name of its own.
LEMMA TypesAreFields ==
    ASSUME NEW name
    PROVE  /\ IsField(u8(name)) /\ IsField(u64(name)) /\ IsField(i64(name))
           /\ u8(name).name = name /\ u64(name).name = name /\ i64(name).name = name
  BY DEF IsField, u8, u64, i64

\* The names of the members of a struct differ, and each has a type.
LEMMA StructsAreGood ==
    ASSUME NEW kind \in Kinds
    PROVE  Size(kind) \in Nat /\ GoodFields(Structs[kind], Size(kind))
  <1> DEFINE s == Structs[kind]
  <1>1. CASE s = TK_SET_TIME_REQ
    <2>1. Size(kind) = 1 /\ DOMAIN s = 1 .. 1
      BY <1>1 DEF TK_SET_TIME_REQ, Size
    <2>2. s[1] = u64("time")
      BY <1>1 DEF TK_SET_TIME_REQ
    <2>3. \A i \in 1 .. 1 : i = 1
      OBVIOUS
    <2> HIDE DEF s
    <2> QED BY <2>1, <2>2, <2>3, TypesAreFields DEF GoodFields, s
  <1>2. CASE s = TK_SET_TIME_RSP
    <2>1. Size(kind) = 1 /\ DOMAIN s = 1 .. 1
      BY <1>2 DEF TK_SET_TIME_RSP, Size
    <2>2. s[1] = u8("ret_val")
      BY <1>2 DEF TK_SET_TIME_RSP
    <2>3. \A i \in 1 .. 1 : i = 1
      OBVIOUS
    <2> HIDE DEF s
    <2> QED BY <2>1, <2>2, <2>3, TypesAreFields DEF GoodFields, s
  <1>3. CASE s = TK_GET_TIME_REQ
    <2>1. Size(kind) = 0 /\ DOMAIN s = 1 .. 0
      BY <1>3 DEF TK_GET_TIME_REQ, Size
    <2> QED BY <2>1 DEF GoodFields
  <1>4. CASE s = TK_GET_TIME_RSP
    <2>1. Size(kind) = 1 /\ DOMAIN s = 1 .. 1
      BY <1>4 DEF TK_GET_TIME_RSP, Size
    <2>2. s[1] = u64("time")
      BY <1>4 DEF TK_GET_TIME_RSP
    <2>3. \A i \in 1 .. 1 : i = 1
      OBVIOUS
    <2> HIDE DEF s
    <2> QED BY <2>1, <2>2, <2>3, TypesAreFields DEF GoodFields, s
  <1>5. CASE s = TK_SYNC_TIME_REQ
    <2>1. Size(kind) = 2 /\ DOMAIN s = 1 .. 2
      BY <1>5 DEF TK_SYNC_TIME_REQ, Size
    <2>2. s[1] = i64("frequency") /\ s[2] = u8("flags")
      BY <1>5 DEF TK_SYNC_TIME_REQ
    <2>3. \A i \in 1 .. 2 : i = 1 \/ i = 2
      OBVIOUS
    <2> HIDE DEF s
    <2> QED BY <2>1, <2>2, <2>3, TypesAreFields DEF GoodFields, s
  <1>6. CASE s = TK_SYNC_TIME_RSP
    <2>1. Size(kind) = 6 /\ DOMAIN s = 1 .. 6
      BY <1>6 DEF TK_SYNC_TIME_RSP, Size
    <2>2. /\ s[1] = u8("error") /\ s[2] = u64("last_sync") /\ s[3] = u8("mode")
          /\ s[4] = u8("master_node") /\ s[5] = u8("last_failed_node")
          /\ s[6] = u8("ret_val")
      BY <1>6 DEF TK_SYNC_TIME_RSP
    <2>3. \A i \in 1 .. 6 : i = 1 \/ i = 2 \/ i = 3 \/ i = 4 \/ i = 5 \/ i = 6
      OBVIOUS
    <2> HIDE DEF s
    <2> QED BY <2>1, <2>2, <2>3, TypesAreFields DEF GoodFields, s
  <1>7. CASE s = TK_SYNC_SLAVES_REQ
    <2>1. Size(kind) = 2 /\ DOMAIN s = 1 .. 2
      BY <1>7 DEF TK_SYNC_SLAVES_REQ, Size
    <2>2. s[1] = u8("node") /\ s[2] = u64("time")
      BY <1>7 DEF TK_SYNC_SLAVES_REQ
    <2>3. \A i \in 1 .. 2 : i = 1 \/ i = 2
      OBVIOUS
    <2> HIDE DEF s
    <2> QED BY <2>1, <2>2, <2>3, TypesAreFields DEF GoodFields, s
  <1>8. CASE s = TK_SYNC_SLAVES_RSP
    <2>1. Size(kind) = 1 /\ DOMAIN s = 1 .. 1
      BY <1>8 DEF TK_SYNC_SLAVES_RSP, Size
    <2>2. s[1] = u8("ret_val")
      BY <1>8 DEF TK_SYNC_SLAVES_RSP
    <2>3. \A i \in 1 .. 1 : i = 1
      OBVIOUS
    <2> HIDE DEF s
    <2> QED BY <2>1, <2>2, <2>3, TypesAreFields DEF GoodFields, s
  <1> QED BY <1>1, <1>2, <1>3, <1>4, <1>5, <1>6, <1>7, <1>8, EachKind

\* All functions of a kind agree on its fields, its length and its first byte.
LEMMA KindsAgree ==
    ASSUME NEW kind \in Kinds
    PROVE  /\ SpecOf(kind).pld_id = kind
           /\ SpecOf(kind).parse.fields = Structs[kind]
           /\ SpecOf(kind).build.fields = Structs[kind]
           /\ SpecOf(kind).parse.length = SpecOf(kind).bin_size
           /\ SpecOf(kind).build.byte_size = SpecOf(kind).bin_size
           /\ SpecOf(kind).build.cmd = SpecOf(kind).tester
           /\ SpecOf(kind).recognize /\ ~SpecOf(kind).growable
  <1> USE DEF Entry, Reads, Writes
  <1>1. CASE kind = 1 /\ SpecOf(kind) = Spec_SET_TIME_REQ /\ Structs[kind] = TK_SET_TIME_REQ
    BY <1>1 DEF Spec_SET_TIME_REQ, TK_SET_TIME_REQ, TK_SET_TIME_REQ_parse,
       TK_SET_TIME_REQ_build, TK_SET_TIME_REQ_test
  <1>2. CASE kind = 2 /\ SpecOf(kind) = Spec_SET_TIME_RSP /\ Structs[kind] = TK_SET_TIME_RSP
    BY <1>2 DEF Spec_SET_TIME_RSP, TK_SET_TIME_RSP, TK_SET_TIME_RSP_parse,
       TK_SET_TIME_RSP_build, TK_SET_TIME_RSP_test
  <1>3. CASE kind = 3 /\ SpecOf(kind) = Spec_GET_TIME_REQ /\ Structs[kind] = TK_GET_TIME_REQ
    BY <1>3 DEF Spec_GET_TIME_REQ, TK_GET_TIME_REQ, TK_GET_TIME_REQ_parse,
       TK_GET_TIME_REQ_build, TK_GET_TIME_REQ_test
  <1>4. CASE kind = 4 /\ SpecOf(kind) = Spec_GET_TIME_RSP /\ Structs[kind] = TK_GET_TIME_RSP
    BY <1>4 DEF Spec_GET_TIME_RSP, TK_GET_TIME_RSP, TK_GET_TIME_RSP_parse,
       TK_GET_TIME_RSP_build, TK_GET_TIME_RSP_test
  <1>5. CASE kind = 5 /\ SpecOf(kind) = Spec_SYNC_TIME_REQ /\ Structs[kind] = TK_SYNC_TIME_REQ
    BY <1>5 DEF Spec_SYNC_TIME_REQ, TK_SYNC_TIME_REQ, TK_SYNC_TIME_REQ_parse,
       TK_SYNC_TIME_REQ_build, TK_SYNC_TIME_REQ_test
  <1>6. CASE kind = 6 /\ SpecOf(kind) = Spec_SYNC_TIME_RSP /\ Structs[kind] = TK_SYNC_TIME_RSP
    BY <1>6 DEF Spec_SYNC_TIME_RSP, TK_SYNC_TIME_RSP, TK_SYNC_TIME_RSP_parse,
       TK_SYNC_TIME_RSP_build, TK_SYNC_TIME_RSP_test
  <1>7. CASE kind = 7 /\ SpecOf(kind) = Spec_SYNC_SLAVES_REQ /\ Structs[kind] = TK_SYNC_SLAVES_REQ
    BY <1>7 DEF Spec_SYNC_SLAVES_REQ, TK_SYNC_SLAVES_REQ, TK_SYNC_SLAVES_REQ_parse,
       TK_SYNC_SLAVES_REQ_build, TK_SYNC_SLAVES_REQ_test
  <1>8. CASE kind = 8 /\ SpecOf(kind) = Spec_SYNC_SLAVES_RSP /\ Structs[kind] = TK_SYNC_SLAVES_RSP
    BY <1>8 DEF Spec_SYNC_SLAVES_RSP, TK_SYNC_SLAVES_RSP, TK_SYNC_SLAVES_RSP_parse,
       TK_SYNC_SLAVES_RSP_build, TK_SYNC_SLAVES_RSP_test
  <1> QED BY <1>1, <1>2, <1>3, <1>4, <1>5, <1>6, <1>7, <1>8, EachKind

\* Sizes and first bytes, one by one.
LEMMA SizesAndTesters ==
    ASSUME NEW kind \in Kinds
    PROVE  /\ SpecOf(kind).bin_size = <<9, 2, 1, 9, 10, 14, 10, 2>>[kind]
           /\ SpecOf(kind).tester = <<0, 0, 1, 1, 2, 2, 3, 3>>[kind]
           /\ SpecOf(kind).address = IF kind \in {1, 3, 5, 7} THEN Addr(255, 255, 13, 10)
                                                              ELSE Addr(13, 10, 255, 255)
  <1> USE DEF Entry
  <1>1. CASE kind = 1 /\ SpecOf(kind) = Spec_SET_TIME_REQ
    BY <1>1 DEF Spec_SET_TIME_REQ, TK_SET_TIME_REQ_test
  <1>2. CASE kind = 2 /\ SpecOf(kind) = Spec_SET_TIME_RSP
    BY <1>2 DEF Spec_SET_TIME_RSP, TK_SET_TIME_RSP_test
  <1>3. CASE kind = 3 /\ SpecOf(kind) = Spec_GET_TIME_REQ
    BY <1>3 DEF Spec_GET_TIME_REQ, TK_GET_TIME_REQ_test
  <1>4. CASE kind = 4 /\ SpecOf(kind) = Spec_GET_TIME_RSP
    BY <1>4 DEF Spec_GET_TIME_RSP, TK_GET_TIME_RSP_test
  <1>5. CASE kind = 5 /\ SpecOf(kind) = Spec_SYNC_TIME_REQ
    BY <1>5 DEF Spec_SYNC_TIME_REQ, TK_SYNC_TIME_REQ_test
  <1>6. CASE kind = 6 /\ SpecOf(kind) = Spec_SYNC_TIME_RSP
    BY <1>6 DEF Spec_SYNC_TIME_RSP, TK_SYNC_TIME_RSP_test
  <1>7. CASE kind = 7 /\ SpecOf(kind) = Spec_SYNC_SLAVES_REQ
    BY <1>7 DEF Spec_SYNC_SLAVES_REQ, TK_SYNC_SLAVES_REQ_test
  <1>8. CASE kind = 8 /\ SpecOf(kind) = Spec_SYNC_SLAVES_RSP
    BY <1>8 DEF Spec_SYNC_SLAVES_RSP, TK_SYNC_SLAVES_RSP_test
  <1> QED BY <1>1, <1>2, <1>3, <1>4, <1>5, <1>6, <1>7, <1>8, EachKind

\* The fields and the first byte fill the packet of a kind.
LEMMA FieldsFill ==
    ASSUME NEW kind \in Kinds, NEW off \in [0 .. Size(kind) -> Nat],
           Offsets(off, Structs[kind], Size(kind))
    PROVE  off[Size(kind)] = SpecOf(kind).bin_size + 1
  <1> USE DEF Size, Offsets, u8, u64, i64
  <1>1. CASE kind = 1 /\ Structs[kind] = TK_SET_TIME_REQ
    BY <1>1, SizesAndTesters DEF TK_SET_TIME_REQ
  <1>2. CASE kind = 2 /\ Structs[kind] = TK_SET_TIME_RSP
    BY <1>2, SizesAndTesters DEF TK_SET_TIME_RSP
  <1>3. CASE kind = 3 /\ Structs[kind] = TK_GET_TIME_REQ
    BY <1>3, SizesAndTesters DEF TK_GET_TIME_REQ
  <1>4. CASE kind = 4 /\ Structs[kind] = TK_GET_TIME_RSP
    BY <1>4, SizesAndTesters DEF TK_GET_TIME_RSP
  <1>5. CASE kind = 5 /\ Structs[kind] = TK_SYNC_TIME_REQ
    BY <1>5, SizesAndTesters DEF TK_SYNC_TIME_REQ
  <1>6. CASE kind = 6 /\ Structs[kind] = TK_SYNC_TIME_RSP
    BY <1>6, SizesAndTesters DEF TK_SYNC_TIME_RSP
  <1>7. CASE kind = 7 /\ Structs[kind] = TK_SYNC_SLAVES_REQ
    BY <1>7, SizesAndTesters DEF TK_SYNC_SLAVES_REQ
  <1>8. CASE kind = 8 /\ Structs[kind] = TK_SYNC_SLAVES_RSP
    BY <1>8, SizesAndTesters DEF TK_SYNC_SLAVES_RSP
  <1> HIDE DEF Size, Offsets
  <1> QED BY <1>1, <1>2, <1>3, <1>4, <1>5, <1>6, <1>7, <1>8, EachKind

-----------------------------------------------------------------------------
(* Errors.                                                                 *)

\* The first check that finds an error gives it.
IsFirst(checks, i) ==
    /\ DOMAIN checks \in SUBSET Nat /\ i \in DOMAIN checks /\ checks[i][1]
    /\ \A j \in DOMAIN checks : checks[j][1] => i <= j

\* The first check that finds an error decides.
LEMMA FirstIs ==
    ASSUME NEW checks, NEW i, IsFirst(checks, i)
    PROVE  FirstError(checks) = checks[i][2]
  <1> DEFINE found == {k \in DOMAIN checks : checks[k][1]}
             least == Min(found)
  <1>1. i \in found /\ \A k \in found : k \in Nat /\ i <= k
    BY DEF IsFirst
  <1>2. FirstError(checks) = checks[least][2]
    BY <1>1 DEF FirstError
  <1> HIDE DEF found
  <1>3. least \in found /\ \A k \in found : least <= k
    <2>1. \E x \in found : \A k \in found : x =< k
      BY <1>1
    <2> QED BY <2>1 DEF Min
  <1> HIDE DEF least
  <1>4. least = i
    <2>1. least \in Nat /\ i \in Nat
      BY <1>1, <1>3
    <2>2. least <= i /\ i <= least
      BY <1>1, <1>3
    <2> QED BY <2>1, <2>2
  <1> QED BY <1>2, <1>4

\* So it is with two checks,
LEMMA TwoChecks ==
    ASSUME NEW a \in BOOLEAN, NEW b \in BOOLEAN,
           NEW w, NEW x
    PROVE  FirstError(<< <<a, w>>, <<b, x>> >>)
               = IF a THEN w ELSE IF b THEN x ELSE "OK"
  <1> DEFINE q == << <<a, w>>, <<b, x>> >>
  <1>s. SUFFICES FirstError(q) = IF a THEN w ELSE IF b THEN x ELSE "OK"
    OBVIOUS
  <1>1. DOMAIN q = 1 .. 2 /\ q[1] = <<a, w>> /\ q[2] = <<b, x>>
    OBVIOUS
  <1> HIDE DEF q
  <1>a. (q[1][1] <=> a) /\ q[1][2] = w
    BY <1>1
  <1>b. (q[2][1] <=> b) /\ q[2][2] = x
    BY <1>1
  <1>n. DOMAIN q \in SUBSET Nat /\ \A j \in DOMAIN q : j = 1 \/ j = 2
    BY <1>1
  <1>2. CASE a
    <2>1. 1 \in DOMAIN q /\ q[1][1]
      BY <1>1, <1>a, <1>2
    <2>2. \A j \in DOMAIN q : 1 <= j
      BY <1>1
    <2>3. FirstError(q) = q[1][2]
      BY <1>n, <2>1, <2>2, FirstIs DEF IsFirst
    <2> QED BY <1>a, <1>2, <2>3
  <1>3. CASE ~a /\ b
    <2>1. 2 \in DOMAIN q /\ q[2][1]
      BY <1>1, <1>b, <1>3
    <2>n. ~q[1][1]
      BY <1>a, <1>b, <1>3
    <2>2. \A j \in DOMAIN q : q[j][1] => 2 <= j
      BY <1>n, <2>n
    <2>3. FirstError(q) = q[2][2]
      BY <1>n, <2>1, <2>2, FirstIs DEF IsFirst
    <2> QED BY <1>b, <1>3, <2>3
  <1>4. CASE ~a /\ ~b
    <2>n. ~q[1][1] /\ ~q[2][1]
      BY <1>a, <1>b, <1>4
    <2>1. {i \in DOMAIN q : q[i][1]} = {}
      BY <1>n, <2>n
    <2> QED BY <1>4, <2>1 DEF FirstError
  <1> QED BY <1>2, <1>3, <1>4

\* with three
LEMMA ThreeChecks ==
    ASSUME NEW a \in BOOLEAN, NEW b \in BOOLEAN, NEW c \in BOOLEAN,
           NEW w, NEW x, NEW y
    PROVE  FirstError(<< <<a, w>>, <<b, x>>, <<c, y>> >>)
               = IF a THEN w ELSE IF b THEN x ELSE IF c THEN y ELSE "OK"
  <1> DEFINE q == << <<a, w>>, <<b, x>>, <<c, y>> >>
  <1>s. SUFFICES FirstError(q) = IF a THEN w ELSE IF b THEN x ELSE IF c THEN y ELSE "OK"
    OBVIOUS
  <1>1. DOMAIN q = 1 .. 3 /\ q[1] = <<a, w>> /\ q[2] = <<b, x>> /\ q[3] = <<c, y>>
    OBVIOUS
  <1> HIDE DEF q
  <1>a. (q[1][1] <=> a) /\ q[1][2] = w
    BY <1>1
  <1>b. (q[2][1] <=> b) /\ q[2][2] = x
    BY <1>1
  <1>c. (q[3][1] <=> c) /\ q[3][2] = y
    BY <1>1
  <1>n. DOMAIN q \in SUBSET Nat /\ \A j \in DOMAIN q : j = 1 \/ j = 2 \/ j = 3
    BY <1>1
  <1>2. CASE a
    <2>1. 1 \in DOMAIN q /\ q[1][1]
      BY <1>1, <1>a, <1>2
    <2>2. \A j \in DOMAIN q : 1 <= j
      BY <1>1
    <2>3. FirstError(q) = q[1][2]
      BY <1>n, <2>1, <2>2, FirstIs DEF IsFirst
    <2> QED BY <1>a, <1>2, <2>3
  <1>3. CASE ~a /\ b
    <2>1. 2 \in DOMAIN q /\ q[2][1]
      BY <1>1, <1>b, <1>3
    <2>n. ~q[1][1]
      BY <1>a, <1>b, <1>3
    <2>2. \A j \in DOMAIN q : q[j][1] => 2 <= j
      BY <1>n, <2>n
    <2>3. FirstError(q) = q[2][2]
      BY <1>n, <2>1, <2>2, FirstIs DEF IsFirst
    <2> QED BY <1>b, <1>3, <2>3
  <1>4. CASE ~a /\ ~b /\ c
    <2>1. 3 \in DOMAIN q /\ q[3][1]
      BY <1>1, <1>c, <1>4
    <2>n. ~q[1][1] /\ ~q[2][1]
      BY <1>a, <1>b, <1>c, <1>4
    <2>2. \A j \in DOMAIN q : q[j][1] => 3 <= j
      BY <1>n, <2>n
    <2>3. FirstError(q) = q[3][2]
      BY <1>n, <2>1, <2>2, FirstIs DEF IsFirst
    <2> QED BY <1>c, <1>4, <2>3
  <1>5. CASE ~a /\ ~b /\ ~c
    <2>n. ~q[1][1] /\ ~q[2][1] /\ ~q[3][1]
      BY <1>a, <1>b, <1>c, <1>5
    <2>1. {i \in DOMAIN q : q[i][1]} = {}
      BY <1>n, <2>n
    <2> QED BY <1>5, <2>1 DEF FirstError
  <1> QED BY <1>2, <1>3, <1>4, <1>5

\* and with four.
LEMMA FourChecks ==
    ASSUME NEW a \in BOOLEAN, NEW b \in BOOLEAN, NEW c \in BOOLEAN, NEW d \in BOOLEAN,
           NEW w, NEW x, NEW y, NEW z
    PROVE  FirstError(<< <<a, w>>, <<b, x>>, <<c, y>>, <<d, z>> >>)
               = IF a THEN w ELSE IF b THEN x ELSE IF c THEN y ELSE IF d THEN z ELSE "OK"
  <1> DEFINE q == << <<a, w>>, <<b, x>>, <<c, y>>, <<d, z>> >>
  <1>s. SUFFICES FirstError(q) = IF a THEN w ELSE IF b THEN x ELSE IF c THEN y ELSE IF d THEN z ELSE "OK"
    OBVIOUS
  <1>1. DOMAIN q = 1 .. 4 /\ q[1] = <<a, w>> /\ q[2] = <<b, x>> /\ q[3] = <<c, y>> /\ q[4] = <<d, z>>
    OBVIOUS
  <1> HIDE DEF q
  <1>a. (q[1][1] <=> a) /\ q[1][2] = w
    BY <1>1
  <1>b. (q[2][1] <=> b) /\ q[2][2] = x
    BY <1>1
  <1>c. (q[3][1] <=> c) /\ q[3][2] = y
    BY <1>1
  <1>d. (q[4][1] <=> d) /\ q[4][2] = z
    BY <1>1
  <1>n. DOMAIN q \in SUBSET Nat /\ \A j \in DOMAIN q : j = 1 \/ j = 2 \/ j = 3 \/ j = 4
    BY <1>1
  <1>2. CASE a
    <2>1. 1 \in DOMAIN q /\ q[1][1]
      BY <1>1, <1>a, <1>2
    <2>2. \A j \in DOMAIN q : 1 <= j
      BY <1>1
    <2>3. FirstError(q) = q[1][2]
      BY <1>n, <2>1, <2>2, FirstIs DEF IsFirst
    <2> QED BY <1>a, <1>2, <2>3
  <1>3. CASE ~a /\ b
    <2>1. 2 \in DOMAIN q /\ q[2][1]
      BY <1>1, <1>b, <1>3
    <2>n. ~q[1][1]
      BY <1>a, <1>b, <1>3
    <2>2. \A j \in DOMAIN q : q[j][1] => 2 <= j
      BY <1>n, <2>n
    <2>3. FirstError(q) = q[2][2]
      BY <1>n, <2>1, <2>2, FirstIs DEF IsFirst
    <2> QED BY <1>b, <1>3, <2>3
  <1>4. CASE ~a /\ ~b /\ c
    <2>1. 3 \in DOMAIN q /\ q[3][1]
      BY <1>1, <1>c, <1>4
    <2>n. ~q[1][1] /\ ~q[2][1]
      BY <1>a, <1>b, <1>c, <1>4
    <2>2. \A j \in DOMAIN q : q[j][1] => 3 <= j
      BY <1>n, <2>n
    <2>3. FirstError(q) = q[3][2]
      BY <1>n, <2>1, <2>2, FirstIs DEF IsFirst
    <2> QED BY <1>c, <1>4, <2>3
  <1>5. CASE ~a /\ ~b /\ ~c /\ d
    <2>1. 4 \in DOMAIN q /\ q[4][1]
      BY <1>1, <1>d, <1>5
    <2>n. ~q[1][1] /\ ~q[2][1] /\ ~q[3][1]
      BY <1>a, <1>b, <1>c, <1>d, <1>5
    <2>2. \A j \in DOMAIN q : q[j][1] => 4 <= j
      BY <1>n, <2>n
    <2>3. FirstError(q) = q[4][2]
      BY <1>n, <2>1, <2>2, FirstIs DEF IsFirst
    <2> QED BY <1>d, <1>5, <2>3
  <1>6. CASE ~a /\ ~b /\ ~c /\ ~d
    <2>n. ~q[1][1] /\ ~q[2][1] /\ ~q[3][1] /\ ~q[4][1]
      BY <1>a, <1>b, <1>c, <1>d, <1>6
    <2>1. {i \in DOMAIN q : q[i][1]} = {}
      BY <1>n, <2>n
    <2> QED BY <1>6, <2>1 DEF FirstError
  <1> QED BY <1>2, <1>3, <1>4, <1>5, <1>6

\* A pair with a third element.
LEMMA AppendThird ==
    ASSUME NEW x, NEW y, NEW z
    PROVE  Append(<<x, y>>, z) = <<x, y, z>>
  <1> DEFINE S == {x, y, z}
             s == <<x, y>>
             t == <<x, y, z>>
             u == Append(s, z)
  <1>1. s \in Seq(S) /\ z \in S /\ t \in Seq(S)
    OBVIOUS
  <1>2. Len(s) = 2 /\ Len(t) = 3 /\ t[1] = s[1] /\ t[2] = s[2] /\ t[3] = z
    OBVIOUS
  <1> HIDE DEF S, s, t
  <1>3. u \in Seq(S) /\ Len(u) = Len(s) + 1 /\ u[Len(s) + 1] = z
    BY <1>1, AppendProperties
  <1>4. \A i \in 1 .. Len(s) : u[i] = s[i]
    BY <1>1, AppendProperties
  <1> HIDE DEF u
  <1>5. Len(u) = 3 /\ u[1] = s[1] /\ u[2] = s[2] /\ u[3] = z
    BY <1>2, <1>3, <1>4
  <1>6. \A i \in 1 .. 3 : i = 1 \/ i = 2 \/ i = 3
    OBVIOUS
  <1>7. u = t
    BY <1>1, <1>2, <1>3, <1>5, <1>6, SeqEqual
  <1> QED BY <1>7 DEF u, s, t

Errors == {"ALLOC", "BAD_ARGS", "LENGTH", "ID_MISMATCH", "UNKNOWN_PAYLOAD"}

\* The error of a ..._parse_s.
LEMMA ParseStaticIs ==
    ASSUME NEW parse, NEW length, NEW null
    PROVE  ParseStaticError(parse, length, null)
               = IF length # parse.length THEN "LENGTH" ELSE IF null # {} THEN "BAD_ARGS" ELSE "OK"
  <1> DEFINE a == length # parse.length
             b == null # {}
  <1>1. a \in BOOLEAN /\ b \in BOOLEAN
    OBVIOUS
  <1>2. ParseStaticError(parse, length, null) = FirstError(<< <<a, "LENGTH">>, <<b, "BAD_ARGS">> >>)
    BY DEF ParseStaticError
  <1> HIDE DEF a, b
  <1>3. ParseStaticError(parse, length, null) = IF a THEN "LENGTH" ELSE IF b THEN "BAD_ARGS" ELSE "OK"
    BY <1>1, <1>2, TwoChecks
  <1> QED BY <1>3 DEF a, b

\* The error of a ..._parse.
LEMMA ParseIs ==
    ASSUME NEW parse, NEW length, NEW null, NEW memory \in BOOLEAN
    PROVE  ParseError(parse, length, null, memory)
               = IF length # parse.length THEN "LENGTH"
                 ELSE IF "output" \in null THEN "BAD_ARGS"
                 ELSE IF ~memory THEN "ALLOC" ELSE IF null # {} THEN "BAD_ARGS" ELSE "OK"
  <1> DEFINE a == length # parse.length
             b == "output" \in null
             c == ~memory
             d == null # {}
  <1>1. a \in BOOLEAN /\ b \in BOOLEAN /\ c \in BOOLEAN /\ d \in BOOLEAN
    OBVIOUS
  <1>2. ParseError(parse, length, null, memory)
            = FirstError(<< <<a, "LENGTH">>, <<b, "BAD_ARGS">>, <<c, "ALLOC">>, <<d, "BAD_ARGS">> >>)
    BY DEF ParseError
  <1> HIDE DEF a, b, c, d
  <1>3. ParseError(parse, length, null, memory)
            = IF a THEN "LENGTH" ELSE IF b THEN "BAD_ARGS" ELSE IF c THEN "ALLOC"
              ELSE IF d THEN "BAD_ARGS" ELSE "OK"
    BY <1>1, <1>2, FourChecks
  <1> QED BY <1>3 DEF a, b, c, d

\* The error of pld_find_spec_by_kind.
LEMMA FindIs ==
    ASSUME NEW kind
    PROVE  pld_find_spec_by_kind(kind)
               = IF kind = NONE THEN "BAD_ARGS"
                 ELSE IF kind \notin Kinds THEN "UNKNOWN_PAYLOAD" ELSE "OK"
  <1> DEFINE a == kind = NONE
             b == kind \notin Kinds
  <1>1. a \in BOOLEAN /\ b \in BOOLEAN
    OBVIOUS
  <1>2. pld_find_spec_by_kind(kind) = FirstError(<< <<a, "BAD_ARGS">>, <<b, "UNKNOWN_PAYLOAD">> >>)
    BY DEF pld_find_spec_by_kind
  <1> HIDE DEF a, b
  <1>3. pld_find_spec_by_kind(kind) = IF a THEN "BAD_ARGS" ELSE IF b THEN "UNKNOWN_PAYLOAD" ELSE "OK"
    BY <1>1, <1>2, TwoChecks
  <1> QED BY <1>3 DEF a, b

\* What pld_build_common and pld_get_addr have in common.
LEMMA LookupIs ==
    ASSUME NEW p \in BOOLEAN, NEW id
    PROVE  FirstError(<< <<p, "BAD_ARGS">>, <<id = NONE, "ID_MISMATCH">>,
                         <<pld_find_spec_by_kind(id) # "OK", "UNKNOWN_PAYLOAD">> >>)
               = IF p THEN "BAD_ARGS" ELSE IF id = NONE THEN "ID_MISMATCH"
                 ELSE IF id \notin Kinds THEN "UNKNOWN_PAYLOAD" ELSE "OK"
  <1> DEFINE b == id = NONE
             c == pld_find_spec_by_kind(id) # "OK"
  <1>1. b \in BOOLEAN /\ c \in BOOLEAN
    OBVIOUS
  <1>2. b <=> id = NONE
    OBVIOUS
  <1>3. ~b => (c <=> id \notin Kinds)
    BY FindIs
  <1> HIDE DEF b, c
  <1>4. FirstError(<< <<p, "BAD_ARGS">>, <<b, "ID_MISMATCH">>, <<c, "UNKNOWN_PAYLOAD">> >>)
            = IF p THEN "BAD_ARGS" ELSE IF b THEN "ID_MISMATCH"
              ELSE IF c THEN "UNKNOWN_PAYLOAD" ELSE "OK"
    BY <1>1, ThreeChecks
  <1>5. (IF p THEN "BAD_ARGS" ELSE IF b THEN "ID_MISMATCH" ELSE IF c THEN "UNKNOWN_PAYLOAD" ELSE "OK")
            = IF p THEN "BAD_ARGS" ELSE IF id = NONE THEN "ID_MISMATCH"
              ELSE IF id \notin Kinds THEN "UNKNOWN_PAYLOAD" ELSE "OK"
    BY <1>2, <1>3
  <1> QED BY <1>4, <1>5 DEF b, c

\* The errors of building are errors.
LEMMA BuildErrors ==
    ASSUME NEW kind, NEW id, NEW null, NEW room, NEW memory \in BOOLEAN
    PROVE  /\ BuildStaticError(kind, id, null, room) \in Errors \cup {"OK"}
           /\ BuildError(kind, id, null, memory) \in Errors \cup {"OK"}
           /\ pld_build_common(id, null) \in Errors \cup {"OK"}
  <1> DEFINE a == null \ (IF SpecOf(kind).build.fields = <<>> THEN {"data"} ELSE {}) # {}
             b == "data" \notin null /\ id \notin {NONE, SpecOf(kind).pld_id}
             c == room < SpecOf(kind).build.byte_size
             d == ~memory
             p == "data" \in null
  <1>1. a \in BOOLEAN /\ b \in BOOLEAN /\ c \in BOOLEAN /\ d \in BOOLEAN /\ p \in BOOLEAN
    OBVIOUS
  <1>2. BuildArgs(kind, id, null) = << <<a, "BAD_ARGS">>, <<b, "ID_MISMATCH">> >>
    BY DEF BuildArgs
  <1>3. BuildStaticError(kind, id, null, room)
            = FirstError(Append(<< <<a, "BAD_ARGS">>, <<b, "ID_MISMATCH">> >>, <<c, "LENGTH">>))
    BY <1>2 DEF BuildStaticError
  <1>4. BuildError(kind, id, null, memory)
            = FirstError(Append(<< <<a, "BAD_ARGS">>, <<b, "ID_MISMATCH">> >>, <<d, "ALLOC">>))
    BY <1>2 DEF BuildError
  <1>5. pld_build_common(id, null)
            = FirstError(<< <<p, "BAD_ARGS">>, <<id = NONE, "ID_MISMATCH">>,
                            <<pld_find_spec_by_kind(id) # "OK", "UNKNOWN_PAYLOAD">> >>)
    BY DEF pld_build_common
  <1> HIDE DEF a, b, c, d, p
  <1>7. BuildStaticError(kind, id, null, room)
            = IF a THEN "BAD_ARGS" ELSE IF b THEN "ID_MISMATCH" ELSE IF c THEN "LENGTH" ELSE "OK"
    <2>1. BuildStaticError(kind, id, null, room)
              = FirstError(<< <<a, "BAD_ARGS">>, <<b, "ID_MISMATCH">>, <<c, "LENGTH">> >>)
      BY <1>3, AppendThird
    <2> QED BY <1>1, <2>1, ThreeChecks
  <1>8. BuildError(kind, id, null, memory)
            = IF a THEN "BAD_ARGS" ELSE IF b THEN "ID_MISMATCH" ELSE IF d THEN "ALLOC" ELSE "OK"
    <2>1. BuildError(kind, id, null, memory)
              = FirstError(<< <<a, "BAD_ARGS">>, <<b, "ID_MISMATCH">>, <<d, "ALLOC">> >>)
      BY <1>4, AppendThird
    <2> QED BY <1>1, <2>1, ThreeChecks
  <1>9. pld_build_common(id, null)
            = IF p THEN "BAD_ARGS" ELSE IF id = NONE THEN "ID_MISMATCH"
              ELSE IF id \notin Kinds THEN "UNKNOWN_PAYLOAD" ELSE "OK"
    BY <1>1, <1>5, LookupIs
  <1> QED BY <1>7, <1>8, <1>9 DEF Errors

-----------------------------------------------------------------------------
(* Recognition.                                                            *)

\* No two kinds have both their size and their first byte in common.
LEMMA KindsDiffer ==
    ASSUME NEW j \in Kinds, NEW k \in Kinds, SpecOf(j).bin_size = SpecOf(k).bin_size,
           SpecOf(j).tester = SpecOf(k).tester
    PROVE  j = k
  <1>1. j \in 1 .. 8 /\ k \in 1 .. 8
    BY DEF Kinds, Payloads_TK_plugin
  <1>2. /\ <<9, 2, 1, 9, 10, 14, 10, 2>>[j] = <<9, 2, 1, 9, 10, 14, 10, 2>>[k]
        /\ <<0, 0, 1, 1, 2, 2, 3, 3>>[j] = <<0, 0, 1, 1, 2, 2, 3, 3>>[k]
    BY SizesAndTesters
  <1>3. /\ j = 1 \/ j = 2 \/ j = 3 \/ j = 4 \/ j = 5 \/ j = 6 \/ j = 7 \/ j = 8
        /\ k = 1 \/ k = 2 \/ k = 3 \/ k = 4 \/ k = 5 \/ k = 6 \/ k = 7 \/ k = 8
    BY <1>1
  <1> QED BY <1>2, <1>3

\* A packet of a kind, with an address that fits the kind, is recognised by
\* pld_recognize, wherever the kind's entry stands in the table.
THEOREM Recognition ==
    ASSUME NEW kind \in Kinds, NEW addr, address_matches(addr, SpecOf(kind).address),
           NEW bytes, Len(bytes) = SpecOf(kind).bin_size, bytes[1] = SpecOf(kind).tester
    PROVE  pld_recognize(addr, bytes) = kind
  <1> DEFINE fits == {k \in Kinds : Recognizes(SpecOf(k), addr, bytes)}
  <1>1. kind \in fits
    BY KindsAgree DEF Recognizes
  <1>2. ASSUME NEW k \in fits PROVE k = kind
    <2>1. k \in Kinds /\ Recognizes(SpecOf(k), addr, bytes)
      OBVIOUS
    <2>2. SpecOf(k).bin_size = SpecOf(kind).bin_size /\ SpecOf(k).tester = SpecOf(kind).tester
      BY <2>1, KindsAgree DEF Recognizes
    <2> QED BY <2>1, <2>2, KindsDiffer
  <1>3. pld_recognize(addr, bytes) =
            IF fits = {} THEN NONE ELSE CHOOSE k \in fits : \A j \in fits : k <= j
    BY DEF pld_recognize
  <1>4. fits = {kind}
    BY <1>1, <1>2
  <1>5. kind <= kind
    BY DEF Kinds, Payloads_TK_plugin
  <1> HIDE DEF fits
  <1> QED BY <1>3, <1>4, <1>5

\* A request's first byte leads to its kind, a response's to the request's.
LEMMA Dispatched ==
    ASSUME NEW kind \in Kinds
    PROVE  /\ kind \in {1, 3, 5, 7} => Dispatch(SpecOf(kind).tester).req = kind
           /\ kind \notin {1, 3, 5, 7} =>
                  /\ kind \in {2, 4, 6, 8} /\ Dispatch(SpecOf(kind).tester).req = kind - 1
                  /\ kind - 1 \in Kinds
                  /\ SpecOf(kind).bin_size # SpecOf(kind - 1).bin_size
  <1>1. kind \in 1 .. 8 /\ Kinds = 1 .. 8
    BY DEF Kinds, Payloads_TK_plugin
  <1>2. kind = 1 \/ kind = 2 \/ kind = 3 \/ kind = 4 \/ kind = 5 \/ kind = 6 \/ kind = 7 \/ kind = 8
    BY <1>1
  <1> QED BY <1>1, <1>2, SizesAndTesters DEF Dispatch
-----------------------------------------------------------------------------
(* What the functions of a kind do together.                               *)

\* The constant byte is a byte, and the fields written are those of the struct.
LEMMA KindIsGood ==
    ASSUME NEW kind \in Kinds
    PROVE  /\ Size(kind) \in Nat /\ SpecOf(kind).build.cmd \in Bytes
           /\ GoodFields(Structs[kind], Size(kind))
           /\ SpecOf(kind).build.fields = Structs[kind]
           /\ SpecOf(kind).parse.fields = Structs[kind]
           /\ SpecOf(kind).build.cmd = SpecOf(kind).tester
           /\ SpecOf(kind).build.byte_size = SpecOf(kind).bin_size
           /\ SpecOf(kind).parse.length = SpecOf(kind).bin_size
  <1>1. kind \in 1 .. 8
    BY DEF Kinds, Payloads_TK_plugin
  <1>2. SpecOf(kind).tester \in 0 .. 3
    <2>1. SpecOf(kind).tester = <<0, 0, 1, 1, 2, 2, 3, 3>>[kind]
      BY SizesAndTesters
    <2>2. kind = 1 \/ kind = 2 \/ kind = 3 \/ kind = 4
          \/ kind = 5 \/ kind = 6 \/ kind = 7 \/ kind = 8
      BY <1>1
    <2> QED BY <2>1, <2>2
  <1>3. SpecOf(kind).tester \in Bytes
    BY <1>2, BaseAssumption DEF Bytes
  <1> QED BY <1>3, KindsAgree, StructsAreGood

\* Sizes are numbers.
LEMMA BinSizes ==
    ASSUME NEW kind \in Kinds
    PROVE  SpecOf(kind).bin_size \in Nat
  <1>1. kind \in 1 .. 8
    BY DEF Kinds, Payloads_TK_plugin
  <1>2. SpecOf(kind).bin_size = <<9, 2, 1, 9, 10, 14, 10, 2>>[kind]
    BY SizesAndTesters
  <1>3. kind = 1 \/ kind = 2 \/ kind = 3 \/ kind = 4 \/ kind = 5 \/ kind = 6 \/ kind = 7 \/ kind = 8
    BY <1>1
  <1> QED BY <1>2, <1>3

\* Every ..._build writes exactly the buffer it asked for, and what stands first
\* is the byte that ..._test tests, whatever is in the struct.
THEOREM BuildFills ==
    ASSUME NEW kind \in Kinds, NEW data,
           \A i \in 1 .. Size(kind) : data[Structs[kind][i].name] \in Int
    PROVE  LET bytes == WriteFields(SpecOf(kind).build, data)
           IN  /\ bytes \in Seq(Bytes) /\ Len(bytes) = SpecOf(kind).build.byte_size
               /\ bytes[1] = SpecOf(kind).tester
  <1> DEFINE build == SpecOf(kind).build
             n == Size(kind)
             packet == WriteFields(build, data)
  <1>1. /\ n \in Nat /\ build.cmd \in Bytes /\ GoodFields(build.fields, n)
        /\ build.fields = Structs[kind]
    BY KindIsGood
  <1> HIDE DEF n, build
  <1>2. \A i \in 1 .. n : data[build.fields[i].name] \in Int
    BY <1>1 DEF n
  <1>3. PICK off \in [0 .. n -> Nat] : /\ Offsets(off, build.fields, n)
                                       /\ LaidOut(packet, off, build, data, n)
    BY <1>1, <1>2, PacketLayout
  <1>4. off[n] = SpecOf(kind).bin_size + 1
    BY <1>1, <1>3, FieldsFill DEF n
  <1>5. packet \in Seq(Bytes) /\ Len(packet) = off[n] - 1 /\ packet[1] = build.cmd
    BY <1>3 DEF LaidOut
  <1>6. SpecOf(kind).bin_size \in Nat
    BY BinSizes
  <1> QED BY <1>4, <1>5, <1>6, KindIsGood DEF build

\* What ..._build wrote ..._parse reads back as it was: no member is cut, swapped,
\* shifted or loses its sign, for all values of the C types.
THEOREM ParsesBack ==
    ASSUME NEW kind \in Kinds, NEW data,
           data = [m \in FieldNames(Structs[kind], Size(kind)) |-> data[m]],
           \A i \in 1 .. Size(kind) :
               data[Structs[kind][i].name] \in ValuesOf(Structs[kind][i])
    PROVE  ReadFields(SpecOf(kind).parse.fields, WriteFields(SpecOf(kind).build, data)) = data
  <1> DEFINE build == SpecOf(kind).build
             n == Size(kind)
  <1>1. /\ n \in Nat /\ build.cmd \in Bytes /\ GoodFields(build.fields, n)
        /\ build.fields = Structs[kind] /\ SpecOf(kind).parse.fields = Structs[kind]
    BY KindIsGood
  <1> HIDE DEF n, build
  <1>2. /\ data = [m \in FieldNames(build.fields, n) |-> data[m]]
        /\ \A i \in 1 .. n : data[build.fields[i].name] \in ValuesOf(build.fields[i])
    BY <1>1 DEF n
  <1>3. ReadFields(build.fields, WriteFields(build, data)) = data
    BY <1>1, <1>2, RoundTrip
  <1> QED BY <1>1, <1>3 DEF build

\* Whatever bytes come in, of the length that ..._parse checks, the struct holds
\* values of its members' types.
THEOREM ParsesInType ==
    ASSUME NEW kind \in Kinds, NEW bytes \in Seq(Bytes),
           Len(bytes) = SpecOf(kind).parse.length
    PROVE  \A i \in 1 .. Size(kind) :
               ReadFields(SpecOf(kind).parse.fields, bytes)[Structs[kind][i].name]
                   \in ValuesOf(Structs[kind][i])
  <1> DEFINE build == SpecOf(kind).build
             fields == Structs[kind]
             n == Size(kind)
             zero == [m \in FieldNames(fields, n) |-> 0]
  <1>1. /\ n \in Nat /\ build.cmd \in Bytes /\ GoodFields(build.fields, n)
        /\ build.fields = fields /\ SpecOf(kind).parse.fields = fields
        /\ SpecOf(kind).parse.length = SpecOf(kind).bin_size
    BY KindIsGood
  <1>2. \A i \in 1 .. n : zero[fields[i].name] \in Int
    BY DEF FieldNames
  <1> HIDE DEF n, build, zero, fields
  <1>3. PICK off \in [0 .. n -> Nat] : Offsets(off, fields, n)
    <2>1. \A i \in 1 .. n : zero[build.fields[i].name] \in Int
      BY <1>1, <1>2
    <2>2. \E off \in [0 .. n -> Nat] :
              /\ Offsets(off, build.fields, n)
              /\ LaidOut(WriteFields(build, zero), off, build, zero, n)
      BY <1>1, <2>1, PacketLayout
    <2> QED BY <1>1, <2>2
  <1>4. off[n] = SpecOf(kind).bin_size + 1 /\ SpecOf(kind).bin_size \in Nat
    BY <1>3, FieldsFill, BinSizes DEF n, fields
  <1>5. Len(bytes) = off[n] - 1
    BY <1>1, <1>4
  <1>6. \A i \in 1 .. n : ReadFields(fields, bytes)[fields[i].name] \in ValuesOf(fields[i])
    BY <1>1, <1>3, <1>5, ReadsInType
  <1> QED BY <1>1, <1>6 DEF fields, n
=============================================================================
