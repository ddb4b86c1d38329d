---------------------------- MODULE FormatProofs ----------------------------
(***************************************************************************)
(* Theorems about what is sent and how it is read (MCFormats).             *)
(*                                                                         *)
(* The first parts are arithmetic: what the loops of KsRs compute, prime   *)
(* numbers, polynomials over a prime field.  Induction goes through sets   *)
(* of natural numbers (Induction).  Then each part of MCFormats has its    *)
(* inductive invariant: GroupInv, DatagramInv, StreamInv and ImprovedInv.  *)
(***************************************************************************)
EXTENDS MCFormats, Integers, FiniteSetTheorems, SequenceTheorems,
        WellFoundedInduction, TLAPS

-----------------------------------------------------------------------------
(* ARITHMETIC: induction, recursion, prime numbers and polynomials.        *)

(* A set of natural numbers has a least member. *)
LEMMA Least ==
    ASSUME NEW A \in SUBSET Nat, NEW a \in A
    PROVE  \E w \in A : \A y \in A : w <= y
<1>1. IsWellFoundedOn({ss \in Nat \X Nat : ss[1] < ss[2]}, Nat)
    BY NatLessThanWellFounded DEF OpToRel
<1>2. PICK w \in A : \A y \in A : <<y, w>> \notin {ss \in Nat \X Nat : ss[1] < ss[2]}
    BY <1>1, WFMin
<1>3. \A x, y \in Nat : <<y, x>> \notin {ss \in Nat \X Nat : ss[1] < ss[2]} => x <= y
    OBVIOUS
<1> QED BY <1>2, <1>3

(* Induction over the natural numbers, for a set of them. *)
LEMMA Induction ==
    ASSUME NEW P \in SUBSET Nat, 0 \in P, \A n \in P : n + 1 \in P
    PROVE  P = Nat
<1> SUFFICES ASSUME NEW z \in Nat \ P PROVE FALSE
    OBVIOUS
<1>1. PICK w \in Nat \ P : \A y \in Nat \ P : w <= y
    <2> DEFINE A == Nat \ P
    <2>1. A \in SUBSET Nat /\ z \in A
        OBVIOUS
    <2> HIDE DEF A
    <2>2. \E w \in A : \A y \in A : w <= y
        BY <2>1, Least
    <2> QED BY <2>2 DEF A
<1>2. w # 0 /\ w \in Nat
    OBVIOUS
<1>3. w - 1 \in Nat /\ ~(w <= w - 1) /\ (w - 1) + 1 = w
    BY <1>2
<1>4. w - 1 \in P
    BY <1>1, <1>3
<1>5. (w - 1) + 1 \in P
    BY <1>4
<1> QED BY <1>3, <1>5

(* A step can be repeated from a first value on. *)
Repeated(S, base, step, n, g) ==
    /\ DOMAIN g = 0 .. n
    /\ \A i \in 0 .. n : g[i] \in S
    /\ g[0] = base
    /\ \A i \in 1 .. n : g[i] = step[<<i - 1, g[i - 1]>>]

(* It can be repeated any number of times.                                 *)
LEMMA RepeatedExists ==
    ASSUME NEW S, NEW base \in S, NEW step \in [Nat \X S -> S], NEW n \in Nat
    PROVE  \E g : Repeated(S, base, step, n, g)
<1> DEFINE P == {i \in Nat : \E g : Repeated(S, base, step, i, g)}
<1>1. 0 \in P
    <2>1. Repeated(S, base, step, 0, [i \in 0 .. 0 |-> base])
        BY DEF Repeated
    <2> QED BY <2>1
<1>2. ASSUME NEW i \in P PROVE i + 1 \in P
    <2>1. PICK g : Repeated(S, base, step, i, g)
        OBVIOUS
    <2> DEFINE h == [j \in 0 .. i + 1 |-> IF j = i + 1 THEN step[<<i, g[i]>>] ELSE g[j]]
    <2>2. g[i] \in S /\ step[<<i, g[i]>>] \in S
        BY <2>1 DEF Repeated
    <2>3. h[0] = base /\ DOMAIN h = 0 .. i + 1
        BY <2>1 DEF Repeated
    <2>4. \A j \in 0 .. i + 1 : h[j] \in S
        BY <2>1, <2>2 DEF Repeated
    <2>5. ASSUME NEW j \in 1 .. i + 1 PROVE h[j] = step[<<j - 1, h[j - 1]>>]
        <3>1. CASE j = i + 1
            <4>1. j \in 0 .. i + 1 /\ j - 1 = i /\ i \in 0 .. i + 1 /\ i # i + 1
                BY <3>1
            <4>2. h[j] = step[<<i, g[i]>>] /\ h[i] = g[i]
                BY <3>1, <4>1
            <4> QED BY <4>1, <4>2
        <3>2. CASE j # i + 1
            <4>1. j \in 1 .. i /\ j - 1 # i + 1 /\ j - 1 \in 0 .. i + 1
                BY <3>2
            <4>2. h[j] = g[j] /\ h[j - 1] = g[j - 1]
                BY <4>1
            <4> QED BY <2>1, <4>1, <4>2 DEF Repeated
        <3> QED BY <3>1, <3>2
    <2>6. Repeated(S, base, step, i + 1, h)
        BY <2>3, <2>4, <2>5 DEF Repeated
    <2> QED BY <2>6
<1> HIDE DEF P
<1>3. P = Nat
    <2>1. P \in SUBSET Nat BY DEF P
    <2> QED BY <1>1, <1>2, <2>1, Induction
<1> QED BY <1>3 DEF P

(* And in one way only.                                                    *)
LEMMA RepeatedUnique ==
    ASSUME NEW S, NEW base, NEW step, NEW n \in Nat, NEW k \in Nat, n <= k,
           NEW g, NEW h, Repeated(S, base, step, n, g), Repeated(S, base, step, k, h)
    PROVE  \A i \in 0 .. n : g[i] = h[i]
<1> DEFINE P == {i \in Nat : i <= n => g[i] = h[i]}
<1>1. 0 \in P
    BY DEF Repeated
<1>2. ASSUME NEW i \in P PROVE i + 1 \in P
    <2> SUFFICES ASSUME i + 1 <= n PROVE g[i + 1] = h[i + 1]
        OBVIOUS
    <2>1. i + 1 \in 1 .. n /\ i + 1 \in 1 .. k /\ (i + 1) - 1 = i /\ g[i] = h[i]
        OBVIOUS
    <2> QED BY <2>1 DEF Repeated
<1>3. P = Nat
    <2> HIDE DEF P
    <2>1. P \in SUBSET Nat BY DEF P
    <2> QED BY <1>1, <1>2, <2>1, Induction
<1> QED BY <1>3

(* f is the function defined by recursion over Nat.                        *)
RecursiveBy(f, base, step) ==
    f = [n \in Nat |-> IF n = 0 THEN base ELSE step[<<n - 1, f[n - 1]>>]]

(* A function defined by recursion over Nat exists. *)
LEMMA Recursion ==
    ASSUME NEW S, NEW base \in S, NEW step \in [Nat \X S -> S]
    PROVE  \E f \in [Nat -> S] : RecursiveBy(f, base, step)
<1> DEFINE g(n) == CHOOSE g : Repeated(S, base, step, n, g)
           f == [n \in Nat |-> g(n)[n]]
<1>1. \A n \in Nat : Repeated(S, base, step, n, g(n))
    BY RepeatedExists
<1> HIDE DEF g
<1>2. f \in [Nat -> S]
    BY <1>1 DEF Repeated
<1>3. ASSUME NEW n \in Nat
      PROVE  f[n] = IF n = 0 THEN base ELSE step[<<n - 1, f[n - 1]>>]
    <2>1. CASE n = 0
        BY <2>1, <1>1 DEF Repeated
    <2>2. CASE n # 0
        <3>1. n - 1 \in Nat /\ n - 1 <= n /\ n - 1 \in 0 .. n - 1 /\ n \in 1 .. n
            BY <2>2
        <3>2. Repeated(S, base, step, n, g(n)) /\ Repeated(S, base, step, n - 1, g(n - 1))
            BY <1>1, <3>1
        <3>3. \A i \in 0 .. n - 1 : g(n - 1)[i] = g(n)[i]
            BY <3>1, <3>2, RepeatedUnique
        <3>4. g(n)[n] = step[<<n - 1, g(n)[n - 1]>>]
            BY <3>1, <3>2 DEF Repeated
        <3>5. f[n] = g(n)[n] /\ f[n - 1] = g(n - 1)[n - 1]
            BY <3>1
        <3> QED BY <2>2, <3>1, <3>3, <3>4, <3>5
    <2> QED BY <2>1, <2>2
<1>4. f = [n \in Nat |-> IF n = 0 THEN base ELSE step[<<n - 1, f[n - 1]>>]]
    <2> HIDE DEF f
    <2>1. f = [n \in Nat |-> f[n]]
        BY <1>2
    <2> QED BY <1>3, <2>1
<1> QED BY <1>2, <1>4 DEF RecursiveBy

(* The loop of nMinExponent, turn by turn. *)
LEMMA CapacityTurns ==
    ASSUME NEW q \in Nat
    PROVE  /\ Capacity(q, 0) = 1
           /\ \A k \in Nat : /\ Capacity(q, k) \in Nat
                             /\ Capacity(q, k + 1) = Capacity(q, k) * q
<1> DEFINE step == [p \in Nat \X Nat |-> p[2] * q]
           Turns(f) == f = [k \in Nat |-> IF k = 0 THEN 1 ELSE f[k - 1] * q]
           c == CHOOSE f : Turns(f)
<1>1. \E f : Turns(f)
    <2>1. step \in [Nat \X Nat -> Nat]
        OBVIOUS
    <2> HIDE DEF step
    <2>2. PICK f \in [Nat -> Nat] : RecursiveBy(f, 1, step)
        BY <2>1, Recursion
    <2>3. \A n \in Nat : n # 0 => step[<<n - 1, f[n - 1]>>] = f[n - 1] * q
        BY DEF step
    <2>4. Turns(f)
        BY <2>2, <2>3 DEF RecursiveBy
    <2> QED BY <2>4
<1>2. c = [k \in Nat |-> IF k = 0 THEN 1 ELSE c[k - 1] * q]
    BY <1>1
<1>3. \A k : Capacity(q, k) = c[k]
    BY DEF Capacity
<1> HIDE DEF c
<1>4. c[0] = 1 /\ \A k \in Nat : c[k + 1] = c[k] * q
    BY <1>2
<1>5. \A k \in Nat : c[k] \in Nat
    <2> DEFINE P == {k \in Nat : c[k] \in Nat}
    <2>1. P \in SUBSET Nat /\ 0 \in P
        BY <1>4
    <2>2. \A k \in P : k + 1 \in P
        BY <1>4
    <2> HIDE DEF P
    <2>3. P = Nat
        BY <2>1, <2>2, Induction
    <2> QED BY <2>3 DEF P
<1> QED BY <1>3, <1>4, <1>5

(* The loop that splits off the coefficients.                               *)
LEMMA RemainingTurns ==
    ASSUME NEW m, m.field \in Nat \ {0}, NEW column \in Nat
    PROVE  /\ Remaining(m, column, 0) = column
           /\ \A k \in Nat : /\ Remaining(m, column, k) \in Nat
                             /\ Remaining(m, column, k + 1) = Remaining(m, column, k) \div m.field
<1> DEFINE step == [p \in Nat \X Nat |-> p[2] \div m.field]
           Turns(f) == f = [k \in Nat |-> IF k = 0 THEN column ELSE f[k - 1] \div m.field]
           c == CHOOSE f : Turns(f)
<1>1. \E f : Turns(f)
    <2>1. step \in [Nat \X Nat -> Nat]
        OBVIOUS
    <2> HIDE DEF step
    <2>2. PICK f \in [Nat -> Nat] : RecursiveBy(f, column, step)
        BY <2>1, Recursion
    <2>3. \A n \in Nat : n # 0 => step[<<n - 1, f[n - 1]>>] = f[n - 1] \div m.field
        BY DEF step
    <2>4. Turns(f)
        BY <2>2, <2>3 DEF RecursiveBy
    <2> QED BY <2>4
<1>2. c = [k \in Nat |-> IF k = 0 THEN column ELSE c[k - 1] \div m.field]
    BY <1>1
<1>3. \A k : Remaining(m, column, k) = c[k]
    BY DEF Remaining
<1> HIDE DEF c
<1>4. c[0] = column /\ \A k \in Nat : c[k + 1] = c[k] \div m.field
    BY <1>2
<1>5. \A k \in Nat : c[k] \in Nat
    <2> DEFINE P == {k \in Nat : c[k] \in Nat}
    <2>1. P \in SUBSET Nat /\ 0 \in P
        BY <1>4
    <2>2. \A k \in P : k + 1 \in P
        BY <1>4
    <2> HIDE DEF P
    <2>3. P = Nat
        BY <2>1, <2>2, Induction
    <2> QED BY <2>3 DEF P
<1> QED BY <1>3, <1>4, <1>5

(* The powers of a point.                                                  *)
LEMMA PowerTurns ==
    ASSUME NEW m, m.field \in Nat \ {0}, NEW point \in Nat
    PROVE  /\ Power(m, point, 0) = 1
           /\ \A k \in Nat : /\ Power(m, point, k) \in Nat
                             /\ Power(m, point, k + 1) = (Power(m, point, k) * point) % m.field
<1> DEFINE step == [p \in Nat \X Nat |-> (p[2] * point) % m.field]
           Turns(f) == f = [k \in Nat |-> IF k = 0 THEN 1 ELSE (f[k - 1] * point) % m.field]
           c == CHOOSE f : Turns(f)
<1>1. \E f : Turns(f)
    <2>1. step \in [Nat \X Nat -> Nat]
        OBVIOUS
    <2> HIDE DEF step
    <2>2. PICK f \in [Nat -> Nat] : RecursiveBy(f, 1, step)
        BY <2>1, Recursion
    <2>3. \A n \in Nat : n # 0 => step[<<n - 1, f[n - 1]>>] = (f[n - 1] * point) % m.field
        BY DEF step
    <2>4. Turns(f)
        BY <2>2, <2>3 DEF RecursiveBy
    <2> QED BY <2>4
<1>2. c = [k \in Nat |-> IF k = 0 THEN 1 ELSE (c[k - 1] * point) % m.field]
    BY <1>1
<1>3. \A k : Power(m, point, k) = c[k]
    BY DEF Power
<1> HIDE DEF c
<1>4. c[0] = 1 /\ \A k \in Nat : c[k + 1] = (c[k] * point) % m.field
    BY <1>2
<1>5. \A k \in Nat : c[k] \in Nat
    <2> DEFINE P == {k \in Nat : c[k] \in Nat}
    <2>1. P \in SUBSET Nat /\ 0 \in P
        BY <1>4
    <2>2. \A k \in P : k + 1 \in P
        BY <1>4
    <2> HIDE DEF P
    <2>3. P = Nat
        BY <2>1, <2>2, Induction
    <2> QED BY <2>3 DEF P
<1> QED BY <1>3, <1>4, <1>5

(* The loop that sums up a symbol.                                         *)
LEMMA SymbolTurns ==
    ASSUME NEW m, m.field \in Nat \ {0}, NEW column \in Nat, NEW point \in Nat
    PROVE  /\ SymbolAfter(m, column, point, 0) = 0
           /\ \A k \in Nat : /\ SymbolAfter(m, column, point, k) \in Nat
                             /\ SymbolAfter(m, column, point, k + 1) = (SymbolAfter(m, column, point, k) + Coefficient(m, column, k) * Power(m, point, k)) % m.field
<1> DEFINE step == [p \in Nat \X Nat |-> (p[2] + Coefficient(m, column, p[1]) * Power(m, point, p[1])) % m.field]
           Turns(f) == f = [k \in Nat |-> IF k = 0 THEN 0 ELSE (f[k - 1] + Coefficient(m, column, k - 1) * Power(m, point, k - 1)) % m.field]
           c == CHOOSE f : Turns(f)
<1>0. \A k, v \in Nat : (v + Coefficient(m, column, k) * Power(m, point, k)) % m.field \in Nat
    <2>1. \A k \in Nat : Coefficient(m, column, k) \in Nat /\ Power(m, point, k) \in Nat
        <3>1. \A k \in Nat : Remaining(m, column, k) \in Nat
            BY RemainingTurns
        <3>2. \A k \in Nat : Power(m, point, k) \in Nat
            BY PowerTurns
        <3>3. \A v \in Nat : v % m.field \in Nat
            OBVIOUS
        <3> QED BY <3>1, <3>2, <3>3 DEF Coefficient
    <2>2. ASSUME NEW k \in Nat, NEW v \in Nat
          PROVE  (v + Coefficient(m, column, k) * Power(m, point, k)) % m.field \in Nat
        <3> DEFINE t == Coefficient(m, column, k) * Power(m, point, k)
        <3>1. t \in Nat
            BY <2>1
        <3> HIDE DEF t
        <3>2. (v + t) % m.field \in Nat
            BY <3>1
        <3> QED BY <3>2 DEF t
    <2> QED BY <2>2
<1>1. \E f : Turns(f)
    <2>1. step \in [Nat \X Nat -> Nat]
        BY <1>0
    <2> HIDE DEF step
    <2>2. PICK f \in [Nat -> Nat] : RecursiveBy(f, 0, step)
        BY <2>1, Recursion
    <2>3. \A n \in Nat : n # 0 => step[<<n - 1, f[n - 1]>>] = (f[n - 1] + Coefficient(m, column, n - 1) * Power(m, point, n - 1)) % m.field
        BY DEF step
    <2>4. Turns(f)
        BY <2>2, <2>3 DEF RecursiveBy
    <2> QED BY <2>4
<1>2. c = [k \in Nat |-> IF k = 0 THEN 0 ELSE (c[k - 1] + Coefficient(m, column, k - 1) * Power(m, point, k - 1)) % m.field]
    BY <1>1
<1>3. \A k : SymbolAfter(m, column, point, k) = c[k]
    BY DEF SymbolAfter
<1> HIDE DEF c
<1>4. c[0] = 0 /\ \A k \in Nat : c[k + 1] = (c[k] + Coefficient(m, column, k) * Power(m, point, k)) % m.field
    BY <1>2
<1>5. \A k \in Nat : c[k] \in Nat
    <2> DEFINE P == {k \in Nat : c[k] \in Nat}
    <2>1. P \in SUBSET Nat /\ 0 \in P
        BY <1>4
    <2>2. ASSUME NEW k \in P PROVE k + 1 \in P
        <3>1. k \in Nat /\ k + 1 \in Nat /\ c[k] \in Nat
            OBVIOUS
        <3>2. c[k + 1] \in Nat
            BY <1>0, <1>4, <3>1
        <3> QED BY <3>1, <3>2
    <2> HIDE DEF P
    <2>3. P = Nat
        BY <2>1, <2>2, Induction
    <2> QED BY <2>3 DEF P
<1> QED BY <1>3, <1>4, <1>5

(* q divides z.                                                            *)
Divides(q, z) == \E w \in Int : z = q * w

(* Quotient and remainder. *)
LEMMA Division ==
    ASSUME NEW a \in Int, NEW b \in Nat \ {0}
    PROVE  /\ a \div b \in Int /\ a % b \in 0 .. b - 1
           /\ a = b * (a \div b) + (a % b)
           /\ a \in Nat => a \div b \in Nat
<1>1. a \div b \in Int /\ a % b \in 0 .. b - 1
    OBVIOUS
<1>2. a = b * (a \div b) + (a % b)
    <2>1. a % b = a - b * (a \div b)
        OBVIOUS
    <2>2. b * (a \div b) \in Int
        BY <1>1
    <2> DEFINE p == b * (a \div b)
               r == a % b
    <2>3. p \in Int /\ r = a - p
        BY <2>1, <2>2
    <2> HIDE DEF p, r
    <2>4. a = p + r
        BY <2>3
    <2> QED BY <2>4 DEF p, r
<1>3. a \in Nat => a \div b \in Nat
    OBVIOUS
<1> QED BY <1>1, <1>2, <1>3

(* A quotient is the number that was multiplied. *)
LEMMA QuotientOfProduct ==
    ASSUME NEW b \in Nat \ {0}, NEW c \in Int, NEW s \in 0 .. b - 1
    PROVE  (b * c + s) \div b = c /\ (b * c + s) % b = s
<1> DEFINE a == b * c + s
           d == a \div b
           t == a % b
<1>1. a \in Int
    OBVIOUS
<1>2. d \in Int /\ t \in 0 .. b - 1 /\ a = b * d + t
    BY <1>1, Division
<1>3. b * (c - d) = t - s
    <2> HIDE DEF d, t
    <2> QED BY <1>2
<1> HIDE DEF d, t
<1>4. c = d
    <2>1. CASE c - d >= 1
        <3>1. b * (c - d) >= b
            BY <2>1, <1>2
        <3> QED BY <3>1, <1>2, <1>3
    <2>2. CASE c - d <= 0 - 1
        <3>1. b * (c - d) <= 0 - b
            BY <2>2, <1>2
        <3> QED BY <3>1, <1>2, <1>3
    <2> QED BY <2>1, <2>2, <1>2
<1>5. t = s
    <2>1. c - d = 0
        BY <1>2, <1>4
    <2>2. b * (c - d) = 0
        BY <2>1
    <2> QED BY <2>2, <1>2, <1>3
<1> QED BY <1>4, <1>5 DEF d, t

(* Multiples of q. *)
LEMMA DividesRules ==
    ASSUME NEW q \in Nat, NEW y \in Int, NEW z \in Int, Divides(q, y)
    PROVE  /\ Divides(q, y * z)
           /\ Divides(q, z) => Divides(q, y + z) /\ Divides(q, y - z)
<1>1. PICK v \in Int : y = q * v
    BY DEF Divides
<1>2. Divides(q, y * z)
    <2>1. y * z = q * (v * z) /\ v * z \in Int
        BY <1>1
    <2> QED BY <2>1 DEF Divides
<1>3. ASSUME Divides(q, z) PROVE Divides(q, y + z) /\ Divides(q, y - z)
    <2>1. PICK w \in Int : z = q * w
        BY <1>3 DEF Divides
    <2>2. y + z = q * (v + w) /\ y - z = q * (v - w) /\ v + w \in Int /\ v - w \in Int
        BY <1>1, <2>1
    <2> QED BY <2>2 DEF Divides
<1> QED BY <1>2, <1>3

(* bIsPrime tries odd divisors up to the square root only; that is enough. *)
LEMMA PrimeHasNoDivisor ==
    ASSUME NEW n \in Nat, IsPrime(n), NEW d \in 2 .. n - 1
    PROVE  n % d # 0
<1> SUFFICES ASSUME n % d = 0 PROVE FALSE
    OBVIOUS
<1> DEFINE e == n \div d
<1>1. e \in Nat /\ n = d * e /\ d \in Nat
    <2>1. d \in Nat \ {0} /\ n \in Int
        OBVIOUS
    <2>2. n = d * e + (n % d) /\ e \in Nat
        BY <2>1, Division
    <2>3. d * e \in Int
        BY <2>1, <2>2
    <2> HIDE DEF e
    <2> QED BY <2>2, <2>3
<1> HIDE DEF e
<1>2. e > 1 /\ e < n
    <2>1. e # 0 /\ e # 1
        BY <1>1
    <2>2. e > 1 => e + e <= d * e
        BY <1>1
    <2> QED BY <1>1, <2>1, <2>2
<1>3. n = e * d
    BY <1>1
<1>4. n % 2 # 0
    BY DEF IsPrime
<1>5. ASSUME NEW a \in Nat, NEW b \in Nat, n = a * b, a > 1, a < n, a <= b
      PROVE  FALSE
    <2>1. a % 2 = 1
        <3>1. a % 2 \in 0 .. 1 /\ a = 2 * (a \div 2) + (a % 2) /\ a \div 2 \in Nat
            BY Division
        <3>2. CASE a % 2 = 0
            <4> DEFINE h == a \div 2
            <4>1. h \in Nat /\ a = 2 * h
                BY <3>1, <3>2
            <4> HIDE DEF h
            <4>2. n = 2 * (h * b) + 0 /\ h * b \in Int
                BY <1>5, <4>1
            <4>3. n % 2 = 0
                BY <4>2
            <4> QED BY <4>3, <1>4
        <3> QED BY <3>1, <3>2
    <2>2. a \in 3 .. n
        BY <2>1, <1>5
    <2>3. n \div a = b /\ n % a = 0
        <3>1. n = a * b + 0 /\ 0 \in 0 .. a - 1 /\ a \in Nat \ {0} /\ b \in Int
            BY <1>5
        <3> QED BY <3>1, QuotientOfProduct
    <2> QED BY <2>1, <2>2, <2>3, <1>5 DEF IsPrime
<1> QED BY <1>1, <1>2, <1>3, <1>5

(* A prime that divides a product divides a factor. *)
LEMMA Euclid ==
    ASSUME NEW q \in Nat, IsPrime(q), NEW u \in 1 .. q - 1, NEW v \in Int,
           Divides(q, u * v)
    PROVE  Divides(q, v)
<1> DEFINE A == {x \in 1 .. q - 1 : Divides(q, x * v)}
<1>1. A \in SUBSET Nat /\ u \in A
    OBVIOUS
<1>2. PICK w \in A : \A y \in A : w <= y
    <2> HIDE DEF A
    <2> QED BY <1>1, Least
<1>3. CASE w = 1
    <2>1. 1 * v = v
        OBVIOUS
    <2> QED BY <1>2, <1>3, <2>1
<1>4. CASE w # 1
    <2> DEFINE s == q % w
               k == q \div w
    <2>1. w \in 2 .. q - 1 /\ w \in Nat \ {0} /\ q \in Int
        BY <1>4
    <2>2. s \in 0 .. w - 1 /\ k \in Int /\ q = w * k + s
        BY <2>1, Division
    <2>3. s # 0
        BY <2>1, PrimeHasNoDivisor
    <2> HIDE DEF s, k
    <2>4. Divides(q, s * v)
        <3>1. Divides(q, q)
            <4>1. q = q * 1
                OBVIOUS
            <4> QED BY <4>1 DEF Divides
        <3>2. Divides(q, q * v)
            <4>1. q \in Int
                OBVIOUS
            <4> QED BY <3>1, <4>1, DividesRules
        <3>3. w * v \in Int /\ q * v \in Int /\ (w * v) * k \in Int
            BY <2>1, <2>2
        <3>4. Divides(q, (w * v) * k)
            BY <3>3, <2>2, DividesRules, <1>2
        <3>5. Divides(q, q * v - (w * v) * k)
            BY <3>2, <3>3, <3>4, DividesRules
        <3>6. q * v = (w * v) * k + s * v
            <4>1. q * v = (w * k + s) * v
                BY <2>2
            <4>2. (w * k + s) * v = (w * v) * k + s * v
                BY <2>1, <2>2
            <4> QED BY <4>1, <4>2
        <3>7. q * v - (w * v) * k = s * v
            BY <3>3, <3>6, <2>2
        <3> QED BY <3>5, <3>7
    <2>5. s \in A /\ ~(w <= s)
        BY <2>1, <2>2, <2>3, <2>4
    <2> QED BY <2>5, <1>2
<1> QED BY <1>3, <1>4

(* A polynomial by Horner's rule, the highest of its n coefficients first. *)
Horner(c, x, n) ==
    LET h[k \in Nat] == IF k = 0 THEN 0 ELSE h[k - 1] * x + c[k - 1]
    IN  h[n]

(* Horner's rule, turn by turn.                                            *)
LEMMA HornerTurns ==
    ASSUME NEW c \in [Nat -> Int], NEW x \in Int
    PROVE  /\ Horner(c, x, 0) = 0
           /\ \A k \in Nat : /\ Horner(c, x, k) \in Int
                             /\ Horner(c, x, k + 1) = Horner(c, x, k) * x + c[k]
<1> DEFINE step == [p \in Nat \X Int |-> p[2] * x + c[p[1]]]
           Turns(f) == f = [k \in Nat |-> IF k = 0 THEN 0 ELSE f[k - 1] * x + c[k - 1]]
           h == CHOOSE f : Turns(f)
<1>1. \E f : Turns(f)
    <2>1. step \in [Nat \X Int -> Int]
        OBVIOUS
    <2> HIDE DEF step
    <2>2. PICK f \in [Nat -> Int] : RecursiveBy(f, 0, step)
        <3>1. 0 \in Int
            OBVIOUS
        <3> QED BY <2>1, <3>1, Recursion
    <2>3. \A n \in Nat : n # 0 => step[<<n - 1, f[n - 1]>>] = f[n - 1] * x + c[n - 1]
        BY DEF step
    <2>4. Turns(f)
        BY <2>2, <2>3 DEF RecursiveBy
    <2> QED BY <2>4
<1>2. h = [k \in Nat |-> IF k = 0 THEN 0 ELSE h[k - 1] * x + c[k - 1]]
    BY <1>1
<1>3. \A k : Horner(c, x, k) = h[k]
    BY DEF Horner
<1> HIDE DEF h
<1>4. h[0] = 0 /\ \A k \in Nat : h[k + 1] = h[k] * x + c[k]
    BY <1>2
<1>5. \A k \in Nat : h[k] \in Int
    <2> DEFINE P == {k \in Nat : h[k] \in Int}
    <2>1. P \in SUBSET Nat /\ 0 \in P
        BY <1>4
    <2>2. \A k \in P : k + 1 \in P
        BY <1>4
    <2> HIDE DEF P
    <2>3. P = Nat
        BY <2>1, <2>2, Induction
    <2> QED BY <2>3 DEF P
<1> QED BY <1>3, <1>4, <1>5

(* The quotient of a polynomial by x - r has the values of Horner's rule   *)
(* at r as its coefficients.                                               *)
Quotient(c, r) == [i \in Nat |-> Horner(c, r, i + 1)]

(* The quotient has integer coefficients.                                  *)
LEMMA QuotientType ==
    ASSUME NEW c \in [Nat -> Int], NEW r \in Int
    PROVE  Quotient(c, r) \in [Nat -> Int]
BY HornerTurns DEF Quotient

(* One turn of Horner's rule at two points.                                *)
LEMMA FactorStep ==
    ASSUME NEW x \in Int, NEW r \in Int, NEW hx \in Int, NEW hr \in Int, NEW g \in Int,
           NEW a \in Int, hx = (x - r) * g + hr
    PROVE  hx * x + a = (x - r) * (g * x + hr) + (hr * r + a)
<1>1. hx * x = ((x - r) * g + hr) * x
    OBVIOUS
<1>2. ((x - r) * g + hr) * x = (x - r) * (g * x + hr) + hr * r
    OBVIOUS
<1> QED BY <1>1, <1>2

(* A polynomial is its quotient times x - r, and its value at r.           *)
LEMMA Factor ==
    ASSUME NEW c \in [Nat -> Int], NEW x \in Int, NEW r \in Int, NEW n \in Nat
    PROVE  Horner(c, x, n + 1) = (x - r) * Horner(Quotient(c, r), x, n) + Horner(c, r, n + 1)
<1> DEFINE d == Quotient(c, r)
           P == {i \in Nat : Horner(c, x, i + 1) = (x - r) * Horner(d, x, i) + Horner(c, r, i + 1)}
<1>1. d \in [Nat -> Int] /\ \A i \in Nat : d[i] = Horner(c, r, i + 1)
    BY QuotientType DEF Quotient
<1> HIDE DEF d
<1>2. /\ \A i \in Nat : Horner(c, x, i) \in Int /\ Horner(c, r, i) \in Int /\ Horner(d, x, i) \in Int
      /\ Horner(c, x, 0) = 0 /\ Horner(c, r, 0) = 0 /\ Horner(d, x, 0) = 0
      /\ \A i \in Nat : /\ Horner(c, x, i + 1) = Horner(c, x, i) * x + c[i]
                        /\ Horner(c, r, i + 1) = Horner(c, r, i) * r + c[i]
                        /\ Horner(d, x, i + 1) = Horner(d, x, i) * x + d[i]
    BY <1>1, HornerTurns
<1>3. 0 \in P
    <2>1. Horner(c, x, 0 + 1) = c[0] /\ Horner(c, r, 0 + 1) = c[0] /\ c[0] \in Int
        <3>1. 0 * x = 0 /\ 0 * r = 0 /\ c[0] \in Int
            OBVIOUS
        <3> QED BY <1>2, <3>1
    <2>2. (x - r) * 0 = 0
        OBVIOUS
    <2> QED BY <1>2, <2>1, <2>2
<1>4. ASSUME NEW i \in P PROVE i + 1 \in P
    <2> DEFINE hx == Horner(c, x, i + 1)
               hr == Horner(c, r, i + 1)
               g == Horner(d, x, i)
               a == c[i + 1]
    <2>1. hx \in Int /\ hr \in Int /\ g \in Int /\ a \in Int /\ hx = (x - r) * g + hr
        BY <1>2
    <2>2. /\ Horner(c, x, (i + 1) + 1) = hx * x + a
          /\ Horner(c, r, (i + 1) + 1) = hr * r + a
          /\ Horner(d, x, i + 1) = g * x + hr
        <3>1. i + 1 \in Nat /\ i \in Nat
            OBVIOUS
        <3>2. d[i] = hr
            BY <1>1, <3>1
        <3> QED BY <1>2, <3>1, <3>2
    <2> HIDE DEF hx, hr, g, a
    <2>3. hx * x + a = (x - r) * (g * x + hr) + (hr * r + a)
        BY <2>1, FactorStep
    <2> QED BY <2>2, <2>3
<1>5. P = Nat
    <2> HIDE DEF P
    <2>1. P \in SUBSET Nat
        BY DEF P
    <2> QED BY <2>1, <1>3, <1>4, Induction
<1> QED BY <1>5 DEF d

(* All n coefficients are 0 in the field.                                  *)
Vanishes(q, c, n) == \A j \in 0 .. n - 1 : Divides(q, c[j])

(* The points of the field where a polynomial of n coefficients is 0.      *)
Roots(q, c, n) == {x \in 0 .. q - 1 : Divides(q, Horner(c, x, n))}

(* Over a prime field, a polynomial of n coefficients with n roots is 0.   *)
LEMMA ManyRoots ==
    ASSUME NEW q \in Nat, IsPrime(q), NEW n \in Nat
    PROVE  \A c \in [Nat -> Int] : \A R \in SUBSET Roots(q, c, n) :
               Cardinality(R) >= n => Vanishes(q, c, n)
<1> DEFINE P == {i \in Nat : \A c \in [Nat -> Int] : \A R \in SUBSET Roots(q, c, i) :
                     Cardinality(R) >= i => Vanishes(q, c, i)}
<1>1. 0 \in P
    BY DEF Vanishes
<1>2. ASSUME NEW n0 \in P PROVE n0 + 1 \in P
    <2> SUFFICES ASSUME NEW c \in [Nat -> Int], NEW R \in SUBSET Roots(q, c, n0 + 1),
                        Cardinality(R) >= n0 + 1
                 PROVE  Vanishes(q, c, n0 + 1)
        OBVIOUS
    <2>1. R \subseteq 0 .. q - 1 /\ IsFiniteSet(R) /\ n0 \in Nat /\ Cardinality(R) \in Nat
        <3>1. R \subseteq 0 .. q - 1
            BY DEF Roots
        <3>2. IsFiniteSet(0 .. q - 1)
            BY FS_Interval
        <3> QED BY <3>1, <3>2, FS_Subset, FS_CardinalityType
    <2>2. PICK r \in R : TRUE
        <3>1. R # {}
            BY <2>1, FS_EmptySet
        <3> QED BY <3>1
    <2> DEFINE d == Quotient(c, r)
    <2>3. r \in Int /\ r \in 0 .. q - 1 /\ Divides(q, Horner(c, r, n0 + 1))
        BY <2>1, <2>2 DEF Roots
    <2>4. d \in [Nat -> Int] /\ \A i \in Nat : d[i] = Horner(c, r, i + 1)
        BY <2>3, QuotientType DEF Quotient
    <2>5. Cardinality(R \ {r}) >= n0
        <3>1. Cardinality(R \ {r}) = Cardinality(R) - 1
            BY <2>1, <2>2, FS_RemoveElement
        <3> QED BY <2>1, <3>1
    <2>6. R \ {r} \in SUBSET Roots(q, d, n0)
        <3> SUFFICES ASSUME NEW x \in R \ {r} PROVE x \in Roots(q, d, n0)
            OBVIOUS
        <3> DEFINE g == Horner(d, x, n0)
        <3>1. x \in Int /\ x \in 0 .. q - 1 /\ Divides(q, Horner(c, x, n0 + 1))
            BY <2>1 DEF Roots
        <3>2. Horner(c, x, n0 + 1) = (x - r) * g + Horner(c, r, n0 + 1)
            BY <2>1, <2>3, <3>1, Factor
        <3>3. g \in Int /\ Horner(c, x, n0 + 1) \in Int /\ Horner(c, r, n0 + 1) \in Int
            <4>1. n0 \in Nat /\ n0 + 1 \in Nat
                BY <2>1
            <4>2. g \in Int
                BY <2>4, <3>1, <4>1, HornerTurns
            <4>3. Horner(c, x, n0 + 1) \in Int /\ Horner(c, r, n0 + 1) \in Int
                BY <2>3, <3>1, <4>1, HornerTurns
            <4> QED BY <4>2, <4>3
        <3> HIDE DEF g
        <3>4. Divides(q, (x - r) * g)
            <4>1. Divides(q, Horner(c, x, n0 + 1) - Horner(c, r, n0 + 1))
                BY <2>3, <3>1, <3>3, DividesRules
            <4>2. (x - r) * g \in Int
                BY <2>3, <3>1, <3>3
            <4>3. Horner(c, x, n0 + 1) - Horner(c, r, n0 + 1) = (x - r) * g
                BY <3>2, <3>3, <4>2
            <4> QED BY <4>1, <4>3
        <3>5. Divides(q, g)
            <4>1. CASE x > r
                <5>1. x - r \in 1 .. q - 1
                    BY <2>3, <3>1, <4>1
                <5> QED BY <3>3, <3>4, <5>1, Euclid
            <4>2. CASE x < r
                <5>1. r - x \in 1 .. q - 1
                    BY <2>3, <3>1, <4>2
                <5>2. ((x - r) * g) * (0 - 1) = (r - x) * g /\ (x - r) * g \in Int
                    BY <2>3, <3>1, <3>3
                <5>3. Divides(q, (r - x) * g)
                    BY <3>4, <5>2, DividesRules
                <5> QED BY <3>3, <5>1, <5>3, Euclid
            <4> QED BY <2>3, <3>1, <4>1, <4>2
        <3> QED BY <3>1, <3>5 DEF Roots, g
    <2> HIDE DEF d
    <2>7. Vanishes(q, d, n0)
        BY <2>4, <2>5, <2>6
    <2>8. \A j \in 0 .. n0 + 1 : Divides(q, Horner(c, r, j)) /\ Horner(c, r, j) \in Int
        <3> SUFFICES ASSUME NEW j \in 0 .. n0 + 1
                     PROVE  Divides(q, Horner(c, r, j)) /\ Horner(c, r, j) \in Int
            OBVIOUS
        <3>0. j \in Nat /\ Horner(c, r, j) \in Int
            BY <2>1, <2>3, HornerTurns
        <3>1. CASE j = 0
            <4>1. Horner(c, r, j) = 0 /\ 0 = q * 0
                BY <2>3, <3>1, HornerTurns
            <4> QED BY <4>1 DEF Divides
        <3>2. CASE j = n0 + 1
            BY <2>3, <3>0, <3>2
        <3>3. CASE j \in 1 .. n0
            <4>1. j - 1 \in 0 .. n0 - 1 /\ j - 1 \in Nat /\ (j - 1) + 1 = j
                BY <2>1, <3>3
            <4>2. Divides(q, d[j - 1]) /\ d[j - 1] = Horner(c, r, j)
                BY <2>4, <2>7, <4>1 DEF Vanishes
            <4> QED BY <3>0, <4>2
        <3> QED BY <2>1, <3>1, <3>2, <3>3
    <2> SUFFICES ASSUME NEW j \in 0 .. (n0 + 1) - 1 PROVE Divides(q, c[j])
        BY DEF Vanishes
    <2>9. j \in Nat /\ j \in 0 .. n0 + 1 /\ j + 1 \in 0 .. n0 + 1 /\ c[j] \in Int
        BY <2>1
    <2>10. Horner(c, r, j + 1) = Horner(c, r, j) * r + c[j]
        BY <2>3, <2>9, HornerTurns
    <2>11. /\ Divides(q, Horner(c, r, j) * r) /\ Divides(q, Horner(c, r, j + 1))
           /\ Horner(c, r, j) * r \in Int /\ Horner(c, r, j + 1) \in Int
        <3> DEFINE hj == Horner(c, r, j)
        <3>1. hj \in Int /\ Divides(q, hj) /\ r \in Int
            BY <2>3, <2>8, <2>9
        <3>2. Divides(q, Horner(c, r, j + 1)) /\ Horner(c, r, j + 1) \in Int
            BY <2>8, <2>9
        <3> HIDE DEF hj
        <3>3. Divides(q, hj * r) /\ hj * r \in Int
            BY <3>1, DividesRules
        <3> QED BY <3>2, <3>3 DEF hj
    <2>12. Divides(q, Horner(c, r, j + 1) - Horner(c, r, j) * r)
        BY <2>11, DividesRules
    <2>13. Horner(c, r, j + 1) - Horner(c, r, j) * r = c[j]
        BY <2>9, <2>10, <2>11
    <2> QED BY <2>12, <2>13
<1> HIDE DEF P
<1>3. P = Nat
    <2>1. P \in SUBSET Nat
        BY DEF P
    <2> QED BY <2>1, <1>1, <1>2, Induction
<1> QED BY <1>3 DEF P

(* A number has no more digits than needed, and is what they make of it.   *)
LEMMA RemainingBound ==
    ASSUME NEW m, m.field \in Nat \ {0}, NEW column \in Nat, NEW n \in Nat,
           column < Capacity(m.field, n)
    PROVE  \A j \in 0 .. n : Remaining(m, column, j) < Capacity(m.field, n - j)
<1> DEFINE q == m.field
           P == {j \in Nat : j <= n => Remaining(m, column, j) < Capacity(q, n - j)}
<1>1. 0 \in P
    BY RemainingTurns
<1>2. ASSUME NEW j \in P PROVE j + 1 \in P
    <2> SUFFICES ASSUME j + 1 <= n
                 PROVE  Remaining(m, column, j + 1) < Capacity(q, n - (j + 1))
        OBVIOUS
    <2> DEFINE y == Remaining(m, column, j)
               z == Capacity(q, n - (j + 1))
    <2>1. n - (j + 1) \in Nat /\ (n - (j + 1)) + 1 = n - j /\ j \in Nat /\ j <= n
        OBVIOUS
    <2>2. y \in Nat /\ Remaining(m, column, j + 1) = y \div q
        BY <2>1, RemainingTurns
    <2>3. z \in Nat /\ Capacity(q, n - j) = z * q
        BY <2>1, CapacityTurns
    <2>4. y < z * q
        BY <2>1, <2>3
    <2> HIDE DEF y, z, q
    <2>5. q \in Nat \ {0} /\ y \in Int
        BY <2>2 DEF q
    <2>6. y = q * (y \div q) + (y % q) /\ y \div q \in Nat /\ y % q \in 0 .. q - 1
        BY <2>2, <2>5, Division
    <2>7. y \div q < z
        <3> SUFFICES ASSUME z <= y \div q PROVE FALSE
            BY <2>3, <2>6
        <3>1. z * q <= q * (y \div q)
            BY <2>3, <2>5, <2>6
        <3>2. q * (y \div q) <= y
            BY <2>5, <2>6
        <3> QED BY <2>2, <2>3, <2>4, <2>5, <2>6, <3>1, <3>2
    <2> QED BY <2>2, <2>7 DEF z, q
<1>3. P = Nat
    <2> HIDE DEF P
    <2>1. P \in SUBSET Nat
        BY DEF P
    <2> QED BY <2>1, <1>1, <1>2, Induction
<1> QED BY <1>3

(* Numbers with the same digits are equal.                                 *)
LEMMA DigitsTell ==
    ASSUME NEW m, m.field \in Nat \ {0}, NEW c \in Nat, NEW d \in Nat, NEW n \in Nat,
           c < Capacity(m.field, n), d < Capacity(m.field, n),
           \A j \in 0 .. n - 1 : Coefficient(m, c, j) = Coefficient(m, d, j)
    PROVE  c = d
<1> DEFINE P == {i \in Nat : i <= n => Remaining(m, c, n - i) = Remaining(m, d, n - i)}
<1>1. 0 \in P
    <2>1. n \in 0 .. n /\ n - n = 0 /\ n - 0 = n /\ Capacity(m.field, 0) = 1
        <3>1. m.field \in Nat
            OBVIOUS
        <3>2. Capacity(m.field, 0) = 1
            BY <3>1, CapacityTurns
        <3> QED BY <3>2
    <2>2. Remaining(m, c, n) < 1 /\ Remaining(m, d, n) < 1
        BY <2>1, RemainingBound
    <2>3. Remaining(m, c, n) \in Nat /\ Remaining(m, d, n) \in Nat
        BY RemainingTurns
    <2> QED BY <2>1, <2>2, <2>3
<1>2. ASSUME NEW i \in P PROVE i + 1 \in P
    <2> SUFFICES ASSUME i + 1 <= n
                 PROVE  Remaining(m, c, n - (i + 1)) = Remaining(m, d, n - (i + 1))
        OBVIOUS
    <2> DEFINE j == n - (i + 1)
    <2>1. j \in 0 .. n - 1 /\ j \in Nat /\ j + 1 = n - i /\ i <= n
        OBVIOUS
    <2>2. Remaining(m, c, j + 1) = Remaining(m, d, j + 1)
        BY <2>1
    <2> HIDE DEF j
    <2>3. ASSUME NEW column \in Nat
          PROVE  Remaining(m, column, j)
                     = m.field * Remaining(m, column, j + 1) + Coefficient(m, column, j)
        <3>1. /\ Remaining(m, column, j) \in Nat
              /\ Remaining(m, column, j + 1) = Remaining(m, column, j) \div m.field
            BY <2>1, RemainingTurns
        <3>2. Remaining(m, column, j) \in Int
            BY <3>1
        <3> QED BY <3>1, <3>2, Division DEF Coefficient
    <2>4. Coefficient(m, c, j) = Coefficient(m, d, j)
        BY <2>1
    <2>5. Remaining(m, c, j) = Remaining(m, d, j)
        BY <2>2, <2>3, <2>4
    <2> QED BY <2>5 DEF j
<1>3. P = Nat
    <2> HIDE DEF P
    <2>1. P \in SUBSET Nat
        BY DEF P
    <2> QED BY <2>1, <1>1, <1>2, Induction
<1>4. Remaining(m, c, n - n) = Remaining(m, d, n - n)
    <2>1. n \in P
        BY <1>3
    <2> QED BY <2>1
<1>5. n - n = 0 /\ Remaining(m, c, 0) = c /\ Remaining(m, d, 0) = d
    BY RemainingTurns
<1> QED BY <1>4, <1>5

(* What is cut off by the remainder is a multiple of the field size.       *)
LEMMA Reduced ==
    ASSUME NEW q \in Nat \ {0}, NEW a \in Int
    PROVE  \E w \in Int : a = (a % q) + q * w
<1>1. a \div q \in Int /\ a = q * (a \div q) + (a % q) /\ a % q \in Int
    BY Division
<1>2. q * (a \div q) \in Int
    BY <1>1
<1>3. a = (a % q) + q * (a \div q)
    <2> DEFINE s == a % q
               t == q * (a \div q)
    <2>1. s \in Int /\ t \in Int /\ a = t + s
        BY <1>1, <1>2
    <2> HIDE DEF s, t
    <2>2. a = s + t
        BY <2>1
    <2> QED BY <2>2 DEF s, t
<1> QED BY <1>1, <1>3

(* The difference of two columns as a polynomial.                          *)
Differences(m, c, d, n) ==
    [j \in Nat |-> IF j < n THEN Coefficient(m, c, n - 1 - j) - Coefficient(m, d, n - 1 - j)
                   ELSE 0]

(* A coefficient is a member of the field.                                 *)
LEMMA CoefficientType ==
    ASSUME NEW m, m.field \in Nat \ {0}, NEW column \in Nat, NEW j \in Nat
    PROVE  Coefficient(m, column, j) \in 0 .. m.field - 1
<1>1. Remaining(m, column, j) \in Int
    <2>1. Remaining(m, column, j) \in Nat
        BY RemainingTurns
    <2> QED BY <2>1
<1> QED BY <1>1, Division DEF Coefficient

(* The differences of coefficients are integers.                           *)
LEMMA DifferencesType ==
    ASSUME NEW m, m.field \in Nat \ {0}, NEW c \in Nat, NEW d \in Nat, NEW n \in Nat
    PROVE  Differences(m, c, d, n) \in [Nat -> Int]
<1>1. ASSUME NEW j \in Nat, j < n
      PROVE  Coefficient(m, c, n - 1 - j) - Coefficient(m, d, n - 1 - j) \in Int
    <2>1. n - 1 - j \in Nat
        BY <1>1
    <2>2. /\ Coefficient(m, c, n - 1 - j) \in 0 .. m.field - 1
          /\ Coefficient(m, d, n - 1 - j) \in 0 .. m.field - 1
        BY <2>1, CoefficientType
    <2> QED BY <2>2
<1> QED BY <1>1 DEF Differences

(* One turn of the sum against one of Horner's rule. *)
LEMMA TurnsMeet ==
    ASSUME NEW q \in Int, NEW A \in Int, NEW sc \in Int, NEW sd \in Int, NEW pw \in Int,
           NEW h \in Int, NEW sc1 \in Int, NEW sd1 \in Int, NEW pw1 \in Int, NEW x \in Int,
           NEW ac \in Int, NEW ad \in Int,
           NEW t \in Int, NEW tc \in Int, NEW td \in Int, NEW tp \in Int,
           A - ((sc - sd) + pw * h) = q * t,
           sc1 + ac * pw1 = sc + q * tc,
           sd1 + ad * pw1 = sd + q * td,
           pw1 * x = pw + q * tp
    PROVE  A - ((sc1 - sd1) + pw1 * (h * x + (ac - ad))) = q * (t - tc + td - tp * h)
<1>1. pw1 * (h * x + (ac - ad)) = (pw1 * x) * h + ac * pw1 - ad * pw1
    OBVIOUS
<1>2. (pw1 * x) * h = pw * h + q * (tp * h)
    <2>1. (pw + q * tp) * h = pw * h + q * (tp * h)
        OBVIOUS
    <2> QED BY <2>1
<1>3. q * (t - tc + td - tp * h) = q * t - q * tc + q * td - q * (tp * h)
    OBVIOUS
<1> QED BY <1>1, <1>2, <1>3

(* The difference of two symbols is the difference polynomial's value, up   *)
(* to a multiple of the field size.                                        *)
LEMMA SymbolsByHorner ==
    ASSUME NEW m, m.field \in Nat \ {0}, NEW c \in Nat, NEW d \in Nat, NEW point \in Nat,
           NEW n \in Nat
    PROVE  Divides(m.field, (SymbolAfter(m, c, point, n) - SymbolAfter(m, d, point, n))
                            - Horner(Differences(m, c, d, n), point, n))
<1> DEFINE q == m.field
           D == Differences(m, c, d, n)
           sc(k) == SymbolAfter(m, c, point, k)
           sd(k) == SymbolAfter(m, d, point, k)
           pw(k) == Power(m, point, k)
           h(k) == Horner(D, point, k)
           A == sc(n) - sd(n)
           P == {i \in Nat : i <= n => Divides(q, A - ((sc(n - i) - sd(n - i)) + pw(n - i) * h(i)))}
<1>1. /\ q \in Nat \ {0} /\ q \in Int /\ point \in Int
      /\ D \in [Nat -> Int]
      /\ \A k \in Nat : sc(k) \in Nat /\ sd(k) \in Nat /\ pw(k) \in Nat /\ h(k) \in Int
      /\ sc(0) = 0 /\ sd(0) = 0 /\ pw(0) = 1 /\ h(0) = 0
    <2>1. D \in [Nat -> Int] /\ point \in Int
        BY DifferencesType
    <2>2. h(0) = 0 /\ \A k \in Nat : h(k) \in Int
        BY <2>1, HornerTurns
    <2>3. sc(0) = 0 /\ sd(0) = 0 /\ \A k \in Nat : sc(k) \in Nat /\ sd(k) \in Nat
        BY SymbolTurns
    <2>4. pw(0) = 1 /\ \A k \in Nat : pw(k) \in Nat
        BY PowerTurns
    <2> QED BY <2>1, <2>2, <2>3, <2>4
<1>2. \A k \in Nat :
        /\ sc(k + 1) = (sc(k) + Coefficient(m, c, k) * pw(k)) % q
        /\ sd(k + 1) = (sd(k) + Coefficient(m, d, k) * pw(k)) % q
        /\ pw(k + 1) = (pw(k) * point) % q
        /\ h(k + 1) = h(k) * point + D[k]
    <2>1. \A k \in Nat : h(k + 1) = h(k) * point + D[k]
        BY <1>1, HornerTurns
    <2>2. \A k \in Nat :
            /\ sc(k + 1) = (sc(k) + Coefficient(m, c, k) * pw(k)) % q
            /\ sd(k + 1) = (sd(k) + Coefficient(m, d, k) * pw(k)) % q
        <3>1. \A k \in Nat : sc(k + 1) = (sc(k) + Coefficient(m, c, k) * pw(k)) % q
            BY SymbolTurns
        <3>2. \A k \in Nat : sd(k + 1) = (sd(k) + Coefficient(m, d, k) * pw(k)) % q
            BY SymbolTurns
        <3> QED BY <3>1, <3>2
    <2>3. \A k \in Nat : pw(k + 1) = (pw(k) * point) % q
        BY PowerTurns
    <2> QED BY <2>1, <2>2, <2>3
<1>3. \A k \in Nat : Coefficient(m, c, k) \in Int /\ Coefficient(m, d, k) \in Int
    <2>1. \A k \in Nat : /\ Coefficient(m, c, k) \in 0 .. m.field - 1
                         /\ Coefficient(m, d, k) \in 0 .. m.field - 1
        BY CoefficientType
    <2> QED BY <2>1
<1>4. \A j \in Nat : j < n => D[j] = Coefficient(m, c, n - 1 - j) - Coefficient(m, d, n - 1 - j)
    BY DEF Differences
<1> HIDE DEF q, D, sc, sd, pw, h
<1>5. 0 \in P
    <2>1. n - 0 = n /\ n \in Nat
        OBVIOUS
    <2>2. sc(n) \in Int /\ sd(n) \in Int /\ pw(n) \in Int
        BY <1>1
    <2>3. pw(n) * 0 = 0
        BY <2>2
    <2>4. A - ((sc(n) - sd(n)) + pw(n) * h(0)) = 0
        BY <1>1, <2>2, <2>3
    <2>5. 0 = q * 0
        BY <1>1
    <2>6. Divides(q, 0)
        BY <2>5 DEF Divides
    <2> QED BY <2>1, <2>4, <2>6
<1>6. ASSUME NEW i \in P PROVE i + 1 \in P
    <2> SUFFICES ASSUME i + 1 <= n
                 PROVE  Divides(q, A - ((sc(n - (i + 1)) - sd(n - (i + 1))) + pw(n - (i + 1)) * h(i + 1)))
        OBVIOUS
    <2> DEFINE j == n - (i + 1)
               ac == Coefficient(m, c, j)
               ad == Coefficient(m, d, j)
    <2>1. i \in Nat /\ j \in Nat /\ j + 1 = n - i /\ i <= n /\ i < n /\ n - 1 - i = j
        OBVIOUS
    <2>2. Divides(q, A - ((sc(j + 1) - sd(j + 1)) + pw(j + 1) * h(i)))
        BY <2>1
    <2> HIDE DEF j
    <2>3. PICK t \in Int : A - ((sc(j + 1) - sd(j + 1)) + pw(j + 1) * h(i)) = q * t
        BY <2>2 DEF Divides
    <2>4. ac \in Int /\ ad \in Int /\ D[i] = ac - ad
        BY <1>3, <1>4, <2>1
    <2>5. /\ sc(j) \in Int /\ sd(j) \in Int /\ pw(j) \in Int /\ h(i) \in Int
          /\ sc(j + 1) \in Int /\ sd(j + 1) \in Int /\ pw(j + 1) \in Int /\ A \in Int
        BY <1>1, <2>1
    <2>6. h(i + 1) = h(i) * point + (ac - ad)
        BY <1>2, <2>1, <2>4
    <2> HIDE DEF ac, ad
    <2>7. PICK tc \in Int : sc(j) + ac * pw(j) = sc(j + 1) + q * tc
        <3> DEFINE y == sc(j) + ac * pw(j)
        <3>1. y \in Int
            BY <2>4, <2>5
        <3>2. sc(j + 1) = y % q
            BY <1>2, <2>1 DEF ac
        <3> HIDE DEF y
        <3>3. \E w \in Int : y = (y % q) + q * w
            BY <1>1, <3>1, Reduced
        <3> QED BY <3>2, <3>3 DEF y
    <2>8. PICK td \in Int : sd(j) + ad * pw(j) = sd(j + 1) + q * td
        <3> DEFINE y == sd(j) + ad * pw(j)
        <3>1. y \in Int
            BY <2>4, <2>5
        <3>2. sd(j + 1) = y % q
            BY <1>2, <2>1 DEF ad
        <3> HIDE DEF y
        <3>3. \E w \in Int : y = (y % q) + q * w
            BY <1>1, <3>1, Reduced
        <3> QED BY <3>2, <3>3 DEF y
    <2>9. PICK tp \in Int : pw(j) * point = pw(j + 1) + q * tp
        <3> DEFINE y == pw(j) * point
        <3>1. y \in Int
            BY <1>1, <2>5
        <3>2. pw(j + 1) = y % q
            BY <1>2, <2>1
        <3> HIDE DEF y
        <3>3. \E w \in Int : y = (y % q) + q * w
            BY <1>1, <3>1, Reduced
        <3> QED BY <3>2, <3>3 DEF y
    <2> HIDE DEF A
    <2>10. A - ((sc(j) - sd(j)) + pw(j) * (h(i) * point + (ac - ad)))
              = q * (t - tc + td - tp * h(i))
        <3> DEFINE a1 == sc(j + 1)
                   a2 == sd(j + 1)
                   a3 == pw(j + 1)
                   b1 == sc(j)
                   b2 == sd(j)
                   b3 == pw(j)
                   b4 == h(i)
        <3>1. /\ q \in Int /\ A \in Int /\ a1 \in Int /\ a2 \in Int /\ a3 \in Int
              /\ b1 \in Int /\ b2 \in Int /\ b3 \in Int /\ b4 \in Int /\ point \in Int
              /\ ac \in Int /\ ad \in Int
              /\ t \in Int /\ tc \in Int /\ td \in Int /\ tp \in Int
            BY <1>1, <2>4, <2>5
        <3>2. /\ A - ((a1 - a2) + a3 * b4) = q * t
              /\ b1 + ac * b3 = a1 + q * tc
              /\ b2 + ad * b3 = a2 + q * td
              /\ b3 * point = a3 + q * tp
            BY <2>3, <2>7, <2>8, <2>9
        <3> HIDE DEF a1, a2, a3, b1, b2, b3, b4
        <3>3. A - ((b1 - b2) + b3 * (b4 * point + (ac - ad))) = q * (t - tc + td - tp * b4)
            BY <3>1, <3>2, TurnsMeet
        <3> QED BY <3>3 DEF b1, b2, b3, b4
    <2>11. t - tc + td - tp * h(i) \in Int
        BY <2>5
    <2>12. Divides(q, A - ((sc(j) - sd(j)) + pw(j) * h(i + 1)))
        BY <2>6, <2>10, <2>11 DEF Divides
    <2> QED BY <2>12 DEF j
<1>7. P = Nat
    <2> HIDE DEF P
    <2>1. P \in SUBSET Nat
        BY DEF P
    <2> QED BY <2>1, <1>5, <1>6, Induction
<1>8. Divides(q, A - ((sc(n - n) - sd(n - n)) + pw(n - n) * h(n)))
    <2>1. n \in P
        BY <1>7
    <2> QED BY <2>1
<1>9. (sc(n - n) - sd(n - n)) + pw(n - n) * h(n) = h(n)
    <2>1. n - n = 0 /\ h(n) \in Int
        BY <1>1
    <2>2. 1 * h(n) = h(n)
        BY <2>1
    <2> QED BY <1>1, <2>1, <2>2
<1> QED BY <1>8, <1>9 DEF q, D, sc, sd, pw, h

-----------------------------------------------------------------------------
(* THE MATRIX (KsRs).                                                      *)

(* A matrix as findBestParameters chooses it. *)
Sensible(m) ==
    /\ m.field \in Nat /\ IsPrime(m.field)
    /\ m.digits \in Nat \ {0} /\ m.threshold \in Nat
    /\ m.points \in Nat /\ m.points <= m.field
    /\ m.points = m.digits + 2 * m.threshold
    /\ m.size \in Nat /\ m.size <= Capacity(m.field, m.digits)

(* The points at which two columns lie in the same row.                    *)
Agreements(m, c, d) == {x \in Points(m) : Symbol(m, c, x) = Symbol(m, d, x)}

(* Two positions of a group share fewer rows than a column has digits.     *)
LEMMA FewAgreements ==
    ASSUME NEW m, Sensible(m), NEW c \in 0 .. m.size - 1, NEW d \in 0 .. m.size - 1, c # d
    PROVE  /\ IsFiniteSet(Agreements(m, c, d))
           /\ Cardinality(Agreements(m, c, d)) \in 0 .. m.digits - 1
<1> DEFINE q == m.field
           n == m.digits
           R == Agreements(m, c, d)
           D == Differences(m, c, d, n)
<1>1. /\ q \in Nat /\ q \in Nat \ {0} /\ IsPrime(q) /\ n \in Nat /\ c \in Nat /\ d \in Nat
      /\ m.points \in Nat /\ m.points <= q
      /\ c < Capacity(q, n) /\ d < Capacity(q, n)
    <2>1. m.field \in Nat /\ IsPrime(m.field) /\ m.digits \in Nat
        BY DEF Sensible
    <2>2. q \in Nat \ {0}
        BY <2>1 DEF IsPrime
    <2>3. Capacity(q, n) \in Nat
        BY <2>1, CapacityTurns
    <2>4. c < m.size /\ d < m.size /\ m.size <= Capacity(q, n) /\ m.size \in Nat
        BY DEF Sensible
    <2> QED BY <2>1, <2>2, <2>3, <2>4 DEF Sensible
<1>2. R \subseteq 0 .. q - 1 /\ IsFiniteSet(R) /\ Cardinality(R) \in Nat
    <2>1. R \subseteq 0 .. q - 1
        BY <1>1 DEF Agreements, Points
    <2>2. IsFiniteSet(0 .. q - 1)
        <3>1. 0 \in Int /\ q - 1 \in Int
            BY <1>1
        <3> QED BY <3>1, FS_Interval
    <2> QED BY <2>1, <2>2, FS_Subset, FS_CardinalityType
<1>3. D \in [Nat -> Int]
    BY <1>1, DifferencesType
<1>4. ASSUME Cardinality(R) >= n PROVE FALSE
    <2>1. R \in SUBSET Roots(q, D, n)
        <3> SUFFICES ASSUME NEW x \in R PROVE x \in Roots(q, D, n)
            OBVIOUS
        <3>1. x \in Nat /\ x \in 0 .. q - 1 /\ x \in Int
            BY <1>2
        <3> DEFINE sc == SymbolAfter(m, c, x, n)
                   sd == SymbolAfter(m, d, x, n)
                   h == Horner(D, x, n)
        <3>2. sc = sd
            BY DEF Agreements, Symbol
        <3>3. sc \in Nat /\ h \in Int
            <4>1. sc \in Nat
                BY <1>1, <3>1, SymbolTurns
            <4>2. h \in Int
                BY <1>1, <1>3, <3>1, HornerTurns
            <4> QED BY <4>1, <4>2
        <3>4. Divides(q, (sc - sd) - h)
            BY <1>1, <3>1, SymbolsByHorner
        <3> HIDE DEF sc, sd, h
        <3>5. ((sc - sd) - h) * (0 - 1) = h /\ (sc - sd) - h \in Int
            BY <3>2, <3>3
        <3>6. Divides(q, h)
            BY <1>1, <3>4, <3>5, DividesRules
        <3> QED BY <3>1, <3>6 DEF Roots, h
    <2>2. Vanishes(q, D, n)
        <3> HIDE DEF D, R
        <3> QED BY <1>1, <1>3, <1>4, <2>1, ManyRoots
    <2>3. ASSUME NEW j \in 0 .. n - 1
          PROVE  Coefficient(m, c, j) = Coefficient(m, d, j)
        <3> DEFINE a == Coefficient(m, c, j)
                   b == Coefficient(m, d, j)
        <3>1. n - 1 - j \in 0 .. n - 1 /\ n - 1 - j \in Nat /\ n - 1 - j < n /\ j \in Nat
              /\ n - 1 - (n - 1 - j) = j
            BY <1>1
        <3>2. D[n - 1 - j] = a - b
            BY <3>1 DEF Differences
        <3>3. Divides(q, a - b)
            BY <2>2, <3>1, <3>2 DEF Vanishes
        <3>4. a \in 0 .. q - 1 /\ b \in 0 .. q - 1
            BY <1>1, <3>1, CoefficientType
        <3> HIDE DEF a, b, q
        <3>5. PICK w \in Int : a - b = q * w
            BY <3>3 DEF Divides
        <3>6. w = 0
            <4>1. CASE w >= 1
                <5>1. q * w >= q
                    BY <1>1, <4>1
                <5> QED BY <1>1, <3>4, <3>5, <5>1
            <4>2. CASE w <= 0 - 1
                <5>1. q * w <= 0 - q
                    BY <1>1, <4>2
                <5> QED BY <1>1, <3>4, <3>5, <5>1
            <4> QED BY <4>1, <4>2
        <3>7. q * w = 0
            BY <1>1, <3>6
        <3>8. a = b
            BY <3>4, <3>5, <3>7
        <3> QED BY <3>8 DEF a, b
    <2>4. c = d
        BY <1>1, <2>3, DigitsTell
    <2> QED BY <2>4
<1> QED BY <1>1, <1>2, <1>4

(* Few sets of few elements have few elements together.                    *)
LEMMA UnionBound ==
    ASSUME NEW e \in Nat, NEW n \in Nat
    PROVE  \A D : \A f : IsFiniteSet(D) /\ Cardinality(D) <= n
               /\ (\A x \in D : IsFiniteSet(f[x]) /\ Cardinality(f[x]) <= e)
             => /\ IsFiniteSet(UNION {f[x] : x \in D})
                /\ Cardinality(UNION {f[x] : x \in D}) <= n * e
<1> DEFINE U(D, f) == UNION {f[x] : x \in D}
           P == {i \in Nat : \A D : \A f : IsFiniteSet(D) /\ Cardinality(D) <= i
                   /\ (\A x \in D : IsFiniteSet(f[x]) /\ Cardinality(f[x]) <= e)
                 => IsFiniteSet(U(D, f)) /\ Cardinality(U(D, f)) <= i * e}
<1>1. ASSUME NEW i \in Nat, NEW D, NEW f, D = {}
      PROVE  IsFiniteSet(U(D, f)) /\ Cardinality(U(D, f)) <= i * e
    <2>1. U(D, f) = {}
        BY <1>1
    <2>2. 0 <= i * e
        OBVIOUS
    <2> HIDE DEF U
    <2> QED BY <2>1, <2>2, FS_EmptySet
<1>2. 0 \in P
    <2> SUFFICES ASSUME NEW D, NEW f, IsFiniteSet(D), Cardinality(D) <= 0
                 PROVE  IsFiniteSet(U(D, f)) /\ Cardinality(U(D, f)) <= 0 * e
        OBVIOUS
    <2>1. D = {}
        BY FS_EmptySet, FS_CardinalityType
    <2> HIDE DEF U
    <2> QED BY <1>1, <2>1
<1>3. ASSUME NEW i \in P PROVE i + 1 \in P
    <2> HIDE DEF U
    <2> SUFFICES ASSUME NEW D, NEW f, IsFiniteSet(D), Cardinality(D) <= i + 1,
                        \A x \in D : IsFiniteSet(f[x]) /\ Cardinality(f[x]) <= e
                 PROVE  IsFiniteSet(U(D, f)) /\ Cardinality(U(D, f)) <= (i + 1) * e
        OBVIOUS
    <2>1. CASE D = {}
        <3>1. i + 1 \in Nat
            OBVIOUS
        <3> QED BY <1>1, <2>1, <3>1
    <2>2. CASE D # {}
        <3>1. PICK z \in D : TRUE
            BY <2>2
        <3> DEFINE E == D \ {z}
        <3>2. IsFiniteSet(E) /\ Cardinality(E) <= i
            <4>1. IsFiniteSet(E) /\ Cardinality(E) = Cardinality(D) - 1
                BY <3>1, FS_RemoveElement
            <4>2. Cardinality(D) \in Nat
                BY FS_CardinalityType
            <4> QED BY <4>1, <4>2
        <3>3. IsFiniteSet(U(E, f)) /\ Cardinality(U(E, f)) <= i * e
            BY <3>2
        <3>4. U(D, f) = U(E, f) \cup f[z]
            BY <3>1 DEF U
        <3>5. IsFiniteSet(f[z]) /\ Cardinality(f[z]) <= e
            BY <3>1
        <3> DEFINE V == U(E, f)
                   W == f[z]
        <3> HIDE DEF E, V, W
        <3>6. IsFiniteSet(V) /\ IsFiniteSet(W) /\ Cardinality(V) \in Nat /\ Cardinality(W) \in Nat
              /\ IsFiniteSet(V \cap W) /\ Cardinality(V \cap W) \in Nat
            <4>1. IsFiniteSet(V) /\ IsFiniteSet(W)
                BY <3>3, <3>5 DEF V, W
            <4>2. IsFiniteSet(V \cap W)
                BY <4>1, FS_Intersection
            <4> QED BY <4>1, <4>2, FS_CardinalityType
        <3>7. IsFiniteSet(V \cup W)
              /\ Cardinality(V \cup W) = Cardinality(V) + Cardinality(W) - Cardinality(V \cap W)
            BY <3>6, FS_Union
        <3>8. (i + 1) * e = i * e + e /\ i * e \in Nat
            OBVIOUS
        <3>9. Cardinality(V) <= i * e /\ Cardinality(W) <= e
            BY <3>3, <3>5 DEF V, W
        <3>10. Cardinality(V \cup W) <= (i + 1) * e
            BY <3>6, <3>7, <3>8, <3>9
        <3> QED BY <3>4, <3>7, <3>10 DEF V, W
    <2> QED BY <2>1, <2>2
<1>4. P = Nat
    <2> HIDE DEF P
    <2>1. P \in SUBSET Nat
        BY DEF P
    <2> QED BY <2>1, <1>2, <1>3, Induction
<1> QED BY <1>4

(* What findBestParameters tries is a sensible matrix.                     *)
LEMMA CandidatesSensible ==
    ASSUME NEW size \in Nat \ {0}, NEW threshold \in Nat, NEW m \in Candidates(size, threshold)
    PROVE  Sensible(m) /\ m.size = size /\ m.threshold = threshold
<1>1. PICK q \in {n \in 2 * threshold + 1 .. MaxFieldSize : IsPrime(n)} :
          m = Candidate(size, threshold, q)
    BY DEF Candidates
<1>2. q \in Nat /\ IsPrime(q)
    BY <1>1, FieldAssumption
<1>3. /\ m.size = size /\ m.threshold = threshold /\ m.field = q
      /\ m.digits = MinExponent(size, q) /\ m.points = m.digits + 2 * threshold
    BY <1>1 DEF Candidate
<1>4. m.digits > 0 /\ m.points <= q
    BY <1>3 DEF Candidates
<1>5. m.digits \in 1 .. MaxMessageLength /\ Suffices(size, q, m.digits)
    <2> DEFINE S(k) == Suffices(size, q, k)
    <2>1. m.digits = IF \E k \in 1 .. MaxMessageLength : S(k)
                     THEN CHOOSE k \in 1 .. MaxMessageLength : S(k) ELSE 0
        BY <1>3 DEF MinExponent
    <2> HIDE DEF S
    <2>2. \E k \in 1 .. MaxMessageLength : S(k)
        BY <2>1, <1>4
    <2>3. m.digits \in 1 .. MaxMessageLength /\ S(m.digits)
        BY <2>1, <2>2
    <2> QED BY <2>3 DEF S
<1>6. m.digits \in Nat \ {0}
    BY <1>5 DEF MaxMessageLength
<1>7. size <= Capacity(q, m.digits)
    <2>1. Capacity(q, m.digits) \in Nat
        BY <1>2, <1>6, CapacityTurns
    <2> QED BY <1>5, <2>1 DEF Suffices
<1> QED BY <1>2, <1>3, <1>4, <1>6, <1>7 DEF Sensible

(* findBestParameters finds a matrix when there is one to be found.        *)
LEMMA MatrixChosen ==
    ASSUME NEW size \in Nat \ {0}, NEW threshold \in Nat, Candidates(size, threshold) # {}
    PROVE  Matrix(size, threshold) \in Candidates(size, threshold)
<1> DEFINE all == Candidates(size, threshold)
           Best(m) == \A o \in all : \/ RowCount(m) < RowCount(o)
                                     \/ RowCount(m) = RowCount(o) /\ m.field <= o.field
           chosen == CHOOSE m \in all : Best(m)
<1>1. \A m \in all : RowCount(m) \in Nat /\ m.field \in Nat
    BY CandidatesSensible DEF Sensible, RowCount
<1>2. \E m \in all : Best(m)
    <2> HIDE DEF all
    <2>1. PICK a \in all : TRUE
        BY DEF all
    <2> DEFINE rows == {RowCount(m) : m \in all}
    <2>2. rows \in SUBSET Nat /\ RowCount(a) \in rows
        BY <1>1
    <2> HIDE DEF rows
    <2>3. PICK r \in rows : \A y \in rows : r <= y
        BY <2>2, Least
    <2>4. \A m \in all : r <= RowCount(m)
        BY <2>3 DEF rows
    <2>5. PICK b \in all : RowCount(b) = r
        BY <2>3 DEF rows
    <2> DEFINE fields == {m.field : m \in {o \in all : RowCount(o) = r}}
    <2>6. fields \in SUBSET Nat /\ b.field \in fields
        BY <1>1, <2>5
    <2> HIDE DEF fields
    <2>7. PICK q \in fields : \A y \in fields : q <= y
        BY <2>6, Least
    <2>8. \A m \in all : RowCount(m) = r => q <= m.field
        BY <2>7 DEF fields
    <2>9. PICK c \in all : RowCount(c) = r /\ c.field = q
        BY <2>7 DEF fields
    <2>10. r \in Nat
        BY <1>1, <2>5
    <2>11. Best(c)
        <3> SUFFICES ASSUME NEW o \in all
                     PROVE  \/ RowCount(c) < RowCount(o)
                            \/ RowCount(c) = RowCount(o) /\ c.field <= o.field
            OBVIOUS
        <3>1. RowCount(o) \in Nat /\ r <= RowCount(o)
            BY <1>1, <2>4
        <3>2. CASE RowCount(o) = r
            BY <2>8, <2>9, <3>2
        <3>3. CASE RowCount(o) # r
            BY <2>9, <2>10, <3>1, <3>3
        <3> QED BY <3>2, <3>3
    <2> QED BY <2>11
<1>3. chosen \in all
    <2> HIDE DEF all, Best
    <2> QED BY <1>2
<1> QED BY <1>3 DEF Matrix

(* What findBestParameters chooses is sensible.                            *)
LEMMA MatrixSensible ==
    ASSUME NEW size \in Nat \ {0}, NEW threshold \in Nat, Candidates(size, threshold) # {}
    PROVE  LET m == Matrix(size, threshold)
           IN  Sensible(m) /\ m.size = size /\ m.threshold = threshold
BY MatrixChosen, CandidatesSensible

(* As many packets as the threshold cannot cover all rows of another one.  *)
Separates(m) == m.threshold * (m.digits - 1) < m.points

(* Up to three digits, the parameters that findBestParameters tries always *)
(* separate.                                                               *)
LEMMA ThreeDigitsSeparate ==
    ASSUME NEW m, Sensible(m), m.digits <= 3
    PROVE  Separates(m)
<1>1. m.threshold \in Nat /\ m.digits \in 1 .. 3 /\ m.points = m.digits + 2 * m.threshold
    BY DEF Sensible
<1>2. CASE m.digits = 1
    BY <1>1, <1>2 DEF Separates
<1>3. CASE m.digits = 2
    BY <1>1, <1>3 DEF Separates
<1>4. CASE m.digits = 3
    BY <1>1, <1>4 DEF Separates
<1> QED BY <1>1, <1>2, <1>3, <1>4

(* The field has at least twice the threshold and one, and no fewer digits  *)
(* would do.                                                               *)
LEMMA MatrixIsTight ==
    ASSUME NEW size \in Nat \ {0}, NEW threshold \in Nat, Candidates(size, threshold) # {}
    PROVE  LET m == Matrix(size, threshold)
           IN  /\ m.field >= 2 * threshold + 1
               /\ Capacity(m.field, m.digits - 1) < size
<1> DEFINE m == Matrix(size, threshold)
<1>1. m \in Candidates(size, threshold)
    BY MatrixChosen
<1>2. PICK q \in {n \in 2 * threshold + 1 .. MaxFieldSize : IsPrime(n)} :
          m = Candidate(size, threshold, q)
    BY <1>1 DEF Candidates
<1>3. m.field = q /\ m.digits = MinExponent(size, q) /\ m.digits > 0
    BY <1>1, <1>2 DEF Candidate, Candidates
<1>4. Suffices(size, q, m.digits)
    BY <1>3 DEF MinExponent
<1>5. q >= 2 * threshold + 1
    BY <1>2, FieldAssumption
<1> QED BY <1>3, <1>4, <1>5 DEF Suffices

(* More digits, or a larger field: more positions can be told apart.       *)
LEMMA CapacityGrows ==
    ASSUME NEW q \in Nat, NEW b \in Nat \ {0}, b <= q, NEW j \in Nat, NEW k \in Nat, j <= k
    PROVE  Capacity(b, j) <= Capacity(q, k)
<1> DEFINE P == {i \in Nat : /\ 1 <= Capacity(b, i)
                             /\ Capacity(b, i) <= Capacity(q, i)}
           R == {i \in Nat : Capacity(b, j) <= Capacity(q, j + i)}
<1>1. \A i \in Nat : /\ Capacity(b, i) \in Nat /\ Capacity(b, i + 1) = Capacity(b, i) * b
                     /\ Capacity(q, i) \in Nat /\ Capacity(q, i + 1) = Capacity(q, i) * q
    BY CapacityTurns
<1>2. ASSUME NEW x \in Nat, NEW y \in Nat, NEW u \in Nat, NEW v \in Nat, x <= y, u <= v
      PROVE  x * u <= y * v
  <2>1. x * u <= y * u
      BY <1>2
  <2>2. y * u <= y * v
      BY <1>2
  <2>3. x * u \in Nat /\ y * u \in Nat /\ y * v \in Nat
      OBVIOUS
  <2> HIDE DEF P
  <2> QED BY <2>1, <2>2, <2>3
<1>3. P = Nat
  <2>1. 0 \in P
    <3>1. Capacity(b, 0) = 1 /\ Capacity(q, 0) = 1
        BY CapacityTurns
    <3> QED BY <3>1
  <2>2. ASSUME NEW i \in P PROVE i + 1 \in P
    <3>1. /\ Capacity(b, i) \in Nat /\ Capacity(q, i) \in Nat /\ i \in Nat
          /\ 1 <= Capacity(b, i) /\ Capacity(b, i) <= Capacity(q, i)
        BY <1>1
    <3>2. Capacity(b, i) * b <= Capacity(q, i) * q
        BY <1>2, <3>1
    <3>3. 1 * 1 <= Capacity(b, i) * b
        BY <1>2, <3>1
    <3> QED BY <1>1, <3>1, <3>2, <3>3
  <2> HIDE DEF P
  <2> QED BY <2>1, <2>2, Induction DEF P
<1>4. R = Nat
  <2>1. 0 \in R
      BY <1>3
  <2>2. ASSUME NEW i \in R PROVE i + 1 \in R
    <3>1. /\ j + i \in Nat /\ Capacity(b, j) \in Nat /\ Capacity(q, j + i) \in Nat
          /\ Capacity(b, j) <= Capacity(q, j + i) /\ (j + i) + 1 = j + (i + 1)
        BY <1>1
    <3>2. Capacity(b, j) * 1 <= Capacity(q, j + i) * q
        BY <1>2, <3>1
    <3> QED BY <1>1, <3>1, <3>2
  <2> HIDE DEF R
  <2> QED BY <2>1, <2>2, Induction DEF R
<1>5. k - j \in R /\ j + (k - j) = k
    BY <1>4
<1> QED BY <1>5

(* Groups and thresholds for which the choice of findBestParameters is     *)
(* right, of those the Manager's window offers (2 .. 10000, 1 .. 1000).    *)
WithinReach(size, threshold) ==
    \/ threshold <= 3 /\ size <= 10000
    \/ size <= (2 * threshold + 1) * (2 * threshold + 1) * (2 * threshold + 1)

(* There the matrix separates.                                            *)
LEMMA ReachSeparates ==
    ASSUME NEW size \in Nat \ {0}, NEW threshold \in Nat \ {0},
           Candidates(size, threshold) # {}, WithinReach(size, threshold)
    PROVE  Separates(Matrix(size, threshold))
<1> DEFINE m == Matrix(size, threshold)
           q == m.field
           d == m.digits
<1>1. /\ Sensible(m) /\ m.size = size /\ m.threshold = threshold
      /\ q >= 2 * threshold + 1 /\ Capacity(q, d - 1) < size
    BY MatrixSensible, MatrixIsTight
<1> SUFFICES Separates(m)
    OBVIOUS
<1> HIDE DEF m
<1>2. /\ q \in Nat /\ d \in Nat \ {0} /\ m.points = d + 2 * threshold
      /\ d + 2 * threshold <= q
    BY <1>1 DEF Sensible
<1>3. \A b \in Nat \ {0} : /\ Capacity(b, 3) = b * b * b
                           /\ Capacity(b, 4) = b * b * b * b
                           /\ Capacity(b, 5) = b * b * b * b * b
  <2> TAKE b \in Nat \ {0}
  <2>1. \A i \in Nat : Capacity(b, i + 1) = Capacity(b, i) * b
      BY CapacityTurns
  <2>2. Capacity(b, 0) = 1
      BY CapacityTurns
  <2>3. Capacity(b, 1) = b
      BY <2>1, <2>2
  <2>4. Capacity(b, 2) = b * b
      BY <2>1, <2>3
  <2>5. Capacity(b, 3) = b * b * b
      BY <2>1, <2>4
  <2>6. Capacity(b, 4) = b * b * b * b
      BY <2>1, <2>5
  <2> QED BY <2>1, <2>5, <2>6
<1>4. ASSUME NEW b \in Nat \ {0}, NEW k \in Nat, b <= q, k < d
      PROVE  Capacity(b, k) < size
  <2>1. Capacity(b, k) <= Capacity(q, d - 1)
      BY <1>2, <1>4, CapacityGrows
  <2>2. d - 1 \in Nat
      BY <1>2
  <2>3. Capacity(b, k) \in Nat /\ Capacity(q, d - 1) \in Nat
      BY <1>2, <2>2, CapacityTurns
  <2> QED BY <1>1, <2>1, <2>3
<1>5. CASE d <= 3
    BY <1>1, <1>5, ThreeDigitsSeparate
<1>6. CASE d > 3 /\ size <= (2 * threshold + 1) * (2 * threshold + 1) * (2 * threshold + 1)
  <2> DEFINE b == 2 * threshold + 1
  <2>1. b \in Nat \ {0} /\ b <= q /\ b * b * b \in Nat
      BY <1>1
  <2> HIDE DEF b
  <2>2. b * b * b < size
      BY <1>2, <1>3, <1>4, <1>6, <2>1
  <2>3. size <= b * b * b
      BY <1>6 DEF b
  <2> QED BY <2>1, <2>2, <2>3
<1>7. CASE d > 3 /\ threshold <= 3 /\ size <= 10000
  <2>1. CASE threshold = 1
      BY <1>1, <1>2, <2>1 DEF Separates
  <2>2. CASE threshold = 2
    <3>1. ASSUME d >= 6 PROVE FALSE
      <4>1. Capacity(10, 5) < size
          BY <1>2, <1>4, <2>2, <3>1
      <4>2. Capacity(10, 5) = 100000
          BY <1>3
      <4> QED BY <1>7, <4>1, <4>2
    <3>2. d \in 1 .. 5
        BY <1>2, <3>1
    <3> QED BY <1>1, <1>2, <2>2, <3>2 DEF Separates
  <2>3. CASE threshold = 3
    <3>1. ASSUME d >= 5 PROVE FALSE
      <4>1. Capacity(11, 4) < size
          BY <1>2, <1>4, <2>3, <3>1
      <4>2. Capacity(11, 4) = 14641
          BY <1>3
      <4> QED BY <1>7, <4>1, <4>2
    <3>2. d \in 1 .. 4
        BY <1>2, <3>1
    <3> QED BY <1>1, <1>2, <2>3, <3>2 DEF Separates
  <2> QED BY <1>7, <2>1, <2>2, <2>3
<1> QED BY <1>2, <1>5, <1>6, <1>7 DEF WithinReach

(* Rows vouch for undamaged positions only (resVerify). *)
LEMMA GoodIsUndamaged ==
    ASSUME NEW m, NEW macs0, NEW forged0
    PROVE  GoodPositions(m, macs0, forged0) \cap Damaged(macs0) = {}
<1> SUFFICES ASSUME NEW column \in GoodPositions(m, macs0, forged0),
                    column \in Damaged(macs0)
             PROVE  FALSE
    OBVIOUS
<1>1. PICK point \in Points(m) :
          RowMatches(m, <<point, Symbol(m, column, point)>>, Damaged(macs0), forged0)
    BY DEF GoodPositions
<1>2. Contains(m, <<point, Symbol(m, column, point)>>, column)
    BY DEF Contains
<1> QED BY <1>1, <1>2 DEF RowMatches

(* A genuine position has a row that no damaged one shares.                *)
LEMMA SomeRowIsClear ==
    ASSUME NEW m, Sensible(m), Separates(m), NEW bad0 \in SUBSET (0 .. m.size - 1),
           Cardinality(bad0) <= m.threshold, NEW column \in (0 .. m.size - 1) \ bad0
    PROVE  \E point \in Points(m) :
               RowMatches(m, <<point, Symbol(m, column, point)>>, bad0, {})
<1> SUFFICES ASSUME \A point \in Points(m) : \E d \in bad0 :
                        Symbol(m, d, point) = Symbol(m, column, point)
             PROVE  FALSE
    <2> SUFFICES ASSUME NEW point \in Points(m),
                        \A d \in bad0 : Symbol(m, d, point) # Symbol(m, column, point)
                 PROVE  RowMatches(m, <<point, Symbol(m, column, point)>>, bad0, {})
        OBVIOUS
    <2> QED BY DEF RowMatches, Contains
<1> DEFINE f == [d \in bad0 |-> Agreements(m, column, d)]
           e == m.digits - 1
           U == UNION {f[d] : d \in bad0}
<1>1. /\ e \in Nat /\ m.threshold \in Nat /\ m.points \in Nat /\ m.size \in Nat
      /\ m.threshold * e < m.points
    BY DEF Sensible, Separates
<1>2. IsFiniteSet(bad0)
    <2>1. 0 \in Int /\ m.size - 1 \in Int
        BY <1>1
    <2>2. IsFiniteSet(0 .. m.size - 1)
        BY <2>1, FS_Interval
    <2> QED BY <2>2, FS_Subset
<1>3. \A d \in bad0 : IsFiniteSet(f[d]) /\ Cardinality(f[d]) <= e
    <2> SUFFICES ASSUME NEW d \in bad0 PROVE IsFiniteSet(f[d]) /\ Cardinality(f[d]) <= e
        OBVIOUS
    <2>1. d \in 0 .. m.size - 1 /\ column # d /\ column \in 0 .. m.size - 1
        OBVIOUS
    <2>2. IsFiniteSet(Agreements(m, column, d)) /\ Cardinality(Agreements(m, column, d)) \in 0 .. e
        BY <2>1, FewAgreements
    <2> QED BY <1>1, <2>2
<1>4. IsFiniteSet(U) /\ Cardinality(U) <= m.threshold * e
    <2> HIDE DEF f, e
    <2> QED BY <1>1, <1>2, <1>3, UnionBound
<1>5. Points(m) \subseteq U
    BY DEF Agreements
<1>6. Cardinality(Points(m)) = m.points
    <2>1. 0 \in Int /\ m.points - 1 \in Int
        BY <1>1
    <2>2. Cardinality(0 .. m.points - 1)
              = IF 0 > m.points - 1 THEN 0 ELSE (m.points - 1) - 0 + 1
        BY <2>1, FS_Interval
    <2> QED BY <1>1, <2>2 DEF Points
<1>7. Cardinality(Points(m)) <= Cardinality(U)
    <2> HIDE DEF U
    <2> QED BY <1>4, <1>5, FS_Subset
<1>8. m.threshold * e \in Nat /\ Cardinality(U) \in Nat
    <2> HIDE DEF U
    <2> QED BY <1>1, <1>4, FS_CardinalityType
<1> QED BY <1>1, <1>4, <1>6, <1>7, <1>8

(* With the tags intact and no more packets damaged than the threshold,    *)
(* exactly the undamaged ones are called good.                             *)
LEMMA LocatesDamage ==
    ASSUME NEW m, Sensible(m), Separates(m), NEW macs0, DOMAIN macs0 \subseteq 0 .. m.size - 1,
           Cardinality(Damaged(macs0)) <= m.threshold
    PROVE  GoodPositions(m, macs0, {}) = DOMAIN macs0 \ Damaged(macs0)
<1>1. Damaged(macs0) \in SUBSET (0 .. m.size - 1)
    BY DEF Damaged
<1>2. ASSUME NEW column \in DOMAIN macs0, column \notin Damaged(macs0)
      PROVE  column \in GoodPositions(m, macs0, {})
    <2>1. \E point \in Points(m) :
              RowMatches(m, <<point, Symbol(m, column, point)>>, Damaged(macs0), {})
        BY <1>1, <1>2, SomeRowIsClear
    <2> QED BY <2>1 DEF GoodPositions
<1>3. GoodPositions(m, macs0, {}) \subseteq DOMAIN macs0
    BY DEF GoodPositions
<1> QED BY <1>2, <1>3, GoodIsUndamaged

-----------------------------------------------------------------------------
(* LOCATION (GroupLocation).                                               *)

(* What a step of MCNext does to the variables of the matrix.              *)
LEMMA GroupStep ==
    ASSUME [MCNext]_allVars
    PROVE  \/ UNCHANGED <<part, vars>>
           \/ part = "group" /\ part' = part /\ Verify
BY DEF MCNext, allVars, Next

(* The invariant: the group is one of the code's, and a result is that of  *)
(* resVerify for this group.                                               *)
GroupOfTheCode ==
    \E s \in Sizes : /\ matrix = Matrix(s[1], s[2])
                     /\ \E n \in 0 .. s[1] : DOMAIN macs = 0 .. n - 1

(* What the call returns of a verification.                                *)
ResultOf(v) == [good |-> v.good, bad |-> v.bad, exceeded |-> v.exceeded, known |-> TRUE]

(* The invariant: the group is one of the code's, and the result, once     *)
(* there, is that of the verification.                                     *)
GroupInv ==
    /\ part = "group" => GroupOfTheCode
    /\ part # "group" => result = Nothing
    /\ result # Nothing => result = ResultOf(Verification(matrix, macs, forged))

(* It holds from the start, and resVerify keeps it.                        *)
LEMMA GroupInductive ==
    /\ MCInit => GroupInv
    /\ GroupInv /\ [MCNext]_allVars => GroupInv'
<1>1. ASSUME MCInit PROVE GroupInv
  <2>1. CASE part = "group"
    <3>1. Init /\ result = Nothing
      BY <1>1, <2>1 DEF MCInit, Init
    <3>2. PICK s \in Sizes : matrix = Matrix(s[1], s[2]) /\ macs \in Patterns(s[1], s[2])
      BY <3>1 DEF Init
    <3>3. s[1] \in Nat /\ s[2] \in 1 .. s[1] - 1
      BY LocationAssumption
    <3>4. s[1] - 1 \in 0 .. s[1] /\ s[1] \in 0 .. s[1]
      BY <3>3
    <3>5. CASE s[1] <= AnyLoss
      <4>1. PICK n \in {s[1] - 1, s[1]} : macs \in [0 .. n - 1 -> {"genuine", "altered", "none"}]
        BY <3>2, <3>5 DEF Patterns
      <4> QED BY <2>1, <3>1, <3>2, <3>4, <4>1 DEF GroupInv, GroupOfTheCode
    <3>6. CASE ~(s[1] <= AnyLoss)
      <4>1. PICK altered \in FarPatterns :
                macs = [p \in 0 .. s[1] - 1 |-> IF p \in altered THEN "altered" ELSE Genuine]
        BY <3>2, <3>6 DEF Patterns
      <4> QED BY <2>1, <3>1, <3>2, <3>4, <4>1 DEF GroupInv, GroupOfTheCode
    <3> QED BY <3>5, <3>6
  <2>2. CASE part # "group"
    BY <1>1, <2>2 DEF MCInit, GroupIdle, GroupInv
  <2> QED BY <2>1, <2>2
<1>2. ASSUME GroupInv, [MCNext]_allVars PROVE GroupInv'
  <2>1. CASE UNCHANGED <<part, vars>>
    BY <1>2, <2>1 DEF GroupInv, GroupOfTheCode, vars
  <2>2. CASE part = "group" /\ part' = part /\ Verify
    <3>1. UNCHANGED <<part, matrix, macs, forged>>
      BY <2>2 DEF Verify
    <3>2. result' = ResultOf(Verification(matrix, macs, forged))
      BY <2>2 DEF Verify, ResultOf
    <3> QED BY <1>2, <2>2, <3>1, <3>2 DEF GroupInv, GroupOfTheCode
  <2> QED BY <1>2, <2>1, <2>2, GroupStep
<1> QED BY <1>1, <1>2

(* For every matrix the code could choose, right or wrong, and whatever was *)
(* lost or altered, tags included: an altered or absent packet never passes *)
(* (KsRsVerifier::resVerify).                                               *)
THEOREM NeverPasses == MCSpec => []NoBadPacketPasses
<1>1. GroupInv => NoBadPacketPasses
  <2> SUFFICES ASSUME GroupInv PROVE NoBadPacketPasses
      OBVIOUS
  <2>1. CASE result = Nothing
      BY <2>1 DEF Nothing, NoBadPacketPasses
  <2>2. CASE result # Nothing
    <3>1. result.good = GoodPositions(matrix, macs, forged)
        BY <2>2 DEF GroupInv, ResultOf, Verification
    <3>2. NotGenuine = Damaged(macs)
        BY DEF NotGenuine, Damaged
    <3> QED BY <3>1, <3>2, GoodIsUndamaged DEF NoBadPacketPasses
  <2> QED BY <2>1, <2>2
<1> QED BY <1>1, GroupInductive, PTL DEF MCSpec

(* With a matrix that separates, whatever the size and the threshold: as    *)
(* many altered or absent packets as the threshold are located exactly, and *)
(* more are announced (KsRsMatrix.h:22).  Without the hypothesis it is      *)
(* false of the code, from groups of some thousand packets and a threshold  *)
(* of four on: see README.                                                 *)
THEOREM LocatedExactly ==
    (\A s \in Sizes : Separates(Matrix(s[1], s[2]))) => (MCSpec => []LocatesExactly)
<1> SUFFICES ASSUME \A s \in Sizes : Separates(Matrix(s[1], s[2]))
             PROVE  MCSpec => []LocatesExactly
    OBVIOUS
<1>1. GroupInv => LocatesExactly
  <2> SUFFICES ASSUME GroupInv, result.known PROVE LocatesExactly
      BY DEF LocatesExactly
  <2>1. result # Nothing
      BY DEF Nothing
  <2>2. part = "group"
      BY <2>1 DEF GroupInv
  <2>3. PICK s \in Sizes : /\ matrix = Matrix(s[1], s[2])
                           /\ \E n \in 0 .. s[1] : DOMAIN macs = 0 .. n - 1
      BY <2>2 DEF GroupInv, GroupOfTheCode
  <2>4. /\ s[1] \in Nat \ {0} /\ s[2] \in Nat /\ Candidates(s[1], s[2]) # {}
      BY LocationAssumption
  <2>5. Sensible(matrix) /\ matrix.size = s[1] /\ Separates(matrix)
      BY <2>3, <2>4, MatrixSensible
  <2>threshold. matrix.threshold \in Nat
      BY <2>5 DEF Sensible
  <2>6. PICK n \in 0 .. s[1] : DOMAIN macs = 0 .. n - 1
      BY <2>3
  <2>7. n \in Int /\ n - 1 \in Int /\ 0 \in Int /\ n <= s[1]
      BY <2>4, <2>6
  <2>8. IsFiniteSet(DOMAIN macs) /\ DOMAIN macs \subseteq 0 .. matrix.size - 1
    <3>1. IsFiniteSet(0 .. n - 1)
        BY <2>7, FS_Interval
    <3>2. 0 .. n - 1 \subseteq 0 .. s[1] - 1
        BY <2>4, <2>7
    <3> QED BY <2>5, <2>6, <3>1, <3>2
  <2> DEFINE good == GoodPositions(matrix, macs, forged)
             rest == DOMAIN macs \ good
             many == Cardinality(rest) > matrix.threshold
  <2>9. /\ result.bad = rest
        /\ result.exceeded = many
      BY <2>1 DEF GroupInv, ResultOf, Verification
  <2>10. NotGenuine = Damaged(macs) /\ Damaged(macs) \subseteq DOMAIN macs
      BY DEF NotGenuine, Damaged
  <2>11. ASSUME forged = {}, Cardinality(NotGenuine) <= matrix.threshold
         PROVE  result.bad = NotGenuine /\ ~result.exceeded
    <3>1. good = DOMAIN macs \ Damaged(macs)
        BY <2>5, <2>8, <2>10, <2>11, LocatesDamage
    <3>2. rest = NotGenuine
        BY <2>10, <3>1
    <3>3. Cardinality(NotGenuine) \in Nat /\ matrix.threshold \in Nat
      <4>1. IsFiniteSet(NotGenuine)
          BY <2>8, <2>10, FS_Subset
      <4> QED BY <2>threshold, <4>1, FS_CardinalityType
    <3>4. ~many
        BY <2>11, <3>2, <3>3
    <3> HIDE DEF rest, many
    <3> QED BY <2>9, <3>2, <3>4
  <2>12. ASSUME Cardinality(NotGenuine) > matrix.threshold
         PROVE  result.exceeded
    <3>1. NotGenuine \subseteq rest
        BY <2>10, GoodIsUndamaged
    <3>2. IsFiniteSet(rest)
        BY <2>8, FS_Subset
    <3>3. /\ Cardinality(NotGenuine) <= Cardinality(rest)
          /\ IsFiniteSet(NotGenuine)
        BY <3>1, <3>2, FS_Subset
    <3>4. /\ Cardinality(NotGenuine) \in Nat /\ Cardinality(rest) \in Nat
          /\ matrix.threshold \in Nat
        BY <2>threshold, <3>2, <3>3, FS_CardinalityType
    <3>5. many
        BY <2>12, <3>3, <3>4
    <3> HIDE DEF rest, many
    <3> QED BY <2>9, <3>5
  <2> QED BY <2>11, <2>12 DEF LocatesExactly
<1> QED BY <1>1, GroupInductive, PTL DEF MCSpec

(* The same of the groups within reach, with nothing left to suppose.      *)
THEOREM LocatedWithinReach ==
    (\A s \in Sizes : WithinReach(s[1], s[2])) => (MCSpec => []LocatesExactly)
<1> SUFFICES ASSUME \A s \in Sizes : WithinReach(s[1], s[2])
             PROVE  MCSpec => []LocatesExactly
    OBVIOUS
<1>1. \A s \in Sizes : Separates(Matrix(s[1], s[2]))
  <2> TAKE s \in Sizes
  <2>1. /\ s[1] \in Nat /\ s[2] \in 1 .. s[1] - 1 /\ Candidates(s[1], s[2]) # {}
        /\ WithinReach(s[1], s[2])
      BY LocationAssumption
  <2>2. s[1] \in Nat \ {0} /\ s[2] \in Nat \ {0}
      BY <2>1
  <2> QED BY <2>1, <2>2, ReachSeparates
<1> QED BY <1>1, LocatedExactly

-----------------------------------------------------------------------------
(* SEQUENCES.                                                              *)

(* A sequence cut in two, and put together again.                          *)
LEMMA Cut ==
    ASSUME NEW S, NEW s \in Seq(S), NEW k \in 0 .. Len(s)
    PROVE  /\ SubSeq(s, 1, k) \in Seq(S) /\ Len(SubSeq(s, 1, k)) = k
           /\ SubSeq(s, k + 1, Len(s)) \in Seq(S)
           /\ Len(SubSeq(s, k + 1, Len(s))) = Len(s) - k
           /\ SubSeq(s, 1, k) \o SubSeq(s, k + 1, Len(s)) = s
           /\ \A i \in 1 .. k : SubSeq(s, 1, k)[i] = s[i]
           /\ \A i \in 1 .. Len(s) - k : SubSeq(s, k + 1, Len(s))[i] = s[k + i]
<1>1. /\ Len(s) \in Nat /\ k \in Nat /\ k <= Len(s) /\ k + 1 \in Int /\ 1 \in Int
      /\ k \in Int /\ Len(s) \in Int
      /\ \A i \in 1 .. Len(s) : s[i] \in S
    BY LenProperties
<1>2. (\A i \in 1 .. k : s[i] \in S) /\ (\A i \in k + 1 .. Len(s) : s[i] \in S)
    BY <1>1
<1> DEFINE a == SubSeq(s, 1, k)
           b == SubSeq(s, k + 1, Len(s))
<1>3. /\ a \in Seq(S) /\ Len(a) = (IF 1 <= k THEN k - 1 + 1 ELSE 0)
      /\ \A i \in 1 .. k - 1 + 1 : a[i] = s[1 + i - 1]
    BY <1>1, <1>2, SubSeqProperties
<1>4. /\ b \in Seq(S)
      /\ Len(b) = (IF k + 1 <= Len(s) THEN Len(s) - (k + 1) + 1 ELSE 0)
      /\ \A i \in 1 .. Len(s) - (k + 1) + 1 : b[i] = s[(k + 1) + i - 1]
    BY <1>1, <1>2, SubSeqProperties
<1> HIDE DEF a, b
<1>5. Len(a) = k /\ \A i \in 1 .. k : a[i] = s[i]
    BY <1>1, <1>3
<1>6. Len(b) = Len(s) - k /\ \A i \in 1 .. Len(s) - k : b[i] = s[k + i]
    BY <1>1, <1>4
<1>7. a \o b = s
  <2>1. /\ a \o b \in Seq(S) /\ Len(a \o b) = Len(a) + Len(b)
        /\ \A i \in 1 .. Len(a) + Len(b) :
               (a \o b)[i] = IF i <= Len(a) THEN a[i] ELSE b[i - Len(a)]
      BY <1>3, <1>4, ConcatProperties
  <2>2. \A i \in 1 .. Len(a \o b) : (a \o b)[i] = s[i]
      BY <1>1, <1>5, <1>6, <2>1
  <2>3. Len(a \o b) = Len(s)
      BY <1>1, <1>5, <1>6, <2>1
  <2> QED BY <2>1, <2>2, <2>3, SeqEqual
<1> QED BY <1>3, <1>4, <1>5, <1>6, <1>7 DEF a, b

(* Two sequences put together, and cut where they meet.                    *)
LEMMA Joined ==
    ASSUME NEW S, NEW a \in Seq(S), NEW b \in Seq(S)
    PROVE  /\ a \o b \in Seq(S) /\ Len(a \o b) = Len(a) + Len(b)
           /\ Len(a) \in 0 .. Len(a \o b) /\ Len(b) \in Nat
           /\ SubSeq(a \o b, 1, Len(a)) = a
           /\ SubSeq(a \o b, Len(a) + 1, Len(a \o b)) = b
           /\ \A i \in 1 .. Len(a) : (a \o b)[i] = a[i]
           /\ \A i \in 1 .. Len(b) : (a \o b)[Len(a) + i] = b[i]
<1> DEFINE s == a \o b
<1>1. /\ s \in Seq(S) /\ Len(s) = Len(a) + Len(b)
      /\ \A i \in 1 .. Len(a) + Len(b) : s[i] = IF i <= Len(a) THEN a[i] ELSE b[i - Len(a)]
    BY ConcatProperties
<1>2. Len(a) \in Nat /\ Len(b) \in Nat
    BY LenProperties
<1> HIDE DEF s
<1>3. Len(a) \in 0 .. Len(s)
    BY <1>1, <1>2
<1>4. /\ \A i \in 1 .. Len(a) : s[i] = a[i]
      /\ \A i \in 1 .. Len(b) : s[Len(a) + i] = b[i]
  <2>1. ASSUME NEW i \in 1 .. Len(a) PROVE s[i] = a[i]
    <3>1. i \in 1 .. Len(a) + Len(b) /\ i <= Len(a)
        BY <1>2
    <3> QED BY <1>1, <3>1
  <2>2. ASSUME NEW i \in 1 .. Len(b) PROVE s[Len(a) + i] = b[i]
    <3>1. /\ Len(a) + i \in 1 .. Len(a) + Len(b) /\ ~(Len(a) + i <= Len(a))
          /\ (Len(a) + i) - Len(a) = i
        BY <1>2
    <3>2. s[Len(a) + i] = b[(Len(a) + i) - Len(a)]
        BY <1>1, <3>1
    <3> QED BY <3>1, <3>2
  <2> QED BY <2>1, <2>2
<1> DEFINE c == SubSeq(s, 1, Len(a))
           d == SubSeq(s, Len(a) + 1, Len(s))
<1>5. /\ c \in Seq(S) /\ Len(c) = Len(a) /\ d \in Seq(S) /\ Len(d) = Len(s) - Len(a)
      /\ \A i \in 1 .. Len(a) : c[i] = s[i]
      /\ \A i \in 1 .. Len(s) - Len(a) : d[i] = s[Len(a) + i]
    BY <1>1, <1>3, Cut
<1> HIDE DEF c, d
<1>6. c = a
    BY <1>4, <1>5, SeqEqual
<1>7. d = b
  <2>1. Len(d) = Len(b) /\ \A i \in 1 .. Len(d) : d[i] = b[i]
      BY <1>1, <1>2, <1>4, <1>5
  <2> QED BY <1>5, <2>1, SeqEqual
<1> QED BY <1>1, <1>2, <1>3, <1>4, <1>6, <1>7 DEF s, c, d

(* Three parts of a sequence, cut where they were joined.                  *)
LEMMA CutWhereJoined ==
    ASSUME NEW S, NEW a \in Seq(S), NEW b \in Seq(S), NEW c \in Seq(S), Len(a) = 1
    PROVE  /\ Len(a \o b \o c) = 1 + Len(b) + Len(c)
           /\ SubSeq(a \o b \o c, 1, 1) = a
           /\ SubSeq(a \o b \o c, 2, 1 + Len(b)) = b
           /\ SubSeq(a \o b \o c, 2 + Len(b), 1 + Len(b) + Len(c)) = c
<1> DEFINE ab == a \o b
           s == ab \o c
<1>0. /\ ab \in Seq(S) /\ Len(ab) = Len(a) + Len(b) /\ Len(b) \in Nat
      /\ \A i \in 1 .. Len(a) : ab[i] = a[i]
      /\ \A i \in 1 .. Len(b) : ab[Len(a) + i] = b[i]
    BY Joined, ZenonT(30)
<1>1. /\ ab \in Seq(S) /\ Len(ab) = 1 + Len(b) /\ Len(b) \in Nat
      /\ \A i \in 1 .. 1 : ab[i] = a[i]
      /\ \A i \in 1 .. Len(b) : ab[1 + i] = b[i]
    BY <1>0
<1>ab. ab \in Seq(S)
    BY <1>1
<1> HIDE DEF ab
<1>2. /\ s \in Seq(S) /\ Len(s) = Len(ab) + Len(c) /\ Len(c) \in Nat
      /\ SubSeq(s, Len(ab) + 1, Len(s)) = c
      /\ \A i \in 1 .. Len(ab) : s[i] = ab[i]
    BY <1>ab, Joined
<1> HIDE DEF s
<1>3. \A i \in 1 .. Len(s) : s[i] \in S
    BY <1>2, LenProperties
<1> DEFINE x == SubSeq(s, 1, 1)
           y == SubSeq(s, 2, 1 + Len(b))
<1>4. x = a
  <2>1. /\ x \in Seq(S) /\ Len(x) = 1 /\ \A i \in 1 .. 1 : x[i] = s[i]
    <3>1. 1 \in 0 .. Len(s)
        BY <1>1, <1>2
    <3> QED BY <1>2, <3>1, Cut
  <2> HIDE DEF x
  <2>2. \A i \in 1 .. Len(x) : x[i] = a[i]
      BY <1>1, <1>2, <2>1
  <2> QED BY <2>1, <2>2, SeqEqual
<1>5. y = b
  <2>1. /\ 2 \in Int /\ 1 + Len(b) \in Int
        /\ \A i \in 2 .. 1 + Len(b) : s[i] \in S
      BY <1>1, <1>2, <1>3
  <2>2. /\ y \in Seq(S) /\ Len(y) = (IF 2 <= 1 + Len(b) THEN (1 + Len(b)) - 2 + 1 ELSE 0)
        /\ \A i \in 1 .. (1 + Len(b)) - 2 + 1 : y[i] = s[2 + i - 1]
      BY <2>1, SubSeqProperties
  <2> HIDE DEF y
  <2>3. Len(y) = Len(b)
      BY <1>1, <2>2
  <2>4. ASSUME NEW i \in 1 .. Len(y) PROVE y[i] = b[i]
    <3>1. /\ i \in 1 .. (1 + Len(b)) - 2 + 1 /\ 2 + i - 1 = 1 + i
          /\ i \in 1 .. Len(b) /\ 1 + i \in 1 .. Len(ab)
        BY <1>1, <2>3
    <3>2. y[i] = s[1 + i] /\ s[1 + i] = ab[1 + i] /\ ab[1 + i] = b[i]
        BY <1>1, <1>2, <2>2, <3>1
    <3> QED BY <3>2
  <2> QED BY <2>2, <2>3, <2>4, SeqEqual
<1>6. Len(s) = 1 + Len(b) + Len(c) /\ Len(ab) + 1 = 2 + Len(b)
    BY <1>1, <1>2
<1> QED BY <1>2, <1>4, <1>5, <1>6 DEF s, ab, x, y

(* Three parts of a sequence, joined where they were cut.                  *)
LEMMA JoinWhereCut ==
    ASSUME NEW S, NEW s \in Seq(S), NEW k \in Nat, NEW n \in Nat, Len(s) = 1 + k + n
    PROVE  /\ SubSeq(s, 1, 1) \in Seq(S) /\ Len(SubSeq(s, 1, 1)) = 1
           /\ SubSeq(s, 2, 1 + k) \in Seq(S) /\ Len(SubSeq(s, 2, 1 + k)) = k
           /\ SubSeq(s, 2 + k, 1 + k + n) \in Seq(S)
           /\ Len(SubSeq(s, 2 + k, 1 + k + n)) = n
           /\ SubSeq(s, 1, 1) \o SubSeq(s, 2, 1 + k) \o SubSeq(s, 2 + k, 1 + k + n) = s
<1>1. /\ 1 \in 0 .. Len(s) /\ 1 + k \in 0 .. Len(s) /\ (1 + k) + 1 = 2 + k
      /\ Len(s) \in Nat /\ 1 \in 1 .. Len(s) + 1 /\ 1 \in 1 - 1 .. Len(s)
      /\ 1 + k \in 1 .. Len(s) /\ 2 \in Int /\ 1 + k \in Int
      /\ 1 + 1 = 2
    OBVIOUS
<1>2. \A i \in 2 .. 1 + k : s[i] \in S
    BY <1>1, LenProperties
<1> DEFINE a == SubSeq(s, 1, 1)
           b == SubSeq(s, 2, 1 + k)
           c == SubSeq(s, 2 + k, 1 + k + n)
<1>3. a \in Seq(S) /\ Len(a) = 1
    BY <1>1, Cut
<1>4. b \in Seq(S) /\ Len(b) = k
  <2>1. b \in Seq(S) /\ Len(b) = IF 2 <= 1 + k THEN (1 + k) - 2 + 1 ELSE 0
      BY <1>1, <1>2, SubSeqProperties
  <2> HIDE DEF b
  <2> QED BY <2>1
<1>5. /\ c \in Seq(S) /\ Len(c) = Len(s) - (1 + k) /\ SubSeq(s, 1, 1 + k) \o c = s
    BY <1>1, Cut
<1>6. a \o b = SubSeq(s, 1, 1 + k)
    BY <1>1, ConcatAdjacentSubSeq
<1> HIDE DEF a, b, c
<1>7. a \o b \o c = s
    BY <1>5, <1>6
<1>8. Len(c) = n
    BY <1>5
<1> QED BY <1>3, <1>4, <1>5, <1>7, <1>8 DEF a, b, c

(* Concatenation of bytes in any order of brackets.                        *)
LEMMA Associative == \A x, y, u \in Seq(Nat) : (x \o y) \o u = x \o (y \o u)
<1> TAKE x, y, u \in Seq(Nat)
<1> QED BY ConcatAssociative

(* The first of two sequences comes first.                                 *)
LEMMA First == \A x, y \in Seq(Nat) : \A i \in 1 .. Len(x) : (x \o y)[i] = x[i]
<1> TAKE x, y \in Seq(Nat)
<1> QED BY Joined

-----------------------------------------------------------------------------
(* DATAGRAMS (PacketCodec).                                                *)

(* What the constants of the codec and of the plan are.                    *)
LEMMA ContextFacts ==
    ASSUME NEW ctx \in Contexts
    PROVE  /\ ctx.total \in Nat \ {0} /\ ctx.taus \in Nat
           /\ ctx.mode \in {"native", "improved"}
           /\ DisclosureDelay <= Datagram!DataIntervalCount(ctx.total)
           /\ PacketsPerInterval \in Nat \ {0} /\ DisclosureDelay \in Nat \ {0}
BY FormatsAssumption DEF Datagram!ContextAssumption

(* The interval of a packet.                                               *)
LEMMA IntervalOf ==
    ASSUME NEW p \in Nat \ {0}
    PROVE  /\ Datagram!IntervalOfPacket(p) \in Nat \ {0}
           /\ Datagram!DataIntervalCount(p) = Datagram!IntervalOfPacket(p)
<1>1. p - 1 \in Nat /\ PacketsPerInterval \in Nat \ {0}
    BY FormatsAssumption
<1>2. (p - 1) \div PacketsPerInterval \in Nat
    BY <1>1, Division
<1> QED BY <1>2 DEF Datagram!IntervalOfPacket, Datagram!DataIntervalCount

(* The blocks of datagrams, noise included.                                *)
Blocks == {"message", "key", "mac", "tau", "fastTag", "noise"}

(* How many blocks of authentication the trusted context announces.        *)
LEMMA BlockCount ==
    ASSUME NEW ctx \in Contexts, NEW index
    PROVE  Datagram!DetailBlocks(ctx, index) \in Nat
BY ContextFacts DEF Datagram!DetailBlocks

(* The tags of a group end are a sequence.                                 *)
LEMMA GroupDetailsSequence ==
    ASSUME NEW n \in Nat
    PROVE  /\ Datagram!GroupDetails(n) \in Seq(Blocks)
           /\ Len(Datagram!GroupDetails(n)) = n + 1
<1>1. [i \in 1 .. n |-> "tau"] \in Seq(Blocks) /\ Len([i \in 1 .. n |-> "tau"]) = n
    BY DEF Blocks
<1>2. <<"fastTag">> \in Seq(Blocks) /\ Len(<<"fastTag">>) = 1
    BY DEF Blocks
<1> DEFINE taus == [i \in 1 .. n |-> "tau"]
           tag == <<"fastTag">>
<1>3. taus \in Seq(Blocks) /\ Len(taus) = n /\ tag \in Seq(Blocks) /\ Len(tag) = 1
    BY <1>1, <1>2
<1>4. Datagram!GroupDetails(n) = taus \o tag
    BY DEF Datagram!GroupDetails
<1> HIDE DEF taus, tag
<1>5. taus \o tag \in Seq(Blocks) /\ Len(taus \o tag) = Len(taus) + Len(tag)
    BY <1>3, ConcatProperties
<1> QED BY <1>3, <1>4, <1>5

(* The fields of a datagram and of a packet.                               *)
DatagramType ==
    [refused : {FALSE}, header : BOOLEAN, chain : Nat, interval : Nat, index : Nat,
     blocks : Seq(Blocks), part : BOOLEAN]

(* Packets as the program and the decoder hold them.                       *)
PacketType ==
    [chain : Nat \ {0}, interval : Nat \ {0}, index : Nat, message : Seq(Blocks),
     key : Seq(Blocks), mode : {"native", "improved", "disclosure"}, details : Seq(Blocks)]

(* A packet as buildDatagrams makes one, or as a datagram is read.         *)
WellFormed(p) ==
    /\ p \in PacketType
    /\ p.index = 0 => /\ p = Datagram!Disclosure(p.chain, p.interval, p.key)
                      /\ Len(p.key) = 1
    /\ p.index # 0 => Len(p.message) = 1 /\ p.key \in {<<>>, Datagram!Key}

(* A packet object of either kind is well formed.                          *)
LEMMA PacketsWellFormed ==
    ASSUME NEW ctx \in Contexts, NEW p \in Datagram!Packets(ctx)
    PROVE  WellFormed(p)
<1>1. CASE \E mode \in {"native", "improved"} :
               p \in {Datagram!Data(1, interval, index, k, mode, details) :
                         interval \in 1 .. Datagram!IntervalOfPacket(ctx.total) + 1,
                         index \in 1 .. ctx.total + 1, k \in {<<>>, Datagram!Key},
                         details \in Datagram!Details(mode, ctx.taus)}
  <2>mode. PICK mode \in {"native", "improved"} :
               p \in {Datagram!Data(1, interval, index, k, mode, details) :
                         interval \in 1 .. Datagram!IntervalOfPacket(ctx.total) + 1,
                         index \in 1 .. ctx.total + 1, k \in {<<>>, Datagram!Key},
                         details \in Datagram!Details(mode, ctx.taus)}
      BY <1>1
  <2>1. PICK interval \in 1 .. Datagram!IntervalOfPacket(ctx.total) + 1,
             index \in 1 .. ctx.total + 1, k \in {<<>>, Datagram!Key},
             details \in Datagram!Details(mode, ctx.taus) :
                 p = Datagram!Data(1, interval, index, k, mode, details)
      BY <2>mode
  <2>2. interval \in Nat \ {0} /\ index \in Nat \ {0}
      BY ContextFacts, IntervalOf
  <2>3. k \in Seq(Blocks)
    <3>1. <<"key">> \in Seq(Blocks)
        BY DEF Blocks
    <3> QED BY <3>1, EmptySeq DEF Datagram!Key
  <2>4. details \in Seq(Blocks)
    <3>1. CASE mode = "native"
      <4>1. details = <<"mac">>
          BY <3>1 DEF Datagram!Details, Datagram!Mac
      <4> QED BY <4>1 DEF Blocks
    <3>2. CASE mode # "native" /\ details # <<>>
      <4>1. PICK n \in 1 .. ctx.taus + 1 : details = Datagram!GroupDetails(n)
          BY <3>2 DEF Datagram!Details
      <4>2. n \in Nat
          BY ContextFacts
      <4> QED BY <4>1, <4>2, GroupDetailsSequence
    <3> QED BY <3>1, <3>2, EmptySeq
  <2>5. /\ p = [chain |-> 1, interval |-> interval, index |-> index,
                message |-> <<"message">>, key |-> k, mode |-> mode, details |-> details]
        /\ <<"message">> \in Seq(Blocks) /\ Len(<<"message">>) = 1
      BY <2>1 DEF Datagram!Data, Datagram!Packet, Blocks
  <2>6. p \in PacketType
      BY <2>2, <2>3, <2>4, <2>5 DEF PacketType
  <2> QED BY <2>2, <2>5, <2>6 DEF WellFormed
<1>2. CASE p \in {Datagram!Disclosure(1, interval, Datagram!Key) :
                     interval \in 1 .. Datagram!IntervalOfPacket(ctx.total)
                                       + DisclosureDelay + 1}
  <2>1. PICK interval \in 1 .. Datagram!IntervalOfPacket(ctx.total) + DisclosureDelay + 1 :
                 p = Datagram!Disclosure(1, interval, Datagram!Key)
      BY <1>2
  <2>2. interval \in Nat \ {0}
      BY ContextFacts, IntervalOf
  <2>3. /\ p = [chain |-> 1, interval |-> interval, index |-> 0, message |-> <<>>,
                key |-> Datagram!Key, mode |-> "disclosure", details |-> <<>>]
        /\ Datagram!Key \in Seq(Blocks) /\ Len(Datagram!Key) = 1 /\ <<>> \in Seq(Blocks)
      BY <2>1 DEF Datagram!Disclosure, Datagram!Packet, Datagram!Key, Blocks
  <2>4. p \in PacketType
      BY <2>2, <2>3 DEF PacketType
  <2> QED BY <2>1, <2>3, <2>4 DEF WellFormed
<1>3. \/ p \in UNION {{Datagram!Data(1, interval, index, k, mode, details) :
                         interval \in 1 .. Datagram!IntervalOfPacket(ctx.total) + 1,
                         index \in 1 .. ctx.total + 1, k \in {<<>>, Datagram!Key},
                         details \in Datagram!Details(mode, ctx.taus)} :
                      mode \in {"native", "improved"}}
      \/ p \in {Datagram!Disclosure(1, interval, Datagram!Key) :
                     interval \in 1 .. Datagram!IntervalOfPacket(ctx.total)
                                       + DisclosureDelay + 1}
    BY DEF Datagram!Packets
<1> QED BY <1>1, <1>2, <1>3

(* What the encoder writes is a datagram.                                  *)
LEMMA EncodedType ==
    ASSUME NEW ctx \in Contexts, NEW p, WellFormed(p)
    PROVE  \/ Datagram!Encoded(ctx, p) = Datagram!Refused
           \/ /\ Datagram!Encoded(ctx, p) \in DatagramType
              /\ Datagram!Encodable(ctx, p)
              /\ Datagram!Encoded(ctx, p) =
                    [refused |-> FALSE, header |-> TRUE, chain |-> p.chain,
                     interval |-> p.interval, index |-> p.index,
                     blocks |-> p.message \o p.key \o p.details, part |-> FALSE]
<1>1. p \in PacketType
    BY DEF WellFormed
<1>2. p.message \o p.key \o p.details \in Seq(Blocks)
    BY <1>1 DEF PacketType
<1>3. p.chain \in Nat /\ p.interval \in Nat /\ p.index \in Nat
    BY <1>1 DEF PacketType
<1>4. CASE ~Datagram!Encodable(ctx, p)
    BY <1>4 DEF Datagram!Encoded
<1>5. CASE Datagram!Encodable(ctx, p)
  <2>1. Datagram!Encoded(ctx, p) =
                    [refused |-> FALSE, header |-> TRUE, chain |-> p.chain,
                     interval |-> p.interval, index |-> p.index,
                     blocks |-> p.message \o p.key \o p.details, part |-> FALSE]
      BY <1>5 DEF Datagram!Encoded
  <2> DEFINE b == p.message \o p.key \o p.details
  <2>2. b \in Seq(Blocks)
      BY <1>2
  <2> HIDE DEF b
  <2>3. [refused |-> FALSE, header |-> TRUE, chain |-> p.chain, interval |-> p.interval,
         index |-> p.index, blocks |-> b, part |-> FALSE] \in DatagramType
      BY <1>3, <2>2 DEF DatagramType
  <2> QED BY <1>5, <2>1, <2>3 DEF b
<1> QED BY <1>4, <1>5

(* What the encoder lets through, the decoder reads back.                  *)
LEMMA ReadBack ==
    ASSUME NEW ctx \in Contexts, NEW p, WellFormed(p), Datagram!Encodable(ctx, p)
    PROVE  Datagram!Decoded(ctx, Datagram!Encoded(ctx, p)) = p
<1> DEFINE d == Datagram!Encoded(ctx, p)
           b == p.message \o p.key \o p.details
<1>1. d = [refused |-> FALSE, header |-> TRUE, chain |-> p.chain, interval |-> p.interval,
           index |-> p.index, blocks |-> b, part |-> FALSE]
    BY DEF Datagram!Encoded
<1>2. /\ p.message \in Seq(Blocks) /\ p.key \in Seq(Blocks) /\ p.details \in Seq(Blocks)
      /\ p.chain \in Nat \ {0} /\ p.interval \in Nat \ {0} /\ p.index \in Nat
      /\ p = [chain |-> p.chain, interval |-> p.interval, index |-> p.index,
              message |-> p.message, key |-> p.key, mode |-> p.mode, details |-> p.details]
    BY DEF WellFormed, PacketType
<1>3. CASE p.index = 0
  <2>1. p.message = <<>> /\ p.details = <<>> /\ Len(p.key) = 1
    <3>1. p = Datagram!Disclosure(p.chain, p.interval, p.key) /\ Len(p.key) = 1
        BY <1>3 DEF WellFormed
    <3> QED BY <3>1 DEF Datagram!Disclosure, Datagram!Packet
  <2>2. b = p.key
      BY <1>2, <2>1, ConcatEmptySeq
  <2>3. Datagram!InDisclosure(ctx, p.interval)
      BY <1>3 DEF Datagram!Encodable
  <2>4. Datagram!Decoded(ctx, d) = Datagram!Disclosure(p.chain, p.interval, b)
    <3> HIDE DEF b
    <3>1. Datagram!HasLength(d, 1)
        BY <1>1, <2>1, <2>2 DEF Datagram!HasLength
    <3> QED BY <1>1, <1>2, <1>3, <2>3, <3>1 DEF Datagram!Decoded
  <2> QED BY <1>3, <2>2, <2>4 DEF WellFormed
<1>4. CASE p.index # 0
  <2> DEFINE keys == IF Datagram!CarriesDisclosedKey(p.interval, p.index) THEN 1 ELSE 0
             tags == Datagram!DetailBlocks(ctx, p.index)
  <2>1. /\ p.index <= ctx.total /\ p.interval = Datagram!IntervalOfPacket(p.index)
        /\ (p.key # <<>> <=> Datagram!CarriesDisclosedKey(p.interval, p.index))
        /\ p.mode = ctx.mode /\ Len(p.details) = tags
      BY <1>4 DEF Datagram!Encodable
  <2>2. Len(p.message) = 1 /\ p.key \in {<<>>, <<"key">>}
      BY <1>4 DEF WellFormed, Datagram!Key
  <2>3. Len(p.key) = keys
      BY <2>1, <2>2
  <2>4. /\ Len(b) = 1 + keys + tags
        /\ SubSeq(b, 1, 1) = p.message
        /\ SubSeq(b, 2, 1 + keys) = p.key
        /\ SubSeq(b, 2 + keys, 1 + keys + tags) = p.details
    <3> DEFINE u == p.message
               v == p.key
               w == p.details
    <3>0. u \in Seq(Blocks) /\ v \in Seq(Blocks) /\ w \in Seq(Blocks) /\ Len(u) = 1
        BY <1>2, <2>2
    <3> HIDE DEF u, v, w
    <3>2. Len(u \o v \o w) = 1 + Len(v) + Len(w)
        BY <3>0, CutWhereJoined, SMTT(20)
    <3>3. SubSeq(u \o v \o w, 1, 1) = u
        BY <3>0, CutWhereJoined, SMTT(20)
    <3>4. SubSeq(u \o v \o w, 2, 1 + Len(v)) = v
        BY <3>0, CutWhereJoined, SMTT(20)
    <3>5. SubSeq(u \o v \o w, 2 + Len(v), 1 + Len(v) + Len(w)) = w
        BY <3>0, CutWhereJoined, SMTT(20)
    <3>1. /\ Len(b) = 1 + Len(p.key) + Len(p.details)
          /\ SubSeq(b, 1, 1) = p.message
          /\ SubSeq(b, 2, 1 + Len(p.key)) = p.key
          /\ SubSeq(b, 2 + Len(p.key), 1 + Len(p.key) + Len(p.details)) = p.details
        BY <3>2, <3>3, <3>4, <3>5 DEF u, v, w
    <3> HIDE DEF b, keys, tags
    <3> QED BY <2>1, <2>3, <3>1
  <2>5. Datagram!Decoded(ctx, d) =
            Datagram!Packet(p.chain, p.interval, p.index, SubSeq(b, 1, 1),
                            SubSeq(b, 2, 1 + keys), ctx.mode,
                            SubSeq(b, 2 + keys, 1 + keys + tags))
    <3> HIDE DEF b, tags
    <3>1. Datagram!HasLength(d, 1 + keys + tags)
        BY <1>1, <2>4 DEF Datagram!HasLength
    <3>2. /\ d.header /\ d.chain # 0 /\ d.interval # 0 /\ d.index # 0
          /\ ~(d.index > ctx.total) /\ d.interval = Datagram!IntervalOfPacket(d.index)
          /\ d.chain = p.chain /\ d.interval = p.interval /\ d.index = p.index
          /\ d.blocks = b
        BY <1>1, <1>2, <1>4, <2>1, ContextFacts
    <3> HIDE DEF d
    <3> QED BY <3>1, <3>2 DEF Datagram!Decoded, tags
  <2> HIDE DEF b, keys, tags, d
  <2> QED BY <1>2, <2>1, <2>4, <2>5 DEF Datagram!Packet, d
<1> QED BY <1>3, <1>4

(* What the decoder reads would be encoded to the bytes it was read from.  *)
LEMMA WriteBack ==
    ASSUME NEW ctx \in Contexts, NEW d \in DatagramType,
           Datagram!Decoded(ctx, d) # Datagram!Refused
    PROVE  Datagram!Encoded(ctx, Datagram!Decoded(ctx, d)) = d
<1> DEFINE p == Datagram!Decoded(ctx, d)
<1>1. /\ d.header \in BOOLEAN /\ d.part \in BOOLEAN /\ d.chain \in Nat
      /\ d.interval \in Nat /\ d.index \in Nat /\ d.blocks \in Seq(Blocks)
      /\ d = [refused |-> FALSE, header |-> d.header, chain |-> d.chain,
              interval |-> d.interval, index |-> d.index, blocks |-> d.blocks,
              part |-> d.part]
    BY DEF DatagramType
<1>2. d.header /\ d.chain # 0 /\ d.interval # 0
    BY DEF Datagram!Decoded
<1>3. CASE d.index = 0
  <2>1. /\ Datagram!HasLength(d, 1) /\ Datagram!InDisclosure(ctx, d.interval)
        /\ p = Datagram!Disclosure(d.chain, d.interval, d.blocks)
      BY <1>2, <1>3 DEF Datagram!Decoded
  <2>2. p = [chain |-> d.chain, interval |-> d.interval, index |-> 0, message |-> <<>>,
             key |-> d.blocks, mode |-> "disclosure", details |-> <<>>]
      BY <2>1 DEF Datagram!Disclosure, Datagram!Packet
  <2> HIDE DEF p
  <2>3. Datagram!Encodable(ctx, p)
      BY <1>2, <2>1, <2>2 DEF Datagram!Encodable
  <2>4. p.message \o p.key \o p.details = d.blocks
      BY <1>1, <2>2, ConcatEmptySeq
  <2>5. Datagram!Encoded(ctx, p) =
            [refused |-> FALSE, header |-> TRUE, chain |-> d.chain,
             interval |-> d.interval, index |-> d.index, blocks |-> d.blocks,
             part |-> FALSE]
      BY <1>3, <2>2, <2>3, <2>4 DEF Datagram!Encoded
  <2>6. d.header = TRUE /\ d.part = FALSE
      BY <1>1, <1>2, <2>1 DEF Datagram!HasLength
  <2> QED BY <1>1, <2>5, <2>6 DEF p
<1>4. CASE d.index # 0
  <2> DEFINE keys == IF Datagram!CarriesDisclosedKey(d.interval, d.index) THEN 1 ELSE 0
             tags == Datagram!DetailBlocks(ctx, d.index)
             x == SubSeq(d.blocks, 1, 1)
             y == SubSeq(d.blocks, 2, 1 + keys)
             z == SubSeq(d.blocks, 2 + keys, 1 + keys + tags)
  <2>1. /\ ~(d.index > ctx.total) /\ d.interval = Datagram!IntervalOfPacket(d.index)
        /\ Datagram!HasLength(d, 1 + keys + tags)
        /\ p = Datagram!Packet(d.chain, d.interval, d.index, x, y, ctx.mode, z)
      BY <1>2, <1>4 DEF Datagram!Decoded
  <2>2. keys \in Nat /\ tags \in Nat /\ Len(d.blocks) = 1 + keys + tags /\ ~d.part
      BY <2>1, BlockCount DEF Datagram!HasLength
  <2>3. /\ Len(y) = keys /\ Len(z) = tags /\ x \o y \o z = d.blocks /\ y \in Seq(Blocks)
      BY <1>1, <2>2, JoinWhereCut, SMTT(20)
  <2>4. y # <<>> <=> Datagram!CarriesDisclosedKey(d.interval, d.index)
    <3> HIDE DEF y
    <3>1. y # <<>> <=> Len(y) # 0
        BY <2>3, EmptySeq
    <3> QED BY <2>3, <3>1
  <2> HIDE DEF p, x, y, z, keys
  <2>5. p = [chain |-> d.chain, interval |-> d.interval, index |-> d.index, message |-> x,
             key |-> y, mode |-> ctx.mode, details |-> z]
      BY <2>1 DEF Datagram!Packet
  <2>6. Datagram!Encodable(ctx, p)
    <3>1. d.index <= ctx.total
        BY <1>1, <2>1, ContextFacts
    <3> QED BY <1>2, <1>4, <2>1, <2>3, <2>4, <2>5, <3>1 DEF Datagram!Encodable
  <2>7. Datagram!Encoded(ctx, p) =
            [refused |-> FALSE, header |-> TRUE, chain |-> d.chain,
             interval |-> d.interval, index |-> d.index, blocks |-> d.blocks,
             part |-> FALSE]
      BY <2>3, <2>5, <2>6 DEF Datagram!Encoded
  <2>8. d.header = TRUE /\ d.part = FALSE
      BY <1>1, <1>2, <2>2
  <2> QED BY <1>1, <2>7, <2>8 DEF p
<1> QED BY <1>3, <1>4

(* The plan of the sender (AuthenticationRound) has only datagrams that    *)
(* the codec takes.                                                        *)
LEMMA PlannedDatagram ==
    ASSUME NEW ctx \in Contexts, NEW i \in 1 .. Datagram!LastLogicalInterval(ctx.total),
           NEW n \in 1 .. Datagram!DatagramCount(ctx.total, i)
    PROVE  LET d == Datagram!Datagram(ctx.total, i, n)
           IN  /\ d.interval = i
               /\ i > Datagram!DataIntervalCount(ctx.total) =>
                      d.packet = 0 /\ d.key # 0 /\ Datagram!InDisclosure(ctx, i)
               /\ i <= Datagram!DataIntervalCount(ctx.total) =>
                      /\ d.packet \in 1 .. ctx.total
                      /\ Datagram!IntervalOfPacket(d.packet) = i
                      /\ d.key # 0 <=> Datagram!CarriesDisclosedKey(i, d.packet)
<1> DEFINE d == Datagram!Datagram(ctx.total, i, n)
           P == PacketsPerInterval
           total == ctx.total
           last == Datagram!DataIntervalCount(ctx.total)
<1>1. /\ total \in Nat \ {0} /\ P \in Nat \ {0} /\ DisclosureDelay \in Nat \ {0}
      /\ DisclosureDelay <= last /\ last \in Nat \ {0}
      /\ last = Datagram!IntervalOfPacket(total)
    BY ContextFacts, IntervalOf
<1>2. i \in Nat \ {0} /\ i <= last + DisclosureDelay
    BY <1>1 DEF Datagram!LastLogicalInterval
<1>3. /\ d.interval = i
      /\ d.packet = IF i <= last THEN Datagram!FirstPacketIndex(i) + n - 1 ELSE 0
      /\ d.key = Datagram!DisclosedKey(i, n)
    BY DEF Datagram!Datagram
<1> HIDE DEF d
<1>4. CASE i > last
  <2>1. n = 1
      BY <1>1, <1>2, <1>4 DEF Datagram!DatagramCount
  <2>2. d.packet = 0
      BY <1>1, <1>2, <1>3, <1>4
  <2>3. d.key # 0
      BY <1>1, <1>2, <1>3, <1>4, <2>1 DEF Datagram!DisclosedKey
  <2>4. Datagram!InDisclosure(ctx, i)
      BY <1>1, <1>2, <1>4 DEF Datagram!InDisclosure
  <2> QED BY <1>1, <1>2, <1>3, <1>4, <2>2, <2>3, <2>4 DEF d
<1>5. CASE i <= last
  <2> DEFINE q == (total - 1) \div P
             f == (i - 1) * P
  <2>1. q \in Nat /\ last = q + 1 /\ i - 1 \in Nat /\ i - 1 <= q
    <3>1. q \in Nat
      <4>1. total - 1 \in Nat /\ total - 1 \in Int
          BY <1>1
      <4> HIDE DEF total, P
      <4> QED BY <1>1, <4>1, Division
    <3>2. last = q + 1
        BY DEF Datagram!DataIntervalCount
    <3> QED BY <1>2, <1>5, <3>1, <3>2
  <2>2. f \in Nat /\ i * P = f + P
      BY <1>1, <1>2
  <2>3. /\ Datagram!FirstPacketIndex(i) = f + 1
        /\ Datagram!LastPacketIndex(total, i) = IF i * P < total THEN i * P ELSE total
      BY DEF Datagram!FirstPacketIndex, Datagram!LastPacketIndex
  <2>4. n \in 1 .. Datagram!LastPacketIndex(total, i) - Datagram!FirstPacketIndex(i) + 1
      BY <1>5 DEF Datagram!DatagramCount, Datagram!DataPacketCount
  <2> DEFINE r == n - 1
  <2>5. /\ n \in Nat \ {0} /\ r \in Nat /\ r < P /\ f + n <= total
        /\ d.packet = f + n /\ d.packet - 1 = f + r
    <3> HIDE DEF f
    <3>1. n \in Nat \ {0}
      <4>1. Datagram!LastPacketIndex(total, i) \in Int
          BY <1>1, <2>2, <2>3
      <4> QED BY <2>2, <2>3, <2>4, <4>1
    <3>2. CASE i * P < total
        BY <1>1, <1>3, <1>5, <2>2, <2>3, <2>4, <3>1, <3>2
    <3>3. CASE ~(i * P < total)
        BY <1>1, <1>3, <1>5, <2>2, <2>3, <2>4, <3>1, <3>3
    <3> QED BY <3>2, <3>3
  <2>6. (f + r) \div P = i - 1 /\ (f + r) % P = r
    <3> DEFINE a == (f + r) \div P
               b == (f + r) % P
    <3>1. a \in Nat /\ b \in 0 .. P - 1 /\ f + r = P * a + b
      <4> DEFINE x == f + r
      <4>1. x \in Nat /\ x \in Int
          BY <2>2, <2>5
      <4> HIDE DEF f, r, x, P
      <4>2. /\ x \div P \in Nat /\ x % P \in 0 .. P - 1
            /\ x = P * (x \div P) + (x % P)
          BY <1>1, <4>1, Division
      <4> QED BY <4>2 DEF x
    <3> HIDE DEF a, b
    <3>2. CASE a < i - 1
      <4>1. P * a + P <= P * (i - 1)
        <5>1. a + 1 <= i - 1 /\ a + 1 \in Nat
            BY <2>1, <3>1, <3>2
        <5>2. P * (a + 1) <= P * (i - 1)
            BY <1>1, <2>1, <5>1
        <5> QED BY <1>1, <3>1, <5>2
      <4>2. P * (i - 1) = f
          BY <1>1, <2>1
      <4> DEFINE pa == P * a
      <4>3. pa \in Int
          BY <1>1, <3>1
      <4> HIDE DEF f, pa
      <4> QED BY <1>1, <2>2, <2>5, <3>1, <4>1, <4>2, <4>3 DEF pa
    <3>3. CASE a > i - 1
      <4>1. f + P <= P * a
        <5>1. i <= a
            BY <1>2, <2>1, <3>1, <3>3
        <5>2. P * i <= P * a
            BY <1>1, <1>2, <3>1, <5>1
        <5>3. P * i = i * P
            BY <1>1, <1>2
        <5> QED BY <2>2, <5>2, <5>3
      <4> DEFINE pa == P * a
      <4>3. pa \in Int
          BY <1>1, <3>1
      <4> HIDE DEF f, pa
      <4> QED BY <1>1, <2>2, <2>5, <3>1, <4>1, <4>3 DEF pa
    <3>4. CASE a = i - 1
      <4>1. P * a = f
          BY <1>1, <2>1, <3>4
      <4>2. b = r
        <5> HIDE DEF f
        <5> QED BY <1>1, <2>2, <2>5, <3>1, <4>1
      <4> QED BY <3>4, <4>2 DEF a, b
    <3> QED BY <2>1, <3>1, <3>2, <3>3, <3>4
  <2> HIDE DEF f, r
  <2>7. d.packet \in 1 .. total
      BY <1>1, <2>2, <2>5
  <2>8. Datagram!IntervalOfPacket(d.packet) = i
      BY <1>2, <2>5, <2>6 DEF Datagram!IntervalOfPacket
  <2>9. d.key # 0 <=> Datagram!CarriesDisclosedKey(i, d.packet)
    <3>1. (d.packet - 1) % P = 0 <=> n = 1
        BY <2>5, <2>6 DEF r
    <3>2. d.packet > 0
        BY <2>7, <1>1
    <3>3. d.key # 0 <=> n = 1 /\ i > DisclosureDelay
        BY <1>1, <1>2, <1>3 DEF Datagram!DisclosedKey
    <3> QED BY <3>1, <3>2, <3>3 DEF Datagram!CarriesDisclosedKey
  <2> HIDE DEF last, total
  <2> QED BY <1>1, <1>2, <1>3, <1>5, <2>7, <2>8, <2>9 DEF d, last, total
<1> QED BY <1>1, <1>2, <1>4, <1>5

(* PlanIsEncodable, for every context of a round.                          *)
LEMMA PlanEncodable ==
    ASSUME context \in Contexts
    PROVE  Datagram!PlanIsEncodable
<1> DEFINE Sealed(d) ==
        LET k == IF d.key = 0 THEN <<>> ELSE Datagram!Key
        IN  IF d.packet = 0 THEN Datagram!Disclosure(1, d.interval, k)
            ELSE Datagram!Data(1, d.interval, d.packet, k, context.mode,
                     IF context.mode = "native" THEN Datagram!Mac
                     ELSE IF Datagram!IsImprovedGroupEnd(context, d.packet)
                     THEN Datagram!GroupDetails(context.taus) ELSE <<>>)
<1>1. SUFFICES ASSUME NEW d \in Datagram!Datagrams(context.total)
               PROVE  Datagram!Encodable(context, Sealed(d))
    BY DEF Datagram!PlanIsEncodable
<1>i. PICK i \in 1 .. Datagram!LastLogicalInterval(context.total) :
               d \in {Datagram!Datagram(context.total, i, n) :
                         n \in 1 .. Datagram!DatagramCount(context.total, i)}
    BY <1>1 DEF Datagram!Datagrams
<1>2. PICK n \in 1 .. Datagram!DatagramCount(context.total, i) :
               d = Datagram!Datagram(context.total, i, n)
    BY <1>i
<1> DEFINE last == Datagram!DataIntervalCount(context.total)
           k == IF d.key = 0 THEN <<>> ELSE Datagram!Key
           details == IF context.mode = "native" THEN Datagram!Mac
                      ELSE IF Datagram!IsImprovedGroupEnd(context, d.packet)
                      THEN Datagram!GroupDetails(context.taus) ELSE <<>>
<1>3. /\ d.interval = i
      /\ i > last => d.packet = 0 /\ d.key # 0 /\ Datagram!InDisclosure(context, i)
      /\ i <= last => /\ d.packet \in 1 .. context.total
                      /\ Datagram!IntervalOfPacket(d.packet) = i
                      /\ d.key # 0 <=> Datagram!CarriesDisclosedKey(i, d.packet)
    BY <1>2, PlannedDatagram
<1>4. context.total \in Nat /\ last \in Nat /\ i \in Int
    BY ContextFacts, IntervalOf
<1>5. CASE i > last
  <2>1. Sealed(d) = [chain |-> 1, interval |-> i, index |-> 0, message |-> <<>>,
                     key |-> k, mode |-> "disclosure", details |-> <<>>]
      BY <1>3, <1>5 DEF Datagram!Disclosure, Datagram!Packet
  <2> HIDE DEF Sealed
  <2> QED BY <1>3, <1>5, <2>1 DEF Datagram!Encodable
<1>6. CASE i <= last
  <2>1. d.packet # 0 /\ d.packet <= context.total
      BY <1>3, <1>4, <1>6
  <2>2. Sealed(d) = [chain |-> 1, interval |-> i, index |-> d.packet,
                     message |-> <<"message">>, key |-> k, mode |-> context.mode,
                     details |-> details]
      BY <1>3, <2>1 DEF Datagram!Data, Datagram!Packet
  <2>3. Len(details) = Datagram!DetailBlocks(context, d.packet)
    <3>1. CASE context.mode = "native"
        BY <3>1 DEF Datagram!DetailBlocks, Datagram!Mac
    <3>2. CASE context.mode # "native" /\ Datagram!IsImprovedGroupEnd(context, d.packet)
      <4>1. Len(details) = context.taus + 1
          BY <3>2, ContextFacts, GroupDetailsSequence
      <4> QED BY <3>2, <4>1 DEF Datagram!DetailBlocks
    <3>3. CASE context.mode # "native" /\ ~Datagram!IsImprovedGroupEnd(context, d.packet)
        BY <3>3 DEF Datagram!DetailBlocks
    <3> QED BY <3>1, <3>2, <3>3
  <2>4. k # <<>> <=> d.key # 0
      BY DEF Datagram!Key
  <2> HIDE DEF Sealed, k, details
  <2> QED BY <1>3, <1>6, <2>1, <2>2, <2>3, <2>4 DEF Datagram!Encodable
<1> QED BY <1>4, <1>5, <1>6

(* The invariant: what is on the way is a datagram, the one encoded as long *)
(* as nothing happened to it, and the answer is what the decoder made of   *)
(* it.                                                                     *)
DatagramInv ==
    /\ context \in Contexts
    /\ part # "packet" => answer = Datagram!None
    /\ part = "packet" =>
          /\ WellFormed(packet)
          /\ damage \in Nat
          /\ damage = 0 => datagram = Datagram!Encoded(context, packet)
          /\ datagram = Datagram!Refused \/ datagram \in DatagramType
          /\ answer # Datagram!None =>
                 datagram \in DatagramType /\ answer = Datagram!Decoded(context, datagram)

(* What a step of MCNext does to the variables of the codec.               *)
LEMMA DatagramStep ==
    ASSUME [MCNext]_allVars
    PROVE  \/ UNCHANGED <<part, datagramVars>>
           \/ part = "packet" /\ part' = part /\ Datagram!Next
BY DEF MCNext, allVars

(* Damage makes a datagram of a datagram.                                  *)
LEMMA DamagedType ==
    ASSUME context \in Contexts, datagram \in DatagramType, Datagram!Damage
    PROVE  datagram' \in DatagramType
<1>1. /\ datagram.blocks \in Seq(Blocks) /\ datagram.part \in BOOLEAN
      /\ \A b \in Seq(Blocks) : [datagram EXCEPT !.blocks = b] \in DatagramType
    BY DEF DatagramType
<1>2. Datagram!IntervalOfPacket(context.total) \in Nat /\ context.total \in Nat
      /\ DisclosureDelay \in Nat
    BY ContextFacts, IntervalOf
<1>3. ASSUME NEW n \in 0 .. Len(datagram.blocks) - 1
      PROVE  [datagram EXCEPT !.blocks = SubSeq(@, 1, n)] \in DatagramType
  <2>1. Len(datagram.blocks) \in Nat
      BY <1>1, LenProperties
  <2>2. n \in 0 .. Len(datagram.blocks)
      BY <2>1
  <2>3. SubSeq(datagram.blocks, 1, n) \in Seq(Blocks)
      BY <1>1, <2>2, Cut
  <2> QED BY <1>1, <2>3
<1>4. [datagram EXCEPT !.blocks = Append(@, "noise")] \in DatagramType
  <2>1. Append(datagram.blocks, "noise") \in Seq(Blocks)
      BY <1>1, AppendProperties DEF Blocks
  <2> QED BY <1>1, <2>1
<1>5. [datagram EXCEPT !.part = ~@] \in DatagramType
    BY DEF DatagramType
<1>6. [datagram EXCEPT !.chain = 0] \in DatagramType
    BY DEF DatagramType
<1>7. [datagram EXCEPT !.header = FALSE, !.blocks = <<>>] \in DatagramType
    BY EmptySeq DEF DatagramType
<1>8. \A n \in Nat : /\ [datagram EXCEPT !.index = n] \in DatagramType
                     /\ [datagram EXCEPT !.interval = n] \in DatagramType
    BY DEF DatagramType
<1>9. \A n \in 0 .. context.total + 1 : n \in Nat
    BY <1>2
<1>10. \A n \in 0 .. Datagram!IntervalOfPacket(context.total) + DisclosureDelay + 1 : n \in Nat
    BY <1>2
<1>11. \/ \E n \in 0 .. Len(datagram.blocks) - 1 :
              datagram' = [datagram EXCEPT !.blocks = SubSeq(@, 1, n)]
       \/ datagram' = [datagram EXCEPT !.blocks = Append(@, "noise")]
       \/ datagram' = [datagram EXCEPT !.part = ~@]
       \/ datagram' = [datagram EXCEPT !.chain = 0]
       \/ datagram' = [datagram EXCEPT !.header = FALSE, !.blocks = <<>>]
       \/ \E n \in 0 .. context.total + 1 : datagram' = [datagram EXCEPT !.index = n]
       \/ \E n \in 0 .. Datagram!IntervalOfPacket(context.total) + DisclosureDelay + 1 :
              datagram' = [datagram EXCEPT !.interval = n]
    BY DEF Datagram!Damage
<1> QED BY <1>3, <1>4, <1>5, <1>6, <1>7, <1>8, <1>9, <1>10, <1>11

(* DatagramInv holds from the start, and damage and decoding keep it.      *)
LEMMA DatagramInductive ==
    /\ MCInit => DatagramInv
    /\ DatagramInv /\ [MCNext]_allVars => DatagramInv'
<1>1. ASSUME MCInit PROVE DatagramInv
  <2>1. CASE part = "packet"
    <3>1. Datagram!Init
        BY <1>1, <2>1 DEF MCInit
    <3>2. /\ context \in Contexts /\ packet \in Datagram!Packets(context) /\ damage = 0
          /\ datagram = Datagram!Encoded(context, packet) /\ answer = Datagram!None
        BY <3>1 DEF Datagram!Init
    <3>3. WellFormed(packet)
        BY <3>2, PacketsWellFormed
    <3>4. datagram = Datagram!Refused \/ datagram \in DatagramType
        BY <3>2, <3>3, EncodedType
    <3> QED BY <2>1, <3>2, <3>3, <3>4 DEF DatagramInv
  <2>2. CASE part # "packet"
    <3>1. context = (CHOOSE c \in Contexts : TRUE) /\ answer = Datagram!None
        BY <1>1, <2>2 DEF MCInit, DatagramIdle
    <3>2. context \in Contexts
        BY <3>1, FormatsAssumption DEF Datagram!ContextAssumption
    <3> QED BY <2>2, <3>1, <3>2 DEF DatagramInv
  <2> QED BY <2>1, <2>2
<1>2. ASSUME DatagramInv, [MCNext]_allVars PROVE DatagramInv'
  <2>1. CASE UNCHANGED <<part, datagramVars>>
    <3>1. UNCHANGED <<part, context, packet, datagram, damage, answer>>
        BY <2>1 DEF datagramVars
    <3> QED BY <1>2, <3>1 DEF DatagramInv
  <2>2. CASE part = "packet" /\ part' = part /\ Datagram!Damage
    <3>1. /\ damage \in Nat /\ damage' = damage + 1 /\ answer = Datagram!None
          /\ UNCHANGED <<context, packet, answer>> /\ ~datagram.refused
        BY <1>2, <2>2 DEF DatagramInv, Datagram!Damage
    <3>2. damage' \in Nat /\ damage' # 0
        BY <3>1
    <3>3. datagram \in DatagramType
        BY <1>2, <2>2, <3>1 DEF DatagramInv, Datagram!Refused
    <3>4. datagram' \in DatagramType
        BY <1>2, <2>2, <3>3, DamagedType DEF DatagramInv
    <3> QED BY <1>2, <2>2, <3>1, <3>2, <3>4 DEF DatagramInv
  <2>3. CASE part = "packet" /\ part' = part /\ Datagram!Decode
    <3>1. /\ answer' = Datagram!Decoded(context, datagram) /\ ~datagram.refused
          /\ UNCHANGED <<context, packet, datagram, damage>>
        BY <2>3 DEF Datagram!Decode
    <3>2. datagram \in DatagramType
        BY <1>2, <2>3, <3>1 DEF DatagramInv, Datagram!Refused
    <3> QED BY <1>2, <2>3, <3>1, <3>2 DEF DatagramInv
  <2> QED BY <1>2, <2>1, <2>2, <2>3, DatagramStep DEF Datagram!Next
<1> QED BY <1>1, <1>2

(* A packet has one datagram, and the sender's plan can be encoded.         *)
LEMMA DatagramSound ==
    ASSUME DatagramInv
    PROVE  Datagram!OneDatagramPerPacket /\ Datagram!PlanIsEncodable
<1>1. Datagram!OneDatagramPerPacket
  <2>1. CASE part # "packet"
      BY <2>1 DEF DatagramInv, Datagram!OneDatagramPerPacket
  <2>2. CASE part = "packet" /\ answer # Datagram!None
    <3>1. /\ context \in Contexts /\ WellFormed(packet) /\ datagram \in DatagramType
          /\ answer = Datagram!Decoded(context, datagram)
          /\ damage = 0 => datagram = Datagram!Encoded(context, packet)
        BY <2>2 DEF DatagramInv
    <3>2. ASSUME damage = 0 PROVE answer = packet
      <4>1. datagram = Datagram!Encoded(context, packet)
          BY <3>1, <3>2
      <4>2. Datagram!Encoded(context, packet) # Datagram!Refused
          BY <3>1, <4>1 DEF DatagramType, Datagram!Refused
      <4>3. Datagram!Encodable(context, packet)
          BY <4>2 DEF Datagram!Encoded
      <4> QED BY <3>1, <4>1, <4>3, ReadBack
    <3>3. ASSUME answer # Datagram!Refused
          PROVE  Datagram!Encoded(context, answer) = datagram
        BY <3>1, <3>3, WriteBack
    <3> QED BY <3>2, <3>3 DEF Datagram!OneDatagramPerPacket
  <2>3. CASE answer = Datagram!None
      BY <2>3 DEF Datagram!OneDatagramPerPacket
  <2> QED BY <2>1, <2>2, <2>3
<1> QED BY <1>1, PlanEncodable DEF DatagramInv

-----------------------------------------------------------------------------
(* FRAMES (TcpStream).                                                     *)

(* Frames as a decoder returns them, and as the two ends write them.       *)
DecodedFrame ==
    [type : {1}, json : Seq(Nat)]
    \cup [type : {2}, chain : Nat, index : Nat, data : Seq(Nat)]

WrittenFrame ==
    [type : {1}, json : Seq(Nat)]
    \cup [type : {2}, chain : Nat \ {0}, index : Nat \ {0}, data : Seq(Nat) \ {<<>>}]

(* What is assumed of the constants.                                       *)
LEMMA StreamFacts ==
    /\ ByteBase \in Nat \ {0} /\ MaximumFrameLength \in Nat /\ 1 <= MaximumFrameLength
    /\ Payloads \subseteq WrittenFrame
<1>1. /\ ByteBase \in Nat \ {0, 1}
      /\ MaximumFrameLength \in 1 .. ByteBase * ByteBase - 1
    BY FormatsAssumption DEF Stream!LimitAssumption, Stream!TypeSize
<1>2. Payloads \subseteq WrittenFrame
    BY FormatsAssumption
    DEF Stream!PayloadAssumption, Stream!JsonControl, Stream!FileBinaryChunk, WrittenFrame
<1>3. ByteBase * ByteBase \in Nat
    BY <1>1
<1> QED BY <1>1, <1>2, <1>3

(* u32Read of what appendUint32 wrote.                                     *)
LEMMA NumberOfDigits ==
    ASSUME NEW n \in Nat
    PROVE  /\ Stream!Digits(n) \in Seq(Nat) /\ Len(Stream!Digits(n)) = 2
           /\ Stream!Digits(n)[1] * ByteBase + Stream!Digits(n)[2] = n
<1> DEFINE B == ByteBase
           u == n \div B
           v == n % B
<1>1. B \in Nat \ {0}
    BY StreamFacts
<1>2. u \in Nat /\ v \in 0 .. B - 1 /\ n = B * u + v
    <2> HIDE DEF B
    <2>1. n \in Int /\ B \in Nat \ {0}
        BY <1>1
    <2>2. /\ n \div B \in Nat /\ n % B \in 0 .. B - 1
          /\ n = B * (n \div B) + (n % B)
        BY <2>1, Division
    <2> QED BY <2>2
<1>3. Stream!Digits(n) = <<u, v>>
    BY DEF Stream!Digits
<1> HIDE DEF u, v
<1>4. u * B + v = n /\ v \in Nat
    BY <1>1, <1>2
<1>5. <<u, v>> \in Seq(Nat) /\ Len(<<u, v>>) = 2 /\ <<u, v>>[1] = u /\ <<u, v>>[2] = v
    BY <1>2, <1>4
<1> QED BY <1>3, <1>4, <1>5

(* The payload of a written frame is a sequence of numbers.                *)
LEMMA PayloadType ==
    ASSUME NEW f \in WrittenFrame
    PROVE  /\ Stream!Payload(f) \in Seq(Nat)
           /\ f.type \in {1, 2} /\ f # Stream!Error
<1>1. CASE f \in [type : {1}, json : Seq(Nat)]
  <2>1. Stream!Payload(f) = f.json /\ f.type = 1 /\ f.json \in Seq(Nat)
      BY <1>1 DEF Stream!Payload, Stream!JsonControl
  <2> QED BY <2>1 DEF Stream!Error
<1>2. CASE f \in [type : {2}, chain : Nat \ {0}, index : Nat \ {0}, data : Seq(Nat) \ {<<>>}]
  <2>1. /\ f.type = 2 /\ f.chain \in Nat /\ f.index \in Nat /\ f.data \in Seq(Nat)
        /\ Stream!Payload(f) = <<f.chain, f.index, Len(f.data)>> \o f.data
      BY <1>2 DEF Stream!Payload, Stream!JsonControl
  <2>2. Len(f.data) \in Nat
      BY <2>1, LenProperties
  <2>3. <<f.chain, f.index, Len(f.data)>> \in Seq(Nat)
      BY <2>1, <2>2
  <2>4. <<f.chain, f.index, Len(f.data)>> \o f.data \in Seq(Nat)
      BY <2>1, <2>3, ConcatProperties
  <2>5. f # Stream!Error
    <3>1. DOMAIN f = {"type", "chain", "index", "data"}
        BY <1>2
    <3>2. DOMAIN Stream!Error = {"type"}
        BY DEF Stream!Error
    <3>3. "chain" \notin {"type"}
        OBVIOUS
    <3> QED BY <3>1, <3>2, <3>3
  <2> QED BY <2>1, <2>4, <2>5
<1> QED BY <1>1, <1>2 DEF WrittenFrame

(* The bytes of a frame: two digits of the length, the type, the payload.  *)
LEMMA EncodedFrame ==
    ASSUME NEW f \in WrittenFrame
    PROVE  LET e == Stream!vecEncode(f)
               p == Stream!Payload(f)
           IN  /\ e \in Seq(Nat) /\ Len(e) = 3 + Len(p) /\ Len(p) \in Nat
               /\ Stream!Number(e) = 1 + Len(p)
               /\ Stream!FrameLength(p) = 1 + Len(p)
               /\ e[3] = f.type
               /\ SubSeq(e, 4, Len(e)) = p
<1> DEFINE p == Stream!Payload(f)
           g == Stream!Digits(1 + Len(p))
           t == <<f.type>>
           gt == g \o t
           e == gt \o p
<1>1. p \in Seq(Nat) /\ f.type \in {1, 2} /\ Len(p) \in Nat
    BY PayloadType, LenProperties
<1>2. Stream!FrameLength(p) = 1 + Len(p)
    BY DEF Stream!FrameLength, Stream!TypeSize
<1>3. Stream!vecEncode(f) = e
    BY <1>2 DEF Stream!vecEncode
<1>4. t \in Seq(Nat) /\ Len(t) = 1 /\ t[1] = f.type
    BY <1>1
<1>5. g \in Seq(Nat) /\ Len(g) = 2 /\ g[1] * ByteBase + g[2] = 1 + Len(p)
    <2> DEFINE n == 1 + Len(p)
    <2>1. n \in Nat
        BY <1>1
    <2> HIDE DEF n
    <2>2. /\ Stream!Digits(n) \in Seq(Nat) /\ Len(Stream!Digits(n)) = 2
          /\ Stream!Digits(n)[1] * ByteBase + Stream!Digits(n)[2] = n
        BY <2>1, NumberOfDigits
    <2> QED BY <2>2 DEF n
<1> HIDE DEF p, g, t
<1>types. g \in Seq(Nat) /\ t \in Seq(Nat)
    BY <1>4, <1>5
<1>6. /\ gt \in Seq(Nat) /\ Len(gt) = Len(g) + Len(t)
      /\ \A i \in 1 .. Len(g) : gt[i] = g[i]
      /\ \A i \in 1 .. Len(t) : gt[Len(g) + i] = t[i]
    BY <1>types, Joined
<1>7. Len(gt) = 3 /\ gt[1] = g[1] /\ gt[2] = g[2] /\ gt[3] = f.type
  <2>1. 1 \in 1 .. Len(g) /\ 2 \in 1 .. Len(g) /\ 1 \in 1 .. Len(t) /\ Len(g) + 1 = 3
      BY <1>4, <1>5
  <2>2. gt[1] = g[1] /\ gt[2] = g[2] /\ gt[Len(g) + 1] = t[1]
      BY <1>6, <2>1
  <2> QED BY <1>4, <1>5, <1>6, <2>1, <2>2
<1>gt. gt \in Seq(Nat)
    BY <1>6
<1> HIDE DEF gt
<1>8. /\ e \in Seq(Nat) /\ Len(e) = Len(gt) + Len(p)
      /\ SubSeq(e, Len(gt) + 1, Len(e)) = p
      /\ \A i \in 1 .. Len(gt) : e[i] = gt[i]
    BY <1>gt, <1>1, Joined
<1>9. e[1] = g[1] /\ e[2] = g[2] /\ e[3] = f.type /\ Len(gt) + 1 = 4
  <2>1. 1 \in 1 .. Len(gt) /\ 2 \in 1 .. Len(gt) /\ 3 \in 1 .. Len(gt)
      BY <1>7
  <2> QED BY <1>7, <1>8, <2>1
<1> HIDE DEF e
<1>10. Stream!Number(e) = 1 + Len(p)
    BY <1>5, <1>9 DEF Stream!Number
<1>11. Len(e) = 3 + Len(p) /\ SubSeq(e, 4, Len(e)) = p
    BY <1>7, <1>8, <1>9
<1> QED BY <1>1, <1>2, <1>3, <1>8, <1>9, <1>10, <1>11 DEF p

(* resDecode of the bytes of a frame is the frame, or an error.            *)
LEMMA DecodesOrRefuses ==
    ASSUME NEW f \in WrittenFrame
    PROVE  Stream!resDecode(Stream!vecEncode(f)) \in {f, Stream!Error}
<1> DEFINE e == Stream!vecEncode(f)
           p == Stream!Payload(f)
<1>1. /\ e \in Seq(Nat) /\ Len(e) = 3 + Len(p) /\ Len(p) \in Nat
      /\ Stream!Number(e) = 1 + Len(p)
      /\ e[3] = f.type /\ SubSeq(e, 4, Len(e)) = p
    BY EncodedFrame
<1> HIDE DEF e
<1>2. Stream!resDecode(e) = IF f.type = 1 THEN Stream!DecodeJson(p)
                            ELSE IF f.type = 2 THEN Stream!DecodeChunk(p) ELSE Stream!Error
  <2>1. ~(Len(e) < 3) /\ ~(Stream!Number(e) # Len(e) - 2)
      <3> HIDE DEF p
      <3> QED BY <1>1
  <2>2. 2 + 1 = 3 /\ 2 + 1 + 1 = 4
      OBVIOUS
  <2> HIDE DEF p
  <2> QED BY <1>1, <2>1, <2>2
      DEF Stream!resDecode, Stream!PrefixSize, Stream!TypeSize, Stream!JsonControl,
          Stream!FileBinaryChunk
<1>3. CASE f \in [type : {1}, json : Seq(Nat)]
  <2>1. p = f.json /\ f.type = 1 /\ f = [type |-> 1, json |-> f.json]
      BY <1>3 DEF Stream!Payload, Stream!JsonControl
  <2> HIDE DEF p
  <2>2. Stream!DecodeJson(p) \in {[type |-> 1, json |-> p], Stream!Error}
      BY DEF Stream!DecodeJson, Stream!JsonControl
  <2> QED BY <1>2, <2>1, <2>2 DEF e
<1>4. CASE f \in [type : {2}, chain : Nat \ {0}, index : Nat \ {0}, data : Seq(Nat) \ {<<>>}]
  <2> DEFINE h == <<f.chain, f.index, Len(f.data)>>
  <2>1. /\ f.type = 2 /\ f.chain \in Nat \ {0} /\ f.index \in Nat \ {0}
        /\ f.data \in Seq(Nat) /\ f.data # <<>>
        /\ f = [type |-> 2, chain |-> f.chain, index |-> f.index, data |-> f.data]
        /\ p = h \o f.data
      BY <1>4 DEF Stream!Payload, Stream!JsonControl
  <2>2. Len(f.data) \in Nat \ {0}
      BY <2>1, EmptySeq
  <2>3. /\ h \in Seq(Nat) /\ Len(h) = 3
        /\ h[1] = f.chain /\ h[2] = f.index /\ h[3] = Len(f.data)
      BY <2>1, <2>2
  <2> HIDE DEF h, p
  <2>types. h \in Seq(Nat) /\ f.data \in Seq(Nat)
      BY <2>1, <2>3
  <2>joined. /\ Len(h \o f.data) = Len(h) + Len(f.data)
        /\ SubSeq(h \o f.data, Len(h) + 1, Len(h \o f.data)) = f.data
        /\ \A i \in 1 .. Len(h) : (h \o f.data)[i] = h[i]
      BY <2>types, Joined
  <2>4. /\ Len(p) = Len(h) + Len(f.data)
        /\ SubSeq(p, Len(h) + 1, Len(p)) = f.data
        /\ \A i \in 1 .. Len(h) : p[i] = h[i]
      BY <2>1, <2>joined
  <2>5. p[1] = h[1] /\ p[2] = h[2] /\ p[3] = h[3]
    <3>1. 1 \in 1 .. Len(h) /\ 2 \in 1 .. Len(h) /\ 3 \in 1 .. Len(h)
        BY <2>3
    <3> QED BY <2>4, <3>1
  <2>6. Len(p) > 3 /\ p[3] = Len(p) - 3 /\ p[1] # 0 /\ p[2] # 0
        /\ SubSeq(p, 3 + 1, Len(p)) = f.data
      BY <2>1, <2>2, <2>3, <2>4, <2>5
  <2>7. Stream!DecodeChunk(p) =
            [type |-> 2, chain |-> p[1], index |-> p[2], data |-> f.data]
      BY <2>6 DEF Stream!DecodeChunk, Stream!ChunkHeaderSize, Stream!FileBinaryChunk
  <2>8. Stream!DecodeChunk(p) = f
      BY <2>1, <2>3, <2>5, <2>7
  <2> QED BY <1>2, <2>1, <2>8 DEF e
<1> QED BY <1>3, <1>4 DEF WrittenFrame

(* Whatever bytes it reads, resDecode returns a frame or an error.         *)
LEMMA DecodedType ==
    ASSUME NEW s \in Seq(Nat)
    PROVE  Stream!resDecode(s) \in DecodedFrame \cup {Stream!Error}
<1> DEFINE p == SubSeq(s, 4, Len(s))
<1>1. CASE Len(s) < 3
    BY <1>1 DEF Stream!resDecode, Stream!PrefixSize, Stream!TypeSize
<1>2. CASE ~(Len(s) < 3)
  <2>1. Len(s) \in Nat /\ 3 \in 0 .. Len(s) /\ 3 + 1 = 4
      BY <1>2, LenProperties
  <2>2. p \in Seq(Nat)
      BY <2>1, Cut
  <2> HIDE DEF p
  <2>3. Stream!DecodeJson(p) \in DecodedFrame \cup {Stream!Error}
      BY <2>2 DEF Stream!DecodeJson, Stream!JsonControl, DecodedFrame
  <2>4. Stream!DecodeChunk(p) \in DecodedFrame \cup {Stream!Error}
    <3>1. CASE Len(p) > 3
      <4>1. 3 \in 0 .. Len(p) /\ Len(p) \in Nat /\ 1 \in 1 .. Len(p) /\ 2 \in 1 .. Len(p)
          BY <2>2, <3>1, LenProperties
      <4>2. SubSeq(p, 3 + 1, Len(p)) \in Seq(Nat) /\ p[1] \in Nat /\ p[2] \in Nat
          BY <2>2, <4>1, Cut, LenProperties
      <4> QED BY <4>2 DEF Stream!DecodeChunk, Stream!ChunkHeaderSize,
                          Stream!FileBinaryChunk, DecodedFrame
    <3>2. CASE ~(Len(p) > 3)
        BY <3>2 DEF Stream!DecodeChunk, Stream!ChunkHeaderSize
    <3> QED BY <3>1, <3>2
  <2>5. Stream!resDecode(s) \in {Stream!Error, Stream!DecodeJson(p), Stream!DecodeChunk(p)}
      BY DEF Stream!resDecode, Stream!PrefixSize, Stream!TypeSize, p
  <2> QED BY <2>3, <2>4, <2>5
<1> QED BY <1>1, <1>2

(* The state of the loop of batConsume.                                    *)
LoopState == [rest : Seq(Nat), frames : Seq(DecodedFrame), failed : BOOLEAN]

(* The loop begins with all bytes and no frame.                            *)
LoopStart(bytes) == [rest |-> bytes, frames |-> <<>>, failed |-> FALSE]

(* The decoder waits: no length, or a length within the limit of a frame   *)
(* that is not there as a whole.                                           *)
Waits(bytes) ==
    \/ Len(bytes) < 2
    \/ /\ Stream!Number(bytes) \in 1 .. MaximumFrameLength
       /\ Len(bytes) < 2 + Stream!Number(bytes)

(* What one turn does.                                                     *)
LEMMA TurnCases ==
    ASSUME NEW st \in LoopState
    PROVE  LET n == Stream!Number(st.rest)
               frame == Stream!resDecode(SubSeq(st.rest, 1, 2 + n))
           IN  \/ Stream!Turn(st) = st /\ (st.failed \/ Waits(st.rest))
               \/ /\ ~st.failed /\ Len(st.rest) >= 2 /\ n \in Nat
                  /\ \/ n < 1 \/ n > MaximumFrameLength
                     \/ n >= 1 /\ n <= MaximumFrameLength /\ Len(st.rest) >= 2 + n
                        /\ frame = Stream!Error
                  /\ Stream!Turn(st) = [rest |-> <<>>, frames |-> st.frames, failed |-> TRUE]
               \/ /\ ~st.failed /\ Len(st.rest) >= 2 + n /\ n \in 1 .. MaximumFrameLength
                  /\ frame # Stream!Error /\ frame \in DecodedFrame
                  /\ Stream!Turn(st) = [rest |-> SubSeq(st.rest, 2 + n + 1, Len(st.rest)),
                                        frames |-> Append(st.frames, frame),
                                        failed |-> FALSE]
<1> DEFINE n == Stream!Number(st.rest)
           frame == Stream!resDecode(SubSeq(st.rest, 1, 2 + n))
<1>1. /\ st.rest \in Seq(Nat) /\ st.frames \in Seq(DecodedFrame) /\ st.failed \in BOOLEAN
      /\ st = [rest |-> st.rest, frames |-> st.frames, failed |-> st.failed]
      /\ Len(st.rest) \in Nat /\ MaximumFrameLength \in Nat
    BY StreamFacts, LenProperties DEF LoopState
<1>2. Stream!Turn(st) =
        IF st.failed \/ Len(st.rest) < 2 THEN st
        ELSE IF n < 1 \/ n > MaximumFrameLength
        THEN Stream!GivenUp(st)
        ELSE IF Len(st.rest) < 2 + n THEN st
        ELSE IF frame = Stream!Error THEN Stream!GivenUp(st)
        ELSE [st EXCEPT !.frames = Append(@, frame),
                        !.rest = SubSeq(@, 2 + n + 1, Len(@))]
    BY DEF Stream!Turn, Stream!PrefixSize, Stream!TypeSize
<1>3. CASE st.failed \/ Len(st.rest) < 2
  <2> HIDE DEF n, frame
  <2> QED BY <1>2, <1>3 DEF Waits
<1>4. CASE ~(st.failed \/ Len(st.rest) < 2)
  <2>1. n \in Nat
    <3>1. st.rest[1] \in Nat /\ st.rest[2] \in Nat /\ ByteBase \in Nat
      <4>1. 1 \in 1 .. Len(st.rest) /\ 2 \in 1 .. Len(st.rest)
          BY <1>1, <1>4
      <4> QED BY <1>1, <4>1, StreamFacts, LenProperties
    <3>2. st.rest[1] * ByteBase \in Nat
        BY <3>1
    <3> QED BY <3>1, <3>2 DEF Stream!Number
  <2>2. Stream!GivenUp(st) = [rest |-> <<>>, frames |-> st.frames, failed |-> TRUE]
      BY DEF Stream!GivenUp
  <2>3. CASE n < 1 \/ n > MaximumFrameLength
    <3> HIDE DEF n, frame
    <3>1. Stream!Turn(st) = [rest |-> <<>>, frames |-> st.frames, failed |-> TRUE]
        BY <1>2, <1>4, <2>2, <2>3
    <3> QED BY <1>1, <1>4, <2>1, <2>3, <3>1 DEF n
  <2>4. CASE ~(n < 1 \/ n > MaximumFrameLength) /\ Len(st.rest) < 2 + n
    <3>1. Stream!Turn(st) = st
      <4> HIDE DEF n, frame
      <4> QED BY <1>2, <1>4, <2>4
    <3>2. Waits(st.rest)
      <4>1. n \in 1 .. MaximumFrameLength
        <5> HIDE DEF n
        <5> QED BY <1>1, <2>1, <2>4
      <4> QED BY <2>4, <4>1 DEF Waits
    <3> QED BY <3>1, <3>2
  <2>5. CASE ~(n < 1 \/ n > MaximumFrameLength) /\ ~(Len(st.rest) < 2 + n)
    <3>1. n \in 1 .. MaximumFrameLength /\ 2 + n \in 0 .. Len(st.rest)
          /\ Len(st.rest) >= 2 + n /\ Len(st.rest) >= 2 /\ n >= 1 /\ n <= MaximumFrameLength
      <4> HIDE DEF n
      <4> QED BY <1>1, <2>1, <2>5
    <3>2. CASE frame = Stream!Error
      <4>1. Stream!Turn(st) = [rest |-> <<>>, frames |-> st.frames, failed |-> TRUE]
        <5> HIDE DEF n, frame
        <5> QED BY <1>2, <1>4, <2>2, <2>5, <3>2
      <4> QED BY <1>4, <2>1, <3>1, <3>2, <4>1
    <3>3. CASE frame # Stream!Error
      <4>1. frame \in DecodedFrame
        <5>1. SubSeq(st.rest, 1, 2 + n) \in Seq(Nat)
            BY <1>1, <3>1, Cut
        <5> QED BY <3>3, <5>1, DecodedType
      <4>2. Stream!Turn(st) = [rest |-> SubSeq(st.rest, 2 + n + 1, Len(st.rest)),
                               frames |-> Append(st.frames, frame), failed |-> FALSE]
        <5> HIDE DEF n, frame
        <5>1. Stream!Turn(st) = [st EXCEPT !.frames = Append(@, frame),
                                           !.rest = SubSeq(@, 2 + n + 1, Len(@))]
            BY <1>2, <1>4, <2>5, <3>3
        <5>2. st.failed = FALSE
            BY <1>1, <1>4
        <5> QED BY <1>1, <5>1, <5>2
      <4> QED BY <1>4, <3>1, <3>3, <4>1, <4>2
    <3> QED BY <3>2, <3>3
  <2> QED BY <2>3, <2>4, <2>5
<1> QED BY <1>3, <1>4

(* A turn keeps the type; one that changes something takes a byte at least,*)
(* and one that changes nothing leaves a loop that failed or waits.        *)
LEMMA TurnTakes ==
    ASSUME NEW st \in LoopState
    PROVE  /\ Stream!Turn(st) \in LoopState
           /\ \/ Stream!Turn(st) = st /\ (st.failed \/ Waits(st.rest))
              \/ Len(Stream!Turn(st).rest) < Len(st.rest)
<1> DEFINE n == Stream!Number(st.rest)
           frame == Stream!resDecode(SubSeq(st.rest, 1, 2 + n))
<1>1. /\ st.rest \in Seq(Nat) /\ st.frames \in Seq(DecodedFrame) /\ Len(st.rest) \in Nat
      /\ MaximumFrameLength \in Nat
    BY StreamFacts, LenProperties DEF LoopState
<1>2. CASE Stream!Turn(st) = st /\ (st.failed \/ Waits(st.rest))
    BY <1>2
<1>3. CASE Len(st.rest) >= 2
           /\ Stream!Turn(st) = [rest |-> <<>>, frames |-> st.frames, failed |-> TRUE]
  <2>1. <<>> \in Seq(Nat) /\ Len(<<>>) = 0
      BY EmptySeq
  <2>2. Stream!Turn(st).rest = <<>> /\ Stream!Turn(st) \in LoopState
      BY <1>1, <1>3, <2>1 DEF LoopState
  <2> QED BY <1>1, <1>3, <2>1, <2>2
<1>4. CASE /\ Len(st.rest) >= 2 + n /\ n \in 1 .. MaximumFrameLength
           /\ frame \in DecodedFrame
           /\ Stream!Turn(st) = [rest |-> SubSeq(st.rest, 2 + n + 1, Len(st.rest)),
                                 frames |-> Append(st.frames, frame), failed |-> FALSE]
  <2>1. 2 + n \in 0 .. Len(st.rest) /\ n \in Nat /\ n >= 1
    <3> HIDE DEF n
    <3> QED BY <1>1, <1>4
  <2> DEFINE r == SubSeq(st.rest, 2 + n + 1, Len(st.rest))
  <2>2. r \in Seq(Nat) /\ Len(r) = Len(st.rest) - (2 + n)
    <3> DEFINE x == st.rest
               k == 2 + n
    <3>1. x \in Seq(Nat) /\ k \in 0 .. Len(x)
        BY <1>1, <2>1
    <3> HIDE DEF x, k, n
    <3>2. /\ SubSeq(x, k + 1, Len(x)) \in Seq(Nat)
          /\ Len(SubSeq(x, k + 1, Len(x))) = Len(x) - k
        BY <3>1, Cut
    <3> QED BY <3>2 DEF x, k
  <2>3. Append(st.frames, frame) \in Seq(DecodedFrame)
      BY <1>1, <1>4, AppendProperties
  <2> HIDE DEF r, n, frame
  <2>4. Stream!Turn(st) = [rest |-> r, frames |-> Append(st.frames, frame), failed |-> FALSE]
      BY <1>4 DEF r
  <2>5. Stream!Turn(st) \in LoopState /\ Stream!Turn(st).rest = r
      BY <2>2, <2>3, <2>4 DEF LoopState
  <2> QED BY <1>1, <2>1, <2>2, <2>5
<1>5. \/ Stream!Turn(st) = st /\ (st.failed \/ Waits(st.rest))
      \/ /\ ~st.failed /\ Len(st.rest) >= 2 /\ n \in Nat
         /\ \/ n < 1 \/ n > MaximumFrameLength
            \/ n >= 1 /\ n <= MaximumFrameLength /\ Len(st.rest) >= 2 + n
               /\ frame = Stream!Error
         /\ Stream!Turn(st) = [rest |-> <<>>, frames |-> st.frames, failed |-> TRUE]
      \/ /\ ~st.failed /\ Len(st.rest) >= 2 + n /\ n \in 1 .. MaximumFrameLength
         /\ frame # Stream!Error /\ frame \in DecodedFrame
         /\ Stream!Turn(st) = [rest |-> SubSeq(st.rest, 2 + n + 1, Len(st.rest)),
                               frames |-> Append(st.frames, frame),
                               failed |-> FALSE]
    BY TurnCases
<1> QED BY <1>2, <1>3, <1>4, <1>5

(* The loop, turn by turn.                                                 *)
LEMMA LoopTurns ==
    ASSUME NEW bytes \in Seq(Nat)
    PROVE  /\ Stream!After(bytes, 0) = LoopStart(bytes)
           /\ \A t \in Nat : /\ Stream!After(bytes, t) \in LoopState
                             /\ Stream!After(bytes, t + 1) =
                                    Stream!Turn(Stream!After(bytes, t))
<1> DEFINE start == LoopStart(bytes)
           step == [p \in Nat \X LoopState |-> Stream!Turn(p[2])]
           Turns(f) == f = [k \in Nat |->
                              IF k = 0 THEN [rest |-> bytes, frames |-> <<>>, failed |-> FALSE]
                              ELSE Stream!Turn(f[k - 1])]
           c == CHOOSE f : Turns(f)
<1>1. start \in LoopState
    BY EmptySeq DEF LoopStart, LoopState
<1>2. \E f : Turns(f)
  <2>1. step \in [Nat \X LoopState -> LoopState]
      BY TurnTakes
  <2>2. \A k \in Nat : \A s \in LoopState : step[<<k, s>>] = Stream!Turn(s)
      OBVIOUS
  <2> HIDE DEF step, start
  <2>3. PICK f \in [Nat -> LoopState] : RecursiveBy(f, start, step)
      BY <1>1, <2>1, Recursion
  <2>4. \A k \in Nat : k # 0 => step[<<k - 1, f[k - 1]>>] = Stream!Turn(f[k - 1])
      BY <2>2
  <2>5. f = [k \in Nat |-> IF k = 0 THEN start ELSE step[<<k - 1, f[k - 1]>>]]
      BY <2>3 DEF RecursiveBy
  <2>6. f = [k \in Nat |-> IF k = 0 THEN start ELSE Stream!Turn(f[k - 1])]
      BY <2>4, <2>5
  <2>7. Turns(f)
      BY <2>6 DEF start, LoopStart
  <2> QED BY <2>7
<1>3. Turns(c)
    BY <1>2
<1>4. \A k : Stream!After(bytes, k) = c[k]
    BY DEF Stream!After
<1>5. c[0] = start /\ \A k \in Nat : c[k + 1] = Stream!Turn(c[k])
  <2> HIDE DEF c
  <2>1. c = [k \in Nat |-> IF k = 0 THEN start ELSE Stream!Turn(c[k - 1])]
      BY <1>3 DEF LoopStart
  <2> HIDE DEF start
  <2>2. c[0] = start
      BY <2>1
  <2>3. ASSUME NEW k \in Nat PROVE c[k + 1] = Stream!Turn(c[k])
    <3>1. k + 1 \in Nat /\ k + 1 # 0 /\ (k + 1) - 1 = k
        OBVIOUS
    <3> QED BY <2>1, <3>1
  <2> QED BY <2>2, <2>3
<1> HIDE DEF c, start
<1>6. \A k \in Nat : c[k] \in LoopState
  <2> DEFINE P == {k \in Nat : c[k] \in LoopState}
  <2>1. P \in SUBSET Nat /\ 0 \in P
      BY <1>1, <1>5
  <2>2. ASSUME NEW k \in P PROVE k + 1 \in P
    <3>1. k \in Nat /\ k + 1 \in Nat /\ c[k] \in LoopState /\ c[k + 1] = Stream!Turn(c[k])
        BY <1>5
    <3>2. c[k + 1] \in LoopState
        BY <3>1, TurnTakes
    <3> QED BY <3>1, <3>2
  <2> HIDE DEF P
  <2>3. P = Nat
      BY <2>1, <2>2, Induction
  <2> QED BY <2>3 DEF P
<1> QED BY <1>4, <1>5, <1>6 DEF start

(* After a turn per byte the loop has failed or waits.                     *)
LEMMA LoopEnds ==
    ASSUME NEW bytes \in Seq(Nat)
    PROVE  /\ Stream!Consumed(bytes) \in LoopState
           /\ Stream!Consumed(bytes).failed \/ Waits(Stream!Consumed(bytes).rest)
<1> DEFINE a(t) == Stream!After(bytes, t)
           Ended(st) == st.failed \/ Waits(st.rest)
           P == {t \in Nat : Ended(a(t)) \/ Len(a(t).rest) + t <= Len(bytes)}
<1>1. /\ Len(bytes) \in Nat
      /\ a(0).rest = bytes /\ \A t \in Nat : a(t) \in LoopState /\ a(t + 1) = Stream!Turn(a(t))
    BY LoopTurns, LenProperties DEF LoopStart
<1> HIDE DEF a
<1>2. \A t \in Nat : Len(a(t).rest) \in Nat
  <2> TAKE t \in Nat
  <2>1. a(t).rest \in Seq(Nat)
      BY <1>1 DEF LoopState
  <2> QED BY <2>1, LenProperties
<1>3. 0 \in P
    BY <1>1
<1>4. ASSUME NEW t \in P PROVE t + 1 \in P
  <2>1. t \in Nat /\ a(t) \in LoopState /\ a(t + 1) = Stream!Turn(a(t)) /\ t + 1 \in Nat
      BY <1>1
  <2>2. CASE a(t + 1) = a(t) /\ Ended(a(t))
      BY <2>1, <2>2
  <2>3. CASE ~(a(t + 1) = a(t) /\ Ended(a(t)))
    <3>1. Len(a(t + 1).rest) < Len(a(t).rest)
        BY <2>1, <2>3, TurnTakes
    <3>2. CASE Ended(a(t))
      <4>1. a(t + 1) # a(t)
          BY <2>3, <3>2
      <4>2. Stream!Turn(a(t)) = a(t)
        <5>1. CASE a(t).failed
            BY <5>1 DEF Stream!Turn
        <5>2. CASE Waits(a(t).rest) /\ ~a(t).failed
          <6>1. CASE Len(a(t).rest) < 2
              BY <6>1 DEF Stream!Turn, Stream!PrefixSize
          <6>2. CASE /\ Stream!Number(a(t).rest) \in 1 .. MaximumFrameLength
                     /\ Len(a(t).rest) < 2 + Stream!Number(a(t).rest)
            <7>1. ~(Stream!Number(a(t).rest) < 1)
                  /\ ~(Stream!Number(a(t).rest) > MaximumFrameLength)
                BY <6>2, StreamFacts
            <7> QED BY <6>2, <7>1 DEF Stream!Turn, Stream!PrefixSize, Stream!TypeSize
          <6> QED BY <5>2, <6>1, <6>2 DEF Waits
        <5> QED BY <3>2, <5>1, <5>2
      <4> QED BY <2>1, <4>1, <4>2
    <3>3. CASE Len(a(t).rest) + t <= Len(bytes)
      <4> DEFINE x == Len(a(t + 1).rest)
                 y == Len(a(t).rest)
                 z == Len(bytes)
      <4>1. x \in Nat /\ y \in Nat /\ z \in Nat /\ x < y /\ y + t <= z /\ t \in Nat
          BY <1>1, <1>2, <2>1, <3>1, <3>3
      <4> HIDE DEF x, y, z
      <4>2. x + (t + 1) <= z
          BY <4>1
      <4> QED BY <2>1, <4>2 DEF x, z
    <3> QED BY <3>2, <3>3
  <2> QED BY <2>2, <2>3
<1>5. P = Nat
  <2> HIDE DEF P
  <2>1. P \in SUBSET Nat
      BY DEF P
  <2> QED BY <1>3, <1>4, <2>1, Induction
<1>6. Len(bytes) \in P
    BY <1>1, <1>5
<1>7. Ended(a(Len(bytes)))
  <2>1. CASE Len(a(Len(bytes)).rest) + Len(bytes) <= Len(bytes)
    <3>1. Len(a(Len(bytes)).rest) < 2
        BY <1>1, <1>2, <2>1
    <3> QED BY <3>1 DEF Waits
  <2> QED BY <1>6, <2>1
<1> QED BY <1>1, <1>7 DEF a, Stream!Consumed

(* Two ways to read the same bytes: what begins with a whole frame.        *)
LEMMA SameFront ==
    ASSUME NEW a \in Seq(Nat), NEW z \in Seq(Nat), NEW e \in Seq(Nat), NEW v \in Seq(Nat),
           a \o z = e \o v, Len(a) >= 2, Len(e) >= 2
    PROVE  /\ Stream!Number(a) = Stream!Number(e)
           /\ Len(e) <= Len(a) => /\ SubSeq(a, 1, Len(e)) = e
                                  /\ SubSeq(a, Len(e) + 1, Len(a)) \o z = v
                                  /\ SubSeq(a, Len(e) + 1, Len(a)) \in Seq(Nat)
<1>1. Len(a) \in Nat /\ Len(e) \in Nat
    BY LenProperties
<1>2. \A i \in 1 .. Len(a) : (e \o v)[i] = a[i]
  <2>1. \A i \in 1 .. Len(a) : (a \o z)[i] = a[i]
      BY First
  <2> QED BY <2>1
<1>v. \A i \in 1 .. Len(e) : (e \o v)[i] = e[i]
    BY First
<1>3. \A i \in 1 .. Len(a) : i <= Len(e) => a[i] = e[i]
  <2> TAKE i \in 1 .. Len(a)
  <2> HAVE i <= Len(e)
  <2>1. i \in 1 .. Len(e)
      BY <1>1
  <2> QED BY <1>2, <1>v, <2>1
<1>4. Stream!Number(a) = Stream!Number(e)
  <2>1. 1 \in 1 .. Len(a) /\ 2 \in 1 .. Len(a)
      BY <1>1
  <2>2. a[1] = e[1] /\ a[2] = e[2]
      BY <1>3, <2>1
  <2> QED BY <2>2 DEF Stream!Number
<1>5. ASSUME Len(e) <= Len(a)
      PROVE  /\ SubSeq(a, 1, Len(e)) = e
             /\ SubSeq(a, Len(e) + 1, Len(a)) \o z = v
             /\ SubSeq(a, Len(e) + 1, Len(a)) \in Seq(Nat)
  <2> DEFINE x == SubSeq(a, 1, Len(e))
             y == SubSeq(a, Len(e) + 1, Len(a))
  <2>1. Len(e) \in 0 .. Len(a)
      BY <1>1, <1>5
  <2>2. /\ x \in Seq(Nat) /\ Len(x) = Len(e) /\ y \in Seq(Nat) /\ x \o y = a
        /\ \A i \in 1 .. Len(e) : x[i] = a[i]
      BY <2>1, Cut, ZenonT(30)
  <2> HIDE DEF x, y
  <2>3. \A i \in 1 .. Len(x) : x[i] = e[i]
    <3> TAKE i \in 1 .. Len(x)
    <3>1. i \in 1 .. Len(e) /\ i \in 1 .. Len(a) /\ i <= Len(e)
        BY <1>1, <1>5, <2>2
    <3> QED BY <1>3, <2>2, <3>1
  <2>4. x = e
      BY <2>2, <2>3, SeqEqual
  <2>types. x \in Seq(Nat) /\ y \in Seq(Nat)
      BY <2>2
  <2>5. (x \o y) \o z = x \o (y \o z)
      BY <2>types, Associative, ZenonT(30)
  <2>6. e \o (y \o z) = e \o v
      BY <2>2, <2>4, <2>5
  <2>7. y \o z \in Seq(Nat)
      BY <2>2, ConcatProperties
  <2>8. y \o z = v
      BY <2>6, <2>7, ConcatSimplifications
  <2> QED BY <2>2, <2>4, <2>8 DEF x, y
<1> QED BY <1>4, <1>5

(* w[i] is what is left of the bytes when the frames up to s[i] are taken. *)
Spells(w, s, d, bytes) ==
    /\ w \in [d .. Len(s) -> Seq(Nat)]
    /\ w[d] = bytes /\ w[Len(s)] = <<>>
    /\ \A i \in d + 1 .. Len(s) : w[i - 1] = Stream!vecEncode(s[i]) \o w[i]

(* Behind the first d frames there is one that no decoder takes, and none  *)
(* before it.                                                              *)
BadBehind(s, d) ==
    \E i \in d + 1 .. Len(s) : /\ ~Stream!Acceptable(s[i])
                               /\ \A j \in d + 1 .. i - 1 : Stream!Acceptable(s[j])

(* The loop on the way through these frames; z has not arrived yet.        *)
Follows(st, w, s, d, z) ==
    /\ ~st.failed => /\ d + Len(st.frames) <= Len(s)
                     /\ st.rest \o z = w[d + Len(st.frames)]
                     /\ st.frames = SubSeq(s, d + 1, d + Len(st.frames))
                     /\ \A i \in d + 1 .. d + Len(st.frames) : Stream!Acceptable(s[i])
    /\ st.failed => st.rest = <<>> /\ BadBehind(s, d)

(* A turn keeps to these frames.                                           *)
LEMMA TurnFollows ==
    ASSUME NEW s \in Seq(Payloads), NEW d \in 0 .. Len(s), NEW bytes, NEW w,
           Spells(w, s, d, bytes), NEW z \in Seq(Nat),
           NEW st \in LoopState, Follows(st, w, s, d, z)
    PROVE  Follows(Stream!Turn(st), w, s, d, z)
<1> DEFINE n == Stream!Number(st.rest)
           frame == Stream!resDecode(SubSeq(st.rest, 1, 2 + n))
           k == d + Len(st.frames)
           f == s[k + 1]
           e == Stream!vecEncode(f)
<1>1. /\ st.rest \in Seq(Nat) /\ st.frames \in Seq(DecodedFrame)
      /\ Len(st.rest) \in Nat /\ Len(st.frames) \in Nat /\ Len(s) \in Nat /\ d \in Nat
      /\ MaximumFrameLength \in Nat
    BY StreamFacts, LenProperties DEF LoopState
<1>2. CASE Stream!Turn(st) = st
    BY <1>2
<1>3. ASSUME ~st.failed, Len(st.rest) >= 2
      PROVE  /\ k \in Nat /\ k + 1 \in d + 1 .. Len(s)
             /\ f \in WrittenFrame /\ e \in Seq(Nat) /\ Len(e) = 2 + n
             /\ n = Stream!FrameLength(Stream!Payload(f))
             /\ n >= 1 /\ n \in Nat
             /\ w[k + 1] \in Seq(Nat)
             /\ Len(e) <= Len(st.rest) =>
                    /\ SubSeq(st.rest, 1, Len(e)) = e
                    /\ SubSeq(st.rest, Len(e) + 1, Len(st.rest)) \o z = w[k + 1]
  <2>1. k \in Nat /\ k <= Len(s) /\ st.rest \o z = w[k]
      BY <1>1, <1>3 DEF Follows
  <2>2. k # Len(s)
    <3>1. st.rest \o z # <<>>
      <4>1. Len(st.rest \o z) = Len(st.rest) + Len(z) /\ Len(z) \in Nat
          BY <1>1, Joined
      <4>2. Len(st.rest \o z) >= 2
          BY <1>1, <1>3, <4>1
      <4> QED BY <4>2, EmptySeq
    <3> QED BY <2>1, <3>1 DEF Spells
  <2>3. k + 1 \in d + 1 .. Len(s) /\ k + 1 \in 1 .. Len(s) /\ k + 1 \in d .. Len(s)
        /\ (k + 1) - 1 = k
      BY <1>1, <2>1, <2>2
  <2>4. f \in WrittenFrame
      BY <2>3, StreamFacts, LenProperties
  <2>5. w[k] = e \o w[k + 1] /\ w[k + 1] \in Seq(Nat)
      BY <2>3 DEF Spells
  <2>6. /\ e \in Seq(Nat) /\ Len(e) = 3 + Len(Stream!Payload(f))
        /\ Len(Stream!Payload(f)) \in Nat
        /\ Stream!Number(e) = 1 + Len(Stream!Payload(f))
        /\ Stream!FrameLength(Stream!Payload(f)) = 1 + Len(Stream!Payload(f))
      BY <2>4, EncodedFrame
  <2>7. Len(e) >= 2
      BY <2>6
  <2> DEFINE a == st.rest
             v == w[k + 1]
  <2>8. a \in Seq(Nat) /\ v \in Seq(Nat) /\ e \in Seq(Nat) /\ a \o z = e \o v
        /\ Len(a) >= 2 /\ Len(e) >= 2
      BY <1>1, <1>3, <2>1, <2>5, <2>6, <2>7
  <2> HIDE DEF a, v, e
  <2>9. /\ Stream!Number(a) = Stream!Number(e)
        /\ Len(e) <= Len(a) => /\ SubSeq(a, 1, Len(e)) = e
                               /\ SubSeq(a, Len(e) + 1, Len(a)) \o z = v
      BY <2>8, SameFront
  <2>10. n = 1 + Len(Stream!Payload(f))
      BY <2>6, <2>9 DEF a, e
  <2> HIDE DEF n
  <2>11. Len(e) = 2 + n /\ n >= 1 /\ n \in Nat
      BY <2>6, <2>10 DEF e
  <2> QED BY <2>1, <2>3, <2>4, <2>6, <2>8, <2>9, <2>10, <2>11 DEF a, v, e
<1>4. CASE /\ ~st.failed /\ Len(st.rest) >= 2
           /\ \/ n < 1 \/ n > MaximumFrameLength
              \/ Len(st.rest) >= 2 + n /\ frame = Stream!Error
           /\ Stream!Turn(st) = [rest |-> <<>>, frames |-> st.frames, failed |-> TRUE]
  <2>1. ~Stream!Acceptable(f)
    <3>1. CASE n < 1 \/ n > MaximumFrameLength
      <4>1. ~(Stream!FrameLength(Stream!Payload(f)) <= MaximumFrameLength)
        <5>1. n = Stream!FrameLength(Stream!Payload(f)) /\ n >= 1 /\ n \in Nat
            BY <1>3, <1>4
        <5> HIDE DEF n
        <5> QED BY <1>1, <3>1, <5>1
      <4> QED BY <4>1 DEF Stream!Acceptable
    <3>2. CASE Len(st.rest) >= 2 + n /\ frame = Stream!Error
      <4>1. Len(e) = 2 + n /\ f \in WrittenFrame /\ SubSeq(st.rest, 1, Len(e)) = e
        <5>1. Len(e) = 2 + n /\ f \in WrittenFrame /\ n \in Nat
              /\ (Len(e) <= Len(st.rest) => SubSeq(st.rest, 1, Len(e)) = e)
            BY <1>3, <1>4
        <5>2. Len(e) <= Len(st.rest)
          <6> HIDE DEF n, e
          <6> QED BY <1>1, <3>2, <5>1
        <5> QED BY <5>1, <5>2
      <4>2. Stream!resDecode(e) = Stream!Error
          BY <3>2, <4>1
      <4>3. f # Stream!Error
          BY <4>1, PayloadType
      <4> QED BY <4>2, <4>3 DEF Stream!Acceptable
    <3> QED BY <1>4, <3>1, <3>2
  <2>2. k + 1 \in d + 1 .. Len(s) /\ (k + 1) - 1 = k
    <3>1. k \in Nat /\ k + 1 \in d + 1 .. Len(s)
        BY <1>3, <1>4
    <3> QED BY <3>1
  <2>3. \A j \in d + 1 .. (k + 1) - 1 : Stream!Acceptable(s[j])
      BY <1>4, <2>2 DEF Follows
  <2>4. BadBehind(s, d)
      BY <2>1, <2>2, <2>3 DEF BadBehind
  <2>5. Stream!Turn(st).failed /\ Stream!Turn(st).rest = <<>>
      BY <1>4
  <2> QED BY <2>4, <2>5 DEF Follows
<1>5. CASE /\ ~st.failed /\ Len(st.rest) >= 2 + n /\ n \in 1 .. MaximumFrameLength
           /\ frame # Stream!Error
           /\ Stream!Turn(st) = [rest |-> SubSeq(st.rest, 2 + n + 1, Len(st.rest)),
                                 frames |-> Append(st.frames, frame), failed |-> FALSE]
  <2>1. Len(st.rest) >= 2
    <3> HIDE DEF n
    <3> QED BY <1>1, <1>5
  <2>2. /\ k \in Nat /\ k + 1 \in d + 1 .. Len(s) /\ f \in WrittenFrame
        /\ Len(e) = 2 + n /\ n = Stream!FrameLength(Stream!Payload(f))
        /\ Len(e) <= Len(st.rest) =>
               /\ SubSeq(st.rest, 1, Len(e)) = e
               /\ SubSeq(st.rest, Len(e) + 1, Len(st.rest)) \o z = w[k + 1]
      BY <1>3, <1>5, <2>1
  <2>3. Len(e) <= Len(st.rest)
    <3> HIDE DEF n, e
    <3> QED BY <1>1, <1>5, <2>2
  <2>4. frame = Stream!resDecode(e)
      BY <2>2, <2>3
  <2>5. frame = f
      BY <1>5, <2>2, <2>4, DecodesOrRefuses
  <2>6. Stream!Acceptable(f)
    <3>1. n <= MaximumFrameLength
      <4> HIDE DEF n
      <4> QED BY <1>1, <1>5
    <3> QED BY <2>2, <2>4, <2>5, <3>1 DEF Stream!Acceptable
  <2> DEFINE fs == Append(st.frames, frame)
             r == SubSeq(st.rest, 2 + n + 1, Len(st.rest))
  <2>7. Stream!Turn(st).rest = r /\ Stream!Turn(st).frames = fs /\ ~Stream!Turn(st).failed
    <3> HIDE DEF r, fs
    <3>1. Stream!Turn(st) = [rest |-> r, frames |-> fs, failed |-> FALSE]
        BY <1>5 DEF r, fs
    <3> QED BY <3>1
  <2>8. r \o z = w[k + 1]
    <3>1. 2 + n + 1 = Len(e) + 1
        BY <2>2
    <3> QED BY <2>2, <2>3, <3>1
  <2>9. Len(fs) = Len(st.frames) + 1
    <3>1. \E x \in Seq(DecodedFrame \cup {frame}) : x = st.frames
        BY <1>1
    <3> HIDE DEF frame
    <3> QED BY <3>1, AppendProperties
  <2>10. fs = SubSeq(s, d + 1, k + 1)
    <3>1. st.frames = SubSeq(s, d + 1, k)
        BY <1>5 DEF Follows
    <3>2. d + 1 \in 1 .. Len(s) /\ k + 1 \in d + 1 .. Len(s) /\ (k + 1) - 1 = k
        BY <1>1, <2>2
    <3>3. SubSeq(s, d + 1, k + 1) = SubSeq(s, d + 1, (k + 1) - 1) \o <<f>>
        BY <3>2, SubSeqRecursiveSecond
    <3>4. SubSeq(s, d + 1, k + 1) = st.frames \o <<f>>
        BY <3>1, <3>2, <3>3
    <3>5. fs = st.frames \o <<frame>>
      <4>1. st.frames \in Seq(DecodedFrame \cup {frame})
          BY <1>1
      <4> HIDE DEF frame
      <4> QED BY <4>1, AppendIsConcat
    <3> QED BY <2>5, <3>4, <3>5
  <2>11. d + Len(fs) = k + 1 /\ k + 1 <= Len(s)
      BY <1>1, <2>2, <2>9
  <2>12. \A i \in d + 1 .. k + 1 : Stream!Acceptable(s[i])
    <3>1. \A i \in d + 1 .. k : Stream!Acceptable(s[i])
        BY <1>5 DEF Follows
    <3> HIDE DEF f
    <3>2. Stream!Acceptable(s[k + 1])
        BY <2>6 DEF f
    <3> HIDE DEF k
    <3>3. \A i \in d + 1 .. k + 1 : i \in d + 1 .. k \/ i = k + 1
        BY <1>1, <2>2
    <3> QED BY <3>1, <3>2, <3>3
  <2> HIDE DEF fs, r, k, frame, n, f, e
  <2> QED BY <2>7, <2>8, <2>10, <2>11, <2>12 DEF Follows
<1>6. \/ Stream!Turn(st) = st
      \/ /\ ~st.failed /\ Len(st.rest) >= 2
         /\ \/ n < 1 \/ n > MaximumFrameLength
            \/ Len(st.rest) >= 2 + n /\ frame = Stream!Error
         /\ Stream!Turn(st) = [rest |-> <<>>, frames |-> st.frames, failed |-> TRUE]
      \/ /\ ~st.failed /\ Len(st.rest) >= 2 + n /\ n \in 1 .. MaximumFrameLength
         /\ frame # Stream!Error
         /\ Stream!Turn(st) = [rest |-> SubSeq(st.rest, 2 + n + 1, Len(st.rest)),
                               frames |-> Append(st.frames, frame),
                               failed |-> FALSE]
    BY TurnCases
<1> QED BY <1>2, <1>4, <1>5, <1>6

(* So does the whole loop.                                                 *)
LEMMA LoopFollows ==
    ASSUME NEW s \in Seq(Payloads), NEW d \in 0 .. Len(s), NEW bytes \in Seq(Nat),
           NEW z \in Seq(Nat), NEW w, Spells(w, s, d, bytes \o z)
    PROVE  Follows(Stream!Consumed(bytes), w, s, d, z)
<1> DEFINE a(t) == Stream!After(bytes, t)
           P == {t \in Nat : Follows(a(t), w, s, d, z)}
<1>1. /\ Len(bytes) \in Nat /\ a(0) = LoopStart(bytes)
      /\ \A t \in Nat : a(t) \in LoopState /\ a(t + 1) = Stream!Turn(a(t))
    BY LoopTurns, LenProperties
<1> HIDE DEF a
<1>2. 0 \in P
  <2>1. /\ a(0).rest = bytes /\ a(0).frames = <<>> /\ a(0).failed = FALSE
        /\ Len(<<>>) = 0 /\ d \in Nat /\ d <= Len(s) /\ d + 0 = d
      BY <1>1, EmptySeq, LenProperties DEF LoopStart
  <2>2. bytes \o z = w[d]
      BY DEF Spells
  <2>3. <<>> = SubSeq(s, d + 1, d)
      BY <2>1, SubSeqEmpty
  <2>4. \A i \in d + 1 .. d : FALSE
      BY <2>1
  <2>5. Follows(a(0), w, s, d, z)
      BY <2>1, <2>2, <2>3, <2>4 DEF Follows
  <2> QED BY <2>5
<1>3. ASSUME NEW t \in P PROVE t + 1 \in P
  <2>1. /\ t \in Nat /\ t + 1 \in Nat /\ a(t) \in LoopState /\ a(t + 1) = Stream!Turn(a(t))
        /\ Follows(a(t), w, s, d, z)
      BY <1>1
  <2>2. Follows(a(t + 1), w, s, d, z)
    <3> DEFINE both == bytes \o z
    <3>1. Spells(w, s, d, both)
        OBVIOUS
    <3> HIDE DEF both
    <3> QED BY <2>1, <3>1, TurnFollows
  <2> QED BY <2>1, <2>2
<1>4. P = Nat
  <2> HIDE DEF P
  <2>1. P \in SUBSET Nat
      BY DEF P
  <2> QED BY <1>2, <1>3, <2>1, Induction
<1> QED BY <1>1, <1>4 DEF a, Stream!Consumed

(* The invariant: the frames handled are the first of those sent, and all  *)
(* acceptable; on an open connection the bytes held and under way spell    *)
(* the rest, and the decoder waits; a connection breaks at a bad frame.    *)
StreamInv ==
    /\ sent \in Seq(Payloads) /\ pipe \in Seq(Nat) /\ pending \in Seq(Nat)
    /\ open \in BOOLEAN
    /\ Len(delivered) \in 0 .. Len(sent)
    /\ delivered = SubSeq(sent, 1, Len(delivered))
    /\ \A i \in 1 .. Len(delivered) : Stream!Acceptable(sent[i])
    /\ open => /\ Waits(pending)
               /\ \E w : Spells(w, sent, Len(delivered), pending \o pipe)
    /\ ~open => pending = <<>> /\ pipe = <<>> /\ BadBehind(sent, Len(delivered))

(* A frame more is spelt by its bytes behind the others.                   *)
LEMMA SpellsOneMore ==
    ASSUME NEW s \in Seq(Payloads), NEW d \in 0 .. Len(s), NEW bytes \in Seq(Nat), NEW w,
           Spells(w, s, d, bytes), NEW f \in Payloads
    PROVE  \E v : Spells(v, Append(s, f), d, bytes \o Stream!vecEncode(f))
<1> DEFINE e == Stream!vecEncode(f)
           t == Append(s, f)
           v == [i \in d .. Len(s) + 1 |-> IF i <= Len(s) THEN w[i] \o e ELSE <<>>]
<1>1. /\ Len(s) \in Nat /\ d \in Nat /\ d <= Len(s) /\ Len(t) = Len(s) + 1
      /\ t[Len(s) + 1] = f /\ \A i \in 1 .. Len(s) : t[i] = s[i]
    BY LenProperties, AppendProperties
<1>2. f \in WrittenFrame /\ e \in Seq(Nat)
    BY StreamFacts, EncodedFrame
<1>3. /\ w \in [d .. Len(s) -> Seq(Nat)] /\ w[d] = bytes /\ w[Len(s)] = <<>>
      /\ \A i \in d + 1 .. Len(s) : w[i - 1] = Stream!vecEncode(s[i]) \o w[i]
    BY DEF Spells
<1> HIDE DEF e, t
<1>4. \A i \in d .. Len(s) : w[i] \in Seq(Nat) /\ w[i] \o e \in Seq(Nat)
    BY <1>2, <1>3, ConcatProperties
<1>5. v \in [d .. Len(t) -> Seq(Nat)]
    BY <1>1, <1>4, EmptySeq
<1>6. v[d] = bytes \o e /\ v[Len(t)] = <<>>
    BY <1>1, <1>3
<1>7. ASSUME NEW i \in d + 1 .. Len(t)
      PROVE  v[i - 1] = Stream!vecEncode(t[i]) \o v[i]
  <2>1. i \in Int /\ i - 1 \in d .. Len(s) /\ v[i - 1] = w[i - 1] \o e
      BY <1>1
  <2>2. CASE i <= Len(s)
    <3>1. i \in d + 1 .. Len(s) /\ i \in 1 .. Len(s) /\ i \in d .. Len(s) /\ v[i] = w[i] \o e
        BY <1>1, <2>1, <2>2
    <3> DEFINE x == Stream!vecEncode(s[i])
    <3>2. s[i] \in WrittenFrame
        BY <3>1, StreamFacts, LenProperties
    <3>3. x \in Seq(Nat) /\ w[i - 1] = x \o w[i] /\ t[i] = s[i] /\ w[i] \in Seq(Nat)
        BY <1>1, <1>3, <1>4, <3>1, <3>2, EncodedFrame
    <3> HIDE DEF x, v
    <3>4. (x \o w[i]) \o e = x \o (w[i] \o e)
        BY <1>2, <3>3, Associative
    <3> QED BY <2>1, <3>1, <3>3, <3>4 DEF x
  <2>3. CASE ~(i <= Len(s))
    <3>1. i = Len(s) + 1
        BY <1>1, <2>3
    <3>2. v[i] = <<>> /\ t[i] = f /\ w[i - 1] = <<>>
        BY <1>1, <1>3, <3>1
    <3>3. <<>> \o e = e /\ e \o <<>> = e
        BY <1>2, ConcatEmptySeq
    <3> HIDE DEF v
    <3> QED BY <2>1, <3>2, <3>3 DEF e
  <2> QED BY <2>2, <2>3
<1> HIDE DEF v
<1>8. Spells(v, t, d, bytes \o e)
    BY <1>5, <1>6, <1>7 DEF Spells
<1> QED BY <1>8 DEF e, t

(* Writing leaves what was handled as it was.                              *)
LEMMA SamePrefix ==
    ASSUME NEW S, NEW s \in Seq(S), NEW f \in S, NEW d \in 0 .. Len(s)
    PROVE  /\ SubSeq(Append(s, f), 1, d) = SubSeq(s, 1, d)
           /\ d \in 0 .. Len(Append(s, f))
           /\ \A i \in 1 .. d : Append(s, f)[i] = s[i]
<1> DEFINE t == Append(s, f)
           a == SubSeq(t, 1, d)
           b == SubSeq(s, 1, d)
<1>1. /\ t \in Seq(S) /\ Len(t) = Len(s) + 1 /\ Len(s) \in Nat
      /\ \A i \in 1 .. Len(s) : t[i] = s[i]
    BY LenProperties, AppendProperties
<1> HIDE DEF t
<1>2. d \in 0 .. Len(t) /\ \A i \in 1 .. d : t[i] = s[i]
    BY <1>1
<1>3. a \in Seq(S) /\ Len(a) = d /\ \A i \in 1 .. d : a[i] = t[i]
    BY <1>1, <1>2, Cut
<1>4. b \in Seq(S) /\ Len(b) = d /\ \A i \in 1 .. d : b[i] = s[i]
    BY Cut
<1> HIDE DEF a, b
<1>5. a = b
    BY <1>2, <1>3, <1>4, SeqEqual
<1> QED BY <1>2, <1>5 DEF t, a, b

(* What was handled and what comes next, together.                         *)
LEMMA LongerPrefix ==
    ASSUME NEW S, NEW s \in Seq(S), NEW d \in 0 .. Len(s), NEW k \in d .. Len(s)
    PROVE  SubSeq(s, 1, d) \o SubSeq(s, d + 1, k) = SubSeq(s, 1, k)
<1>1. 1 \in 1 .. Len(s) + 1 /\ d \in 1 - 1 .. Len(s) /\ k \in d .. Len(s)
    BY LenProperties
<1> QED BY <1>1, ConcatAdjacentSubSeq

(* Writing a frame keeps the invariant.                                    *)
LEMMA WriteKeeps ==
    ASSUME StreamInv, NEW f \in Payloads, Stream!Write(f)
    PROVE  StreamInv'
<1> DEFINE e == Stream!vecEncode(f)
           d == Len(delivered)
<1>1. /\ open /\ sent' = Append(sent, f) /\ pipe' = pipe \o e
      /\ UNCHANGED <<pending, delivered, open>>
    BY DEF Stream!Write
<1>2. /\ sent \in Seq(Payloads) /\ pipe \in Seq(Nat) /\ pending \in Seq(Nat)
      /\ d \in 0 .. Len(sent) /\ delivered = SubSeq(sent, 1, d)
      /\ \A i \in 1 .. d : Stream!Acceptable(sent[i])
      /\ Waits(pending)
    BY <1>1 DEF StreamInv
<1>3. e \in Seq(Nat)
    BY StreamFacts, EncodedFrame
<1> HIDE DEF e
<1>4. sent' \in Seq(Payloads)
    BY <1>1, <1>2, AppendProperties
<1>5. pipe' \in Seq(Nat) /\ pending \o pipe \in Seq(Nat)
    BY <1>1, <1>2, <1>3, ConcatProperties
<1>6. /\ SubSeq(sent', 1, d) = delivered /\ d \in 0 .. Len(sent')
      /\ \A i \in 1 .. d : Stream!Acceptable(sent'[i])
  <2>1. /\ SubSeq(sent', 1, d) = SubSeq(sent, 1, d) /\ d \in 0 .. Len(sent')
        /\ \A i \in 1 .. d : sent'[i] = sent[i]
      BY <1>1, <1>2, SamePrefix
  <2> QED BY <1>2, <2>1
<1>7. \E v : Spells(v, sent', d, pending \o pipe')
  <2>1. PICK w : Spells(w, sent, d, pending \o pipe)
      BY <1>1 DEF StreamInv
  <2> DEFINE b == pending \o pipe
  <2>2. b \in Seq(Nat) /\ Spells(w, sent, d, b)
      BY <1>5, <2>1
  <2> HIDE DEF b, d
  <2>3. \E v : Spells(v, Append(sent, f), d, b \o e)
      BY <1>2, <2>2, SpellsOneMore DEF e
  <2>4. b \o e = pending \o (pipe \o e)
      BY <1>2, <1>3, Associative DEF b
  <2> QED BY <1>1, <2>3, <2>4
<1> QED BY <1>1, <1>2, <1>4, <1>5, <1>6, <1>7 DEF StreamInv

(* Reading keeps it: what was handled before, and the frames of the batch. *)
LEMMA ReadKeeps ==
    ASSUME StreamInv, NEW n \in 1 .. Len(pipe), Stream!Read(n)
    PROVE  /\ StreamInv'
           /\ sent' = sent /\ open
           /\ \E k \in Len(delivered) .. Len(sent) : delivered' = SubSeq(sent, 1, k)
<1> DEFINE d == Len(delivered)
           x == SubSeq(pipe, 1, n)
           z == SubSeq(pipe, n + 1, Len(pipe))
           bytes == pending \o x
           got == Stream!Consumed(bytes)
<1>1. /\ open /\ pipe' = (IF got.failed THEN <<>> ELSE z) /\ pending' = got.rest
      /\ delivered' = (IF got.failed THEN delivered ELSE delivered \o got.frames)
      /\ open' = ~got.failed /\ sent' = sent
    BY DEF Stream!Read
<1>2. /\ sent \in Seq(Payloads) /\ pipe \in Seq(Nat) /\ pending \in Seq(Nat)
      /\ d \in 0 .. Len(sent) /\ delivered = SubSeq(sent, 1, d)
      /\ \A i \in 1 .. d : Stream!Acceptable(sent[i])
    BY DEF StreamInv
<1>3. PICK w : Spells(w, sent, d, pending \o pipe)
    BY <1>1 DEF StreamInv
<1>4. x \in Seq(Nat) /\ z \in Seq(Nat) /\ x \o z = pipe
  <2>1. n \in 0 .. Len(pipe)
      BY <1>2, LenProperties
  <2> QED BY <1>2, <2>1, Cut
<1> HIDE DEF x, z
<1>5. bytes \in Seq(Nat)
    BY <1>2, <1>4, ConcatProperties
<1>6. bytes \o z = pending \o pipe
    BY <1>2, <1>4, Associative
<1> HIDE DEF bytes, d
<1>7. /\ got \in LoopState /\ (got.failed \/ Waits(got.rest))
      /\ Follows(got, w, sent, d, z)
  <2>1. Spells(w, sent, d, bytes \o z)
      BY <1>3, <1>6
  <2>2. Follows(got, w, sent, d, z)
      BY <1>2, <1>4, <1>5, <2>1, LoopFollows
  <2> QED BY <1>5, <2>2, LoopEnds
<1> HIDE DEF got
<1>8. /\ got.rest \in Seq(Nat) /\ got.failed \in BOOLEAN /\ Len(got.frames) \in Nat
      /\ Len(sent) \in Nat /\ d \in Nat /\ d <= Len(sent)
    BY <1>2, <1>7, LenProperties DEF LoopState
<1>9. CASE got.failed
  <2>1. /\ pipe' = <<>> /\ pending' = <<>> /\ delivered' = delivered /\ open' = FALSE
        /\ BadBehind(sent, d)
      BY <1>1, <1>7, <1>9 DEF Follows
  <2>2. StreamInv'
      BY <1>1, <1>2, <2>1, EmptySeq DEF StreamInv, d
  <2>3. d \in Len(delivered) .. Len(sent) /\ delivered' = SubSeq(sent, 1, d)
      BY <1>2, <1>8, <2>1 DEF d
  <2> QED BY <1>1, <2>2, <2>3
<1>10. CASE ~got.failed
  <2> DEFINE k == d + Len(got.frames)
  <2>1. /\ pipe' = z /\ pending' = got.rest /\ open' = TRUE
        /\ delivered' = delivered \o got.frames
        /\ k <= Len(sent) /\ got.rest \o z = w[k] /\ got.frames = SubSeq(sent, d + 1, k)
        /\ \A i \in d + 1 .. k : Stream!Acceptable(sent[i])
        /\ Waits(got.rest)
      BY <1>1, <1>7, <1>10 DEF Follows
  <2>2. k \in d .. Len(sent) /\ k \in 0 .. Len(sent)
      BY <1>8, <2>1
  <2>3. delivered' = SubSeq(sent, 1, k)
      BY <1>2, <2>1, <2>2, LongerPrefix
  <2> HIDE DEF k
  <2>4. Len(delivered') = k
      BY <1>2, <2>2, <2>3, Cut
  <2>5. \A i \in 1 .. k : Stream!Acceptable(sent[i])
    <3> TAKE i \in 1 .. k
    <3>1. i \in 1 .. d \/ i \in d + 1 .. k
        BY <1>8, <2>2
    <3> QED BY <1>2, <2>1, <3>1
  <2>6. Spells([i \in k .. Len(sent) |-> w[i]], sent, k, got.rest \o z)
    <3> DEFINE v == [i \in k .. Len(sent) |-> w[i]]
    <3>1. /\ w \in [d .. Len(sent) -> Seq(Nat)] /\ w[Len(sent)] = <<>>
          /\ \A i \in d + 1 .. Len(sent) : w[i - 1] = Stream!vecEncode(sent[i]) \o w[i]
        BY <1>3 DEF Spells
    <3>2. \A i \in k .. Len(sent) : i \in d .. Len(sent)
        BY <1>8, <2>2
    <3>3. v \in [k .. Len(sent) -> Seq(Nat)]
        BY <3>1, <3>2
    <3>4. k \in k .. Len(sent) /\ Len(sent) \in k .. Len(sent)
        BY <1>8, <2>2
    <3>5. v[k] = got.rest \o z /\ v[Len(sent)] = <<>>
        BY <2>1, <3>1, <3>4
    <3>6. ASSUME NEW i \in k + 1 .. Len(sent)
          PROVE  v[i - 1] = Stream!vecEncode(sent[i]) \o v[i]
      <4>1. i \in k .. Len(sent) /\ i - 1 \in k .. Len(sent) /\ i \in d + 1 .. Len(sent)
          BY <1>8, <2>2
      <4>2. v[i] = w[i] /\ v[i - 1] = w[i - 1]
          BY <4>1
      <4> HIDE DEF v
      <4> QED BY <3>1, <4>1, <4>2
    <3> HIDE DEF v
    <3>7. Spells(v, sent, k, got.rest \o z)
        BY <3>3, <3>5, <3>6 DEF Spells
    <3> QED BY <3>7 DEF v
  <2>7. \E v : Spells(v, sent', Len(delivered'), pending' \o pipe')
      BY <1>1, <2>1, <2>4, <2>6
  <2>8. StreamInv'
      BY <1>1, <1>2, <1>4, <1>8, <2>1, <2>2, <2>3, <2>4, <2>5, <2>7 DEF StreamInv
  <2> QED BY <1>1, <2>2, <2>3, <2>8 DEF d
<1> QED BY <1>8, <1>9, <1>10

(* What a step of MCNext does to the variables of the connection.          *)
LEMMA StreamStep ==
    ASSUME [MCNext]_allVars
    PROVE  \/ UNCHANGED streamVars
           \/ \E f \in Payloads : Stream!Write(f)
           \/ \E n \in 1 .. Len(pipe) : Stream!Read(n)
BY DEF MCNext, allVars, streamVars, Stream!Next

(* StreamInv holds from the start, and writing and reading keep it.        *)
LEMMA StreamInductive ==
    /\ MCInit => StreamInv
    /\ StreamInv /\ [MCNext]_allVars => StreamInv'
<1>1. ASSUME MCInit PROVE StreamInv
  <2>1. sent = <<>> /\ pipe = <<>> /\ pending = <<>> /\ delivered = <<>> /\ open = TRUE
      BY <1>1 DEF MCInit, Stream!Init
  <2>2. <<>> \in Seq(Payloads) /\ <<>> \in Seq(Nat) /\ Len(<<>>) = 0
      BY EmptySeq
  <2>3. <<>> = SubSeq(<<>>, 1, 0)
      BY SubSeqEmpty
  <2>4. \A i \in 1 .. 0 : FALSE
      OBVIOUS
  <2>5. <<>> \o <<>> = <<>>
      BY <2>2, ConcatEmptySeq
  <2>6. Spells([i \in 0 .. 0 |-> <<>>], <<>>, 0, <<>>)
      BY <2>2 DEF Spells
  <2>7. Waits(<<>>)
      BY <2>2 DEF Waits
  <2> QED BY <2>1, <2>2, <2>3, <2>4, <2>5, <2>6, <2>7 DEF StreamInv
<1>2. ASSUME StreamInv, [MCNext]_allVars PROVE StreamInv'
  <2>1. CASE UNCHANGED streamVars
    <3>1. UNCHANGED <<sent, pipe, pending, delivered, open>>
        BY <2>1 DEF streamVars
    <3> QED BY <1>2, <3>1 DEF StreamInv
  <2>2. CASE \E f \in Payloads : Stream!Write(f)
      BY <1>2, <2>2, WriteKeeps
  <2>3. CASE \E n \in 1 .. Len(pipe) : Stream!Read(n)
      BY <1>2, <2>3, ReadKeeps
  <2> QED BY <1>2, <2>1, <2>2, <2>3, StreamStep
<1> QED BY <1>1, <1>2

(* However TCP cuts the bytes and whatever frames are written, good or bad: *)
(* the receiver handles the frames in the order they were sent, each once  *)
(* and unchanged, until the connection is closed (batConsume, resDecode).  *)
THEOREM ChannelOfFrames == MCSpec => FramesInOrder
<1>1. MCInit => Stream!Channel!Init
    BY DEF MCInit, Stream!Init, Stream!Channel!Init
<1>2. StreamInv /\ [MCNext]_allVars => [Stream!Channel!Next]_<<sent, delivered, open>>
  <2> SUFFICES ASSUME StreamInv, [MCNext]_allVars
               PROVE  [Stream!Channel!Next]_<<sent, delivered, open>>
      OBVIOUS
  <2>1. CASE UNCHANGED streamVars
      BY <2>1 DEF streamVars
  <2>2. CASE \E f \in Payloads : Stream!Write(f)
      BY <2>2 DEF Stream!Write, Stream!Channel!Next, Stream!Channel!Send
  <2>3. CASE \E n \in 1 .. Len(pipe) : Stream!Read(n)
    <3>1. /\ sent' = sent /\ open /\ open' \in BOOLEAN
          /\ \E k \in Len(delivered) .. Len(sent) : delivered' = SubSeq(sent, 1, k)
        BY <2>3, ReadKeeps DEF StreamInv
    <3>2. CASE open'
        BY <3>1, <3>2 DEF Stream!Channel!Next, Stream!Channel!Deliver
    <3>3. CASE ~open'
        BY <3>1, <3>3 DEF Stream!Channel!Next, Stream!Channel!Close
    <3> QED BY <3>2, <3>3
  <2> QED BY <2>1, <2>2, <2>3, StreamStep
<1> QED BY <1>1, <1>2, StreamInductive, PTL
        DEF MCSpec, FramesInOrder, Stream!FramesInOrder, Stream!Channel!Spec

(* A decoder that waits holds less than the largest frame.                 *)
LEMMA WaitingIsShort ==
    ASSUME NEW bytes \in Seq(Nat), Waits(bytes)
    PROVE  Len(bytes) < 2 + MaximumFrameLength
<1>1. Len(bytes) \in Nat /\ MaximumFrameLength \in Nat /\ 1 <= MaximumFrameLength
    BY StreamFacts, LenProperties
<1>2. CASE Len(bytes) < 2
    BY <1>1, <1>2
<1>3. CASE /\ Stream!Number(bytes) \in 1 .. MaximumFrameLength
           /\ Len(bytes) < 2 + Stream!Number(bytes)
    BY <1>1, <1>3
<1> QED BY <1>2, <1>3 DEF Waits

(* A decoder that waits with nothing under way has handled every frame.    *)
LEMMA WaitingAtTheEnd ==
    ASSUME NEW s \in Seq(Payloads), NEW d \in 0 .. Len(s), NEW bytes \in Seq(Nat),
           NEW w, Spells(w, s, d, bytes), Waits(bytes)
    PROVE  d = Len(s) /\ bytes = <<>>
<1>1. /\ Len(s) \in Nat /\ d \in Nat /\ d <= Len(s) /\ Len(bytes) \in Nat
    BY LenProperties
<1>2. /\ w \in [d .. Len(s) -> Seq(Nat)] /\ w[d] = bytes /\ w[Len(s)] = <<>>
      /\ \A i \in d + 1 .. Len(s) : w[i - 1] = Stream!vecEncode(s[i]) \o w[i]
    BY DEF Spells
<1>3. ASSUME d # Len(s) PROVE FALSE
  <2> DEFINE f == s[d + 1]
             e == Stream!vecEncode(f)
             v == w[d + 1]
             p == Stream!Payload(f)
  <2>1. d + 1 \in 1 .. Len(s) /\ d + 1 \in d + 1 .. Len(s) /\ d + 1 \in d .. Len(s)
      BY <1>1, <1>3
  <2>2. f \in WrittenFrame /\ v \in Seq(Nat) /\ w[(d + 1) - 1] = e \o v
      BY <1>2, <2>1, StreamFacts, LenProperties
  <2>3. (d + 1) - 1 = d
      BY <1>1
  <2>4. bytes = e \o v
      BY <1>2, <2>2, <2>3
  <2>5. /\ e \in Seq(Nat) /\ Len(p) \in Nat /\ Len(e) = 3 + Len(p)
        /\ Stream!Number(e) = 1 + Len(p)
      BY <2>2, EncodedFrame
  <2> HIDE DEF e, v, f, p
  <2>6. Len(bytes) = Len(e) + Len(v) /\ Len(v) \in Nat
      BY <2>2, <2>4, <2>5, Joined, ZenonT(30)
  <2>7. Stream!Number(bytes) = Stream!Number(e)
    <3>1. 1 \in 1 .. Len(e) /\ 2 \in 1 .. Len(e)
        BY <2>5
    <3>2. bytes[1] = e[1] /\ bytes[2] = e[2]
        BY <2>2, <2>4, <2>5, <3>1, First
    <3> QED BY <3>2 DEF Stream!Number
  <2> QED BY <1>1, <2>5, <2>6, <2>7 DEF Waits
<1>4. d = Len(s)
    BY <1>3
<1> QED BY <1>2, <1>4

(* A connection holds no frame back and breaks only at a bad one.          *)
LEMMA StreamSound ==
    ASSUME StreamInv
    PROVE  Stream!NothingHeldBack /\ Stream!BreaksAtBadFrame
<1> DEFINE d == Len(delivered)
<1>1. /\ sent \in Seq(Payloads) /\ pipe \in Seq(Nat) /\ pending \in Seq(Nat)
      /\ open \in BOOLEAN /\ d \in 0 .. Len(sent) /\ delivered = SubSeq(sent, 1, d)
      /\ \A i \in 1 .. d : Stream!Acceptable(sent[i])
      /\ Len(sent) \in Nat /\ d \in Nat /\ MaximumFrameLength \in Nat
    BY StreamFacts, LenProperties DEF StreamInv
<1>2. Len(pending) < 2 + MaximumFrameLength
  <2>1. CASE open
      BY <1>1, <2>1, WaitingIsShort DEF StreamInv
  <2>2. CASE ~open
    <3>1. pending = <<>>
        BY <2>2 DEF StreamInv
    <3> QED BY <1>1, <3>1, EmptySeq
  <2> QED BY <2>1, <2>2
<1>3. ASSUME pipe = <<>>, open
      PROVE  delivered = sent /\ pending = <<>>
  <2>1. PICK w : Spells(w, sent, d, pending \o pipe)
      BY <1>3 DEF StreamInv
  <2>2. pending \o pipe = pending
      BY <1>1, <1>3, ConcatEmptySeq
  <2>3. Waits(pending)
      BY <1>3 DEF StreamInv
  <2>4. d \in 0 .. Len(sent) /\ Spells(w, sent, d, pending)
      BY <1>1, <2>1, <2>2
  <2> HIDE DEF d
  <2>5. d = Len(sent) /\ pending = <<>>
      BY <1>1, <2>3, <2>4, WaitingAtTheEnd
  <2>6. SubSeq(sent, 1, Len(sent)) = sent
      BY <1>1, SubSeqFull
  <2> QED BY <1>1, <2>5, <2>6
<1>4. Stream!BreaksAtBadFrame
  <2> SUFFICES ASSUME ~open PROVE \E i \in d + 1 .. Len(sent) :
                   /\ ~Stream!Acceptable(sent[i])
                   /\ \A j \in 1 .. i - 1 : Stream!Acceptable(sent[j])
      BY DEF Stream!BreaksAtBadFrame
  <2>1. PICK i \in d + 1 .. Len(sent) :
            /\ ~Stream!Acceptable(sent[i])
            /\ \A j \in d + 1 .. i - 1 : Stream!Acceptable(sent[j])
      BY DEF StreamInv, BadBehind
  <2> HIDE DEF d
  <2>2. \A j \in 1 .. i - 1 : j \in 1 .. d \/ j \in d + 1 .. i - 1
      BY <1>1
  <2> QED BY <1>1, <2>1, <2>2
<1> QED BY <1>2, <1>3, <1>4 DEF Stream!NothingHeldBack, Stream!PrefixSize

(* A packet has one datagram and a datagram one packet, whatever the round *)
(* and however often the bytes or the header were damaged on the way, and  *)
(* the plan of every round can be encoded (vecEncode, resDecode and        *)
(* buildDatagrams against the trusted context).  A decoder of frames holds *)
(* no whole frame back however TCP cuts the bytes, and a connection breaks *)
(* only at a frame no decoder takes (batConsume).                          *)
THEOREM BytesRead == MCSpec => []BytesMeet
<1>1. DatagramInv /\ StreamInv => BytesMeet
    BY DatagramSound, StreamSound DEF BytesMeet
<1> QED BY <1>1, DatagramInductive, StreamInductive, PTL DEF MCSpec

-----------------------------------------------------------------------------
(* THE IMPROVED RECEIVER (ImprovedReceiver).                               *)

(* The operators of the matrix are those of the group part. *)
LEMMA SameMatrix ==
    \A s, t : Improved!Matrix(s, t) = Matrix(s, t) /\ Improved!Candidates(s, t) = Candidates(s, t)
<1>1. \A q, k : Improved!Capacity(q, k) = Capacity(q, k)
    BY DEF Improved!Capacity, Capacity
<1>2. \A n : Improved!IsPrime(n) <=> IsPrime(n)
    BY DEF Improved!IsPrime, IsPrime
<1>3. \A s, q : Improved!MinExponent(s, q) = MinExponent(s, q)
    BY <1>1 DEF Improved!MinExponent, MinExponent, Improved!Suffices, Suffices, MaxMessageLength, Improved!MaxMessageLength
<1>4. \A s, t, q : Improved!Candidate(s, t, q) = Candidate(s, t, q)
    BY <1>3 DEF Improved!Candidate, Candidate
<1>5. \A s, t : Improved!Candidates(s, t) = Candidates(s, t)
    BY <1>2, <1>4 DEF Improved!Candidates, Candidates
<1> QED BY <1>5 DEF Improved!Matrix, Matrix, Improved!RowCount, RowCount

(* So is the number of elements of a set. *)
LEMMA SameCardinality == \A S : Improved!Cardinality(S) = Cardinality(S)
BY DEF Improved!Cardinality, Cardinality

(* So are those of the verifier. *)
LEMMA SameVerification ==
    \A m, slots, rows : Improved!Verification(m, slots, rows) = Verification(m, slots, rows)
<1>1. \A m, c, j : Improved!Remaining(m, c, j) = Remaining(m, c, j)
    BY DEF Improved!Remaining, Remaining
<1>2. \A m, c, j : Improved!Coefficient(m, c, j) = Coefficient(m, c, j)
    BY <1>1 DEF Improved!Coefficient, Coefficient
<1>3. \A m, c, j : Improved!Power(m, c, j) = Power(m, c, j)
    BY DEF Improved!Power, Power
<1>4. \A m, c, x, n : Improved!SymbolAfter(m, c, x, n) = SymbolAfter(m, c, x, n)
    BY <1>2, <1>3 DEF Improved!SymbolAfter, SymbolAfter
<1>5. \A m, c, x : Improved!Symbol(m, c, x) = Symbol(m, c, x)
    BY <1>4 DEF Improved!Symbol, Symbol
<1>6. \A slots : Improved!Damaged(slots) = Damaged(slots)
    BY DEF Improved!Damaged, Damaged, Improved!Genuine, Genuine
<1>7. \A m, row, columns, rows :
          Improved!RowMatches(m, row, columns, rows) <=> RowMatches(m, row, columns, rows)
    BY <1>5 DEF Improved!RowMatches, RowMatches, Improved!Contains, Contains
<1>8. \A m : Improved!Points(m) = Points(m)
    BY DEF Improved!Points, Points
<1>9. \A m, slots, rows : Improved!GoodPositions(m, slots, rows) = GoodPositions(m, slots, rows)
  <2> TAKE m, slots, rows
  <2> QED BY <1>5, <1>6, <1>7, <1>8, Zenon DEF Improved!GoodPositions, GoodPositions
<1> QED BY <1>9, SameCardinality DEF Improved!Verification, Verification

(* The constants of the improved round.                                    *)
LEMMA ImprovedFacts ==
    /\ PacketTotal \in Nat \ {0} /\ GroupSize \in Nat \ {0}
    /\ DetectionThreshold \in Nat /\ Candidates(GroupSize, DetectionThreshold) # {}
    /\ PacketsPerInterval \in Nat \ {0} /\ DisclosureDelay \in Nat \ {0}
BY FormatsAssumption, SameMatrix DEF Improved!ImprovedAssumption

(* Quotient and remainder of natural numbers.                              *)
LEMMA Quotients ==
    \A a \in Nat : \A b \in Nat \ {0} :
        \E x \in Nat : \E r \in 0 .. b - 1 : a \div b = x /\ a % b = r /\ a = b * x + r
<1> TAKE a \in Nat
<1> TAKE b \in Nat \ {0}
<1>1. a \in Int
    OBVIOUS
<1>2. a \div b \in Nat
    BY <1>1, Division
<1>3. a % b \in 0 .. b - 1
    BY <1>1, Division
<1>4. a = b * (a \div b) + (a % b)
    BY <1>1, Division
<1> QED BY <1>2, <1>3, <1>4

(* A larger dividend has no smaller quotient.                              *)
LEMMA QuotientGrows ==
    ASSUME NEW a \in Nat, NEW b \in Nat, a <= b, NEW k \in Nat \ {0}
    PROVE  a \div k <= b \div k
<1> DEFINE x == a \div k
           y == b \div k
<1>1. /\ x \in Nat /\ a % k \in 0 .. k - 1 /\ a = k * x + (a % k)
      /\ y \in Nat /\ b % k \in 0 .. k - 1 /\ b = k * y + (b % k)
    BY Division
<1>2. ASSUME y < x PROVE FALSE
  <2> DEFINE z == x - (y + 1)
  <2>1. z \in Nat /\ x = (y + 1) + z
      BY <1>1, <1>2
  <2> HIDE DEF x, y, z
  <2>2. k * x = k * y + k + k * z
      BY <1>1, <2>1
  <2>3. k * z \in Nat /\ k * y \in Nat /\ k * x \in Nat
      BY <1>1, <2>1
  <2> QED BY <1>1, <2>2, <2>3
<1> HIDE DEF x, y
<1>3. x <= y
    BY <1>1, <1>2
<1> QED BY <1>3 DEF x, y

(* The packets of a round are sent interval by interval.                   *)
LEMMA IntervalsOfPackets ==
    /\ Improved!Intervals \in Nat \ {0}
    /\ \A p \in Improved!Packets : Improved!IntervalOfPacket(p) \in 1 .. Improved!Intervals
    /\ \A p, q \in Improved!Packets :
           p <= q => Improved!IntervalOfPacket(p) <= Improved!IntervalOfPacket(q)
<1>1. \A p, q \in Improved!Packets :
          p <= q => Improved!IntervalOfPacket(p) <= Improved!IntervalOfPacket(q)
  <2> TAKE p, q \in Improved!Packets
  <2> HAVE p <= q
  <2> DEFINE a == (p - 1) \div PacketsPerInterval
             b == (q - 1) \div PacketsPerInterval
  <2>1. p - 1 \in Nat /\ q - 1 \in Nat /\ p - 1 <= q - 1 /\ PacketsPerInterval \in Nat \ {0}
      BY ImprovedFacts DEF Improved!Packets
  <2>2. a <= b
      BY <2>1, QuotientGrows
  <2>3. a \in Nat
    <3>1. p - 1 \in Nat /\ PacketsPerInterval \in Nat \ {0}
        BY <2>1
    <3> QED BY <3>1, Division
  <2>b. b \in Nat
    <3>1. q - 1 \in Nat /\ PacketsPerInterval \in Nat \ {0}
        BY <2>1
    <3> QED BY <3>1, Division
  <2> HIDE DEF a, b
  <2>4. a + 1 <= b + 1
      BY <2>2, <2>3, <2>b
  <2> QED BY <2>4 DEF a, b, Improved!IntervalOfPacket
<1>2. \A p \in Improved!Packets : Improved!IntervalOfPacket(p) \in Nat \ {0}
  <2> TAKE p \in Improved!Packets
  <2> DEFINE a == (p - 1) \div PacketsPerInterval
  <2>1. p - 1 \in Nat /\ PacketsPerInterval \in Nat \ {0}
      BY ImprovedFacts DEF Improved!Packets
  <2>2. a \in Nat
      BY <2>1, Division
  <2> HIDE DEF a
  <2>3. a + 1 \in Nat \ {0}
      BY <2>2
  <2> QED BY <2>3 DEF a, Improved!IntervalOfPacket
<1>3. Improved!Intervals = Improved!IntervalOfPacket(PacketTotal)
    BY DEF Improved!Intervals, Improved!DataIntervalCount, Improved!IntervalOfPacket
<1>4. PacketTotal \in Improved!Packets /\ \A p \in Improved!Packets : p <= PacketTotal
    BY ImprovedFacts DEF Improved!Packets
<1> QED BY <1>1, <1>2, <1>3, <1>4

(* A group is a run of at most GroupSize packets.                          *)
LEMMA GroupBounds ==
    ASSUME NEW g \in Improved!Groups
    PROVE  /\ Improved!GroupFirst(g) \in Nat \ {0}
           /\ Improved!GroupLast(g) \in Improved!Packets
           /\ Improved!GroupLast(g) \in Improved!GroupPackets(g)
           /\ Improved!GroupLast(g) - Improved!GroupFirst(g) \in 0 .. GroupSize - 1
           /\ Improved!GroupPackets(g) \subseteq Improved!Packets
<1> DEFINE k == GroupSize
           many == (PacketTotal + k - 1) \div k
           a == (g - 1) * k
<1>1. /\ PacketTotal \in Nat \ {0} /\ k \in Nat \ {0}
    BY ImprovedFacts
<1>2. PacketTotal + k - 1 \in Nat
    BY <1>1
<1>3. /\ many \in Nat /\ (PacketTotal + k - 1) % k \in 0 .. k - 1
      /\ PacketTotal + k - 1 = k * many + ((PacketTotal + k - 1) % k)
  <2> DEFINE total == PacketTotal + k - 1
  <2>1. total \in Nat /\ k \in Nat \ {0}
      BY <1>1, <1>2
  <2> HIDE DEF total, k
  <2>2. /\ total \div k \in Nat /\ total % k \in 0 .. k - 1
        /\ total = k * (total \div k) + (total % k)
      BY <2>1, Quotients
  <2> QED BY <2>2 DEF total
<1>4. g \in 1 .. many
    BY DEF Improved!Groups
<1> HIDE DEF many
<1>5. /\ g \in Nat \ {0} /\ g - 1 \in Nat /\ many - g \in Nat
    BY <1>3, <1>4
<1>6. a \in Nat /\ g * k = a + k
    BY <1>1, <1>5
<1>7. g * k \in Nat /\ k * (many - g) \in Nat /\ k * many = g * k + k * (many - g)
    BY <1>1, <1>3, <1>5
<1>8. g * k <= PacketTotal + k - 1
    BY <1>1, <1>3, <1>7
<1> HIDE DEF a, k
<1>9. a < PacketTotal
    BY <1>1, <1>6, <1>8
<1>10. Improved!GroupFirst(g) = a + 1
    BY DEF a, k, Improved!GroupFirst
<1>11. Improved!GroupLast(g) = IF a + k < PacketTotal THEN a + k ELSE PacketTotal
    BY <1>6 DEF k, Improved!GroupLast
<1>12. /\ a + 1 <= Improved!GroupLast(g) /\ Improved!GroupLast(g) <= PacketTotal
       /\ Improved!GroupLast(g) \in Nat /\ Improved!GroupLast(g) <= a + k
    BY <1>1, <1>6, <1>9, <1>11
<1> QED BY <1>1, <1>6, <1>10, <1>12 DEF k, Improved!GroupPackets, Improved!Packets

(* Every packet belongs to one group, the one it is in.                    *)
LEMMA GroupsOfPackets ==
    /\ \A p \in Improved!Packets : /\ Improved!GroupOf(p) \in Improved!Groups
                                   /\ p \in Improved!GroupPackets(Improved!GroupOf(p))
    /\ \A g \in Improved!Groups : \A p \in Improved!GroupPackets(g) : Improved!GroupOf(p) = g
<1> DEFINE k == GroupSize
<1>1. /\ PacketTotal \in Nat \ {0} /\ k \in Nat \ {0}
    BY ImprovedFacts
<1>2. ASSUME NEW p \in Improved!Packets
      PROVE  /\ Improved!GroupOf(p) \in Improved!Groups
             /\ p \in Improved!GroupPackets(Improved!GroupOf(p))
  <2> DEFINE b == (p - 1) \div k
             r == (p - 1) % k
             many == (PacketTotal + k - 1) \div k
  <2>1. p \in Nat \ {0} /\ p <= PacketTotal /\ p - 1 \in Nat
      BY <1>1 DEF Improved!Packets
  <2>2. b \in Nat /\ r \in 0 .. k - 1 /\ p - 1 = k * b + r
    <3> DEFINE t == p - 1
    <3>1. t \in Nat /\ k \in Nat \ {0}
        BY <1>1, <2>1
    <3> HIDE DEF t, k
    <3>2. t \div k \in Nat /\ t % k \in 0 .. k - 1 /\ t = k * (t \div k) + (t % k)
        BY <3>1, Quotients
    <3> QED BY <3>2 DEF t
  <2>3. Improved!GroupOf(p) = b + 1
      BY DEF Improved!GroupOf
  <2>4. k * b \in Nat /\ k * (b + 1) = k * b + k /\ (b + 1) * k = k * b + k /\ b * k = k * b
    <3> HIDE DEF b, r, k
    <3> QED BY <1>1, <2>2
  <2>5. b + 1 <= many
    <3>1. (k * (b + 1) + 0) \div k = b + 1
      <4>1. b + 1 \in Int /\ 0 \in 0 .. k - 1
          BY <1>1, <2>2
      <4> HIDE DEF b
      <4> QED BY <1>1, <4>1, QuotientOfProduct
    <3>2. k * (b + 1) \in Nat /\ k * (b + 1) <= PacketTotal + k - 1 /\ PacketTotal + k - 1 \in Nat
      <4> HIDE DEF b, r, k
      <4> QED BY <1>1, <2>1, <2>2, <2>4
    <3>3. (k * (b + 1)) \div k <= many
        BY <1>1, <3>2, QuotientGrows
    <3>4. k * (b + 1) + 0 = k * (b + 1)
        BY <3>2
    <3> QED BY <3>1, <3>3, <3>4
  <2>6. b + 1 \in 1 .. many
    <3>1. many \in Nat
      <4>1. PacketTotal + k - 1 \in Nat
          BY <1>1
      <4> QED BY <1>1, <4>1, Division
    <3> HIDE DEF b, many
    <3> QED BY <2>2, <2>5, <3>1
  <2>7. Improved!GroupFirst(b + 1) = k * b + 1
    <3>1. (b + 1) - 1 = b
        BY <2>2
    <3> HIDE DEF b
    <3> QED BY <2>4, <3>1 DEF Improved!GroupFirst
  <2>8. /\ Improved!GroupLast(b + 1) =
              IF k * b + k < PacketTotal THEN k * b + k ELSE PacketTotal
    <3> HIDE DEF b
    <3> QED BY <2>4 DEF Improved!GroupLast
  <2>9. p \in Improved!GroupFirst(b + 1) .. Improved!GroupLast(b + 1)
    <3> DEFINE x == k * b
    <3> HIDE DEF b, r, k, x
    <3>1. x \in Nat /\ p - 1 = x + r /\ r \in 0 .. k - 1
        BY <2>2, <2>4 DEF x
    <3>2. x + 1 <= p /\ p <= x + k /\ p <= PacketTotal
        BY <1>1, <2>1, <3>1
    <3> QED BY <1>1, <2>1, <2>7, <2>8, <3>1, <3>2 DEF x
  <2> QED BY <2>3, <2>6, <2>9 DEF Improved!Groups, Improved!GroupPackets
<1>3. ASSUME NEW g \in Improved!Groups, NEW p \in Improved!GroupPackets(g)
      PROVE  Improved!GroupOf(p) = g
  <2> DEFINE s == p - Improved!GroupFirst(g)
  <2>1. /\ Improved!GroupFirst(g) \in Nat /\ Improved!GroupLast(g) \in Nat
        /\ Improved!GroupLast(g) - Improved!GroupFirst(g) \in 0 .. k - 1
      BY GroupBounds DEF Improved!Packets
  <2>2. p \in Int /\ s \in 0 .. k - 1 /\ p = Improved!GroupFirst(g) + s
      BY <1>1, <2>1 DEF Improved!GroupPackets
  <2>3. g \in Int /\ g - 1 \in Int
    <3>1. PacketTotal + k - 1 \in Nat
        BY <1>1
    <3>2. (PacketTotal + k - 1) \div k \in Nat
        BY <1>1, <3>1, Division
    <3> QED BY <3>2 DEF Improved!Groups
  <2> HIDE DEF s, k
  <2>4. Improved!GroupFirst(g) = k * (g - 1) + 1
      BY <1>1, <2>3 DEF Improved!GroupFirst, k
  <2>5. p - 1 = k * (g - 1) + s
    <3> DEFINE x == k * (g - 1)
    <3>1. x \in Int
        BY <1>1, <2>3
    <3> HIDE DEF x
    <3>2. Improved!GroupFirst(g) = x + 1
        BY <2>4 DEF x
    <3>3. p - 1 = x + s
        BY <1>1, <2>2, <3>1, <3>2
    <3> QED BY <3>3 DEF x
  <2>6. (p - 1) \div k = g - 1
      BY <1>1, <2>2, <2>3, <2>5, QuotientOfProduct
  <2> QED BY <2>3, <2>6 DEF Improved!GroupOf, k
<1> QED BY <1>2, <1>3

(* What may be stored for a packet.                                        *)
CopyType == {"none", "genuine", "altered", "badTag", "badTau", "remade"}

(* What judging the group gives for a packet stored in it.                 *)
GroupVerdict(base, g, p) ==
    IF Improved!FastTagMatches(base, g) \/
           p - Improved!GroupFirst(g) \in Improved!Located(base, g).good
    THEN "Passed" ELSE "Failed"

(* A judged group: nothing can be stored in it any more, and its verdicts   *)
(* are those of what is stored.                                            *)
Settled(g, time, base, verdicts, announced) ==
    /\ \A p \in Improved!Absent(base, g) :
           Improved!IntervalOfPacket(p) + DisclosureDelay <= time
    /\ \A p \in Improved!GroupPackets(g) :
           base[p] # "none" => verdicts[p] = GroupVerdict(base, g, p)
    /\ g \in announced <=> /\ ~Improved!FastTagMatches(base, g)
                           /\ Improved!Located(base, g).exceeded

(* The keys known to the receiver are published.                           *)
Published(k, time) == k \in 0 .. Improved!Intervals /\ (k > 0 => k + DisclosureDelay <= time)

(* A fast tag that is not the sender's comes too late where the fast key is *)
(* the key of the group's last interval.                                   *)
TagsInTime(base) ==
    \A g \in Improved!Groups :
        Improved!FastGroupKeyIndex(Improved!GroupInterval(g)) = Improved!GroupInterval(g)
            => base[Improved!GroupLast(g)] # "remade"

(* The invariant of the improved mode.                                     *)
ImprovedInv ==
    /\ now \in Nat \ {0} /\ Published(key, now)
    /\ baseline \in [Improved!Packets -> CopyType]
    /\ \A p \in Improved!Packets : baseline[p] = "none" => verdict[p] = "Pending"
    /\ rivals \in [Improved!Packets -> Seq(Improved!RivalType)]
    /\ \A g \in Improved!Groups : judged[g] = "no" => g \notin excess
    /\ \A g \in Improved!Groups : judged[g] # "no" =>
           Settled(g, now, baseline, verdict, excess)
    /\ TagsInTime(baseline)
    /\ Improved!NothingLeftOpen

(* Copies of a group that agree are judged alike.                          *)
LEMMA SameCopies ==
    ASSUME NEW b, NEW c, NEW g \in Improved!Groups,
           \A p \in Improved!GroupPackets(g) : b[p] = c[p]
    PROVE  /\ Improved!Absent(b, g) = Improved!Absent(c, g)
           /\ Improved!FastTagMatches(b, g) <=> Improved!FastTagMatches(c, g)
           /\ Improved!Located(b, g) = Improved!Located(c, g)
           /\ \A p : GroupVerdict(b, g, p) = GroupVerdict(c, g, p)
<1> DEFINE first == Improved!GroupFirst(g)
           last == Improved!GroupLast(g)
<1>1. Improved!Absent(b, g) = Improved!Absent(c, g)
    BY DEF Improved!Absent
<1>2. Improved!FastTagMatches(b, g) <=> Improved!FastTagMatches(c, g)
  <2>1. Improved!GroupLast(g) \in Improved!GroupPackets(g)
      BY GroupBounds
  <2> QED BY <1>1, <2>1 DEF Improved!FastTagMatches
<1>3. Improved!Located(b, g) = Improved!Located(c, g)
  <2>1. /\ first \in Nat \ {0} /\ last - first \in Nat /\ last \in Nat
        /\ last \in Improved!GroupPackets(g)
      BY GroupBounds DEF Improved!Packets
  <2> HIDE DEF first, last
  <2>2. \A n \in 0 .. last - first : first + n \in first .. last
      BY <2>1
  <2>3. \A n \in 0 .. last - first : b[first + n] = c[first + n]
      BY <2>2 DEF Improved!GroupPackets, first, last
  <2>4. [n \in 0 .. last - first |-> Improved!MacOf(b[first + n])]
        = [n \in 0 .. last - first |-> Improved!MacOf(c[first + n])]
      BY <2>3
  <2>5. b[last] = c[last]
      BY <2>1
  <2> QED BY <2>4, <2>5 DEF Improved!Located, first, last
<1> QED BY <1>1, <1>2, <1>3 DEF GroupVerdict

(* What judging takes for granted: base holds what is stored and what came *)
(* in time for a packet without a copy, tags included, and k is published. *)
Judgeable(base, k) ==
    /\ base \in [Improved!Packets -> CopyType]
    /\ \A p \in Improved!Packets :
           base[p] # baseline[p] =>
               /\ baseline[p] = "none"
               /\ Improved!IsTimeSafe(Improved!IntervalOfPacket(p))
    /\ TagsInTime(base)
    /\ Published(k, now)

(* Nothing new is stored in a judged group.                                *)
LEMMA JudgedKeep ==
    ASSUME ImprovedInv, NEW base, NEW k, Judgeable(base, k),
           NEW g \in Improved!Groups, judged[g] # "no"
    PROVE  \A p \in Improved!GroupPackets(g) : base[p] = baseline[p]
<1> SUFFICES ASSUME NEW p \in Improved!GroupPackets(g), base[p] # baseline[p] PROVE FALSE
    OBVIOUS
<1>1. p \in Improved!Packets
    BY GroupBounds
<1>2. baseline[p] = "none" /\ Improved!IsTimeSafe(Improved!IntervalOfPacket(p))
    BY <1>1 DEF Judgeable
<1>3. p \in Improved!Absent(baseline, g)
    BY <1>2 DEF Improved!Absent
<1>4. now \in Nat /\ Improved!IntervalOfPacket(p) + DisclosureDelay \in Nat
    BY <1>1, IntervalsOfPackets, ImprovedFacts DEF ImprovedInv
<1>5. now < Improved!IntervalOfPacket(p) + DisclosureDelay
    BY <1>2 DEF Improved!IsTimeSafe
<1>6. Improved!IntervalOfPacket(p) + DisclosureDelay <= now
    BY <1>3 DEF ImprovedInv, Settled
<1> DEFINE i == Improved!IntervalOfPacket(p) + DisclosureDelay
<1> HIDE DEF i
<1> QED BY <1>4, <1>5, <1>6 DEF i

(* A group is judged only when its missing packets would come too late.    *)
LEMMA JudgedLate ==
    ASSUME now \in Nat, NEW base, NEW k, Published(k, now), NEW g \in Improved!Groups,
           Improved!CanJudge(base, k, g), NEW p \in Improved!Absent(base, g)
    PROVE  Improved!IntervalOfPacket(p) + DisclosureDelay <= now
<1> DEFINE i == Improved!IntervalOfPacket(p)
           j == Improved!GroupInterval(g)
<1>1. p \in Improved!Packets /\ Improved!GroupLast(g) \in Improved!Packets
      /\ p \in Improved!GroupPackets(g)
    BY GroupBounds DEF Improved!Absent
<1>2. p <= Improved!GroupLast(g)
    BY <1>1 DEF Improved!GroupPackets, Improved!Packets
<1>3. i \in Nat \ {0} /\ j \in Nat \ {0} /\ i <= j /\ DisclosureDelay \in Nat
    BY <1>1, <1>2, IntervalsOfPackets, ImprovedFacts DEF Improved!GroupInterval
<1>4. j <= k
    BY DEF Improved!CanJudge
<1>5. k \in Nat /\ (k > 0 => k + DisclosureDelay <= now)
    BY IntervalsOfPackets DEF Published
<1> HIDE DEF i, j
<1>6. i + DisclosureDelay <= now
    BY <1>3, <1>4, <1>5
<1> QED BY <1>6 DEF i

(* Judging settles the groups it judges, and leaves the others as they were. *)
LEMMA JudgingSettles ==
    ASSUME ImprovedInv, NEW base, NEW k, Judgeable(base, k), Improved!Judge(base, k),
           NEW g \in Improved!Groups
    PROVE  /\ judged'[g] = "no" => g \notin excess'
           /\ judged'[g] # "no" => Settled(g, now', baseline', verdict', excess')
<1>1. /\ baseline' = base /\ now' = now
      /\ verdict' = Improved!VerdictAfter(base, k)
      /\ judged' = Improved!JudgedAfter(base, k)
      /\ excess' = Improved!ExcessAfter(base, k)
    BY DEF Improved!Judge
<1> DEFINE ready == Improved!Ready(base, k)
<1>2. /\ judged[g] = "no" => g \notin excess
      /\ judged[g] # "no" => Settled(g, now, baseline, verdict, excess)
      /\ now \in Nat /\ Published(k, now)
    BY DEF ImprovedInv, Judgeable
<1>3. /\ g \in ready <=> judged[g] = "no" /\ Improved!CanJudge(base, k, g)
    BY DEF Improved!Ready
<1>4. /\ g \in ready => judged'[g] = IF Improved!FastTagMatches(base, g) THEN "fast" ELSE "matrix"
      /\ g \notin ready => judged'[g] = judged[g]
    BY <1>1 DEF Improved!JudgedAfter
<1>5. /\ g \in ready => (g \in excess' <=> \/ g \in excess
                                          \/ /\ ~Improved!FastTagMatches(base, g)
                                             /\ Improved!Located(base, g).exceeded)
      /\ g \notin ready => (g \in excess' <=> g \in excess)
    BY <1>1 DEF Improved!ExcessAfter
<1>6. ASSUME NEW p \in Improved!GroupPackets(g), base[p] # "none"
      PROVE  /\ g \in ready => verdict'[p] = GroupVerdict(base, g, p)
             /\ g \notin ready => verdict'[p] = verdict[p]
  <2>1. p \in Improved!Packets /\ Improved!GroupOf(p) = g
      BY GroupBounds, GroupsOfPackets
  <2> QED BY <1>1, <1>6, <2>1 DEF Improved!VerdictAfter, GroupVerdict
<1> HIDE DEF ready
<1>7. CASE g \in ready
  <2>1. judged[g] = "no" /\ g \notin excess
      BY <1>2, <1>3, <1>7
  <2>2. judged'[g] # "no"
      BY <1>4, <1>7
  <2>3. \A p \in Improved!Absent(base, g) : Improved!IntervalOfPacket(p) + DisclosureDelay <= now
      BY <1>2, <1>3, <1>7, JudgedLate
  <2>4. /\ \A p \in Improved!GroupPackets(g) :
               base[p] # "none" => verdict'[p] = GroupVerdict(base, g, p)
        /\ g \in excess' <=> /\ ~Improved!FastTagMatches(base, g)
                             /\ Improved!Located(base, g).exceeded
      BY <1>5, <1>6, <1>7, <2>1
  <2>5. Settled(g, now', baseline', verdict', excess')
      BY <1>1, <2>3, <2>4
      DEF Settled
  <2> QED BY <2>2, <2>5
<1>8. CASE g \notin ready /\ judged[g] = "no"
    BY <1>2, <1>4, <1>5, <1>8
<1>9. CASE g \notin ready /\ judged[g] # "no"
  <2>1. \A p \in Improved!GroupPackets(g) : base[p] = baseline[p]
      BY <1>9, JudgedKeep
  <2>2. /\ Improved!Absent(base, g) = Improved!Absent(baseline, g)
        /\ Improved!FastTagMatches(base, g) <=> Improved!FastTagMatches(baseline, g)
        /\ Improved!Located(base, g) = Improved!Located(baseline, g)
        /\ \A p : GroupVerdict(base, g, p) = GroupVerdict(baseline, g, p)
      BY <2>1, SameCopies
  <2>3. \A p \in Improved!Absent(base, g) : Improved!IntervalOfPacket(p) + DisclosureDelay <= now
      BY <1>2, <1>9, <2>2 DEF Settled
  <2>4. ASSUME NEW p \in Improved!GroupPackets(g), base[p] # "none"
        PROVE  verdict'[p] = GroupVerdict(base, g, p)
    <3>1. verdict'[p] = verdict[p]
        BY <1>6, <1>9, <2>4
    <3>2. verdict[p] = GroupVerdict(baseline, g, p)
        BY <1>2, <1>9, <2>1, <2>4 DEF Settled
    <3> QED BY <2>2, <3>1, <3>2
  <2>5. g \in excess' <=> /\ ~Improved!FastTagMatches(base, g)
                          /\ Improved!Located(base, g).exceeded
      BY <1>2, <1>5, <1>9, <2>2 DEF Settled
  <2>6. Settled(g, now', baseline', verdict', excess')
      BY <1>1, <2>3, <2>4, <2>5
      DEF Settled
  <2> QED BY <1>4, <1>9, <2>6
<1> QED BY <1>7, <1>8, <1>9

(* Judging changes no more of a further copy than its status.              *)
LEMMA RivalsJudged ==
    ASSUME ImprovedInv, NEW base, NEW k, NEW p \in Improved!Packets
    PROVE  LET after == Improved!RivalsAfter(base, k)[p]
           IN  /\ after \in Seq(Improved!RivalType)
               /\ DOMAIN after = DOMAIN rivals[p]
               /\ \A n \in DOMAIN after :
                      /\ rivals[p][n] \in Improved!RivalType
                      /\ after[n].attack = rivals[p][n].attack
                      /\ after[n].interval = rivals[p][n].interval
                      /\ \/ after[n] = rivals[p][n]
                         \/ after[n].status # "Pending"
                      /\ Improved!AttackReady(base, k, p, rivals[p][n])
                             => after[n].status # "Pending"
<1> DEFINE after == Improved!RivalsAfter(base, k)[p]
           Judged(n) ==
               LET rival == rivals[p][n]
               IN  IF Improved!TriedInGroup(base, k, p, n) THEN [rival EXCEPT !.status = "Failed"]
                   ELSE IF Improved!AttackReady(base, k, p, rival)
                   THEN [rival EXCEPT !.status = IF Improved!IsReplay(base, p, rival)
                                                 THEN "Duplicate" ELSE "Failed"]
                   ELSE rival
<1>1. rivals[p] \in Seq(Improved!RivalType)
    BY DEF ImprovedInv
<1>2. after = [n \in DOMAIN rivals[p] |-> Judged(n)]
    BY DEF Improved!RivalsAfter
<1>3. /\ DOMAIN rivals[p] = 1 .. Len(rivals[p]) /\ Len(rivals[p]) \in Nat
      /\ \A n \in 1 .. Len(rivals[p]) : rivals[p][n] \in Improved!RivalType
    BY <1>1, LenProperties
<1>4. ASSUME NEW n \in DOMAIN rivals[p]
      PROVE  /\ Judged(n) \in Improved!RivalType
             /\ Judged(n).attack = rivals[p][n].attack
             /\ Judged(n).interval = rivals[p][n].interval
             /\ Judged(n) = rivals[p][n] \/ Judged(n).status # "Pending"
             /\ Improved!AttackReady(base, k, p, rivals[p][n]) => Judged(n).status # "Pending"
  <2> DEFINE rival == rivals[p][n]
             failed == [rival EXCEPT !.status = "Failed"]
             doubled == [rival EXCEPT !.status = "Duplicate"]
  <2>1. rival \in Improved!RivalType
      BY <1>3, <1>4
  <2>2. \/ Judged(n) = failed \/ Judged(n) = doubled
        \/ Judged(n) = rival /\ ~Improved!AttackReady(base, k, p, rival)
      OBVIOUS
  <2> HIDE DEF Judged, rival
  <2>3. /\ failed \in Improved!RivalType /\ failed.status = "Failed"
        /\ failed.attack = rival.attack /\ failed.interval = rival.interval
      BY <2>1 DEF Improved!RivalType
  <2>4. /\ doubled \in Improved!RivalType /\ doubled.status = "Duplicate"
        /\ doubled.attack = rival.attack /\ doubled.interval = rival.interval
      BY <2>1 DEF Improved!RivalType
  <2> HIDE DEF failed, doubled
  <2>5. /\ Judged(n) \in Improved!RivalType
        /\ Judged(n).attack = rival.attack
        /\ Judged(n).interval = rival.interval
        /\ Judged(n) = rival \/ Judged(n).status # "Pending"
        /\ Improved!AttackReady(base, k, p, rival) => Judged(n).status # "Pending"
      BY <2>1, <2>2, <2>3, <2>4
  <2> QED BY <2>5 DEF rival
<1> HIDE DEF Judged, after
<1>5. DOMAIN after = DOMAIN rivals[p] /\ \A n \in DOMAIN rivals[p] : after[n] = Judged(n)
    BY <1>2
<1>6. after \in Seq(Improved!RivalType)
    BY <1>2, <1>3, <1>4
<1> QED BY <1>3, <1>4, <1>5, <1>6 DEF after

(* The key of a fast tag is one of the chain.                              *)
LEMMA FastKeyInChain ==
    ASSUME NEW i \in 1 .. Improved!Intervals
    PROVE  Improved!FastGroupKeyIndex(i) <= Improved!Intervals
<1>1. Improved!Intervals \in Nat \ {0} /\ DisclosureDelay \in Nat \ {0}
    BY IntervalsOfPackets, ImprovedFacts
<1> QED BY <1>1 DEF Improved!FastGroupKeyIndex

(* With the last key every group whose end arrived can be judged, and every *)
(* robustness copy.                                                        *)
LEMMA LastKeyJudges ==
    ASSUME NEW base, NEW p \in Improved!Packets,
           base[Improved!GroupLast(Improved!GroupOf(p))] # "none"
    PROVE  /\ Improved!CanJudge(base, Improved!Intervals, Improved!GroupOf(p))
           /\ \A rival \in Improved!RivalType :
                  rival.attack /\ rival.status = "Pending" =>
                      Improved!AttackReady(base, Improved!Intervals, p, rival)
<1> DEFINE g == Improved!GroupOf(p)
           all == Improved!Intervals
<1>1. /\ g \in Improved!Groups /\ Improved!GroupPackets(g) \subseteq Improved!Packets
      /\ Improved!GroupLast(g) \in Improved!Packets
    BY GroupsOfPackets, GroupBounds
<1>2. \A q \in Improved!GroupPackets(g) : Improved!IntervalOfPacket(q) <= all
    BY <1>1, IntervalsOfPackets
<1>3. Improved!GroupInterval(g) \in 1 .. all
    BY <1>1, IntervalsOfPackets DEF Improved!GroupInterval
<1>4. Improved!GroupInterval(g) <= all
    BY <1>3
<1>5. Improved!FastGroupKeyIndex(Improved!GroupInterval(g)) <= all
    BY <1>3, FastKeyInChain
<1>6. base[Improved!GroupLast(g)] # "none"
    OBVIOUS
<1> HIDE DEF g, all
<1>7. Improved!CanJudge(base, all, g)
    BY <1>2, <1>4, <1>5, <1>6 DEF Improved!CanJudge
<1>8. ASSUME NEW rival \in Improved!RivalType, rival.attack, rival.status = "Pending"
      PROVE  Improved!AttackReady(base, all, p, rival)
  <2> DEFINE i == rival.interval
  <2>1. i \in 1 .. all
      BY DEF Improved!RivalType, all
  <2>2. i <= all /\ Improved!FastGroupKeyIndex(i) <= all
      BY <2>1, FastKeyInChain DEF all
  <2> HIDE DEF i
  <2>3. Improved!FastGroupKeyIndex(IF Improved!IntervalOfPacket(p) = i
                                   THEN Improved!GroupInterval(g) ELSE i) <= all
      BY <1>5, <2>2
  <2>4. Improved!KeysForAttack(all, p, rival)
      BY <1>2, <2>2, <2>3 DEF Improved!KeysForAttack, g, i
  <2> QED BY <1>6, <1>8, <2>4 DEF Improved!AttackReady, g
<1> QED BY <1>7, <1>8 DEF g, all

(* Judging at the end leaves nothing open.                                 *)
LEMMA JudgingCloses ==
    ASSUME ImprovedInv, NEW base, NEW k, Judgeable(base, k), Improved!Judge(base, k)
    PROVE  Improved!NothingLeftOpen'
<1>1. /\ baseline' = base
      /\ judged' = Improved!JudgedAfter(base, k)
      /\ rivals' = Improved!RivalsAfter(base, k)
      /\ outcome' # "none" => k = Improved!Intervals
    BY DEF Improved!Judge
<1> SUFFICES ASSUME outcome' # "none", NEW p \in Improved!Packets,
                    base[Improved!GroupLast(Improved!GroupOf(p))] # "none"
             PROVE  /\ base[p] # "none" => verdict'[p] # "Pending"
                    /\ \A n \in DOMAIN rivals'[p] :
                           rivals'[p][n].attack => rivals'[p][n].status # "Pending"
    BY <1>1 DEF Improved!NothingLeftOpen
<1> DEFINE g == Improved!GroupOf(p)
<1>2. k = Improved!Intervals
    BY <1>1
<1>3. /\ Improved!CanJudge(base, k, g)
      /\ \A rival \in Improved!RivalType :
             rival.attack /\ rival.status = "Pending" => Improved!AttackReady(base, k, p, rival)
    BY <1>2, LastKeyJudges
<1>4. g \in Improved!Groups /\ p \in Improved!GroupPackets(g)
    BY GroupsOfPackets
<1> HIDE DEF g
<1>5. judged'[g] # "no"
  <2>1. judged'[g] = IF g \notin Improved!Ready(base, k) THEN judged[g]
                     ELSE IF Improved!FastTagMatches(base, g) THEN "fast" ELSE "matrix"
      BY <1>1, <1>4 DEF Improved!JudgedAfter
  <2>2. judged[g] = "no" => g \in Improved!Ready(base, k)
      BY <1>3, <1>4 DEF Improved!Ready
  <2> QED BY <2>1, <2>2
<1>6. base[p] # "none" => verdict'[p] # "Pending"
  <2>1. Settled(g, now', baseline', verdict', excess')
      BY <1>4, <1>5, JudgingSettles
  <2>2. base[p] # "none" => verdict'[p] = GroupVerdict(base, g, p)
      BY <1>1, <1>4, <2>1 DEF Settled
  <2> QED BY <2>2 DEF GroupVerdict
<1>7. ASSUME NEW n \in DOMAIN rivals'[p], rivals'[p][n].attack
      PROVE  rivals'[p][n].status # "Pending"
  <2> DEFINE old == rivals[p][n]
             new == rivals'[p][n]
  <2>1. /\ old \in Improved!RivalType /\ new.attack = old.attack
        /\ new = old \/ new.status # "Pending"
        /\ Improved!AttackReady(base, k, p, old) => new.status # "Pending"
    <3> DEFINE after == Improved!RivalsAfter(base, k)[p]
    <3>1. \A m \in DOMAIN after :
              /\ rivals[p][m] \in Improved!RivalType
              /\ after[m].attack = rivals[p][m].attack
              /\ after[m] = rivals[p][m] \/ after[m].status # "Pending"
              /\ Improved!AttackReady(base, k, p, rivals[p][m]) => after[m].status # "Pending"
        BY RivalsJudged
    <3>2. rivals'[p] = after
        BY <1>1
    <3> HIDE DEF after
    <3> QED BY <1>7, <3>1, <3>2
  <2> HIDE DEF old, new
  <2>2. CASE new.status # "Pending"
      BY <2>2 DEF new
  <2>3. CASE new = old /\ old.status = "Pending"
    <3>1. old.attack
        BY <1>7, <2>3 DEF new
    <3> QED BY <1>3, <2>1, <2>3, <3>1 DEF new
  <2> QED BY <2>1, <2>2, <2>3
<1> QED BY <1>6, <1>7

(* Judging keeps the invariant.                                            *)
LEMMA JudgeKeeps ==
    ASSUME ImprovedInv, NEW base, NEW k, Judgeable(base, k), Improved!Judge(base, k)
    PROVE  ImprovedInv'
<1>1. /\ baseline' = base /\ now' = now /\ key' = k
      /\ verdict' = Improved!VerdictAfter(base, k)
      /\ rivals' = Improved!RivalsAfter(base, k)
    BY DEF Improved!Judge
<1>2. now' \in Nat \ {0} /\ Published(key', now') /\ baseline' \in [Improved!Packets -> CopyType]
    BY <1>1 DEF ImprovedInv, Judgeable
<1>3. ASSUME NEW p \in Improved!Packets, base[p] = "none" PROVE verdict'[p] = "Pending"
  <2>1. verdict'[p] = verdict[p]
      BY <1>1, <1>3 DEF Improved!VerdictAfter
  <2>2. baseline[p] = "none"
      BY <1>3 DEF Judgeable
  <2> QED BY <2>1, <2>2 DEF ImprovedInv
<1>4. rivals' \in [Improved!Packets -> Seq(Improved!RivalType)]
  <2>1. \A p \in Improved!Packets :
            Improved!RivalsAfter(base, k)[p] \in Seq(Improved!RivalType)
      BY RivalsJudged
  <2>2. \E f : rivals' = [p \in Improved!Packets |-> f[p]]
    <3>1. rivals' = [p \in Improved!Packets |-> rivals'[p]]
        BY <1>1 DEF Improved!RivalsAfter
    <3> QED BY <3>1
  <2> HIDE DEF Improved!RivalsAfter
  <2> QED BY <1>1, <2>1, <2>2
<1>5. \A g \in Improved!Groups :
          /\ judged'[g] = "no" => g \notin excess'
          /\ judged'[g] # "no" => Settled(g, now', baseline', verdict', excess')
    BY JudgingSettles
<1>6. Improved!NothingLeftOpen'
    BY JudgingCloses
<1>7. TagsInTime(baseline)'
    BY <1>1 DEF Judgeable, TagsInTime
<1> QED BY <1>1, <1>2, <1>3, <1>4, <1>5, <1>6, <1>7 DEF ImprovedInv

(* What a step of MCNext does to the variables of the improved receiver.   *)
LEMMA ImprovedStep ==
    ASSUME [MCNext]_allVars
    PROVE  UNCHANGED improvedVars \/ Improved!Next
BY DEF MCNext, allVars, improvedVars

(* The copy that a datagram brings.                                        *)
LEMMA CopiesTyped ==
    \A p : Improved!Copies(p) \subseteq {"genuine", "altered", "badTag", "badTau", "remade"}
BY DEF Improved!Copies

(* A key the sender has disclosed is published.                            *)
LEMMA DisclosedPublished ==
    ASSUME ImprovedInv, NEW i \in Nat, i <= now, i - DisclosureDelay <= Improved!Intervals
    PROVE  Published(Improved!Later(i - DisclosureDelay), now)
<1>1. /\ now \in Nat /\ key \in 0 .. Improved!Intervals /\ (key > 0 => key + DisclosureDelay <= now)
      /\ DisclosureDelay \in Nat /\ Improved!Intervals \in Nat
    BY ImprovedFacts, IntervalsOfPackets DEF ImprovedInv, Published
<1> QED BY <1>1 DEF Published, Improved!Later

(* So is the one in a data packet, if there is any.                        *)
LEMMA CarriedPublished ==
    ASSUME ImprovedInv, NEW p \in Improved!Packets, Improved!Sent(p)
    PROVE  Published(Improved!Later(Improved!KeyOf(p)), now)
<1> DEFINE i == Improved!IntervalOfPacket(p)
           n == p - Improved!FirstPacketIndex(i) + 1
<1>1. i \in 1 .. Improved!Intervals /\ i <= now /\ Improved!Intervals \in Nat \ {0}
      /\ DisclosureDelay \in Nat \ {0}
    BY IntervalsOfPackets, ImprovedFacts DEF Improved!Sent
<1>2. Improved!KeyOf(p) = IF n = 1 /\ i > DisclosureDelay THEN i - DisclosureDelay ELSE 0
    BY DEF Improved!KeyOf, Improved!DisclosedKey
<1> HIDE DEF i, n
<1>3. CASE Improved!KeyOf(p) = i - DisclosureDelay
  <2>1. i \in Nat /\ i - DisclosureDelay <= Improved!Intervals
      BY <1>1
  <2> QED BY <1>1, <1>3, <2>1, DisclosedPublished
<1>4. CASE Improved!KeyOf(p) = 0
  <2>1. key \in Nat /\ Published(key, now)
      BY <1>1 DEF ImprovedInv, Published
  <2>2. Improved!Later(0) = key
      BY <2>1 DEF Improved!Later
  <2> QED BY <1>4, <2>1, <2>2
<1> QED BY <1>2, <1>3, <1>4

(* The first copy of a packet keeps the invariant.                         *)
LEMMA FirstKeeps ==
    ASSUME ImprovedInv, NEW p \in Improved!Packets, NEW copy \in Improved!Arriving(p),
           Improved!ReceiveFirst(p, copy)
    PROVE  ImprovedInv'
<1> DEFINE base == [baseline EXCEPT ![p] = copy]
           k == Improved!Later(Improved!KeyOf(p))
<1>1. /\ Improved!Sent(p) /\ Improved!IsTimeSafe(Improved!IntervalOfPacket(p))
      /\ baseline[p] = "none" /\ Improved!Judge(base, k)
    BY DEF Improved!ReceiveFirst
<1>2. Published(k, now)
    BY <1>1, CarriedPublished
<1>3. copy \in CopyType /\ baseline \in [Improved!Packets -> CopyType]
    BY CopiesTyped DEF CopyType, ImprovedInv, Improved!Arriving
<1>4. base \in [Improved!Packets -> CopyType]
    BY <1>3
<1>5. \A q \in Improved!Packets : base[q] # baseline[q] => q = p
    BY <1>3
<1>6. TagsInTime(base)
  <2> SUFFICES ASSUME NEW g \in Improved!Groups,
                      Improved!FastGroupKeyIndex(Improved!GroupInterval(g)) = Improved!GroupInterval(g),
                      base[Improved!GroupLast(g)] = "remade"
               PROVE  FALSE
      BY DEF TagsInTime
  <2>1. /\ Improved!GroupLast(g) \in Improved!Packets
        /\ Improved!GroupOf(Improved!GroupLast(g)) = g
      BY GroupBounds, GroupsOfPackets
  <2>2. baseline[Improved!GroupLast(g)] # "remade"
      BY DEF ImprovedInv, TagsInTime
  <2>3. Improved!GroupLast(g) = p /\ copy = "remade" /\ Improved!GroupOf(p) = g
      BY <1>3, <2>1, <2>2
  <2> DEFINE i == Improved!IntervalOfPacket(p)
  <2>4. Improved!GroupInterval(g) = i
      BY <2>3 DEF Improved!GroupInterval
  <2>5. now >= i + DisclosureDelay
      BY <2>3, <2>4 DEF Improved!Arriving, Improved!FastKeyPublic
  <2>6. now < i + DisclosureDelay
      BY <1>1 DEF Improved!IsTimeSafe
  <2>7. now \in Nat /\ i + DisclosureDelay \in Nat
      BY IntervalsOfPackets, ImprovedFacts DEF ImprovedInv
  <2> HIDE DEF i
  <2> QED BY <2>5, <2>6, <2>7
<1> HIDE DEF base, k
<1>7. Judgeable(base, k)
    BY <1>1, <1>2, <1>4, <1>5, <1>6 DEF Judgeable
<1> QED BY <1>1, <1>7, JudgeKeeps

(* A disclosure packet keeps it.                                           *)
LEMMA KeyKeeps ==
    ASSUME ImprovedInv, Improved!Intervals \in Nat,
           NEW i \in Improved!Intervals + 1 .. Improved!Intervals + DisclosureDelay,
           Improved!ReceiveKey(i)
    PROVE  ImprovedInv'
<1> DEFINE k == Improved!Later(i - DisclosureDelay)
<1>1. i <= now /\ Improved!Judge(baseline, k)
    BY DEF Improved!ReceiveKey
<1>2. i \in Nat /\ i - DisclosureDelay <= Improved!Intervals
    BY ImprovedFacts
<1>3. Published(k, now)
    BY <1>1, <1>2, DisclosedPublished
<1> HIDE DEF k
<1>4. Judgeable(baseline, k)
    BY <1>3 DEF Judgeable, ImprovedInv
<1> QED BY <1>1, <1>4, JudgeKeeps

(* A further copy changes no verdict.                                      *)
LEMMA RivalKeeps ==
    ASSUME ImprovedInv, NEW p \in Improved!Packets, NEW rival \in Improved!RivalType,
           outcome = "none", Improved!Keep(p, rival)
    PROVE  ImprovedInv'
<1>1. /\ rivals' = [rivals EXCEPT ![p] = Append(@, rival)]
      /\ UNCHANGED <<now, baseline, verdict, key, judged, excess, outcome>>
    BY DEF Improved!Keep
<1>2. rivals \in [Improved!Packets -> Seq(Improved!RivalType)]
    BY DEF ImprovedInv
<1>3. Append(rivals[p], rival) \in Seq(Improved!RivalType)
    BY <1>2, AppendProperties
<1>4. rivals' \in [Improved!Packets -> Seq(Improved!RivalType)]
    BY <1>1, <1>2, <1>3
<1>5. Improved!NothingLeftOpen'
    BY <1>1 DEF Improved!NothingLeftOpen
<1>6. TagsInTime(baseline)'
    BY <1>1 DEF ImprovedInv, TagsInTime
<1> QED BY <1>1, <1>4, <1>5, <1>6 DEF ImprovedInv

(* Time only makes more packets late and more keys known.                  *)
LEMMA TickKeeps ==
    ASSUME ImprovedInv, Improved!Tick
    PROVE  ImprovedInv'
<1>1. /\ now' = now + 1 /\ now \in Nat \ {0}
      /\ UNCHANGED <<baseline, verdict, rivals, key, judged, excess, outcome>>
    BY DEF Improved!Tick, ImprovedInv
<1>2. Published(key, now')
  <2>1. /\ key \in 0 .. Improved!Intervals /\ (key > 0 => key + DisclosureDelay <= now)
        /\ DisclosureDelay \in Nat /\ Improved!Intervals \in Nat
      BY ImprovedFacts, IntervalsOfPackets DEF ImprovedInv, Published
  <2>2. key > 0 => key + DisclosureDelay <= now + 1
      BY <1>1, <2>1
  <2> QED BY <1>1, <2>1, <2>2 DEF Published
<1>3. ASSUME NEW g \in Improved!Groups, judged[g] # "no"
      PROVE  Settled(g, now', baseline, verdict, excess)
  <2>1. Settled(g, now, baseline, verdict, excess)
      BY <1>3 DEF ImprovedInv
  <2>2. ASSUME NEW p \in Improved!Absent(baseline, g)
        PROVE  Improved!IntervalOfPacket(p) + DisclosureDelay <= now'
    <3> DEFINE late == Improved!IntervalOfPacket(p) + DisclosureDelay
    <3>1. late <= now
        BY <2>1, <2>2 DEF Settled
    <3>2. p \in Improved!Packets
        BY <2>2, GroupBounds DEF Improved!Absent
    <3>3. late \in Nat
        BY <3>2, IntervalsOfPackets, ImprovedFacts
    <3> HIDE DEF late
    <3>4. late <= now'
        BY <1>1, <3>1, <3>3
    <3> QED BY <3>4 DEF late
  <2> QED BY <2>1, <2>2 DEF Settled
<1>4. Improved!NothingLeftOpen'
    BY <1>1 DEF Improved!NothingLeftOpen, ImprovedInv
<1>5. TagsInTime(baseline)'
    BY <1>1 DEF ImprovedInv, TagsInTime
<1> QED BY <1>1, <1>2, <1>3, <1>4, <1>5 DEF ImprovedInv

(* Nothing that the invariant is about changes.                            *)
LEMMA StillKeeps ==
    ASSUME ImprovedInv, UNCHANGED <<now, baseline, verdict, rivals, key, judged, excess, outcome>>
    PROVE  ImprovedInv'
<1>1. Improved!NothingLeftOpen' /\ TagsInTime(baseline)'
    BY DEF Improved!NothingLeftOpen, ImprovedInv, TagsInTime
<1> QED BY <1>1 DEF ImprovedInv

(* The invariant holds from the start, and every step keeps it.            *)
LEMMA ImprovedInductive ==
    /\ MCInit => ImprovedInv
    /\ ImprovedInv /\ [MCNext]_allVars => ImprovedInv'
<1>1. ASSUME MCInit PROVE ImprovedInv
  <2>1. Improved!Init
      BY <1>1 DEF MCInit
  <2>2. now = 1 /\ key = 0 /\ outcome = "none" /\ excess = {}
      BY <2>1 DEF Improved!Init
  <2>3. Improved!Intervals \in Nat
      BY IntervalsOfPackets
  <2>4. Published(key, now)
      BY <2>2, <2>3 DEF Published
  <2>5. baseline \in [Improved!Packets -> CopyType]
        /\ \A p \in Improved!Packets : verdict[p] = "Pending"
      BY <2>1 DEF Improved!Init, CopyType
  <2>6. <<>> \in Seq(Improved!RivalType)
      BY EmptySeq
  <2>7. rivals \in [Improved!Packets -> Seq(Improved!RivalType)]
      BY <2>1, <2>6 DEF Improved!Init
  <2>8. \A g \in Improved!Groups : judged[g] = "no"
      BY <2>1 DEF Improved!Init
  <2>9. Improved!NothingLeftOpen
      BY <2>2 DEF Improved!NothingLeftOpen
  <2>10. TagsInTime(baseline)
    <3>1. \A p \in Improved!Packets : baseline[p] = "none"
        BY <2>1 DEF Improved!Init
    <3> QED BY <3>1, GroupBounds DEF TagsInTime
  <2> QED BY <2>2, <2>4, <2>5, <2>7, <2>8, <2>9, <2>10 DEF ImprovedInv
<1>2. ASSUME ImprovedInv, [MCNext]_allVars PROVE ImprovedInv'
  <2>1. CASE UNCHANGED improvedVars
    <3>1. UNCHANGED <<now, baseline, verdict, rivals, key, judged, excess, outcome>>
        BY <2>1 DEF improvedVars
    <3> QED BY <1>2, <3>1, StillKeeps
  <2>2. CASE \E p \in Improved!Packets : Improved!ReceiveLate(p)
    <3>1. UNCHANGED <<now, baseline, verdict, rivals, key, judged, excess, outcome>>
        BY <2>2 DEF Improved!ReceiveLate
    <3> QED BY <1>2, <3>1, StillKeeps
  <2>3. CASE \E p \in Improved!Packets : \E copy \in Improved!Arriving(p) :
                 Improved!ReceiveFirst(p, copy)
      BY <1>2, <2>3, FirstKeeps
  <2>4. ASSUME NEW p \in Improved!Packets, NEW copy \in Improved!Arriving(p),
               Improved!ReceiveConflict(p, copy)
        PROVE  ImprovedInv'
    <3> DEFINE rival == Improved!Rival(copy, FALSE, Improved!IntervalOfPacket(p))
    <3>1. copy \in {"genuine", "altered", "badTag", "badTau", "remade"}
        BY <2>4, CopiesTyped DEF Improved!Arriving
    <3>2. Improved!IntervalOfPacket(p) \in 1 .. Improved!Intervals
        BY IntervalsOfPackets
    <3>3. rival \in Improved!RivalType
        BY <3>1, <3>2 DEF Improved!Rival, Improved!RivalType
    <3>4. outcome = "none" /\ Improved!Keep(p, rival)
        BY <2>4 DEF Improved!ReceiveConflict
    <3> HIDE DEF rival
    <3> QED BY <1>2, <3>3, <3>4, RivalKeeps
  <2>5. ASSUME NEW p \in Improved!Packets, NEW copy \in Improved!Arriving(p),
               Improved!ReceiveAttack(p, copy)
        PROVE  ImprovedInv'
    <3> DEFINE rival == Improved!Rival(copy, TRUE, now)
    <3>1. copy \in {"genuine", "altered", "badTag", "badTau", "remade"}
        BY <2>5, CopiesTyped DEF Improved!Arriving
    <3>2. now \in 1 .. Improved!Intervals
        BY <1>2, <2>5, IntervalsOfPackets DEF Improved!ReceiveAttack, ImprovedInv
    <3>3. rival \in Improved!RivalType
        BY <3>1, <3>2 DEF Improved!Rival, Improved!RivalType
    <3>4. outcome = "none" /\ Improved!Keep(p, rival)
        BY <2>5 DEF Improved!ReceiveAttack
    <3> HIDE DEF rival
    <3> QED BY <1>2, <3>3, <3>4, RivalKeeps
  <2>6. CASE Improved!ReceiveAttackLate
    <3>1. UNCHANGED <<now, baseline, verdict, rivals, key, judged, excess, outcome>>
        BY <2>6 DEF Improved!ReceiveAttackLate
    <3> QED BY <1>2, <3>1, StillKeeps
  <2>7. CASE \E i \in Improved!Intervals + 1 .. Improved!Intervals + DisclosureDelay :
                 Improved!ReceiveKey(i)
    <3>1. Improved!Intervals \in Nat
        BY IntervalsOfPackets
    <3> QED BY <1>2, <2>7, <3>1, KeyKeeps
  <2>8. CASE Improved!Tick
      BY <1>2, <2>8, TickKeeps
  <2>9. Improved!Next => \/ \E p \in Improved!Packets : Improved!ReceiveLate(p)
                         \/ \E p \in Improved!Packets : \E copy \in Improved!Arriving(p) :
                                Improved!ReceiveFirst(p, copy)
                         \/ \E p \in Improved!Packets : \E copy \in Improved!Arriving(p) :
                                Improved!ReceiveConflict(p, copy)
                         \/ \E p \in Improved!Packets : \E copy \in Improved!Arriving(p) :
                                Improved!ReceiveAttack(p, copy)
                         \/ Improved!ReceiveAttackLate
                         \/ \E i \in Improved!Intervals + 1 .. Improved!Intervals + DisclosureDelay :
                                Improved!ReceiveKey(i)
                         \/ Improved!Tick
      BY DEF Improved!Next, Improved!Receive
  <2> QED BY <1>2, <2>1, <2>2, <2>3, <2>4, <2>5, <2>6, <2>7, <2>8, <2>9, ImprovedStep
<1> QED BY <1>1, <1>2

(* As many numbers as before, whatever is taken from each.                 *)
LEMMA Shifted ==
    ASSUME NEW S \in SUBSET Int, IsFiniteSet(S), NEW c \in Int
    PROVE  /\ IsFiniteSet({p - c : p \in S})
           /\ Cardinality({p - c : p \in S}) = Cardinality(S)
<1> DEFINE T == {p - c : p \in S}
           f == [p \in S |-> p - c]
<1>1. f \in [S -> T]
    OBVIOUS
<1>2. \A p, q \in S : f[p] = f[q] => p = q
    OBVIOUS
<1>3. \A t \in T : \E p \in S : f[p] = t
    OBVIOUS
<1> HIDE DEF f, T
<1>4. f \in Bijection(S, T)
    BY <1>1, <1>2, <1>3 DEF Bijection, Injection, Surjection, IsInjective
<1>5. ExistsBijection(S, T)
    BY <1>4 DEF ExistsBijection
<1>6. IsFiniteSet(T) /\ Cardinality(T) = Cardinality(S)
    BY <1>5, FS_Bijection
<1> QED BY <1>6 DEF T

(* The matrix of the round, the slots of a group and the rows that do not  *)
(* match, as the group part has them.                                      *)
RoundMatrix == Matrix(GroupSize, DetectionThreshold)

Slots(g) ==
    [n \in 0 .. Improved!GroupLast(g) - Improved!GroupFirst(g) |->
        Improved!MacOf(baseline[Improved!GroupFirst(g) + n])]

Rows(g) == Improved!ForgedRows(baseline[Improved!GroupLast(g)])

(* What the fallback looks at.                                             *)
LEMMA LocatedSlots ==
    ASSUME ImprovedInv, NEW g \in Improved!Groups
    PROVE  /\ Improved!Located(baseline, g) = Verification(RoundMatrix, Slots(g), Rows(g))
           /\ Sensible(RoundMatrix) /\ RoundMatrix.size = GroupSize
           /\ RoundMatrix.threshold = DetectionThreshold
           /\ IsFiniteSet(DOMAIN Slots(g)) /\ DOMAIN Slots(g) \subseteq 0 .. GroupSize - 1
           /\ DOMAIN Slots(g) = {p - Improved!GroupFirst(g) : p \in Improved!GroupPackets(g)}
           /\ Damaged(Slots(g)) = {p - Improved!GroupFirst(g) : p \in Improved!Abnormal(g)}
           /\ baseline[Improved!GroupLast(g)] # "badTau" => Rows(g) = {}
<1> DEFINE first == Improved!GroupFirst(g)
           last == Improved!GroupLast(g)
<1>1. /\ first \in Nat \ {0} /\ last - first \in 0 .. GroupSize - 1 /\ last \in Nat
      /\ Improved!GroupPackets(g) = first .. last
      /\ Improved!GroupPackets(g) \subseteq Improved!Packets
    BY GroupBounds DEF Improved!GroupPackets, Improved!Packets
<1>2. Improved!TheMatrix = RoundMatrix
    BY SameMatrix DEF Improved!TheMatrix, RoundMatrix
<1>3. Improved!Located(baseline, g) = Verification(RoundMatrix, Slots(g), Rows(g))
    BY <1>2, SameVerification DEF Improved!Located, Slots, Rows
<1>4. /\ Sensible(RoundMatrix) /\ RoundMatrix.size = GroupSize
      /\ RoundMatrix.threshold = DetectionThreshold
    BY ImprovedFacts, MatrixSensible DEF RoundMatrix
<1>5. /\ DOMAIN Slots(g) = 0 .. last - first
      /\ \A n \in 0 .. last - first : Slots(g)[n] = Improved!MacOf(baseline[first + n])
    BY DEF Slots
<1>6. baseline[last] # "badTau" => Rows(g) = {}
    BY DEF Rows, Improved!ForgedRows
<1> HIDE DEF first, last
<1>7. IsFiniteSet(0 .. last - first) /\ 0 .. last - first \subseteq 0 .. GroupSize - 1
  <2>1. last - first \in Int /\ 0 \in Int /\ GroupSize \in Nat
      BY <1>1, ImprovedFacts
  <2> QED BY <1>1, <2>1, FS_Interval
<1>8. /\ \A n \in 0 .. last - first : first + n \in first .. last /\ (first + n) - first = n
      /\ \A p \in first .. last : p - first \in 0 .. last - first /\ first + (p - first) = p
    BY <1>1
<1>9. 0 .. last - first = {p - first : p \in Improved!GroupPackets(g)}
    BY <1>1, <1>8
<1>10. \A n \in 0 .. last - first :
           Slots(g)[n] # Genuine <=> baseline[first + n] \in {"none", "altered", "remade"}
  <2> TAKE n \in 0 .. last - first
  <2>1. baseline[first + n] \in CopyType
      BY <1>1, <1>8 DEF ImprovedInv
  <2>2. \A copy \in CopyType :
            Improved!MacOf(copy) # Genuine <=> copy \in {"none", "altered", "remade"}
      BY DEF CopyType, Improved!MacOf, Genuine, Improved!Genuine, Improved!Missing
  <2> QED BY <1>5, <2>1, <2>2
<1>11. Damaged(Slots(g)) = {n \in 0 .. last - first : baseline[first + n] \in {"none", "altered", "remade"}}
    BY <1>5, <1>10 DEF Damaged
<1>12. Improved!Abnormal(g) = {p \in first .. last : baseline[p] \in {"none", "altered", "remade"}}
    BY <1>1 DEF Improved!Abnormal
<1>13. Damaged(Slots(g)) = {p - first : p \in Improved!Abnormal(g)}
  <2>1. ASSUME NEW n \in Damaged(Slots(g))
        PROVE  \E p \in Improved!Abnormal(g) : n = p - first
    <3>1. first + n \in Improved!Abnormal(g) /\ (first + n) - first = n
        BY <1>8, <1>11, <1>12
    <3> QED BY <3>1
  <2>2. ASSUME NEW p \in Improved!Abnormal(g)
        PROVE  p - first \in Damaged(Slots(g))
      BY <1>8, <1>11, <1>12
  <2> QED BY <2>1, <2>2
<1> QED BY <1>3, <1>4, <1>5, <1>6, <1>7, <1>9, <1>13 DEF first, last

(* The abnormal packets of a group are as many as its damaged slots.       *)
LEMMA AbnormalCount ==
    ASSUME ImprovedInv, NEW g \in Improved!Groups
    PROVE  /\ IsFiniteSet(Damaged(Slots(g))) /\ Cardinality(Damaged(Slots(g))) \in Nat
           /\ Improved!Cardinality(Improved!Abnormal(g)) = Cardinality(Damaged(Slots(g)))
<1> DEFINE first == Improved!GroupFirst(g)
           S == Improved!Abnormal(g)
<1>1. first \in Int /\ Improved!GroupLast(g) \in Int /\ Improved!GroupPackets(g) \subseteq Int
    BY GroupBounds DEF Improved!Packets
<1>2. IsFiniteSet(first .. Improved!GroupLast(g))
    BY <1>1, FS_Interval
<1>3. S \subseteq first .. Improved!GroupLast(g)
    BY DEF Improved!Abnormal, Improved!GroupPackets
<1>4. IsFiniteSet(S) /\ S \in SUBSET Int
    BY <1>1, <1>2, <1>3, FS_Subset DEF Improved!Abnormal
<1> HIDE DEF first, S
<1>5. /\ IsFiniteSet({p - first : p \in S})
      /\ Cardinality({p - first : p \in S}) = Cardinality(S)
    BY <1>1, <1>4, Shifted
<1>6. Damaged(Slots(g)) = {p - first : p \in S}
    BY LocatedSlots DEF first, S
<1>7. Improved!Cardinality(S) = Cardinality(S) /\ Cardinality(S) \in Nat
    BY <1>4, SameCardinality, FS_CardinalityType
<1> QED BY <1>5, <1>6, <1>7 DEF S

(* What holds of a judged group whatever the matrix can locate: what is    *)
(* missing would come too late; unless the stored fast tag was made again, *)
(* what is altered or missing did not pass, and more of it than the        *)
(* threshold is announced.                                                 *)
JudgedSafely(g) ==
    /\ \A p \in Improved!Absent(baseline, g) :
           ~Improved!IsTimeSafe(Improved!IntervalOfPacket(p))
    /\ Improved!TaggedBySender(g) =>
          /\ \A p \in Improved!Abnormal(g) : verdict[p] # "Passed"
          /\ Improved!Cardinality(Improved!Abnormal(g)) > DetectionThreshold => g \in excess

(* The invariant says so.                                                  *)
LEMMA SafelyJudged ==
    ASSUME ImprovedInv, NEW g \in Improved!Groups, judged[g] # "no"
    PROVE  JudgedSafely(g)
<1> DEFINE m == RoundMatrix
           slots == Slots(g)
           good == GoodPositions(m, slots, Rows(g))
           rest == DOMAIN slots \ good
           first == Improved!GroupFirst(g)
<1>1. Settled(g, now, baseline, verdict, excess)
    BY DEF ImprovedInv
<1>2. /\ Improved!Located(baseline, g).good = good
      /\ Improved!Located(baseline, g).exceeded <=> Cardinality(rest) > DetectionThreshold
  <2> HIDE DEF m, slots
  <2>1. /\ Improved!Located(baseline, g) = Verification(m, slots, Rows(g))
        /\ m.threshold = DetectionThreshold
      BY LocatedSlots DEF m, slots
  <2> DEFINE many == Cardinality(rest) > m.threshold
             v == [good |-> good, bad |-> rest, exceeded |-> many]
  <2>2. Verification(m, slots, Rows(g)) = v
      BY DEF Verification
  <2> HIDE DEF many, good, rest
  <2>3. v.good = good /\ v.exceeded = many
      OBVIOUS
  <2> HIDE DEF v
  <2>4. /\ Improved!Located(baseline, g).good = good
        /\ Improved!Located(baseline, g).exceeded <=> many
      BY <2>1, <2>2, <2>3
  <2> QED BY <2>1, <2>4 DEF many
<1>3. Damaged(slots) = {p - first : p \in Improved!Abnormal(g)} /\ IsFiniteSet(DOMAIN slots)
    BY LocatedSlots
<1>4. good \cap Damaged(slots) = {}
    BY GoodIsUndamaged
<1>5. Damaged(slots) \subseteq DOMAIN slots
    BY DEF Damaged
<1>6. IsFiniteSet(rest) /\ Cardinality(rest) \in Nat
    BY <1>3, FS_Subset, FS_CardinalityType
<1> HIDE DEF m, slots, good, first
<1>7. ASSUME NEW p \in Improved!Absent(baseline, g)
      PROVE  ~Improved!IsTimeSafe(Improved!IntervalOfPacket(p))
  <2> DEFINE late == Improved!IntervalOfPacket(p) + DisclosureDelay
  <2>1. p \in Improved!Packets
      BY <1>7, GroupBounds DEF Improved!Absent
  <2>2. late \in Nat /\ now \in Nat
      BY <2>1, IntervalsOfPackets, ImprovedFacts DEF ImprovedInv
  <2>3. late <= now
      BY <1>1, <1>7 DEF Settled
  <2> HIDE DEF late
  <2>4. ~(now < late)
      BY <2>2, <2>3
  <2> QED BY <2>4 DEF late, Improved!IsTimeSafe
<1>8. ASSUME Improved!TaggedBySender(g)
      PROVE  Improved!FastTagMatches(baseline, g) => Improved!Abnormal(g) = {}
  <2>1. baseline[Improved!GroupLast(g)] # "remade"
      BY <1>8 DEF Improved!TaggedBySender, ImprovedInv, TagsInTime
  <2> QED BY <2>1 DEF Improved!FastTagMatches, Improved!Abnormal
<1>9. ASSUME Improved!TaggedBySender(g), NEW p \in Improved!Abnormal(g)
      PROVE  verdict[p] # "Passed"
  <2>1. /\ p \in Improved!GroupPackets(g) /\ p \in Improved!Packets
      BY <1>9, GroupBounds DEF Improved!Abnormal
  <2>2. CASE baseline[p] = "none"
      BY <2>1, <2>2 DEF ImprovedInv
  <2>3. CASE baseline[p] # "none"
    <3>1. ~Improved!FastTagMatches(baseline, g)
        BY <1>8, <1>9
    <3>2. p - first \notin good
        BY <1>3, <1>4, <1>9
    <3>3. verdict[p] = GroupVerdict(baseline, g, p)
        BY <1>1, <2>1, <2>3 DEF Settled
    <3> QED BY <1>2, <3>1, <3>2, <3>3 DEF GroupVerdict, first
  <2> QED BY <2>2, <2>3
<1>10. ASSUME Improved!TaggedBySender(g),
              Improved!Cardinality(Improved!Abnormal(g)) > DetectionThreshold
       PROVE  g \in excess
  <2>1. /\ Cardinality(Damaged(slots)) > DetectionThreshold
        /\ IsFiniteSet(Damaged(slots)) /\ Cardinality(Damaged(slots)) \in Nat
      BY <1>10, AbnormalCount DEF slots
  <2>2. Damaged(slots) \subseteq rest
      BY <1>4, <1>5
  <2>3. Cardinality(Damaged(slots)) <= Cardinality(rest)
      BY <1>6, <2>2, FS_Subset
  <2>4. Cardinality(rest) > DetectionThreshold
      BY <1>6, <2>1, <2>3, ImprovedFacts
  <2>5. ~Improved!FastTagMatches(baseline, g)
    <3> SUFFICES ASSUME Improved!FastTagMatches(baseline, g) PROVE FALSE
        OBVIOUS
    <3>1. Improved!Abnormal(g) = {}
        BY <1>8, <1>10
    <3>2. Damaged(slots) = {}
        BY <1>3, <3>1
    <3>3. Cardinality(Damaged(slots)) = 0
        BY <3>2, FS_EmptySet
    <3> QED BY <2>1, <3>3, ImprovedFacts
  <2> QED BY <1>1, <1>2, <2>4, <2>5 DEF Settled
<1> QED BY <1>7, <1>9, <1>10 DEF JudgedSafely

(* With a matrix that separates, the other way round as well.              *)
LEMMA ExactlyJudged ==
    ASSUME ImprovedInv, Separates(RoundMatrix), NEW g \in Improved!Groups, judged[g] # "no",
           Improved!Cardinality(Improved!Abnormal(g)) <= DetectionThreshold,
           baseline[Improved!GroupLast(g)] # "badTau"
    PROVE  /\ g \notin excess
           /\ \A p \in Improved!GroupPackets(g) \ Improved!Abnormal(g) : verdict[p] = "Passed"
<1> DEFINE m == RoundMatrix
           slots == Slots(g)
           good == GoodPositions(m, slots, Rows(g))
           rest == DOMAIN slots \ good
           first == Improved!GroupFirst(g)
<1>1. Settled(g, now, baseline, verdict, excess)
    BY DEF ImprovedInv
<1>2. /\ Improved!Located(baseline, g).good = good
      /\ Improved!Located(baseline, g).exceeded <=> Cardinality(rest) > DetectionThreshold
  <2> HIDE DEF m, slots
  <2>1. /\ Improved!Located(baseline, g) = Verification(m, slots, Rows(g))
        /\ m.threshold = DetectionThreshold
      BY LocatedSlots DEF m, slots
  <2> DEFINE many == Cardinality(rest) > m.threshold
             v == [good |-> good, bad |-> rest, exceeded |-> many]
  <2>2. Verification(m, slots, Rows(g)) = v
      BY DEF Verification
  <2> HIDE DEF many, good, rest
  <2>3. v.good = good /\ v.exceeded = many
      OBVIOUS
  <2> HIDE DEF v
  <2>4. /\ Improved!Located(baseline, g).good = good
        /\ Improved!Located(baseline, g).exceeded <=> many
      BY <2>1, <2>2, <2>3
  <2> QED BY <2>1, <2>4 DEF many
<1>3. /\ Damaged(slots) = {p - first : p \in Improved!Abnormal(g)}
      /\ DOMAIN slots = {p - first : p \in Improved!GroupPackets(g)}
      /\ Rows(g) = {} /\ Sensible(m) /\ Separates(m) /\ DOMAIN slots \subseteq 0 .. m.size - 1
      /\ m.threshold = DetectionThreshold
    BY LocatedSlots
<1>4. /\ Cardinality(Damaged(slots)) <= DetectionThreshold
      /\ Cardinality(Damaged(slots)) \in Nat
    BY AbnormalCount
<1>5. Damaged(slots) \subseteq DOMAIN slots
    BY DEF Damaged
<1> HIDE DEF m, slots, first
<1>6. good = DOMAIN slots \ Damaged(slots)
  <2>1. GoodPositions(m, slots, {}) = DOMAIN slots \ Damaged(slots)
      BY <1>3, <1>4, LocatesDamage
  <2> QED BY <1>3, <2>1
<1> HIDE DEF good
<1>7. rest = Damaged(slots)
    BY <1>5, <1>6
<1>8. g \notin excess
  <2>1. ~(Cardinality(rest) > DetectionThreshold)
      BY <1>4, <1>7, ImprovedFacts
  <2> QED BY <1>1, <1>2, <2>1 DEF Settled
<1>9. ASSUME NEW p \in Improved!GroupPackets(g), p \notin Improved!Abnormal(g)
      PROVE  verdict[p] = "Passed"
  <2>1. baseline[p] # "none"
      BY <1>9 DEF Improved!Abnormal
  <2>2. p - first \notin Damaged(slots)
    <3> SUFFICES ASSUME p - first \in Damaged(slots) PROVE FALSE
        OBVIOUS
    <3>1. PICK q \in Improved!Abnormal(g) : p - first = q - first
        BY <1>3
    <3>2. p \in Int /\ q \in Int /\ first \in Int
        BY <1>9, GroupBounds DEF first, Improved!Abnormal, Improved!Packets
    <3>3. p = q
        BY <3>1, <3>2
    <3> QED BY <1>9, <3>3
  <2>3. p - first \in good
      BY <1>3, <1>6, <1>9, <2>2
  <2>4. verdict[p] = GroupVerdict(baseline, g, p)
      BY <1>1, <1>9, <2>1 DEF Settled
  <2> QED BY <1>2, <2>3, <2>4 DEF GroupVerdict, first
<1> QED BY <1>8, <1>9

(* Whatever the matrix can locate, and however copies, keys and robustness *)
(* copies come: a group is judged when nothing more can be stored in it, at *)
(* the end no verdict is open, and unless the stored fast tag was made     *)
(* again with a fast key that was public already, no altered packet passes *)
(* and an excess is announced (bVerifyImprovedGroupLocked, finalizeLocked). *)
(* With a disclosure delay of one no such tag is ever stored.              *)
THEOREM SafeVerdicts ==
    MCSpec => [](/\ \A g \in Improved!Groups : judged[g] # "no" => JudgedSafely(g)
                 /\ Improved!NothingLeftOpen
                 /\ DisclosureDelay = 1 =>
                        \A g \in Improved!Groups : baseline[Improved!GroupLast(g)] # "remade")
<1>1. ImprovedInv => /\ \A g \in Improved!Groups : judged[g] # "no" => JudgedSafely(g)
                     /\ Improved!NothingLeftOpen
    BY SafelyJudged DEF ImprovedInv
<1>2. ASSUME ImprovedInv, DisclosureDelay = 1, NEW g \in Improved!Groups
      PROVE  baseline[Improved!GroupLast(g)] # "remade"
  <2> DEFINE i == Improved!GroupInterval(g)
  <2>1. i \in Nat \ {0}
      BY GroupBounds, IntervalsOfPackets DEF Improved!GroupInterval
  <2> HIDE DEF i
  <2>2. Improved!FastGroupKeyIndex(i) = i
      BY <1>2, <2>1 DEF Improved!FastGroupKeyIndex
  <2> QED BY <1>2, <2>2 DEF i, ImprovedInv, TagsInTime
<1>3. ImprovedInv => /\ \A g \in Improved!Groups : judged[g] # "no" => JudgedSafely(g)
                     /\ Improved!NothingLeftOpen
                     /\ DisclosureDelay = 1 =>
                            \A g \in Improved!Groups : baseline[Improved!GroupLast(g)] # "remade"
    BY <1>1, <1>2
<1> QED BY <1>3, ImprovedInductive, PTL DEF MCSpec

(* With a matrix that separates: up to the threshold exactly the altered   *)
(* and missing packets of a group fail, however the datagrams are lost,    *)
(* altered, repeated and reordered, where the stored fast tag is not one   *)
(* that was made again with the published key.                             *)
THEOREM ExactVerdicts == Separates(RoundMatrix) => (MCSpec => []VerdictsAreExact)
<1> SUFFICES ASSUME Separates(RoundMatrix) PROVE MCSpec => []VerdictsAreExact
    OBVIOUS
<1>1. ImprovedInv => VerdictsAreExact
  <2> SUFFICES ASSUME ImprovedInv PROVE VerdictsAreExact
      OBVIOUS
  <2>1. Improved!NothingLeftOpen
      BY DEF ImprovedInv
  <2>2. \A g \in Improved!Groups : judged[g] # "no" => JudgedSafely(g)
      BY SafelyJudged
  <2>3. \A g \in Improved!Groups :
            judged[g] # "no" /\ Improved!Cardinality(Improved!Abnormal(g)) <= DetectionThreshold
            /\ baseline[Improved!GroupLast(g)] # "badTau"
                => /\ g \notin excess
                   /\ \A p \in Improved!GroupPackets(g) \ Improved!Abnormal(g) :
                          verdict[p] = "Passed"
      BY ExactlyJudged
  <2> QED BY <2>1, <2>2, <2>3
      DEF VerdictsAreExact, Improved!VerdictsAreExact, JudgedSafely
<1> QED BY <1>1, ImprovedInductive, PTL DEF MCSpec

(* The same of the groups within reach, with nothing left to suppose.      *)
THEOREM ExactWithinReach ==
    WithinReach(GroupSize, DetectionThreshold) => (MCSpec => []VerdictsAreExact)
<1> SUFFICES ASSUME WithinReach(GroupSize, DetectionThreshold)
             PROVE  MCSpec => []VerdictsAreExact
    OBVIOUS
<1>1. Separates(RoundMatrix)
  <2>1. /\ GroupSize \in Nat \ {0} /\ DetectionThreshold \in Nat \ {0}
        /\ Candidates(GroupSize, DetectionThreshold) # {}
    <3>1. /\ GroupSize \in Nat \ {0} /\ DetectionThreshold \in 1 .. GroupSize - 1
          /\ Improved!Candidates(GroupSize, DetectionThreshold) # {}
        BY FormatsAssumption DEF Improved!ImprovedAssumption
    <3> QED BY <3>1, SameMatrix
  <2> QED BY <2>1, ReachSeparates DEF RoundMatrix
<1> QED BY <1>1, ExactVerdicts
=============================================================================
