--------------------------- MODULE RingArithmetic ---------------------------
(***************************************************************************)
(* Facts about remainders by a size that is a parameter, for the proofs    *)
(* about rings: which slot of a ring of N a position falls into.           *)
(***************************************************************************)
EXTENDS Integers, TLAPS

\* Multiplication distributes over the sum of two naturals.
LEMMA Distribute ==
    ASSUME NEW N \in Nat, NEW a \in Nat, NEW b \in Nat
    PROVE  N * (a + b) = (N * a) + (N * b)
  OBVIOUS

\* What quotient and remainder are.
LEMMA ModDivision ==
    ASSUME NEW N \in Nat \ {0}, NEW a \in Nat
    PROVE  /\ (a \div N) \in Nat
           /\ (a % N) \in 0 .. N - 1
           /\ a = (N * (a \div N)) + (a % N)
  OBVIOUS

\* A number has only one remainder below N.
LEMMA ModUnique ==
    ASSUME NEW N \in Nat \ {0}, NEW a \in Nat, NEW q \in Nat, NEW r \in 0 .. N - 1,
           a = (N * q) + r
    PROVE  a % N = r
  OBVIOUS

\* A number below N is its own remainder.
LEMMA ModSmall ==
    ASSUME NEW N \in Nat \ {0}, NEW r \in 0 .. N - 1
    PROVE  r % N = r
  OBVIOUS

\* A remainder moved by k is the remainder of the number moved by k: (readPos + n) % BufSize.
LEMMA ModAdd ==
    ASSUME NEW N \in Nat \ {0}, NEW a \in Nat, NEW k \in Nat
    PROVE  ((a % N) + k) % N = (a + k) % N
<1>1. PICK qa \in Nat, ra \in 0 .. N - 1 : a = (N * qa) + ra /\ ra = a % N
  BY ModDivision
<1>2. PICK qb \in Nat, rb \in 0 .. N - 1 : ra + k = (N * qb) + rb /\ rb = (ra + k) % N
  <2>1. ra + k \in Nat
    OBVIOUS
  <2> QED BY <2>1, ModDivision
<1>3. PICK q \in Nat : q = qa + qb
  OBVIOUS
<1>4. N * q = (N * qa) + (N * qb)
  BY <1>3, Distribute
<1>5. a + k = (N * q) + rb
  <2>1. a = (N * qa) + ra
    BY <1>1
  <2>2. ra + k = (N * qb) + rb
    BY <1>2
  <2>3. \A m, ma, mb \in Int : m = ma + mb /\ a = ma + ra /\ ra + k = mb + rb
                              => a + k = m + rb
    OBVIOUS
  <2>4. N * q \in Int /\ N * qa \in Int /\ N * qb \in Int
    OBVIOUS
  <2> QED BY <1>4, <2>1, <2>2, <2>3, <2>4
<1>6. a + k \in Nat
  OBVIOUS
<1>7. (a + k) % N = rb
  BY <1>5, <1>6, ModUnique
<1> QED BY <1>1, <1>2, <1>7

\* A full lap changes no remainder.
LEMMA ModLap ==
    ASSUME NEW N \in Nat \ {0}, NEW a \in Nat
    PROVE  (a + N) % N = a % N
<1>1. PICK qa \in Nat, ra \in 0 .. N - 1 : a = (N * qa) + ra /\ ra = a % N
  BY ModDivision
<1>2. PICK q \in Nat : q = qa + 1
  OBVIOUS
<1>3. N * q = (N * qa) + N
  BY <1>2, Distribute
<1>4. a + N = (N * q) + ra
  BY <1>1, <1>3
<1>5. a + N \in Nat
  OBVIOUS
<1> QED BY <1>1, <1>4, <1>5, ModUnique

\* The distance WriteAvailable's slots are from writePos: position t + d is d slots on.
LEMMA SlotDistance ==
    ASSUME NEW N \in Nat \ {0}, NEW t \in Nat, NEW d \in 0 .. N - 1
    PROVE  (((t + d) % N) + N - (t % N)) % N = d
<1>1. PICK q \in Nat, r \in 0 .. N - 1 : t = (N * q) + r /\ r = t % N
  BY ModDivision
<1>2. (t + d) % N = (r + d) % N
  <2>1. d \in Nat
    OBVIOUS
  <2>2. ((t % N) + d) % N = (t + d) % N
    BY <2>1, ModAdd
  <2> QED BY <1>1, <2>2
<1>3. CASE r + d < N
  <2>1. (r + d) % N = r + d
    <3>1. r + d \in 0 .. N - 1
      BY <1>3
    <3> QED BY <3>1, ModSmall
  <2>2. (d + N) % N = d
    BY ModLap, ModSmall
  <2>3. ((t + d) % N) + N - (t % N) = d + N
    BY <1>1, <1>2, <2>1
  <2> QED BY <2>2, <2>3
<1>4. CASE r + d >= N
  <2>1. PICK x \in 0 .. N - 1 : r + d = x + N
    BY <1>4
  <2>2. (r + d) % N = x
    BY <2>1, ModLap, ModSmall
  <2>3. (t + d) % N = x
    BY <1>2, <2>2
  <2>4. x + N - r = d
    BY <2>1
  <2>5. ((t + d) % N) + N - (t % N) = d
    BY <1>1, <2>3, <2>4
  <2> QED BY <2>5, ModSmall
<1> QED BY <1>3, <1>4


\* What quotient and remainder are, of any integer.
LEMMA ModDivisionInt ==
    ASSUME NEW N \in Nat \ {0}, NEW a \in Int
    PROVE  /\ (a \div N) \in Int
           /\ (a % N) \in 0 .. N - 1
           /\ a = (N * (a \div N)) + (a % N)
  OBVIOUS

\* Two numbers of the same remainder that are less than N apart are the same.
LEMMA ModClose ==
    ASSUME NEW N \in Nat \ {0}, NEW a \in Int, NEW b \in Int, NEW p \in Int, NEW q \in Int,
           NEW r \in Int, a = (N * p) + r, b = (N * q) + r, a < b + N, b < a + N
    PROVE  a = b
<1>1. PICK d \in Int : d = p - q
  OBVIOUS
<1>2. a - b = N * d
  <2>1. N * p = (N * d) + (N * q)
    BY <1>1
  <2> QED BY <2>1
<1>3. d < 1
  <2>1. SUFFICES ASSUME d >= 1 PROVE FALSE
    BY <1>1
  <2>2. N * d >= N
    BY <2>1
  <2> QED BY <1>2, <2>2
<1>4. d > -1
  <2>1. SUFFICES ASSUME d <= -1 PROVE FALSE
    BY <1>1
  <2>2. N * d <= -N
    BY <2>1
  <2> QED BY <1>2, <2>2
<1>5. d = 0
  BY <1>3, <1>4
<1> QED BY <1>2, <1>5

\* The number that lies within one lap of f and has the remainder of a is found from that
\* remainder alone.
LEMMA ModFound ==
    ASSUME NEW N \in Nat \ {0}, NEW f \in Nat, NEW a \in Nat, f <= a, a < f + N
    PROVE  f + (((a % N) - f) % N) = a
<1>1. PICK p \in Int, r \in 0 .. N - 1 : a = (N * p) + r /\ r = a % N
  <2>1. a \in Int
    OBVIOUS
  <2> QED BY <2>1, ModDivisionInt
<1>2. PICK q \in Int, s \in 0 .. N - 1 : r - f = (N * q) + s /\ s = (r - f) % N
  <2>1. r - f \in Int
    OBVIOUS
  <2> QED BY <2>1, ModDivisionInt
<1>3. PICK t \in Int : t = p + q
  OBVIOUS
<1>4. N * t = (N * p) + (N * q)
  BY <1>3
<1>5. a - f = (N * t) + s
  <2>1. N * t \in Int /\ N * p \in Int /\ N * q \in Int
    OBVIOUS
  <2>2. \A x, y, z \in Int : a = y + r /\ r - f = z + s /\ x = y + z => a - f = x + s
    OBVIOUS
  <2>3. a = (N * p) + r
    BY <1>1
  <2>4. r - f = (N * q) + s
    BY <1>2
  <2> QED BY <1>4, <2>1, <2>2, <2>3, <2>4
<1>6. a - f = s
  <2>1. s = (N * 0) + s
    OBVIOUS
  <2>2. a - f < s + N /\ s < (a - f) + N
    OBVIOUS
  <2> DEFINE c == a - f
  <2>3. c \in Int /\ c = (N * t) + s /\ c < s + N /\ s < c + N
    BY <1>5, <2>2
  <2> HIDE DEF c
  <2>4. c = s
    BY <2>1, <2>3, ModClose
  <2> QED BY <2>4 DEF c
<1>7. ((a % N) - f) % N = s
  BY <1>1, <1>2
<1>8. f + s = a
  BY <1>6
<1> QED BY <1>7, <1>8

\* When parts of P bytes fill a ring of M: the part of the ring, and the byte of the part, that
\* a position falls on, are the position's remainder.
LEMMA PartOfRing ==
    ASSUME NEW P \in Nat \ {0}, NEW M \in Nat \ {0}, M % P = 0, NEW o \in Nat
    PROVE  /\ (M \div P) \in Nat \ {0}
           /\ ((o \div P) % (M \div P)) \in Nat
           /\ (((o \div P) % (M \div P)) * P) + (o % P) = o % M
<1>1. PICK m \in Nat : m = M \div P
  BY ModDivision
<1>2. M = P * m
  <2>1. M = (P * (M \div P)) + (M % P)
    BY ModDivision
  <2> QED BY <1>1, <2>1
<1>3. m \in Nat \ {0}
  <2>1. m # 0
    BY <1>2
  <2> QED BY <2>1
<1>4. PICK q \in Nat, r \in 0 .. P - 1 : o = (P * q) + r /\ q = o \div P /\ r = o % P
  BY ModDivision
<1>5. PICK u \in Nat, v \in 0 .. m - 1 : q = (m * u) + v /\ v = q % m
  BY <1>3, ModDivision
<1>6. o = (M * u) + ((P * v) + r)
  <2>1. P * q = (P * (m * u)) + (P * v)
    <3>1. m * u \in Nat /\ v \in Nat
      OBVIOUS
    <3> QED BY <1>5, <3>1, Distribute
  <2>2. P * (m * u) = M * u
    BY <1>2
  <2>3. P * q \in Nat /\ P * v \in Nat /\ M * u \in Nat
    OBVIOUS
  <2>4. \A x, y, z \in Int : o = x + r /\ x = z + y => o = z + (y + r)
    OBVIOUS
  <2>5. o = (P * q) + r
    BY <1>4
  <2> QED BY <2>1, <2>2, <2>3, <2>4, <2>5
<1>7. (P * v) + r \in 0 .. M - 1
  <2>1. v + 1 <= m /\ v + 1 \in Nat
    BY <1>5
  <2>2. P * (v + 1) <= P * m
    BY <2>1
  <2>3. P * (v + 1) = (P * v) + P
    OBVIOUS
  <2>4. P * v \in Nat /\ r \in Nat /\ r < P
    OBVIOUS
  <2> QED BY <1>2, <2>2, <2>3, <2>4
<1> DEFINE w == (P * v) + r
<1>8. w \in 0 .. M - 1 /\ o = (M * u) + w
  BY <1>6, <1>7
<1> HIDE DEF w
<1>9. o % M = w
  BY <1>8, ModUnique
<1>10. v * P = P * v
  OBVIOUS
<1>11. (o \div P) % (M \div P) = v /\ o % P = r
  BY <1>1, <1>4, <1>5
<1>12. (v * P) + r = o % M
  BY <1>9, <1>10 DEF w
<1>13. v \in Nat
  BY <1>5
<1> QED BY <1>1, <1>3, <1>11, <1>12, <1>13, Zenon

\* A lap of the ring is a whole number of parts.
LEMMA LapOfParts ==
    ASSUME NEW P \in Nat \ {0}, NEW M \in Nat \ {0}, M % P = 0, NEW o \in Nat
    PROVE  /\ (o + M) % P = o % P
           /\ ((o + M) \div P) % (M \div P) = (o \div P) % (M \div P)
<1>1. PICK m \in Nat : m = M \div P
  BY ModDivision
<1>2. M = P * m
  <2>1. M = (P * (M \div P)) + (M % P)
    BY ModDivision
  <2> QED BY <1>1, <2>1
<1>3. m \in Nat \ {0}
  <2>1. m # 0
    BY <1>2
  <2> QED BY <2>1
<1>4. PICK q \in Nat, r \in 0 .. P - 1 : o = (P * q) + r /\ q = o \div P /\ r = o % P
  BY ModDivision
<1>5. PICK z \in Nat : z = q + m
  OBVIOUS
<1>6. P * z = (P * q) + (P * m)
  BY <1>5, Distribute
<1>7. o + M = (P * z) + r
  <2>1. P * z \in Nat /\ P * q \in Nat /\ P * m \in Nat
    OBVIOUS
  <2> QED BY <1>2, <1>4, <1>6, <2>1
<1>8. (o + M) % P = r
  <2>1. o + M \in Nat
    OBVIOUS
  <2> QED BY <1>7, <2>1, ModUnique
<1>9. (o + M) \div P = z
  <2> DEFINE c == o + M
             d == c \div P
  <2>1. c \in Nat /\ c = (P * z) + r
    BY <1>7
  <2> HIDE DEF c
  <2>2. d \in Nat /\ c = (P * d) + (c % P)
    BY <2>1, ModDivision
  <2>3. c % P = r
    BY <1>8 DEF c
  <2> HIDE DEF d
  <2>4. P * d = P * z
    BY <2>1, <2>2, <2>3
  <2>5. d = z
    BY <2>2, <2>4
  <2> QED BY <2>5 DEF c, d
<1>10. z % m = q % m
  BY <1>3, <1>5, ModLap
<1> QED BY <1>1, <1>4, <1>8, <1>9, <1>10

\* The bytes of a part: where a position p begins a part, p + b is byte b of that part.
LEMMA PartBytes ==
    ASSUME NEW P \in Nat \ {0}, NEW p \in Nat, p % P = 0, NEW b \in 0 .. P - 1
    PROVE  (p + b) \div P = p \div P /\ (p + b) % P = b
<1>1. PICK q \in Nat : q = p \div P /\ p = P * q
  <2>1. p = (P * (p \div P)) + (p % P) /\ p \div P \in Nat
    BY ModDivision
  <2> QED BY <2>1
<1> DEFINE c == p + b
           d == c \div P
<1>2. c \in Nat /\ c = (P * q) + b
  BY <1>1
<1> HIDE DEF c
<1>3. c % P = b
  BY <1>2, ModUnique
<1>4. d \in Nat /\ c = (P * d) + (c % P)
  BY <1>2, ModDivision
<1> HIDE DEF d
<1>5. P * d = P * q
  BY <1>2, <1>3, <1>4
<1>6. d = q
  BY <1>4, <1>5
<1> QED BY <1>1, <1>3, <1>6 DEF c, d
=============================================================================
