-------------------------- MODULE MethodBytesProofs --------------------------
(***************************************************************************)
(* First the codec, the E2E trailer and the header, for every signal,      *)
(* every value and every sequence of bytes: the nearest value that can be  *)
(* represented is encoded, decoding and encoding lose nothing, and the CRC *)
(* finds every burst of noise of at most sixteen bits.  Then a connection, *)
(* for every catalog, every request and every way the bytes arrive: the    *)
(* stream of bytes implements the channel of messages, and what the        *)
(* handler stores and answers is what the requests said.                   *)
(***************************************************************************)
EXTENDS MethodBytes, SequenceTheorems, WellFoundedInduction, TLAPS

-----------------------------------------------------------------------------
(* Induction over the numbers up to N, and functions defined by it.        *)

\* A set of numbers has a least one.
LEMMA Least == ASSUME NEW S, S \subseteq Nat, S # {}
               PROVE  \E k \in S : \A j \in S : k <= j
  <1>1. PICK k \in S : \A j \in S : ~ (<<j, k>> \in OpToRel(<, Nat))
    BY NatLessThanWellFounded, WFMin
  <1> SUFFICES ASSUME NEW j \in S PROVE k <= j
    OBVIOUS
  <1>2. j \in Nat /\ k \in Nat
    OBVIOUS
  <1>3. ~ (j < k)
    <2> SUFFICES ASSUME j < k PROVE <<j, k>> \in OpToRel(<, Nat)
      BY <1>1
    <2>1. <<j, k>> \in Nat \X Nat
      BY <1>2
    <2> QED BY <2>1 DEF OpToRel
  <1> QED BY <1>2, <1>3

\* A set that has 0, and every number up to N whose predecessor it has, has
\* all of them.
LEMMA Induction ==
    ASSUME NEW N \in Nat, NEW S, 0 \in S, \A n \in 1..N : n - 1 \in S => n \in S
    PROVE  \A n \in 0..N : n \in S
  <1> DEFINE bad == {n \in 0..N : n \notin S}
  <1>1. SUFFICES ASSUME bad # {} PROVE FALSE
    OBVIOUS
  <1>2. PICK n \in bad : \A m \in bad : n <= m
    <2>1. bad \subseteq Nat
      OBVIOUS
    <2> QED BY <1>1, <2>1, Least
  <1>3. n \in 1..N /\ n - 1 \in 0..N
    BY <1>2
  <1>4. n - 1 \in S
    BY <1>2, <1>3
  <1> QED BY <1>2, <1>3, <1>4

\* The same downwards.
LEMMA InductionDown ==
    ASSUME NEW N \in Nat, NEW S, N \in S, \A n \in 1..N : n \in S => n - 1 \in S
    PROVE  \A n \in 0..N : n \in S
  <1> DEFINE T == {k \in 0..N : N - k \in S}
  <1>1. 0 \in T
    OBVIOUS
  <1>2. ASSUME NEW k \in 1..N, k - 1 \in T PROVE k \in T
    <2>1. N - (k - 1) \in 1..N /\ N - (k - 1) \in S /\ (N - (k - 1)) - 1 = N - k
      BY <1>2
    <2>2. N - k \in S
      BY <2>1
    <2> QED BY <2>2
  <1>3. \A k \in 0..N : k \in T
    <2> HIDE DEF T
    <2> QED BY <1>1, <1>2, Induction
  <1> QED
    <2> TAKE n \in 0..N
    <2>1. N - n \in 0..N /\ N - (N - n) = n
      OBVIOUS
    <2>2. N - n \in T
      BY <1>3, <2>1
    <2> QED BY <2>1, <2>2

\* f starts with v and follows N steps that take a value to the next one.
Steps(N, V) == [1..N -> [V -> V]]
Follows(f, N, V, v, step) ==
    f \in [0..N -> V] /\ f[0] = v /\ \A n \in 1..N : f[n] = step[n][f[n - 1]]

\* Values that follow from one another are the values of a function.
LEMMA Recursion ==
    ASSUME NEW N \in Nat, NEW V, NEW v \in V, NEW step \in Steps(N, V)
    PROVE  \E f : Follows(f, N, V, v, step)
  <1> USE DEF Steps
  <1> DEFINE IsUpTo(n, f) == f[0] = v /\ \A k \in 1..n : f[k] = step[k][f[k - 1]]
             S == {n \in 0..N : \E f \in [0..n -> V] : IsUpTo(n, f)}
  <1>1. 0 \in S
    <2> DEFINE f == [k \in 0..0 |-> v]
    <2>1. f \in [0..0 -> V] /\ IsUpTo(0, f)
      OBVIOUS
    <2>2. 0 \in 0..N
      OBVIOUS
    <2> HIDE DEF f, IsUpTo
    <2> QED BY <2>1, <2>2
  <1>2. ASSUME NEW n \in 1..N, n - 1 \in S PROVE n \in S
    <2>1. PICK f \in [0..(n - 1) -> V] : IsUpTo(n - 1, f)
      BY <1>2
    <2> DEFINE g == [k \in 0..n |-> IF k = n THEN step[n][f[n - 1]] ELSE f[k]]
    <2>2. f[n - 1] \in V /\ step[n][f[n - 1]] \in V
      OBVIOUS
    <2>3. g \in [0..n -> V]
      BY <2>2
    <2>4. g[0] = v /\ g[n] = step[n][g[n - 1]]
      BY <2>1
    <2>5. ASSUME NEW k \in 1..(n - 1) PROVE g[k] = step[k][g[k - 1]]
      BY <2>1
    <2>6. \A k \in 1..n : k = n \/ k \in 1..(n - 1)
      OBVIOUS
    <2>7. n \in 0..N
      OBVIOUS
    <2> HIDE DEF g
    <2>8. IsUpTo(n, g)
      BY <2>4, <2>5, <2>6
    <2> QED BY <2>3, <2>7, <2>8
  <1>3. \A n \in 0..N : n \in S
    <2> HIDE DEF S
    <2> QED BY <1>1, <1>2, Induction
  <1>4. N \in 0..N
    OBVIOUS
  <1> QED BY <1>3, <1>4 DEF Follows
-----------------------------------------------------------------------------
(* The numbers and the bytes of a signal.                                  *)

\* Division with a positive divisor, as the arithmetic below needs it.
LEMMA Division ==
    ASSUME NEW m \in Int, NEW e \in Int, e > 0
    PROVE  /\ m \div e \in Int /\ m % e \in 0..(e - 1)
           /\ m = e * (m \div e) + (m % e)
  BY Z3

\* Products of integers, spelled out for the arithmetic below.
LEMMA Distribute ==
    ASSUME NEW a \in Int, NEW b \in Int, NEW c \in Int
    PROVE  a * c \in Int /\ (a - b) * c = a * c - b * c
  BY Z3

\* With a positive scale, round takes a nearest multiple of it.
LEMMA RoundPositive ==
    ASSUME NEW n \in Int, NEW d \in Int, d > 0
    PROVE  /\ Round(n, d) \in Int
           /\ -d <= 2 * (n - Round(n, d) * d)
           /\ 2 * (n - Round(n, d) * d) <= d
  <1> DEFINE q == n \div d
             r == n % d
  <1>1. q \in Int /\ r \in 0..(d - 1) /\ n = d * q + r
    BY Division
  <1>2. \/ Round(n, d) = q /\ 2 * r <= d
        \/ Round(n, d) = q + 1 /\ d <= 2 * r
    BY <1>1 DEF Round
  <1>3. /\ q * d = d * q /\ (q + 1) * d = d * q + d
        /\ d * q \in Int
    BY <1>1, Z3
  <1> HIDE DEF q, r
  <1> QED BY <1>1, <1>2, <1>3

\* round takes a nearest multiple of the scale, whatever its sign.
LEMMA RoundNearest ==
    ASSUME NEW n \in Int, NEW d \in Int, d # 0
    PROVE  /\ Round(n, d) \in Int
           /\ Distance(2 * n, 2 * (Round(n, d) * d)) <= Distance(d, 0)
  <1>1. CASE d > 0
    <2> DEFINE p == Round(n, d) * d
    <2>1. p \in Int /\ -d <= 2 * (n - p) /\ 2 * (n - p) <= d
      BY <1>1, RoundPositive, Distribute
    <2> HIDE DEF p
    <2>2. Distance(2 * n, 2 * p) <= Distance(d, 0)
      BY <1>1, <2>1 DEF Distance
    <2> QED BY <1>1, <2>2, RoundPositive DEF p
  <1>2. CASE d < 0
    <2>1. Round(n, d) = Round(-n, -d)
      BY <1>2 DEF Round
    <2>2. /\ Round(-n, -d) \in Int
          /\ -(-d) <= 2 * (-n - Round(-n, -d) * (-d))
          /\ 2 * (-n - Round(-n, -d) * (-d)) <= -d
      BY <1>2, RoundPositive
    <2>3. Round(n, d) * (-d) = -(Round(n, d) * d) /\ Round(n, d) * d \in Int
      BY <2>1, <2>2, Z3
    <2> QED BY <1>2, <2>1, <2>2, <2>3 DEF Distance
  <1> QED BY <1>1, <1>2

\* A multiple of the scale is rounded to itself.
LEMMA RoundExact ==
    ASSUME NEW k \in Int, NEW d \in Int, d # 0
    PROVE  Round(k * d, d) = k
  <1> DEFINE r == Round(k * d, d)
  <1>1. k * d \in Int /\ r \in Int /\ r * d \in Int
    BY RoundNearest, Z3
  <1>2. Distance(2 * (k * d), 2 * (r * d)) <= Distance(d, 0)
    BY <1>1, RoundNearest
  <1>3. Distance((k - r) * (2 * d), 0) <= Distance(d, 0)
    <2> HIDE DEF r
    <2>1. (k - r) * (2 * d) = k * (2 * d) - r * (2 * d)
      BY <1>1, Distribute
    <2>2. k * (2 * d) = 2 * (k * d) /\ r * (2 * d) = 2 * (r * d)
      BY <1>1, Z3
    <2> QED BY <1>1, <1>2, <2>1, <2>2 DEF Distance
  <1> HIDE DEF r
  <1>4. k - r = 0
    <2>1. CASE k - r >= 1 /\ d > 0
      <3>1. (k - r) * (2 * d) >= 2 * d
        BY <1>1, <2>1, Z3
      <3> QED BY <1>1, <1>3, <2>1, <3>1 DEF Distance
    <2>2. CASE k - r >= 1 /\ d < 0
      <3>1. (k - r) * (2 * d) <= 2 * d
        BY <1>1, <2>2, Z3
      <3> QED BY <1>1, <1>3, <2>2, <3>1 DEF Distance
    <2>3. CASE k - r <= -1 /\ d > 0
      <3>1. (k - r) * (2 * d) <= -(2 * d)
        BY <1>1, <2>3, Z3
      <3> QED BY <1>1, <1>3, <2>3, <3>1 DEF Distance
    <2>4. CASE k - r <= -1 /\ d < 0
      <3>1. (k - r) * (2 * d) >= -(2 * d)
        BY <1>1, <2>4, Z3
      <3> QED BY <1>1, <1>3, <2>4, <3>1 DEF Distance
    <2> QED BY <1>1, <2>1, <2>2, <2>3, <2>4
  <1>5. r = k
    BY <1>1, <1>4
  <1> QED BY <1>5 DEF r

\* The range and the span of each type, as numbers.
LEMMA Ranges ==
    ASSUME NEW t \in Type
    PROVE  /\ SizeOf(t) \in {1, 2, 4}
           /\ Lo(t) \in Int /\ Hi(t) \in Int /\ Lo(t) <= 0 /\ 0 < Hi(t)
           /\ t \in {"u8", "u16", "u32"} => Lo(t) = 0 /\ Hi(t) = Span(t) - 1
           /\ t \in {"i8", "i16", "i32"} => /\ Lo(t) = -(Span(t) \div 2)
                                            /\ Hi(t) = (Span(t) \div 2) - 1
           /\ SizeOf(t) = 1 => Span(t) = 256
           /\ SizeOf(t) = 2 => Span(t) = 65536
           /\ SizeOf(t) = 4 => Span(t) = 4294967296
  BY SMT DEF Type, SizeOf, Lo, Hi, Span

\* With a positive scale: clamping a rounded number to a range gives the
\* number of the range whose multiple is nearest.
LEMMA ClampNearest ==
    ASSUME NEW n \in Int, NEW d \in Int, d > 0, NEW lo \in Int, NEW hi \in Int,
           NEW x \in Int, NEW raw \in lo..hi,
           -d <= 2 * (n - x * d), 2 * (n - x * d) <= d
    PROVE  Distance(Clamp(x, lo, hi) * d, n) <= Distance(raw * d, n)
  <1> DEFINE c == Clamp(x, lo, hi)
  <1>1. /\ c \in Int /\ lo <= c /\ c <= hi
        /\ c = x \/ (x < c /\ c = lo) \/ (c < x /\ c = hi)
    BY DEF Clamp
  <1>2. c * d \in Int /\ x * d \in Int /\ raw * d \in Int
    BY <1>1, Distribute
  <1>3. ASSUME NEW a \in Int, NEW b \in Int, a < b
        PROVE  a * d + d <= b * d /\ a * d \in Int /\ b * d \in Int
    <2>1. (b - a) * d >= d
      BY <1>3, Z3
    <2> QED BY <2>1, Distribute
  <1> HIDE DEF c
  <1>4. CASE c = x
    <2>1. CASE raw < x
      <3>1. raw * d + d <= x * d
        BY <1>3, <2>1
      <3>2. Distance(x * d, n) <= Distance(raw * d, n)
        BY <1>2, <3>1 DEF Distance
      <3> QED BY <1>4, <3>2 DEF c
    <2>2. CASE x < raw
      <3>1. x * d + d <= raw * d
        BY <1>3, <2>2
      <3>2. Distance(x * d, n) <= Distance(raw * d, n)
        BY <1>2, <3>1 DEF Distance
      <3> QED BY <1>4, <3>2 DEF c
    <2>3. CASE raw = x
      BY <1>2, <1>4, <2>3 DEF Distance, c
    <2> QED BY <2>1, <2>2, <2>3
  <1>5. CASE x < c /\ c = lo
    <2>1. x * d + d <= c * d
      BY <1>1, <1>3, <1>5
    <2>2. c * d <= raw * d
      BY <1>1, <1>2, <1>3, <1>5
    <2>3. Distance(c * d, n) <= Distance(raw * d, n)
      BY <1>2, <2>1, <2>2 DEF Distance
    <2> QED BY <2>3 DEF c
  <1>6. CASE c < x /\ c = hi
    <2>1. c * d + d <= x * d
      BY <1>1, <1>3, <1>6
    <2>2. raw * d <= c * d
      BY <1>1, <1>2, <1>3, <1>6
    <2>3. Distance(c * d, n) <= Distance(raw * d, n)
      BY <1>2, <2>1, <2>2 DEF Distance
    <2> QED BY <2>3 DEF c
  <1> QED BY <1>1, <1>4, <1>5, <1>6

\* encode stands for a value by the number of the signal's range whose value
\* is nearest to it, whatever the signal's scale and offset are.
THEOREM NearestRepresentable ==
    ASSUME NEW s, IsSignal(s), NEW wanted \in Int,
           NEW raw \in Lo(s.type)..Hi(s.type)
    PROVE  Distance(Phys(s, Raw(s, wanted)), wanted) <= Distance(Phys(s, raw), wanted)
  <1> DEFINE n == wanted - s.offset
             d == s.scale
             lo == Lo(s.type)
             hi == Hi(s.type)
             x == Round(n, d)
             c == Clamp(x, lo, hi)
  <1>1. n \in Int /\ d \in Int /\ d # 0 /\ lo \in Int /\ hi \in Int
    BY Ranges DEF IsSignal
  <1>2. x \in Int /\ Distance(2 * n, 2 * (x * d)) <= Distance(d, 0)
    BY <1>1, RoundNearest
  <1>3. c \in Int
    BY <1>1, <1>2 DEF Clamp
  <1> HIDE DEF n, d, lo, hi, x, c
  <1>4. x * d \in Int /\ c * d \in Int /\ raw * d \in Int
    BY <1>1, <1>2, <1>3, Distribute DEF lo, hi
  <1>5. Distance(c * d, n) <= Distance(raw * d, n)
    <2>1. CASE d > 0
      <3>1. -d <= 2 * (n - x * d) /\ 2 * (n - x * d) <= d
        BY <1>1, <1>2, <1>4, <2>1 DEF Distance
      <3> QED BY <1>1, <1>2, <2>1, <3>1, ClampNearest DEF c, lo, hi
    <2>2. CASE d < 0
      <3>1. x * (-d) = -(x * d) /\ c * (-d) = -(c * d) /\ raw * (-d) = -(raw * d)
        BY <1>1, <1>2, <1>3, Z3 DEF lo, hi
      <3>2. -(-d) <= 2 * (-n - x * (-d)) /\ 2 * (-n - x * (-d)) <= -d
        BY <1>1, <1>2, <1>4, <2>2, <3>1 DEF Distance
      <3> DEFINE m == -n
                 e == -d
      <3>3. /\ m \in Int /\ e \in Int /\ e > 0 /\ raw \in lo..hi
            /\ -e <= 2 * (m - x * e) /\ 2 * (m - x * e) <= e
        BY <1>1, <2>2, <3>2 DEF lo, hi
      <3> HIDE DEF m, e
      <3>4. Distance(c * e, m) <= Distance(raw * e, m)
        BY <1>1, <1>2, <3>3, ClampNearest DEF c
      <3> QED BY <1>1, <1>4, <3>1, <3>4 DEF Distance, m, e
    <2> QED BY <1>1, <2>1, <2>2
  <1>6. /\ Phys(s, Raw(s, wanted)) = c * d + s.offset
        /\ Phys(s, raw) = raw * d + s.offset
        /\ wanted = n + s.offset /\ s.offset \in Int
    BY DEF Phys, Raw, IsSignal, c, x, n, d, lo, hi
  <1> QED BY <1>1, <1>4, <1>5, <1>6 DEF Distance

\* A value that was decoded is encoded as the number it came from.
THEOREM NoDrift ==
    ASSUME NEW s, IsSignal(s), NEW raw \in Lo(s.type)..Hi(s.type)
    PROVE  Raw(s, Phys(s, raw)) = raw
  <1>1. raw \in Int /\ s.scale \in Int /\ s.scale # 0 /\ s.offset \in Int
        /\ Lo(s.type) \in Int /\ Hi(s.type) \in Int
    BY Ranges DEF IsSignal
  <1>2. raw * s.scale \in Int
    BY <1>1, Distribute
  <1>3. Phys(s, raw) - s.offset = raw * s.scale
    BY <1>1, <1>2 DEF Phys
  <1>4. Round(Phys(s, raw) - s.offset, s.scale) = raw
    BY <1>1, <1>3, RoundExact
  <1> QED BY <1>1, <1>4 DEF Raw, Clamp

\* The bytes of a signal.
Word(t) == {b \in Seq(Byte) : Len(b) = SizeOf(t)}

\* A short sequence is given by its bytes.
LEMMA Elements ==
    ASSUME NEW S, NEW b \in Seq(S)
    PROVE  /\ Len(b) = 1 => \E p \in S : b = <<p>>
           /\ Len(b) = 2 => \E p, q \in S : b = <<p, q>>
           /\ Len(b) = 4 => \E p, q, r, u \in S : b = <<p, q, r, u>>
  <1>1. ASSUME Len(b) = 1 PROVE \E p \in S : b = <<p>>
    <2>1. b = <<b[1]>> /\ b[1] \in S
      BY <1>1, ElementOfSeq
    <2> QED BY <2>1
  <1>2. ASSUME Len(b) = 2 PROVE \E p, q \in S : b = <<p, q>>
    <2>1. b = <<b[1], b[2]>> 
      BY <1>2
    <2>2. b[1] \in S /\ b[2] \in S
      BY <1>2, ElementOfSeq
    <2> QED BY <2>1, <2>2
  <1>3. ASSUME Len(b) = 4 PROVE \E p, q, r, u \in S : b = <<p, q, r, u>>
    <2>1. b = <<b[1], b[2], b[3], b[4]>> 
      BY <1>3
    <2>2. b[1] \in S /\ b[2] \in S /\ b[3] \in S /\ b[4] \in S
      BY <1>3, ElementOfSeq
    <2> QED BY <2>1, <2>2
  <1> QED BY <1>1, <1>2, <1>3

\* The numbers of one, two and four bytes are those below the span.
LEMMA WordNumber ==
    ASSUME NEW t \in Type, NEW b \in Word(t)
    PROVE  /\ Number(b) \in Int /\ 0 <= Number(b) /\ Number(b) < Span(t)
           /\ BigEndian(Number(b), SizeOf(t)) = b
  <1>1. b \in Seq(Byte) /\ Len(b) = SizeOf(t)
    BY DEF Word
  <1>2. CASE SizeOf(t) = 1
    <2>1. PICK p \in Byte : b = <<p>>
      BY <1>1, <1>2, Elements
    <2> USE DEF Byte
    <2>2. Number(<<p>>) = p /\ BigEndian(p, 1) = <<p>>
      BY DEF Number, BigEndian
    <2>3. Span(t) = 256
      BY <1>2, Ranges
    <2> QED BY <1>2, <2>1, <2>2, <2>3
  <1>3. CASE SizeOf(t) = 2
    <2>1. PICK p \in Byte, q \in Byte : b = <<p, q>>
      BY <1>1, <1>3, Elements
    <2> USE DEF Byte
    <2>2. PICK w \in Int : w = 256 * p + q
      OBVIOUS
    <2>3. Number(<<p, q>>) = w
      BY <2>2 DEF Number
    <2>4. BigEndian(w, 2) = <<p, q>>
      <3>1. w \div 256 = p /\ w % 256 = q
        BY <2>2, Z3
      <3> QED BY <3>1 DEF BigEndian
    <2>5. Span(t) = 65536
      BY <1>3, Ranges, Z3
    <2>6. 0 <= w /\ w < Span(t)
      BY <2>2, <2>5, Z3
    <2> QED BY <1>3, <2>1, <2>3, <2>4, <2>6
  <1>4. CASE SizeOf(t) = 4
    <2>1. PICK p \in Byte, q \in Byte, r \in Byte, u \in Byte : b = <<p, q, r, u>>
      BY <1>1, <1>4, Elements
    <2> USE DEF Byte
    <2>2. PICK w2 \in Int : w2 = 256 * p + q
      OBVIOUS
    <2>3. PICK w3 \in Int : w3 = 256 * w2 + r
      OBVIOUS
    <2>4. PICK w4 \in Int : w4 = 256 * w3 + u
      OBVIOUS
    <2>5. Number(<<p, q, r, u>>) = w4
      BY <2>2, <2>3, <2>4 DEF Number
    <2>6. BigEndian(w4, 4) = <<p, q, r, u>>
      <3>1. w2 \in Nat /\ w2 \div 256 = p /\ w2 % 256 = q
        BY <2>2, Z3
      <3>2. w3 \in Nat /\ w3 \div 256 = w2 /\ w3 % 256 = r
        BY <2>3, <3>1, Z3
      <3>3. w4 \div 256 = w3 /\ w4 % 256 = u
        BY <2>4, <3>2, Z3
      <3>4. BigEndian(w4, 4) =
              <<((w4 \div 256) \div 256) \div 256, ((w4 \div 256) \div 256) % 256,
                (w4 \div 256) % 256, w4 % 256>>
        BY DEF BigEndian
      <3> QED BY <3>1, <3>2, <3>3, <3>4
    <2>7. Span(t) = 4294967296
      BY <1>4, Ranges, Z3
    <2>8. 0 <= w4 /\ w4 < Span(t)
      BY <2>2, <2>3, <2>4, <2>7, Z3
    <2> QED BY <1>4, <2>1, <2>5, <2>6, <2>8
  <1> QED BY <1>2, <1>3, <1>4, Ranges

\* Reading a signal's bytes gives a number of its range, and packing that
\* number gives the bytes back.
LEMMA PackUnpack ==
    ASSUME NEW t \in Type, NEW b \in Word(t)
    PROVE  /\ Unpack(t, b) \in Lo(t)..Hi(t)
           /\ Pack(t, Unpack(t, b)) = b
  <1>1. PICK u \in Int, n \in Int, lo \in Int, hi \in Int :
            /\ u = Number(b) /\ n = Span(t) /\ lo = Lo(t) /\ hi = Hi(t)
            /\ 0 <= u /\ u < n
    <2>1. Span(t) \in Int
      BY Ranges, Z3
    <2> QED BY <2>1, WordNumber, Ranges, Z3
  <1>2. BigEndian(u, SizeOf(t)) = b
    BY <1>1, WordNumber, Z3
  <1>3. \/ lo = 0 /\ hi = n - 1
        \/ lo = -(n \div 2) /\ hi = (n \div 2) - 1 /\ n = 2 * (n \div 2)
    <2>1. t \in {"u8", "u16", "u32"} \/ t \in {"i8", "i16", "i32"}
      BY DEF Type
    <2>2. n = 2 * (n \div 2)
      BY <1>1, Ranges, Z3
    <2> QED BY <1>1, <2>1, <2>2, Ranges, Z3
  <1>4. PICK raw \in Int : raw = IF u > hi THEN u - n ELSE u
    BY Z3
  <1>5. raw = Unpack(t, b)
    BY <1>1, <1>4, Z3 DEF Unpack
  <1>6. lo <= raw /\ raw <= hi /\ u = IF raw < 0 THEN raw + n ELSE raw
    BY <1>1, <1>3, <1>4, Z3
  <1>7. raw \in Lo(t)..Hi(t)
    BY <1>1, <1>6, Z3
  <1>8. Pack(t, raw) = BigEndian(u, SizeOf(t))
    BY <1>1, <1>6, Z3 DEF Pack
  <1> QED BY <1>2, <1>5, <1>7, <1>8

\* Whatever bytes a request has for a signal, the response has the same.
THEOREM FieldEchoed ==
    ASSUME NEW s, IsSignal(s), NEW b \in Word(s.type)
    PROVE  Pack(s.type, Raw(s, Phys(s, Unpack(s.type, b)))) = b
  <1>1. s.type \in Type
    BY DEF IsSignal
  <1>2. Unpack(s.type, b) \in Lo(s.type)..Hi(s.type)
    BY <1>1, PackUnpack
  <1>3. Raw(s, Phys(s, Unpack(s.type, b))) = Unpack(s.type, b)
    BY <1>2, NoDrift
  <1> QED BY <1>1, <1>3, PackUnpack
\* Four members of a set in a row.
LEMMA FourInARow ==
    ASSUME NEW S, NEW p \in S, NEW q \in S, NEW r \in S, NEW u \in S
    PROVE  <<p, q, r, u>> \in Seq(S) /\ Len(<<p, q, r, u>>) = 4
  OBVIOUS

\* A number below the span is given by its bytes.
LEMMA NumberWord ==
    ASSUME NEW t \in Type, NEW u \in Nat, u < Span(t)
    PROVE  /\ BigEndian(u, SizeOf(t)) \in Word(t)
           /\ Number(BigEndian(u, SizeOf(t))) = u
  <1>1. PICK a \in Nat, r \in 0..255 : a = u \div 256 /\ r = u % 256 /\ u = 256 * a + r
    BY Z3
  <1>2. PICK b \in Nat, q \in 0..255 : b = a \div 256 /\ q = a % 256 /\ a = 256 * b + q
    BY Z3
  <1>3. PICK c \in Nat, p \in 0..255 : c = b \div 256 /\ p = b % 256 /\ b = 256 * c + p
    BY Z3
  <1> USE DEF Byte
  <1>4. CASE SizeOf(t) = 1
    <2>1. BigEndian(u, 1) = <<u>> /\ Number(<<u>>) = u
      BY DEF BigEndian, Number
    <2>2. u \in Byte
      BY <1>4, Ranges
    <2>3. <<u>> \in Seq(Byte) /\ Len(<<u>>) = 1
      BY <2>2
    <2> QED BY <1>4, <2>1, <2>3 DEF Word
  <1>5. CASE SizeOf(t) = 2
    <2>1. BigEndian(u, 2) = <<a, r>> /\ Number(<<a, r>>) = u
      BY <1>1 DEF BigEndian, Number
    <2>2. a \in Byte
      BY <1>1, <1>5, Ranges
    <2>3. <<a, r>> \in Seq(Byte) /\ Len(<<a, r>>) = 2
      BY <2>2
    <2> QED BY <1>5, <2>1, <2>3 DEF Word
  <1>6. CASE SizeOf(t) = 4
    <2>1. BigEndian(u, 4) = <<c, p, q, r>> /\ Number(<<c, p, q, r>>) = u
      BY <1>1, <1>2, <1>3 DEF BigEndian, Number
    <2>2. c \in Byte
      BY <1>1, <1>2, <1>3, <1>6, Ranges
    <2>3. <<c, p, q, r>> \in Seq(Byte) /\ Len(<<c, p, q, r>>) = 4
      BY <2>2, FourInARow
    <2> QED BY <1>6, <2>1, <2>3 DEF Word
  <1> QED BY <1>4, <1>5, <1>6, Ranges

\* Packing a number of a signal's range and reading it gives it back.
LEMMA UnpackPack ==
    ASSUME NEW t \in Type, NEW raw \in Lo(t)..Hi(t)
    PROVE  Pack(t, raw) \in Word(t) /\ Unpack(t, Pack(t, raw)) = raw
  <1>1. PICK n \in Int, lo \in Int, hi \in Int :
            n = Span(t) /\ lo = Lo(t) /\ hi = Hi(t) /\ n > 0
    <2>1. Span(t) \in Int /\ Span(t) > 0
      BY Ranges, Z3
    <2> QED BY <2>1, Ranges, Z3
  <1>2. \/ lo = 0 /\ hi = n - 1
        \/ lo = -(n \div 2) /\ hi = (n \div 2) - 1 /\ n = 2 * (n \div 2)
    <2>1. t \in {"u8", "u16", "u32"} \/ t \in {"i8", "i16", "i32"}
      BY DEF Type
    <2>2. n = 2 * (n \div 2)
      BY <1>1, Ranges, Z3
    <2> QED BY <1>1, <2>1, <2>2, Ranges, Z3
  <1>3. raw \in Int /\ lo <= raw /\ raw <= hi
    BY <1>1
  <1>4. PICK u \in Nat : u = (IF raw < 0 THEN raw + n ELSE raw) /\ u < n
    BY <1>1, <1>2, <1>3, Z3
  <1>5. raw = IF u > hi THEN u - n ELSE u
    BY <1>1, <1>2, <1>3, <1>4, Z3
  <1>6. Pack(t, raw) = BigEndian(u, SizeOf(t))
    BY <1>1, <1>4, Z3 DEF Pack
  <1>7. BigEndian(u, SizeOf(t)) \in Word(t) /\ Number(BigEndian(u, SizeOf(t))) = u
    BY <1>1, <1>4, NumberWord
  <1> QED BY <1>1, <1>5, <1>6, <1>7 DEF Unpack

\* The values a signal may be given.
AreNumbers(values) == \A n \in DOMAIN values : values[n] \in Int

\* The bytes of a signal stand for the number of its range that was chosen.
LEMMA PackedWord ==
    ASSUME NEW s, IsSignal(s), NEW values, AreNumbers(values)
    PROVE  /\ ValueOf(values, s) \in Int
           /\ Raw(s, ValueOf(values, s)) \in Lo(s.type)..Hi(s.type)
           /\ Packed(s, values) \in Word(s.type)
           /\ Unpack(s.type, Packed(s, values)) = Raw(s, ValueOf(values, s))
  <1> DEFINE v == ValueOf(values, s)
  <1>1. v \in Int
    BY DEF ValueOf, AreNumbers, IsSignal
  <1> HIDE DEF v
  <1>2. /\ s.type \in Type /\ s.scale \in Int /\ s.scale # 0 /\ v - s.offset \in Int
        /\ Lo(s.type) \in Int /\ Hi(s.type) \in Int /\ Lo(s.type) <= Hi(s.type)
    BY <1>1, Ranges DEF IsSignal
  <1>3. Round(v - s.offset, s.scale) \in Int
    BY <1>2, RoundNearest
  <1>4. Raw(s, v) \in Lo(s.type)..Hi(s.type)
    BY <1>2, <1>3 DEF Raw, Clamp
  <1> QED BY <1>1, <1>2, <1>4, UnpackPack DEF Packed, v

-----------------------------------------------------------------------------
(* encode and decode.                                                      *)

\* A signal's bytes start where those of the one before it end.
LEMMA Offsets ==
    ASSUME NEW S, \A s \in S : IsSignal(s), NEW sigs \in Seq(S)
    PROVE  /\ offsets(sigs) \in [0..Len(sigs) -> Nat]
           /\ offsets(sigs)[0] = 0
           /\ \A n \in 1..Len(sigs) :
                 offsets(sigs)[n] = offsets(sigs)[n - 1] + SizeOf(sigs[n].type)
  <1> DEFINE N == Len(sigs)
             step == [n \in 1..N |-> [v \in Nat |-> v + SizeOf(sigs[n].type)]]
             Def(f) == f = [n \in 0..N |->
                               IF n = 0 THEN 0 ELSE f[n - 1] + SizeOf(sigs[n].type)]
  <1>1. N \in Nat /\ \A n \in 1..N : SizeOf(sigs[n].type) \in Nat
    <2> SUFFICES ASSUME NEW n \in 1..N PROVE SizeOf(sigs[n].type) \in Nat
      OBVIOUS
    <2>1. sigs[n] \in S
      BY ElementOfSeq
    <2> QED BY <2>1, Ranges DEF IsSignal
  <1>2. step \in [1..N -> [Nat -> Nat]]
    BY <1>1
  <1>3. PICK f : Follows(f, N, Nat, 0, step)
    <2> DEFINE V == Nat
               v == 0
    <2>1. v \in V /\ step \in Steps(N, V)
      BY <1>2 DEF Steps
    <2> HIDE DEF step, N, V, v
    <2>2. \E f : Follows(f, N, V, v, step)
      BY <1>1, <2>1, Recursion
    <2> QED BY <2>2 DEF V, v
  <1>4. \A n \in 1..N : f[n] = f[n - 1] + SizeOf(sigs[n].type)
    <2> HIDE DEF N
    <2> TAKE n \in 1..N
    <2>1. f[n - 1] \in Nat
      BY <1>1, <1>3 DEF Follows
    <2> QED BY <1>3, <2>1 DEF Follows
  <1>5. Def(f)
    <2> HIDE DEF N
    <2>1. \A n \in 0..N : n = 0 \/ n \in 1..N
      BY <1>1
    <2> QED BY <1>3, <1>4, <2>1 DEF Follows
  <1>6. offsets(sigs) = CHOOSE g : Def(g)
    BY DEF offsets
  <1>7. Def(offsets(sigs))
    <2> HIDE DEF Def
    <2> QED BY <1>5, <1>6
  <1> DEFINE off == offsets(sigs)
  <1> HIDE DEF off, N
  <1>8. off = [n \in 0..N |-> IF n = 0 THEN 0 ELSE off[n - 1] + SizeOf(sigs[n].type)]
    BY <1>7 DEF off, N
  <1>9. off[0] = 0 /\ \A n \in 1..N : off[n] = off[n - 1] + SizeOf(sigs[n].type)
    <2>1. 0 \in 0..N /\ \A n \in 1..N : n \in 0..N /\ n # 0
      BY <1>1
    <2> QED BY <1>8, <2>1
  <1>10. \A n \in 0..N : off[n] \in Nat
    <2> DEFINE T == {n \in 0..N : off[n] \in Nat}
    <2>1. 0 \in T
      BY <1>1, <1>9
    <2>2. ASSUME NEW n \in 1..N, n - 1 \in T PROVE n \in T
      BY <1>1, <1>9, <2>2
    <2> HIDE DEF T
    <2>3. \A n \in 0..N : n \in T
      BY <1>1, <2>1, <2>2, Induction
    <2> QED BY <2>3 DEF T
  <1>11. off \in [0..N -> Nat]
    BY <1>8, <1>10
  <1> QED BY <1>9, <1>11 DEF off, N

\* The bytes of the signals do not overlap.
LEMMA OffsetsGrow ==
    ASSUME NEW S, \A s \in S : IsSignal(s), NEW sigs \in Seq(S)
    PROVE  /\ encoded_size(sigs) \in Nat
           /\ \A m \in 0..Len(sigs) : \A n \in 0..m : offsets(sigs)[n] <= offsets(sigs)[m]
           /\ \A n \in 0..Len(sigs) : offsets(sigs)[n] <= encoded_size(sigs)
  <1> DEFINE N == Len(sigs)
             off == offsets(sigs)
  <1>1. N \in Nat /\ off \in [0..N -> Nat] 
    BY Offsets
  <1>2. \A n \in 1..N : off[n] = off[n - 1] + SizeOf(sigs[n].type) /\ SizeOf(sigs[n].type) \in Nat
    <2> TAKE n \in 1..N
    <2>1. IsSignal(sigs[n])
      BY ElementOfSeq
    <2>2. SizeOf(sigs[n].type) \in Nat
      BY <2>1 DEF IsSignal, SizeOf
    <2> QED BY <2>2, Offsets
  <1> HIDE DEF off, N
  <1>3. ASSUME NEW m \in 0..N PROVE \A n \in 0..m : off[n] <= off[m]
    <2> DEFINE T == {n \in 0..m : off[n] <= off[m]}
    <2>1. m \in T /\ m \in Nat
      BY <1>1
    <2>2. ASSUME NEW n \in 1..m, n \in T PROVE n - 1 \in T
      <3>1. n - 1 \in 0..m /\ off[n - 1] \in Nat /\ off[m] \in Nat /\ n \in 1..N
        BY <1>1
      <3>2. off[n] <= off[m] /\ off[n] = off[n - 1] + SizeOf(sigs[n].type)
            /\ SizeOf(sigs[n].type) \in Nat
        BY <1>2, <2>2, <3>1
      <3> QED BY <3>1, <3>2
    <2>3. \A n \in 0..m : n \in T
      <3> HIDE DEF T
      <3> QED BY <2>1, <2>2, InductionDown
    <2> QED BY <2>3
  <1>4. N \in 0..N
    BY <1>1
  <1> QED BY <1>1, <1>3, <1>4 DEF off, N, encoded_size

\* A stretch of a sequence.
LEMMA Slice ==
    ASSUME NEW S, NEW b \in Seq(S), NEW i \in Nat, NEW j \in Nat, i <= j, j <= Len(b)
    PROVE  /\ SubSeq(b, i + 1, j) \in Seq(S)
           /\ Len(SubSeq(b, i + 1, j)) = j - i
           /\ \A k \in 1..(j - i) : SubSeq(b, i + 1, j)[k] = b[i + k]
  <1>1. \A k \in (i + 1)..j : b[k] \in S
    <2> TAKE k \in (i + 1)..j
    <2>1. k \in 1..Len(b)
      OBVIOUS
    <2> QED BY <2>1, ElementOfSeq
  <1>2. i + 1 \in Int /\ j \in Int
    OBVIOUS
  <1> DEFINE c == SubSeq(b, i + 1, j)
  <1>3. /\ c \in Seq(S) /\ Len(c) = IF i + 1 <= j THEN j - (i + 1) + 1 ELSE 0
        /\ \A k \in 1 .. (j - (i + 1) + 1) : c[k] = b[(i + 1) + k - 1]
    BY <1>1, <1>2, SubSeqProperties
  <1> HIDE DEF c
  <1>4. \A k \in 1..(j - i) : k \in 1 .. (j - (i + 1) + 1) /\ (i + 1) + k - 1 = i + k
    OBVIOUS
  <1>5. \A k \in 1..(j - i) : c[k] = b[i + k]
    BY <1>3, <1>4
  <1> QED BY <1>3, <1>5 DEF c

\* A stretch of the first of two sequences.
LEMMA FrontSlice ==
    ASSUME NEW S, NEW b \in Seq(S), NEW c \in Seq(S),
           NEW i \in Nat, NEW j \in Nat, i <= j, j <= Len(b)
    PROVE  SubSeq(b \o c, i + 1, j) = SubSeq(b, i + 1, j)
  <1>1. PICK d : d = b \o c
    OBVIOUS
  <1>2. /\ d \in Seq(S) /\ Len(d) = Len(b) + Len(c)
        /\ \A k \in 1..Len(b) : d[k] = b[k]
        /\ Len(b) \in Nat /\ Len(c) \in Nat
    BY <1>1
  <1>3. /\ SubSeq(b, i + 1, j) \in Seq(S) /\ Len(SubSeq(b, i + 1, j)) = j - i
        /\ \A k \in 1..(j - i) : SubSeq(b, i + 1, j)[k] = b[i + k]
    BY Slice
  <1>4. j <= Len(d)
    BY <1>2
  <1>5. /\ SubSeq(d, i + 1, j) \in Seq(S) /\ Len(SubSeq(d, i + 1, j)) = j - i
        /\ \A k \in 1..(j - i) : SubSeq(d, i + 1, j)[k] = d[i + k]
    BY <1>2, <1>4, Slice
  <1>6. \A k \in 1..(j - i) : d[i + k] = b[i + k]
    <2> TAKE k \in 1..(j - i)
    <2>1. i + k \in 1..Len(b)
      BY <1>2
    <2> QED BY <1>2, <2>1
  <1> QED BY <1>1, <1>3, <1>5, <1>6, SeqEqual

\* The second of two sequences.
LEMMA BackSlice ==
    ASSUME NEW S, NEW b \in Seq(S), NEW c \in Seq(S)
    PROVE  SubSeq(b \o c, Len(b) + 1, Len(b) + Len(c)) = c
  <1>0. Len(b) \in Nat /\ Len(c) \in Nat /\ Len(b) + Len(c) \in Nat
    OBVIOUS
  <1>1. PICK d : d = b \o c
    OBVIOUS
  <1> DEFINE n == Len(b)
             m == Len(b) + Len(c)
  <1>2. /\ d \in Seq(S) /\ Len(d) = m /\ n <= m /\ m - n = Len(c)
        /\ n \in Nat /\ m \in Nat /\ m <= Len(d)
        /\ \A k \in 1..Len(c) : d[n + k] = c[k]
    BY <1>0, <1>1
  <1> HIDE DEF n, m
  <1>3. /\ SubSeq(d, n + 1, m) \in Seq(S) /\ Len(SubSeq(d, n + 1, m)) = m - n
        /\ \A k \in 1..(m - n) : SubSeq(d, n + 1, m)[k] = d[n + k]
    BY <1>2, Slice
  <1> QED BY <1>1, <1>2, <1>3, SeqEqual DEF n, m

\* The first of two sequences.
LEMMA FrontWhole ==
    ASSUME NEW S, NEW b \in Seq(S), NEW c \in Seq(S)
    PROVE  SubSeq(b \o c, 1, Len(b)) = b
  <1>1. PICK z \in Nat : z + 1 = 1 /\ z <= Len(b) /\ Len(b) \in Nat
    OBVIOUS
  <1>2. SubSeq(b \o c, z + 1, Len(b)) = SubSeq(b, z + 1, Len(b))
    BY <1>1, FrontSlice
  <1> QED BY <1>1, <1>2, SubSeqFull

\* The bytes of the signals, one behind the other.
LEMMA Encoding ==
    ASSUME NEW S, \A s \in S : IsSignal(s), NEW sigs \in Seq(S),
           NEW values, AreNumbers(values)
    PROVE  \E out \in [0..Len(sigs) -> Seq(Byte)] :
              /\ encode(sigs, values) = out[Len(sigs)]
              /\ out[0] = <<>>
              /\ \A n \in 1..Len(sigs) : out[n] = out[n - 1] \o Packed(sigs[n], values)
  <1> DEFINE N == Len(sigs)
             V == Seq(Byte)
             v == <<>>
             w(n) == Packed(sigs[n], values)
             step == [n \in 1..N |-> [b \in V |-> b \o w(n)]]
             Def(f) == f = [n \in 0..N |-> IF n = 0 THEN <<>> ELSE f[n - 1] \o w(n)]
  <1>1. N \in Nat /\ v \in V /\ \A n \in 1..N : w(n) \in V
    <2> SUFFICES ASSUME NEW n \in 1..N PROVE w(n) \in V
      OBVIOUS
    <2>1. IsSignal(sigs[n])
      BY ElementOfSeq
    <2> QED BY <2>1, PackedWord DEF Word
  <1> HIDE DEF V
  <1>2. step \in Steps(N, V)
    <2>1. \A n \in 1..N : \A b \in V : b \o w(n) \in V
      BY <1>1, ConcatProperties DEF V
    <2> HIDE DEF w
    <2> QED BY <2>1 DEF Steps
  <1>3. PICK f : Follows(f, N, V, v, step)
    <2> HIDE DEF step, N, v
    <2> QED BY <1>1, <1>2, Recursion
  <1>4. f \in [0..N -> V] /\ f[0] = <<>> /\ \A n \in 1..N : f[n] = f[n - 1] \o w(n)
    <2> HIDE DEF N, w
    <2>1. f \in [0..N -> V] /\ f[0] = <<>> /\ \A n \in 1..N : f[n] = step[n][f[n - 1]]
      BY <1>3 DEF Follows
    <2>2. \A n \in 1..N : f[n - 1] \in V
      BY <1>1, <2>1
    <2> QED BY <2>1, <2>2
  <1>5. Def(f)
    <2> HIDE DEF N, w
    <2>1. \A n \in 0..N : n = 0 \/ n \in 1..N
      BY <1>1
    <2> QED BY <1>4, <2>1
  <1>6. encode(sigs, values) = (CHOOSE g : Def(g))[N]
    BY DEF encode
  <1>7. PICK g : Def(g) /\ encode(sigs, values) = g[N]
    <2> HIDE DEF Def
    <2> QED BY <1>5, <1>6
  <1> HIDE DEF N, w
  <1>8. g[0] = <<>> /\ \A n \in 1..N : g[n] = g[n - 1] \o w(n)
    <2>1. 0 \in 0..N /\ \A n \in 1..N : n \in 0..N /\ n # 0
      BY <1>1
    <2> QED BY <1>7, <2>1
  <1>9. \A n \in 0..N : g[n] \in V
    <2> DEFINE T == {n \in 0..N : g[n] \in V}
    <2>1. 0 \in T
      BY <1>1, <1>8
    <2>2. ASSUME NEW n \in 1..N, n - 1 \in T PROVE n \in T
      <3>1. g[n - 1] \in V /\ w(n) \in V
        BY <1>1, <2>2
      <3>2. g[n - 1] \o w(n) \in V
        BY <3>1, ConcatProperties DEF V
      <3>3. n \in 0..N /\ g[n] = g[n - 1] \o w(n)
        BY <1>1, <1>8
      <3> QED BY <3>2, <3>3
    <2> HIDE DEF T
    <2>3. \A n \in 0..N : n \in T
      BY <1>1, <2>1, <2>2, Induction
    <2> QED BY <2>3 DEF T
  <1>10. g \in [0..N -> V]
    BY <1>7, <1>9
  <1> QED BY <1>7, <1>8, <1>10 DEF N, V, w

\* encode gives every signal its bytes.
LEMMA EncodedFields ==
    ASSUME NEW S, \A s \in S : IsSignal(s), NEW sigs \in Seq(S),
           NEW values, AreNumbers(values)
    PROVE  /\ encode(sigs, values) \in Seq(Byte)
           /\ Len(encode(sigs, values)) = encoded_size(sigs)
           /\ \A i \in 1..Len(sigs) :
                 Field(sigs, encode(sigs, values), i) = Packed(sigs[i], values)
  <1> DEFINE N == Len(sigs)
             off == offsets(sigs)
             w(n) == Packed(sigs[n], values)
  <1>1. PICK out \in [0..N -> Seq(Byte)] :
            /\ encode(sigs, values) = out[N]
            /\ out[0] = <<>>
            /\ \A n \in 1..N : out[n] = out[n - 1] \o w(n)
    BY Encoding
  <1>2. N \in Nat /\ off \in [0..N -> Nat] /\ off[0] = 0
    BY Offsets
  <1>3. \A n \in 1..N : /\ w(n) \in Seq(Byte) /\ Len(w(n)) \in Nat
                        /\ off[n] = off[n - 1] + Len(w(n))
    <2> TAKE n \in 1..N
    <2>1. IsSignal(sigs[n])
      BY ElementOfSeq
    <2>2. w(n) \in Seq(Byte) /\ Len(w(n)) = SizeOf(sigs[n].type)
      BY <2>1, PackedWord DEF Word
    <2> QED BY <2>2, Offsets
  <1>8. \A m \in 0..N : \A n \in 0..m : off[n] <= off[m]
    BY OffsetsGrow
  <1> HIDE DEF N, off, w
  <1> DEFINE Has(n) == /\ Len(out[n]) = off[n]
                       /\ \A i \in 1..n : SubSeq(out[n], off[i - 1] + 1, off[i]) = w(i)
             T == {n \in 0..N : Has(n)}
  <1>4. 0 \in T
    BY <1>1, <1>2
  <1>5. ASSUME NEW n \in 1..N, n - 1 \in T PROVE n \in T
    <2> DEFINE b == out[n - 1]
               c == w(n)
    <2>1. b \in Seq(Byte) /\ Len(b) = off[n - 1] /\ c \in Seq(Byte) /\ out[n] = b \o c
      BY <1>1, <1>2, <1>3, <1>5
    <2>2. off[n] = off[n - 1] + Len(c) /\ off[n - 1] \in Nat /\ n \in 0..N /\ n \in Int
      BY <1>2, <1>3
    <2> HIDE DEF b, c
    <2>3. Len(out[n]) = off[n] 
      BY <2>1, <2>2, ConcatProperties
    <2>4. SubSeq(out[n], off[n - 1] + 1, off[n]) = c
      <3>1. SubSeq(b \o c, Len(b) + 1, Len(b) + Len(c)) = c
        BY <2>1, BackSlice
      <3>2. off[n - 1] = Len(b) /\ off[n] = Len(b) + Len(c) /\ out[n] = b \o c
        BY <2>1, <2>2
      <3> QED BY <3>1, <3>2
    <2>5. ASSUME NEW i \in 1..(n - 1)
          PROVE  SubSeq(out[n], off[i - 1] + 1, off[i]) = w(i)
      <3>1. SubSeq(b, off[i - 1] + 1, off[i]) = w(i)
        BY <1>5 DEF b
      <3>5. /\ i \in 0..N /\ i - 1 \in 0..i /\ i - 1 \in 0..N
            /\ n - 1 \in 0..N /\ i \in 0..(n - 1)
        BY <1>2
      <3>2. PICK j \in Nat, k \in Nat : j = off[i - 1] /\ k = off[i]
        BY <1>2, <3>5
      <3>3. j <= k /\ k <= Len(b)
        <4>2. off[i - 1] <= off[i] /\ off[i] <= off[n - 1]
          BY <1>8, <3>5
        <4> QED BY <2>1, <3>2, <4>2
      <3>4. SubSeq(b \o c, j + 1, k) = SubSeq(b, j + 1, k)
        <4>1. b \in Seq(Byte) /\ c \in Seq(Byte)
          BY <2>1
        <4> QED BY <3>3, <4>1, FrontSlice
      <3> QED BY <2>1, <3>1, <3>2, <3>4
    <2>6. \A i \in 1..n : i = n \/ i \in 1..(n - 1)
      BY <2>2
    <2> QED BY <2>2, <2>3, <2>4, <2>5, <2>6 DEF c
  <1>6. \A n \in 0..N : n \in T
    <2> HIDE DEF T
    <2> QED BY <1>2, <1>4, <1>5, Induction
  <1>7. N \in 0..N
    BY <1>2
  <1> QED BY <1>1, <1>6, <1>7 DEF N, off, w, Field, encoded_size

\* Bytes whose fields are those of the values are, up to the encoded size,
\* what encode makes of the values.
LEMMA EncodedPrefix ==
    ASSUME NEW S, \A s \in S : IsSignal(s), NEW sigs \in Seq(S),
           NEW values, AreNumbers(values),
           NEW b \in Seq(Byte), CanDecode(sigs, b),
           \A i \in 1..Len(sigs) : Field(sigs, b, i) = Packed(sigs[i], values)
    PROVE  encode(sigs, values) = SubSeq(b, 1, encoded_size(sigs))
  <1> DEFINE N == Len(sigs)
             off == offsets(sigs)
  <1>1. PICK out \in [0..N -> Seq(Byte)] :
            /\ encode(sigs, values) = out[N]
            /\ out[0] = <<>>
            /\ \A n \in 1..N : out[n] = out[n - 1] \o Packed(sigs[n], values)
    BY Encoding
  <1>2. N \in Nat /\ off \in [0..N -> Nat] /\ off[0] = 0
    BY Offsets
  <1>3. /\ \A m \in 0..N : \A n \in 0..m : off[n] <= off[m]
        /\ \A n \in 0..N : off[n] <= encoded_size(sigs)
        /\ encoded_size(sigs) \in Nat /\ encoded_size(sigs) = off[N]
    BY OffsetsGrow DEF encoded_size
  <1>4. \A n \in 1..N : Packed(sigs[n], values) = SubSeq(b, off[n - 1] + 1, off[n])
    BY DEF Field
  <1> HIDE DEF N, off
  <1> DEFINE T == {n \in 0..N : out[n] = SubSeq(b, 1, off[n])}
  <1>5. 0 \in T
    <2>1. SubSeq(b, 1, 0) = <<>>
      BY SubSeqEmpty
    <2> QED BY <1>1, <1>2, <2>1
  <1>6. ASSUME NEW n \in 1..N, n - 1 \in T PROVE n \in T
    <2>1. /\ n \in 0..N /\ n - 1 \in 0..n /\ off[n - 1] \in Nat /\ off[n] \in Nat
          /\ off[n - 1] <= off[n] /\ off[n] <= Len(b) /\ Len(b) \in Nat
      <3>1. n \in 0..N /\ n - 1 \in 0..n /\ n - 1 \in 0..N
        BY <1>2
      <3>2. off[n - 1] <= off[n] /\ off[n] <= encoded_size(sigs)
        BY <1>3, <3>1
      <3>3. encoded_size(sigs) <= Len(b)
        BY DEF CanDecode
      <3> QED BY <1>2, <1>3, <3>1, <3>2, <3>3
    <2>2. out[n] = SubSeq(b, 1, off[n - 1]) \o SubSeq(b, off[n - 1] + 1, off[n])
      BY <1>1, <1>4, <1>6
    <2>3. SubSeq(b, 1, off[n - 1]) \o SubSeq(b, off[n - 1] + 1, off[n]) = SubSeq(b, 1, off[n])
      <3>1. 1 \in 1 .. Len(b) + 1 /\ off[n - 1] \in (1 - 1) .. Len(b) /\ off[n] \in off[n - 1] .. Len(b)
        BY <2>1
      <3> QED BY <3>1, ConcatAdjacentSubSeq
    <2> QED BY <2>1, <2>2, <2>3
  <1>7. \A n \in 0..N : n \in T
    <2> HIDE DEF T
    <2> QED BY <1>2, <1>5, <1>6, Induction
  <1>8. N \in 0..N
    BY <1>2
  <1> QED BY <1>1, <1>3, <1>7, <1>8

\* The field of a signal, in bytes that begin like others.
LEMMA SameField ==
    ASSUME NEW S, \A s \in S : IsSignal(s), NEW sigs \in Seq(S),
           NEW b \in Seq(Byte), NEW c \in Seq(Byte), Len(b) = encoded_size(sigs),
           NEW i \in 1..Len(sigs)
    PROVE  /\ Field(sigs, b \o c, i) = Field(sigs, b, i)
           /\ Field(sigs, b, i) \in Word(sigs[i].type)
  <1> DEFINE off == offsets(sigs)
  <1>1. /\ off[i - 1] \in Nat /\ off[i] \in Nat /\ off[i - 1] <= off[i]
        /\ off[i] <= Len(b) /\ off[i] = off[i - 1] + SizeOf(sigs[i].type)
        /\ SizeOf(sigs[i].type) \in Nat
    <2>1. i \in 0..Len(sigs) /\ i - 1 \in 0..Len(sigs) /\ i - 1 \in 0..i
      OBVIOUS
    <2>2. off[i - 1] \in Nat /\ off[i] \in Nat /\ off[i] = off[i - 1] + SizeOf(sigs[i].type)
      BY <2>1, Offsets
    <2>3. off[i - 1] <= off[i] /\ off[i] <= Len(b)
      BY <2>1, OffsetsGrow
    <2>4. SizeOf(sigs[i].type) \in Nat
      BY DEF SizeOf
    <2> QED BY <2>2, <2>3, <2>4
  <1> HIDE DEF off
  <1>2. PICK l \in Nat, m \in Nat : /\ l = off[i - 1] /\ m = off[i] /\ l <= m /\ m <= Len(b)
                                    /\ m = l + SizeOf(sigs[i].type)
    BY <1>1
  <1>3. SubSeq(b \o c, l + 1, m) = SubSeq(b, l + 1, m)
    <2>1. l <= m /\ m <= Len(b)
      BY <1>2
    <2> QED BY <2>1, FrontSlice
  <1>4. SubSeq(b, l + 1, m) \in Seq(Byte) /\ Len(SubSeq(b, l + 1, m)) = SizeOf(sigs[i].type)
    <2>1. SubSeq(b, l + 1, m) \in Seq(Byte) /\ Len(SubSeq(b, l + 1, m)) = m - l
      BY <1>2, Slice
    <2>2. m - l = SizeOf(sigs[i].type)
      BY <1>1, <1>2
    <2> QED BY <2>1, <2>2
  <1> QED BY <1>2, <1>3, <1>4 DEF Field, Word, off

\* The field of a signal, in bytes that are long enough: what is left over
\* does not matter.
LEMMA FieldWord ==
    ASSUME NEW S, \A s \in S : IsSignal(s), NEW sigs \in Seq(S),
           NEW b \in Seq(Byte), CanDecode(sigs, b), NEW i \in 1..Len(sigs)
    PROVE  /\ Field(sigs, b, i) \in Word(sigs[i].type)
           /\ Field(sigs, b, i) = Field(sigs, SubSeq(b, 1, encoded_size(sigs)), i)
  <1> DEFINE n == encoded_size(sigs)
             c == SubSeq(b, 1, n)
             d == SubSeq(b, n + 1, Len(b))
  <1>1. n \in Nat /\ n <= Len(b) /\ Len(b) \in Nat
    BY OffsetsGrow DEF CanDecode
  <1> HIDE DEF n
  <1>2. c \in Seq(Byte) /\ Len(c) = n /\ d \in Seq(Byte)
    <2> DEFINE z == 0
    <2>1. z \in Nat /\ z <= n
      BY <1>1
    <2> HIDE DEF z
    <2>2. SubSeq(b, z + 1, n) \in Seq(Byte) /\ Len(SubSeq(b, z + 1, n)) = n - z
      BY <1>1, <2>1, Slice
    <2>3. d \in Seq(Byte)
      BY <1>1, Slice
    <2> QED BY <1>1, <2>2, <2>3 DEF z
  <1>3. c \o d = b
    <2>1. 1 \in 1 .. Len(b) + 1 /\ n \in (1 - 1) .. Len(b) /\ Len(b) \in n .. Len(b)
      BY <1>1
    <2>2. c \o d = SubSeq(b, 1, Len(b))
      BY <2>1, ConcatAdjacentSubSeq
    <2> QED BY <2>2, SubSeqFull
  <1>4. Len(c) = encoded_size(sigs)
    BY <1>2 DEF n
  <1> HIDE DEF c, d
  <1>5. Field(sigs, c \o d, i) = Field(sigs, c, i) /\ Field(sigs, c, i) \in Word(sigs[i].type)
    BY <1>2, <1>4, SameField
  <1> QED BY <1>3, <1>5 DEF c, n

\* decode gives a name the value of its last occurrence.
LEMMA LastOfName ==
    ASSUME NEW S, NEW sigs \in Seq(S), NEW b, NEW i \in DOMAIN sigs
    PROVE  \E j \in DOMAIN sigs :
              /\ sigs[j].name = sigs[i].name /\ i <= j
              /\ decode(sigs, b)[sigs[i].name] =
                    Phys(sigs[j], Unpack(sigs[j].type, Field(sigs, b, j)))
  <1> DEFINE N == Len(sigs)
             Last(j) == /\ j \in DOMAIN sigs
                        /\ sigs[j].name = sigs[i].name
                        /\ \A k \in DOMAIN sigs : sigs[k].name = sigs[i].name => k <= j
             T == {k \in Nat : k <= N /\ N - k \in DOMAIN sigs /\ sigs[N - k].name = sigs[i].name}
  <1>1. N \in Nat /\ DOMAIN sigs = 1..N /\ i \in 1..N
    OBVIOUS
  <1>2. PICK k \in T : \A m \in T : k <= m
    <2>1. N - i \in Nat /\ N - i <= N /\ N - (N - i) = i
      BY <1>1
    <2>2. N - i \in T
      BY <2>1
    <2>3. T # {} /\ T \subseteq Nat
      BY <2>2
    <2> HIDE DEF T
    <2> QED BY <2>3, Least
  <1>3. Last(N - k)
    <2>1. ASSUME NEW m \in DOMAIN sigs, sigs[m].name = sigs[i].name PROVE m <= N - k
      <3>1. N - m \in Nat /\ N - m <= N /\ N - (N - m) = m
        BY <1>1
      <3>2. N - m \in T
        BY <2>1, <3>1
      <3>3. k <= N - m /\ k \in Nat /\ m \in Nat
        BY <1>1, <1>2, <3>2
      <3> QED BY <1>1, <3>3
    <2> QED BY <1>2, <2>1
  <1> DEFINE last == CHOOSE j : Last(j)
  <1>4. Last(last)
    <2> HIDE DEF Last
    <2> QED BY <1>3
  <1>5. i <= last
    BY <1>4
  <1>6. decode(sigs, b)[sigs[i].name] =
            Phys(sigs[last], Unpack(sigs[last].type, Field(sigs, b, last)))
    <2>1. sigs[i].name \in {sigs[j].name : j \in DOMAIN sigs}
      OBVIOUS
    <2> QED BY <2>1 DEF decode
  <1> HIDE DEF last
  <1> QED BY <1>4, <1>5, <1>6
-----------------------------------------------------------------------------
(* The E2E trailer.                                                        *)

Bit == {0, 1}
Register == [1..16 -> Bit]

\* Eight bits make a byte, and are the bits of that byte.
LEMMA OctetBits ==
    ASSUME NEW bits \in [1..8 -> Bit]
    PROVE  /\ Octet(bits) \in Byte
           /\ \A j \in 1..8 : (Octet(bits) \div Weight[j]) % 2 = bits[j]
  <1>1. PICK a \in Bit, b \in Bit, c \in Bit, d \in Bit,
             e \in Bit, f \in Bit, g \in Bit, h \in Bit :
            /\ a = bits[1] /\ b = bits[2] /\ c = bits[3] /\ d = bits[4]
            /\ e = bits[5] /\ f = bits[6] /\ g = bits[7] /\ h = bits[8]
    OBVIOUS
  <1>2. PICK x \in Int : x = 128 * a + 64 * b + 32 * c + 16 * d + 8 * e + 4 * f + 2 * g + h
    BY DEF Bit
  <1>3. Octet(bits) = x
    BY <1>1, <1>2 DEF Octet
  <1> USE DEF Bit
  <1>4. x \in Byte
    BY <1>2 DEF Byte
  <1>5. /\ (x \div 128) % 2 = a
        /\ (x \div 64) % 2 = b
        /\ (x \div 32) % 2 = c
        /\ (x \div 16) % 2 = d
    <2>1. x \div 128 = a
      BY <1>2, Z3
    <2>2. x \div 64 = 2 * a + b
      BY <1>2, Z3
    <2>3. x \div 32 = 4 * a + 2 * b + c
      BY <1>2, Z3
    <2>4. x \div 16 = 8 * a + 4 * b + 2 * c + d
      BY <1>2, Z3
    <2> QED BY <2>1, <2>2, <2>3, <2>4, Z3
  <1>6. /\ (x \div 8) % 2 = e
        /\ (x \div 4) % 2 = f
        /\ (x \div 2) % 2 = g
        /\ (x \div 1) % 2 = h
    <2>1. x \div 8 = 16 * a + 8 * b + 4 * c + 2 * d + e
      BY <1>2, Z3
    <2>2. x \div 4 = 32 * a + 16 * b + 8 * c + 4 * d + 2 * e + f
      BY <1>2, Z3
    <2>3. x \div 2 = 64 * a + 32 * b + 16 * c + 8 * d + 4 * e + 2 * f + g
      BY <1>2, Z3
    <2>4. x \div 1 = 128 * a + 64 * b + 32 * c + 16 * d + 8 * e + 4 * f + 2 * g + h
      BY <1>2, Z3
    <2> QED BY <2>1, <2>2, <2>3, <2>4, Z3
  <1>7. /\ Weight[1] = 128 /\ Weight[2] = 64 /\ Weight[3] = 32 /\ Weight[4] = 16
        /\ Weight[5] = 8 /\ Weight[6] = 4 /\ Weight[7] = 2 /\ Weight[8] = 1
    BY DEF Weight
  <1>8. ASSUME NEW j \in 1..8 PROVE (x \div Weight[j]) % 2 = bits[j]
    <2>1. j \in {1, 2, 3, 4, 5, 6, 7, 8}
      OBVIOUS
    <2> HIDE DEF Bit
    <2> QED BY <1>1, <1>5, <1>6, <1>7, <2>1
  <1> QED BY <1>3, <1>4, <1>8

\* A byte is made of its bits.
LEMMA ByteBits ==
    ASSUME NEW x \in Byte
    PROVE  /\ \A j \in 1..8 : (x \div Weight[j]) % 2 \in Bit
           /\ \A bits : (\A j \in 1..8 : bits[j] = (x \div Weight[j]) % 2) => Octet(bits) = x
  <1>1. /\ Weight[1] = 128 /\ Weight[2] = 64 /\ Weight[3] = 32 /\ Weight[4] = 16
        /\ Weight[5] = 8 /\ Weight[6] = 4 /\ Weight[7] = 2 /\ Weight[8] = 1
    BY DEF Weight
  <1>2. ASSUME NEW j \in 1..8 PROVE (x \div Weight[j]) % 2 \in Bit
    <2>1. Weight[j] \in Nat \ {0}
      BY <1>1
    <2>2. PICK w \in Nat \ {0} : w = Weight[j]
      BY <2>1
    <2>3. x \div w \in Int
      BY <2>2, Division DEF Byte
    <2>4. (x \div w) % 2 \in 0..1
      BY <2>3, Division
    <2> QED BY <2>2, <2>4 DEF Bit
  <1>3. ASSUME NEW bits, \A j \in 1..8 : bits[j] = (x \div Weight[j]) % 2
        PROVE  Octet(bits) = x
    <2>1. PICK x2 \in Int, h \in 0..1 :
              x2 = x \div 2 /\ h = (x \div 1) % 2 /\ x = 2 * x2 + h
      BY Z3 DEF Byte
    <2>2. PICK x4 \in Int, g \in 0..1 :
              x4 = x \div 4 /\ g = (x \div 2) % 2 /\ x2 = 2 * x4 + g
      BY <2>1, Z3 DEF Byte
    <2>3. PICK x8 \in Int, f \in 0..1 :
              x8 = x \div 8 /\ f = (x \div 4) % 2 /\ x4 = 2 * x8 + f
      BY <2>2, Z3 DEF Byte
    <2>4. PICK x16 \in Int, e \in 0..1 :
              x16 = x \div 16 /\ e = (x \div 8) % 2 /\ x8 = 2 * x16 + e
      BY <2>3, Z3 DEF Byte
    <2>5. PICK x32 \in Int, d \in 0..1 :
              x32 = x \div 32 /\ d = (x \div 16) % 2 /\ x16 = 2 * x32 + d
      BY <2>4, Z3 DEF Byte
    <2>6. PICK x64 \in Int, c \in 0..1 :
              x64 = x \div 64 /\ c = (x \div 32) % 2 /\ x32 = 2 * x64 + c
      BY <2>5, Z3 DEF Byte
    <2>7. PICK x128 \in Int, b \in 0..1 :
              x128 = x \div 128 /\ b = (x \div 64) % 2 /\ x64 = 2 * x128 + b
      BY <2>6, Z3 DEF Byte
    <2>8. PICK a \in 0..1 : a = (x \div 128) % 2 /\ x128 = a
      BY <2>7, Z3 DEF Byte
    <2>9. x = 128 * a + 64 * b + 32 * c + 16 * d + 8 * e + 4 * f + 2 * g + h
      <3>1. x = 4 * x4 + 2 * g + h
        BY <2>1, <2>2 DEF Byte
      <3>2. x4 = 4 * x16 + 2 * e + f
        BY <2>3, <2>4
      <3>3. x16 = 4 * x64 + 2 * c + d
        BY <2>5, <2>6
      <3>4. x64 = 2 * a + b
        BY <2>7, <2>8
      <3> QED BY <3>1, <3>2, <3>3, <3>4
    <2>10. /\ bits[1] = a /\ bits[2] = b /\ bits[3] = c /\ bits[4] = d
           /\ bits[5] = e /\ bits[6] = f /\ bits[7] = g /\ bits[8] = h
      BY <1>1, <1>3, <2>1, <2>2, <2>3, <2>4, <2>5, <2>6, <2>7, <2>8
    <2> QED BY <2>9, <2>10 DEF Octet
  <1> QED BY <1>2, <1>3

\* The bits of a sequence of bytes, byte by byte.
LEMMA BitAt ==
    ASSUME NEW data, NEW k \in Nat \ {0}, NEW j \in 1..8
    PROVE  BitOf(data, 8 * (k - 1) + j) = (data[k] \div Weight[j]) % 2
  <1>1. PICK n \in Int : n = 8 * (k - 1) + j
    OBVIOUS
  <1>2. ((n - 1) \div 8) + 1 = k /\ ((n - 1) % 8) + 1 = j
    BY <1>1, Z3
  <1> QED BY <1>1, <1>2 DEF BitOf

\* The place of a bit.
LEMMA BitPlace ==
    ASSUME NEW len \in Nat, NEW n \in 1..(8 * len)
    PROVE  \E k \in 1..len, j \in 1..8 : n = 8 * (k - 1) + j
  <1> DEFINE k == ((n - 1) \div 8) + 1
             j == ((n - 1) % 8) + 1
  <1>1. k \in 1..len /\ j \in 1..8 /\ n = 8 * (k - 1) + j
    BY Z3
  <1> QED BY <1>1

\* Every bit is 0 or 1.
LEMMA BitType ==
    ASSUME NEW data \in Seq(Byte), NEW n \in 1..(8 * Len(data))
    PROVE  BitOf(data, n) \in Bit
  <1>0. PICK len \in Nat : len = Len(data)
    OBVIOUS
  <1>1. PICK k \in 1..len, j \in 1..8 : n = 8 * (k - 1) + j
    BY <1>0, BitPlace
  <1>2. data[k] \in Byte /\ k \in Nat \ {0}
    BY <1>0, ElementOfSeq
  <1>3. BitOf(data, n) = (data[k] \div Weight[j]) % 2
    BY <1>1, <1>2, BitAt
  <1> QED BY <1>2, <1>3, ByteBits

\* The register of the CRC, bit by bit.
LEMMA Registers ==
    ASSUME NEW data \in Seq(Byte)
    PROVE  /\ registers(data) \in [0..(8 * Len(data)) -> Register]
           /\ registers(data)[0] = [k \in 1..16 |-> 1]
           /\ \A n \in 1..(8 * Len(data)) :
                 registers(data)[n] = Shift(registers(data)[n - 1], BitOf(data, n))
  <1> DEFINE N == 8 * Len(data)
             V == Register
             v == [k \in 1..16 |-> 1]
             step == [n \in 1..N |-> [c \in V |-> Shift(c, BitOf(data, n))]]
             Def(f) == f = [n \in 0..N |-> IF n = 0 THEN v ELSE Shift(f[n - 1], BitOf(data, n))]
  <1>1. N \in Nat /\ v \in V
    BY DEF Register, Bit
  <1>2. ASSUME NEW n \in 1..N, NEW c \in V PROVE Shift(c, BitOf(data, n)) \in V
    <2>1. BitOf(data, n) \in Bit
      BY BitType
    <2>2. ASSUME NEW k \in 1..16 PROVE Shift(c, BitOf(data, n))[k] \in Bit
      <3>1. PICK a \in Bit, b \in Bit, d \in Bit :
                /\ a = c[1] /\ b = BitOf(data, n)
                /\ d = IF k = 16 THEN 0 ELSE c[k + 1]
        BY <2>1 DEF Register, Bit
      <3>2. Shift(c, BitOf(data, n))[k] = IF k \in {4, 11, 16} THEN (d + a + b) % 2 ELSE d
        BY <3>1 DEF Shift
      <3>3. (d + a + b) % 2 \in Bit
        BY Z3 DEF Bit
      <3> QED BY <3>2, <3>3
    <2>3. Shift(c, BitOf(data, n)) = [k \in 1..16 |-> Shift(c, BitOf(data, n))[k]]
      BY DEF Shift
    <2> QED BY <2>2, <2>3 DEF Register
  <1> HIDE DEF V, v
  <1>3. step \in Steps(N, V)
    <2> HIDE DEF N
    <2> QED BY <1>2 DEF Steps
  <1>4. PICK f : Follows(f, N, V, v, step)
    <2> HIDE DEF step, N
    <2> QED BY <1>1, <1>3, Recursion
  <1> HIDE DEF N
  <1>5. f \in [0..N -> V] /\ f[0] = v /\ \A n \in 1..N : f[n] = Shift(f[n - 1], BitOf(data, n))
    <2>1. f \in [0..N -> V] /\ f[0] = v /\ \A n \in 1..N : f[n] = step[n][f[n - 1]]
      BY <1>4 DEF Follows
    <2>2. \A n \in 1..N : f[n - 1] \in V
      BY <1>1, <2>1
    <2> QED BY <2>1, <2>2
  <1>6. Def(f)
    <2>1. \A n \in 0..N : n = 0 \/ n \in 1..N
      BY <1>1
    <2> QED BY <1>5, <2>1
  <1> DEFINE g == registers(data)
  <1>7. g = CHOOSE h : Def(h)
    BY DEF registers, N, v
  <1>8. Def(g)
    <2> HIDE DEF Def, g
    <2> QED BY <1>6, <1>7
  <1> HIDE DEF g
  <1>9. g[0] = v /\ \A n \in 1..N : g[n] = Shift(g[n - 1], BitOf(data, n))
    <2>1. 0 \in 0..N /\ \A n \in 1..N : n \in 0..N /\ n # 0
      BY <1>1
    <2> QED BY <1>8, <2>1
  <1> DEFINE T == {n \in 0..N : g[n] \in V}
  <1>10. 0 \in T
    BY <1>1, <1>9
  <1>11. ASSUME NEW n \in 1..N, n - 1 \in T PROVE n \in T
    <2>1. n \in 0..N /\ g[n - 1] \in V
      BY <1>1, <1>11
    <2> QED BY <1>2, <1>9, <2>1 DEF N
  <1>12. \A n \in 0..N : n \in T
    <2> HIDE DEF T
    <2> QED BY <1>1, <1>10, <1>11, Induction
  <1>13. g \in [0..N -> V]
    BY <1>8, <1>12
  <1> QED BY <1>9, <1>13 DEF g, N, V, v

\* The CRC is two bytes, and its bits are those of the register.
LEMMA CrcIsRegister ==
    ASSUME NEW data \in Seq(Byte)
    PROVE  LET crc == registers(data)[8 * Len(data)]
           IN  /\ crc \in Register
               /\ CrcBytes(data) \in Seq(Byte) /\ Len(CrcBytes(data)) = 2
               /\ \A j \in 1..8 :
                     /\ (CrcBytes(data)[1] \div Weight[j]) % 2 = crc[j]
                     /\ (CrcBytes(data)[2] \div Weight[j]) % 2 = crc[8 + j]
  <1> DEFINE crc == registers(data)[8 * Len(data)]
             high == [k \in 1..8 |-> crc[k]]
             low == [k \in 1..8 |-> crc[8 + k]]
  <1>1. crc \in Register
    <2>1. 8 * Len(data) \in 0..(8 * Len(data))
      OBVIOUS
    <2> QED BY <2>1, Registers
  <1>2. CrcBytes(data) = <<Octet(high), Octet(low)>>
    BY DEF CrcBytes, crc16_ccitt_false
  <1> HIDE DEF crc
  <1>3. high \in [1..8 -> Bit] /\ low \in [1..8 -> Bit]
    BY <1>1 DEF Register
  <1>4. /\ \A j \in 1..8 : high[j] = crc[j]
        /\ \A j \in 1..8 : low[j] = crc[8 + j]
    OBVIOUS
  <1> HIDE DEF high, low
  <1>5. /\ Octet(high) \in Byte /\ \A j \in 1..8 : (Octet(high) \div Weight[j]) % 2 = high[j]
        /\ Octet(low) \in Byte /\ \A j \in 1..8 : (Octet(low) \div Weight[j]) % 2 = low[j]
    BY <1>3, OctetBits
  <1>6. CrcBytes(data) \in Seq(Byte) /\ Len(CrcBytes(data)) = 2
        /\ CrcBytes(data)[1] = Octet(high) /\ CrcBytes(data)[2] = Octet(low)
    BY <1>2, <1>5
  <1> QED BY <1>1, <1>4, <1>5, <1>6 DEF crc

\* w is b with two more bytes and two more behind it.
Trailed(w, b, c, t) ==
    /\ w \in Seq(Byte) /\ Len(w) = Len(b) + 4
    /\ SubSeq(w, 1, Len(b)) = b
    /\ SubSeq(w, 1, Len(w) - 4) = b
    /\ SubSeq(w, Len(w) - 3, Len(w) - 2) = c
    /\ SubSeq(w, 1, Len(w) - 2) = b \o c
    /\ SubSeq(w, Len(w) - 1, Len(w)) = t

\* Bytes put together are found again.
LEMMA TwoAndTwo ==
    ASSUME NEW b \in Seq(Byte), NEW c \in Seq(Byte), NEW t \in Seq(Byte),
           Len(c) = 2, Len(t) = 2
    PROVE  Trailed((b \o c) \o t, b, c, t)
  <1>0. PICK d, w : d = b \o c /\ w = d \o t
    OBVIOUS
  <1>1. PICK n \in Nat : n = Len(b)
    OBVIOUS
  <1>2. d \in Seq(Byte) /\ Len(d) = n + 2
    <2>1. b \o c \in Seq(Byte) /\ Len(b \o c) = Len(b) + Len(c)
      BY ConcatProperties
    <2> QED BY <1>0, <1>1, <2>1
  <1>3. w \in Seq(Byte) /\ Len(w) = n + 4
    <2>1. d \o t \in Seq(Byte) /\ Len(d \o t) = Len(d) + Len(t)
      BY <1>2, ConcatProperties
    <2> QED BY <1>0, <1>2, <2>1
  <1>4. SubSeq(d, 1, n) = b /\ SubSeq(d, n + 1, n + 2) = c
    <2>1. SubSeq(d, 1, Len(b)) = b /\ SubSeq(d, Len(b) + 1, Len(b) + Len(c)) = c
      BY <1>0, FrontWhole, BackSlice
    <2> QED BY <1>1, <2>1
  <1>5. SubSeq(w, 1, n + 2) = d /\ SubSeq(w, n + 3, n + 4) = t
    <2>1. SubSeq(d \o t, 1, Len(d)) = d
      BY <1>2, FrontWhole
    <2>2. SubSeq(d \o t, Len(d) + 1, Len(d) + Len(t)) = t
      BY <1>2, BackSlice
    <2>3. Len(d) = n + 2 /\ Len(d) + 1 = n + 3 /\ Len(d) + Len(t) = n + 4
      BY <1>2
    <2> QED BY <1>0, <2>1, <2>2, <2>3
  <1>6. /\ SubSeq(w, 1, n) = b
        /\ SubSeq(w, n + 1, n + 2) = c
    <2>1. PICK z \in Nat : z + 1 = 1 /\ z <= n
      OBVIOUS
    <2>2. n <= Len(d) /\ n <= n + 2 /\ n + 2 <= Len(d) /\ n + 2 \in Nat
      BY <1>2
    <2>3. SubSeq(d \o t, z + 1, n) = SubSeq(d, z + 1, n)
      BY <1>2, <2>1, <2>2, FrontSlice
    <2>4. SubSeq(d \o t, n + 1, n + 2) = SubSeq(d, n + 1, n + 2)
      BY <1>2, <2>2, FrontSlice
    <2> QED BY <1>0, <1>4, <2>1, <2>3, <2>4
  <1>7. Len(w) - 4 = n /\ Len(w) - 3 = n + 1 /\ Len(w) - 2 = n + 2 /\ Len(w) - 1 = n + 3
    BY <1>3
  <1>8. Trailed(w, b, c, t)
    BY <1>0, <1>1, <1>3, <1>5, <1>6, <1>7 DEF Trailed
  <1> QED BY <1>0, <1>8

\* A number of two bytes as two bytes.
LEMMA ShortWord ==
    ASSUME NEW n \in UShort
    PROVE  Short(n) \in Seq(Byte) /\ Len(Short(n)) = 2 /\ Number(Short(n)) = n
  <1>0. n \in Nat /\ n < 65536
    BY SMT DEF UShort, Span, SizeOf
  <1>1. n % 65536 = n
    BY <1>0, Z3
  <1>2. SizeOf("u16") = 2 /\ "u16" \in Type /\ n < Span("u16")
    BY <1>0, SMT DEF SizeOf, Span, Type
  <1>3. Short(n) = BigEndian(n, 2)
    BY <1>1, SMT DEF Short
  <1>4. n \in Nat
    BY <1>0, SMT
  <1>5. BigEndian(n, 2) \in Word("u16") /\ Number(BigEndian(n, 2)) = n
    BY <1>2, <1>4, NumberWord
  <1>6. BigEndian(n, 2) \in Seq(Byte) /\ Len(BigEndian(n, 2)) = 2
    BY <1>2, <1>5 DEF Word
  <1> QED BY <1>3, <1>5, <1>6

\* wrap adds four bytes, and unwrap takes them off and finds them right.
LEMMA WrapUnwrap ==
    ASSUME NEW payload \in Seq(Byte), NEW counter \in UShort
    PROVE  LET w == wrap(payload, counter)
           IN  /\ w \in Seq(Byte) /\ Len(w) = Len(payload) + 4
               /\ SubSeq(w, 1, Len(payload)) = payload
               /\ Intact(w) /\ Core(w) = payload /\ Counter(w) = counter
  <1>1. PICK c \in Seq(Byte) : c = Short(counter) /\ Len(c) = 2 /\ Number(c) = counter
    BY ShortWord
  <1>2. payload \o c \in Seq(Byte)
    BY ConcatProperties
  <1>3. PICK t \in Seq(Byte) : t = CrcBytes(payload \o c) /\ Len(t) = 2
    BY <1>2, CrcIsRegister
  <1>4. wrap(payload, counter) = (payload \o c) \o t
    BY <1>1, <1>3 DEF wrap
  <1>5. PICK w : w = (payload \o c) \o t
    OBVIOUS
  <1>6. /\ w \in Seq(Byte) /\ Len(w) = Len(payload) + 4 /\ Len(payload) \in Nat
        /\ SubSeq(w, 1, Len(payload)) = payload
        /\ SubSeq(w, 1, Len(w) - 4) = payload
        /\ SubSeq(w, Len(w) - 3, Len(w) - 2) = c
        /\ SubSeq(w, 1, Len(w) - 2) = payload \o c
        /\ SubSeq(w, Len(w) - 1, Len(w)) = t
    <2>1. Trailed((payload \o c) \o t, payload, c, t)
      BY <1>1, <1>3, TwoAndTwo
    <2>2. Trailed(w, payload, c, t)
      BY <1>5, <2>1
    <2>3. Len(payload) \in Nat
      OBVIOUS
    <2> QED BY <2>2, <2>3 DEF Trailed
  <1>7. Intact(w)
    <2>1. Len(w) >= 4
      BY <1>6
    <2> QED BY <1>3, <1>6, <2>1 DEF Intact
  <1>8. Core(w) = payload /\ Counter(w) = counter
    BY <1>1, <1>6 DEF Core, Counter
  <1> QED BY <1>4, <1>5, <1>6, <1>7, <1>8

\* A message that unwrap accepts ends in the bits of the register.
LEMMA IntactBits ==
    ASSUME NEW b \in Seq(Byte), Intact(b)
    PROVE  LET n == 8 * (Len(b) - 2)
               reg == registers(SubSeq(b, 1, Len(b) - 2))
           IN  /\ Len(b) >= 4
               /\ reg \in [0..n -> Register]
               /\ reg[0] = [k \in 1..16 |-> 1]
               /\ \A m \in 1..n : reg[m] = Shift(reg[m - 1], BitOf(b, m))
               /\ \A k \in 1..16 : reg[n][k] = BitOf(b, n + k)
  <1> DEFINE len == Len(b) - 2
             data == SubSeq(b, 1, len)
             n == 8 * len
             reg == registers(data)
  <1>1. Len(b) >= 4 /\ len \in Nat /\ Len(b) = len + 2 /\ len <= Len(b) /\ Len(b) - 1 = len + 1
    BY DEF Intact
  <1>2. CrcBytes(data) = SubSeq(b, Len(b) - 1, Len(b))
    BY DEF Intact
  <1> HIDE DEF len
  <1>3. data \in Seq(Byte) /\ Len(data) = len /\ \A k \in 1..len : data[k] = b[k]
    <2> DEFINE z == 0
    <2>1. z \in Nat /\ z <= len /\ len - z = len /\ \A k \in 1..len : z + k = k
      BY <1>1
    <2> HIDE DEF z
    <2>2. /\ SubSeq(b, z + 1, len) \in Seq(Byte) /\ Len(SubSeq(b, z + 1, len)) = len - z
          /\ \A k \in 1..(len - z) : SubSeq(b, z + 1, len)[k] = b[z + k]
      BY <1>1, <2>1, Slice
    <2> QED BY <2>1, <2>2 DEF z
  <1> HIDE DEF data
  <1>4. ASSUME NEW m \in 1..n PROVE BitOf(data, m) = BitOf(b, m)
    <2>1. PICK k \in 1..len, j \in 1..8 : m = 8 * (k - 1) + j
      BY <1>1, BitPlace
    <2>2. k \in Nat \ {0}
      BY <1>1
    <2>3. /\ BitOf(data, m) = (data[k] \div Weight[j]) % 2
          /\ BitOf(b, m) = (b[k] \div Weight[j]) % 2
      BY <2>1, <2>2, BitAt
    <2> QED BY <1>3, <2>3
  <1>5. /\ reg \in [0..n -> Register]
        /\ reg[0] = [k \in 1..16 |-> 1]
        /\ \A m \in 1..n : reg[m] = Shift(reg[m - 1], BitOf(data, m))
    BY <1>3, Registers
  <1>6. CrcBytes(data)[1] = b[len + 1] /\ CrcBytes(data)[2] = b[len + 2]
    <2>1. \A k \in 1..((len + 2) - len) : SubSeq(b, len + 1, len + 2)[k] = b[len + k]
      BY <1>1, Slice
    <2>2. 1 \in 1..((len + 2) - len) /\ 2 \in 1..((len + 2) - len)
      BY <1>1
    <2> QED BY <1>1, <1>2, <2>1, <2>2
  <1>7. \A j \in 1..8 : /\ (b[len + 1] \div Weight[j]) % 2 = reg[n][j]
                        /\ (b[len + 2] \div Weight[j]) % 2 = reg[n][8 + j]
    <2> TAKE j \in 1..8
    <2>1. /\ (CrcBytes(data)[1] \div Weight[j]) % 2 = registers(data)[8 * Len(data)][j]
          /\ (CrcBytes(data)[2] \div Weight[j]) % 2 = registers(data)[8 * Len(data)][8 + j]
      BY <1>3, CrcIsRegister
    <2> QED BY <1>3, <1>6, <2>1
  <1>8. ASSUME NEW k \in 1..16 PROVE reg[n][k] = BitOf(b, n + k)
    <2>1. CASE k \in 1..8
      <3>1. n + k = 8 * ((len + 1) - 1) + k /\ len + 1 \in Nat \ {0}
        BY <1>1
      <3>2. BitOf(b, n + k) = (b[len + 1] \div Weight[k]) % 2
        BY <2>1, <3>1, BitAt
      <3> QED BY <1>7, <2>1, <3>2
    <2>2. CASE k \in 9..16
      <3>1. PICK j \in 1..8 : k = 8 + j
        BY <2>2
      <3>2. n + k = 8 * ((len + 2) - 1) + j /\ len + 2 \in Nat \ {0}
        BY <1>1, <3>1
      <3>3. BitOf(b, n + k) = (b[len + 2] \div Weight[j]) % 2
        BY <3>2, BitAt
      <3> QED BY <1>7, <3>1, <3>3
    <2> QED BY <2>1, <2>2
  <1> HIDE DEF reg
  <1>9. \A m \in 1..n : reg[m] = Shift(reg[m - 1], BitOf(b, m))
    BY <1>4, <1>5
  <1> QED BY <1>1, <1>5, <1>8, <1>9 DEF len, reg, data

\* The sum of three bits, without the carry.
Sum(c, a, x) == (c + a + x) % 2

\* Two such sums with one bit the same agree just if the other two differ both
\* or not at all.
LEMMA Parity ==
    ASSUME NEW a \in Bit, NEW b \in Bit, NEW x \in Bit, NEW y \in Bit, NEW c \in Bit
    PROVE  Sum(c, a, x) = Sum(c, b, y) => (a # b <=> x # y)
  <1>1. /\ a = 0 \/ a = 1
        /\ b = 0 \/ b = 1
        /\ c = 0 \/ c = 1
        /\ x = 0 \/ x = 1
        /\ y = 0 \/ y = 1
    BY DEF Bit
  <1>2. 0 % 2 = 0 /\ 1 % 2 = 1 /\ 2 % 2 = 0 /\ 3 % 2 = 1
    BY Z3
  <1> QED BY <1>1, <1>2 DEF Sum

\* If two of the bits differ both or not at all, the sums differ where the third
\* bit does.
LEMMA ParityRest ==
    ASSUME NEW a \in Bit, NEW b \in Bit, NEW x \in Bit, NEW y \in Bit,
           NEW c \in Bit, NEW d \in Bit, a # b <=> x # y
    PROVE  Sum(c, a, x) # Sum(d, b, y) <=> c # d
  <1>1. /\ a = 0 \/ a = 1
        /\ b = 0 \/ b = 1
        /\ c = 0 \/ c = 1
        /\ d = 0 \/ d = 1
        /\ x = 0 \/ x = 1
        /\ y = 0 \/ y = 1
    BY DEF Bit
  <1>2. 0 % 2 = 0 /\ 1 % 2 = 1 /\ 2 % 2 = 0 /\ 3 % 2 = 1
    BY Z3
  <1> QED BY <1>1, <1>2 DEF Sum

\* If two registers agree in the last bit after a turn, then the bits of the
\* data differed just if the bits that left the registers did, and the other
\* bits differ where they differed before.
LEMMA ShiftBack ==
    ASSUME NEW p \in Register, NEW q \in Register, NEW x \in Bit, NEW y \in Bit,
           Shift(p, x)[16] = Shift(q, y)[16]
    PROVE  /\ p[1] # q[1] <=> x # y
           /\ \A k \in 1..15 : Shift(p, x)[k] # Shift(q, y)[k] <=> p[k + 1] # q[k + 1]
  <1>1. PICK a \in Bit, b \in Bit, z \in Bit : a = p[1] /\ b = q[1] /\ z = 0
    BY DEF Register, Bit
  <1>2. Shift(p, x)[16] = Sum(z, a, x) /\ Shift(q, y)[16] = Sum(z, b, y)
    BY <1>1 DEF Shift, Sum
  <1>3. a # b <=> x # y
    <2>1. Sum(z, a, x) = Sum(z, b, y)
      BY <1>2
    <2> QED BY <2>1, Parity
  <1>4. ASSUME NEW k \in 1..15
        PROVE  Shift(p, x)[k] # Shift(q, y)[k] <=> p[k + 1] # q[k + 1]
    <2>1. PICK c \in Bit, d \in Bit : c = p[k + 1] /\ d = q[k + 1]
      BY DEF Register
    <2>2. CASE k \in {4, 11}
      <3>1. Shift(p, x)[k] = Sum(c, a, x) /\ Shift(q, y)[k] = Sum(d, b, y)
        BY <1>1, <2>1, <2>2 DEF Shift, Sum
      <3>2. Sum(c, a, x) # Sum(d, b, y) <=> c # d
        BY <1>3, ParityRest
      <3> QED BY <2>1, <3>1, <3>2
    <2>3. CASE k \notin {4, 11}
      <3>1. Shift(p, x)[k] = p[k + 1] /\ Shift(q, y)[k] = q[k + 1]
        BY <2>3 DEF Shift
      <3> QED BY <3>1
    <2> QED BY <2>2, <2>3
  <1> QED BY <1>1, <1>3, <1>4

\* The CRC finds every burst of noise: of two messages that differ in some bits
\* no more than sixteen apart, unwrap accepts one at most.
THEOREM BurstDetected ==
    ASSUME NEW b \in Seq(Byte), NEW q \in Seq(Byte), Len(q) = Len(b), Intact(b),
           NEW noise, noise \subseteq 1..(8 * Len(b)),
           NEW first \in noise, noise \subseteq first..(first + 15),
           \A n \in 1..(8 * Len(b)) : BitOf(b, n) # BitOf(q, n) <=> n \in noise
    PROVE  ~Intact(q)
  <1> SUFFICES ASSUME Intact(q) PROVE FALSE
    OBVIOUS
  <1> DEFINE m == 8 * (Len(b) - 2)
             B == registers(SubSeq(b, 1, Len(b) - 2))
             Q == registers(SubSeq(q, 1, Len(q) - 2))
             s == IF first - 1 <= m THEN first - 1 ELSE m
  <1>1. /\ Len(b) >= 4
        /\ B \in [0..m -> Register] /\ B[0] = [k \in 1..16 |-> 1]
        /\ \A n \in 1..m : B[n] = Shift(B[n - 1], BitOf(b, n))
        /\ \A k \in 1..16 : B[m][k] = BitOf(b, m + k)
    BY IntactBits
  <1>2. /\ Q \in [0..m -> Register] /\ Q[0] = [k \in 1..16 |-> 1]
        /\ \A n \in 1..m : Q[n] = Shift(Q[n - 1], BitOf(q, n))
        /\ \A k \in 1..16 : Q[m][k] = BitOf(q, m + k)
    BY IntactBits
  <1>3. PICK len \in Nat : len = Len(b) /\ len >= 4
    BY <1>1
  <1>4. m \in Nat /\ 8 * Len(b) = m + 16
    BY <1>3
  <1>5. \A n \in 1..(m + 16) : /\ BitOf(b, n) \in Bit /\ BitOf(q, n) \in Bit
                               /\ BitOf(b, n) # BitOf(q, n) <=> n \in noise
    BY <1>4, BitType
  <1> HIDE DEF m, B, Q
  <1>6. first \in 1..(m + 16)
    BY <1>4
  <1>7. s \in 0..m /\ first - s \in 1..16 /\ s < first /\ (s < m => s = first - 1)
    BY <1>4, <1>6
  <1> HIDE DEF s
  \* Up to the burst the registers are the same.
  <1>8. B[s] = Q[s]
    <2> DEFINE S == {n \in 0..m : B[n] = Q[n]}
    <2>1. 0 \in S /\ s \in Nat
      <3>1. B[0] = Q[0]
        BY <1>1, <1>2
      <3>2. 0 \in 0..m /\ s \in Nat
        BY <1>4, <1>7
      <3> QED BY <3>1, <3>2
    <2>2. ASSUME NEW n \in 1..s, n - 1 \in S PROVE n \in S
      <3>1. n \in 1..m /\ n \in 1..(m + 16) /\ n < first /\ n \in 0..m
        BY <1>4, <1>7
      <3>2. BitOf(b, n) = BitOf(q, n)
        BY <1>5, <1>6, <3>1
      <3> QED BY <1>1, <1>2, <2>2, <3>1, <3>2
    <2> HIDE DEF S
    <2>3. \A n \in 0..s : n \in S
      BY <2>1, <2>2, Induction
    <2>4. s \in 0..s
      BY <1>7
    <2> QED BY <2>3, <2>4 DEF S
  \* Back from the end, they differ where the noise is still to come.
  <1>9. \A k \in 1..16 : B[s][k] # Q[s][k] <=> s + k \in noise
    <2> DEFINE Differ(n) == \A k \in 1..16 : B[n][k] # Q[n][k] <=> n + k \in noise
               S == {n \in 0..m : n < s \/ Differ(n)}
    <2>1. m \in S
      <3>1. ASSUME NEW k \in 1..16 PROVE B[m][k] # Q[m][k] <=> m + k \in noise
        <4>1. m + k \in 1..(m + 16)
          BY <1>4
        <4>2. B[m][k] = BitOf(b, m + k) /\ Q[m][k] = BitOf(q, m + k)
          BY <1>1, <1>2
        <4> QED BY <1>5, <4>1, <4>2
      <3>2. m \in 0..m
        BY <1>4
      <3> QED BY <3>1, <3>2
    <2>2. ASSUME NEW n \in 1..m, n \in S PROVE n - 1 \in S
      <3>1. CASE n - 1 < s
        BY <1>4, <3>1
      <3>2. CASE ~(n - 1 < s)
        <4>1. /\ Differ(n) /\ n \in 1..(m + 16) /\ first <= n /\ n - 1 \in 0..m
              /\ n + 16 \notin noise
          BY <1>4, <1>6, <1>7, <2>2, <3>2
        <4>2. B[n][16] = Q[n][16]
          BY <4>1
        <4>3. /\ B[n] = Shift(B[n - 1], BitOf(b, n)) /\ B[n - 1] \in Register
              /\ Q[n] = Shift(Q[n - 1], BitOf(q, n)) /\ Q[n - 1] \in Register
              /\ BitOf(b, n) \in Bit /\ BitOf(q, n) \in Bit
          BY <1>1, <1>2, <1>5, <4>1
        <4>4. /\ B[n - 1][1] # Q[n - 1][1] <=> BitOf(b, n) # BitOf(q, n)
              /\ \A k \in 1..15 : B[n][k] # Q[n][k] <=> B[n - 1][k + 1] # Q[n - 1][k + 1]
          <5>1. PICK u \in Register, v \in Register, x \in Bit, y \in Bit :
                    /\ u = B[n - 1] /\ x = BitOf(b, n)
                    /\ v = Q[n - 1] /\ y = BitOf(q, n)
            BY <4>3
          <5>2. B[n] = Shift(u, x) /\ Q[n] = Shift(v, y)
            BY <4>3, <5>1
          <5>3. Shift(u, x)[16] = Shift(v, y)[16]
            BY <4>2, <5>2
          <5>4. /\ u[1] # v[1] <=> x # y
                /\ \A k \in 1..15 : Shift(u, x)[k] # Shift(v, y)[k] <=> u[k + 1] # v[k + 1]
            BY <5>3, ShiftBack
          <5> QED BY <5>1, <5>2, <5>4
        <4>5. ASSUME NEW k \in 1..16
              PROVE  B[n - 1][k] # Q[n - 1][k] <=> (n - 1) + k \in noise
          <5>1. CASE k = 1
            <6>1. (n - 1) + 1 = n
              BY <1>4
            <6> QED BY <1>5, <4>1, <4>4, <5>1, <6>1
          <5>2. CASE k # 1
            <6>1. PICK j \in 1..15 : k = j + 1 /\ (n - 1) + k = n + j
              <7>1. k - 1 \in 1..15 /\ k = (k - 1) + 1 /\ (n - 1) + k = n + (k - 1)
                BY <1>4, <5>2
              <7> QED BY <7>1
            <6>2. j \in 1..16
              OBVIOUS
            <6> QED BY <4>1, <4>4, <6>1, <6>2
          <5> QED BY <5>1, <5>2
        <4> QED BY <4>1, <4>5
      <3> QED BY <3>1, <3>2
    <2>3. \A n \in 0..m : n \in S
      <3> HIDE DEF S
      <3> QED BY <1>4, <2>1, <2>2, InductionDown
    <2>4. s \in S
      BY <1>7, <2>3
    <2>5. ~(s < s)
      BY <1>4, <1>7
    <2> QED BY <2>4, <2>5
  <1>10. s + (first - s) = first
    BY <1>4, <1>6, <1>7
  <1> QED BY <1>7, <1>8, <1>9, <1>10

-----------------------------------------------------------------------------
(* The header.                                                             *)

\* w has the six parts of a header and a payload behind them.
Framed(w, a, b, c, d, e, g, p) ==
    /\ w \in Seq(Int) /\ Len(w) = HDR_SIZE + Len(p)
    /\ w[1] = a[1] /\ w[2] = a[2] /\ w[3] = b[1] /\ w[4] = b[2]
    /\ w[5] = c[1] /\ w[6] = c[2] /\ w[7] = c[3] /\ w[8] = c[4]
    /\ w[9] = d[1] /\ w[10] = d[2] /\ w[11] = e[1] /\ w[12] = e[2]
    /\ w[13] = g[1] /\ w[14] = g[2] /\ w[15] = g[3] /\ w[16] = g[4]
    /\ \A k \in 1..Len(p) : w[HDR_SIZE + k] = p[k]

\* y has the elements of x and then those of z.
Joined(y, x, z) ==
    /\ y \in Seq(Int) /\ Len(y) = Len(x) + Len(z)
    /\ \A k \in 1..Len(x) : y[k] = x[k]
    /\ \A k \in 1..Len(z) : y[Len(x) + k] = z[k]

\* What is put behind a sequence leaves its elements in their places.
LEMMA Joins ==
    ASSUME NEW x \in Seq(Int), NEW z \in Seq(Int)
    PROVE  Joined(x \o z, x, z)
  BY ConcatProperties DEF Joined

\* The parts of a header, one behind the other.
LEMMA SixParts ==
    ASSUME NEW a \in Seq(Int), NEW b \in Seq(Int), NEW c \in Seq(Int),
           NEW d \in Seq(Int), NEW e \in Seq(Int), NEW g \in Seq(Int), NEW p \in Seq(Int),
           Len(a) = 2, Len(b) = 2, Len(c) = 4, Len(d) = 2, Len(e) = 2, Len(g) = 4
    PROVE  Framed(a \o b \o c \o d \o e \o g \o p, a, b, c, d, e, g, p)
  <1>1. PICK v : v = a \o b
    OBVIOUS
  <1>2. v \in Seq(Int) /\ Len(v) = 4 /\ v[1] = a[1] /\ v[2] = a[2] /\ v[3] = b[1] /\ v[4] = b[2]
    <2>1. Joined(v, a, b)
      BY <1>1, Joins
    <2> QED BY <2>1 DEF Joined
  <1>3. PICK w : w = v \o c
    OBVIOUS
  <1>4. /\ w \in Seq(Int) /\ Len(w) = 8 /\ \A k \in 1..4 : w[k] = v[k]
        /\ w[5] = c[1] /\ w[6] = c[2] /\ w[7] = c[3] /\ w[8] = c[4]
    <2>1. Joined(w, v, c)
      BY <1>2, <1>3, Joins
    <2> QED BY <1>2, <2>1 DEF Joined
  <1>5. PICK x : x = w \o d
    OBVIOUS
  <1>6. /\ x \in Seq(Int) /\ Len(x) = 10 /\ \A k \in 1..8 : x[k] = w[k]
        /\ x[9] = d[1] /\ x[10] = d[2]
    <2>1. Joined(x, w, d)
      BY <1>4, <1>5, Joins
    <2> QED BY <1>4, <2>1 DEF Joined
  <1>7. PICK y : y = x \o e
    OBVIOUS
  <1>8. /\ y \in Seq(Int) /\ Len(y) = 12 /\ \A k \in 1..10 : y[k] = x[k]
        /\ y[11] = e[1] /\ y[12] = e[2]
    <2>1. Joined(y, x, e)
      BY <1>6, <1>7, Joins
    <2> QED BY <1>6, <2>1 DEF Joined
  <1>9. PICK z : z = y \o g
    OBVIOUS
  <1>10. /\ z \in Seq(Int) /\ Len(z) = 16 /\ \A k \in 1..12 : z[k] = y[k]
         /\ z[13] = g[1] /\ z[14] = g[2] /\ z[15] = g[3] /\ z[16] = g[4]
    <2>1. Joined(z, y, g)
      BY <1>8, <1>9, Joins
    <2> QED BY <1>8, <2>1 DEF Joined
  <1>11. PICK f : f = z \o p
    OBVIOUS
  <1>12. /\ f \in Seq(Int) /\ Len(f) = 16 + Len(p) /\ \A k \in 1..16 : f[k] = z[k]
         /\ \A k \in 1..Len(p) : f[16 + k] = p[k]
    <2>1. Joined(f, z, p)
      BY <1>10, <1>11, Joins
    <2> QED BY <1>10, <2>1 DEF Joined
  <1>13. /\ f[1] = a[1] /\ f[2] = a[2] /\ f[3] = b[1] /\ f[4] = b[2]
         /\ f[5] = c[1] /\ f[6] = c[2] /\ f[7] = c[3] /\ f[8] = c[4]
    BY <1>2, <1>4, <1>6, <1>8, <1>10, <1>12
  <1>14. /\ f[9] = d[1] /\ f[10] = d[2] /\ f[11] = e[1] /\ f[12] = e[2]
         /\ f[13] = g[1] /\ f[14] = g[2] /\ f[15] = g[3] /\ f[16] = g[4]
    BY <1>6, <1>8, <1>10, <1>12
  <1>15. Framed(f, a, b, c, d, e, g, p)
    BY <1>12, <1>13, <1>14 DEF Framed, HDR_SIZE
  <1> QED BY <1>1, <1>3, <1>5, <1>7, <1>9, <1>11, <1>15

\* Any number has two or four bytes, though the first may be too large.
LEMMA BigEndianParts ==
    ASSUME NEW u \in Int
    PROVE  /\ BigEndian(u, 2) \in Seq(Int) /\ Len(BigEndian(u, 2)) = 2
           /\ BigEndian(u, 4) \in Seq(Int) /\ Len(BigEndian(u, 4)) = 4
  <1>1. PICK a \in Int, b \in Int, c \in Int :
            a = u \div 256 /\ b = a \div 256 /\ c = b \div 256
    BY Z3
  <1>2. PICK i \in Int, j \in Int, k \in Int : i = u % 256 /\ j = a % 256 /\ k = b % 256
    BY Z3
  <1>3. BigEndian(u, 2) = <<a, i>> /\ BigEndian(u, 4) = <<c, k, j, i>>
    BY <1>1, <1>2 DEF BigEndian
  <1>4. <<a, i>> \in Seq(Int) /\ Len(<<a, i>>) = 2
    OBVIOUS
  <1>5. <<c, k, j, i>> \in Seq(Int) /\ Len(<<c, k, j, i>>) = 4
    BY FourInARow
  <1> QED BY <1>3, <1>4, <1>5

\* A sequence of elements that are also members of another set.
LEMMA Retyped ==
    ASSUME NEW S, NEW T, NEW w \in Seq(S), \A k \in 1..Len(w) : w[k] \in T
    PROVE  w \in Seq(T)
  <1>1. w = [k \in 1..Len(w) |-> w[k]] /\ Len(w) \in Nat
    OBVIOUS
  <1> QED BY <1>1

\* Bytes are numbers.
LEMMA BytesAreNumbers == ASSUME NEW w \in Seq(Byte) PROVE w \in Seq(Int)
  <1>1. \A k \in 1..Len(w) : w[k] \in Int
    <2> TAKE k \in 1..Len(w)
    <2>1. w[k] \in Byte
      BY ElementOfSeq
    <2>2. \A x \in Byte : x \in Int
      BY DEF Byte
    <2> QED BY <2>1, <2>2
  <1> QED BY <1>1, Retyped

\* The fields of a header that is sent.
IsHeader(h) == /\ h.service \in UShort /\ h.method \in UShort
               /\ h.client \in UShort /\ h.session \in UShort
               /\ h.iface \in Int /\ h.type \in Int /\ h.code \in Int

\* The bytes of a message.
LEMMA Built ==
    ASSUME NEW h, NEW payload \in Seq(Int),
           IsHeader(h)
    PROVE  Framed(build_message(h, payload),
                  Short(h.service), Short(h.method), BigEndian(8 + Len(payload), 4),
                  Short(h.client), Short(h.session),
                  <<1, h.iface % 256, h.type % 256, h.code % 256>>, payload)
  <1>1. ASSUME NEW n \in UShort PROVE Short(n) \in Seq(Int) /\ Len(Short(n)) = 2
    <2>1. Short(n) \in Seq(Byte) /\ Len(Short(n)) = 2
      BY ShortWord
    <2> QED BY <2>1, BytesAreNumbers
  <1>2. /\ BigEndian(8 + Len(payload), 4) \in Seq(Int)
        /\ Len(BigEndian(8 + Len(payload), 4)) = 4
    BY BigEndianParts
  <1>3. PICK g \in Seq(Int) : g = <<1, h.iface % 256, h.type % 256, h.code % 256>> /\ Len(g) = 4
    <2>1. PICK i \in Int, t \in Int, c \in Int :
              i = h.iface % 256 /\ t = h.type % 256 /\ c = h.code % 256
      <3>1. h.iface \in Int /\ h.type \in Int /\ h.code \in Int
        BY DEF IsHeader
      <3> QED BY <3>1, Z3
    <2>2. <<1, i, t, c>> \in Seq(Int) /\ Len(<<1, i, t, c>>) = 4
      BY FourInARow
    <2> QED BY <2>1, <2>2
  <1>4. PICK a \in Seq(Int), b \in Seq(Int), d \in Seq(Int), e \in Seq(Int) :
            /\ a = Short(h.service) /\ b = Short(h.method)
            /\ d = Short(h.client) /\ e = Short(h.session)
            /\ Len(a) = 2 /\ Len(b) = 2 /\ Len(d) = 2 /\ Len(e) = 2
    BY <1>1 DEF IsHeader
  <1>5. PICK c \in Seq(Int) : c = BigEndian(8 + Len(payload), 4) /\ Len(c) = 4
    BY <1>2
  <1>6. build_message(h, payload) = a \o b \o c \o d \o e \o g \o payload
    BY <1>3, <1>4, <1>5 DEF build_message
  <1>7. Framed(a \o b \o c \o d \o e \o g \o payload, a, b, c, d, e, g, payload)
    <2>1. Len(a) = 2 /\ Len(b) = 2 /\ Len(c) = 4 /\ Len(d) = 2 /\ Len(e) = 2 /\ Len(g) = 4
      BY <1>3, <1>4, <1>5
    <2> QED BY <2>1, SixParts
  <1>8. Framed(build_message(h, payload), a, b, c, d, e, g, payload)
    BY <1>6, <1>7
  <1> QED BY <1>3, <1>4, <1>5, <1>8

\* Two and four elements in a row, as the header's fields are read.
LEMMA Pair ==
    ASSUME NEW S, NEW w \in Seq(S), NEW i \in 1..Len(w), NEW j \in 1..Len(w), j = i + 1
    PROVE  SubSeq(w, i, j) = <<w[i], w[j]>>
  <1>1. PICK n \in Nat : i = n + 1 /\ j = n + 2 /\ n + 2 <= Len(w) /\ (n + 2) - n = 2
    <2>1. i - 1 \in Nat /\ i = (i - 1) + 1 /\ j = (i - 1) + 2 /\ (i - 1) + 2 <= Len(w)
          /\ ((i - 1) + 2) - (i - 1) = 2
      OBVIOUS
    <2> QED BY <2>1
  <1>2. n + 2 \in Nat /\ n <= n + 2
    OBVIOUS
  <1>3. PICK v \in Seq(S) : /\ v = SubSeq(w, n + 1, n + 2) /\ Len(v) = 2
                            /\ \A k \in 1..2 : v[k] = w[n + k]
    <2> DEFINE m == n + 2
    <2>1. m \in Nat /\ n <= m /\ m <= Len(w) /\ m - n = 2
      BY <1>1, <1>2
    <2> HIDE DEF m
    <2>2. /\ SubSeq(w, n + 1, m) \in Seq(S) /\ Len(SubSeq(w, n + 1, m)) = m - n
          /\ \A k \in 1..(m - n) : SubSeq(w, n + 1, m)[k] = w[n + k]
      BY <2>1, Slice
    <2> QED BY <2>1, <2>2 DEF m
  <1>4. v = <<v[1], v[2]>>
    <2>1. Len(v) = 2
      BY <1>3
    <2> QED BY <2>1
  <1>5. v[1] = w[n + 1] /\ v[2] = w[n + 2]
    BY <1>3
  <1> QED BY <1>1, <1>3, <1>4, <1>5

\* A subsequence of four elements, written out.
LEMMA Quad ==
    ASSUME NEW S, NEW w \in Seq(S), NEW i \in 1..Len(w), NEW j \in 1..Len(w), j = i + 3
    PROVE  SubSeq(w, i, j) = <<w[i], w[i + 1], w[i + 2], w[j]>>
  <1>1. PICK n \in Nat : i = n + 1 /\ j = n + 4 /\ n + 4 <= Len(w) /\ (n + 4) - n = 4
    <2>1. i - 1 \in Nat /\ i = (i - 1) + 1 /\ j = (i - 1) + 4 /\ (i - 1) + 4 <= Len(w)
          /\ ((i - 1) + 4) - (i - 1) = 4
      OBVIOUS
    <2> QED BY <2>1
  <1>2. n + 4 \in Nat /\ n <= n + 4
    OBVIOUS
  <1>3. PICK v \in Seq(S) : /\ v = SubSeq(w, n + 1, n + 4) /\ Len(v) = 4
                            /\ \A k \in 1..4 : v[k] = w[n + k]
    <2> DEFINE m == n + 4
    <2>1. m \in Nat /\ n <= m /\ m <= Len(w) /\ m - n = 4
      BY <1>1, <1>2
    <2> HIDE DEF m
    <2>2. /\ SubSeq(w, n + 1, m) \in Seq(S) /\ Len(SubSeq(w, n + 1, m)) = m - n
          /\ \A k \in 1..(m - n) : SubSeq(w, n + 1, m)[k] = w[n + k]
      BY <2>1, Slice
    <2> QED BY <2>1, <2>2 DEF m
  <1>4. v = <<v[1], v[2], v[3], v[4]>>
    <2>1. Len(v) = 4
      BY <1>3
    <2> QED BY <2>1
  <1>5. v[1] = w[n + 1] /\ v[2] = w[n + 2] /\ v[3] = w[n + 3] /\ v[4] = w[n + 4]
    BY <1>3
  <1>6. i + 1 = n + 2 /\ i + 2 = n + 3
    BY <1>1
  <1> QED BY <1>1, <1>3, <1>4, <1>5, <1>6

\* A number of two bytes, by its bytes.
LEMMA ShortPair ==
    ASSUME NEW n \in UShort
    PROVE  /\ Short(n) = <<Short(n)[1], Short(n)[2]>>
           /\ Short(n)[1] \in Byte /\ Short(n)[2] \in Byte
           /\ Number(<<Short(n)[1], Short(n)[2]>>) = n
  <1>1. PICK w \in Seq(Byte) : w = Short(n) /\ Len(w) = 2 /\ Number(w) = n
    BY ShortWord
  <1>2. w = <<w[1], w[2]>>
    BY <1>1
  <1>3. w[1] \in Byte /\ w[2] \in Byte
    BY <1>1, ElementOfSeq
  <1> QED BY <1>1, <1>2, <1>3

\* Two bytes are a number of two bytes, and the number gives them back.
LEMMA PairNumber ==
    ASSUME NEW p \in Byte, NEW q \in Byte
    PROVE  Number(<<p, q>>) \in UShort /\ Short(Number(<<p, q>>)) = <<p, q>>
  <1>1. PICK w \in Seq(Byte) : w = <<p, q>> /\ Len(w) = 2
    <2>1. <<p, q>> \in Seq(Byte) /\ Len(<<p, q>>) = 2
      OBVIOUS
    <2> QED BY <2>1
  <1>2. "u16" \in Type /\ SizeOf("u16") = 2
    BY DEF Type, SizeOf
  <1>3. PICK n \in Int : n = Number(w) /\ 0 <= n /\ n < Span("u16") /\ BigEndian(n, 2) = w
    <2>1. w \in Word("u16")
      BY <1>1, <1>2 DEF Word
    <2> QED BY <1>2, <2>1, WordNumber
  <1>4. n < 65536 /\ 0 <= n
    BY <1>2, <1>3, SMT DEF Span
  <1>5. n \in UShort
    <2>1. PICK m \in Int : m = Span("u16") /\ n < m
      <3>1. Span("u16") \in Int
        BY <1>2, SMT DEF Span
      <3> QED BY <1>3, <3>1
    <2>2. n \in 0..(m - 1)
      BY <1>4, <2>1
    <2> QED BY <2>1, <2>2 DEF UShort
  <1>6. n % 65536 = n
    BY <1>3, <1>4, Z3
  <1>7. Short(n) = BigEndian(n, 2)
    BY <1>6, SMT DEF Short
  <1> QED BY <1>1, <1>3, <1>5, <1>7

\* What recv_someip reads of a message that build_message made.
IsBuilt(f, h, payload) ==
    /\ f \in Seq(Int) /\ Len(f) = HDR_SIZE + Len(payload)
    /\ Payload(f) = payload
    /\ unpack(f).service = h.service /\ unpack(f).method = h.method
    /\ unpack(f).client = h.client /\ unpack(f).session = h.session
    /\ unpack(f).iface = h.iface % 256 /\ unpack(f).type = h.type % 256
    /\ unpack(f).code = h.code % 256
    /\ <<f[1], f[2]>> = Short(h.service) /\ <<f[3], f[4]>> = Short(h.method)
    /\ <<f[9], f[10]>> = Short(h.client) /\ <<f[11], f[12]>> = Short(h.session)
    /\ <<f[5], f[6], f[7], f[8]>> = BigEndian(8 + Len(payload), 4)
    /\ f[13] = 1

\* build_message makes such a message.
LEMMA BuiltFields ==
    ASSUME NEW h, NEW payload \in Seq(Byte),
           IsHeader(h)
    PROVE  IsBuilt(build_message(h, payload), h, payload)
  <1> DEFINE f == build_message(h, payload)
             g == <<1, h.iface % 256, h.type % 256, h.code % 256>>
             c == BigEndian(8 + Len(payload), 4)
  <1>1. payload \in Seq(Int) /\ Len(payload) \in Nat
    BY BytesAreNumbers
  <1>2. Framed(f, Short(h.service), Short(h.method), c, Short(h.client), Short(h.session),
               g, payload)
    BY <1>1, Built
  <1>3. g[1] = 1 /\ g[2] = h.iface % 256 /\ g[3] = h.type % 256 /\ g[4] = h.code % 256
    OBVIOUS
  <1>4. c = <<c[1], c[2], c[3], c[4]>>
    <2>1. c \in Seq(Int) /\ Len(c) = 4
      <3>1. 8 + Len(payload) \in Int
        BY <1>1
      <3> QED BY <3>1, BigEndianParts
    <2> HIDE DEF c
    <2>2. PICK v \in Seq(Int) : v = c
      BY <2>1
    <2>3. Len(v) = 4
      BY <2>1, <2>2
    <2>4. v = <<v[1], v[2], v[3], v[4]>>
      BY <2>3
    <2> QED BY <2>2, <2>4
  <1> HIDE DEF f, g, c
  <1>5. f \in Seq(Int) /\ Len(f) = HDR_SIZE + Len(payload)
    BY <1>2 DEF Framed
  <1>6. /\ <<f[1], f[2]>> = Short(h.service) /\ <<f[3], f[4]>> = Short(h.method)
        /\ <<f[9], f[10]>> = Short(h.client) /\ <<f[11], f[12]>> = Short(h.session)
    <2>1. /\ f[1] = Short(h.service)[1] /\ f[2] = Short(h.service)[2]
          /\ f[3] = Short(h.method)[1] /\ f[4] = Short(h.method)[2]
          /\ f[9] = Short(h.client)[1] /\ f[10] = Short(h.client)[2]
          /\ f[11] = Short(h.session)[1] /\ f[12] = Short(h.session)[2]
      BY <1>2 DEF Framed
    <2>2. Short(h.service) = <<f[1], f[2]>> /\ Short(h.method) = <<f[3], f[4]>>
      BY <2>1, ShortPair DEF IsHeader
    <2>3. Short(h.client) = <<f[9], f[10]>> /\ Short(h.session) = <<f[11], f[12]>>
      BY <2>1, ShortPair DEF IsHeader
    <2> QED BY <2>2, <2>3
  <1>7. /\ Number(<<f[1], f[2]>>) = h.service /\ Number(<<f[3], f[4]>>) = h.method
        /\ Number(<<f[9], f[10]>>) = h.client /\ Number(<<f[11], f[12]>>) = h.session
    BY <1>6, ShortWord DEF IsHeader
  <1>8. /\ 1 \in 1..Len(f) /\ 2 \in 1..Len(f) /\ 3 \in 1..Len(f) /\ 4 \in 1..Len(f)
        /\ 9 \in 1..Len(f) /\ 10 \in 1..Len(f) /\ 11 \in 1..Len(f) /\ 12 \in 1..Len(f)
        /\ 2 = 1 + 1 /\ 4 = 3 + 1 /\ 10 = 9 + 1 /\ 12 = 11 + 1
    BY <1>1, <1>5 DEF HDR_SIZE
  <1>9. SubSeq(f, 1, 2) = <<f[1], f[2]>> /\ SubSeq(f, 3, 4) = <<f[3], f[4]>>
    BY <1>5, <1>8, Pair
  <1>10. SubSeq(f, 9, 10) = <<f[9], f[10]>> /\ SubSeq(f, 11, 12) = <<f[11], f[12]>>
    BY <1>5, <1>8, Pair
  <1>11. /\ unpack(f).service = h.service /\ unpack(f).method = h.method
         /\ unpack(f).client = h.client /\ unpack(f).session = h.session
    BY <1>7, <1>9, <1>10 DEF unpack
  <1>12. /\ f[13] = 1 /\ f[14] = h.iface % 256 /\ f[15] = h.type % 256
         /\ f[16] = h.code % 256
    BY <1>2, <1>3 DEF Framed
  <1>13. /\ unpack(f).iface = h.iface % 256 /\ unpack(f).type = h.type % 256
         /\ unpack(f).code = h.code % 256
    BY <1>12 DEF unpack
  <1>14. <<f[5], f[6], f[7], f[8]>> = c
    <2>1. f[5] = c[1] /\ f[6] = c[2] /\ f[7] = c[3] /\ f[8] = c[4]
      BY <1>2 DEF Framed
    <2> QED BY <1>4, <2>1
  <1>15. Payload(f) = payload
    <2>1. PICK n \in Nat, m \in Nat : /\ n = HDR_SIZE /\ m = n + Len(payload) /\ n <= m
                                      /\ m - n = Len(payload)
      BY <1>1 DEF HDR_SIZE
    <2>2. Len(f) = m /\ m <= Len(f)
      BY <1>5, <2>1
    <2>3. /\ SubSeq(f, n + 1, m) \in Seq(Int) /\ Len(SubSeq(f, n + 1, m)) = m - n
          /\ \A k \in 1..(m - n) : SubSeq(f, n + 1, m)[k] = f[n + k]
      BY <1>5, <2>1, <2>2, Slice
    <2>4. \A k \in 1..Len(payload) : f[n + k] = payload[k]
      BY <1>2, <2>1 DEF Framed
    <2>5. PICK x : x = SubSeq(f, n + 1, m)
      OBVIOUS
    <2>6. x \in Seq(Int) /\ Len(x) = Len(payload) /\ \A k \in 1..Len(payload) : x[k] = payload[k]
      BY <2>1, <2>3, <2>4, <2>5
    <2>7. x = payload
      BY <1>1, <2>6, SeqEqual
    <2>8. Payload(f) = x
      BY <2>1, <2>2, <2>5 DEF Payload
    <2> QED BY <2>7, <2>8
  <1> QED BY <1>5, <1>6, <1>11, <1>12, <1>13, <1>14, <1>15 DEF f, c, IsBuilt

\* A message that is not too long for its length field.
LEMMA BuiltSize ==
    ASSUME NEW h, NEW payload \in Seq(Byte),
           IsHeader(h),
           8 + Len(payload) < Span("u32")
    PROVE  LET f == build_message(h, payload)
           IN  f \in Seq(Byte) /\ LengthField(f) = Len(f) - 8
  <1> DEFINE f == build_message(h, payload)
             c == BigEndian(8 + Len(payload), 4)
             g == <<1, h.iface % 256, h.type % 256, h.code % 256>>
  <1>1. payload \in Seq(Int) /\ Len(payload) \in Nat
    BY BytesAreNumbers
  <1>2. Framed(f, Short(h.service), Short(h.method), c, Short(h.client), Short(h.session),
               g, payload)
    BY <1>1, Built
  <1>3. g[1] \in Byte /\ g[2] \in Byte /\ g[3] \in Byte /\ g[4] \in Byte
    <2> USE DEF IsHeader
    <2>1. ASSUME NEW x \in Int PROVE x % 256 \in Byte
      BY <2>1, Z3 DEF Byte
    <2>2. 1 \in Byte
      BY DEF Byte
    <2> QED BY <2>1, <2>2
  <1>4. PICK v \in Seq(Byte) : v = c /\ Len(v) = 4 /\ Number(v) = 8 + Len(payload)
    <2>1. "u32" \in Type /\ SizeOf("u32") = 4 /\ 8 + Len(payload) \in Nat
      BY <1>1 DEF Type, SizeOf
    <2>2. c \in Word("u32") /\ Number(c) = 8 + Len(payload)
      BY <2>1, NumberWord
    <2> QED BY <2>1, <2>2 DEF Word
  <1> HIDE DEF f, g, c
  <1>5. /\ v[1] \in Byte /\ v[2] \in Byte /\ v[3] \in Byte /\ v[4] \in Byte
        /\ v = <<v[1], v[2], v[3], v[4]>>
    <2>1. Len(v) = 4
      BY <1>4
    <2>2. v = <<v[1], v[2], v[3], v[4]>>
      BY <2>1
    <2>3. 1 \in 1..Len(v) /\ 2 \in 1..Len(v) /\ 3 \in 1..Len(v) /\ 4 \in 1..Len(v)
      BY <2>1
    <2>4. v[1] \in Byte /\ v[2] \in Byte /\ v[3] \in Byte /\ v[4] \in Byte
      BY <2>3, ElementOfSeq
    <2> QED BY <2>2, <2>4
  <1>6. PICK w \in Seq(Int) : w = f /\ Len(w) = 16 + Len(payload)
    BY <1>2 DEF Framed, HDR_SIZE
  <1>7. /\ w[5] = v[1] /\ w[6] = v[2] /\ w[7] = v[3] /\ w[8] = v[4]
    BY <1>2, <1>4, <1>6 DEF Framed
  <1>8. LengthField(w) = 8 + Len(payload)
    <2>1. 5 \in 1..Len(w) /\ 8 \in 1..Len(w) /\ 8 = 5 + 3 /\ 5 + 1 = 6 /\ 5 + 2 = 7
      BY <1>1, <1>6
    <2>2. SubSeq(w, 5, 8) = <<w[5], w[5 + 1], w[5 + 2], w[8]>>
      BY <2>1, Quad
    <2>3. SubSeq(w, 5, 8) = v
      BY <1>5, <1>7, <2>1, <2>2
    <2> QED BY <1>4, <2>3 DEF LengthField
  <1>9. /\ w[1] \in Byte /\ w[2] \in Byte /\ w[3] \in Byte /\ w[4] \in Byte
        /\ w[9] \in Byte /\ w[10] \in Byte /\ w[11] \in Byte /\ w[12] \in Byte
    <2>1. /\ w[1] = Short(h.service)[1] /\ w[2] = Short(h.service)[2]
          /\ w[3] = Short(h.method)[1] /\ w[4] = Short(h.method)[2]
          /\ w[9] = Short(h.client)[1] /\ w[10] = Short(h.client)[2]
          /\ w[11] = Short(h.session)[1] /\ w[12] = Short(h.session)[2]
      BY <1>2, <1>6 DEF Framed
    <2> QED BY <2>1, ShortPair DEF IsHeader
  <1>10. w[13] \in Byte /\ w[14] \in Byte /\ w[15] \in Byte /\ w[16] \in Byte
    BY <1>2, <1>3, <1>6 DEF Framed
  <1>11. \A k \in 1..Len(payload) : w[16 + k] = payload[k]
    BY <1>2, <1>6 DEF Framed, HDR_SIZE
  <1>12. \A k \in 1..Len(w) : w[k] \in Byte
    <2> TAKE k \in 1..Len(w)
    <2>1. CASE k \in 1..16
      <3>1. \/ k = 1 \/ k = 2 \/ k = 3 \/ k = 4 \/ k = 5 \/ k = 6 \/ k = 7 \/ k = 8
            \/ k = 9 \/ k = 10 \/ k = 11 \/ k = 12 \/ k = 13 \/ k = 14 \/ k = 15 \/ k = 16
        BY <2>1
      <3> QED BY <1>5, <1>7, <1>9, <1>10, <3>1
    <2>2. CASE k \notin 1..16
      <3>1. PICK j \in 1..Len(payload) : k = 16 + j
        <4>1. k - 16 \in 1..Len(payload) /\ k = 16 + (k - 16)
          BY <1>1, <1>6, <2>2
        <4> QED BY <4>1
      <3>2. payload[j] \in Byte
        BY ElementOfSeq
      <3> QED BY <1>11, <3>1, <3>2
    <2> QED BY <2>1, <2>2
  <1>13. w \in Seq(Byte)
    BY <1>12, Retyped
  <1>14. LengthField(w) = Len(w) - 8
    BY <1>1, <1>6, <1>8
  <1> QED BY <1>6, <1>13, <1>14 DEF f

\* The header of any bytes that are enough for one.
LEMMA HeaderOf ==
    ASSUME NEW q \in Seq(Byte), Len(q) >= HDR_SIZE
    PROVE  /\ unpack(q).service \in UShort /\ unpack(q).method \in UShort
           /\ unpack(q).client \in UShort /\ unpack(q).session \in UShort
           /\ unpack(q).iface \in Byte /\ unpack(q).type \in Byte /\ unpack(q).code \in Byte
           /\ Short(unpack(q).service) = <<q[1], q[2]>>
           /\ Short(unpack(q).method) = <<q[3], q[4]>>
           /\ Short(unpack(q).client) = <<q[9], q[10]>>
           /\ Short(unpack(q).session) = <<q[11], q[12]>>
           /\ Payload(q) \in Seq(Byte) /\ Len(Payload(q)) = Len(q) - HDR_SIZE
  <1>1. /\ 1 \in 1..Len(q) /\ 2 \in 1..Len(q) /\ 3 \in 1..Len(q) /\ 4 \in 1..Len(q)
        /\ 9 \in 1..Len(q) /\ 10 \in 1..Len(q) /\ 11 \in 1..Len(q) /\ 12 \in 1..Len(q)
        /\ 2 = 1 + 1 /\ 4 = 3 + 1 /\ 10 = 9 + 1 /\ 12 = 11 + 1
        /\ 14 \in 1..Len(q) /\ 15 \in 1..Len(q) /\ 16 \in 1..Len(q)
    BY DEF HDR_SIZE
  <1>2. SubSeq(q, 1, 2) = <<q[1], q[2]>> /\ SubSeq(q, 3, 4) = <<q[3], q[4]>>
    BY <1>1, Pair
  <1>3. SubSeq(q, 9, 10) = <<q[9], q[10]>> /\ SubSeq(q, 11, 12) = <<q[11], q[12]>>
    BY <1>1, Pair
  <1>4. /\ q[1] \in Byte /\ q[2] \in Byte /\ q[3] \in Byte /\ q[4] \in Byte
        /\ q[9] \in Byte /\ q[10] \in Byte /\ q[11] \in Byte /\ q[12] \in Byte
        /\ q[14] \in Byte /\ q[15] \in Byte /\ q[16] \in Byte
    BY <1>1, ElementOfSeq
  <1>5. /\ Number(<<q[1], q[2]>>) \in UShort /\ Number(<<q[3], q[4]>>) \in UShort
        /\ Number(<<q[9], q[10]>>) \in UShort /\ Number(<<q[11], q[12]>>) \in UShort
        /\ Short(Number(<<q[1], q[2]>>)) = <<q[1], q[2]>>
        /\ Short(Number(<<q[3], q[4]>>)) = <<q[3], q[4]>>
        /\ Short(Number(<<q[9], q[10]>>)) = <<q[9], q[10]>>
        /\ Short(Number(<<q[11], q[12]>>)) = <<q[11], q[12]>>
    BY <1>4, PairNumber
  <1>6. Payload(q) \in Seq(Byte) /\ Len(Payload(q)) = Len(q) - HDR_SIZE
    <2>1. PICK n \in Nat, m \in Nat : n = HDR_SIZE /\ m = Len(q) /\ n <= m
      BY DEF HDR_SIZE
    <2>2. SubSeq(q, n + 1, m) \in Seq(Byte) /\ Len(SubSeq(q, n + 1, m)) = m - n
      BY <2>1, Slice
    <2> QED BY <2>1, <2>2 DEF Payload
  <1>7. /\ unpack(q).service = Number(<<q[1], q[2]>>)
        /\ unpack(q).method = Number(<<q[3], q[4]>>)
        /\ unpack(q).client = Number(<<q[9], q[10]>>)
        /\ unpack(q).session = Number(<<q[11], q[12]>>)
        /\ unpack(q).iface = q[14] /\ unpack(q).type = q[15] /\ unpack(q).code = q[16]
    BY <1>2, <1>3 DEF unpack
  <1> QED BY <1>4, <1>5, <1>6, <1>7

\* The fields that an answer has of its message, and their bytes.
SameIds(h, g) == /\ h.service = g.service /\ h.method = g.method
                 /\ h.client = g.client /\ h.session = g.session
Echoes(p, q) == SubSeq(p, 1, 4) = SubSeq(q, 1, 4) /\ SubSeq(p, 9, 12) = SubSeq(q, 9, 12)

\* An answer that has the ids, the client and the session of a request has
\* the bytes of them.
LEMMA HeaderEchoed ==
    ASSUME NEW q \in Seq(Byte), Len(q) >= HDR_SIZE, NEW h, NEW payload \in Seq(Byte),
           SameIds(h, unpack(q)),
           h.iface \in Int, h.type \in Int, h.code \in Int
    PROVE  Echoes(build_message(h, payload), q)
  <1>1. PICK p : p = build_message(h, payload)
    OBVIOUS
  <1>2. /\ p \in Seq(Int) /\ Len(p) = HDR_SIZE + Len(payload)
        /\ <<p[1], p[2]>> = Short(h.service) /\ <<p[3], p[4]>> = Short(h.method)
        /\ <<p[9], p[10]>> = Short(h.client) /\ <<p[11], p[12]>> = Short(h.session)
    <2>1. /\ h.service \in UShort /\ h.method \in UShort
          /\ h.client \in UShort /\ h.session \in UShort
      BY HeaderOf DEF SameIds
    <2>2. IsHeader(h)
      BY <2>1 DEF IsHeader
    <2>3. IsBuilt(p, h, payload)
      BY <1>1, <2>2, BuiltFields
    <2> QED BY <2>3 DEF IsBuilt
  <1>3. /\ Short(h.service) = <<q[1], q[2]>> /\ Short(h.method) = <<q[3], q[4]>>
        /\ Short(h.client) = <<q[9], q[10]>> /\ Short(h.session) = <<q[11], q[12]>>
    BY HeaderOf DEF SameIds
  <1>4. /\ p[1] = q[1] /\ p[2] = q[2] /\ p[3] = q[3] /\ p[4] = q[4]
        /\ p[9] = q[9] /\ p[10] = q[10] /\ p[11] = q[11] /\ p[12] = q[12]
    BY <1>2, <1>3
  <1>5. ASSUME NEW S, NEW w \in Seq(S), Len(w) >= HDR_SIZE
        PROVE  /\ SubSeq(w, 1, 4) = <<w[1], w[2], w[3], w[4]>>
               /\ SubSeq(w, 9, 12) = <<w[9], w[10], w[11], w[12]>>
    <2>1. /\ 1 \in 1..Len(w) /\ 4 \in 1..Len(w) /\ 9 \in 1..Len(w) /\ 12 \in 1..Len(w)
          /\ 4 = 1 + 3 /\ 12 = 9 + 3 /\ 1 + 1 = 2 /\ 1 + 2 = 3 /\ 9 + 1 = 10 /\ 9 + 2 = 11
      BY <1>5 DEF HDR_SIZE
    <2>2. SubSeq(w, 1, 4) = <<w[1], w[1 + 1], w[1 + 2], w[4]>>
      BY <2>1, Quad
    <2>3. SubSeq(w, 9, 12) = <<w[9], w[9 + 1], w[9 + 2], w[12]>>
      BY <2>1, Quad
    <2> QED BY <2>1, <2>2, <2>3
  <1>6. Len(p) >= HDR_SIZE
    BY <1>2 DEF HDR_SIZE
  <1>7. /\ SubSeq(p, 1, 4) = <<p[1], p[2], p[3], p[4]>>
        /\ SubSeq(p, 9, 12) = <<p[9], p[10], p[11], p[12]>>
    BY <1>2, <1>5, <1>6
  <1>8. /\ SubSeq(q, 1, 4) = <<q[1], q[2], q[3], q[4]>>
        /\ SubSeq(q, 9, 12) = <<q[9], q[10], q[11], q[12]>>
    BY <1>5
  <1> QED BY <1>1, <1>4, <1>7, <1>8 DEF Echoes

\* Whoever decodes bytes that begin with those encode made of some values has,
\* for each signal, the value it can carry that is nearest.
LEMMA DecodedNearest ==
    ASSUME NEW S, \A s \in S : IsSignal(s), NEW sigs \in Seq(S),
           NEW values, AreNumbers(values),
           NEW b \in Seq(Byte), CanDecode(sigs, b),
           SubSeq(b, 1, encoded_size(sigs)) = encode(sigs, values),
           NEW i \in 1..Len(sigs)
    PROVE  LET s == sigs[i]
           IN  Nearest(s, Phys(s, Unpack(s.type, Field(sigs, b, i))), ValueOf(values, s))
  <1>1. PICK s : s = sigs[i] /\ IsSignal(s)
    BY ElementOfSeq
  <1>2. Field(sigs, b, i) = Packed(s, values)
    BY <1>1, FieldWord, EncodedFields
  <1>3. PICK raw, v \in Int : /\ raw = Raw(s, v) /\ v = ValueOf(values, s)
                              /\ raw \in Lo(s.type)..Hi(s.type)
                              /\ Unpack(s.type, Packed(s, values)) = raw
    BY <1>1, PackedWord
  <1>4. ASSUME NEW near \in Lo(s.type)..Hi(s.type)
        PROVE  Distance(Phys(s, raw), v) <= Distance(Phys(s, near), v)
    BY <1>1, <1>3, NearestRepresentable
  <1>5. Nearest(s, Phys(s, raw), v)
    BY <1>3, <1>4 DEF Nearest
  <1> QED BY <1>1, <1>2, <1>3, <1>5

\* The value of a field is a number, and packing it gives the field back.
LEMMA FieldValue ==
    ASSUME NEW S, \A s \in S : IsSignal(s), NEW sigs \in Seq(S),
           NEW b \in Seq(Byte), CanDecode(sigs, b), NEW i \in 1..Len(sigs)
    PROVE  LET s == sigs[i]
               v == Phys(s, Unpack(s.type, Field(sigs, b, i)))
           IN  v \in Int /\ Pack(s.type, Raw(s, v)) = Field(sigs, b, i)
  <1>1. PICK s : s = sigs[i] /\ IsSignal(s)
    BY ElementOfSeq
  <1>2. PICK w \in Word(s.type) : w = Field(sigs, b, i)
    BY <1>1, FieldWord
  <1>3. PICK raw \in Int : raw = Unpack(s.type, w)
    <2>1. Unpack(s.type, w) \in Lo(s.type)..Hi(s.type)
      BY <1>1, PackUnpack DEF IsSignal
    <2> QED BY <1>1, <2>1, Ranges DEF IsSignal
  <1>4. Phys(s, raw) \in Int
    <2>1. s.scale \in Int /\ s.offset \in Int
      BY <1>1 DEF IsSignal
    <2>2. raw * s.scale \in Int
      BY <2>1, Distribute
    <2> QED BY <2>1, <2>2 DEF Phys
  <1>5. Pack(s.type, Raw(s, Phys(s, raw))) = w
    BY <1>1, <1>3, FieldEchoed
  <1> QED BY <1>1, <1>2, <1>3, <1>4, <1>5

\* What decode returns are numbers; what encode makes of them is as long as
\* the signals, and the same bytes if no name occurs twice.
LEMMA DecodedEchoed ==
    ASSUME NEW S, \A s \in S : IsSignal(s), NEW sigs \in Seq(S),
           NEW b \in Seq(Byte), CanDecode(sigs, b)
    PROVE  /\ AreNumbers(decode(sigs, b))
           /\ encode(sigs, decode(sigs, b)) \in Seq(Byte)
           /\ Len(encode(sigs, decode(sigs, b))) = encoded_size(sigs)
           /\ (\A i, j \in DOMAIN sigs : sigs[i].name = sigs[j].name => i = j)
                => encode(sigs, decode(sigs, b)) = SubSeq(b, 1, encoded_size(sigs))
  <1>1. PICK values : values = decode(sigs, b)
    OBVIOUS
  <1>2. DOMAIN values = {sigs[i].name : i \in DOMAIN sigs} /\ DOMAIN sigs = 1..Len(sigs)
    BY <1>1 DEF decode
  <1>3. ASSUME NEW i \in 1..Len(sigs)
        PROVE  \E j \in 1..Len(sigs) :
                  /\ sigs[j].name = sigs[i].name
                  /\ values[sigs[i].name] = Phys(sigs[j], Unpack(sigs[j].type, Field(sigs, b, j)))
    <2>1. i \in DOMAIN sigs
      BY <1>2
    <2>2. PICK j \in DOMAIN sigs :
              /\ sigs[j].name = sigs[i].name
              /\ decode(sigs, b)[sigs[i].name] =
                    Phys(sigs[j], Unpack(sigs[j].type, Field(sigs, b, j)))
      BY <2>1, LastOfName
    <2>3. j \in 1..Len(sigs)
      BY <1>2
    <2> QED BY <1>1, <2>2, <2>3
  <1>4. AreNumbers(values)
    <2> SUFFICES ASSUME NEW n \in DOMAIN values PROVE values[n] \in Int
      BY DEF AreNumbers
    <2>1. PICK i \in 1..Len(sigs) : n = sigs[i].name
      BY <1>2
    <2>2. PICK j \in 1..Len(sigs) :
              values[n] = Phys(sigs[j], Unpack(sigs[j].type, Field(sigs, b, j)))
      BY <1>3, <2>1
    <2> QED BY <2>2, FieldValue
  <1>5. encode(sigs, values) \in Seq(Byte) /\ Len(encode(sigs, values)) = encoded_size(sigs)
    BY <1>4, EncodedFields
  <1>6. ASSUME \A i, j \in DOMAIN sigs : sigs[i].name = sigs[j].name => i = j
        PROVE  encode(sigs, values) = SubSeq(b, 1, encoded_size(sigs))
    <2>1. ASSUME NEW i \in 1..Len(sigs) PROVE Field(sigs, b, i) = Packed(sigs[i], values)
      <3>1. values[sigs[i].name] = Phys(sigs[i], Unpack(sigs[i].type, Field(sigs, b, i)))
        BY <1>2, <1>3, <1>6
      <3>2. sigs[i].name \in DOMAIN values
        BY <1>2
      <3>3. Packed(sigs[i], values) = Pack(sigs[i].type, Raw(sigs[i], values[sigs[i].name]))
        BY <3>2 DEF Packed, ValueOf
      <3> QED BY <3>1, <3>3, FieldValue
    <2> QED BY <1>4, <2>1, EncodedPrefix
  <1> QED BY <1>1, <1>4, <1>5, <1>6

-----------------------------------------------------------------------------
(* The stream.                                                             *)

\* No step takes a variable out of its type.
LEMMA StreamTypeStep == TypeOK /\ [Next]_vars => TypeOK'
  <1> SUFFICES ASSUME TypeOK, [Next]_vars PROVE TypeOK'
    OBVIOUS
  <1> USE DEF TypeOK, senderVars, receiverVars, vars
  <1>1. ASSUME NEW m \in Message, Send(m) PROVE TypeOK'
    <2>1. m \in Seq(Byte)
      BY StreamAssumption
    <2>2. stream' \in Seq(Byte) /\ Len(stream') = Len(stream) + Len(m)
      BY <1>1, <2>1 DEF Send
    <2>3. Len(stream) \in Nat /\ Len(m) \in Nat
      BY <2>1
    <2> QED BY <1>1, <2>2, <2>3 DEF Send
  <1>2. CASE Leave
    BY <1>2 DEF Leave
  <1>3. CASE Recv
    BY <1>3 DEF Recv
  <1>4. CASE RefuseLength
    BY <1>4 DEF RefuseLength
  <1>5. CASE AcceptLength
    BY <1>5 DEF AcceptLength
  <1>6. CASE ReturnMessage
    <2>1. SubSeq(stream, at + 1, read) \in Seq(Byte)
      OBVIOUS
    <2> QED BY <1>6, <2>1 DEF ReturnMessage
  <1>7. CASE HangUp
    BY <1>7 DEF HangUp
  <1>8. CASE (Handled \/ Raised) /\ UNCHANGED <<senderVars, read, at, frames>>
    BY <1>8 DEF Handled, Raised
  <1>9. CASE UNCHANGED vars
    BY <1>9
  <1> QED BY <1>1, <1>2, <1>3, <1>4, <1>5, <1>6, <1>7, <1>8, <1>9 DEF Next, RecvStep

\* The variables of the stream keep their types; in particular a receiver
\* never reads further than the sender has written.
THEOREM StreamTypeCorrect == Spec => []TypeOK
  <1>1. Init => TypeOK
    BY DEF Init, TypeOK
  <1> QED BY <1>1, StreamTypeStep, PTL DEF Spec
-----------------------------------------------------------------------------
(* The stream implements the channel.                                      *)

\* Where the i-th message starts, or will start.
Start(i) == IF i <= Len(starts) THEN starts[i] ELSE Len(stream)

\* The stream is the messages sent, one behind the other.
Layout ==
    /\ Len(starts) = Len(sent)
    /\ Start(1) = 0
    /\ \A i \in 1..Len(sent) :
          /\ Start(i + 1) = starts[i] + Len(sent[i])
          /\ Start(i + 1) <= Len(stream)
          /\ \A k \in 1..Len(sent[i]) : stream[starts[i] + k] = sent[i][k]

\* While no message was refused, the receiver stands at the start of the
\* message after those it has returned, and has not read beyond that one.
Aligned ==
    /\ Len(frames) <= Len(sent)
    /\ at = Start(Len(frames) + 1)
    /\ phase = "header" => read <= at + HDR_SIZE
    /\ phase = "payload" => /\ Len(frames) < Len(sent)
                            /\ read <= at + Len(sent[Len(frames) + 1])
    /\ phase = "handle" => read = at

StreamInv == TypeOK /\ Layout /\ (Channel!InStep(Len(frames) + 1) => Aligned)

\* The message after those returned, once its first byte is there.
LEMMA NextMessage ==
    ASSUME StreamInv, Channel!InStep(Len(frames) + 1), Len(frames) < Len(sent)
    PROVE  LET m == sent[Len(frames) + 1]
           IN  /\ m \in Message /\ m \in Seq(Byte)
               /\ HDR_SIZE <= Len(m) /\ Len(m) - HDR_SIZE <= MaxPayload
               /\ at + Len(m) <= Len(stream) /\ at + Len(m) = Start(Len(frames) + 2)
               /\ \A k \in 1..Len(m) : stream[at + k] = m[k]
               /\ Length = Len(m) - 8
  <1> DEFINE n == Len(frames)
             m == sent[n + 1]
  <1>1. n \in Nat /\ n + 1 \in 1..Len(sent) /\ at \in Nat /\ stream \in Seq(Byte)
    BY DEF StreamInv, TypeOK
  <1>2. m \in Message /\ m \in Seq(Byte) /\ Len(m) >= HDR_SIZE /\ LengthField(m) = Len(m) - 8
    BY <1>1, StreamAssumption DEF StreamInv, TypeOK
  <1>3. Len(m) - HDR_SIZE <= MaxPayload
    BY <1>1 DEF Channel!InStep
  <1>4. at = starts[n + 1]
    BY <1>1 DEF StreamInv, Aligned, Layout, Start
  <1>5. /\ at + Len(m) <= Len(stream) /\ at + Len(m) = Start(n + 2)
        /\ \A k \in 1..Len(m) : stream[at + k] = m[k]
    <2>1. (n + 1) + 1 = n + 2
      BY <1>1
    <2> QED BY <1>1, <1>4, <2>1 DEF StreamInv, Layout
  <1> HIDE DEF n, m
  <1>6. Length = LengthField(m)
    <2> DEFINE h == SubSeq(stream, at + 1, at + 8)
               a == SubSeq(h, 5, 8)
               c == SubSeq(m, 5, 8)
    <2>1. Len(stream) \in Nat /\ at + 8 <= Len(stream) /\ Len(m) \in Nat /\ 8 <= Len(m)
      BY <1>1, <1>2, <1>5 DEF HDR_SIZE
    <2>2. h \in Seq(Byte) /\ Len(h) = 8 /\ \A k \in 1..8 : h[k] = stream[at + k]
      BY <1>1, <2>1
    <2> HIDE DEF h
    <2>3. a \in Seq(Byte) /\ Len(a) = 4 /\ \A k \in 1..4 : a[k] = h[k + 4]
      <3>1. ASSUME NEW k \in 5..8 PROVE h[k] \in Byte
        <4>1. at + k \in 1..Len(stream) /\ k \in 1..8
          BY <1>1, <2>1
        <4> QED BY <1>1, <2>2, <4>1, ElementOfSeq
      <3>2. /\ a \in Seq(Byte) /\ Len(a) = 4
            /\ \A k \in 1..4 : a[k] = h[5 + k - 1]
        BY <3>1, SubSeqProperties
      <3> QED BY <3>2
    <2>4. c \in Seq(Byte) /\ Len(c) = 4 /\ \A k \in 1..4 : c[k] = m[k + 4]
      BY <1>2, <2>1
    <2> HIDE DEF a, c
    <2>5. \A k \in 1..4 : a[k] = c[k]
      <3> TAKE k \in 1..4
      <3>1. k + 4 \in 1..8 /\ k + 4 \in 1..Len(m)
        BY <2>1
      <3> QED BY <1>5, <2>2, <2>3, <2>4, <3>1
    <2>6. a = c
      BY <2>3, <2>4, <2>5, SeqEqual
    <2> QED BY <2>6 DEF Length, LengthField, a, c, h
  <1> QED BY <1>2, <1>3, <1>5, <1>6 DEF n, m

\* A message being sent keeps the messages before it where they are.
LEMMA SendKeepsLayout ==
    ASSUME StreamInv, NEW m \in Message, Send(m)
    PROVE  /\ Layout' /\ Len(stream) <= Len(stream')
           /\ \A i \in 1..(Len(sent) + 1) : Start(i)' = Start(i)
           /\ \A i \in 1..Len(sent) : sent'[i] = sent[i]
           /\ Len(sent') = Len(sent) + 1
  <1>0. PICK n \in Nat, len \in Nat : n = Len(sent) /\ len = Len(stream)
    BY DEF StreamInv, TypeOK
  <1>1. /\ m \in Seq(Byte) /\ Len(m) \in Nat
        /\ Len(starts) = n /\ starts \in Seq(Nat) /\ sent \in Seq(Message)
        /\ stream \in Seq(Byte)
    BY <1>0, StreamAssumption DEF StreamInv, TypeOK, Layout
  <1>2. /\ sent' \in Seq(Message) /\ Len(sent') = n + 1 /\ sent'[n + 1] = m
        /\ \A i \in 1..n : sent'[i] = sent[i]
    BY <1>0, <1>1 DEF Send
  <1>3. /\ starts' \in Seq(Nat) /\ Len(starts') = n + 1 /\ starts'[n + 1] = len
        /\ \A i \in 1..n : starts'[i] = starts[i]
    BY <1>0, <1>1 DEF Send
  <1>4. /\ Len(stream') = len + Len(m)
        /\ \A k \in 1..len : stream'[k] = stream[k]
        /\ \A k \in 1..Len(m) : stream'[len + k] = m[k]
    BY <1>0, <1>1 DEF Send
  <1>5. /\ \A i \in 1..n : Start(i)' = starts[i] /\ Start(i) = starts[i]
        /\ Start(n + 1)' = len /\ Start(n + 1) = len
        /\ Start(n + 2)' = len + Len(m)
    BY <1>0, <1>1, <1>3, <1>4 DEF Start
  <1>6. ASSUME NEW i \in 1..(n + 1) PROVE Start(i)' = Start(i)
    <2>1. i \in 1..n \/ i = n + 1
      OBVIOUS
    <2>2. CASE i \in 1..n
      BY <1>5, <2>2
    <2>3. CASE i = n + 1
      BY <1>5, <2>3
    <2> QED BY <2>1, <2>2, <2>3
  <1>7. Start(1)' = 0
    <2>1. Start(1) = 0
      BY DEF StreamInv, Layout
    <2> QED BY <1>1, <1>6, <2>1
  <1>8. ASSUME NEW i \in 1..(n + 1)
        PROVE  /\ Start(i + 1)' = starts'[i] + Len(sent'[i])
               /\ Start(i + 1)' <= Len(stream')
               /\ \A k \in 1..Len(sent'[i]) : stream'[starts'[i] + k] = sent'[i][k]
    <2>1. CASE i = n + 1
      <3>1. i + 1 = n + 2
        BY <1>1, <2>1
      <3> QED BY <1>1, <1>2, <1>3, <1>4, <1>5, <2>1, <3>1
    <2>2. CASE i \in 1..n
      <3>1. i + 1 \in 1..(n + 1)
        BY <1>1, <2>2
      <3>2. /\ Start(i + 1) = starts[i] + Len(sent[i]) /\ Start(i + 1) <= len
            /\ \A k \in 1..Len(sent[i]) : stream[starts[i] + k] = sent[i][k]
        BY <1>0, <2>2 DEF StreamInv, Layout
      <3>3. starts[i] \in Nat /\ sent[i] \in Seq(Byte) /\ Len(sent[i]) \in Nat
        BY <1>0, <1>1, <2>2, StreamAssumption
      <3>4. ASSUME NEW k \in 1..Len(sent[i]) PROVE starts[i] + k \in 1..len
        <4>1. starts[i] + Len(sent[i]) <= len
          BY <3>2
        <4> QED BY <3>3, <4>1
      <3>5. Start(i + 1)' = Start(i + 1)
        BY <1>6, <3>1
      <3>6. sent'[i] = sent[i] /\ starts'[i] = starts[i]
        BY <1>2, <1>3, <2>2
      <3>7. \A k \in 1..Len(sent[i]) : stream'[starts[i] + k] = stream[starts[i] + k]
        BY <1>4, <3>4
      <3>8. len <= Len(stream')
        BY <1>1, <1>4
      <3>9. Start(i + 1) \in Nat
        BY <3>2, <3>3
      <3> QED BY <1>1, <1>4, <3>2, <3>5, <3>6, <3>7, <3>8, <3>9
    <2> QED BY <1>1, <2>1, <2>2
  <1>9. Layout'
    <2>1. Len(starts') = Len(sent') /\ Len(sent') = n + 1
      BY <1>2, <1>3
    <2> QED BY <1>7, <1>8, <2>1 DEF Layout
  <1> QED BY <1>0, <1>1, <1>2, <1>4, <1>6, <1>9

\* Steps that leave the sender alone leave its layout alone.
LEMMA SameLayout ==
    ASSUME UNCHANGED <<stream, sent, starts>>
    PROVE  /\ Layout' <=> Layout
           /\ \A i : Start(i)' = Start(i)
           /\ \A i : Channel!InStep(i)' <=> Channel!InStep(i)
  BY DEF Layout, Start, Channel!InStep

\* Before anything is sent the receiver is in step.
LEMMA StreamInvInit == Init => StreamInv
  <1> SUFFICES ASSUME Init PROVE StreamInv
    OBVIOUS
  <1> USE DEF Init
  <1>1. TypeOK
    BY DEF TypeOK
  <1>2. Start(1) = 0
    BY DEF Start
  <1>3. Layout
    BY <1>2 DEF Layout
  <1>4. Aligned
    BY <1>2 DEF Aligned, HDR_SIZE
  <1> QED BY <1>1, <1>3, <1>4 DEF StreamInv

\* Every step of the peer and of the receiver keeps the receiver in step.
LEMMA StreamInvNext == StreamInv /\ [Next]_vars => StreamInv'
  <1> SUFFICES ASSUME StreamInv, [Next]_vars PROVE StreamInv'
    OBVIOUS
  <1>1. TypeOK /\ TypeOK'
    BY StreamTypeStep DEF StreamInv
  <1>0. PICK n \in Nat : n = Len(frames)
    BY <1>1 DEF TypeOK
  <1>2. n \in Nat /\ at \in Nat /\ read \in Nat /\ at <= read /\ read <= Len(stream)
        /\ Len(stream) \in Nat /\ Len(sent) \in Nat
    BY <1>1 DEF TypeOK
  \* While in step, a receiver that has read something is within a message.
  <1>3. ASSUME Aligned, at < read PROVE n < Len(sent)
    <2>1. n = Len(sent) => at = Len(stream)
      BY <1>0, <1>2, <1>3 DEF Aligned, Start, StreamInv, Layout
    <2> QED BY <1>0, <1>2, <1>3, <2>1 DEF Aligned
  <1>4. ASSUME NEW m \in Message, Send(m) PROVE StreamInv'
    <2>1. Layout'
      BY <1>0, <1>4, SendKeepsLayout
    <2>2. ASSUME Channel!InStep(Len(frames) + 1)' PROVE Aligned'
      <3>1. Len(sent') = Len(sent) + 1 /\ \A i \in 1..Len(sent) : sent'[i] = sent[i]
        BY <1>0, <1>4, SendKeepsLayout
      <3>2. Channel!InStep(n + 1)
        <4> SUFFICES ASSUME NEW j \in 1..(n + 1), j <= Len(sent)
                     PROVE  sent[j] \in {x \in Message : Len(x) - HDR_SIZE <= MaxPayload}
          BY DEF Channel!InStep
        <4>1. j \in 1..Len(sent) /\ j <= Len(sent')
          BY <1>2, <3>1
        <4>2. Len(frames)' = n
          BY <1>0, <1>4 DEF Send, receiverVars
        <4>3. sent'[j] \in {x \in Message : Len(x) - HDR_SIZE <= MaxPayload}
          BY <2>2, <4>1, <4>2 DEF Channel!InStep
        <4> QED BY <3>1, <4>1, <4>3
      <3>3. Aligned
        BY <1>0, <3>2 DEF StreamInv
      <3>4. n + 1 \in 1..(Len(sent) + 1)
        BY <1>0, <1>2, <3>3 DEF Aligned
      <3>5. Start(n + 1)' = Start(n + 1)
        BY <1>0, <1>4, <3>4, SendKeepsLayout
      <3>6. UNCHANGED <<read, at, phase, frames>>
        BY <1>0, <1>4 DEF Send, receiverVars
      <3>7. Start(Len(frames) + 1)' = Start(n + 1)
        BY <1>0, <3>5, <3>6 DEF Start
      <3>8. n < Len(sent) => sent'[n + 1] = sent[n + 1]
        BY <1>0, <1>2, <3>1
      <3> QED BY <1>0, <1>2, <3>1, <3>3, <3>6, <3>7, <3>8 DEF Aligned
    <2>3. UNCHANGED frames
      BY <1>0, <1>4 DEF Send, receiverVars
    <2> QED BY <1>0, <1>1, <2>1, <2>2, <2>3 DEF StreamInv, Channel!InStep
  <1>5. ASSUME UNCHANGED <<stream, sent, starts>>, UNCHANGED frames,
               Channel!InStep(n + 1) /\ Aligned => Aligned'
        PROVE  StreamInv'
    BY <1>0, <1>1, <1>5 DEF StreamInv, Layout, Start, Channel!InStep
  <1>6. CASE Leave
    <2>1. Aligned => Aligned'
      BY <1>0, <1>6 DEF Leave, receiverVars, Aligned, Start
    <2> QED BY <1>0, <1>5, <1>6, <2>1 DEF Leave, receiverVars
  <1>7. CASE Recv
    <2>1. ASSUME Channel!InStep(n + 1), Aligned PROVE Aligned'
      <3>1. phase = "payload" => Goal = at + Len(sent[n + 1])
        <4>1. ASSUME phase = "payload"
              PROVE  Length = Len(sent[n + 1]) - 8 /\ Len(sent[n + 1]) \in Nat
          BY <1>0, <2>1, <4>1, NextMessage DEF Aligned
        <4> QED BY <1>0, <1>2, <4>1 DEF Goal
      <3>2. phase = "header" => Goal = at + HDR_SIZE
        BY <1>0 DEF Goal
      <3>3. read' <= Goal /\ phase \in {"header", "payload"}
            /\ UNCHANGED <<stream, sent, starts, at, phase, frames>>
        BY <1>0, <1>7 DEF Recv, senderVars
      <3>4. Start(Len(frames) + 1)' = Start(n + 1)
        BY <1>0, <3>3 DEF Start
      <3> QED BY <1>0, <2>1, <3>1, <3>2, <3>3, <3>4 DEF Aligned
    <2> QED BY <1>0, <1>5, <1>7, <2>1 DEF Recv, senderVars
  <1>8. ASSUME HeaderRead, Channel!InStep(n + 1), Aligned
        PROVE  /\ n < Len(sent) /\ read = at + HDR_SIZE /\ ~Refused
               /\ read <= at + Len(sent[n + 1])
    <2>1. read = at + HDR_SIZE
      BY <1>0, <1>2, <1>8 DEF HeaderRead, Goal, Aligned, HDR_SIZE
    <2>2. n < Len(sent)
      BY <1>0, <1>2, <1>3, <1>8, <2>1 DEF HDR_SIZE
    <2>3. /\ HDR_SIZE <= Len(sent[n + 1]) /\ Len(sent[n + 1]) - HDR_SIZE <= MaxPayload
          /\ Length = Len(sent[n + 1]) - 8 /\ Len(sent[n + 1]) \in Nat
      BY <1>0, <1>8, <2>2, NextMessage
    <2> QED BY <1>0, <1>2, <2>1, <2>2, <2>3, StreamAssumption DEF Refused, HDR_SIZE
  <1>9. CASE RefuseLength
    BY <1>5, <1>8, <1>9 DEF RefuseLength, senderVars
  <1>10. CASE AcceptLength
    <2>1. ASSUME Channel!InStep(n + 1), Aligned PROVE Aligned'
      <3>1. HeaderRead /\ phase' = "payload"
            /\ UNCHANGED <<stream, sent, starts, read, at, frames>>
        BY <1>0, <1>10 DEF AcceptLength, senderVars
      <3>2. Start(Len(frames) + 1)' = Start(n + 1)
        BY <1>0, <3>1 DEF Start
      <3> QED BY <1>0, <1>8, <2>1, <3>1, <3>2 DEF Aligned
    <2> QED BY <1>0, <1>5, <1>10, <2>1 DEF AcceptLength, senderVars
  <1>11. CASE ReturnMessage
    <2>1. /\ UNCHANGED <<stream, sent, starts>> /\ Len(frames') = n + 1
          /\ at' = read /\ read' = read /\ phase' = "handle" /\ phase = "payload"
          /\ read >= Goal
      BY <1>0, <1>1, <1>11 DEF ReturnMessage, senderVars, TypeOK
    <2>2. ASSUME Channel!InStep(n + 2) PROVE Aligned'
      <3>1. Channel!InStep(n + 1)
        BY <1>0, <1>2, <2>2 DEF Channel!InStep
      <3>2. Aligned /\ n < Len(sent) /\ read <= at + Len(sent[n + 1])
        BY <1>0, <2>1, <3>1 DEF StreamInv, Aligned
      <3>3. at + Len(sent[n + 1]) = Start(n + 2) /\ Length = Len(sent[n + 1]) - 8
            /\ Len(sent[n + 1]) \in Nat
        BY <1>0, <3>1, <3>2, NextMessage
      <3>4. read = Start(n + 2)
        BY <1>0, <1>2, <2>1, <3>2, <3>3 DEF Goal
      <3>5. Start(n + 2)' = Start(n + 2)
        BY <1>0, <2>1 DEF Start
      <3>6. Len(frames') + 1 = n + 2
        BY <1>0, <1>2, <2>1
      <3>7. Start(Len(frames) + 1)' = Start(n + 2)
        BY <1>0, <3>5, <3>6 DEF Start
      <3>8. phase' # "header" /\ phase' # "payload"
        BY <1>0, <2>1
      <3>9. Len(frames') <= Len(sent')
        BY <1>0, <1>2, <2>1, <3>2
      <3> QED BY <1>0, <2>1, <3>4, <3>7, <3>8, <3>9 DEF Aligned
    <2>3. Layout'
      BY <1>0, <2>1, SameLayout DEF StreamInv
    <2>4. Len(frames') + 1 = n + 2
      BY <1>0, <1>2, <2>1
    <2>5. Channel!InStep(Len(frames) + 1)' => Channel!InStep(n + 2)
      BY <1>0, <2>1, <2>4 DEF Channel!InStep
    <2> QED BY <1>0, <1>1, <2>2, <2>3, <2>5 DEF StreamInv
  <1>12. CASE HangUp
    <2>1. Aligned => Aligned'
      BY <1>0, <1>12 DEF HangUp, senderVars, Aligned, Start
    <2> QED BY <1>0, <1>5, <1>12, <2>1 DEF HangUp, senderVars
  <1>13. CASE (Handled \/ Raised) /\ UNCHANGED <<senderVars, read, at, frames>>
    <2>1. Aligned => Aligned'
      <3> SUFFICES ASSUME Aligned PROVE Aligned'
        OBVIOUS
      <3>1. read = at /\ phase' \in {"header", "ended"}
            /\ UNCHANGED <<stream, sent, starts, read, at, frames>>
        BY <1>0, <1>13 DEF Handled, Raised, senderVars, Aligned
      <3>2. Start(Len(frames) + 1)' = Start(n + 1)
        BY <1>0, <3>1 DEF Start
      <3> QED BY <1>0, <1>2, <3>1, <3>2 DEF Aligned, HDR_SIZE
    <2> QED BY <1>0, <1>5, <1>13, <2>1 DEF senderVars
  <1>14. CASE UNCHANGED vars
    <2>1. Aligned => Aligned'
      BY <1>0, <1>14 DEF vars, senderVars, receiverVars, Aligned, Start
    <2> QED BY <1>0, <1>5, <1>14, <2>1 DEF vars, senderVars, receiverVars
  <1> QED BY <1>0, <1>4, <1>6, <1>7, <1>9, <1>10, <1>11, <1>12, <1>13, <1>14 DEF Next, RecvStep

\* Every step of the stream is a step of the channel, or none.
LEMMA ChannelStep == StreamInv /\ [Next]_vars => [Channel!Next]_Channel!vars
  <1> SUFFICES ASSUME StreamInv, [Next]_vars
               PROVE  Channel!Next \/ UNCHANGED <<sent, frames>>
    BY DEF Channel!vars
  <1>1. ASSUME NEW m \in Message, Send(m) PROVE Channel!Send
    BY <1>1 DEF Send, receiverVars, Channel!Send
  <1>2. CASE ReturnMessage
    <2> DEFINE n == Len(frames)
               f == SubSeq(stream, at + 1, read)
    <2>1. /\ frames \in Seq(Seq(Byte)) /\ n \in Nat /\ at \in Nat /\ read \in Nat
          /\ stream \in Seq(Byte) /\ at <= read /\ read <= Len(stream)
      BY DEF StreamInv, TypeOK
    <2>2. f \in Seq(Byte) /\ Len(f) = read - at
          /\ \A k \in 1..(read - at) : f[k] = stream[at + k]
      BY <2>1
    <2>3. frames' = Append(frames, f) /\ UNCHANGED sent /\ phase = "payload" /\ read >= Goal
      BY <1>2 DEF ReturnMessage, senderVars
    <2> HIDE DEF f
    <2>4. CASE Channel!InStep(n + 1)
      <3> DEFINE m == sent[n + 1]
      <3>1. n < Len(sent) /\ read <= at + Len(m)
        BY <2>3, <2>4 DEF StreamInv, Aligned
      <3>2. /\ m \in Seq(Byte) /\ Length = Len(m) - 8
            /\ \A k \in 1..Len(m) : stream[at + k] = m[k]
        BY <2>4, <3>1, NextMessage
      <3>3. read = at + Len(m)
        <4>1. Len(m) \in Nat
          BY <3>2
        <4>2. Goal = at + (Len(m) - 8 + 8)
          BY <2>3, <3>2 DEF Goal
        <4> HIDE DEF m
        <4> QED BY <2>1, <2>3, <3>1, <4>1, <4>2
      <3>4. f = m
        BY <2>1, <2>2, <3>2, <3>3, SeqEqual
      <3>5. n + 1 <= Len(sent)
        BY <2>1, <3>1 DEF StreamInv, TypeOK
      <3>6. Channel!Take
        BY <2>3, <2>4, <3>4, <3>5 DEF Channel!Take
      <3> QED BY <3>6 DEF Channel!Next
    <2>5. CASE ~Channel!InStep(n + 1)
      <3>1. Len(frames') = n + 1 /\ SubSeq(frames', 1, n) = frames
        BY <2>1, <2>2, <2>3
      <3> QED BY <2>3, <2>5, <3>1 DEF Channel!Next, Channel!TakeAnything
    <2> QED BY <2>4, <2>5
  <1>3. CASE Leave \/ Recv \/ RefuseLength \/ AcceptLength \/ HangUp
    BY <1>3 DEF Leave, Recv, RefuseLength, AcceptLength, HangUp, senderVars, receiverVars
  <1>4. CASE (Handled \/ Raised) /\ UNCHANGED <<senderVars, read, at, frames>>
    BY <1>4 DEF senderVars
  <1>5. CASE UNCHANGED vars
    BY <1>5 DEF vars, senderVars, receiverVars
  <1> QED BY <1>1, <1>2, <1>3, <1>4, <1>5 DEF Next, RecvStep, Channel!Next

\* recv_someip on a stream of bytes implements the channel of messages: until
\* a message is refused for its length, the handler takes the messages sent,
\* whole and in order, whatever pieces recv returns.
THEOREM StreamIsChannel == Spec => ChannelSpec
  <1>1. Init => Channel!Init
    BY DEF Init, Channel!Init
  <1> QED BY <1>1, ChannelStep, StreamInvInit, StreamInvNext, PTL DEF Spec, ChannelSpec, Channel!Spec

-----------------------------------------------------------------------------
(* The handler.                                                            *)

\* What a request makes is one of the messages that may be sent.
LEMMA RequestIsSent == \A c \in Request : WireOf[c] \in Message
  <1>1. Message = {WireOf[c] : c \in Request}
    BY RequestAssumption
  <1> QED BY <1>1

\* With the handler of apps/node.py behind it, a connection is still such a stream.
LEMMA MethodIsStream == [MethodNext]_allVars => [Next]_vars
  <1> SUFFICES ASSUME [MethodNext]_allVars PROVE [Next]_vars
    OBVIOUS
  <1>1. ASSUME NEW c \in Request, Send(WireOf[c]) PROVE Next
    <2>1. WireOf[c] \in Message
      BY RequestIsSent
    <2> QED BY <1>1, <2>1 DEF Next
  <1>2. CASE Leave \/ RecvStep
    BY <1>2 DEF Next
  <1>3. CASE Handle
    <2>1. Handled \/ Raised
      BY <1>3 DEF Handle, Ignore, Reject, Fail, Serve, Answer
    <2> QED BY <1>3, <2>1 DEF Handle, Next
  <1>4. CASE UNCHANGED allVars
    BY <1>4 DEF allVars
  <1> QED BY <1>1, <1>2, <1>3, <1>4 DEF MethodNext

\* The handler of apps/node.py works on the channel of messages.
THEOREM HandlerReadsChannel == MethodSpec => ChannelSpec
  <1>1. MethodInit => Init
    BY DEF MethodInit
  <1>2. Spec => ChannelSpec
    BY StreamIsChannel
  <1> QED BY <1>1, <1>2, MethodIsStream, PTL DEF MethodSpec, Spec
-----------------------------------------------------------------------------
(* The noise.                                                              *)

\* Noise turns over the bits it is said to turn over, and no others.
LEMMA DamagedBits ==
    ASSUME NEW b \in Seq(Byte), NEW noise
    PROVE  /\ Damaged(b, noise) \in Seq(Byte)
           /\ Len(Damaged(b, noise)) = Len(b)
           /\ \A n \in 1..(8 * Len(b)) :
                 BitOf(b, n) # BitOf(Damaged(b, noise), n) <=> n \in noise
           /\ noise = {} => Damaged(b, noise) = b
  <1>1. PICK len \in Nat : len = Len(b)
    OBVIOUS
  <1> DEFINE D == Damaged(b, noise)
             bit(n) == IF n \in noise THEN 1 - BitOf(b, n) ELSE BitOf(b, n)
             bits(k) == [j \in 1..8 |-> bit(8 * (k - 1) + j)]
  <1>2. D = [k \in 1..len |-> Octet(bits(k))]
    BY <1>1 DEF Damaged
  <1> HIDE DEF D
  <1>3. ASSUME NEW k \in 1..len
        PROVE  /\ D[k] \in Byte
               /\ \A j \in 1..8 : (D[k] \div Weight[j]) % 2 = bit(8 * (k - 1) + j)
    <2>1. ASSUME NEW j \in 1..8 PROVE bit(8 * (k - 1) + j) \in Bit
      <3>1. 8 * (k - 1) + j \in 1..(8 * len)
        BY <1>1, Z3
      <3>2. BitOf(b, 8 * (k - 1) + j) \in Bit
        BY <1>1, <3>1, BitType
      <3> QED BY <3>2 DEF Bit
    <2> HIDE DEF bit
    <2>2. PICK v \in [1..8 -> Bit] : v = bits(k)
      BY <2>1
    <2>3. Octet(v) \in Byte /\ \A j \in 1..8 : (Octet(v) \div Weight[j]) % 2 = v[j]
      BY OctetBits
    <2>4. D[k] = Octet(v) /\ \A j \in 1..8 : v[j] = bit(8 * (k - 1) + j)
      BY <1>2, <2>2
    <2> QED BY <2>3, <2>4
  <1>4. D \in Seq(Byte) /\ Len(D) = len
    <2>1. D \in [1..len -> Byte]
      BY <1>2, <1>3
    <2> QED BY <2>1
  <1>5. ASSUME NEW n \in 1..(8 * len) PROVE BitOf(D, n) = bit(n)
    <2>1. PICK k \in 1..len, j \in 1..8 : n = 8 * (k - 1) + j
      BY <1>1, BitPlace
    <2>2. k \in Nat \ {0}
      BY <1>1
    <2>3. BitOf(D, n) = (D[k] \div Weight[j]) % 2
      BY <2>1, <2>2, BitAt
    <2>4. (D[k] \div Weight[j]) % 2 = bit(8 * (k - 1) + j)
      BY <1>3
    <2> QED BY <2>1, <2>3, <2>4
  <1>6. ASSUME NEW n \in 1..(8 * len) PROVE BitOf(b, n) # BitOf(D, n) <=> n \in noise
    <2>1. BitOf(b, n) \in Bit
      BY <1>1, BitType
    <2>2. BitOf(b, n) # bit(n) <=> n \in noise
      BY <2>1 DEF Bit
    <2> QED BY <1>5, <2>2
  <1>7. ASSUME noise = {} PROVE D = b
    <2>1. ASSUME NEW k \in 1..len PROVE D[k] = b[k]
      <3>1. b[k] \in Byte /\ k \in Nat \ {0}
        BY <1>1, ElementOfSeq
      <3>2. PICK v : v = bits(k)
        OBVIOUS
      <3>3. ASSUME NEW j \in 1..8 PROVE v[j] = (b[k] \div Weight[j]) % 2
        <4>1. v[j] = BitOf(b, 8 * (k - 1) + j)
          BY <1>7, <3>2
        <4> QED BY <3>1, <4>1, BitAt
      <3>4. Octet(v) = b[k]
        BY <3>1, <3>3, ByteBits
      <3> QED BY <1>2, <3>2, <3>4
    <2> QED BY <1>1, <1>4, <2>1, SeqEqual
  <1> QED BY <1>1, <1>4, <1>6, <1>7 DEF D
-----------------------------------------------------------------------------
(* What the handler makes of a message.                                    *)

\* The signals of the routing table.
LEMMA RouteOf ==
    ASSUME NEW k \in DOMAIN Routes
    PROVE  /\ \A s \in Signal : IsSignal(s)
           /\ Routes[k].sigs \in Seq(Signal)
           /\ Routes[k].protected \in BOOLEAN /\ Routes[k].iface \in Int
           /\ \A i \in 1..Len(Routes[k].sigs) : /\ Routes[k].sigs[i] \in Signals
                                                /\ Routes[k].sigs[i].name \in Names
  <1>1. /\ \A s \in Signal : IsSignal(s)
        /\ Routes[k].sigs \in Seq(Signal)
        /\ Routes[k].protected \in BOOLEAN /\ Routes[k].iface \in Int
    BY CatalogAssumption
  <1>2. ASSUME NEW i \in 1..Len(Routes[k].sigs)
        PROVE  Routes[k].sigs[i] \in Signals /\ Routes[k].sigs[i].name \in Names
    <2>1. i \in DOMAIN Routes[k].sigs
      BY <1>1
    <2>2. Routes[k].sigs[i] \in Signals
      BY <2>1 DEF Signals
    <2> QED BY <2>2 DEF Names
  <1> QED BY <1>1, <1>2

\* A message that recv_someip may return.
IsFrame(f) == f \in Seq(Byte) /\ HDR_SIZE <= Len(f) /\ Len(f) - HDR_SIZE <= MaxPayload

\* What decode works on is a part of the payload.
LEMMA CoreOf ==
    ASSUME NEW f, IsFrame(f), Known(f), Accepted(f)
    PROVE  /\ Body(f) \in Seq(Byte) /\ Len(Body(f)) <= MaxPayload
           /\ RequestCore(f) \in Seq(Byte)
           /\ Len(RequestCore(f)) = IF Route(f).protected THEN Len(Body(f)) - 4
                                                          ELSE Len(Body(f))
  <1>1. Body(f) \in Seq(Byte) /\ Len(Body(f)) <= MaxPayload
    BY HeaderOf DEF IsFrame, Body
  <1>2. CASE Route(f).protected
    <2>1. PICK b \in Seq(Byte) : b = Body(f) /\ Len(b) >= 4
      BY <1>1, <1>2 DEF Accepted, Intact
    <2>2. PICK z \in Nat, m \in Nat : z + 1 = 1 /\ z <= m /\ m = Len(b) - 4 /\ m - z = m /\ m <= Len(b)
      <3> DEFINE m == Len(b) - 4
      <3>1. m \in Nat /\ m <= Len(b)
        BY <2>1
      <3> HIDE DEF m
      <3>2. PICK z \in Nat : z + 1 = 1 /\ z <= m /\ m - z = m
        BY <3>1
      <3> QED BY <3>1, <3>2 DEF m
    <2>3. SubSeq(b, z + 1, m) \in Seq(Byte) /\ Len(SubSeq(b, z + 1, m)) = m - z
      BY <2>2, Slice
    <2> QED BY <1>1, <1>2, <2>1, <2>2, <2>3 DEF RequestCore, Core
  <1>3. CASE ~Route(f).protected
    BY <1>1, <1>3 DEF RequestCore
  <1> QED BY <1>1, <1>2, <1>3

\* The values decoded are numbers for signals of the catalog.
Partial == UNION {[N -> Int] : N \in SUBSET Names}

\* A message the handler answers with its values.
Served(f) == Known(f) /\ Accepted(f) /\ Decodes(f)

\* The values of an answered message are written to its own signal bytes.
LEMMA ServedValues ==
    ASSUME NEW f, IsFrame(f), Served(f)
    PROVE  LET core == encode(Route(f).sigs, Values(f))
               size == encoded_size(Route(f).sigs)
           IN  /\ Values(f) \in Partial
               /\ core \in Seq(Byte) /\ Len(core) = size /\ size <= Len(RequestCore(f))
               /\ NamedOnce(Route(f).sigs) => core = SubSeq(RequestCore(f), 1, size)
  <1>1. PICK k \in DOMAIN Routes : k = Key(f)
    BY DEF Served, Known
  <1>2. PICK sigs \in Seq(Signal) : sigs = Route(f).sigs /\ \A i \in 1..Len(sigs) : sigs[i].name \in Names
    BY <1>1, RouteOf DEF Route
  <1>3. PICK b \in Seq(Byte) : b = RequestCore(f)
    BY CoreOf DEF Served
  <1>4. CanDecode(sigs, b)
    BY <1>2, <1>3 DEF Served, Decodes
  <1>5. \A s \in Signal : IsSignal(s)
    BY <1>1, RouteOf
  <1>6. /\ AreNumbers(decode(sigs, b))
        /\ encode(sigs, decode(sigs, b)) \in Seq(Byte)
        /\ Len(encode(sigs, decode(sigs, b))) = encoded_size(sigs)
        /\ (\A i, j \in DOMAIN sigs : sigs[i].name = sigs[j].name => i = j)
             => encode(sigs, decode(sigs, b)) = SubSeq(b, 1, encoded_size(sigs))
    BY <1>4, <1>5, DecodedEchoed
  <1>7. Values(f) = decode(sigs, b)
    BY <1>2, <1>3 DEF Values
  <1>8. decode(sigs, b) \in Partial
    <2>1. PICK v : v = decode(sigs, b)
      OBVIOUS
    <2>2. v = [n \in DOMAIN v |-> v[n]] /\ DOMAIN v \subseteq Names
      BY <1>2, <2>1 DEF decode
    <2>3. PICK D : D = DOMAIN v
      OBVIOUS
    <2>4. \A n \in D : v[n] \in Int
      BY <1>6, <2>1, <2>3 DEF AreNumbers
    <2>5. v = [n \in D |-> v[n]]
      BY <2>2, <2>3
    <2>6. v \in [D -> Int]
      BY <2>4, <2>5
    <2> QED BY <2>1, <2>2, <2>3, <2>6 DEF Partial
  <1>9. encoded_size(sigs) <= Len(b)
    BY <1>4 DEF CanDecode
  <1> QED BY <1>2, <1>3, <1>6, <1>7, <1>8, <1>9 DEF NamedOnce

\* What the receiver does not refuse fits the length field of an answer.
LEMMA Fits == ASSUME NEW n \in Nat, n <= MaxPayload PROVE 8 + n < Span("u32")
  <1>1. PICK m \in Nat : m = MaxPayload + 8 /\ 8 + n <= m
    BY StreamAssumption
  <1>2. m \div Span("u16") < Span("u16")
    BY <1>1, RequestAssumption
  <1>3. m \div 65536 < 65536
    BY <1>2, SMT DEF Span, SizeOf
  <1>4. m < 65536 * 65536
    BY <1>3, Z3
  <1>5. 8 + n < 65536 * 65536
    BY <1>1, <1>4, Z3
  <1> QED BY <1>5, SMT DEF Span, SizeOf

\* An answer to a message is bytes, and has its ids and its session.
IsAnswer(p, f) == p \in Seq(Byte) /\ LengthField(p) = Len(p) - 8 /\ Echoes(p, f)

\* build_message makes such an answer.
LEMMA AnswerBytes ==
    ASSUME NEW f, IsFrame(f), NEW h, NEW payload \in Seq(Byte), Len(payload) <= MaxPayload,
           SameIds(h, Hdr(f)), h.iface \in Int, h.type \in Int, h.code \in Int
    PROVE  LET p == build_message(h, payload)
           IN  /\ IsAnswer(p, f)
               /\ Payload(p) = payload /\ Hdr(p).type = h.type % 256
  <1>1. PICK q \in Seq(Byte) : q = f /\ Len(q) >= HDR_SIZE
    BY DEF IsFrame, HDR_SIZE
  <1>2. SameIds(h, unpack(q))
    BY <1>1 DEF Hdr
  <1>3. IsHeader(h)
    <2>1. /\ unpack(q).service \in UShort /\ unpack(q).method \in UShort
          /\ unpack(q).client \in UShort /\ unpack(q).session \in UShort
      BY <1>1, HeaderOf
    <2> QED BY <1>2, <2>1 DEF IsHeader, SameIds
  <1>4. 8 + Len(payload) < Span("u32")
    BY Fits
  <1>5. PICK p : p = build_message(h, payload)
    OBVIOUS
  <1>6. p \in Seq(Byte) /\ LengthField(p) = Len(p) - 8
    BY <1>3, <1>4, <1>5, BuiltSize
  <1>7. Echoes(p, q)
    BY <1>1, <1>2, <1>5, HeaderEchoed
  <1>8. Payload(p) = payload /\ unpack(p).type = h.type % 256
    <2>1. IsBuilt(p, h, payload)
      BY <1>3, <1>5, BuiltFields
    <2> QED BY <2>1 DEF IsBuilt
  <1> QED BY <1>1, <1>5, <1>6, <1>7, <1>8 DEF Hdr, IsAnswer

\* The answer to an unknown method.
LEMMA RejectionBytes ==
    ASSUME NEW f, IsFrame(f)
    PROVE  IsAnswer(Rejection(f), f) /\ Hdr(Rejection(f)).type # 128
  <1>1. PICK payload \in Seq(Byte) : payload = <<>> /\ Len(payload) <= MaxPayload
    <2>1. <<>> \in Seq(Byte) /\ Len(<<>>) <= MaxPayload
      BY StreamAssumption
    <2> QED BY <2>1
  <1>2. PICK h : h = [Hdr(f) EXCEPT !.type = 129, !.code = 1]
    OBVIOUS
  <1>3. SameIds(h, Hdr(f)) /\ h.iface = Hdr(f).iface /\ h.type = 129 /\ h.code = 1
    BY <1>2 DEF Hdr, unpack, SameIds
  <1>4. h.iface \in Int /\ h.type \in Int /\ h.code \in Int
    <2>1. Hdr(f).iface \in Byte
      BY HeaderOf DEF Hdr, IsFrame
    <2>2. \A x \in Byte : x \in Int
      BY DEF Byte
    <2> QED BY <1>3, <2>1, <2>2
  <1>5. PICK p : p = build_message(h, payload)
    OBVIOUS
  <1>6. IsAnswer(p, f) /\ Hdr(p).type = h.type % 256
    <2>1. Len(payload) <= MaxPayload /\ SameIds(h, Hdr(f))
      BY <1>1, <1>3
    <2> QED BY <1>4, <1>5, <2>1, AnswerBytes
  <1>7. Hdr(p).type # 128
    <2>1. 129 % 256 = 129
      BY Z3
    <2> QED BY <1>3, <1>6, <2>1
  <1>8. p = Rejection(f)
    BY <1>1, <1>2, <1>5 DEF Rejection
  <1> QED BY <1>6, <1>7, <1>8

\* The answer to a call: its payload is what encode makes of the values, with
\* a trailer if the method is protected.
LEMMA ResponseBytes ==
    ASSUME NEW f, IsFrame(f), Served(f)
    PROVE  LET p == Response(f)
               core == encode(Route(f).sigs, Values(f))
           IN  /\ IsAnswer(p, f)
               /\ IF Route(f).protected THEN Intact(Payload(p)) /\ Core(Payload(p)) = core
                                        ELSE Payload(p) = core
  <1>1. PICK core \in Seq(Byte) : /\ core = encode(Route(f).sigs, Values(f))
                                  /\ Len(core) <= Len(RequestCore(f))
    BY ServedValues
  <1>2. Route(f).iface \in Int
    BY RouteOf DEF Route, Served, Known
  <1>3. PICK session \in UShort : session = Hdr(f).session
    BY HeaderOf DEF Hdr, IsFrame
  <1>4. PICK payload : payload = IF Route(f).protected THEN wrap(core, session) ELSE core
    OBVIOUS
  <1>5. /\ payload \in Seq(Byte) /\ Len(payload) <= MaxPayload
        /\ IF Route(f).protected THEN Intact(payload) /\ Core(payload) = core
                                 ELSE payload = core
    <2>1. PICK n \in Nat, m \in Nat, r \in Nat :
              /\ n = Len(core) /\ m = Len(Body(f)) /\ r = Len(RequestCore(f))
              /\ n <= r /\ m <= MaxPayload
              /\ r = IF Route(f).protected THEN m - 4 ELSE m
      BY <1>1, CoreOf DEF Served
    <2>2. CASE Route(f).protected
      <3>1. PICK w : /\ w = wrap(core, session) /\ w \in Seq(Byte) /\ Len(w) = n + 4
                     /\ Intact(w) /\ Core(w) = core
        BY <2>1, WrapUnwrap
      <3>2. n + 4 <= MaxPayload
        BY <2>1, <2>2, StreamAssumption
      <3> QED BY <1>4, <2>2, <3>1, <3>2
    <2>3. CASE ~Route(f).protected
      BY <1>4, <2>1, <2>3, StreamAssumption
    <2> QED BY <2>2, <2>3
  <1>6. PICK h : h = [Hdr(f) EXCEPT !.iface = Route(f).iface, !.type = 128, !.code = 0]
    OBVIOUS
  <1>7. SameIds(h, Hdr(f)) /\ h.iface = Route(f).iface /\ h.type = 128 /\ h.code = 0
    <2>1. PICK i : i = Route(f).iface
      OBVIOUS
    <2>2. h = [Hdr(f) EXCEPT !.iface = i, !.type = 128, !.code = 0]
      BY <1>6, <2>1
    <2>3. SameIds(h, Hdr(f)) /\ h.iface = i /\ h.type = 128 /\ h.code = 0
      BY <2>2 DEF Hdr, unpack, SameIds
    <2> QED BY <2>1, <2>3
  <1>8. h.iface \in Int /\ h.type \in Int /\ h.code \in Int
    BY <1>2, <1>7
  <1>9. PICK p : p = build_message(h, payload)
    OBVIOUS
  <1>10. IsAnswer(p, f) /\ Payload(p) = payload
    <2>1. SameIds(h, Hdr(f))
      BY <1>7
    <2> QED BY <1>5, <1>8, <1>9, <2>1, AnswerBytes
  <1>11. p = Response(f)
    BY <1>1, <1>3, <1>4, <1>6, <1>9 DEF Response
  <1> QED BY <1>1, <1>5, <1>10, <1>11
-----------------------------------------------------------------------------
(* What the handler makes of a request.                                    *)

\* The payload of a request.
LEMMA CarriedBytes ==
    ASSUME NEW c \in Request
    PROVE  LET core == encode(c.sigs, c.values)
           IN  /\ c.sigs \in Seq(Signal) /\ AreNumbers(c.values)
               /\ core \in Seq(Byte) /\ Len(core) = encoded_size(c.sigs)
               /\ encoded_size(c.sigs) \in Nat
               /\ Carried(c) \in Seq(Byte)
               /\ IF c.protected
                  THEN /\ Carried(c) = wrap(core, c.counter) /\ Intact(Carried(c))
                       /\ Core(Carried(c)) = core /\ Counter(Carried(c)) = c.counter
                       /\ Len(Carried(c)) = Len(core) + 4
                       /\ SubSeq(Carried(c), 1, Len(core)) = core
                  ELSE Carried(c) = core
  <1>1. /\ c.sigs \in Seq(Signal) /\ \A n \in DOMAIN c.values : c.values[n] \in Int
        /\ c.counter \in UShort /\ c.protected \in BOOLEAN
    BY RequestAssumption
  <1>2. AreNumbers(c.values) /\ \A s \in Signal : IsSignal(s)
    BY <1>1, CatalogAssumption DEF AreNumbers
  <1>3. PICK core \in Seq(Byte) : /\ core = encode(c.sigs, c.values)
                                  /\ Len(core) = encoded_size(c.sigs)
    BY <1>1, <1>2, EncodedFields
  <1>4. encoded_size(c.sigs) \in Nat
    BY <1>3
  <1>5. CASE c.protected
    <2>1. PICK w : /\ w = wrap(core, c.counter) /\ w \in Seq(Byte) /\ Len(w) = Len(core) + 4
                   /\ SubSeq(w, 1, Len(core)) = core
                   /\ Intact(w) /\ Core(w) = core /\ Counter(w) = c.counter
      BY <1>1, WrapUnwrap
    <2>2. Carried(c) = w
      BY <1>3, <1>5, <2>1 DEF Carried
    <2> QED BY <1>1, <1>2, <1>3, <1>4, <1>5, <2>1, <2>2
  <1>6. CASE ~c.protected
    <2>1. Carried(c) = core
      BY <1>3, <1>6 DEF Carried
    <2> QED BY <1>1, <1>2, <1>3, <1>4, <1>6, <2>1
  <1> QED BY <1>5, <1>6

\* The handler finds in a message what the request has put there.
LEMMA RequestFrame ==
    ASSUME NEW c \in Request
    PROVE  LET f == WireOf[c]
           IN  /\ f \in Seq(Byte) /\ Key(f) = c.key /\ Hdr(f).type = c.type
               /\ Hdr(f).session = c.session
               /\ Body(f) = Damaged(Carried(c), c.noise)
  <1>1. /\ c.key \in UShort \X UShort /\ c.type \in Byte /\ c.session \in UShort
        /\ WireOf[c] \in Message
    BY RequestAssumption, RequestIsSent
  <1>2. PICK payload \in Seq(Byte) : payload = Damaged(Carried(c), c.noise)
    BY CarriedBytes, DamagedBits
  <1>3. PICK h : h = [service |-> c.key[1], method |-> c.key[2], client |-> 1,
                      session |-> c.session, iface |-> 1, type |-> c.type, code |-> 0]
    OBVIOUS
  <1>4. /\ h.service = c.key[1] /\ h.method = c.key[2] /\ h.client = 1
        /\ h.session = c.session /\ h.iface = 1 /\ h.type = c.type /\ h.code = 0
    BY <1>3
  <1>5. PICK f : f = build_message(h, payload)
    OBVIOUS
  <1>6. WireOf[c] = f
    BY <1>2, <1>3, <1>5 DEF WireOf, Wire
  <1>7. IsHeader(h)
    <2>1. 1 \in UShort
      BY SMT DEF UShort, Span, SizeOf
    <2>2. \A x \in Byte : x \in Int
      BY DEF Byte
    <2>3. c.key[1] \in UShort /\ c.key[2] \in UShort
      BY <1>1
    <2> QED BY <1>1, <1>4, <2>1, <2>2, <2>3 DEF IsHeader
  <1>8. /\ unpack(f).service = c.key[1] /\ unpack(f).method = c.key[2]
        /\ unpack(f).session = c.session /\ unpack(f).type = c.type % 256
        /\ Payload(f) = payload
    <2>1. IsBuilt(f, h, payload)
      BY <1>5, <1>7, BuiltFields
    <2> QED BY <1>4, <2>1 DEF IsBuilt
  <1>9. c.type % 256 = c.type
    <2>1. ASSUME NEW x \in Byte PROVE x % 256 = x
      BY Z3 DEF Byte
    <2> QED BY <1>1, <2>1
  <1>10. f \in Seq(Byte)
    BY <1>1, <1>6, StreamAssumption
  <1>11. <<c.key[1], c.key[2]>> = c.key
    BY <1>1
  <1> QED BY <1>2, <1>6, <1>8, <1>9, <1>10, <1>11 DEF Hdr, Body, Key

\* The values of a request that came undamaged, for a server with the same
\* catalog: they are stored as near as the signals allow.
LEMMA RequestNearest ==
    ASSUME NEW c \in Request, NEW f, f = WireOf[c], IsFrame(f), Served(f),
           c.sigs = Routes[c.key].sigs, c.noise = {},
           NEW j \in DOMAIN Routes[c.key].sigs
    PROVE  LET s == Routes[c.key].sigs[j]
           IN  Nearest(s, Values(f)[s.name], ValueOf(c.values, s))
  <1>1. /\ Key(f) = c.key /\ Body(f) = Damaged(Carried(c), c.noise)
        /\ c.key \in DOMAIN Routes
    BY RequestFrame DEF Served, Known
  <1>2. Body(f) = Carried(c)
    BY <1>1, CarriedBytes, DamagedBits
  <1>3. PICK sigs \in Seq(Signal) : /\ sigs = Routes[c.key].sigs /\ sigs = c.sigs
                                    /\ \A i \in 1..Len(sigs) : sigs[i] \in Signals
    BY <1>1, RouteOf
  <1>4. PICK core \in Seq(Byte) : /\ core = encode(sigs, c.values)
                                  /\ Len(core) = encoded_size(sigs)
    BY <1>3, CarriedBytes
  <1>5. PICK b \in Seq(Byte) : b = RequestCore(f)
    BY CoreOf DEF Served
  <1>6. CanDecode(sigs, b) /\ encoded_size(sigs) <= Len(b)
    BY <1>1, <1>3, <1>5 DEF Served, Decodes, Route, CanDecode
  <1>7. SubSeq(b, 1, encoded_size(sigs)) = core
    <2>1. core = SubSeq(core, 1, Len(core))
      BY SubSeqFull
    <2>2. CASE c.protected /\ Route(f).protected
      <3>1. b = core
        BY <1>2, <1>3, <1>4, <1>5, <2>2, CarriedBytes DEF RequestCore
      <3> QED BY <1>4, <2>1, <3>1
    <2>3. CASE c.protected /\ ~Route(f).protected
      <3>1. b = Carried(c)
        BY <1>2, <1>5, <2>3 DEF RequestCore
      <3>2. SubSeq(Carried(c), 1, Len(core)) = core
        BY <1>3, <1>4, <2>3, CarriedBytes
      <3> QED BY <1>4, <3>1, <3>2
    <2>4. CASE ~c.protected /\ Route(f).protected
      <3>1. Len(b) = Len(core) - 4
        BY <1>2, <1>3, <1>4, <1>5, <2>4, CarriedBytes, CoreOf DEF Served
      <3> QED BY <1>4, <1>6, <3>1
    <2>5. CASE ~c.protected /\ ~Route(f).protected
      <3>1. b = core
        BY <1>2, <1>3, <1>4, <1>5, <2>5, CarriedBytes DEF RequestCore
      <3> QED BY <1>4, <2>1, <3>1
    <2> QED BY <2>2, <2>3, <2>4, <2>5
  <1>8. PICK i \in DOMAIN sigs :
            /\ sigs[i].name = sigs[j].name
            /\ decode(sigs, b)[sigs[j].name] = Phys(sigs[i], Unpack(sigs[i].type, Field(sigs, b, i)))
    <2>1. j \in DOMAIN sigs
      BY <1>3
    <2> QED BY <2>1, LastOfName
  <1>9. sigs[i] = sigs[j] /\ i \in 1..Len(sigs)
    BY <1>3, <1>8, CatalogAssumption
  <1>10. Nearest(sigs[i], Phys(sigs[i], Unpack(sigs[i].type, Field(sigs, b, i))),
                 ValueOf(c.values, sigs[i]))
    <2>1. AreNumbers(c.values) /\ \A s \in Signal : IsSignal(s)
      BY CarriedBytes, CatalogAssumption
    <2> QED BY <1>4, <1>6, <1>7, <1>9, <2>1, DecodedNearest
  <1>11. Values(f) = decode(sigs, b)
    BY <1>1, <1>3, <1>5 DEF Values, Route
  <1> QED BY <1>3, <1>8, <1>9, <1>10, <1>11

\* A request that a burst has damaged, or whose counter is not its session's,
\* is not served.
LEMMA RequestDropped ==
    ASSUME NEW c \in Request, NEW f, f = WireOf[c], IsFrame(f), Served(f),
           c.protected, Routes[c.key].protected, c.noise = {} \/ Burst(c.noise)
    PROVE  c.noise = {} /\ c.counter = c.session
  <1>1. /\ Key(f) = c.key /\ Body(f) = Damaged(Carried(c), c.noise)
        /\ Hdr(f).session = c.session
    BY RequestFrame
  <1>2. Intact(Body(f)) /\ Counter(Body(f)) = c.session
    BY <1>1 DEF Served, Accepted, Route
  <1>3. PICK b \in Seq(Byte) : b = Carried(c) /\ Intact(b) /\ Counter(b) = c.counter
    BY CarriedBytes
  <1>4. PICK q \in Seq(Byte) : q = Damaged(b, c.noise) /\ q = Body(f) /\ Len(q) = Len(b)
    BY <1>1, <1>3, DamagedBits
  <1>5. \A n \in 1..(8 * Len(b)) : BitOf(b, n) # BitOf(q, n) <=> n \in c.noise
    <2> TAKE n \in 1..(8 * Len(b))
    <2>1. BitOf(b, n) # BitOf(Damaged(b, c.noise), n) <=> n \in c.noise
      BY DamagedBits
    <2> QED BY <1>4, <2>1
  <1>6. c.noise \subseteq 1..(8 * Len(b))
    BY <1>3, RequestAssumption
  <1>7. c.noise = {}
    <2> SUFFICES ASSUME Burst(c.noise) PROVE FALSE
      OBVIOUS
    <2>1. PICK first \in c.noise : c.noise \subseteq first..(first + 15)
      BY DEF Burst
    <2>2. ~Intact(q)
      BY <1>3, <1>4, <1>5, <1>6, <2>1, BurstDetected
    <2> QED BY <1>2, <1>4, <2>2
  <1>8. q = b
    BY <1>4, <1>7, DamagedBits
  <1> QED BY <1>2, <1>3, <1>4, <1>7, <1>8
-----------------------------------------------------------------------------
(* The handler on its connection.                                          *)

\* The receiver is within a message that is neither too short nor too long,
\* and what it has returned is such messages.
ReadOK ==
    /\ phase = "header" => read <= at + HDR_SIZE
    /\ phase = "payload" => at + HDR_SIZE <= read /\ read <= Goal /\ ~Refused
    /\ phase = "handle" => read = at /\ Len(frames) > 0
    /\ \A i \in 1..Len(frames) : IsFrame(frames[i])

\* Every message sent is what its request makes.
AskedOK == /\ asked \in Seq(Request) /\ Len(asked) = Len(sent)
           /\ \A i \in 1..Len(sent) : sent[i] = WireOf[asked[i]]

\* What is stored and answered comes of a message that was served, and what is
\* rejected of one that was not known.
HandledOK ==
    /\ store \in Valuation
    /\ writes \in Seq([frame : Nat, values : Partial])
    /\ \A i \in 1..Len(writes) :
          /\ writes[i].frame \in 1..Len(frames)
          /\ Served(frames[writes[i].frame])
          /\ writes[i].values = Values(frames[writes[i].frame])
    /\ replies \in Seq([frame : Nat, bytes : Seq(Byte)])
    /\ \A i \in 1..Len(replies) :
          /\ replies[i].frame \in 1..Len(frames)
          /\ LET f == frames[replies[i].frame]
             IN  \/ replies[i].bytes = Rejection(f)
                 \/ Served(f) /\ replies[i].bytes = Response(f)

\* While no message was refused, the messages returned are those sent.
FramesAreSent ==
    \A i \in 1..Len(frames) : Channel!InStep(i) => i <= Len(sent) /\ frames[i] = sent[i]

MethodInv == StreamInv /\ ReadOK /\ AskedOK /\ HandledOK /\ FramesAreSent

\* The length field of the message being read is a number, and what is sent
\* behind it does not change it.
LEMMA LengthNumber ==
    ASSUME TypeOK, at + HDR_SIZE <= read
    PROVE  /\ Length \in Nat
           /\ \A m \in Seq(Byte) : LengthField(SubSeq(stream \o m, at + 1, at + 8)) = Length
  <1>1. PICK n \in Nat, m \in Nat : /\ n = at /\ m = n + 8 /\ n <= m /\ m <= Len(stream) /\ m - n = 8
                                    /\ stream \in Seq(Byte)
    <2>1. at \in Nat /\ at + 8 \in Nat /\ at <= at + 8 /\ at + 8 <= Len(stream) /\ (at + 8) - at = 8
          /\ stream \in Seq(Byte)
      BY DEF TypeOK, HDR_SIZE
    <2> QED BY <2>1
  <1>2. PICK v \in Seq(Byte) : v = SubSeq(stream, n + 1, m) /\ Len(v) = 8
    <2>1. SubSeq(stream, n + 1, m) \in Seq(Byte) /\ Len(SubSeq(stream, n + 1, m)) = m - n
      BY <1>1, Slice
    <2> QED BY <1>1, <2>1
  <1>3. 5 \in 1..Len(v) /\ 8 \in 1..Len(v) /\ 8 = 5 + 3 /\ 5 + 1 = 6 /\ 5 + 2 = 7
        /\ 6 \in 1..Len(v) /\ 7 \in 1..Len(v)
    <2>1. Len(v) = 8
      BY <1>2
    <2> QED BY <2>1
  <1>4. SubSeq(v, 5, 8) = <<v[5], v[5 + 1], v[5 + 2], v[8]>>
    BY <1>3, Quad
  <1>5. v[5] \in Byte /\ v[5 + 1] \in Byte /\ v[5 + 2] \in Byte /\ v[8] \in Byte
    BY <1>3, ElementOfSeq
  <1>6. SubSeq(v, 5, 8) \in Seq(Byte) /\ Len(SubSeq(v, 5, 8)) = 4
    BY <1>4, <1>5, FourInARow
  <1>7. Number(SubSeq(v, 5, 8)) \in Nat
    <2>1. "u32" \in Type /\ SizeOf("u32") = 4
      BY DEF Type, SizeOf
    <2>2. SubSeq(v, 5, 8) \in Word("u32")
      BY <1>6, <2>1 DEF Word
    <2>3. Number(SubSeq(v, 5, 8)) \in Int /\ 0 <= Number(SubSeq(v, 5, 8))
      BY <2>1, <2>2, WordNumber
    <2> QED BY <2>3
  <1>8. Length = Number(SubSeq(v, 5, 8))
    BY <1>1, <1>2 DEF Length, LengthField
  <1>9. ASSUME NEW w \in Seq(Byte) PROVE SubSeq(stream \o w, n + 1, m) = v
    BY <1>1, <1>2, FrontSlice
  <1> QED BY <1>1, <1>7, <1>8, <1>9 DEF LengthField

\* No step of the stream leaves the receiver elsewhere.
LEMMA ReadStep == StreamInv /\ ReadOK /\ [Next]_vars => ReadOK'
  <1> SUFFICES ASSUME StreamInv, ReadOK, [Next]_vars PROVE ReadOK'
    OBVIOUS
  <1>1. /\ TypeOK /\ at \in Nat /\ read \in Nat /\ at <= read /\ read <= Len(stream)
        /\ stream \in Seq(Byte) /\ Len(stream) \in Nat
        /\ frames \in Seq(Seq(Byte)) /\ Len(frames) \in Nat
        /\ MaxPayload \in Nat
    BY StreamAssumption DEF StreamInv, TypeOK
  <1>2. ASSUME NEW m \in Message, Send(m) PROVE ReadOK'
    <2>1. /\ UNCHANGED <<read, at, phase, frames>> /\ stream' = stream \o m
          /\ m \in Seq(Byte)
      BY <1>2, StreamAssumption DEF Send, receiverVars
    <2>2. ASSUME phase = "payload" PROVE Length' = Length
      <3>1. at + HDR_SIZE <= read
        BY <2>2 DEF ReadOK
      <3>2. LengthField(SubSeq(stream \o m, at + 1, at + 8)) = Length
        BY <1>1, <2>1, <3>1, LengthNumber
      <3> QED BY <2>1, <3>2 DEF Length
    <2>3. phase = "payload" => Goal' = Goal /\ (Refused <=> Refused')
      BY <2>1, <2>2 DEF Goal, Refused
    <2> QED BY <2>1, <2>3 DEF ReadOK
  <1>3. ASSUME UNCHANGED <<stream, read, at, phase, frames>> PROVE ReadOK'
    BY <1>3 DEF ReadOK, Goal, Refused, Length
  <1>4. CASE Leave
    BY <1>3, <1>4 DEF Leave, receiverVars
  <1>5. CASE Recv
    <2>1. /\ UNCHANGED <<stream, at, phase, frames>> /\ read < read' /\ read' <= Goal
          /\ read' \in Nat /\ phase # "handle"
      BY <1>1, <1>5 DEF Recv, senderVars
    <2>2. Goal' = Goal /\ (Refused <=> Refused')
      BY <2>1 DEF Goal, Refused, Length
    <2>3. phase = "header" => Goal = at + HDR_SIZE
      BY DEF Goal
    <2>4. phase = "payload" => at + HDR_SIZE <= read'
      BY <1>1, <2>1 DEF ReadOK, HDR_SIZE
    <2> QED BY <2>1, <2>2, <2>3, <2>4 DEF ReadOK
  <1>6. CASE RefuseLength
    BY <1>1, <1>6 DEF RefuseLength, HeaderRead, ReadOK, HDR_SIZE
  <1>7. CASE AcceptLength
    <2>1. /\ UNCHANGED <<stream, read, at, frames>> /\ phase = "header" /\ phase' = "payload"
          /\ ~Refused /\ at + HDR_SIZE <= read
      BY <1>7 DEF AcceptLength, senderVars, HeaderRead, Goal
    <2>2. Length' = Length /\ Length \in Nat
      BY <1>1, <2>1, LengthNumber DEF Length
    <2>3. ~(Length < 8)
      BY <2>1 DEF Refused
    <2>4. Goal' = at + (Length + 8) /\ ~Refused'
      BY <1>1, <2>1, <2>2 DEF Goal, Refused
    <2>5. read <= at + HDR_SIZE
      BY <2>1 DEF ReadOK
    <2>6. read' <= Goal'
      BY <1>1, <2>1, <2>2, <2>3, <2>4, <2>5 DEF HDR_SIZE
    <2> QED BY <2>1, <2>4, <2>6 DEF ReadOK
  <1>8. CASE ReturnMessage
    <2> DEFINE f == SubSeq(stream, at + 1, read)
    <2>1. /\ phase = "payload" /\ phase' = "handle" /\ at' = read /\ read' = read
          /\ frames' = Append(frames, f) /\ read >= Goal
      BY <1>8 DEF ReturnMessage, senderVars
    <2>2. /\ at + HDR_SIZE <= read /\ read <= Goal /\ ~Refused
      BY <2>1 DEF ReadOK
    <2>3. Length \in Nat /\ Length - 8 <= MaxPayload
      BY <1>1, <2>2, LengthNumber DEF Refused
    <2>4. read = at + (Length + 8)
      BY <1>1, <2>1, <2>2, <2>3 DEF Goal
    <2>5. f \in Seq(Byte) /\ Len(f) = read - at
      BY <1>1, Slice
    <2> HIDE DEF f
    <2>6. IsFrame(f)
      BY <1>1, <2>2, <2>3, <2>4, <2>5 DEF IsFrame, HDR_SIZE
    <2>7. /\ Len(frames') = Len(frames) + 1 /\ frames'[Len(frames) + 1] = f
          /\ \A i \in 1..Len(frames) : frames'[i] = frames[i]
      BY <1>1, <2>1, <2>5
    <2>8. ASSUME NEW i \in 1..Len(frames') PROVE IsFrame(frames'[i])
      <3>1. i \in 1..Len(frames) \/ i = Len(frames) + 1
        BY <1>1, <2>7
      <3> QED BY <2>6, <2>7, <3>1 DEF ReadOK
    <2>9. Len(frames') > 0
      BY <1>1, <2>7
    <2> QED BY <2>1, <2>8, <2>9 DEF ReadOK
  <1>9. CASE HangUp
    BY <1>9 DEF HangUp, senderVars, ReadOK
  <1>10. CASE (Handled \/ Raised) /\ UNCHANGED <<senderVars, read, at, frames>>
    BY <1>1, <1>10 DEF Handled, Raised, senderVars, ReadOK, HDR_SIZE
  <1>11. CASE UNCHANGED vars
    BY <1>3, <1>11 DEF vars, senderVars, receiverVars
  <1> QED BY <1>2, <1>4, <1>5, <1>6, <1>7, <1>8, <1>9, <1>10, <1>11 DEF Next, RecvStep

\* What a list is with one more element.
LEMMA Appended ==
    ASSUME NEW S, NEW s \in Seq(S), NEW x \in S
    PROVE  /\ Append(s, x) \in Seq(S) /\ Len(s) \in Nat
           /\ Len(Append(s, x)) = Len(s) + 1
           /\ Append(s, x)[Len(s) + 1] = x
           /\ \A i \in 1..Len(s) : Append(s, x)[i] = s[i]
  OBVIOUS

\* While the channel's promise holds, what is returned is what was sent.
LEMMA FramesStep ==
    ASSUME sent \in Seq(Message), frames \in Seq(Seq(Byte)), frames' \in Seq(Seq(Byte)),
           FramesAreSent, [Channel!Next]_Channel!vars
    PROVE  FramesAreSent'
  <1>1. PICK n \in Nat, l \in Nat : n = Len(frames) /\ l = Len(sent)
    OBVIOUS
  <1>2. CASE Channel!Send
    <2>1. PICK m \in Message : sent' = Append(sent, m) /\ UNCHANGED frames
      BY <1>2 DEF Channel!Send
    <2>2. Len(sent') = l + 1 /\ \A j \in 1..l : sent'[j] = sent[j]
      BY <1>1, <2>1
    <2> SUFFICES ASSUME NEW i \in 1..n, Channel!InStep(i)'
                 PROVE  i <= Len(sent') /\ frames'[i] = sent'[i]
      BY <1>1, <2>1 DEF FramesAreSent
    <2>3. Channel!InStep(i)
      <3> SUFFICES ASSUME NEW j \in 1..i, j <= Len(sent)
                   PROVE  sent[j] \in {x \in Message : Len(x) - HDR_SIZE <= MaxPayload}
        BY DEF Channel!InStep
      <3>1. j \in 1..l /\ j <= Len(sent')
        BY <1>1, <2>2
      <3>2. sent'[j] \in {x \in Message : Len(x) - HDR_SIZE <= MaxPayload}
        BY <3>1 DEF Channel!InStep
      <3> QED BY <2>2, <3>1, <3>2
    <2>4. i <= l /\ frames[i] = sent[i]
      BY <1>1, <2>3 DEF FramesAreSent
    <2>5. i \in 1..l
      BY <2>4
    <2> QED BY <1>1, <2>1, <2>2, <2>4, <2>5
  <1>3. ASSUME UNCHANGED sent, Len(frames') = n + 1, \A i \in 1..n : frames'[i] = frames[i],
               Channel!InStep(n + 1) => n + 1 <= l /\ frames'[n + 1] = sent[n + 1]
        PROVE  FramesAreSent'
    <2> SUFFICES ASSUME NEW i \in 1..(n + 1), Channel!InStep(i)
                 PROVE  i <= l /\ frames'[i] = sent[i]
      BY <1>1, <1>3 DEF FramesAreSent, Channel!InStep
    <2>1. i = n + 1 \/ i \in 1..n
      BY <1>1
    <2> QED BY <1>1, <1>3, <2>1 DEF FramesAreSent
  <1>4. CASE Channel!Take
    <2>1. PICK f \in Seq(Byte) : /\ f = sent[n + 1] /\ n + 1 <= l
                                 /\ frames' = Append(frames, f) /\ UNCHANGED sent
      <3>1. /\ n + 1 <= l /\ frames' = Append(frames, sent[n + 1]) /\ UNCHANGED sent
        BY <1>1, <1>4 DEF Channel!Take
      <3>2. sent[n + 1] \in Message
        <4>1. n + 1 \in 1..Len(sent)
          BY <1>1, <3>1
        <4> QED BY <4>1, ElementOfSeq
      <3>3. sent[n + 1] \in Seq(Byte)
        BY <3>2, StreamAssumption
      <3> QED BY <3>1, <3>3
    <2>2. Len(frames') = n + 1 /\ frames'[n + 1] = f /\ \A i \in 1..n : frames'[i] = frames[i]
      BY <1>1, <2>1
    <2> QED BY <1>3, <2>1, <2>2
  <1>5. CASE Channel!TakeAnything
    <2>1. /\ ~Channel!InStep(n + 1) /\ Len(frames') = n + 1
          /\ SubSeq(frames', 1, n) = frames /\ UNCHANGED sent
      BY <1>1, <1>5 DEF Channel!TakeAnything
    <2>2. ASSUME NEW i \in 1..n PROVE frames'[i] = frames[i]
      <3>1. PICK z \in Nat : z + 1 = 1 /\ z <= n /\ n - z = n /\ z + i = i
        BY <1>1
      <3>2. n <= Len(frames')
        BY <1>1, <2>1
      <3>3. \A k \in 1..(n - z) : SubSeq(frames', z + 1, n)[k] = frames'[z + k]
        BY <3>1, <3>2, Slice
      <3> QED BY <2>1, <3>1, <3>3
    <2> QED BY <1>3, <2>1, <2>2
  <1>6. CASE UNCHANGED Channel!vars
    BY <1>6 DEF Channel!vars, FramesAreSent, Channel!InStep
  <1> QED BY <1>2, <1>4, <1>5, <1>6 DEF Channel!Next

\* What was asked for is remembered with what was sent.
LEMMA AskedStep == TypeOK /\ AskedOK /\ [MethodNext]_allVars => AskedOK'
  <1> SUFFICES ASSUME TypeOK, AskedOK, [MethodNext]_allVars PROVE AskedOK'
    OBVIOUS
  <1>1. ASSUME NEW c \in Request, Send(WireOf[c]), asked' = Append(asked, c) PROVE AskedOK'
    <2>1. PICK n \in Nat : n = Len(sent) /\ n = Len(asked) /\ asked \in Seq(Request)
                           /\ sent \in Seq(Message)
      BY DEF AskedOK, TypeOK
    <2>2. PICK m \in Message : m = WireOf[c]
      BY RequestIsSent
    <2>3. sent' = Append(sent, m)
      BY <1>1, <2>2 DEF Send
    <2>4. /\ Len(sent') = n + 1 /\ sent'[n + 1] = m /\ \A i \in 1..n : sent'[i] = sent[i]
      <3>1. /\ Len(Append(sent, m)) = Len(sent) + 1 /\ Append(sent, m)[Len(sent) + 1] = m
            /\ \A i \in 1..Len(sent) : Append(sent, m)[i] = sent[i]
        <4>1. sent \in Seq(Message) /\ m \in Message
          BY <2>1
        <4> QED BY <4>1, Appended
      <3> QED BY <2>1, <2>3, <3>1
    <2>5. /\ asked' \in Seq(Request) /\ Len(asked') = n + 1 /\ asked'[n + 1] = c
          /\ \A i \in 1..n : asked'[i] = asked[i]
      BY <1>1, <2>1, Appended
    <2>6. ASSUME NEW i \in 1..(n + 1) PROVE sent'[i] = WireOf[asked'[i]]
      <3>1. i = n + 1 \/ i \in 1..n
        BY <2>1
      <3> QED BY <2>1, <2>2, <2>4, <2>5, <3>1 DEF AskedOK
    <2> QED BY <2>4, <2>5, <2>6 DEF AskedOK
  <1>2. ASSUME UNCHANGED <<sent, asked>> PROVE AskedOK'
    BY <1>2 DEF AskedOK
  <1>3. CASE (Leave \/ RecvStep) /\ UNCHANGED <<asked, handlerVars>>
    BY <1>2, <1>3 DEF Leave, RecvStep, Recv, RefuseLength, AcceptLength, ReturnMessage, HangUp,
                      senderVars
  <1>4. CASE Handle
    BY <1>2, <1>4 DEF Handle, senderVars
  <1>5. CASE UNCHANGED allVars
    BY <1>2, <1>5 DEF allVars, vars, senderVars
  <1> QED BY <1>1, <1>3, <1>4, <1>5 DEF MethodNext

\* What was handled before a step of the stream was handled after it.
LEMMA HandledKept ==
    ASSUME HandledOK, UNCHANGED handlerVars, frames \in Seq(Seq(Byte)),
           Len(frames) <= Len(frames'), \A i \in 1..Len(frames) : frames'[i] = frames[i],
           Len(frames') \in Nat
    PROVE  HandledOK'
  <1>1. store' = store /\ writes' = writes /\ replies' = replies
    BY DEF handlerVars
  <1>2. Len(frames) \in Nat
    OBVIOUS
  <1>3. \A i \in 1..Len(frames) : i \in 1..Len(frames')
    BY <1>2
  <1>4. ASSUME NEW i \in 1..Len(writes)
        PROVE  /\ writes'[i].frame \in 1..Len(frames')
               /\ Served(frames'[writes'[i].frame])
               /\ writes'[i].values = Values(frames'[writes'[i].frame])
    <2>1. PICK k \in 1..Len(frames) : k = writes[i].frame /\ Served(frames[k])
                                      /\ writes[i].values = Values(frames[k])
      BY DEF HandledOK
    <2> QED BY <1>1, <1>3, <2>1
  <1>5. ASSUME NEW i \in 1..Len(replies)
        PROVE  /\ replies'[i].frame \in 1..Len(frames')
               /\ LET f == frames'[replies'[i].frame]
                  IN  \/ replies'[i].bytes = Rejection(f)
                      \/ Served(f) /\ replies'[i].bytes = Response(f)
    <2>1. PICK k \in 1..Len(frames) :
              /\ k = replies[i].frame
              /\ \/ replies[i].bytes = Rejection(frames[k])
                 \/ Served(frames[k]) /\ replies[i].bytes = Response(frames[k])
      BY DEF HandledOK
    <2>2. frames'[k] = frames[k]
      OBVIOUS
    <2> QED BY <1>1, <1>3, <2>1, <2>2
  <1> QED BY <1>1, <1>4, <1>5 DEF HandledOK

\* An answer is remembered with its message, or was not given.
LEMMA AnswerStep ==
    ASSUME HandledOK, IsFrame(Frame), Len(frames) \in Nat, Len(frames) > 0, UNCHANGED frames,
           NEW m \in Seq(Byte), Answer(m),
           m = Rejection(Frame) \/ (Served(Frame) /\ m = Response(Frame))
    PROVE  /\ replies' \in Seq([frame : Nat, bytes : Seq(Byte)])
           /\ \A i \in 1..Len(replies') :
                 /\ replies'[i].frame \in 1..Len(frames)
                 /\ LET f == frames[replies'[i].frame]
                    IN  \/ replies'[i].bytes = Rejection(f)
                        \/ Served(f) /\ replies'[i].bytes = Response(f)
  <1>1. CASE UNCHANGED replies
    BY <1>1 DEF HandledOK
  <1>2. CASE replies' = Append(replies, [frame |-> Len(frames), bytes |-> m])
    <2>1. PICK r \in [frame : Nat, bytes : Seq(Byte)] :
              r = [frame |-> Len(frames), bytes |-> m] /\ r.frame = Len(frames) /\ r.bytes = m
      <3>1. [frame |-> Len(frames), bytes |-> m] \in [frame : Nat, bytes : Seq(Byte)]
        OBVIOUS
      <3> QED BY <3>1
    <2>2. PICK n \in Nat :
              /\ n = Len(replies) /\ Len(replies') = n + 1 /\ replies'[n + 1] = r
              /\ replies' \in Seq([frame : Nat, bytes : Seq(Byte)])
              /\ \A i \in 1..n : replies'[i] = replies[i]
      <3>1. replies \in Seq([frame : Nat, bytes : Seq(Byte)])
        BY DEF HandledOK
      <3>2. /\ Append(replies, r) \in Seq([frame : Nat, bytes : Seq(Byte)])
            /\ Len(replies) \in Nat /\ Len(Append(replies, r)) = Len(replies) + 1
            /\ Append(replies, r)[Len(replies) + 1] = r
            /\ \A i \in 1..Len(replies) : Append(replies, r)[i] = replies[i]
        BY <3>1, Appended
      <3> QED BY <1>2, <2>1, <3>2
    <2>3. Len(frames) \in 1..Len(frames)
      OBVIOUS
    <2>4. ASSUME NEW i \in 1..Len(replies')
          PROVE  /\ replies'[i].frame \in 1..Len(frames)
                 /\ LET f == frames[replies'[i].frame]
                    IN  \/ replies'[i].bytes = Rejection(f)
                        \/ Served(f) /\ replies'[i].bytes = Response(f)
      <3>1. CASE i = n + 1
        BY <2>1, <2>2, <2>3, <3>1 DEF Frame
      <3>2. CASE i \in 1..n
        BY <2>2, <3>2 DEF HandledOK
      <3> QED BY <2>2, <3>1, <3>2
    <2> QED BY <2>2, <2>4
  <1> QED BY <1>1, <1>2 DEF Answer

\* The store keeps a number for every name when values that were decoded are
\* put into it.
LEMMA StoreStep ==
    ASSUME store \in Valuation, NEW values \in Partial,
           store' = [n \in Names |-> IF n \in DOMAIN values THEN values[n] ELSE store[n]]
    PROVE  store' \in Valuation
  <1>1. PICK N \in SUBSET Names : values \in [N -> Int]
    BY DEF Partial
  <1>2. ASSUME NEW n \in Names PROVE (IF n \in DOMAIN values THEN values[n] ELSE store[n]) \in Int
    BY <1>1 DEF Valuation
  <1> QED BY <1>2 DEF Valuation

\* What is stored and answered is what the message at hand calls for.
LEMMA HandledStep ==
    TypeOK /\ ReadOK /\ HandledOK /\ [MethodNext]_allVars => HandledOK'
  <1> SUFFICES ASSUME TypeOK, ReadOK, HandledOK, [MethodNext]_allVars PROVE HandledOK'
    OBVIOUS
  <1>1. frames \in Seq(Seq(Byte)) /\ Len(frames) \in Nat
    BY DEF TypeOK
  <1>2. ASSUME UNCHANGED <<frames, handlerVars>> PROVE HandledOK'
    BY <1>1, <1>2, HandledKept
  <1>3. ASSUME NEW c \in Request, Send(WireOf[c]), UNCHANGED handlerVars PROVE HandledOK'
    BY <1>2, <1>3 DEF Send, receiverVars
  <1>4. CASE ReturnMessage /\ UNCHANGED handlerVars
    <2>1. PICK f \in Seq(Byte) : frames' = Append(frames, f)
      <3>1. frames' = Append(frames, SubSeq(stream, at + 1, read))
        BY <1>4 DEF ReturnMessage
      <3>2. SubSeq(stream, at + 1, read) \in Seq(Byte)
        BY Slice DEF TypeOK
      <3> QED BY <3>1, <3>2
    <2>2. Len(frames') = Len(frames) + 1 /\ \A i \in 1..Len(frames) : frames'[i] = frames[i]
      BY <1>1, <2>1, Appended
    <2>3. Len(frames') \in Nat /\ Len(frames) <= Len(frames')
      BY <1>1, <2>2
    <2> QED BY <1>1, <1>4, <2>2, <2>3, HandledKept
  <1>5. CASE (Leave \/ Recv \/ RefuseLength \/ AcceptLength \/ HangUp) /\ UNCHANGED handlerVars
    BY <1>2, <1>5 DEF Leave, Recv, RefuseLength, AcceptLength, HangUp, receiverVars
  <1>6. CASE Handle
    <2>1. UNCHANGED frames /\ (Ignore \/ Reject \/ Fail \/ Serve)
      BY <1>6 DEF Handle
    <2>2. phase = "handle"
      BY <2>1 DEF Ignore, Reject, Fail, Serve, Handled, Raised
    <2>3. Len(frames) > 0 /\ IsFrame(Frame)
      BY <1>1, <2>2 DEF ReadOK, Frame
    <2>4. CASE Ignore \/ Fail
      BY <1>2, <2>1, <2>4 DEF Ignore, Fail
    <2>5. CASE Reject
      <3>1. UNCHANGED <<store, writes>> /\ Answer(Rejection(Frame))
        BY <2>5 DEF Reject
      <3>2. PICK m \in Seq(Byte) : m = Rejection(Frame)
        BY <2>3, RejectionBytes DEF IsAnswer
      <3>3. Answer(m)
        BY <3>1, <3>2
      <3>4. /\ replies' \in Seq([frame : Nat, bytes : Seq(Byte)])
            /\ \A i \in 1..Len(replies') :
                  /\ replies'[i].frame \in 1..Len(frames)
                  /\ LET f == frames[replies'[i].frame]
                     IN  \/ replies'[i].bytes = Rejection(f)
                         \/ Served(f) /\ replies'[i].bytes = Response(f)
        BY <1>1, <2>1, <2>3, <3>2, <3>3, AnswerStep
      <3> QED BY <2>1, <3>1, <3>4 DEF HandledOK
    <2>6. CASE Serve
      <3>1. Served(Frame)
        BY <2>6 DEF Serve, Served
      <3>2. PICK values \in Partial : values = Values(Frame)
        BY <2>3, <3>1, ServedValues
      <3>3. PICK w \in [frame : Nat, values : Partial] :
                /\ w.frame = Len(frames) /\ w.values = values
                /\ writes' = Append(writes, w)
        <4>1. writes' = Append(writes, [frame |-> Len(frames), values |-> values])
          BY <2>6, <3>2 DEF Serve
        <4> QED BY <1>1, <4>1
      <3>4. store' \in Valuation
        <4>1. store' = [n \in Names |-> IF n \in DOMAIN values THEN values[n] ELSE store[n]]
          BY <2>6, <3>2 DEF Serve
        <4> QED BY <4>1, StoreStep DEF HandledOK
      <3>5. PICK n \in Nat :
                /\ n = Len(writes) /\ Len(writes') = n + 1 /\ writes'[n + 1] = w
                /\ writes' \in Seq([frame : Nat, values : Partial])
                /\ \A i \in 1..n : writes'[i] = writes[i]
        BY <3>3, Appended DEF HandledOK
      <3>6. ASSUME NEW i \in 1..Len(writes')
            PROVE  /\ writes'[i].frame \in 1..Len(frames)
                   /\ Served(frames[writes'[i].frame])
                   /\ writes'[i].values = Values(frames[writes'[i].frame])
        <4>1. CASE i = n + 1
          <5>1. Len(frames) \in 1..Len(frames)
            BY <1>1, <2>3
          <5> QED BY <3>1, <3>2, <3>3, <3>5, <4>1, <5>1 DEF Frame
        <4>2. CASE i \in 1..n
          BY <3>5, <4>2 DEF HandledOK
        <4> QED BY <3>5, <4>1, <4>2
      <3>7. PICK m \in Seq(Byte) : m = Response(Frame)
        BY <2>3, <3>1, ResponseBytes DEF IsAnswer
      <3>8. Answer(m)
        BY <2>6, <3>7 DEF Serve
      <3>9. /\ replies' \in Seq([frame : Nat, bytes : Seq(Byte)])
            /\ \A i \in 1..Len(replies') :
                  /\ replies'[i].frame \in 1..Len(frames)
                  /\ LET f == frames[replies'[i].frame]
                     IN  \/ replies'[i].bytes = Rejection(f)
                         \/ Served(f) /\ replies'[i].bytes = Response(f)
        BY <1>1, <2>1, <2>3, <3>1, <3>7, <3>8, AnswerStep
      <3> QED BY <2>1, <3>4, <3>5, <3>6, <3>9 DEF HandledOK
    <2> QED BY <2>1, <2>4, <2>5, <2>6
  <1>7. CASE UNCHANGED allVars
    BY <1>2, <1>7 DEF allVars, vars, receiverVars
  <1> QED BY <1>3, <1>4, <1>5, <1>6, <1>7 DEF MethodNext, RecvStep

-----------------------------------------------------------------------------
(* The invariant, and what follows of it.                                  *)

\* The defaults of the catalog are numbers.
LEMMA MethodInvInit == MethodInit => MethodInv
  <1> SUFFICES ASSUME MethodInit PROVE MethodInv
    OBVIOUS
  <1>1. Init /\ asked = <<>> /\ writes = <<>> /\ replies = <<>>
    BY DEF MethodInit
  <1>2. sent = <<>> /\ frames = <<>> /\ phase = "header" /\ read = 0 /\ at = 0
    BY <1>1 DEF Init
  <1>3. StreamInv
    BY <1>1, StreamInvInit
  <1>4. ReadOK
    BY <1>2 DEF ReadOK, HDR_SIZE
  <1>5. AskedOK
    BY <1>1, <1>2 DEF AskedOK
  <1>6. FramesAreSent
    BY <1>2 DEF FramesAreSent
  <1>7. store \in Valuation
    <2>1. ASSUME NEW n \in Names PROVE (CHOOSE s \in Signals : s.name = n).default \in Int
      <3>1. PICK s : s = CHOOSE t \in Signals : t.name = n
        OBVIOUS
      <3>2. s \in Signals
        BY <3>1 DEF Names
      <3>3. PICK k \in DOMAIN Routes : s \in {Routes[k].sigs[i] : i \in DOMAIN Routes[k].sigs}
        BY <3>2 DEF Signals
      <3>4. PICK sigs \in Seq(Signal) : sigs = Routes[k].sigs
        BY RouteOf
      <3>5. PICK i \in DOMAIN sigs : s = sigs[i]
        BY <3>3, <3>4
      <3>6. s \in Signal
        BY <3>5, ElementOfSeq
      <3>7. IsSignal(s)
        BY <3>6, CatalogAssumption
      <3> QED BY <3>1, <3>7 DEF IsSignal
    <2>2. store = [n \in Names |-> (CHOOSE s \in Signals : s.name = n).default]
      BY DEF MethodInit
    <2> QED BY <2>1, <2>2 DEF Valuation
  <1>8. HandledOK
    BY <1>1, <1>7 DEF HandledOK
  <1> QED BY <1>3, <1>4, <1>5, <1>6, <1>8 DEF MethodInv

\* Every step keeps the invariant.
LEMMA MethodInvNext == MethodInv /\ [MethodNext]_allVars => MethodInv'
  <1> SUFFICES ASSUME MethodInv, [MethodNext]_allVars PROVE MethodInv'
    OBVIOUS
  <1>1. StreamInv /\ ReadOK /\ AskedOK /\ HandledOK /\ FramesAreSent
    BY DEF MethodInv
  <1>2. TypeOK
    BY <1>1 DEF StreamInv
  <1>3. [Next]_vars
    BY MethodIsStream
  <1>4. StreamInv'
    BY <1>1, <1>3, StreamInvNext
  <1>5. ReadOK'
    BY <1>1, <1>3, ReadStep
  <1>6. AskedOK'
    BY <1>1, <1>2, AskedStep
  <1>7. HandledOK'
    BY <1>1, <1>2, HandledStep
  <1>8. FramesAreSent'
    <2>1. [Channel!Next]_Channel!vars
      BY <1>1, <1>3, ChannelStep
    <2>2. sent \in Seq(Message) /\ frames \in Seq(Seq(Byte)) /\ frames' \in Seq(Seq(Byte))
      BY <1>2, <1>4 DEF StreamInv, TypeOK
    <2> QED BY <1>1, <2>1, <2>2, FramesStep
  <1> QED BY <1>4, <1>5, <1>6, <1>7, <1>8 DEF MethodInv

\* The type invariant is a part of it.
LEMMA InvTypeOK == MethodInv => MethodTypeOK
  <1> SUFFICES ASSUME MethodInv PROVE MethodTypeOK
    OBVIOUS
  <1>1. TypeOK /\ AskedOK /\ HandledOK
    BY DEF MethodInv, StreamInv
  <1>2. PICK n \in Nat : n = Len(frames)
    BY <1>1 DEF TypeOK
  <1>3. ASSUME NEW i \in DOMAIN writes
        PROVE  writes[i].frame \in 1..n /\ DOMAIN writes[i].values \subseteq Names
    <2>1. i \in 1..Len(writes) /\ writes[i] \in [frame : Nat, values : Partial]
      <3>1. writes \in Seq([frame : Nat, values : Partial])
        BY <1>1 DEF HandledOK
      <3>2. i \in 1..Len(writes)
        BY <3>1
      <3> QED BY <3>1, <3>2, ElementOfSeq
    <2>2. PICK N \in SUBSET Names : writes[i].values \in [N -> Int]
      BY <2>1 DEF Partial
    <2> QED BY <1>1, <1>2, <2>1, <2>2 DEF HandledOK
  <1>4. replies \in Seq([frame : 1..n, bytes : Seq(Byte)])
    <2>1. replies \in Seq([frame : Nat, bytes : Seq(Byte)])
      BY <1>1 DEF HandledOK
    <2>2. ASSUME NEW i \in 1..Len(replies) PROVE replies[i] \in [frame : 1..n, bytes : Seq(Byte)]
      <3>1. replies[i] \in [frame : Nat, bytes : Seq(Byte)] /\ replies[i].frame \in 1..n
        BY <1>1, <1>2, <2>1, ElementOfSeq DEF HandledOK
      <3> QED BY <3>1
    <2> QED BY <2>1, <2>2, Retyped
  <1> QED BY <1>1, <1>2, <1>3, <1>4 DEF MethodTypeOK, AskedOK, HandledOK

\* The variables keep their types: every message sent is one of the peer's
\* requests, and what is stored and answered is of a message taken.
THEOREM MethodTypeCorrect == MethodSpec => []MethodTypeOK
  <1> QED BY MethodInvInit, MethodInvNext, InvTypeOK, PTL DEF MethodSpec

\* What is stored for a message that is known to be one of those sent is what
\* that message's request makes.
LEMMA WriteOf ==
    ASSUME MethodInv, NEW i \in Attributed
    PROVE  \E c \in Request, f \in {WireOf[d] : d \in Request} :
               /\ c = asked[writes[i].frame] /\ f = WireOf[c]
               /\ IsFrame(f) /\ Served(f) /\ writes[i].values = Values(f)
  <1>1. /\ TypeOK /\ ReadOK /\ AskedOK /\ HandledOK /\ FramesAreSent
    BY DEF MethodInv, StreamInv
  <1>2. i \in 1..Len(writes) /\ Channel!InStep(writes[i].frame)
    BY <1>1 DEF Attributed, HandledOK
  <1>3. PICK k \in 1..Len(frames) : /\ k = writes[i].frame /\ Served(frames[k])
                                    /\ writes[i].values = Values(frames[k])
    BY <1>1, <1>2 DEF HandledOK
  <1>4. IsFrame(frames[k]) /\ k <= Len(sent) /\ frames[k] = sent[k]
    BY <1>1, <1>2, <1>3 DEF ReadOK, FramesAreSent
  <1>5. k \in 1..Len(sent)
    <2>1. Len(frames) \in Nat /\ Len(sent) \in Nat
      BY <1>1 DEF TypeOK
    <2> QED BY <1>4, <2>1
  <1>6. sent[k] = WireOf[asked[k]] /\ asked[k] \in Request
    <2>1. asked \in Seq(Request) /\ k \in 1..Len(asked)
      BY <1>1, <1>5 DEF AskedOK
    <2> QED BY <1>1, <1>5, <2>1, ElementOfSeq DEF AskedOK
  <1> QED BY <1>3, <1>4, <1>6

\* A server that has the client's catalog stores, for every signal of every
\* call that reaches it undamaged, the value the signal can carry that is
\* nearest to the one asked for.
THEOREM StoresNearest == MethodSpec => []NearestStored
  <1>1. MethodInv => NearestStored
    <2> SUFFICES ASSUME MethodInv, NEW i \in Attributed,
                        NEW c, c = asked[writes[i].frame],
                        c.sigs = Routes[c.key].sigs, c.noise = {},
                        NEW j \in DOMAIN Routes[c.key].sigs
                 PROVE  LET s == Routes[c.key].sigs[j]
                        IN  Nearest(s, writes[i].values[s.name], ValueOf(c.values, s))
      BY DEF NearestStored
    <2>1. PICK f : /\ c \in Request /\ f = WireOf[c]
                   /\ IsFrame(f) /\ Served(f) /\ writes[i].values = Values(f)
      BY WriteOf
    <2> QED BY <2>1, RequestNearest
  <1> QED BY <1>1, MethodInvInit, MethodInvNext, PTL DEF MethodSpec

\* Nothing is stored for a protected message that a burst of noise has reached
\* or whose counter is not its session's.
THEOREM DropsDamage == MethodSpec => []DamageIsDropped
  <1>1. MethodInv => DamageIsDropped
    <2> SUFFICES ASSUME MethodInv, NEW i \in Attributed,
                        NEW c, c = asked[writes[i].frame],
                        c.protected, Routes[c.key].protected, c.noise = {} \/ Burst(c.noise)
                 PROVE  c.noise = {} /\ c.counter = c.session
      BY DEF DamageIsDropped
    <2>1. PICK f : /\ c \in Request /\ f = WireOf[c]
                   /\ IsFrame(f) /\ Served(f) /\ writes[i].values = Values(f)
      BY WriteOf
    <2> QED BY <2>1, RequestDropped
  <1> QED BY <1>1, MethodInvInit, MethodInvNext, PTL DEF MethodSpec

\* Every answer has the ids and the session of its message, and a response its
\* signal bytes, whatever bytes came.
THEOREM AnswersEcho == MethodSpec => []EchoExact
  <1>1. MethodInv => EchoExact
    <2> SUFFICES ASSUME MethodInv, NEW i \in DOMAIN replies
                 PROVE  LET q == frames[replies[i].frame]
                            p == replies[i].bytes
                            r == Route(q)
                            Inside(b) == IF r.protected THEN Core(b) ELSE b
                        IN  /\ SubSeq(p, 1, 4) = SubSeq(q, 1, 4)
                            /\ SubSeq(p, 9, 12) = SubSeq(q, 9, 12)
                            /\ LengthField(p) = Len(p) - 8
                            /\ Hdr(p).type = 128 =>
                                  /\ r.protected => Intact(Payload(p))
                                  /\ NamedOnce(r.sigs) =>
                                        Inside(Payload(p)) =
                                            SubSeq(Inside(Payload(q)), 1, encoded_size(r.sigs))
      BY DEF EchoExact
    <2>1. HandledOK /\ ReadOK /\ i \in 1..Len(replies)
      BY DEF MethodInv, HandledOK
    <2>2. PICK q, p : /\ q = frames[replies[i].frame] /\ p = replies[i].bytes /\ IsFrame(q)
                      /\ p = Rejection(q) \/ (Served(q) /\ p = Response(q))
      BY <2>1 DEF HandledOK, ReadOK
    <2>3. IsAnswer(p, q)
      <3>1. CASE p = Rejection(q)
        BY <2>2, <3>1, RejectionBytes
      <3>2. CASE Served(q) /\ p = Response(q)
        BY <2>2, <3>2, ResponseBytes
      <3> QED BY <2>2, <3>1, <3>2
    <2>4. ASSUME Hdr(p).type = 128
          PROVE  IF Route(q).protected
                 THEN /\ Intact(Payload(p))
                      /\ NamedOnce(Route(q).sigs) =>
                            Core(Payload(p)) =
                                SubSeq(Core(Payload(q)), 1, encoded_size(Route(q).sigs))
                 ELSE NamedOnce(Route(q).sigs) =>
                          Payload(p) = SubSeq(Payload(q), 1, encoded_size(Route(q).sigs))
      <3> Served(q) /\ p = Response(q)
        BY <2>2, <2>4, RejectionBytes
      <3>1. PICK core, size : core = encode(Route(q).sigs, Values(q)) /\ size = encoded_size(Route(q).sigs)
        OBVIOUS
      <3>2. /\ IsAnswer(p, q)
            /\ IF Route(q).protected THEN Intact(Payload(p)) /\ Core(Payload(p)) = core
                                     ELSE Payload(p) = core
        BY <2>2, <3>1, ResponseBytes
      <3>3. NamedOnce(Route(q).sigs) => core = SubSeq(RequestCore(q), 1, size)
        BY <2>2, <3>1, ServedValues
      <3>4. RequestCore(q) = IF Route(q).protected THEN Core(Payload(q)) ELSE Payload(q)
        BY DEF RequestCore, Body
      <3>5. CASE Route(q).protected
        BY <3>1, <3>2, <3>3, <3>4, <3>5
      <3>6. CASE ~Route(q).protected
        BY <3>1, <3>2, <3>3, <3>4, <3>6
      <3> QED BY <3>5, <3>6
    <2>5. CASE Route(q).protected
      BY <2>2, <2>3, <2>4, <2>5 DEF IsAnswer, Echoes
    <2>6. CASE ~Route(q).protected
      BY <2>2, <2>3, <2>4, <2>6 DEF IsAnswer, Echoes
    <2> QED BY <2>5, <2>6
  <1> QED BY <1>1, MethodInvInit, MethodInvNext, PTL DEF MethodSpec
=============================================================================
