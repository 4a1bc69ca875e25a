--------------------------- MODULE CiphersProofs ---------------------------
(***************************************************************************)
(* What Ciphers promises of the ciphers of crypto/classic but Hill, those  *)
(* of crypto/modern, the window's text and the classes around OpenSSL, for *)
(* every key, text and object.                                             *)
(* Each cipher has an inductive invariant of its own (des!Inv, aes!Inv,    *)
(* ...); a section each shows that its actions keep it, and the last one   *)
(* puts them together.                                                     *)
(***************************************************************************)
EXTENDS Ciphers, TLAPS, SequenceTheorems, WellFoundedInduction, FiniteSetTheorems

----------------------------------------------------------------------------
(*                     Numbers, sequences and recursion                    *)

\* Division with remainder: what it gives,
LEMMA ModDef ==
    ASSUME NEW a \in Int, NEW m \in Nat \ {0}
    PROVE  /\ a % m \in 0 .. m - 1 /\ a \div m \in Int
           /\ a = m * (a \div m) + (a % m)
  BY SMTT(20)

\* and that nothing else fits.
LEMMA ModUnique ==
    ASSUME NEW a \in Int, NEW m \in Nat \ {0}, NEW q \in Int, NEW r \in 0 .. m - 1, a = m * q + r
    PROVE  a % m = r /\ a \div m = q
  <1> DEFINE x == a % m
             y == a \div m
  <1>1. x \in 0 .. m - 1 /\ y \in Int /\ m * (y - q) = r - x
    BY ModDef, SMTT(20)
  <1>2. CASE y = q
    BY <1>1, <1>2, SMTT(20)
  <1>3. CASE y > q
    <2>1. m * (y - q) >= m
      BY <1>1, <1>3, SMTT(20)
    <2> QED BY <1>1, <2>1
  <1>4. CASE y < q
    <2>1. m * (y - q) <= -m
      BY <1>1, <1>4, SMTT(20)
    <2> QED BY <1>1, <2>1
  <1> HIDE DEF x, y
  <1> QED BY <1>1, <1>2, <1>3, <1>4 DEF x, y

\* Numbers that differ by a multiple of n are the same modulo n.
Congruent(x, y, n) == \E k \in Int : x = y + n * k

\* Congruent numbers have one residue.
LEMMA ModSame ==
    ASSUME NEW x \in Int, NEW y \in Int, NEW n \in Nat \ {0}, Congruent(x, y, n)
    PROVE  x % n = y % n
  <1>1. PICK k \in Int : x = y + n * k
    BY DEF Congruent
  <1> DEFINE q == y \div n  r == y % n  t == q + k
  <1>2. r \in 0 .. n - 1 /\ q \in Int /\ y = n * q + r
    BY ModDef, Zenon
  <1> HIDE DEF q, r
  <1>3. n * t = n * q + n * k
    BY <1>2, SMTT(20)
  <1>4. t \in Int /\ x = n * t + r
    <2>1. t \in Int
      BY <1>2
    <2> DEFINE u == n * t  v == n * q  w == n * k
    <2>2. u \in Int /\ v \in Int /\ w \in Int
      BY <1>2, <2>1
    <2>3. x = y + w /\ y = v + r /\ u = v + w
      BY <1>1, <1>2, <1>3
    <2> HIDE DEF t, u, v, w
    <2>4. x = u + r
      BY <1>2, <2>2, <2>3
    <2> QED BY <2>1, <2>4 DEF u
  <1> HIDE DEF t
  <1>5. x % n = r
    BY <1>2, <1>4, ModUnique
  <1> QED BY <1>5 DEF r

\* A product does not change modulo n when a factor is reduced first.
LEMMA ModFactor ==
    ASSUME NEW x \in Int, NEW y \in Int, NEW n \in Nat \ {0}
    PROVE  ((x % n) * y) % n = (x * y) % n /\ (y * (x % n)) % n = (x * y) % n
  <1> DEFINE q == x \div n  r == x % n
  <1>1. r \in 0 .. n - 1 /\ q \in Int /\ x = n * q + r
    BY ModDef
  <1> HIDE DEF q, r
  <1> DEFINE u == x * y  v == r * y
  <1>2. u \in Int /\ v \in Int
    BY <1>1
  <1>3. Congruent(u, v, n)
    <2>1. x * y = r * y + n * (q * y) /\ q * y \in Int
      BY <1>1, SMTT(20)
    <2> QED BY <2>1, Zenon DEF Congruent
  <1>4. y * r = v
    BY <1>1
  <1> HIDE DEF u, v
  <1>5. u % n = v % n
    BY <1>2, <1>3, ModSame
  <1> QED BY <1>4, <1>5 DEF u, v, r

\* A function on 1 .. n is a sequence of length n.
LEMMA FcnIsSeq ==
    ASSUME NEW S, NEW n \in Nat, NEW f \in [1 .. n -> S]
    PROVE  f \in Seq(S) /\ Len(f) = n
  BY SeqDef

\* A set of numbers has a smallest one.
LEMMA Smallest ==
    ASSUME NEW T, T \subseteq Nat, T # {}
    PROVE  \E x \in T : \A y \in T : x <= y
  <1>1. PICK x \in T : \A y \in T : ~(<< y, x >> \in OpToRel(<, Nat))
    BY NatLessThanWellFounded, WFMin, Zenon
  <1>2. \A y \in T : ~(y < x)
    BY <1>1, Zenon DEF OpToRel
  <1> QED BY <1>2

\* What makes f the function of 0 .. N that is z at 0 and a step from a smaller number else.
Recursive(f, N, V, z, step, prev) ==
    /\ f \in [0 .. N -> V]
    /\ f[0] = z
    /\ \A x \in 1 .. N : f[x] = step[x][f[prev[x]]]

\* A function of 0 .. N is defined by its value at 0 and a step from a smaller number.
LEMMA Recursion ==
    ASSUME NEW N \in Nat, NEW V, NEW z \in V, NEW step \in [1 .. N -> [V -> V]],
           NEW prev, \A x \in 1 .. N : prev[x] \in 0 .. x - 1
    PROVE  \E f : Recursive(f, N, V, z, step, prev)
  <1> DEFINE Fits(n, f) == f[0] = z /\ \A x \in 1 .. n : f[x] = step[x][f[prev[x]]]
             T == {n \in 0 .. N : ~\E f \in [0 .. n -> V] : Fits(n, f)}
  <1>1. T = {}
    <2> SUFFICES ASSUME T # {} PROVE FALSE
      OBVIOUS
    <2>1. PICK n \in T : \A y \in T : n <= y
      <3>1. T \subseteq Nat
        OBVIOUS
      <3> HIDE DEF T
      <3> QED BY <3>1, Smallest, Zenon
    <2>2. n \in 0 .. N /\ ~\E f \in [0 .. n -> V] : Fits(n, f)
      OBVIOUS
    <2>3. CASE n = 0
      <3> DEFINE f == [x \in 0 .. 0 |-> z]
      <3>1. f \in [0 .. 0 -> V] /\ Fits(0, f)
        OBVIOUS
      <3> QED BY <2>2, <2>3, <3>1, Zenon
    <2>4. CASE n # 0
      <3>1. n - 1 \in 0 .. N /\ ~(n <= n - 1) /\ n \in 1 .. N
        BY <2>2, <2>4
      <3>2. n - 1 \notin T
        BY <2>1, <3>1, Zenon
      <3>3. PICK f \in [0 .. n - 1 -> V] : Fits(n - 1, f)
        BY <3>1, <3>2
      <3> DEFINE g == [x \in 0 .. n |-> IF x < n THEN f[x] ELSE step[n][f[prev[n]]]]
      <3> HIDE DEF T
      <3>4. prev[n] \in 0 .. n - 1
        BY <3>1
      <3>5. step[n][f[prev[n]]] \in V
        BY <3>1, <3>4
      <3>6. g \in [0 .. n -> V]
        <4>1. ASSUME NEW x \in 0 .. n, x < n PROVE f[x] \in V
          <5>1. x \in 0 .. n - 1
            BY <3>1, <4>1
          <5> QED BY <3>3, <5>1
        <4> QED BY <3>5, <4>1
      <3>7. ASSUME NEW x \in 1 .. n PROVE g[x] = step[x][g[prev[x]]]
        <4>1. prev[x] \in 0 .. x - 1
          BY <3>1
        <4>2. g[prev[x]] = f[prev[x]]
          BY <3>1, <4>1
        <4>3. CASE x = n
          BY <4>2, <4>3
        <4>4. CASE x # n
          <5>1. x \in 1 .. n - 1 /\ x < n
            BY <3>1, <4>4
          <5>2. f[x] = step[x][f[prev[x]]]
            BY <3>3, <5>1
          <5> QED BY <4>2, <5>1, <5>2
        <4> QED BY <4>3, <4>4
      <3>8. g[0] = z
        BY <3>1, <3>3
      <3> QED BY <2>2, <3>6, <3>7, <3>8, Zenon
    <2> QED BY <2>3, <2>4
  <1>2. N \in 0 .. N
    OBVIOUS
  <1>3. \E f \in [0 .. N -> V] : Fits(N, f)
    BY <1>1, <1>2, Zenon
  <1> QED BY <1>3, Zenon DEF Recursive

----------------------------------------------------------------------------
(*                         Padding, blocks and hex                         *)

\* Whole blocks.
Whole(n) == n % BlockSize = 0

\* Counting by blocks: at a multiple of the block size the next block ends at a multiple,
\* its bytes have the remainders 0, 1, ... and no multiple lies inside it.
LEMMA AtBlock ==
    ASSUME NEW a \in Nat, Whole(a)
    PROVE  /\ Whole(a + BlockSize)
           /\ \A i \in 1 .. BlockSize : (a + i - 1) % BlockSize = i - 1
           /\ \A c \in Nat : Whole(c) /\ a < c => a + BlockSize <= c
  <1> DEFINE k == a \div BlockSize
  <1>1. BlockSize \in Nat \ {0} /\ a \in Int
    BY TextAssumption
  <1>2. k \in Int /\ a = BlockSize * k
    <2>1. a % BlockSize = 0
      BY DEF Whole
    <2> QED BY <1>1, <2>1, ModDef
  <1> HIDE DEF k
  <1>3. (a + BlockSize) % BlockSize = 0
    <2> DEFINE x == a + BlockSize
    <2>1. x \in Int /\ x = BlockSize * (k + 1) + 0 /\ k + 1 \in Int
      BY <1>1, <1>2
    <2> HIDE DEF x
    <2>2. x % BlockSize = 0
      BY <1>1, <2>1, ModUnique
    <2> QED BY <2>2 DEF x
  <1>4. ASSUME NEW i \in 1 .. BlockSize PROVE (a + i - 1) % BlockSize = i - 1
    <2> DEFINE x == a + i - 1
               r == i - 1
    <2>1. x \in Int /\ x = BlockSize * k + r /\ r \in 0 .. BlockSize - 1
      BY <1>1, <1>2
    <2> HIDE DEF x, r
    <2>2. x % BlockSize = r
      BY <1>1, <1>2, <2>1, ModUnique
    <2> QED BY <2>2 DEF x, r
  <1>5. ASSUME NEW c \in Nat, Whole(c), a < c PROVE a + BlockSize <= c
    <2> DEFINE l == c \div BlockSize
    <2>1. l \in Int /\ c = BlockSize * l
      <3>1. c % BlockSize = 0 /\ c \in Int
        BY <1>5 DEF Whole
      <3> QED BY <1>1, <3>1, ModDef
    <2> HIDE DEF l
    <2>2. BlockSize * (l - k) > 0
      BY <1>1, <1>2, <1>5, <2>1, SMTT(20)
    <2>3. l - k >= 1
      <3> SUFFICES ASSUME l - k <= 0 PROVE FALSE
        BY <1>2, <2>1
      <3>1. BlockSize * (l - k) <= 0
        BY <1>1, <1>2, <2>1, SMTT(20)
      <3> QED BY <2>2, <3>1, <1>1, <1>2, <2>1, SMTT(20)
    <2>4. BlockSize * (l - k) >= BlockSize
      BY <1>1, <1>2, <2>1, <2>3, SMTT(20)
    <2> QED BY <1>1, <1>2, <2>1, <2>4, SMTT(20)
  <1> QED BY <1>3, <1>4, <1>5 DEF Whole

\* A padded text is the text and n times the byte n, for an n of 1 to the block size,
\* and holds whole blocks.
LEMMA Padding ==
    ASSUME NEW t \in Seq(0 .. 255)
    PROVE  /\ blocks!pad(t) \in Seq(0 .. 255)
           /\ Len(blocks!pad(t)) \in Nat \ {0} /\ Whole(Len(blocks!pad(t)))
           /\ \E n \in 1 .. BlockSize :
                 /\ Len(blocks!pad(t)) = Len(t) + n
                 /\ \A i \in 1 .. Len(t) : blocks!pad(t)[i] = t[i]
                 /\ \A i \in Len(t) + 1 .. Len(t) + n : blocks!pad(t)[i] = n
  <1> DEFINE len == Len(t)
             r == len % BlockSize
             n == BlockSize - r
             tail == [i \in 1 .. n |-> n]
  <1>1. BlockSize \in Nat \ {0} /\ BlockSize <= 255 /\ len \in Nat
    BY TextAssumption
  <1>2. r \in 0 .. BlockSize - 1 /\ len \div BlockSize \in Int
        /\ len = BlockSize * (len \div BlockSize) + r
    <2> HIDE DEF len
    <2> QED BY <1>1, ModDef
  <1>3. n \in 1 .. BlockSize /\ n \in 0 .. 255
    <2> HIDE DEF r
    <2> QED BY <1>1, <1>2
  <1>4. blocks!pad(t) = t \o tail
    BY DEF blocks!pad, blocks!Repeat
  <1> HIDE DEF n
  <1>5. tail \in Seq(0 .. 255) /\ Len(tail) = n /\ \A i \in 1 .. n : tail[i] = n
    BY <1>1, <1>3
  <1> HIDE DEF tail, r
  <1>6. /\ blocks!pad(t) \in Seq(0 .. 255) /\ Len(blocks!pad(t)) = len + n
        /\ \A i \in 1 .. len + n : blocks!pad(t)[i] = IF i <= len THEN t[i] ELSE tail[i - len]
    <2>1. /\ t \o tail \in Seq(0 .. 255) /\ Len(t \o tail) = Len(t) + Len(tail)
          /\ \A i \in 1 .. Len(t) + Len(tail) :
                (t \o tail)[i] = IF i <= Len(t) THEN t[i] ELSE tail[i - Len(t)]
      <3> HIDE DEF len
      <3>1. tail \in Seq(0 .. 255)
        BY <1>5
      <3> QED BY <3>1, ConcatProperties
    <2> QED BY <1>4, <1>5, <2>1
  <1>7. (len + n) % BlockSize = 0
    <2> DEFINE x == len + n
               q == (len \div BlockSize) + 1
    <2>1. x \in Int /\ q \in Int /\ x = BlockSize * q + 0
      <3> DEFINE d == len \div BlockSize
      <3>1. d \in Int /\ len = BlockSize * d + r /\ r \in 0 .. BlockSize - 1
        BY <1>2
      <3> HIDE DEF d, r
      <3>2. BlockSize * (d + 1) = BlockSize * d + BlockSize
        BY <1>1, <3>1, SMTT(20)
      <3> QED BY <1>1, <3>1, <3>2 DEF n, d
    <2> HIDE DEF x, q
    <2>2. x % BlockSize = 0
      BY <1>1, <2>1, ModUnique
    <2> QED BY <2>2 DEF x
  <1>8. \A i \in 1 .. len : blocks!pad(t)[i] = t[i]
    BY <1>1, <1>3, <1>6
  <1>9. \A i \in len + 1 .. len + n : blocks!pad(t)[i] = n
    BY <1>1, <1>3, <1>5, <1>6
  <1>10. Len(blocks!pad(t)) \in Nat \ {0} /\ Whole(Len(blocks!pad(t)))
    BY <1>1, <1>3, <1>6, <1>7 DEF Whole
  <1> HIDE DEF len
  <1>11. \E m \in 1 .. BlockSize :
            /\ Len(blocks!pad(t)) = Len(t) + m
            /\ \A i \in 1 .. Len(t) : blocks!pad(t)[i] = t[i]
            /\ \A i \in Len(t) + 1 .. Len(t) + m : blocks!pad(t)[i] = m
    <2>1. Len(t) = len
      BY DEF len
    <2>2. /\ Len(blocks!pad(t)) = Len(t) + n
          /\ \A i \in 1 .. Len(t) : blocks!pad(t)[i] = t[i]
          /\ \A i \in Len(t) + 1 .. Len(t) + n : blocks!pad(t)[i] = n
      BY <1>6, <1>8, <1>9, <2>1
    <2> QED BY <1>3, <2>2, Zenon
  <1> QED BY <1>6, <1>10, <1>11, Zenon

\* unpad() takes away at most a block from the end, and from a padded text its padding.
LEMMA Unpadding ==
    ASSUME NEW s \in Seq(0 .. 255), Whole(Len(s))
    PROVE  /\ \E l \in 0 .. Len(s) : /\ l >= Len(s) - BlockSize
                                     /\ blocks!unpad(s) = SubSeq(s, 1, l)
           /\ \A t \in Seq(0 .. 255) : s = blocks!pad(t) => blocks!unpad(s) = t
  <1> DEFINE n == s[Len(s)]
  <1>1. BlockSize \in Nat \ {0} /\ MaxPadding = BlockSize /\ Len(s) \in Nat
    BY TextAssumption
  <1>2. SubSeq(s, 1, Len(s)) = s
    BY SubSeqFull
  <1>3. s # << >> => Len(s) >= BlockSize /\ n \in 0 .. 255
    <2> SUFFICES ASSUME s # << >> PROVE Len(s) >= BlockSize /\ n \in 0 .. 255
      OBVIOUS
    <2>1. Len(s) > 0
      BY EmptySeq
    <2>2. Whole(0)
      BY <1>1, ModUnique, 0 = BlockSize * 0 + 0, SMTT(20) DEF Whole
    <2>3. 0 + BlockSize <= Len(s)
      BY <1>1, <2>1, <2>2, AtBlock
    <2> DEFINE i == Len(s)
    <2>4. i \in 1 .. Len(s)
      BY <1>1, <2>1
    <2> HIDE DEF i
    <2>5. s[i] \in 0 .. 255
      BY <2>4, ElementOfSeq
    <2> QED BY <1>1, <2>3, <2>5 DEF i
  <1>4. blocks!unpad(s) = s \/ (s # << >> /\ n \in 1 .. BlockSize /\ blocks!unpad(s) = SubSeq(s, 1, Len(s) - n))
    <2> SUFFICES ASSUME blocks!unpad(s) # s
                 PROVE  s # << >> /\ n \in 1 .. BlockSize /\ blocks!unpad(s) = SubSeq(s, 1, Len(s) - n)
      OBVIOUS
    <2> DEFINE other == \E i \in 1 .. n : s[Len(s) + 1 - i] # n
               cut == SubSeq(s, 1, Len(s) - n)
    <2>1. blocks!unpad(s) = IF s = << >> \/ n = 0 \/ n > MaxPadding THEN s ELSE IF other THEN s ELSE cut
      BY DEF blocks!unpad
    <2> HIDE DEF other, cut, n
    <2>2. s # << >> /\ n # 0 /\ ~(n > MaxPadding) /\ blocks!unpad(s) = cut
      BY <2>1
    <2>3. n \in 1 .. BlockSize
      <3>1. n \in 0 .. 255 /\ n # 0 /\ ~(n > MaxPadding)
        BY <1>3, <2>2, Zenon
      <3>2. BlockSize \in Nat /\ MaxPadding = BlockSize
        BY <1>1
      <3> QED BY <3>1, <3>2
    <2> QED BY <2>2, <2>3 DEF cut
  <1>5. \E l \in 0 .. Len(s) : l >= Len(s) - BlockSize /\ blocks!unpad(s) = SubSeq(s, 1, l)
    <2>1. CASE blocks!unpad(s) = s
      <3>1. Len(s) \in 0 .. Len(s) /\ Len(s) >= Len(s) - BlockSize
        BY <1>1
      <3> QED BY <1>2, <2>1, <3>1, Zenon
    <2>2. CASE s # << >> /\ n \in 1 .. BlockSize /\ blocks!unpad(s) = SubSeq(s, 1, Len(s) - n)
      <3> HIDE DEF n
      <3>1. Len(s) - n \in 0 .. Len(s) /\ Len(s) - n >= Len(s) - BlockSize
        BY <1>1, <1>3, <2>2
      <3> QED BY <2>2, <3>1
    <2> QED BY <1>4, <2>1, <2>2
  <1>6. ASSUME NEW t \in Seq(0 .. 255), s = blocks!pad(t) PROVE blocks!unpad(s) = t
    <2>1. PICK m \in 1 .. BlockSize :
             /\ Len(s) = Len(t) + m
             /\ \A i \in 1 .. Len(t) : s[i] = t[i]
             /\ \A i \in Len(t) + 1 .. Len(t) + m : s[i] = m
      BY <1>6, Padding
    <2>2. Len(t) \in Nat /\ s # << >> /\ s[Len(s)] = m
      BY <1>1, <2>1
    <2>3. ~\E i \in 1 .. m : s[Len(s) + 1 - i] # m
      <3> SUFFICES ASSUME NEW i \in 1 .. m PROVE s[Len(s) + 1 - i] = m
        OBVIOUS
      <3>1. Len(s) + 1 - i \in Len(t) + 1 .. Len(t) + m
        BY <1>1, <2>1, <2>2
      <3> QED BY <2>1, <3>1
    <2>4. blocks!unpad(s) = SubSeq(s, 1, Len(t))
      <3>1. m # 0 /\ ~(m > MaxPadding) /\ Len(s) - m = Len(t)
        BY <1>1, <2>1, <2>2
      <3>2. blocks!unpad(s) = IF s = << >> \/ m = 0 \/ m > MaxPadding THEN s
                              ELSE IF \E i \in 1 .. m : s[Len(s) + 1 - i] # m THEN s
                              ELSE SubSeq(s, 1, Len(s) - m)
        BY <2>2 DEF blocks!unpad
      <3> QED BY <2>2, <2>3, <3>1, <3>2
    <2>5. /\ SubSeq(s, 1, Len(t)) \in Seq(0 .. 255) /\ Len(SubSeq(s, 1, Len(t))) = Len(t)
          /\ \A i \in 1 .. Len(t) : SubSeq(s, 1, Len(t))[i] = t[i]
      <3>1. ASSUME NEW i \in 1 .. Len(t) PROVE s[i] \in 0 .. 255
        <4>1. i \in 1 .. Len(s)
          BY <1>1, <2>1, <2>2
        <4> QED BY <4>1, ElementOfSeq
      <3> QED BY <2>1, <2>2, <3>1, SubSeqProperties
    <2> QED BY <2>4, <2>5, SeqEqual
  <1> QED BY <1>5, <1>6

\* Two digits a byte, and fromHex() makes the byte of them again.
LEMMA HexOfByte ==
    ASSUME NEW bytes \in Seq(0 .. 255)
    PROVE  /\ blocks!toHex(bytes) \in Seq(0 .. 15)
           /\ Len(blocks!toHex(bytes)) = 2 * Len(bytes)
           /\ \A i \in 1 .. Len(bytes) :
                 16 * blocks!toHex(bytes)[2 * i - 1] + blocks!toHex(bytes)[2 * i] = bytes[i]
  <1> DEFINE h == blocks!toHex(bytes)
  <1>1. Len(bytes) \in Nat /\ \A i \in 1 .. Len(bytes) : bytes[i] \in 0 .. 255
    BY LenProperties, ElementOfSeq
  <1>2. h = [i \in 1 .. 2 * Len(bytes) |->
               IF i % 2 = 1 THEN bytes[(i + 1) \div 2] \div 16 ELSE bytes[i \div 2] % 16]
    BY DEF blocks!toHex
  <1> HIDE DEF h
  <1>3. \A i \in 1 .. 2 * Len(bytes) : h[i] \in 0 .. 15
    <2> SUFFICES ASSUME NEW i \in 1 .. 2 * Len(bytes) PROVE h[i] \in 0 .. 15
      OBVIOUS
    <2>1. CASE i % 2 = 1
      <3>1. (i + 1) \div 2 \in 1 .. Len(bytes)
        BY <1>1, <2>1
      <3>2. bytes[(i + 1) \div 2] \in 0 .. 255
        BY <1>1, <3>1
      <3>3. h[i] = bytes[(i + 1) \div 2] \div 16
        BY <1>2, <2>1
      <3> DEFINE b == bytes[(i + 1) \div 2]
      <3>4. b \in 0 .. 255 /\ h[i] = b \div 16
        BY <3>2, <3>3
      <3> HIDE DEF b
      <3> QED BY <3>4
    <2>2. CASE i % 2 # 1
      <3>1. i \div 2 \in 1 .. Len(bytes)
        BY <1>1, <2>2
      <3>2. bytes[i \div 2] \in 0 .. 255
        BY <1>1, <3>1
      <3> DEFINE b == bytes[i \div 2]
      <3>3. b \in 0 .. 255 /\ h[i] = b % 16
        BY <1>2, <2>2, <3>2
      <3> HIDE DEF b
      <3> QED BY <3>3
    <2> QED BY <2>1, <2>2
  <1>4. h \in Seq(0 .. 15) /\ Len(h) = 2 * Len(bytes)
    BY <1>1, <1>2, <1>3
  <1>5. \A i \in 1 .. Len(bytes) : 16 * h[2 * i - 1] + h[2 * i] = bytes[i]
    <2> SUFFICES ASSUME NEW i \in 1 .. Len(bytes) PROVE 16 * h[2 * i - 1] + h[2 * i] = bytes[i]
      OBVIOUS
    <2>1. /\ 2 * i - 1 \in 1 .. 2 * Len(bytes) /\ (2 * i - 1) % 2 = 1 /\ (2 * i - 1 + 1) \div 2 = i
          /\ 2 * i \in 1 .. 2 * Len(bytes) /\ (2 * i) % 2 # 1 /\ (2 * i) \div 2 = i
      BY <1>1
    <2>2. h[2 * i - 1] = bytes[i] \div 16 /\ h[2 * i] = bytes[i] % 16
      BY <1>2, <2>1
    <2> DEFINE b == bytes[i]
    <2>3. b \in 0 .. 255 /\ h[2 * i - 1] = b \div 16 /\ h[2 * i] = b % 16
      BY <1>1, <2>2
    <2> HIDE DEF b
    <2>4. 16 * (b \div 16) + (b % 16) = b
      BY <2>3
    <2> QED BY <2>3, <2>4 DEF b
  <1> QED BY <1>4, <1>5 DEF h

\* What std::copy() takes out of a sequence that is long enough.
LEMMA BlockOf ==
    ASSUME NEW s \in Seq(0 .. 255), NEW a \in Nat, a + BlockSize <= Len(s)
    PROVE  /\ blocks!BlockAt(s, a) \in [1 .. BlockSize -> 0 .. 255]
           /\ \A i \in 1 .. BlockSize : blocks!BlockAt(s, a)[i] = s[a + i]
  <1>1. BlockSize \in Nat \ {0} /\ Len(s) \in Nat
    BY TextAssumption
  <1>2. ASSUME NEW i \in 1 .. BlockSize PROVE s[a + i] \in 0 .. 255
    <2>1. a + i \in 1 .. Len(s)
      BY <1>1
    <2> QED BY <2>1, ElementOfSeq
  <1>3. blocks!BlockAt(s, a) = [i \in 1 .. BlockSize |-> s[a + i]]
    BY DEF blocks!BlockAt
  <1> QED BY <1>2, <1>3

\* The block of a byte begins at a multiple of the block size before it, the only one
\* from which the byte is in reach.
LEMMA BlockStart ==
    ASSUME NEW p \in Nat \ {0}
    PROVE  /\ blocks!From(p) \in Nat /\ Whole(blocks!From(p))
           /\ p - blocks!From(p) \in 1 .. BlockSize
           /\ \A a \in Nat : Whole(a) /\ p - a \in 1 .. BlockSize => blocks!From(p) = a
  <1> DEFINE x == p - 1
             r == x % BlockSize
             k == x \div BlockSize
             b == BlockSize * k
  <1>1. BlockSize \in Nat \ {0} /\ x \in Nat
    BY TextAssumption
  <1>2. r \in 0 .. BlockSize - 1 /\ k \in Int /\ x = BlockSize * k + r
    <2> HIDE DEF x
    <2> QED BY <1>1, ModDef
  <1>3. blocks!From(p) = x - r
    BY DEF blocks!From
  <1> HIDE DEF r, k
  <1>4. k >= 0
    <2> SUFFICES ASSUME k <= -1 PROVE FALSE
      BY <1>2
    <2>1. BlockSize * k <= -BlockSize
      BY <1>1, <1>2, SMTT(20)
    <2> QED BY <1>1, <1>2, <2>1
  <1>5. b \in Nat /\ b = x - r
    <2>1. BlockSize * k >= 0 /\ BlockSize * k \in Int
      BY <1>1, <1>2, <1>4, SMTT(20)
    <2> QED BY <1>1, <1>2, <2>1
  <1>6. b % BlockSize = 0
    <2>1. b = BlockSize * k + 0 /\ 0 \in 0 .. BlockSize - 1
      BY <1>1, <1>2, <1>5
    <2> HIDE DEF b
    <2> QED BY <1>1, <1>2, <1>5, <2>1, ModUnique
  <1>7. p - b \in 1 .. BlockSize
    BY <1>1, <1>2, <1>5
  <1>8. ASSUME NEW a \in Nat, Whole(a), p - a \in 1 .. BlockSize PROVE b = a
    <2> DEFINE i == p - a
    <2>1. i \in 1 .. BlockSize /\ a + i - 1 = x
      BY <1>1, <1>8
    <2>2. (a + i - 1) % BlockSize = i - 1
      <3> HIDE DEF i
      <3> QED BY <1>8, <2>1, AtBlock
    <2>3. r = i - 1
      BY <2>1, <2>2 DEF r
    <2> QED BY <1>1, <1>5, <2>1, <2>3
  <1> QED BY <1>3, <1>5, <1>6, <1>7, <1>8 DEF Whole

\* Enciphered, whole blocks become as many bytes, block by block what the cipher makes
\* of them.
LEMMA EncipheredBytes ==
    ASSUME NEW bytes \in Seq(0 .. 255), Whole(Len(bytes)), schedule \in blocks!KeyBytes
    PROVE  /\ blocks!Enciphered(bytes) \in Seq(0 .. 255)
           /\ Len(blocks!Enciphered(bytes)) = Len(bytes)
           /\ \A a \in Nat : Whole(a) /\ a < Len(bytes) =>
                 /\ a + BlockSize <= Len(bytes)
                 /\ blocks!BlockAt(bytes, a) \in [1 .. BlockSize -> 0 .. 255]
                 /\ Enc[schedule][blocks!BlockAt(bytes, a)] \in [1 .. BlockSize -> 0 .. 255]
                 /\ \A i \in 1 .. BlockSize :
                       blocks!Enciphered(bytes)[a + i] = Enc[schedule][blocks!BlockAt(bytes, a)][i]
  <1> DEFINE out(a) == Enc[schedule][blocks!BlockAt(bytes, a)]
             e == blocks!Enciphered(bytes)
             len == Len(bytes)
  <1>1. BlockSize \in Nat \ {0} /\ len \in Nat /\ DOMAIN bytes = 1 .. len
    BY TextAssumption
  <1>2. ASSUME NEW a \in Nat, Whole(a), a < len
        PROVE  /\ a + BlockSize <= len
               /\ blocks!BlockAt(bytes, a) \in [1 .. BlockSize -> 0 .. 255]
               /\ out(a) \in [1 .. BlockSize -> 0 .. 255]
    <2>1. a + BlockSize <= len
      BY <1>1, <1>2, AtBlock
    <2>2. blocks!BlockAt(bytes, a) \in [1 .. BlockSize -> 0 .. 255]
      BY <2>1, BlockOf
    <2> QED BY <2>1, <2>2, CipherAssumption
  <1>3. e = [p \in 1 .. len |-> out(blocks!From(p))[p - blocks!From(p)]]
    BY <1>1 DEF blocks!Enciphered
  <1> HIDE DEF out, e
  <1>4. ASSUME NEW p \in 1 .. len PROVE e[p] \in 0 .. 255
    <2> DEFINE f == blocks!From(p)
               i == p - f
    <2>1. f \in Nat /\ Whole(f) /\ i \in 1 .. BlockSize
      BY BlockStart
    <2>2. f < len /\ e[p] = out(f)[i]
      <3>1. f < len
        BY <1>1, <2>1
      <3> QED BY <1>3, <3>1
    <2> HIDE DEF f, i
    <2>3. out(f) \in [1 .. BlockSize -> 0 .. 255]
      BY <1>2, <2>1, <2>2
    <2> QED BY <2>1, <2>2, <2>3
  <1>5. e \in Seq(0 .. 255) /\ Len(e) = len
    <2>1. e \in [1 .. len -> 0 .. 255]
      BY <1>3, <1>4
    <2> HIDE DEF len
    <2> QED BY <1>1, <2>1, FcnIsSeq
  <1>6. ASSUME NEW a \in Nat, Whole(a), a < len, NEW i \in 1 .. BlockSize
        PROVE  e[a + i] = out(a)[i]
    <2> DEFINE p == a + i
    <2>1. p \in 1 .. len /\ p \in Nat \ {0} /\ p - a = i
      BY <1>1, <1>2, <1>6
    <2> HIDE DEF p
    <2>2. blocks!From(p) = a
      BY <1>6, <2>1, BlockStart
    <2>3. e[p] = out(a)[i]
      BY <1>3, <2>1, <2>2
    <2> QED BY <2>3 DEF p
  <1> QED BY <1>2, <1>5, <1>6 DEF e, len, out

\* What the window works on: the padded text, its blocks enciphered, and their hex.
LEMMA TextParts ==
    ASSUME text \in BlockTexts
    PROVE  /\ blocks!pad(text) \in Seq(0 .. 255)
           /\ Len(blocks!pad(text)) \in Nat \ {0} /\ Whole(Len(blocks!pad(text)))
           /\ schedule \in blocks!KeyBytes =>
                 /\ blocks!Enciphered(blocks!pad(text)) \in Seq(0 .. 255)
                 /\ Len(blocks!Enciphered(blocks!pad(text))) = Len(blocks!pad(text))
                 /\ blocks!toHex(blocks!Enciphered(blocks!pad(text))) \in Seq(0 .. 15)
                 /\ Len(blocks!toHex(blocks!Enciphered(blocks!pad(text)))) = 2 * Len(blocks!pad(text))
  <1>1. text \in Seq(0 .. 255)
    BY TextAssumption
  <1>2. blocks!pad(text) \in Seq(0 .. 255) /\ Len(blocks!pad(text)) \in Nat \ {0}
        /\ Whole(Len(blocks!pad(text)))
    BY <1>1, Padding
  <1>3. schedule \in blocks!KeyBytes =>
           /\ blocks!Enciphered(blocks!pad(text)) \in Seq(0 .. 255)
           /\ Len(blocks!Enciphered(blocks!pad(text))) = Len(blocks!pad(text))
    BY <1>2, EncipheredBytes
  <1> QED BY <1>2, <1>3, HexOfByte

\* A key that is not refused has the bytes of one.
LEMMA KeyTaken ==
    ASSUME key \in BlockKeys, blocks!KeyFits
    PROVE  blocks!fromHex(key) \in blocks!KeyBytes
  BY DEF blocks!KeyFits, blocks!KeyBytes

\* Nothing is made of a text so far.
LEMMA NothingYet ==
    << >> \in Seq(0 .. 255) /\ Len(<< >>) = 0 /\ 0 % BlockSize = 0
  <1>1. BlockSize \in Nat \ {0} /\ 0 = BlockSize * 0 + 0 /\ 0 \in 0 .. BlockSize - 1
    BY TextAssumption, SMTT(20)
  <1> QED BY <1>1, ModUnique

\* At the start nothing is made of the text.
LEMMA TextStarts ==
    blocks!Init => blocks!Inv
  <1> SUFFICES ASSUME blocks!Init PROVE blocks!Inv
    OBVIOUS
  <1>1. /\ text \in BlockTexts /\ key \in BlockKeys /\ phase = "ready" /\ sent = << >>
        /\ back = << >> /\ local2 = FALSE /\ local3 = FALSE
    BY DEF blocks!Init
  <1>2. BlockSize \in Nat
    BY TextAssumption
  <1>3. blocks!TypeOK /\ blocks!Enciphering /\ blocks!Deciphering
    BY <1>1 DEF blocks!TypeOK, blocks!Enciphering, blocks!Deciphering
  <1>4. blocks!Shown /\ blocks!PrefixSurvives /\ blocks!RoundTrip
    BY <1>1 DEF blocks!Shown, blocks!PrefixSurvives, blocks!RoundTrip
  <1>5. blocks!OverrunOnlyByEdit
    BY <1>1, <1>2, NothingYet DEF blocks!OverrunOnlyByEdit
  <1> QED BY <1>3, <1>4, <1>5 DEF blocks!Inv

\* A key of the wrong length ends it.
LEMMA TextRefuse ==
    blocks!Inv /\ blocks!Refuse => blocks!Inv'
  <1> SUFFICES ASSUME blocks!Inv, blocks!Refuse PROVE blocks!Inv'
    OBVIOUS
  <1>1. /\ phase' = "refused" /\ text' = text /\ key' = key /\ sent' = sent /\ back' = back
        /\ local2' = local2 /\ local3' = local3
    BY DEF blocks!Refuse
  <1>2. blocks!TypeOK' /\ blocks!OverrunOnlyByEdit'
    BY <1>1 DEF blocks!Inv, blocks!TypeOK, blocks!OverrunOnlyByEdit
  <1>3. /\ blocks!Enciphering' /\ blocks!Shown' /\ blocks!Deciphering'
        /\ blocks!PrefixSurvives' /\ blocks!RoundTrip'
    BY <1>1 DEF blocks!Enciphering, blocks!Shown, blocks!Deciphering, blocks!PrefixSurvives,
                blocks!RoundTrip
  <1> QED BY <1>2, <1>3 DEF blocks!Inv

\* The key is set and the padded text is the data.
LEMMA TextEncrypt ==
    blocks!Inv /\ blocks!Encrypt => blocks!Inv'
  <1> SUFFICES ASSUME blocks!Inv, blocks!Encrypt PROVE blocks!Inv'
    OBVIOUS
  <1>1. /\ text \in BlockTexts /\ key \in BlockKeys /\ blocks!KeyFits
        /\ back = << >> /\ local2 = FALSE /\ local3 = FALSE
        /\ phase' = "encrypt" /\ schedule' = blocks!fromHex(key) /\ sent' = blocks!pad(text)
        /\ text' = text /\ key' = key /\ back' = back /\ local2' = local2 /\ local3' = local3
    BY DEF blocks!Inv, blocks!TypeOK, blocks!Enciphering, blocks!Deciphering, blocks!Encrypt
  <1>2. BlockSize \in Nat \ {0} /\ Len(sent') \in Nat /\ sent' = blocks!pad(text')
    BY <1>1, TextParts, TextAssumption
  <1>3. back' \in Seq(0 .. 255) /\ Len(back') = 0 /\ Len(back') % BlockSize = 0
    BY <1>1, NothingYet
  <1>4. blocks!Enciphering'
    <2>1. \A p \in 1 .. Len(back') : back'[p] = blocks!Enciphered(blocks!pad(text))'[p]
      BY <1>3
    <2> QED BY <1>1, <1>2, <1>3, <2>1 DEF blocks!Enciphering
  <1>5. blocks!TypeOK'
    BY <1>1, KeyTaken DEF blocks!TypeOK
  <1>6. blocks!OverrunOnlyByEdit'
    BY <1>1, <1>2, <1>3 DEF blocks!OverrunOnlyByEdit
  <1>7. blocks!Shown' /\ blocks!Deciphering' /\ blocks!PrefixSurvives' /\ blocks!RoundTrip'
    BY <1>1 DEF blocks!Shown, blocks!Deciphering, blocks!PrefixSurvives, blocks!RoundTrip
  <1> QED BY <1>4, <1>5, <1>6, <1>7 DEF blocks!Inv

\* While the output is shown, any key may be typed.
LEMMA TextTypeKey ==
    blocks!Inv /\ blocks!TypeKey => blocks!Inv'
  <1> SUFFICES ASSUME blocks!Inv, blocks!TypeKey PROVE blocks!Inv'
    OBVIOUS
  <1>1. /\ phase = "shown" /\ key' \in BlockKeys
        /\ text' = text /\ phase' = phase /\ schedule' = schedule /\ sent' = sent /\ back' = back
        /\ local1' = local1 /\ local2' = local2 /\ local3' = local3
    BY DEF blocks!TypeKey
  <1>2. blocks!TypeOK' /\ blocks!OverrunOnlyByEdit' /\ blocks!Shown'
    BY <1>1 DEF blocks!Inv, blocks!TypeOK, blocks!OverrunOnlyByEdit, blocks!Shown,
                blocks!Enciphered
  <1>3. blocks!Enciphering' /\ blocks!Deciphering' /\ blocks!PrefixSurvives' /\ blocks!RoundTrip'
    BY <1>1 DEF blocks!Inv, blocks!Enciphering, blocks!Deciphering, blocks!PrefixSurvives,
                blocks!RoundTrip
  <1> QED BY <1>2, <1>3 DEF blocks!Inv

\* Two sequences put together, place by place.
LEMMA Joined ==
    ASSUME NEW S, NEW a \in Seq(S), NEW b \in Seq(S)
    PROVE  /\ a \o b \in Seq(S) /\ Len(a \o b) = Len(a) + Len(b)
           /\ \A p \in 1 .. Len(a) + Len(b) :
                 (a \o b)[p] = IF p <= Len(a) THEN a[p] ELSE b[p - Len(a)]
  BY ConcatProperties

\* A block more of the padded text, or its hex.
LEMMA TextEncryptNext ==
    blocks!Inv /\ blocks!EncryptNext => blocks!Inv'
  <1> SUFFICES ASSUME blocks!Inv, blocks!EncryptNext PROVE blocks!Inv'
    OBVIOUS
  <1> DEFINE P == blocks!pad(text)
             E == blocks!Enciphered(P)
             L == Len(back)
  <1>1. /\ text \in BlockTexts /\ phase = "encrypt" /\ sent = P /\ local2 = FALSE /\ local3 = FALSE
        /\ schedule \in blocks!KeyBytes /\ key \in BlockKeys
        /\ text' = text /\ key' = key /\ schedule' = schedule /\ sent' = sent
        /\ local2' = local2 /\ local3' = local3
    BY DEF blocks!Inv, blocks!TypeOK, blocks!Enciphering, blocks!Deciphering, blocks!EncryptNext
  <1>2. /\ back \in Seq(0 .. 255) /\ Whole(L) /\ L <= Len(P)
        /\ \A p \in 1 .. L : back[p] = E[p]
    BY <1>1 DEF blocks!Inv, blocks!Enciphering, Whole
  <1>3. /\ BlockSize \in Nat \ {0} /\ L \in Nat
        /\ P \in Seq(0 .. 255) /\ Len(P) \in Nat \ {0} /\ Whole(Len(P))
        /\ E \in Seq(0 .. 255) /\ Len(E) = Len(P)
        /\ blocks!toHex(E) \in Seq(0 .. 15) /\ Len(blocks!toHex(E)) = 2 * Len(P)
    BY <1>1, <1>2, TextParts, TextAssumption
  <1>4. blocks!pad(text)' = P /\ blocks!Enciphered(blocks!pad(text))' = E
    BY <1>1 DEF blocks!Enciphered
  <1> DEFINE block == Enc[schedule][blocks!BlockAt(sent, L)]
  <1>5. L < Len(P) =>
           /\ L + BlockSize <= Len(P) /\ block \in [1 .. BlockSize -> 0 .. 255]
           /\ \A i \in 1 .. BlockSize : block[i] = E[L + i]
    <2>1. \A a \in Nat : Whole(a) /\ a < Len(P) =>
             /\ a + BlockSize <= Len(P)
             /\ Enc[schedule][blocks!BlockAt(P, a)] \in [1 .. BlockSize -> 0 .. 255]
             /\ \A i \in 1 .. BlockSize : E[a + i] = Enc[schedule][blocks!BlockAt(P, a)][i]
      BY <1>1, <1>3, EncipheredBytes
    <2>2. sent = P /\ L \in Nat /\ Whole(L)
      BY <1>1, <1>2, <1>3
    <2> HIDE DEF P, E, L
    <2> QED BY <2>1, <2>2
  <1> HIDE DEF P, E, block
  <1>6. CASE L < Len(P)
    <2>1. back' = back \o block /\ phase' = phase
      BY <1>1, <1>6 DEF blocks!EncryptNext, block
    <2>2. Whole(L + BlockSize)
      <3> HIDE DEF L
      <3> QED BY <1>2, <1>3, AtBlock
    <2>3. block \in Seq(0 .. 255) /\ Len(block) = BlockSize
      BY <1>3, <1>5, <1>6, FcnIsSeq
    <2>4. /\ back' \in Seq(0 .. 255) /\ Len(back') = L + BlockSize
          /\ \A p \in 1 .. L + BlockSize : back'[p] = IF p <= L THEN back[p] ELSE block[p - L]
      <3>1. back' = back \o block /\ back \in Seq(0 .. 255) /\ block \in Seq(0 .. 255)
            /\ Len(block) = BlockSize
        BY <1>2, <2>1, <2>3
      <3> QED BY <3>1, Joined, Zenon
    <2>5. ASSUME NEW p \in 1 .. L + BlockSize PROVE back'[p] = E[p]
      <3>1. CASE p <= L
        BY <1>2, <1>3, <2>4, <3>1
      <3>2. CASE p > L
        <4> DEFINE i == p - L
        <4>1. i \in 1 .. BlockSize /\ L + i = p /\ ~(p <= L)
          BY <1>3, <3>2
        <4>2. back'[p] = block[i]
          BY <2>4, <4>1
        <4> HIDE DEF i
        <4>3. block[i] = E[L + i]
          BY <1>5, <1>6, <4>1
        <4> QED BY <4>1, <4>2, <4>3
      <3> QED BY <1>3, <3>1, <3>2
    <2> HIDE DEF L
    <2>6. phase' = "encrypt"
      BY <1>1, <2>1
    <2>7. blocks!Enciphering'
      <3>1. Len(back') % BlockSize = 0 /\ Len(back') <= Len(sent')
        BY <1>1, <1>5, <1>6, <2>2, <2>4 DEF Whole
      <3>2. \A p \in 1 .. Len(back') : back'[p] = blocks!Enciphered(blocks!pad(text))'[p]
        BY <1>4, <2>4, <2>5
      <3> QED BY <1>1, <1>4, <2>4, <2>6, <3>1, <3>2 DEF blocks!Enciphering
    <2>8. blocks!TypeOK'
      BY <1>1, <2>6, Zenon DEF blocks!TypeOK
    <2>9. blocks!Shown' /\ blocks!Deciphering' /\ blocks!PrefixSurvives' /\ blocks!RoundTrip'
      BY <1>1, <2>6 DEF blocks!Shown, blocks!Deciphering, blocks!PrefixSurvives, blocks!RoundTrip
    <2>10. blocks!OverrunOnlyByEdit'
      <3>1. Len(back') <= Len(sent') + BlockSize
        BY <1>1, <1>3, <1>5, <1>6, <2>4
      <3> QED BY <1>1, <3>1 DEF blocks!OverrunOnlyByEdit
    <2> QED BY <2>7, <2>8, <2>9, <2>10 DEF blocks!Inv
  <1>7. CASE ~(L < Len(P))
    <2>1. L = Len(P) /\ local1' = blocks!toHex(back) /\ phase' = "shown" /\ back' = back
      BY <1>1, <1>2, <1>3, <1>7 DEF blocks!EncryptNext
    <2>2. back = E
      BY <1>2, <1>3, <2>1, SeqEqual
    <2>3. blocks!Shown'
      <3> DEFINE H == blocks!toHex(E)
      <3>1. local1' = H /\ H \in Seq(0 .. 15) /\ Len(H) = 2 * Len(P)
        BY <1>3, <2>1, <2>2
      <3>2. blocks!toHex(blocks!Enciphered(blocks!pad(text)))' = H
        BY <1>4, Zenon
      <3> HIDE DEF H
      <3>3. H \in Seq(0 .. 18)
        BY <3>1
      <3> QED BY <1>3, <1>4, <3>1, <3>2, <3>3 DEF blocks!Shown, blocks!Minus
    <2>4. blocks!TypeOK'
      BY <1>1, <2>1, Zenon DEF blocks!TypeOK
    <2>5. blocks!Enciphering' /\ blocks!Deciphering' /\ blocks!PrefixSurvives' /\ blocks!RoundTrip'
      BY <1>1, <2>1 DEF blocks!Enciphering, blocks!Deciphering, blocks!PrefixSurvives, blocks!RoundTrip
    <2>6. blocks!OverrunOnlyByEdit'
      BY <1>1, <1>3, <2>1 DEF blocks!OverrunOnlyByEdit
    <2> QED BY <2>3, <2>4, <2>5, <2>6 DEF blocks!Inv
  <1> QED BY <1>6, <1>7

\* Shorter hex, or a character that is no digit.
LEMMA TextEdit ==
    blocks!Inv /\ blocks!Edit => blocks!Inv'
  <1> SUFFICES ASSUME blocks!Inv, blocks!Edit PROVE blocks!Inv'
    OBVIOUS
  <1> DEFINE H == blocks!toHex(blocks!Enciphered(blocks!pad(text)))
             M == 2 * Len(blocks!pad(text))
  <1>1. /\ text \in BlockTexts /\ phase = "shown" /\ local2 = FALSE /\ local3 = FALSE
        /\ text' = text /\ key' = key /\ phase' = phase /\ schedule' = schedule
        /\ sent' = sent /\ back' = back /\ local3' = local3 /\ local2' = TRUE
    BY DEF blocks!Inv, blocks!TypeOK, blocks!Deciphering, blocks!Edit
  <1>2. /\ local1 \in Seq(0 .. 18) /\ Len(local1) = M
        /\ \A i \in 1 .. Len(local1) : local1[i] = H[i]
    BY <1>1 DEF blocks!Inv, blocks!Shown, blocks!Minus
  <1>3. M \in Nat \ {0} /\ M = 2 * Len(blocks!pad(text'))
        /\ blocks!toHex(blocks!Enciphered(blocks!pad(text)))' = H
    <2>1. M \in Nat \ {0} /\ M = 2 * Len(blocks!pad(text'))
      BY <1>1, TextParts
    <2>2. blocks!Enciphered(blocks!pad(text))' = blocks!Enciphered(blocks!pad(text))
      BY <1>1 DEF blocks!Enciphered
    <2> QED BY <2>1, <2>2, Zenon
  <1> HIDE DEF H, M
  <1>4. /\ local1' \in Seq(0 .. 18) /\ Len(local1') <= M
        /\ \A i \in 1 .. Len(local1') : local1'[i] = H[i] \/ local1'[i] >= blocks!Bad
    <2>1. ASSUME NEW k \in 1 .. Len(local1), local1' = SubSeq(local1, 1, Len(local1) - k)
          PROVE  <1>4!:
      <3> DEFINE l == Len(local1) - k
      <3>1. l \in 0 .. M
        BY <1>2, <1>3
      <3> HIDE DEF l
      <3>2. \A i \in 1 .. l : local1[i] \in 0 .. 18
        <4> SUFFICES ASSUME NEW i \in 1 .. l PROVE local1[i] \in 0 .. 18
          OBVIOUS
        <4>1. i \in 1 .. Len(local1)
          BY <1>2, <1>3, <3>1
        <4> QED BY <1>2, <4>1, ElementOfSeq, Zenon
      <3>3. local1' = SubSeq(local1, 1, l)
        BY <2>1 DEF l
      <3>4. /\ local1' \in Seq(0 .. 18) /\ Len(local1') = l
            /\ \A i \in 1 .. l : local1'[i] = local1[i]
        <4>1. 1 \in 1 .. l + 1 /\ l \in Nat /\ l <= Len(local1)
          BY <1>2, <1>3, <3>1
        <4> QED BY <1>2, <3>2, <3>3, <4>1, SubSeqProperties, SMTT(30)
      <3> QED BY <1>2, <1>3, <3>1, <3>4
    <2>2. ASSUME NEW i \in 1 .. Len(local1), NEW x \in blocks!Bad .. blocks!Minus,
                 local1' = [local1 EXCEPT ![i] = x]
          PROVE  <1>4!:
      <3>1. x \in 0 .. 18 /\ x >= blocks!Bad
        BY DEF blocks!Bad, blocks!Minus
      <3>2. /\ local1' \in Seq(0 .. 18) /\ Len(local1') = Len(local1)
            /\ \A j \in 1 .. Len(local1) : local1'[j] = IF j = i THEN x ELSE local1[j]
        BY <1>2, <2>2, <3>1, ExceptSeq
      <3> QED BY <1>2, <1>3, <3>1, <3>2
    <2> QED BY <2>1, <2>2 DEF blocks!Edit
  <1>5. blocks!Shown'
    <2>1. local1' \in Seq(0 .. blocks!Minus) /\ Len(local1') <= 2 * Len(blocks!pad(text')) /\ local2'
      BY <1>1, <1>3, <1>4 DEF blocks!Minus
    <2>2. \A i \in 1 .. Len(local1') :
             local1'[i] = blocks!toHex(blocks!Enciphered(blocks!pad(text)))'[i]
             \/ (local2' /\ local1'[i] >= blocks!Bad)
      BY <1>1, <1>3, <1>4
    <2> QED BY <2>1, <2>2 DEF blocks!Shown
  <1>6. blocks!TypeOK' /\ blocks!OverrunOnlyByEdit'
    BY <1>1 DEF blocks!Inv, blocks!TypeOK, blocks!OverrunOnlyByEdit
  <1>7. blocks!Enciphering' /\ blocks!Deciphering' /\ blocks!PrefixSurvives' /\ blocks!RoundTrip'
    BY <1>1 DEF blocks!Enciphering, blocks!Deciphering, blocks!PrefixSurvives, blocks!RoundTrip
  <1> QED BY <1>5, <1>6, <1>7 DEF blocks!Inv

\* The hex becomes the data, under whatever key is in the field.
LEMMA TextDecrypt ==
    blocks!Inv /\ blocks!Decrypt => blocks!Inv'
  <1> SUFFICES ASSUME blocks!Inv, blocks!Decrypt PROVE blocks!Inv'
    OBVIOUS
  <1>1. /\ text \in BlockTexts /\ key \in BlockKeys /\ phase = "shown" /\ local2 \in BOOLEAN
        /\ local3 = FALSE /\ schedule \in blocks!KeyBytes /\ blocks!KeyFits
        /\ text' = text /\ key' = key /\ schedule' = schedule /\ phase' = "decrypt" /\ back' = << >>
        /\ local1' = local1 /\ local2' = local2 /\ local3' = local3
        /\ sent' = blocks!fromHex(local1)
    BY DEF blocks!Inv, blocks!TypeOK, blocks!Deciphering, blocks!Decrypt
  <1>2. BlockSize \in Nat \ {0} /\ Len(sent') \in Nat
    <2>1. Len(local1) \in Nat
      BY <1>1 DEF blocks!Inv, blocks!Shown
    <2>2. Len(local1) \div 2 \in Nat
      BY <2>1
    <2> QED BY <1>1, <2>2, TextAssumption DEF blocks!fromHex
  <1>3. back' \in Seq(0 .. 255) /\ Len(back') = 0 /\ Len(back') % BlockSize = 0
    BY <1>1, NothingYet
  <1>4. blocks!Deciphering'
    <2>1. Len(back') < Len(sent') + BlockSize
      BY <1>2, <1>3
    <2>2. \A p \in 1 .. Len(back') : back'[p] = blocks!pad(text')[p]
      BY <1>3
    <2>3. sent' = blocks!fromHex(local1')
      BY <1>1
    <2> QED BY <1>1, <1>3, <2>1, <2>2, <2>3 DEF blocks!Deciphering
  <1>5. blocks!TypeOK'
    <2>1. blocks!fromHex(key') \in blocks!KeyBytes
      BY <1>1, KeyTaken
    <2> QED BY <1>1, <2>1, Zenon DEF blocks!TypeOK
  <1>6. blocks!OverrunOnlyByEdit'
    <2>1. Len(back') <= Len(sent') + BlockSize
      BY <1>2, <1>3
    <2> QED BY <1>1, <2>1 DEF blocks!OverrunOnlyByEdit
  <1>7. blocks!Shown'
    BY <1>1 DEF blocks!Inv, blocks!Shown, blocks!Enciphered
  <1>8. blocks!Enciphering' /\ blocks!PrefixSurvives' /\ blocks!RoundTrip'
    BY <1>1 DEF blocks!Enciphering, blocks!PrefixSurvives, blocks!RoundTrip
  <1> QED BY <1>4, <1>5, <1>6, <1>7, <1>8 DEF blocks!Inv

\* A pair is read as a byte, and as the byte of its digits if it has two.
LEMMA PairRead ==
    ASSUME NEW high \in 0 .. 18, NEW low \in 0 .. 18
    PROVE  /\ blocks!ReadPair(high, low) \in 0 .. 255
           /\ high < blocks!Bad /\ low < blocks!Bad => blocks!ReadPair(high, low) = 16 * high + low
  BY DEF blocks!ReadPair, blocks!Bad, blocks!Blank, blocks!Minus

\* What fromHex() makes of the hex on the way back: bytes, no more of them than were
\* enciphered, and those same bytes where the digits are the ones toHex() wrote.
LEMMA TextRead ==
    ASSUME blocks!Inv, phase = "decrypt"
    PROVE  /\ sent \in Seq(0 .. 255) /\ Len(sent) <= Len(blocks!pad(text))
           /\ blocks!Digits(local1) =>
                 \A i \in 1 .. Len(sent) : sent[i] = blocks!Enciphered(blocks!pad(text))[i]
           /\ ~local2 => blocks!Digits(local1) /\ Len(sent) = Len(blocks!pad(text))
  <1> DEFINE E == blocks!Enciphered(blocks!pad(text))
             H == blocks!toHex(E)
             N == Len(blocks!pad(text))
             half == Len(local1) \div 2
  <1>1. /\ text \in BlockTexts /\ schedule \in blocks!KeyBytes
        /\ sent = blocks!fromHex(local1) /\ local2 \in BOOLEAN
    BY DEF blocks!Inv, blocks!TypeOK, blocks!Deciphering
  <1>2. /\ local1 \in Seq(0 .. 18) /\ Len(local1) <= 2 * N
        /\ ~local2 => Len(local1) = 2 * N
        /\ \A i \in 1 .. Len(local1) : local1[i] = H[i] \/ (local2 /\ local1[i] >= blocks!Bad)
    BY <1>1 DEF blocks!Inv, blocks!Shown, blocks!Minus
  <1>3. /\ N \in Nat /\ E \in Seq(0 .. 255) /\ Len(E) = N /\ H \in Seq(0 .. 15) /\ Len(H) = 2 * N
        /\ \A i \in 1 .. N : 16 * H[2 * i - 1] + H[2 * i] = E[i]
    BY <1>1, TextParts, HexOfByte, Zenon
  <1> HIDE DEF E, H, N
  <1>4. /\ Len(local1) \in Nat /\ half \in Nat /\ 2 * half <= Len(local1) /\ half <= N
        /\ Len(local1) = 2 * N => half = N
    <2>1. Len(local1) \in Nat
      BY <1>2
    <2> DEFINE l == Len(local1)
    <2> HIDE DEF l
    <2>2. l \in Nat /\ l <= 2 * N
      BY <1>2, <2>1 DEF l
    <2>3. l \div 2 \in Nat /\ 2 * (l \div 2) <= l /\ (l \div 2) <= N /\ (l = 2 * N => l \div 2 = N)
      BY <1>3, <2>2
    <2> QED BY <2>1, <2>3 DEF l
  <1>5. sent = [i \in 1 .. half |-> blocks!ReadPair(local1[2 * i - 1], local1[2 * i])]
    BY <1>1 DEF blocks!fromHex
  <1> HIDE DEF half
  <1>6. \A i \in 1 .. half : /\ 2 * i - 1 \in 1 .. Len(local1) /\ 2 * i \in 1 .. Len(local1)
                             /\ local1[2 * i - 1] \in 0 .. 18 /\ local1[2 * i] \in 0 .. 18
    <2> SUFFICES ASSUME NEW i \in 1 .. half
                 PROVE  /\ 2 * i - 1 \in 1 .. Len(local1) /\ 2 * i \in 1 .. Len(local1)
                        /\ local1[2 * i - 1] \in 0 .. 18 /\ local1[2 * i] \in 0 .. 18
      OBVIOUS
    <2>1. 2 * i - 1 \in 1 .. Len(local1) /\ 2 * i \in 1 .. Len(local1)
      BY <1>4
    <2> QED BY <1>2, <2>1, ElementOfSeq, Zenon
  <1>7. sent \in Seq(0 .. 255) /\ Len(sent) = half
    <2>1. \A i \in 1 .. half : blocks!ReadPair(local1[2 * i - 1], local1[2 * i]) \in 0 .. 255
      BY <1>6, PairRead, Zenon
    <2>2. sent \in [1 .. half -> 0 .. 255]
      BY <1>5, <2>1, Zenon
    <2> QED BY <1>4, <2>2, FcnIsSeq
  <1>8. ASSUME blocks!Digits(local1), NEW i \in 1 .. Len(sent)
        PROVE  sent[i] = E[i]
    <2>1. i \in 1 .. half /\ i \in 1 .. N
      BY <1>3, <1>4, <1>7
    <2>2. local1[2 * i - 1] < blocks!Bad /\ local1[2 * i] < blocks!Bad
      BY <1>6, <1>8, <2>1 DEF blocks!Digits
    <2>3. local1[2 * i - 1] = H[2 * i - 1] /\ local1[2 * i] = H[2 * i]
      <3>1. ASSUME NEW j \in 1 .. Len(local1), local1[j] \in 0 .. 18, local1[j] < blocks!Bad
            PROVE  local1[j] = H[j]
        BY <1>2, <3>1 DEF blocks!Bad
      <3> QED BY <1>6, <2>1, <2>2, <3>1
    <2>4. sent[i] = 16 * local1[2 * i - 1] + local1[2 * i]
      BY <1>5, <1>6, <2>1, <2>2, PairRead
    <2> QED BY <1>3, <2>1, <2>3, <2>4
  <1>9. ASSUME ~local2 PROVE blocks!Digits(local1) /\ Len(sent) = N
    <2>1. half = N
      BY <1>2, <1>4, <1>9
    <2>2. ASSUME NEW j \in 1 .. Len(local1) PROVE local1[j] < blocks!Bad
      <3>1. local1[j] = H[j] /\ j \in 1 .. Len(H)
        BY <1>2, <1>3, <1>4, <1>9
      <3>2. H[j] \in 0 .. 15
        BY <1>3, <3>1, ElementOfSeq, Zenon
      <3> QED BY <3>1, <3>2 DEF blocks!Bad
    <2> QED BY <1>7, <2>1, <2>2 DEF blocks!Digits
  <1> QED BY <1>4, <1>7, <1>8, <1>9 DEF E, N

\* A block more deciphered, or the padding taken off.
LEMMA TextDecryptNext ==
    blocks!Inv /\ blocks!DecryptNext => blocks!Inv'
  <1> SUFFICES ASSUME blocks!Inv, blocks!DecryptNext PROVE blocks!Inv'
    OBVIOUS
  <1> DEFINE P == blocks!pad(text)
             E == blocks!Enciphered(P)
             L == Len(back)
             bytes == blocks!fromHex(key)
             Same == blocks!Digits(local1) /\ bytes = schedule
  <1>1. /\ text \in BlockTexts /\ phase = "decrypt" /\ local2 \in BOOLEAN /\ local3 \in BOOLEAN
        /\ key \in BlockKeys /\ schedule \in blocks!KeyBytes /\ bytes \in blocks!KeyBytes
        /\ text' = text /\ key' = key /\ schedule' = schedule
        /\ sent' = sent /\ local1' = local1 /\ local2' = local2
        /\ sent = blocks!fromHex(local1)
    BY DEF blocks!Inv, blocks!TypeOK, blocks!Deciphering, blocks!DecryptNext
  <1>2. /\ back \in Seq(0 .. 255) /\ Whole(L) /\ L < Len(sent) + BlockSize
        /\ Whole(Len(sent)) /\ Same => \A p \in 1 .. L : back[p] = P[p]
        /\ local3 => local2 /\ ~Whole(Len(sent))
    BY <1>1 DEF blocks!Inv, blocks!Deciphering, blocks!OverrunOnlyByEdit, Whole
  <1>3. /\ BlockSize \in Nat \ {0} /\ L \in Nat /\ Len(sent) \in Nat
        /\ P \in Seq(0 .. 255) /\ Len(P) \in Nat \ {0} /\ Whole(Len(P))
        /\ HeapBytes \subseteq 0 .. 255
        /\ sent \in Seq(0 .. 255) /\ Len(sent) <= Len(P)
        /\ Same => \A i \in 1 .. Len(sent) : sent[i] = E[i]
        /\ ~local2 => blocks!Digits(local1) /\ Len(sent) = Len(P)
    BY <1>1, <1>2, TextParts, TextAssumption, TextRead
  <1>4. \A a \in Nat : Whole(a) /\ a < Len(P) =>
           /\ blocks!BlockAt(P, a) \in [1 .. BlockSize -> 0 .. 255]
           /\ \A i \in 1 .. BlockSize : E[a + i] = Enc[schedule][blocks!BlockAt(P, a)][i]
           /\ Enc[schedule][blocks!BlockAt(P, a)] \in [1 .. BlockSize -> 0 .. 255]
           /\ Dec[schedule][Enc[schedule][blocks!BlockAt(P, a)]] = blocks!BlockAt(P, a)
    <2>1. P \in Seq(0 .. 255) /\ Whole(Len(P)) /\ schedule \in blocks!KeyBytes
      BY <1>1, <1>3
    <2> HIDE DEF P, bytes, Same
    <2>2. \A a \in Nat : Whole(a) /\ a < Len(P) =>
             /\ blocks!BlockAt(P, a) \in [1 .. BlockSize -> 0 .. 255]
             /\ \A i \in 1 .. BlockSize : E[a + i] = Enc[schedule][blocks!BlockAt(P, a)][i]
             /\ Enc[schedule][blocks!BlockAt(P, a)] \in [1 .. BlockSize -> 0 .. 255]
      BY <2>1, EncipheredBytes, Zenon
    <2> HIDE DEF E
    <2>3. \A b \in [1 .. BlockSize -> 0 .. 255] : Dec[schedule][Enc[schedule][b]] = b
      BY <2>1, CipherAssumption, Zenon
    <2> QED BY <2>2, <2>3
  <1>5. blocks!Shown'
    BY <1>1 DEF blocks!Inv, blocks!Shown, blocks!DecryptNext, blocks!Enciphered
  <1> HIDE DEF P, E, bytes, Same
  <1>6. CASE L < Len(sent)
    <2> DEFINE more(j) == sent \o blocks!Repeat(j, BlockSize)
               block(j) == Dec[bytes][blocks!BlockAt(more(j), L)]
    <2>1. PICK j \in HeapBytes :
             /\ back' = back \o block(j) /\ phase' = phase
             /\ local3' = (local3 \/ Len(sent) < L + BlockSize)
      BY <1>1, <1>6 DEF blocks!DecryptNext, bytes
    <2> DEFINE M == more(j)
               A == blocks!BlockAt(M, L)
               B == Dec[bytes][A]
    <2>2. /\ M \in Seq(0 .. 255) /\ Len(M) = Len(sent) + BlockSize
          /\ \A i \in 1 .. Len(sent) : M[i] = sent[i]
      <3> DEFINE r == blocks!Repeat(j, BlockSize)
      <3>1. r \in Seq(0 .. 255) /\ Len(r) = BlockSize
        <4>1. r \in [1 .. BlockSize -> 0 .. 255]
          BY <1>3 DEF blocks!Repeat
        <4> HIDE DEF r
        <4> QED BY <1>3, <4>1, FcnIsSeq
      <3> HIDE DEF r
      <3>2. /\ sent \o r \in Seq(0 .. 255) /\ Len(sent \o r) = Len(sent) + Len(r)
            /\ \A i \in 1 .. Len(sent) + Len(r) :
                  (sent \o r)[i] = IF i <= Len(sent) THEN sent[i] ELSE r[i - Len(sent)]
        <4>1. sent \in Seq(0 .. 255)
          BY <1>3
        <4> QED BY <3>1, <4>1, Joined, Zenon
      <3> QED BY <1>3, <3>1, <3>2 DEF r
    <2>3. back' = back \o B
      BY <2>1
    <2> HIDE DEF M, B, block
    <2>4. A \in [1 .. BlockSize -> 0 .. 255] /\ \A i \in 1 .. BlockSize : A[i] = M[L + i]
      <3>1. L + BlockSize <= Len(M)
        BY <1>3, <1>6, <2>2
      <3> HIDE DEF L
      <3> QED BY <1>3, <2>2, <3>1, BlockOf
    <2> HIDE DEF A
    <2>5. B \in [1 .. BlockSize -> 0 .. 255] /\ B \in Seq(0 .. 255) /\ Len(B) = BlockSize
      <3>1. B \in [1 .. BlockSize -> 0 .. 255]
        BY <1>1, <2>4, CipherAssumption DEF B
      <3>2. BlockSize \in Nat
        BY <1>3
      <3> QED BY <3>1, <3>2, FcnIsSeq
    <2>6. /\ back' \in Seq(0 .. 255) /\ Len(back') = L + BlockSize
          /\ \A p \in 1 .. L + BlockSize : back'[p] = IF p <= L THEN back[p] ELSE B[p - L]
      <3>1. back' = back \o B /\ back \in Seq(0 .. 255) /\ B \in Seq(0 .. 255)
            /\ Len(B) = BlockSize
        BY <1>2, <2>3, <2>5
      <3> QED BY <3>1, Joined, Zenon
    <2>7. Whole(L + BlockSize) /\ (Whole(Len(sent)) => L + BlockSize <= Len(sent))
      <3> HIDE DEF L
      <3> QED BY <1>2, <1>3, <1>6, AtBlock
    <2>8. ASSUME Whole(Len(sent)), Same PROVE B = blocks!BlockAt(P, L)
      <3> DEFINE C == Enc[schedule][blocks!BlockAt(P, L)]
      <3>1. /\ C \in [1 .. BlockSize -> 0 .. 255] /\ \A i \in 1 .. BlockSize : C[i] = E[L + i]
            /\ Dec[schedule][C] = blocks!BlockAt(P, L)
        <4>1. Whole(L) /\ L \in Nat /\ L < Len(P)
          BY <1>2, <1>3, <1>6
        <4> HIDE DEF L
        <4> QED BY <1>4, <4>1
      <3> HIDE DEF C
      <3>2. ASSUME NEW i \in 1 .. BlockSize PROVE A[i] = C[i]
        <4> DEFINE p == L + i
        <4>1. p \in 1 .. Len(sent)
          BY <1>3, <2>7, <2>8
        <4>2. A[i] = M[p] /\ C[i] = E[p]
          BY <2>4, <3>1
        <4> HIDE DEF p
        <4>3. M[p] = sent[p] /\ sent[p] = E[p]
          BY <1>3, <2>2, <2>8, <4>1
        <4> QED BY <4>2, <4>3
      <3>3. A = C
        <4>1. A = [i \in 1 .. BlockSize |-> A[i]] /\ C = [i \in 1 .. BlockSize |-> C[i]]
          BY <2>4, <3>1, Zenon
        <4> QED BY <3>2, <4>1, Zenon
      <3> QED BY <2>8, <3>1, <3>3 DEF B, Same
    <2>9. ASSUME Whole(Len(sent)), Same, NEW p \in 1 .. L + BlockSize
          PROVE  back'[p] = P[p]
      <3>1. CASE p <= L
        BY <1>2, <1>3, <2>6, <2>9, <3>1
      <3>2. CASE p > L
        <4> DEFINE i == p - L
        <4>1. i \in 1 .. BlockSize /\ L + i = p /\ ~(p <= L)
          BY <1>3, <3>2
        <4>2. back'[p] = B[i]
          BY <2>6, <4>1
        <4>3. L + BlockSize <= Len(P)
          BY <1>3, <2>7, <2>9
        <4> HIDE DEF i, L
        <4>4. blocks!BlockAt(P, L)[i] = P[L + i]
          BY <1>3, <4>1, <4>3, BlockOf
        <4> QED BY <2>8, <2>9, <4>1, <4>2, <4>4
      <3> QED BY <1>3, <3>1, <3>2
    <2> HIDE DEF L
    <2>10. phase' = "decrypt"
      BY <1>1, <2>1
    <2>11. blocks!Deciphering'
      <3>1. Len(back') % BlockSize = 0 /\ Len(back') < Len(sent') + BlockSize
        BY <1>1, <1>3, <1>6, <2>6, <2>7 DEF Whole
      <3>2. Len(sent') % BlockSize = 0 /\ blocks!Digits(local1') /\ blocks!fromHex(key') = schedule' =>
               \A p \in 1 .. Len(back') : back'[p] = blocks!pad(text')[p]
        BY <1>1, <2>6, <2>9 DEF Whole, Same, bytes, P
      <3> QED BY <1>1, <2>6, <2>10, <3>1, <3>2 DEF blocks!Deciphering
    <2>12. blocks!OverrunOnlyByEdit'
      <3>1. Len(sent) < L + BlockSize => local2 /\ ~Whole(Len(sent))
        BY <1>3, <2>7
      <3>2. local3' => local2' /\ Len(sent') % BlockSize # 0
        BY <1>1, <1>2, <2>1, <3>1 DEF Whole
      <3>3. Len(back') <= Len(sent') + BlockSize
        BY <1>1, <1>3, <1>6, <2>6
      <3> QED BY <3>2, <3>3 DEF blocks!OverrunOnlyByEdit
    <2>13. blocks!TypeOK'
      BY <1>1, <2>1, <2>10 DEF blocks!TypeOK, bytes
    <2>14. blocks!Enciphering' /\ blocks!PrefixSurvives' /\ blocks!RoundTrip'
      BY <2>10 DEF blocks!Enciphering, blocks!PrefixSurvives, blocks!RoundTrip
    <2> QED BY <1>5, <2>11, <2>12, <2>13, <2>14 DEF blocks!Inv
  <1>7. CASE ~(L < Len(sent))
    <2>1. back' = blocks!unpad(back) /\ phase' = "done" /\ local3' = local3
      BY <1>1, <1>7 DEF blocks!DecryptNext
    <2>2. PICK l \in 0 .. L : l >= L - BlockSize /\ back' = SubSeq(back, 1, l)
      BY <1>2, <2>1, Unpadding, Zenon
    <2>3. \A i \in 1 .. L : back[i] \in 0 .. 255
      BY <1>2, ElementOfSeq
    <2>4. /\ back' \in Seq(0 .. 255) /\ Len(back') = l /\ \A i \in 1 .. l : back'[i] = back[i]
      <3>1. \A i \in 1 .. l : back[i] \in 0 .. 255
        <4>1. L \in Nat
          BY <1>3
        <4> HIDE DEF L
        <4> QED BY <2>2, <2>3, <4>1
      <3>2. l \in Nat /\ l <= Len(back)
        BY <1>3, <2>2
      <3> HIDE DEF L
      <3> QED BY <1>2, <2>2, <3>1, <3>2, SubSeqProperties, SMTT(30)
    <2>5. Whole(Len(sent)) => L = Len(sent)
      <3> SUFFICES ASSUME Whole(Len(sent)), Len(sent) < L PROVE FALSE
        BY <1>3, <1>7
      <3>1. Len(sent) + BlockSize <= L
        BY <1>2, <1>3, AtBlock
      <3> QED BY <1>2, <1>3, <3>1
    <2>6. blocks!PrefixSurvives'
      <3> SUFFICES ASSUME Whole(Len(sent)), Same
                   PROVE  back' = SubSeq(P, 1, Len(back')) /\ Len(back') >= Len(sent) - BlockSize
        BY <1>1, <2>1 DEF blocks!PrefixSurvives, Whole, Same, bytes, P
      <3>1. Len(back') >= Len(sent) - BlockSize
        BY <1>3, <2>2, <2>4, <2>5
      <3>2. l \in Nat /\ l <= Len(P) /\ \A i \in 1 .. l : back'[i] = P[i]
        BY <1>2, <1>3, <2>2, <2>4, <2>5
      <3>3. /\ SubSeq(P, 1, l) \in Seq(0 .. 255) /\ Len(SubSeq(P, 1, l)) = l
            /\ \A i \in 1 .. l : SubSeq(P, 1, l)[i] = P[i]
        <4>1. \A i \in 1 .. l : P[i] \in 0 .. 255
          <5> SUFFICES ASSUME NEW i \in 1 .. l PROVE P[i] \in 0 .. 255
            OBVIOUS
          <5>1. i \in 1 .. Len(P)
            BY <1>3, <3>2
          <5> QED BY <1>3, <5>1, ElementOfSeq
        <4> QED BY <1>3, <3>2, <4>1, SubSeqProperties, SMTT(30)
      <3>4. back' = SubSeq(P, 1, l)
        BY <2>4, <3>2, <3>3, SeqEqual
      <3> QED BY <2>4, <3>1, <3>4
    <2>7. blocks!RoundTrip'
      <3> SUFFICES ASSUME ~local2, bytes = schedule PROVE back' = text
        BY <1>1, <2>1 DEF blocks!RoundTrip, bytes
      <3>1. Same /\ Len(sent) = Len(P)
        BY <1>3 DEF Same
      <3>2. L = Len(P) /\ \A p \in 1 .. L : back[p] = P[p]
        BY <1>2, <1>3, <2>5, <3>1
      <3>3. back = P
        BY <1>2, <1>3, <3>2, SeqEqual
      <3>4. text \in Seq(0 .. 255)
        BY <1>1, TextAssumption
      <3> QED BY <1>2, <2>1, <3>3, <3>4, Unpadding DEF P
    <2>8. blocks!OverrunOnlyByEdit'
      <3>1. Len(back') <= Len(sent') + BlockSize
        BY <1>1, <1>2, <1>3, <2>2, <2>4
      <3> QED BY <1>1, <1>2, <2>1, <3>1 DEF blocks!OverrunOnlyByEdit, Whole
    <2>9. blocks!TypeOK'
      BY <1>1, <2>1 DEF blocks!TypeOK, bytes
    <2>10. blocks!Enciphering' /\ blocks!Deciphering'
      BY <1>1, <2>1 DEF blocks!Enciphering, blocks!Deciphering
    <2> QED BY <1>5, <2>6, <2>7, <2>8, <2>9, <2>10 DEF blocks!Inv
  <1> QED BY <1>6, <1>7

----------------------------------------------------------------------------
(*                        The classes around OpenSSL                       *)

\* static_cast<int>() never makes a length longer, keeps those an int has, and takes
\* no other to one that is not negative than modulo its range.
LEMMA AsIntBounds ==
    ASSUME NEW n \in Nat
    PROVE  /\ ssl!AsInt(n) \in -IntLimit .. IntLimit - 1
           /\ ssl!AsInt(n) <= n
           /\ n < IntLimit => ssl!AsInt(n) = n
           /\ ssl!AsInt(n) >= 0 => ssl!AsInt(n) = n % (2 * IntLimit)
  <1> DEFINE m == 2 * IntLimit
             q == (n + IntLimit) \div m
             r == (n + IntLimit) % m
  <1>1. m \in Nat \ {0} /\ IntLimit \in Nat \ {0}
    BY SSLAssumption
  <1>2. r \in 0 .. m - 1 /\ q \in Int /\ n + IntLimit = m * q + r
    <2> DEFINE a == n + IntLimit
    <2>1. a \in Int
      BY <1>1
    <2> HIDE DEF m, a
    <2>2. a % m \in 0 .. m - 1 /\ a \div m \in Int /\ a = m * (a \div m) + (a % m)
      BY <1>1, <2>1, ModDef
    <2> QED BY <2>2 DEF a
  <1>3. ssl!AsInt(n) = r - IntLimit /\ m = 2 * IntLimit
    BY DEF ssl!AsInt
  <1> HIDE DEF q, r, m
  <1>4. q >= 0
    <2> SUFFICES ASSUME q <= -1 PROVE FALSE
      BY <1>2
    <2>1. m * q <= -m
      BY <1>1, <1>2, SMTT(20)
    <2> QED BY <1>1, <1>2, <2>1, <1>3
  <1>5. m * q >= 0
    BY <1>1, <1>2, <1>4
  <1>6. n < IntLimit => ssl!AsInt(n) = n
    <2> SUFFICES ASSUME n < IntLimit PROVE r = n + IntLimit
      BY <1>1, <1>2, <1>3
    <2> QED BY <1>1, <1>3, ModUnique, n + IntLimit = m * 0 + (n + IntLimit), r = (n + IntLimit) % m DEF r
  <1>7. ssl!AsInt(n) >= 0 => ssl!AsInt(n) = n % m
    <2> SUFFICES ASSUME r >= IntLimit PROVE n % m = r - IntLimit
      BY <1>1, <1>2, <1>3
    <2>1. n = m * q + (r - IntLimit) /\ r - IntLimit \in 0 .. m - 1
      BY <1>1, <1>2, <1>3
    <2> DEFINE x == r - IntLimit
    <2>2. n = m * q + x /\ x \in 0 .. m - 1
      BY <2>1
    <2> HIDE DEF x
    <2>3. n % m = x
      BY <1>1, <1>2, <2>2, ModUnique
    <2> QED BY <2>3 DEF x
  <1> QED BY <1>1, <1>2, <1>3, <1>5, <1>6, <1>7 DEF m

\* The library calls of the function that runs: how many there are,
LEMMA CallsOfClass ==
    ASSUME key \in SSLObjects
    PROVE  /\ key.class \in {"AESCBC", "DES", "RSA"}
           /\ key.class # "RSA" => Len(ssl!Calls) = 4
           /\ key.class = "RSA" /\ phase = "generateKeyPair" => Len(ssl!Calls) = 7
           /\ key.class = "RSA" /\ phase # "generateKeyPair" => Len(ssl!Calls) = 5
  <1>1. CASE key.class # "RSA"
    <2>1. ssl!Calls = << "ctx_new", "init", "update", "final" >>
      BY <1>1 DEF ssl!Calls
    <2> QED BY <1>1, <2>1, SSLAssumption
  <1>2. CASE key.class = "RSA" /\ phase = "generateKeyPair"
    <2>1. ssl!Calls = << "ctx_new", "init", "bits", "keygen", "bios", "write_public", "write_private" >>
      BY <1>2 DEF ssl!Calls
    <2> QED BY <1>2, <2>1, SSLAssumption
  <1>3. CASE key.class = "RSA" /\ phase # "generateKeyPair"
    <2>1. ssl!Calls = << "load", "ctx_new", "init", "query", "crypt" >>
      BY <1>3 DEF ssl!Calls
    <2> QED BY <1>3, <2>1, SSLAssumption
  <1> QED BY <1>1, <1>2, <1>3

\* and which one is next.
LEMMA CallNow ==
    ASSUME key \in SSLObjects, local2 \in 1 .. Len(ssl!Calls)
    PROVE  /\ key.class # "RSA" =>
                 \/ local2 = 1 /\ ssl!Call = "ctx_new" /\ local2 < Len(ssl!Calls)
                 \/ local2 = 2 /\ ssl!Call = "init" /\ local2 < Len(ssl!Calls)
                 \/ local2 = 3 /\ ssl!Call = "update" /\ local2 < Len(ssl!Calls)
                 \/ local2 = 4 /\ ssl!Call = "final" /\ local2 = Len(ssl!Calls)
           /\ key.class = "RSA" /\ phase = "generateKeyPair" =>
                 \/ local2 = 1 /\ ssl!Call = "ctx_new" /\ local2 < Len(ssl!Calls)
                 \/ local2 = 2 /\ ssl!Call = "init" /\ local2 < Len(ssl!Calls)
                 \/ local2 = 3 /\ ssl!Call = "bits" /\ local2 < Len(ssl!Calls)
                 \/ local2 = 4 /\ ssl!Call = "keygen" /\ local2 < Len(ssl!Calls)
                 \/ local2 = 5 /\ ssl!Call = "bios" /\ local2 < Len(ssl!Calls)
                 \/ local2 = 6 /\ ssl!Call = "write_public" /\ local2 < Len(ssl!Calls)
                 \/ local2 = 7 /\ ssl!Call = "write_private" /\ local2 = Len(ssl!Calls)
           /\ key.class = "RSA" /\ phase # "generateKeyPair" =>
                 \/ local2 = 1 /\ ssl!Call = "load" /\ local2 < Len(ssl!Calls)
                 \/ local2 = 2 /\ ssl!Call = "ctx_new" /\ local2 < Len(ssl!Calls)
                 \/ local2 = 3 /\ ssl!Call = "init" /\ local2 < Len(ssl!Calls)
                 \/ local2 = 4 /\ ssl!Call = "query" /\ local2 < Len(ssl!Calls)
                 \/ local2 = 5 /\ ssl!Call = "crypt" /\ local2 = Len(ssl!Calls)
  <1>1. CASE key.class # "RSA"
    <2>1. ssl!Calls = << "ctx_new", "init", "update", "final" >>
      BY <1>1 DEF ssl!Calls
    <2>2. Len(ssl!Calls) = 4
      BY <2>1
    <2>3. local2 = 1 \/ local2 = 2 \/ local2 = 3 \/ local2 = 4
      BY <2>2
    <2> QED BY <1>1, <2>1, <2>2, <2>3 DEF ssl!Call
  <1>2. CASE key.class = "RSA" /\ phase = "generateKeyPair"
    <2>1. ssl!Calls = << "ctx_new", "init", "bits", "keygen", "bios", "write_public", "write_private" >>
      BY <1>2 DEF ssl!Calls
    <2>2. Len(ssl!Calls) = 7
      BY <2>1
    <2>3. local2 = 1 \/ local2 = 2 \/ local2 = 3 \/ local2 = 4 \/ local2 = 5 \/ local2 = 6 \/ local2 = 7
      BY <2>2
    <2> QED BY <1>2, <2>1, <2>2, <2>3 DEF ssl!Call
  <1>3. CASE key.class = "RSA" /\ phase # "generateKeyPair"
    <2>1. ssl!Calls = << "load", "ctx_new", "init", "query", "crypt" >>
      BY <1>3 DEF ssl!Calls
    <2>2. Len(ssl!Calls) = 5
      BY <2>1
    <2>3. local2 = 1 \/ local2 = 2 \/ local2 = 3 \/ local2 = 4 \/ local2 = 5
      BY <2>2
    <2> QED BY <1>3, <2>1, <2>2, <2>3 DEF ssl!Call
  <1> QED BY <1>1, <1>2, <1>3

\* What a call holds, class by class.
LEMMA HoldsNow ==
    ASSUME local2 \in Nat \ {0}
    PROVE  /\ key.class # "RSA" => ssl!Holds = IF local2 = 1 THEN {} ELSE {"ctx"}
           /\ key.class = "RSA" /\ phase = "generateKeyPair" =>
                 ssl!Holds = IF local2 = 1 THEN {} ELSE IF local2 < 5 THEN {"ctx"}
                             ELSE IF local2 = 5 THEN {"pkey"} ELSE {"pkey", "pub_bio", "priv_bio"}
           /\ key.class = "RSA" /\ phase # "generateKeyPair" =>
                 ssl!Holds = IF local2 = 1 THEN {} ELSE IF local2 = 2 THEN {"pkey"} ELSE {"ctx", "pkey"}
  <1>1. CASE local2 = 1
    BY <1>1 DEF ssl!Holds
  <1>2. CASE local2 > 1
    BY <1>2 DEF ssl!Holds
  <1> QED BY <1>1, <1>2

\* An object that nobody has called.
LEMMA SSLStarts == ssl!Init => ssl!Inv
  <1> SUFFICES ASSUME ssl!Init PROVE ssl!Inv
    OBVIOUS
  <1>1. key \in SSLObjects /\ text \in SSLTexts /\ local2 = 0 /\ phase = "none" /\ local3 = {}
        /\ schedule = [key |-> 0, iv |-> 0] /\ local1 = 1 /\ sent = ssl!NoCipher /\ local5 = "none"
    BY DEF ssl!Init
  <1>2. Len(ssl!Calls) \in Nat
    BY <1>1, CallsOfClass
  <1>3. ssl!LeftBehind /\ ssl!Lengths /\ ssl!RoundTrip
    BY <1>1 DEF ssl!LeftBehind, ssl!Lengths, ssl!RoundTrip
  <1> QED BY <1>1, <1>2, <1>3 DEF ssl!Inv, ssl!NoCipher, ssl!None

\* Lengths speaks of the object, the text and the ciphertext alone.
LEMMA LengthsKept ==
    ASSUME ssl!Inv, key' = key, text' = text, sent' = sent
    PROVE  ssl!Lengths'
  <1>1. ssl!blockSize' = ssl!blockSize /\ ssl!NoCipher' = ssl!NoCipher /\ ssl!Lengths
    BY DEF ssl!blockSize, ssl!NoCipher, ssl!Inv
  <1> QED BY <1>1 DEF ssl!Lengths

\* setKey() and setIV() change nothing that a call has made.
LEMMA SSLSetKey ==
    ASSUME ssl!Inv, NEW id \in 1 .. 2, NEW n, ssl!SetKey(id, n) \/ ssl!SetIV(id, n)
    PROVE  ssl!Inv'
  <1>1. /\ key' = key /\ text' = text /\ sent' = sent /\ back' = back /\ local1' = local1
        /\ local2 = 0 /\ local2' = 0 /\ local3' = {} /\ phase' \in {"setKey", "setIV"}
        /\ schedule' \in {schedule, [schedule EXCEPT !.key = id], [schedule EXCEPT !.iv = id]}
        /\ key.class # "RSA" /\ local5' \in {"returned", "refused"}
    BY DEF ssl!SetKey, ssl!SetIV
  <1>2. schedule \in [key : 0 .. 2, iv : 0 .. 2] /\ schedule' \in [key : 0 .. 2, iv : 0 .. 2]
    BY <1>1 DEF ssl!Inv
  <1>3. ssl!LeftBehind' /\ ssl!RoundTrip'
    BY <1>1 DEF ssl!LeftBehind, ssl!RoundTrip
  <1>4. (Len(ssl!Calls) \in Nat)'
    BY <1>1, CallsOfClass DEF ssl!Inv, ssl!Calls
  <1>5. (ssl!AsInt(text))' = ssl!AsInt(text) /\ ssl!NoCipher' = ssl!NoCipher
    BY <1>1 DEF ssl!AsInt, ssl!NoCipher
  <1> QED BY <1>1, <1>2, <1>3, <1>4, <1>5, LengthsKept DEF ssl!Inv

\* A call begins with nothing allocated and nothing written.
LEMMA SSLBegin ==
    ASSUME ssl!Inv, NEW f \in {"encrypt", "decrypt", "generateKeyPair"}, NEW k \in 0 .. 2,
           ssl!Begin(f, k)
    PROVE  ssl!Inv'
  <1>1. /\ key' = key /\ text' = text /\ sent' = sent /\ back' = back /\ schedule' = schedule
        /\ local1' = k /\ local2 = 0 /\ local2' \in {0, 1} /\ local3' = {} /\ local4' = 0 /\ phase' = f
        /\ local5' \in {"refused", "none"}
        /\ f = "generateKeyPair" => key.class = "RSA"
        /\ f = "decrypt" => sent # ssl!NoCipher
    BY Zenon DEF ssl!Begin
  <1>2. ssl!LeftBehind' /\ ssl!RoundTrip'
    BY <1>1 DEF ssl!LeftBehind, ssl!RoundTrip
  <1>3. (Len(ssl!Calls) \in Nat /\ 1 <= Len(ssl!Calls))'
    BY <1>1, CallsOfClass DEF ssl!Inv, ssl!Calls
  <1>4. (ssl!AsInt(text))' = ssl!AsInt(text) /\ ssl!NoCipher' = ssl!NoCipher
    BY <1>1 DEF ssl!AsInt, ssl!NoCipher
  <1>5. local2' = 1 => (ssl!Holds)' = {}
    BY DEF ssl!Holds
  <1> QED BY <1>1, <1>2, <1>3, <1>4, <1>5, LengthsKept DEF ssl!Inv

\* A library call that succeeds adds what it allocates, and writes no more than the buffer holds.
LEMMA SSLSucceed ==
    ASSUME ssl!Inv, ssl!Succeed
    PROVE  ssl!Inv'
  <1>1. /\ key' = key /\ text' = text /\ sent' = sent /\ back' = back /\ schedule' = schedule
        /\ local1' = local1 /\ local2 # 0 /\ local2' = local2 + 1 /\ phase' = phase /\ local5' = local5
        /\ local2 < Len(ssl!Calls) /\ local3' = ssl!HeldAfter(ssl!Call)
        /\ local4' = local4 + ssl!Written(ssl!Call) /\ ssl!Acceptable(ssl!Call)
    BY DEF ssl!Succeed
  <1>2. local2 \in 1 .. Len(ssl!Calls) /\ local2 \in Nat /\ local2' # 0 /\ key \in SSLObjects
        /\ local3 = ssl!Holds
    BY <1>1, CallsOfClass DEF ssl!Inv
  <1>3. ssl!LeftBehind' /\ ssl!RoundTrip'
    BY <1>2 DEF ssl!LeftBehind, ssl!RoundTrip
  <1>4. ssl!Calls' = ssl!Calls
    BY <1>1 DEF ssl!Calls
  <1>5. local2' \in 0 .. Len(ssl!Calls)
    BY <1>1, <1>2, CallsOfClass
  <1>6. /\ key.class # "RSA" => ssl!Holds' = IF local2' = 1 THEN {} ELSE {"ctx"}
        /\ key.class = "RSA" /\ phase = "generateKeyPair" =>
                ssl!Holds' = IF local2' = 1 THEN {} ELSE IF local2' < 5 THEN {"ctx"}
                             ELSE IF local2' = 5 THEN {"pkey"} ELSE {"pkey", "pub_bio", "priv_bio"}
        /\ key.class = "RSA" /\ phase # "generateKeyPair" =>
                ssl!Holds' = IF local2' = 1 THEN {} ELSE IF local2' = 2 THEN {"pkey"} ELSE {"ctx", "pkey"}
    <2>1. (local2 \in Nat \ {0})'
      BY <1>1, <1>2
    <2>2. CASE local2' = 1
      BY <1>1, <2>2 DEF ssl!Holds
    <2>3. CASE local2' > 1
      BY <1>1, <2>3 DEF ssl!Holds
    <2> QED BY <2>1, <2>2, <2>3
  <1>7. local3' = ssl!Holds'
    <2>1. CASE key.class # "RSA"
      <3>1. CASE local2 = 1
        <4>1. ssl!Call = "ctx_new" /\ local2' = 2
          BY <1>1, <1>2, <2>1, <3>1, CallNow
        <4>2. local3 = {}
          BY <1>2, <2>1, <3>1, HoldsNow
        <4>3. local3' = {"ctx"}
          BY <1>1, <4>1, <4>2 DEF ssl!HeldAfter
        <4>4. ssl!Holds' = {"ctx"}
          BY <1>6, <2>1, <4>1
        <4> QED BY <4>3, <4>4
      <3>2. CASE local2 = 2
        <4>1. ssl!Call = "init" /\ local2' = 3
          BY <1>1, <1>2, <2>1, <3>2, CallNow
        <4>2. local3 = {"ctx"}
          BY <1>2, <2>1, <3>2, HoldsNow
        <4>3. local3' = {"ctx"}
          BY <1>1, <4>1, <4>2 DEF ssl!HeldAfter
        <4>4. ssl!Holds' = {"ctx"}
          BY <1>6, <2>1, <4>1
        <4> QED BY <4>3, <4>4
      <3>3. CASE local2 = 3
        <4>1. ssl!Call = "update" /\ local2' = 4
          BY <1>1, <1>2, <2>1, <3>3, CallNow
        <4>2. local3 = {"ctx"}
          BY <1>2, <2>1, <3>3, HoldsNow
        <4>3. local3' = {"ctx"}
          BY <1>1, <4>1, <4>2 DEF ssl!HeldAfter
        <4>4. ssl!Holds' = {"ctx"}
          BY <1>6, <2>1, <4>1
        <4> QED BY <4>3, <4>4
      <3>4. Len(ssl!Calls) = 4
        BY <1>2, <2>1, CallsOfClass
      <3>5. local2 \in 1 .. 3
        BY <1>1, <1>2, <3>4
      <3> QED BY <3>1, <3>2, <3>3, <3>5
    <2>2. CASE key.class = "RSA" /\ phase = "generateKeyPair"
      <3>1. CASE local2 = 1
        <4>1. ssl!Call = "ctx_new" /\ local2' = 2
          BY <1>1, <1>2, <2>2, <3>1, CallNow
        <4>2. local3 = {}
          BY <1>2, <2>2, <3>1, HoldsNow
        <4>3. local3' = {"ctx"}
          BY <1>1, <4>1, <4>2 DEF ssl!HeldAfter
        <4>4. ssl!Holds' = {"ctx"}
          BY <1>6, <2>2, <4>1
        <4> QED BY <4>3, <4>4
      <3>2. CASE local2 = 2
        <4>1. ssl!Call = "init" /\ local2' = 3
          BY <1>1, <1>2, <2>2, <3>2, CallNow
        <4>2. local3 = {"ctx"}
          BY <1>2, <2>2, <3>2, HoldsNow
        <4>3. local3' = {"ctx"}
          BY <1>1, <4>1, <4>2 DEF ssl!HeldAfter
        <4>4. ssl!Holds' = {"ctx"}
          BY <1>6, <2>2, <4>1
        <4> QED BY <4>3, <4>4
      <3>3. CASE local2 = 3
        <4>1. ssl!Call = "bits" /\ local2' = 4
          BY <1>1, <1>2, <2>2, <3>3, CallNow
        <4>2. local3 = {"ctx"}
          BY <1>2, <2>2, <3>3, HoldsNow
        <4>3. local3' = {"ctx"}
          BY <1>1, <4>1, <4>2 DEF ssl!HeldAfter
        <4>4. ssl!Holds' = {"ctx"}
          BY <1>6, <2>2, <4>1
        <4> QED BY <4>3, <4>4
      <3>4. CASE local2 = 4
        <4>1. ssl!Call = "keygen" /\ local2' = 5
          BY <1>1, <1>2, <2>2, <3>4, CallNow
        <4>2. local3 = {"ctx"}
          BY <1>2, <2>2, <3>4, HoldsNow
        <4>3. local3' = {"pkey"}
          BY <1>1, <4>1, <4>2 DEF ssl!HeldAfter
        <4>4. ssl!Holds' = {"pkey"}
          BY <1>6, <2>2, <4>1
        <4> QED BY <4>3, <4>4
      <3>5. CASE local2 = 5
        <4>1. ssl!Call = "bios" /\ local2' = 6
          BY <1>1, <1>2, <2>2, <3>5, CallNow
        <4>2. local3 = {"pkey"}
          BY <1>2, <2>2, <3>5, HoldsNow
        <4>3. local3' = {"pkey", "pub_bio", "priv_bio"}
          BY <1>1, <4>1, <4>2 DEF ssl!HeldAfter
        <4>4. ssl!Holds' = {"pkey", "pub_bio", "priv_bio"}
          BY <1>6, <2>2, <4>1
        <4> QED BY <4>3, <4>4
      <3>6. CASE local2 = 6
        <4>1. ssl!Call = "write_public" /\ local2' = 7
          BY <1>1, <1>2, <2>2, <3>6, CallNow
        <4>2. local3 = {"pkey", "pub_bio", "priv_bio"}
          BY <1>2, <2>2, <3>6, HoldsNow
        <4>3. local3' = {"pkey", "pub_bio", "priv_bio"}
          BY <1>1, <4>1, <4>2 DEF ssl!HeldAfter
        <4>4. ssl!Holds' = {"pkey", "pub_bio", "priv_bio"}
          BY <1>6, <2>2, <4>1
        <4> QED BY <4>3, <4>4
      <3>7. Len(ssl!Calls) = 7
        BY <1>2, <2>2, CallsOfClass
      <3>8. local2 \in 1 .. 6
        BY <1>1, <1>2, <3>7
      <3> QED BY <3>1, <3>2, <3>3, <3>4, <3>5, <3>6, <3>8
    <2>3. CASE key.class = "RSA" /\ phase # "generateKeyPair"
      <3>1. CASE local2 = 1
        <4>1. ssl!Call = "load" /\ local2' = 2
          BY <1>1, <1>2, <2>3, <3>1, CallNow
        <4>2. local3 = {}
          BY <1>2, <2>3, <3>1, HoldsNow
        <4>3. local3' = {"pkey"}
          BY <1>1, <4>1, <4>2 DEF ssl!HeldAfter
        <4>4. ssl!Holds' = {"pkey"}
          BY <1>6, <2>3, <4>1
        <4> QED BY <4>3, <4>4
      <3>2. CASE local2 = 2
        <4>1. ssl!Call = "ctx_new" /\ local2' = 3
          BY <1>1, <1>2, <2>3, <3>2, CallNow
        <4>2. local3 = {"pkey"}
          BY <1>2, <2>3, <3>2, HoldsNow
        <4>3. local3' = {"ctx", "pkey"}
          BY <1>1, <4>1, <4>2 DEF ssl!HeldAfter
        <4>4. ssl!Holds' = {"ctx", "pkey"}
          BY <1>6, <2>3, <4>1
        <4> QED BY <4>3, <4>4
      <3>3. CASE local2 = 3
        <4>1. ssl!Call = "init" /\ local2' = 4
          BY <1>1, <1>2, <2>3, <3>3, CallNow
        <4>2. local3 = {"ctx", "pkey"}
          BY <1>2, <2>3, <3>3, HoldsNow
        <4>3. local3' = {"ctx", "pkey"}
          BY <1>1, <4>1, <4>2 DEF ssl!HeldAfter
        <4>4. ssl!Holds' = {"ctx", "pkey"}
          BY <1>6, <2>3, <4>1
        <4> QED BY <4>3, <4>4
      <3>4. CASE local2 = 4
        <4>1. ssl!Call = "query" /\ local2' = 5
          BY <1>1, <1>2, <2>3, <3>4, CallNow
        <4>2. local3 = {"ctx", "pkey"}
          BY <1>2, <2>3, <3>4, HoldsNow
        <4>3. local3' = {"ctx", "pkey"}
          BY <1>1, <4>1, <4>2 DEF ssl!HeldAfter
        <4>4. ssl!Holds' = {"ctx", "pkey"}
          BY <1>6, <2>3, <4>1
        <4> QED BY <4>3, <4>4
      <3>5. Len(ssl!Calls) = 5
        BY <1>2, <2>3, CallsOfClass
      <3>6. local2 \in 1 .. 4
        BY <1>1, <1>2, <3>5
      <3> QED BY <3>1, <3>2, <3>3, <3>4, <3>6
    <2> QED BY <2>1, <2>2, <2>3
  <1>8. /\ (ssl!AsInt(text))' = ssl!AsInt(text) /\ ssl!NoCipher' = ssl!NoCipher
        /\ ssl!AsInt(ssl!Input)' = ssl!AsInt(ssl!Input) /\ ssl!blockSize' = ssl!blockSize
    BY <1>1 DEF ssl!AsInt, ssl!NoCipher, ssl!Input, ssl!blockSize
  <1>9. CASE key.class # "RSA" /\ local2 = 3
    <2>1. ssl!Call = "update" /\ local2' = 4 /\ local4 = 0 /\ ssl!AsInt(ssl!Input) >= 0
      BY <1>1, <1>2, <1>9, CallNow DEF ssl!Inv, ssl!Acceptable
    <2>2. phase \in {"encrypt", "decrypt"}
      BY <1>1, <1>9 DEF ssl!Inv
    <2>3. local4' = LET n == ssl!AsInt(ssl!Input)
                    IN  n - (n % ssl!blockSize)
                          - (IF phase = "decrypt" /\ n % ssl!blockSize = 0 /\ n > 0 THEN ssl!blockSize ELSE 0)
      <3>1. ssl!AsInt(ssl!Input) \in Int /\ ssl!blockSize \in {8, 16}
        <4>1. ssl!Input \in Nat
          BY <2>2, SSLAssumption DEF ssl!Inv, ssl!Input
        <4> QED BY <4>1, AsIntBounds, SSLAssumption DEF ssl!blockSize
      <3> DEFINE n == ssl!AsInt(ssl!Input)
                 b == ssl!blockSize
      <3>2. n \in Int /\ b \in {8, 16}
        BY <3>1
      <3>3. local4' = 0 + ssl!Written("update") /\ phase \in {"encrypt", "decrypt"}
        BY <1>1, <2>1, <2>2
      <3>4. ssl!Written("update") = IF phase = "encrypt" THEN n - (n % b)
                                    ELSE n - (n % b) - (IF n % b = 0 /\ n > 0 THEN b ELSE 0)
        BY <2>2 DEF ssl!Written
      <3> HIDE DEF n, b
      <3>5. local4' = n - (n % b) - (IF phase = "decrypt" /\ n % b = 0 /\ n > 0 THEN b ELSE 0)
        BY <3>2, <3>3, <3>4
      <3> QED BY <3>5 DEF n, b
    <2> QED BY <1>1, <1>2, <1>3, <1>4, <1>5, <1>7, <1>8, <1>9, <2>1, <2>3, LengthsKept DEF ssl!Inv
  <1>10. CASE ~(key.class # "RSA" /\ local2 = 3)
    <2>1. local4 = 0 /\ ~(key.class # "RSA" /\ local2' = 4) /\ ~(key.class # "RSA" /\ local2 = 4)
      BY <1>1, <1>2, <1>10, CallNow DEF ssl!Inv
    <2>2. ssl!Call \notin {"update", "final", "crypt"}
      BY <1>1, <1>2, <1>10, CallNow
    <2>3. local4' = 0
      BY <1>1, <2>1, <2>2 DEF ssl!Written
    <2> QED BY <1>1, <1>2, <1>3, <1>4, <1>5, <1>7, <1>8, <2>1, <2>3, LengthsKept DEF ssl!Inv
  <1> QED BY <1>9, <1>10

\* A call that returns has freed what it held, and its result is what the cipher gives.
LEMMA SSLReturn ==
    ASSUME ssl!Inv, ssl!Return
    PROVE  ssl!Inv'
  <1> DEFINE inUse == IF key.class = "RSA" THEN [key |-> local1, iv |-> 0] ELSE schedule
  <1>1. /\ key' = key /\ text' = text /\ phase' = phase /\ local1' = local1 /\ local4' = local4
        /\ local2 # 0 /\ local2 = Len(ssl!Calls) /\ local2' = 0 /\ local5' = "returned"
        /\ local3' = ssl!HeldAfter(ssl!Call) \ ssl!FreedAtEnd /\ ssl!Acceptable(ssl!Call)
        /\ schedule' = IF phase = "generateKeyPair" THEN [schedule EXCEPT !.key = 1] ELSE schedule
        /\ sent' = IF phase # "encrypt" THEN sent
                   ELSE [keys |-> inUse, len |-> local4 + ssl!Written(ssl!Call),
                         taken |-> IF key.class = "RSA" THEN text ELSE ssl!AsInt(text)]
        /\ phase = "decrypt" => back' = IF sent.keys = inUse THEN sent.taken ELSE ssl!Garbage
    BY DEF ssl!Return
  <1>2. key \in SSLObjects /\ local2 \in 1 .. Len(ssl!Calls) /\ local3 = ssl!Holds
        /\ phase \in {"encrypt", "decrypt", "generateKeyPair"}
        /\ (phase = "generateKeyPair" => key.class = "RSA") /\ local1 \in 0 .. 2
        /\ schedule \in [key : 0 .. 2, iv : 0 .. 2] /\ text \in Nat
        /\ sent \in [keys : [key : 0 .. 2, iv : 0 .. 2], taken : Int, len : Nat]
    BY <1>1, CallsOfClass, SSLAssumption DEF ssl!Inv
  <1>3. local3' = {}
    <2>1. CASE key.class # "RSA"
      <3>1. ssl!Call = "final"
        BY <1>1, <1>2, <2>1, CallNow
      <3>2. local2 = 4
        BY <1>1, <1>2, <2>1, CallsOfClass, Zenon
      <3>3. local3 = {"ctx"}
        BY <1>2, <2>1, <3>2, HoldsNow
      <3> QED BY <1>1, <2>1, <3>1, <3>3 DEF ssl!HeldAfter, ssl!FreedAtEnd
    <2>2. CASE key.class = "RSA" /\ phase = "generateKeyPair"
      <3>1. ssl!Call = "write_private"
        BY <1>1, <1>2, <2>2, CallNow
      <3>2. local2 = 7
        BY <1>1, <1>2, <2>2, CallsOfClass, Zenon
      <3>3. local3 = {"pkey", "pub_bio", "priv_bio"}
        BY <1>2, <2>2, <3>2, HoldsNow
      <3> QED BY <1>1, <2>2, <3>1, <3>3 DEF ssl!HeldAfter, ssl!FreedAtEnd
    <2>3. CASE key.class = "RSA" /\ phase # "generateKeyPair"
      <3>1. ssl!Call = "crypt"
        BY <1>1, <1>2, <2>3, CallNow
      <3>2. local2 = 5
        BY <1>1, <1>2, <2>3, CallsOfClass, Zenon
      <3>3. local3 = {"ctx", "pkey"}
        BY <1>2, <2>3, <3>2, HoldsNow
      <3> QED BY <1>1, <2>3, <3>1, <3>3 DEF ssl!HeldAfter, ssl!FreedAtEnd
    <2> QED BY <2>1, <2>2, <2>3
  <1>4. ssl!LeftBehind'
    BY <1>1, <1>2, <1>3 DEF ssl!LeftBehind
  <1>5. inUse \in [key : 0 .. 2, iv : 0 .. 2] /\ schedule' \in [key : 0 .. 2, iv : 0 .. 2]
        /\ (key.class = "RSA" => inUse.iv = 0 /\ schedule'.iv = 0)
    BY <1>1, <1>2 DEF ssl!Inv
  <1>6. (ssl!AsInt(text))' = ssl!AsInt(text) /\ ssl!NoCipher' = ssl!NoCipher /\ ssl!Calls' = ssl!Calls
    BY <1>1 DEF ssl!AsInt, ssl!NoCipher, ssl!Calls
  <1>7. CASE phase = "encrypt"
    <2> DEFINE taken == IF key.class = "RSA" THEN text ELSE ssl!AsInt(text)
               len == local4 + ssl!Written(ssl!Call)
    <2>1. ASSUME key.class # "RSA"
          PROVE  /\ taken \in 0 .. 2 * IntLimit - 1 /\ len \in Nat
                 /\ taken = text % (2 * IntLimit) /\ taken < IntLimit
                 /\ len = taken - (taken % ssl!blockSize) + ssl!blockSize
      <3>1. ssl!Call = "final" /\ ssl!AsInt(text) >= 0 /\ ssl!blockSize \in {8, 16}
            /\ local4 = ssl!AsInt(text) - (ssl!AsInt(text) % ssl!blockSize)
        <4>1. ssl!Call = "final" /\ local2 = 4
          BY <1>1, <1>2, <1>7, <2>1, CallNow
        <4>2. ssl!Input = text /\ ssl!blockSize \in {8, 16}
          BY <1>7 DEF ssl!Input, ssl!blockSize
        <4> DEFINE n == ssl!AsInt(text)
                   b == ssl!blockSize
        <4>3. n \in Int /\ b \in {8, 16}
          BY <1>2, <4>2, AsIntBounds, SSLAssumption
        <4>4. n >= 0 /\ local4 = n - (n % b) - 0
          BY <1>1, <1>7, <2>1, <4>1, <4>2 DEF ssl!Inv
        <4> HIDE DEF n, b
        <4>5. n >= 0 /\ local4 = n - (n % b)
          BY <4>3, <4>4
        <4> QED BY <4>1, <4>2, <4>5 DEF n, b
      <3>2. ssl!AsInt(text) \in 0 .. IntLimit - 1
        BY <1>2, <3>1, AsIntBounds, SSLAssumption
      <3>3. len = local4 + ssl!blockSize
        BY <1>7, <3>1 DEF ssl!Written
      <3>4. len \in Nat
        BY <3>1, <3>2, <3>3, SSLAssumption
      <3>5. taken = ssl!AsInt(text) /\ taken = text % (2 * IntLimit)
            /\ len = taken - (taken % ssl!blockSize) + ssl!blockSize
        BY <1>2, <2>1, <3>1, <3>3, AsIntBounds
      <3> HIDE DEF taken, len
      <3>6. taken \in 0 .. IntLimit - 1 /\ IntLimit \in Nat
        BY <3>2, <3>5, SSLAssumption
      <3>7. taken \in 0 .. 2 * IntLimit - 1
        BY <3>6
      <3> QED BY <3>4, <3>5, <3>6, <3>7
    <2>2. /\ taken \in 0 .. 2 * IntLimit - 1 /\ len \in Nat
          /\ key.class = "RSA" => len = key.size \div 8 /\ text <= len - 66
      <3> HIDE DEF taken, len
      <3>1. key.class = "RSA" => /\ taken \in 0 .. 2 * IntLimit - 1 /\ len \in Nat
                                 /\ len = key.size \div 8 /\ text <= len - 66
        <4>1. CASE key.class = "RSA"
          <5>1. ssl!Call = "crypt" /\ local4 = 0
            BY <1>1, <1>2, <1>7, <4>1, CallNow DEF ssl!Inv
          <5>2. text <= (key.size \div 8) - 66 /\ len = 0 + (key.size \div 8)
            BY <1>1, <1>7, <5>1 DEF ssl!Acceptable, ssl!Written, len
          <5>3. key.size \div 8 <= 2 * IntLimit /\ key.size \div 8 \in Nat /\ IntLimit \in Nat
            BY <1>2, <4>1, SSLAssumption
          <5> QED BY <1>2, <4>1, <5>2, <5>3 DEF taken
        <4> QED BY <4>1
      <3> QED BY <2>1, <3>1
    <2>3. sent' = [keys |-> inUse, len |-> len, taken |-> taken]
      BY <1>1, <1>7
    <2>4. phase' # "decrypt"
      BY <1>1, <1>7
    <2> HIDE DEF taken, len, inUse
    <2>5. sent' \in [keys : [key : 0 .. 2, iv : 0 .. 2], taken : Int, len : Nat]
          /\ sent'.taken = taken /\ sent'.keys = inUse /\ sent'.len = len
      BY <1>5, <2>2, <2>3
    <2>6. ssl!RoundTrip'
      BY <2>4 DEF ssl!RoundTrip
    <2>7. ssl!Lengths'
      <3>1. ssl!blockSize' = ssl!blockSize
        BY <1>1 DEF ssl!blockSize
      <3>2. CASE key.class = "RSA"
        BY <1>1, <2>2, <2>5, <3>2 DEF ssl!Lengths, taken
      <3>3. CASE key.class # "RSA"
        BY <1>1, <2>1, <2>5, <3>1, <3>3 DEF ssl!Lengths
      <3> QED BY <3>2, <3>3
    <2> QED BY <1>1, <1>2, <1>4, <1>5, <1>6, <2>2, <2>5, <2>6, <2>7, CallsOfClass DEF ssl!Inv, taken
  <1>8. CASE phase = "generateKeyPair"
    <2>1. sent' = sent /\ phase' # "decrypt"
      BY <1>1, <1>8
    <2>2. ssl!RoundTrip'
      BY <2>1 DEF ssl!RoundTrip
    <2> QED BY <1>1, <1>2, <1>4, <1>5, <1>6, <2>1, <2>2, CallsOfClass, LengthsKept DEF ssl!Inv
  <1>9. CASE phase = "decrypt"
    <2>1. sent' = sent /\ schedule' = schedule /\ sent # ssl!NoCipher
      BY <1>1, <1>9 DEF ssl!Inv
    <2>2. back' = IF sent.keys = inUse THEN sent.taken ELSE ssl!Garbage
      BY <1>1, <1>9
    <2>3. key.class = "RSA" => sent.keys = inUse
      <3> SUFFICES ASSUME key.class = "RSA" PROVE sent.keys = inUse
        OBVIOUS
      <3>1. ssl!Call = "crypt"
        BY <1>1, <1>2, <1>9, CallNow
      <3>2. local1 = sent.keys.key /\ sent.keys.iv = 0
        BY <1>1, <1>9, <2>1, <3>1 DEF ssl!Acceptable, ssl!Inv
      <3>3. sent.keys \in [key : 0 .. 2, iv : 0 .. 2]
        BY <1>2
      <3> QED BY <3>2, <3>3
    <2>4. sent.taken \in 0 .. 2 * IntLimit - 1
          /\ sent.taken = (IF key.class = "RSA" THEN text ELSE ssl!AsInt(text))
      BY <2>1 DEF ssl!Inv
    <2>5. sent.keys = inUse => back' = sent.taken /\ back' % (2 * IntLimit) = text % (2 * IntLimit)
                               /\ back' = text % (2 * IntLimit)
      <3> SUFFICES ASSUME sent.keys = inUse
                   PROVE  back' = sent.taken /\ back' = text % (2 * IntLimit)
                          /\ back' % (2 * IntLimit) = text % (2 * IntLimit)
        OBVIOUS
      <3> DEFINE m == 2 * IntLimit
      <3>1. m \in Nat \ {0} /\ sent.taken \in 0 .. m - 1
        BY <2>4, SSLAssumption
      <3>2. sent.taken = text % m
        <4>1. CASE key.class = "RSA"
          <5>1. sent.taken = text
            BY <2>4, <4>1
          <5> HIDE DEF m
          <5>2. text \in Int /\ text = m * 0 + text
            BY <1>2, <3>1
          <5> QED BY <3>1, <5>1, <5>2, ModUnique
        <4>2. CASE key.class # "RSA"
          BY <1>2, <2>4, <4>2, AsIntBounds
        <4> QED BY <4>1, <4>2
      <3> HIDE DEF m
      <3>3. sent.taken % m = sent.taken
        <4> DEFINE t == sent.taken
        <4>1. t \in 0 .. m - 1
          BY <3>1
        <4> HIDE DEF t
        <4>2. t = m * 0 + t
          BY <3>1, <4>1
        <4>3. t % m = t
          BY <3>1, <4>1, <4>2, ModUnique
        <4> QED BY <4>3 DEF t
      <3>4. back' = sent.taken
        BY <2>2
      <3>5. m = 2 * IntLimit
        BY DEF m
      <3> QED BY <3>2, <3>3, <3>4, <3>5
    <2>6. ssl!RoundTrip'
      <3>1. (key.class = "RSA" => back' = text)
        BY <2>2, <2>3, <2>4
      <3>2. sent.keys = schedule' /\ text < IntLimit => back' = text
        <4> SUFFICES ASSUME sent.keys = schedule', text < IntLimit, key.class # "RSA" PROVE back' = text
          BY <3>1
        <4>1. sent.keys = inUse
          BY <2>1
        <4> QED BY <1>2, <2>2, <2>4, <4>1, AsIntBounds
      <3>3. back' # ssl!Garbage => back' = text % (2 * IntLimit)
        BY <2>2, <2>5
      <3> QED BY <1>1, <2>1, <3>1, <3>2, <3>3 DEF ssl!RoundTrip, ssl!Garbage
    <2> HIDE DEF inUse
    <2> QED BY <1>1, <1>2, <1>4, <1>5, <1>6, <2>1, <2>6, CallsOfClass, LengthsKept DEF ssl!Inv
  <1> QED BY <1>2, <1>7, <1>8, <1>9

\* A call that throws leaves what the calls before the failing one have allocated.
LEMMA SSLThrow ==
    ASSUME ssl!Inv, ssl!Throw
    PROVE  ssl!Inv'
  <1>1. /\ key' = key /\ text' = text /\ sent' = sent /\ back' = back /\ schedule' = schedule
        /\ local1' = local1 /\ local2 # 0 /\ local2' = 0 /\ phase' = phase /\ local5' = ssl!Call
        /\ ssl!Call \notin {"query", "bios"}
    BY DEF ssl!Throw
  <1>2. PICK missing \in SUBSET {"pub_bio", "priv_bio"} :
           local3' = local3 \ (ssl!FreedOnThrow \cup missing)
    BY DEF ssl!Throw
  <1>3. key \in SSLObjects /\ local3 = ssl!Holds /\ (phase = "generateKeyPair" => key.class = "RSA")
        /\ local2 \in 1 .. Len(ssl!Calls) /\ local2 \in Nat \ {0}
    BY <1>1, CallsOfClass DEF ssl!Inv
  <1>4. ssl!LeftBehind'
    <2>1. CASE key.class = "DES"
      <3>1. local3 \subseteq {"ctx"} /\ ssl!FreedOnThrow = {"ctx"}
        BY <1>3, <2>1, HoldsNow DEF ssl!FreedOnThrow
      <3>2. local3' = {}
        BY <1>2, <3>1
      <3> QED BY <1>1, <2>1, <3>2 DEF ssl!LeftBehind
    <2>2. CASE key.class = "AESCBC"
      <3>1. local3' = IF local2 = 1 THEN {} ELSE {"ctx"}
        BY <1>2, <1>3, <2>2, HoldsNow DEF ssl!FreedOnThrow
      <3>2. /\ ssl!Call \in {"ctx_new", "init", "update", "final"}
            /\ ssl!Call = "ctx_new" <=> local2 = 1
        BY <1>3, <2>2, CallNow
      <3> QED BY <1>1, <2>2, <3>1, <3>2 DEF ssl!LeftBehind
    <2>3. CASE key.class = "RSA" /\ phase = "generateKeyPair"
      <3>1. local3 = IF local2 = 1 THEN {} ELSE IF local2 < 5 THEN {"ctx"}
                     ELSE IF local2 = 5 THEN {"pkey"} ELSE {"pkey", "pub_bio", "priv_bio"}
        BY <1>3, <2>3, HoldsNow
      <3>2. ssl!FreedOnThrow = {}
        BY <2>3 DEF ssl!FreedOnThrow
      <3>3. CASE local2 = 1 /\ ssl!Call = "ctx_new"
        BY <1>1, <1>2, <2>3, <3>1, <3>2, <3>3 DEF ssl!LeftBehind
      <3>4. CASE local2 \in 2 .. 4 /\ ssl!Call \in {"init", "bits", "keygen"}
        <4>1. local3' = {"ctx"}
          BY <1>2, <3>1, <3>2, <3>4
        <4> QED BY <1>1, <2>3, <3>4, <4>1 DEF ssl!LeftBehind
      <3>5. CASE local2 \in 6 .. 7 /\ ssl!Call \in {"write_public", "write_private"}
        <4>1. "pkey" \in local3' /\ "ctx" \notin local3'
          BY <1>2, <3>1, <3>2, <3>5
        <4> QED BY <1>1, <2>3, <3>5, <4>1 DEF ssl!LeftBehind
      <3> QED BY <1>1, <1>3, <2>3, <3>3, <3>4, <3>5, CallNow
    <2>4. CASE key.class = "RSA" /\ phase # "generateKeyPair"
      <3>1. local3' = IF local2 = 1 THEN {} ELSE IF local2 = 2 THEN {"pkey"} ELSE {"ctx", "pkey"}
        BY <1>2, <1>3, <2>4, HoldsNow DEF ssl!FreedOnThrow
      <3>2. \/ local2 = 1 /\ ssl!Call = "load"
            \/ local2 = 2 /\ ssl!Call = "ctx_new"
            \/ local2 \in {3, 5} /\ ssl!Call \in {"init", "crypt"}
        BY <1>1, <1>3, <2>4, CallNow
      <3> QED BY <1>1, <2>4, <3>1, <3>2 DEF ssl!LeftBehind
    <2> QED BY <1>3, <2>1, <2>2, <2>3, <2>4, CallsOfClass
  <1>5. ssl!RoundTrip'
    <2>1. ssl!Call # "returned"
      BY <1>1, <1>3, CallNow, CallsOfClass
    <2> QED BY <1>1, <2>1 DEF ssl!RoundTrip
  <1>6. (ssl!AsInt(text))' = ssl!AsInt(text) /\ ssl!NoCipher' = ssl!NoCipher /\ ssl!Calls' = ssl!Calls
    BY <1>1 DEF ssl!AsInt, ssl!NoCipher, ssl!Calls
  <1> QED BY <1>1, <1>3, <1>4, <1>5, <1>6, CallsOfClass, LengthsKept DEF ssl!Inv

\* While a call runs, what it has written and writes next fits.
LEMMA SSLFits == ssl!Inv => ssl!FitsBuffer
  <1> SUFFICES ASSUME ssl!Inv, local2 # 0, key.class # "RSA"
               PROVE  local4 + ssl!Written(ssl!Call)
                        <= (IF phase = "encrypt" THEN text + ssl!blockSize ELSE sent.len)
    BY DEF ssl!FitsBuffer
  <1> DEFINE n == ssl!AsInt(ssl!Input)
             b == ssl!blockSize
  <1>1. phase \in {"encrypt", "decrypt"} /\ text \in Nat /\ sent.len \in Nat /\ key \in SSLObjects
        /\ b \in {8, 16} /\ local2 \in 1 .. Len(ssl!Calls) /\ local2 \in 1 .. 4
    <2>1. phase \in {"encrypt", "decrypt"} /\ sent.len \in Nat /\ key \in SSLObjects /\ text \in SSLTexts
          /\ local2 \in 0 .. Len(ssl!Calls)
      BY DEF ssl!Inv
    <2>2. Len(ssl!Calls) = 4
      BY <2>1, CallsOfClass
    <2>3. b \in {8, 16}
      BY DEF ssl!blockSize
    <2> QED BY <2>1, <2>2, <2>3, SSLAssumption
  <1>2. ssl!Input = (IF phase = "encrypt" THEN text ELSE sent.len) /\ ssl!Input \in Nat
    BY <1>1 DEF ssl!Input
  <1>3. n \in Int /\ n <= ssl!Input
    BY <1>2, AsIntBounds, SSLAssumption
  <1>4. CASE local2 = 4
    <2>1. local4 = n - (n % b) - (IF phase = "decrypt" /\ n % b = 0 /\ n > 0 THEN b ELSE 0)
      BY <1>4 DEF ssl!Inv
    <2>2. ssl!Call = "final"
      BY <1>1, <1>4, CallNow
    <2>3. ssl!Written("final") = IF phase = "encrypt" THEN b ELSE 0
      BY <1>1 DEF ssl!Written
    <2> HIDE DEF n, b
    <2> QED BY <1>1, <1>2, <1>3, <2>1, <2>2, <2>3 DEF b
  <1>5. CASE local2 = 3
    <2>1. local4 = 0 /\ ssl!Call = "update"
      BY <1>1, <1>5, CallNow DEF ssl!Inv
    <2>2. ssl!Written("update") = IF phase = "encrypt" THEN n - (n % b)
                                  ELSE n - (n % b) - (IF n % b = 0 /\ n > 0 THEN b ELSE 0)
      BY <1>1 DEF ssl!Written
    <2> HIDE DEF n, b
    <2> QED BY <1>1, <1>2, <1>3, <2>1, <2>2 DEF b
  <1>6. CASE local2 \in 1 .. 2
    <2>1. local4 = 0 /\ ssl!Call \in {"ctx_new", "init"}
      BY <1>1, <1>6, CallNow DEF ssl!Inv
    <2>2. ssl!Written(ssl!Call) = 0
      BY <2>1 DEF ssl!Written
    <2> QED BY <1>1, <2>1, <2>2
  <1> QED BY <1>1, <1>4, <1>5, <1>6

----------------------------------------------------------------------------
(*                                   DES                                   *)

\* A row of bits.
Bits(n) == [1 .. n -> {0, 1}]

\* The initial and the final permutation are 64 places, and each undoes the other.
LEMMA TablesIPFP ==
    /\ DOMAIN des!IP = 1 .. 64 /\ DOMAIN des!FP = 1 .. 64
    /\ \A i \in 1 .. 64 : des!IP[i] \in 1 .. 64 /\ des!FP[i] \in 1 .. 64
    /\ \A i \in 1 .. 64 : des!FP[des!IP[i]] = i /\ des!IP[des!FP[i]] = i
  <1>1. DOMAIN des!IP = 1 .. 64 /\ DOMAIN des!FP = 1 .. 64
    BY DEF des!IP, des!FP
  <1>2. \A i \in 1 .. 64 : des!IP[i] \in 1 .. 64
    BY SMTT(60) DEF des!IP
  <1>3. \A i \in 1 .. 64 : des!FP[i] \in 1 .. 64
    BY SMTT(60) DEF des!FP
  <1>4. \A i \in 1 .. 64 : des!FP[des!IP[i]] = i
    BY SMTT(60) DEF des!IP, des!FP
  <1>5. \A i \in 1 .. 64 : des!IP[des!FP[i]] = i
    BY SMTT(60) DEF des!IP, des!FP
  <1> QED BY <1>1, <1>2, <1>3, <1>4, <1>5, Zenon

\* The other tables of a round: what they are long and what they point to.
LEMMA Tables ==
    /\ DOMAIN des!E = 1 .. 48 /\ \A i \in 1 .. 48 : des!E[i] \in 1 .. 32
    /\ DOMAIN des!P = 1 .. 32 /\ \A i \in 1 .. 32 : des!P[i] \in 1 .. 32
    /\ DOMAIN des!PC1 = 1 .. 56 /\ \A i \in 1 .. 56 : des!PC1[i] \in 1 .. 64
    /\ DOMAIN des!PC2 = 1 .. 48 /\ \A i \in 1 .. 48 : des!PC2[i] \in 1 .. 64
  <1>1. DOMAIN des!E = 1 .. 48 /\ \A i \in 1 .. 48 : des!E[i] \in 1 .. 32
    BY SMTT(60) DEF des!E
  <1>2. DOMAIN des!P = 1 .. 32 /\ \A i \in 1 .. 32 : des!P[i] \in 1 .. 32
    BY SMTT(60) DEF des!P
  <1>3. DOMAIN des!PC1 = 1 .. 56 /\ \A i \in 1 .. 56 : des!PC1[i] \in 1 .. 64
    BY SMTT(60) DEF des!PC1
  <1>4. DOMAIN des!PC2 = 1 .. 48 /\ \A i \in 1 .. 48 : des!PC2[i] \in 1 .. 64
    BY SMTT(60) DEF des!PC2
  <1> QED BY <1>1, <1>2, <1>3, <1>4

\* Every entry of an S-box is a number.
LEMMA SBoxEntries ==
    \A i \in 1 .. 8 : \A k \in 1 .. 64 : des!S[i][k] \in Nat
  <1> DEFINE T == des!S
  <1> SUFFICES ASSUME NEW i \in 1 .. 8, NEW k \in 1 .. 64 PROVE T[i][k] \in Nat
    BY Zenon
  <1>1. T[1] \in Seq(Nat) /\ Len(T[1]) = 64 /\ T[2] \in Seq(Nat) /\ Len(T[2]) = 64
    BY SMTT(60) DEF des!S
  <1>2. T[3] \in Seq(Nat) /\ Len(T[3]) = 64 /\ T[4] \in Seq(Nat) /\ Len(T[4]) = 64
    BY SMTT(60) DEF des!S
  <1>3. T[5] \in Seq(Nat) /\ Len(T[5]) = 64 /\ T[6] \in Seq(Nat) /\ Len(T[6]) = 64
    BY SMTT(60) DEF des!S
  <1>4. T[7] \in Seq(Nat) /\ Len(T[7]) = 64 /\ T[8] \in Seq(Nat) /\ Len(T[8]) = 64
    BY SMTT(60) DEF des!S
  <1> HIDE DEF T
  <1>5. T[i] \in Seq(Nat) /\ Len(T[i]) = 64
    <2>1. i \in {1, 2, 3, 4, 5, 6, 7, 8}
      OBVIOUS
    <2> QED BY <1>1, <1>2, <1>3, <1>4, <2>1
  <1>6. k \in 1 .. Len(T[i])
    BY <1>5
  <1> QED BY <1>5, <1>6, ElementOfSeq, Zenon

\* The places a key has been turned by before a round.
LEMMA TurnedNat ==
    \A round \in 1 .. 16 : des!Turned[round] \in Nat
  <1> DEFINE sums == << 0, 1, 2, 4, 6, 8, 10, 12, 14, 15, 17, 19, 21, 23, 25, 27, 28 >>
             f == [round \in 0 .. 16 |-> sums[round + 1]]
             def(g) == g = [round \in 0 .. 16 |-> IF round = 0 THEN 0
                                                  ELSE g[round - 1] + des!Shifts[round]]
  <1>1. \A round \in 1 .. 16 : f[round] = f[round - 1] + des!Shifts[round]
    BY SMTT(60) DEF des!Shifts
  <1>2. f[0] = 0
    OBVIOUS
  <1>3. f = [round \in 0 .. 16 |-> f[round]]
    OBVIOUS
  <1> HIDE DEF f
  <1>4. def(f)
    BY <1>1, <1>2, <1>3
  <1>5. des!Turned = CHOOSE g : def(g)
    BY DEF des!Turned
  <1>6. def(des!Turned)
    <2> HIDE DEF def
    <2> QED BY <1>4, <1>5
  <1> DEFINE t == des!Turned
  <1>7. t[0] = 0 /\ \A round \in 1 .. 16 : t[round] = t[round - 1] + des!Shifts[round]
    BY <1>6
  <1>8. \A round \in 1 .. 16 : des!Shifts[round] \in Nat
    BY SMTT(60) DEF des!Shifts
  <1> HIDE DEF t, def
  <1>9. t[1] \in Nat /\ t[2] \in Nat /\ t[3] \in Nat /\ t[4] \in Nat
    BY <1>7, <1>8
  <1>10. t[5] \in Nat /\ t[6] \in Nat /\ t[7] \in Nat /\ t[8] \in Nat
    BY <1>7, <1>8, <1>9
  <1>11. t[9] \in Nat /\ t[10] \in Nat /\ t[11] \in Nat /\ t[12] \in Nat
    BY <1>7, <1>8, <1>10
  <1>12. t[13] \in Nat /\ t[14] \in Nat /\ t[15] \in Nat /\ t[16] \in Nat
    BY <1>7, <1>8, <1>11
  <1>13. \A round \in 1 .. 16 : round \in {1, 2, 3, 4, 5, 6, 7, 8, 9, 10, 11, 12, 13, 14, 15, 16}
    OBVIOUS
  <1> QED BY <1>9, <1>10, <1>11, <1>12, <1>13 DEF t

\* Eight bytes and sixty-four bits hold the same: each way undoes the other.
LEMMA ToBitsType ==
    ASSUME NEW b \in Seq(0 .. 255), Len(b) = 8
    PROVE  /\ des!ToBits(b) \in Bits(64)
           /\ \A j \in 1 .. 8 : b[j] \in 0 .. 255
           /\ \A j \in 1 .. 8, m \in 1 .. 8 :
                 des!ToBits(b)[8 * (j - 1) + m] = (b[j] \div des!Weight[m]) % 2
  <1> DEFINE t == des!ToBits(b)
             W == des!Weight
             v(i) == b[(i - 1) \div 8 + 1] \div W[((i - 1) % 8) + 1]
  <1>1. t = [i \in 1 .. 64 |-> v(i) % 2]
    BY DEF des!ToBits
  <1>2. \A m \in 1 .. 8 : W[m] \in {1, 2, 4, 8, 16, 32, 64, 128}
    BY DEF des!Weight
  <1>3. \A j \in 1 .. 8 : b[j] \in 0 .. 255
    BY ElementOfSeq, Zenon
  <1> HIDE DEF t, W
  <1>4. ASSUME NEW j \in 1 .. 8, NEW m \in 1 .. 8
        PROVE  t[8 * (j - 1) + m] = (b[j] \div W[m]) % 2
    <2> DEFINE i == 8 * (j - 1) + m
    <2>1. i \in 1 .. 64 /\ (i - 1) \div 8 + 1 = j /\ ((i - 1) % 8) + 1 = m
      OBVIOUS
    <2>2. v(i) = b[j] \div W[m]
      BY <2>1
    <2> HIDE DEF i, v
    <2> QED BY <1>1, <2>1, <2>2 DEF i
  <1>5. ASSUME NEW i \in 1 .. 64 PROVE v(i) % 2 \in {0, 1}
    <2> DEFINE j == (i - 1) \div 8 + 1
               m == ((i - 1) % 8) + 1
    <2>1. j \in 1 .. 8 /\ m \in 1 .. 8
      OBVIOUS
    <2> HIDE DEF j, m
    <2> DEFINE x == b[j]
               w == W[m]
    <2>2. x \in 0 .. 255 /\ w \in {1, 2, 4, 8, 16, 32, 64, 128}
      BY <1>2, <1>3, <2>1, Zenon
    <2> HIDE DEF x, w
    <2>3. (x \div w) % 2 \in {0, 1}
      BY <2>2
    <2> QED BY <2>3 DEF x, w, j, m
  <1>6. t \in Bits(64)
    <2> HIDE DEF v
    <2> QED BY <1>1, <1>5 DEF Bits
  <1> QED BY <1>3, <1>4, <1>6 DEF t, W

\* The eight bits of a byte weigh what it is worth.
LEMMA ByteWeighs ==
    ASSUME NEW c \in 0 .. 255
    PROVE  128 * ((c \div 128) % 2) + 64 * ((c \div 64) % 2) + 32 * ((c \div 32) % 2)
           + 16 * ((c \div 16) % 2) + 8 * ((c \div 8) % 2) + 4 * ((c \div 4) % 2)
           + 2 * ((c \div 2) % 2) + ((c \div 1) % 2) = c
  <1> DEFINE a0 == c \div 1  a1 == c \div 2  a2 == c \div 4  a3 == c \div 8
             a4 == c \div 16  a5 == c \div 32  a6 == c \div 64  a7 == c \div 128
  <1>1. a0 = c /\ a0 = 2 * a1 + (a0 % 2) /\ a1 = 2 * a2 + (a1 % 2)
    OBVIOUS
  <1>2. a2 = 2 * a3 + (a2 % 2) /\ a3 = 2 * a4 + (a3 % 2)
    OBVIOUS
  <1>3. a4 = 2 * a5 + (a4 % 2) /\ a5 = 2 * a6 + (a5 % 2)
    OBVIOUS
  <1>4. a6 = 2 * a7 + (a6 % 2) /\ a7 = (a7 % 2)
    OBVIOUS
  <1>5. a0 \in Int /\ a1 \in Int /\ a2 \in Int /\ a3 \in Int
    OBVIOUS
  <1>6. a4 \in Int /\ a5 \in Int /\ a6 \in Int /\ a7 \in Int
    OBVIOUS
  <1> DEFINE r0 == a0 % 2  r1 == a1 % 2  r2 == a2 % 2  r3 == a3 % 2
             r4 == a4 % 2  r5 == a5 % 2  r6 == a6 % 2  r7 == a7 % 2
  <1> HIDE DEF a0, a1, a2, a3, a4, a5, a6, a7
  <1>7. r0 \in Int /\ r1 \in Int /\ r2 \in Int /\ r3 \in Int
    BY <1>5
  <1>8. r4 \in Int /\ r5 \in Int /\ r6 \in Int /\ r7 \in Int
    BY <1>6
  <1> HIDE DEF r0, r1, r2, r3, r4, r5, r6, r7
  <1>9. 128 * r7 + 64 * r6 + 32 * r5 + 16 * r4 + 8 * r3 + 4 * r2 + 2 * r1 + r0 = c
    BY <1>1, <1>2, <1>3, <1>4, <1>5, <1>6, <1>7, <1>8 DEF r0, r1, r2, r3, r4, r5, r6, r7
  <1> QED BY <1>9 DEF r0, r1, r2, r3, r4, r5, r6, r7, a0, a1, a2, a3, a4, a5, a6, a7

\* Bytes, from sixty-four bits.
LEMMA ToBytesType ==
    ASSUME NEW x \in Bits(64)
    PROVE  des!ToBytes(x) \in Seq(0 .. 255) /\ Len(des!ToBytes(x)) = 8
  <1> DEFINE v(j) == 128 * x[8 * (j - 1) + 1] + 64 * x[8 * (j - 1) + 2] + 32 * x[8 * (j - 1) + 3]
                     + 16 * x[8 * (j - 1) + 4] + 8 * x[8 * (j - 1) + 5] + 4 * x[8 * (j - 1) + 6]
                     + 2 * x[8 * (j - 1) + 7] + x[8 * (j - 1) + 8]
             u == des!ToBytes(x)
  <1>1. ASSUME NEW j \in 1 .. 8 PROVE v(j) \in 0 .. 255
    <2> DEFINE k == 8 * (j - 1)
    <2>1. k \in Nat /\ k <= 56
      OBVIOUS
    <2>2. v(j) = 128 * x[k + 1] + 64 * x[k + 2] + 32 * x[k + 3] + 16 * x[k + 4]
                 + 8 * x[k + 5] + 4 * x[k + 6] + 2 * x[k + 7] + x[k + 8]
      OBVIOUS
    <2> HIDE DEF v, k
    <2>3. \A m \in 1 .. 64 : x[m] \in 0 .. 1
      BY DEF Bits
    <2> DEFINE y1 == x[k + 1]  y2 == x[k + 2]  y3 == x[k + 3]  y4 == x[k + 4]
               y5 == x[k + 5]  y6 == x[k + 6]  y7 == x[k + 7]  y8 == x[k + 8]
    <2>4. y1 \in 0 .. 1 /\ y2 \in 0 .. 1 /\ y3 \in 0 .. 1 /\ y4 \in 0 .. 1
      BY <2>1, <2>3
    <2>5. y5 \in 0 .. 1 /\ y6 \in 0 .. 1 /\ y7 \in 0 .. 1 /\ y8 \in 0 .. 1
      BY <2>1, <2>3
    <2>6. v(j) = 128 * y1 + 64 * y2 + 32 * y3 + 16 * y4 + 8 * y5 + 4 * y6 + 2 * y7 + y8
      BY <2>2
    <2> HIDE DEF y1, y2, y3, y4, y5, y6, y7, y8
    <2> QED BY <2>4, <2>5, <2>6
  <1>2. u = [j \in 1 .. 8 |-> v(j)]
    BY DEF des!ToBytes
  <1> HIDE DEF v, u
  <1>3. u \in [1 .. 8 -> 0 .. 255]
    BY <1>1, <1>2
  <1> DEFINE n == 8
  <1>4. n \in Nat /\ u \in [1 .. n -> 0 .. 255]
    BY <1>3
  <1> HIDE DEF n
  <1>5. u \in Seq(0 .. 255) /\ Len(u) = n
    BY <1>4, FcnIsSeq
  <1> QED BY <1>5 DEF u, n

\* A block is the bytes of its bits,
LEMMA BytesOfBits ==
    ASSUME NEW b \in Seq(0 .. 255), Len(b) = 8
    PROVE  des!ToBytes(des!ToBits(b)) = b
  <1> DEFINE t == des!ToBits(b)
             u == des!ToBytes(t)
             W == des!Weight
  <1>1. /\ W[1] = 128 /\ W[2] = 64 /\ W[3] = 32 /\ W[4] = 16
        /\ W[5] = 8 /\ W[6] = 4 /\ W[7] = 2 /\ W[8] = 1
    BY DEF des!Weight
  <1>2. ASSUME NEW j \in 1 .. 8 PROVE u[j] = b[j]
    <2> DEFINE c == b[j]
               y == [m \in 1 .. 8 |-> t[8 * (j - 1) + m]]
    <2>1. c \in 0 .. 255
      BY ToBitsType, Zenon
    <2>2. \A m \in 1 .. 8 : y[m] = (c \div W[m]) % 2
      BY ToBitsType, Zenon
    <2> HIDE DEF t, W
    <2>3. u[j] = 128 * y[1] + 64 * y[2] + 32 * y[3] + 16 * y[4] + 8 * y[5] + 4 * y[6] + 2 * y[7] + y[8]
      BY DEF des!ToBytes
    <2> HIDE DEF c, y, u
    <2>4. /\ y[1] = (c \div 128) % 2 /\ y[2] = (c \div 64) % 2 /\ y[3] = (c \div 32) % 2
          /\ y[4] = (c \div 16) % 2 /\ y[5] = (c \div 8) % 2 /\ y[6] = (c \div 4) % 2
          /\ y[7] = (c \div 2) % 2 /\ y[8] = (c \div 1) % 2
      <3>1. 1 \in 1 .. 8 /\ 2 \in 1 .. 8 /\ 3 \in 1 .. 8 /\ 4 \in 1 .. 8
            /\ 5 \in 1 .. 8 /\ 6 \in 1 .. 8 /\ 7 \in 1 .. 8 /\ 8 \in 1 .. 8
        OBVIOUS
      <3>2. /\ y[1] = (c \div W[1]) % 2 /\ y[2] = (c \div W[2]) % 2 /\ y[3] = (c \div W[3]) % 2
            /\ y[4] = (c \div W[4]) % 2 /\ y[5] = (c \div W[5]) % 2 /\ y[6] = (c \div W[6]) % 2
            /\ y[7] = (c \div W[7]) % 2 /\ y[8] = (c \div W[8]) % 2
        BY <2>2, <3>1, Zenon
      <3> QED BY <1>1, <3>2
    <2>5. 128 * ((c \div 128) % 2) + 64 * ((c \div 64) % 2) + 32 * ((c \div 32) % 2)
          + 16 * ((c \div 16) % 2) + 8 * ((c \div 8) % 2) + 4 * ((c \div 4) % 2)
          + 2 * ((c \div 2) % 2) + ((c \div 1) % 2) = c
      BY <2>1, ByteWeighs, Zenon
    <2>6. u[j] = c
      BY <2>3, <2>4, <2>5, Zenon
    <2> QED BY <2>6 DEF c
  <1>3. u \in Seq(0 .. 255) /\ Len(u) = 8
    BY ToBitsType, ToBytesType
  <1> HIDE DEF u
  <1>4. u = b
    BY <1>2, <1>3, SeqEqual
  <1> QED BY <1>4 DEF u, t

\* and sixty-four bits are the bits of their bytes.
LEMMA BitsOfBytes ==
    ASSUME NEW x \in Bits(64)
    PROVE  des!ToBits(des!ToBytes(x)) = x
  <1> DEFINE u == des!ToBytes(x)
             t == des!ToBits(u)
             W == des!Weight
  <1>1. u \in Seq(0 .. 255) /\ Len(u) = 8
    BY ToBytesType
  <1>2. /\ W[1] = 128 /\ W[2] = 64 /\ W[3] = 32 /\ W[4] = 16
       /\ W[5] = 8 /\ W[6] = 4 /\ W[7] = 2 /\ W[8] = 1
    BY DEF des!Weight
  <1>3. ASSUME NEW j \in 1 .. 8, NEW m \in 1 .. 8 PROVE t[8 * (j - 1) + m] = x[8 * (j - 1) + m]
    <2> DEFINE k == 8 * (j - 1)
               c == u[j]
               x1 == x[k + 1]  x2 == x[k + 2]  x3 == x[k + 3]  x4 == x[k + 4]
               x5 == x[k + 5]  x6 == x[k + 6]  x7 == x[k + 7]  x8 == x[k + 8]
    <2>1. u[j] = 128 * x[k + 1] + 64 * x[k + 2] + 32 * x[k + 3] + 16 * x[k + 4] + 8 * x[k + 5]
                 + 4 * x[k + 6] + 2 * x[k + 7] + x[k + 8]
      BY DEF des!ToBytes
    <2>2. \A i \in 1 .. 8 : x[k + i] \in {0, 1}
      BY DEF Bits
    <2> HIDE DEF u
    <2>3. t[k + m] = (c \div W[m]) % 2
      BY <1>1, ToBitsType, Zenon
    <2>4. /\ x1 \in {0, 1} /\ x2 \in {0, 1} /\ x3 \in {0, 1} /\ x4 \in {0, 1}
          /\ x5 \in {0, 1} /\ x6 \in {0, 1} /\ x7 \in {0, 1} /\ x8 \in {0, 1}
      BY <2>2
    <2>5. c = 128 * x1 + 64 * x2 + 32 * x3 + 16 * x4 + 8 * x5 + 4 * x6 + 2 * x7 + x8
      BY <2>1
    <2> HIDE DEF x1, x2, x3, x4, x5, x6, x7, x8, c
    <2>6. /\ (c \div 128) % 2 = x1 /\ (c \div 64) % 2 = x2 /\ (c \div 32) % 2 = x3
          /\ (c \div 16) % 2 = x4 /\ (c \div 8) % 2 = x5 /\ (c \div 4) % 2 = x6
          /\ (c \div 2) % 2 = x7 /\ (c \div 1) % 2 = x8
      BY <2>4, <2>5, SMTT(60)
    <2>7. m \in {1, 2, 3, 4, 5, 6, 7, 8}
      OBVIOUS
    <2> HIDE DEF k, t, W
    <2>8. t[k + m] = x[k + m]
      BY <1>2, <2>3, <2>6, <2>7 DEF x1, x2, x3, x4, x5, x6, x7, x8
    <2> QED BY <2>8 DEF k
  <1>4. t \in Bits(64)
    BY <1>1, ToBitsType
  <1>5. ASSUME NEW i \in 1 .. 64 PROVE t[i] = x[i]
    <2>1. /\ (i - 1) \div 8 + 1 \in 1 .. 8 /\ ((i - 1) % 8) + 1 \in 1 .. 8
          /\ 8 * (((i - 1) \div 8 + 1) - 1) + (((i - 1) % 8) + 1) = i
      OBVIOUS
    <2> HIDE DEF t
    <2> QED BY <1>3, <2>1
  <1> HIDE DEF t
  <1>6. t = x
    BY <1>4, <1>5 DEF Bits
  <1> QED BY <1>6 DEF t, u

\* Rows of bits are sequences; pieces of them and rows put together are rows again.
LEMMA BitsSeq ==
    ASSUME NEW n \in Nat
    PROVE  /\ \A x \in Bits(n) : x \in Seq({0, 1}) /\ Len(x) = n
           /\ \A x \in Seq({0, 1}) : Len(x) = n => x \in Bits(n)
           /\ \A x \in Bits(n), y \in Bits(n) : (\A i \in 1 .. n : x[i] = y[i]) => x = y
           /\ \A x \in Bits(n) : \A i \in 1 .. n : x[i] \in {0, 1}
  <1>1. \A x \in Bits(n) : x \in Seq({0, 1}) /\ Len(x) = n
    BY FcnIsSeq DEF Bits
  <1>2. \A x \in Seq({0, 1}) : Len(x) = n => x \in Bits(n)
    BY DEF Bits
  <1>3. \A x \in Bits(n), y \in Bits(n) : (\A i \in 1 .. n : x[i] = y[i]) => x = y
    BY DEF Bits
  <1>4. \A x \in Bits(n) : \A i \in 1 .. n : x[i] \in {0, 1}
    BY DEF Bits
  <1> QED BY <1>1, <1>2, <1>3, <1>4

\* A piece of a row of bits,
LEMMA Piece ==
    ASSUME NEW n \in Nat, NEW x \in Bits(n), NEW a \in Nat, NEW l \in Nat, a + l <= n
    PROVE  /\ SubSeq(x, a + 1, a + l) \in Bits(l)
           /\ \A i \in 1 .. l : SubSeq(x, a + 1, a + l)[i] = x[a + i]
  <1> DEFINE b == a + 1
             c == a + l
             t == SubSeq(x, b, c)
  <1>1. b \in Int /\ c \in Int /\ \A i \in b .. c : x[i] \in {0, 1}
    <2>1. b .. c \subseteq 1 .. n
      OBVIOUS
    <2> QED BY <2>1, BitsSeq
  <1>2. /\ t \in Seq({0, 1}) /\ Len(t) = IF b <= c THEN c - b + 1 ELSE 0
        /\ \A i \in 1 .. c - b + 1 : t[i] = x[b + i - 1]
    <2> HIDE DEF b, c
    <2> QED BY <1>1, SubSeqProperties
  <1> HIDE DEF t
  <1>3. Len(t) = l
    BY <1>2
  <1>4. \A i \in 1 .. l : t[i] = x[a + i]
    <2> SUFFICES ASSUME NEW i \in 1 .. l PROVE t[i] = x[a + i]
      OBVIOUS
    <2>1. i \in 1 .. c - b + 1 /\ b + i - 1 = a + i
      OBVIOUS
    <2> HIDE DEF b, c
    <2> QED BY <1>2, <2>1
  <1> QED BY <1>2, <1>3, <1>4, BitsSeq, Zenon DEF t

\* and two rows put together.
LEMMA Together ==
    ASSUME NEW m \in Nat, NEW n \in Nat, NEW x \in Bits(m), NEW y \in Bits(n)
    PROVE  /\ x \o y \in Bits(m + n)
           /\ \A i \in 1 .. m : (x \o y)[i] = x[i]
           /\ \A i \in 1 .. n : (x \o y)[m + i] = y[i]
  <1>1. x \in Seq({0, 1}) /\ Len(x) = m /\ y \in Seq({0, 1}) /\ Len(y) = n
    BY BitsSeq
  <1> DEFINE z == x \o y
  <1>2. /\ z \in Seq({0, 1}) /\ Len(z) = m + n
        /\ \A i \in 1 .. m + n : z[i] = IF i <= m THEN x[i] ELSE y[i - m]
    BY <1>1, ConcatProperties, Zenon
  <1> HIDE DEF z
  <1>3. z \in Bits(m + n)
    BY <1>2, BitsSeq
  <1>4. \A i \in 1 .. m : z[i] = x[i]
    BY <1>2
  <1>5. \A i \in 1 .. n : z[m + i] = y[i]
    <2> SUFFICES ASSUME NEW i \in 1 .. n PROVE z[m + i] = y[i]
      OBVIOUS
    <2> DEFINE j == m + i
    <2>1. j \in 1 .. m + n /\ ~(j <= m) /\ j - m = i
      OBVIOUS
    <2> HIDE DEF j
    <2>2. z[j] = y[j - m]
      BY <1>2, <2>1
    <2> QED BY <2>1, <2>2 DEF j
  <1> QED BY <1>3, <1>4, <1>5, Zenon DEF z

\* The lengths in use.
LEMMA Lengths ==
    /\ 0 \in Nat /\ 8 \in Nat /\ 28 \in Nat /\ 32 \in Nat /\ 36 \in Nat /\ 48 \in Nat
    /\ 56 \in Nat /\ 64 \in Nat
    /\ 0 + 28 <= 56 /\ 28 + 28 <= 56 /\ 0 + 32 <= 64 /\ 32 + 32 <= 64
  OBVIOUS

\* The front and the rear half of a row, and two halves in a row.
LEMMA Half ==
    ASSUME NEW y \in Bits(64)
    PROVE  /\ SubSeq(y, 1, 32) \in Bits(32) /\ \A i \in 1 .. 32 : SubSeq(y, 1, 32)[i] = y[i]
           /\ SubSeq(y, 33, 64) \in Bits(32) /\ \A i \in 1 .. 32 : SubSeq(y, 33, 64)[i] = y[32 + i]
  <1> DEFINE n == 64
             k == 32
             o == 0
  <1>1. n \in Nat /\ k \in Nat /\ k + k <= n /\ y \in Bits(n) /\ o \in Nat /\ o + k <= n
    OBVIOUS
  <1>2. o + 1 = 1 /\ o + k = 32 /\ k + 1 = 33 /\ k + k = 64 /\ k = 32
        /\ \A i \in 1 .. k : o + i = i
    OBVIOUS
  <1> HIDE DEF n, k, o
  <1>3. /\ SubSeq(y, o + 1, o + k) \in Bits(k)
        /\ \A i \in 1 .. k : SubSeq(y, o + 1, o + k)[i] = y[o + i]
    BY <1>1, Piece
  <1>4. /\ SubSeq(y, k + 1, k + k) \in Bits(k)
        /\ \A i \in 1 .. k : SubSeq(y, k + 1, k + k)[i] = y[k + i]
    BY <1>1, Piece
  <1> QED BY <1>2, <1>3, <1>4

\* The same with two halves of 32 bits.
LEMMA Beside ==
    ASSUME NEW u \in Bits(32), NEW v \in Bits(32)
    PROVE  /\ u \o v \in Bits(64)
           /\ \A i \in 1 .. 32 : (u \o v)[i] = u[i]
           /\ \A i \in 1 .. 32 : (u \o v)[32 + i] = v[i]
  <1> DEFINE k == 32
  <1>1. k \in Nat /\ u \in Bits(k) /\ v \in Bits(k) /\ k + k = 64 /\ k = 32
    OBVIOUS
  <1> HIDE DEF k
  <1>2. k \in Nat /\ u \in Bits(k) /\ v \in Bits(k)
    BY <1>1
  <1>3. u \o v \in Bits(k + k)
    BY <1>2, Together
  <1>4. \A i \in 1 .. k : (u \o v)[i] = u[i]
    BY <1>2, Together, Zenon
  <1>5. \A i \in 1 .. k : (u \o v)[k + i] = v[i]
    BY <1>2, Together, Zenon
  <1> QED BY <1>1, <1>3, <1>4, <1>5, Zenon

\* Rows that agree at every place are one row.
LEMMA SameBits ==
    ASSUME NEW n \in Nat, NEW x \in Bits(n), NEW y \in Bits(n), \A i \in 1 .. n : x[i] = y[i]
    PROVE  x = y
  BY BitsSeq

\* The two halves of a block.
Halves == [L : Bits(32), R : Bits(32)]

\* permute() gives the bit of the table's place.
LEMMA PermuteType ==
    ASSUME NEW n \in Nat, NEW m \in Nat, NEW x \in Bits(n), NEW table, DOMAIN table = 1 .. m,
           \A i \in 1 .. m : table[i] \in 1 .. n
    PROVE  des!Permute(x, table) \in Bits(m)
  BY DEF des!Permute, Bits

\* The initial and the final permutation.
LEMMA Permuted64 ==
    ASSUME NEW x \in Bits(64)
    PROVE  /\ des!Permute(x, des!IP) \in Bits(64)
           /\ \A i \in 1 .. 64 : des!Permute(x, des!IP)[i] = x[des!IP[i]]
           /\ des!Permute(x, des!FP) \in Bits(64)
           /\ \A i \in 1 .. 64 : des!Permute(x, des!FP)[i] = x[des!FP[i]]
  <1> DEFINE I == des!IP  F == des!FP
  <1>1. /\ DOMAIN I = 1 .. 64 /\ \A i \in 1 .. 64 : I[i] \in 1 .. 64
        /\ DOMAIN F = 1 .. 64 /\ \A i \in 1 .. 64 : F[i] \in 1 .. 64
    BY TablesIPFP, Zenon
  <1> HIDE DEF I, F
  <1>2. des!Permute(x, I) \in Bits(64) /\ des!Permute(x, F) \in Bits(64)
    BY <1>1, PermuteType, Zenon
  <1>3. /\ \A i \in 1 .. 64 : des!Permute(x, I)[i] = x[I[i]]
        /\ \A i \in 1 .. 64 : des!Permute(x, F)[i] = x[F[i]]
    BY <1>1 DEF des!Permute
  <1> QED BY <1>2, <1>3 DEF I, F

\* A key of eight bytes gives sixteen subkeys of 48 bits.
LEMMA KeyExpansionType ==
    ASSUME NEW k \in Seq(0 .. 255), Len(k) = 8
    PROVE  des!KeyExpansion(k) \in [1 .. 16 -> Bits(48)]
  <1> DEFINE bits == des!Permute(des!ToBits(k), des!PC1)
             C == SubSeq(bits, 1, 28)
             D == SubSeq(bits, 29, 56)
  <1>1. bits \in Bits(56)
    <2>1. des!ToBits(k) \in Bits(64)
      BY ToBitsType
    <2> QED BY <2>1, Tables, PermuteType, Zenon
  <1> HIDE DEF bits
  <1>2. C \in Bits(28)
    <2>1. SubSeq(bits, 0 + 1, 0 + 28) \in Bits(28)
      BY <1>1, Piece, Lengths, Zenon
    <2> QED BY <2>1
  <1>3. D \in Bits(28)
    <2>1. SubSeq(bits, 28 + 1, 28 + 28) \in Bits(28)
      BY <1>1, Piece, Lengths, Zenon
    <2> QED BY <2>1
  <1> HIDE DEF C, D
  <1>4. ASSUME NEW half \in Bits(28), NEW n \in Nat PROVE des!RotateLeft(half, n) \in Bits(28)
    <2>1. \A i \in 1 .. 28 : ((i - 1 + n) % 28) + 1 \in 1 .. 28
      OBVIOUS
    <2> QED BY <2>1, Zenon DEF des!RotateLeft, Bits
  <1>5. des!Zeros(8) \in Bits(8)
    BY DEF des!Zeros, Bits
  <1> DEFINE row(round) == des!Zeros(8) \o des!RotateLeft(C, des!Turned[round])
                             \o des!RotateLeft(D, des!Turned[round])
  <1>6. ASSUME NEW round \in 1 .. 16
        PROVE  des!Permute(row(round), des!PC2) \in Bits(48)
    <2> DEFINE c == des!RotateLeft(C, des!Turned[round])
               d == des!RotateLeft(D, des!Turned[round])
               z == des!Zeros(8)
    <2>1. c \in Bits(28) /\ d \in Bits(28) /\ z \in Bits(8)
      BY <1>2, <1>3, <1>4, <1>5, TurnedNat, Zenon
    <2> HIDE DEF c, d, z
    <2>2. z \o c \in Bits(8 + 28)
      BY <2>1, Together, Lengths, Zenon
    <2>3. z \o c \in Bits(36)
      BY <2>2
    <2> DEFINE w == (z \o c) \o d
    <2>4. w \in Bits(36 + 28)
      BY <2>1, <2>3, Together, Lengths, Zenon
    <2>5. w \in Bits(64)
      BY <2>4
    <2> HIDE DEF w
    <2>6. des!Permute(w, des!PC2) \in Bits(48)
      BY <2>5, Tables, PermuteType, Zenon
    <2> QED BY <2>6 DEF w, c, d, z
  <1>7. des!KeyExpansion(k) = [round \in 1 .. 16 |-> des!Permute(row(round), des!PC2)]
    BY DEF des!KeyExpansion, des!Schedule, bits, C, D
  <1> HIDE DEF row
  <1> QED BY <1>6, <1>7

\* feistel() makes 32 bits of a half and a subkey.
LEMMA FeistelType ==
    ASSUME NEW R \in Bits(32), NEW subkey \in Bits(48)
    PROVE  des!Feistel(R, subkey) \in Bits(32)
  <1> DEFINE e == des!Permute(R, des!E)
             x == des!Xor(e, subkey)
  <1>1. e \in Bits(48)
    BY Tables, Zenon DEF des!Permute, Bits
  <1> HIDE DEF e
  <1>2. x \in Bits(48)
    BY <1>1 DEF des!Xor, Bits
  <1> HIDE DEF x
  <1>3. ASSUME NEW i \in 1 .. 8 PROVE des!SBox(i, x) \in Nat
    <2> DEFINE c == 6 * (i - 1)
               k == 16 * (2 * x[c + 1] + x[c + 6]) + (8 * x[c + 2] + 4 * x[c + 3] + 2 * x[c + 4] + x[c + 5]) + 1
    <2>1. \A j \in 1 .. 48 : x[j] \in {0, 1}
      BY <1>2 DEF Bits
    <2>2. c + 1 \in 1 .. 48 /\ c + 2 \in 1 .. 48 /\ c + 3 \in 1 .. 48 /\ c + 4 \in 1 .. 48
          /\ c + 5 \in 1 .. 48 /\ c + 6 \in 1 .. 48
      OBVIOUS
    <2>3. k \in 1 .. 64
      <3> HIDE DEF c
      <3>1. /\ x[c + 1] \in {0, 1} /\ x[c + 2] \in {0, 1} /\ x[c + 3] \in {0, 1}
            /\ x[c + 4] \in {0, 1} /\ x[c + 5] \in {0, 1} /\ x[c + 6] \in {0, 1}
        BY <2>1, <2>2, Zenon
      <3> QED BY <3>1
    <2>4. des!SBox(i, x) = des!S[i][k]
      BY DEF des!SBox
    <2> HIDE DEF k, c
    <2> QED BY <2>3, <2>4, SBoxEntries, Zenon
  <1> DEFINE boxes == des!SBoxes(x)
             v(i) == des!SBox((i - 1) \div 4 + 1, x) \div des!Weight[((i - 1) % 4) + 5]
  <1>4. ASSUME NEW i \in 1 .. 32 PROVE v(i) % 2 \in {0, 1}
    <2> DEFINE j == (i - 1) \div 4 + 1
               m == ((i - 1) % 4) + 5
               a == des!SBox(j, x)
               w == des!Weight[m]
    <2>1. j \in 1 .. 8 /\ m \in {5, 6, 7, 8}
      OBVIOUS
    <2> HIDE DEF j, m
    <2>2. a \in Nat
      BY <1>3, <2>1
    <2>3. w \in {1, 2, 4, 8}
      BY <2>1 DEF des!Weight
    <2> HIDE DEF a, w
    <2>4. (a \div w) % 2 \in {0, 1}
      BY <2>2, <2>3
    <2> QED BY <2>4 DEF a, w, j, m
  <1>5. boxes = [i \in 1 .. 32 |-> v(i) % 2]
    BY DEF des!SBoxes
  <1> HIDE DEF boxes, v
  <1>6. boxes \in Bits(32)
    BY <1>4, <1>5 DEF Bits
  <1>7. des!Permute(boxes, des!P) \in Bits(32)
    BY <1>6, Tables, Zenon DEF des!Permute, Bits
  <1> QED BY <1>7 DEF des!Feistel, boxes, x, e

\* Xor of rows of 32 bits is one, bit by bit.
LEMMA XorBits ==
    ASSUME NEW a \in Bits(32), NEW b \in Bits(32)
    PROVE  /\ des!Xor(a, b) \in Bits(32)
           /\ \A i \in 1 .. 32 : des!Xor(a, b)[i] = (a[i] + b[i]) % 2
  <1> DEFINE c == des!Xor(a, b)
  <1>1. a \in [1 .. 32 -> {0, 1}] /\ b \in [1 .. 32 -> {0, 1}]
    BY DEF Bits
  <1>2. DOMAIN a = 1 .. 32
    BY <1>1
  <1>3. c = [i \in 1 .. 32 |-> (a[i] + b[i]) % 2]
    BY <1>2 DEF des!Xor
  <1> HIDE DEF c
  <1>4. ASSUME NEW i \in 1 .. 32 PROVE (a[i] + b[i]) % 2 \in {0, 1}
    <2>1. a[i] \in {0, 1} /\ b[i] \in {0, 1}
      BY <1>1
    <2> QED BY <2>1
  <1>5. c \in [1 .. 32 -> {0, 1}]
    BY <1>3, <1>4
  <1>6. \A i \in 1 .. 32 : c[i] = (a[i] + b[i]) % 2
    BY <1>3
  <1> QED BY <1>5, <1>6 DEF c, Bits

\* A round keeps halves halves, and the same round takes the swapped result back to the
\* swapped halves it had, whatever the subkey.
LEMMA RoundBack ==
    ASSUME NEW h \in Halves, NEW subkey \in Bits(48)
    PROVE  /\ des!Round(h, subkey) \in Halves
           /\ des!Round(des!Swap(des!Round(h, subkey)), subkey) = des!Swap(h)
  <1> DEFINE F == des!Feistel(h.R, subkey)
             r == des!Round(h, subkey)
  <1>1. h.L \in Bits(32) /\ h.R \in Bits(32)
    BY DEF Halves
  <1>2. F \in Bits(32)
    BY <1>1, FeistelType
  <1>3. r = [L |-> h.R, R |-> des!Xor(h.L, F)]
    BY DEF des!Round
  <1> HIDE DEF F, r
  <1>4. des!Xor(h.L, F) \in Bits(32)
    BY <1>1, <1>2, XorBits
  <1>5. des!Xor(des!Xor(h.L, F), F) = h.L
    <2> DEFINE a == h.L
               b == des!Xor(a, F)
               c == des!Xor(b, F)
    <2>1. /\ a \in Bits(32) /\ b \in Bits(32)
          /\ \A i \in 1 .. 32 : b[i] = (a[i] + F[i]) % 2
      BY <1>1, <1>2, XorBits
    <2> HIDE DEF a, b
    <2>2. c \in Bits(32) /\ \A i \in 1 .. 32 : c[i] = (b[i] + F[i]) % 2
      BY <1>2, <2>1, XorBits
    <2> HIDE DEF c
    <2>3. ASSUME NEW i \in 1 .. 32 PROVE c[i] = a[i]
      <3>1. a[i] \in {0, 1} /\ F[i] \in {0, 1}
        BY <1>2, <2>1 DEF Bits
      <3>2. b[i] = (a[i] + F[i]) % 2 /\ c[i] = (b[i] + F[i]) % 2
        BY <2>1, <2>2
      <3> QED BY <3>1, <3>2
    <2>4. c = a
      BY <2>1, <2>2, <2>3 DEF Bits
    <2> QED BY <2>4 DEF a, b, c
  <1>6. r \in Halves
    BY <1>1, <1>3, <1>4 DEF Halves
  <1>7. des!Swap(r) = [L |-> des!Xor(h.L, F), R |-> h.R]
    BY <1>3 DEF des!Swap
  <1>8. des!Round(des!Swap(r), subkey) = [L |-> h.R, R |-> h.L]
    BY <1>5, <1>7 DEF des!Round, F
  <1> QED BY <1>6, <1>8 DEF r, des!Swap

\* The block of two halves and the halves of a block: each way undoes the other, but
\* that the halves change places.
LEMMA SplitJoin ==
    ASSUME NEW h \in Halves
    PROVE  /\ des!Join(h) \in Seq(0 .. 255) /\ Len(des!Join(h)) = 8
           /\ des!Split(des!Join(h)) = des!Swap(h)
  <1> DEFINE w == h.R \o h.L
             x == des!Permute(w, des!FP)
             y == des!Permute(x, des!IP)
             u == SubSeq(y, 1, 32)
             v == SubSeq(y, 33, 64)
  <1>1. h.L \in Bits(32) /\ h.R \in Bits(32)
    BY DEF Halves
  <1>2. /\ w \in Bits(64)
        /\ \A i \in 1 .. 32 : w[i] = h.R[i]
        /\ \A i \in 1 .. 32 : w[32 + i] = h.L[i]
    BY <1>1, Beside, Zenon
  <1> HIDE DEF w
  <1>3. x \in Bits(64) /\ \A i \in 1 .. 64 : x[i] = w[des!FP[i]]
    BY <1>2, Permuted64
  <1> HIDE DEF x
  <1>4. y \in Bits(64) /\ \A i \in 1 .. 64 : y[i] = x[des!IP[i]]
    BY <1>3, Permuted64
  <1> HIDE DEF y
  <1>5. \A i \in 1 .. 64 : y[i] = w[i]
    BY <1>3, <1>4, TablesIPFP, Zenon
  <1>6. des!Join(h) = des!ToBytes(x)
    BY DEF des!Join, x, w
  <1>7. des!Split(des!Join(h)) = [L |-> u, R |-> v]
    <2>1. des!ToBits(des!Join(h)) = x
      BY <1>3, <1>6, BitsOfBytes
    <2> QED BY <2>1 DEF des!Split, y
  <1>8. u \in Bits(32) /\ \A i \in 1 .. 32 : u[i] = y[i]
    BY <1>4, Half
  <1>9. v \in Bits(32) /\ \A i \in 1 .. 32 : v[i] = y[32 + i]
    BY <1>4, Half
  <1> HIDE DEF u, v
  <1>10. u = h.R
    <2>1. ASSUME NEW i \in 1 .. 32 PROVE u[i] = h.R[i]
      <3>1. i \in 1 .. 64
        OBVIOUS
      <3> QED BY <1>2, <1>5, <1>8, <3>1
    <2> QED BY <1>1, <1>8, <2>1, SameBits, Lengths, Zenon
  <1>11. v = h.L
    <2>1. ASSUME NEW i \in 1 .. 32 PROVE v[i] = h.L[i]
      <3>1. 32 + i \in 1 .. 64
        OBVIOUS
      <3> QED BY <1>2, <1>5, <1>9, <3>1
    <2> QED BY <1>1, <1>9, <2>1, SameBits, Lengths, Zenon
  <1>12. des!Join(h) \in Seq(0 .. 255) /\ Len(des!Join(h)) = 8
    BY <1>3, <1>6, ToBytesType, Zenon
  <1> QED BY <1>7, <1>10, <1>11, <1>12 DEF des!Swap

\* And a block taken apart is put together again, once its halves have changed places.
LEMMA JoinSplit ==
    ASSUME NEW b \in Seq(0 .. 255), Len(b) = 8
    PROVE  /\ des!Split(b) \in Halves
           /\ des!Join(des!Swap(des!Split(b))) = b
  <1> DEFINE x == des!ToBits(b)
             y == des!Permute(x, des!IP)
             u == SubSeq(y, 1, 32)
             v == SubSeq(y, 33, 64)
             w == u \o v
             z == des!Permute(w, des!FP)
  <1>1. x \in Bits(64)
    BY ToBitsType
  <1>2. y \in Bits(64) /\ \A i \in 1 .. 64 : y[i] = x[des!IP[i]]
    <2> HIDE DEF x
    <2> QED BY <1>1, Permuted64
  <1>3. des!Split(b) = [L |-> u, R |-> v]
    BY DEF des!Split
  <1> HIDE DEF x, y
  <1>4. u \in Bits(32) /\ \A i \in 1 .. 32 : u[i] = y[i]
    BY <1>2, Half
  <1>5. v \in Bits(32) /\ \A i \in 1 .. 32 : v[i] = y[32 + i]
    BY <1>2, Half
  <1> HIDE DEF u, v
  <1>6. /\ w \in Bits(64)
        /\ \A i \in 1 .. 32 : w[i] = u[i]
        /\ \A i \in 1 .. 32 : w[32 + i] = v[i]
    BY <1>4, <1>5, Beside, Zenon
  <1> HIDE DEF w
  <1>7. ASSUME NEW i \in 1 .. 64 PROVE w[i] = y[i]
    <2>1. CASE i <= 32
      <3>1. i \in 1 .. 32
        BY <2>1
      <3> QED BY <1>4, <1>6, <3>1, Zenon
    <2>2. CASE ~(i <= 32)
      <3> DEFINE j == i - 32
      <3>1. j \in 1 .. 32 /\ 32 + j = i
        BY <2>2
      <3> HIDE DEF j
      <3>2. w[32 + j] = v[j] /\ v[j] = y[32 + j]
        BY <1>5, <1>6, <3>1, Zenon
      <3> QED BY <3>1, <3>2
    <2> QED BY <2>1, <2>2
  <1>8. z \in Bits(64) /\ \A i \in 1 .. 64 : z[i] = w[des!FP[i]]
    BY <1>6, Permuted64
  <1> HIDE DEF z
  <1>9. z = x
    <2>1. ASSUME NEW i \in 1 .. 64 PROVE z[i] = x[i]
      <3> DEFINE k == des!FP[i]
      <3>1. k \in 1 .. 64 /\ des!IP[k] = i
        BY TablesIPFP, Zenon
      <3>2. z[i] = w[k]
        BY <1>8, Zenon
      <3> HIDE DEF k
      <3> QED BY <1>2, <1>7, <3>1, <3>2, Zenon
    <2> QED BY <1>1, <1>8, <2>1, SameBits, Lengths, Zenon
  <1>10. des!Join(des!Swap(des!Split(b))) = des!ToBytes(x)
    BY <1>3, <1>9 DEF des!Join, des!Swap, w, z
  <1>11. des!ToBytes(x) = b
    BY BytesOfBits DEF x
  <1> QED BY <1>3, <1>4, <1>5, <1>10, <1>11 DEF Halves

\* What the invariant says, in the names of this module.
LEMMA DESNow ==
    des!Inv <=>
      /\ schedule \in [1 .. 16 -> Bits(48)]
      /\ sent \in Seq(Halves) /\ Len(sent) <= 17
      /\ sent # << >> => text \in Seq(0 .. 255) /\ Len(text) = 8 /\ sent[1] = des!Split(text)
      /\ \A i \in 1 .. Len(sent) - 1 : sent[i + 1] = des!Round(sent[i], schedule[i])
      /\ back \in Seq(Halves) /\ Len(back) <= 17
      /\ back # << >> => Len(sent) = 17
      /\ \A j \in 1 .. Len(back) : back[j] = des!Swap(sent[18 - j])
  <1>1. des!HalvesOfBits = Halves /\ [1 .. 48 -> des!Bit] = Bits(48) /\ des!Byte = 0 .. 255
    BY DEF des!HalvesOfBits, Halves, des!Bit, Bits, des!Byte
  <1>2. back \in Seq(Halves) => DOMAIN back = 1 .. Len(back)
    OBVIOUS
  <1> QED BY <1>1, <1>2, Zenon DEF des!Inv, des!Mirror

\* The same of the next state.
LEMMA DESNext ==
    (des!Inv <=>
      /\ schedule \in [1 .. 16 -> Bits(48)]
      /\ sent \in Seq(Halves) /\ Len(sent) <= 17
      /\ sent # << >> => text \in Seq(0 .. 255) /\ Len(text) = 8 /\ sent[1] = des!Split(text)
      /\ \A i \in 1 .. Len(sent) - 1 : sent[i + 1] = des!Round(sent[i], schedule[i])
      /\ back \in Seq(Halves) /\ Len(back) <= 17
      /\ back # << >> => Len(sent) = 17
      /\ \A j \in 1 .. Len(back) : back[j] = des!Swap(sent[18 - j]))'
  <1>1. des!HalvesOfBits = Halves /\ [1 .. 48 -> des!Bit] = Bits(48) /\ des!Byte = 0 .. 255
    BY DEF des!HalvesOfBits, Halves, des!Bit, Bits, des!Byte
  <1>2. back' \in Seq(Halves) => DOMAIN back' = 1 .. Len(back')
    OBVIOUS
  <1> QED BY <1>1, <1>2, Zenon DEF des!Inv, des!Mirror

\* An object never keyed has zeros for subkeys.
LEMMA DESStarts ==
    des!Init => des!Inv
  <1> SUFFICES ASSUME des!Init PROVE des!Inv
    OBVIOUS
  <1>1. schedule = [round \in 1 .. 16 |-> des!Zeros(48)] /\ sent = << >> /\ back = << >>
    BY DEF des!Init
  <1>2. des!Zeros(48) \in Bits(48)
    BY DEF des!Zeros, Bits
  <1>3. schedule \in [1 .. 16 -> Bits(48)]
    BY <1>1, <1>2
  <1> QED BY <1>1, <1>3, DESNow

\* Nothing is enciphered when setKey() changes the subkeys.
LEMMA DESSetKey ==
    des!Inv /\ (\E k \in DESKeys : des!SetKey(k)) => des!Inv'
  <1> SUFFICES ASSUME des!Inv, NEW k \in DESKeys, des!SetKey(k) PROVE des!Inv'
    OBVIOUS
  <1>1. /\ sent = << >> /\ Len(k) = 8 /\ schedule' = des!KeyExpansion(k)
        /\ text' = text /\ sent' = sent /\ back' = back
    BY DEF des!SetKey
  <1>2. k \in Seq(0 .. 255)
    BY DESAssumption
  <1>3. schedule' \in [1 .. 16 -> Bits(48)]
    BY <1>1, <1>2, KeyExpansionType
  <1> QED BY <1>1, <1>3, DESNow, DESNext

\* A block begins.
LEMMA DESEncryptBlock ==
    des!Inv /\ (\E b \in DESBlocks : des!EncryptBlock(b)) => des!Inv'
  <1> SUFFICES ASSUME des!Inv, NEW b \in DESBlocks, des!EncryptBlock(b) PROVE des!Inv'
    OBVIOUS
  <1>1. /\ sent = << >> /\ Len(b) = 8 /\ text' = b /\ sent' = << des!Split(b) >>
        /\ schedule' = schedule /\ back' = back
    BY DEF des!EncryptBlock
  <1>2. b \in Seq(0 .. 255)
    BY DESAssumption
  <1>3. des!Split(b) \in Halves
    BY <1>1, <1>2, JoinSplit
  <1>4. sent' \in Seq(Halves) /\ Len(sent') = 1 /\ sent'[1] = des!Split(b)
    BY <1>1, <1>3
  <1>5. back = << >>
    BY <1>1, DESNow
  <1> QED BY <1>1, <1>2, <1>4, <1>5, DESNow, DESNext

\* A round of encryptBlock().
LEMMA DESEncryptRound ==
    des!Inv /\ des!EncryptRound => des!Inv'
  <1> SUFFICES ASSUME des!Inv, des!EncryptRound PROVE des!Inv'
    OBVIOUS
  <1> DEFINE n == Len(sent)
             h == des!Round(sent[n], schedule[n])
  <1>1. /\ n \in 1 .. 16 /\ sent' = Append(sent, h)
        /\ schedule' = schedule /\ text' = text /\ back' = back
    BY DEF des!EncryptRound
  <1>2. sent \in Seq(Halves) /\ schedule \in [1 .. 16 -> Bits(48)]
    BY DESNow
  <1>3. sent[n] \in Halves /\ schedule[n] \in Bits(48)
    <2>1. n \in 1 .. Len(sent)
      BY <1>1
    <2> QED BY <1>1, <1>2, <2>1, ElementOfSeq, Zenon
  <1>4. h \in Halves
    BY <1>3, RoundBack
  <1> HIDE DEF h
  <1>5. /\ sent' \in Seq(Halves) /\ Len(sent') = n + 1
        /\ (\A i \in 1 .. n : sent'[i] = sent[i]) /\ sent'[n + 1] = h
    BY <1>1, <1>2, <1>4, AppendProperties
  <1>6. ASSUME NEW i \in 1 .. Len(sent') - 1 PROVE sent'[i + 1] = des!Round(sent'[i], schedule'[i])
    <2>1. CASE i = n
      BY <1>1, <1>5, <2>1 DEF h
    <2>2. CASE i # n
      <3>1. i \in 1 .. n - 1 /\ i \in 1 .. n /\ i + 1 \in 1 .. n
        BY <1>1, <1>5, <2>2
      <3>2. sent[i + 1] = des!Round(sent[i], schedule[i])
        BY <3>1, DESNow
      <3> QED BY <1>1, <1>5, <3>1, <3>2
    <2> QED BY <2>1, <2>2
  <1>7. back' = << >>
    <2>1. n # 17
      <3> HIDE DEF n
      <3> QED BY <1>1
    <2>2. back # << >> => n = 17
      BY DESNow
    <2> QED BY <1>1, <2>1, <2>2
  <1>8. text' \in Seq(0 .. 255) /\ Len(text') = 8 /\ sent'[1] = des!Split(text')
    <2>1. sent # << >>
      <3>1. sent = << >> => n = 0
        OBVIOUS
      <3>2. n # 0
        <4> HIDE DEF n
        <4> QED BY <1>1
      <3> QED BY <3>1, <3>2
    <2>2. text \in Seq(0 .. 255) /\ Len(text) = 8 /\ sent[1] = des!Split(text)
      BY <2>1, DESNow
    <2> QED BY <1>1, <1>5, <2>2
  <1>9. Len(sent') <= 17
    <2> HIDE DEF n
    <2> QED BY <1>1, <1>5
  <1> QED BY <1>1, <1>2, <1>5, <1>6, <1>7, <1>8, <1>9, DESNext

\* decryptBlock() takes the ciphertext apart: the last halves of encryption, swapped.
LEMMA DESDecryptBlock ==
    des!Inv /\ des!DecryptBlock => des!Inv'
  <1> SUFFICES ASSUME des!Inv, des!DecryptBlock PROVE des!Inv'
    OBVIOUS
  <1>1. /\ Len(sent) = 17 /\ back' = << des!Split(des!Join(sent[17])) >>
        /\ schedule' = schedule /\ text' = text /\ sent' = sent
    BY DEF des!DecryptBlock
  <1>2. sent[17] \in Halves
    <2>1. sent \in Seq(Halves) /\ 17 \in 1 .. Len(sent)
      BY <1>1, DESNow
    <2> QED BY <2>1, ElementOfSeq
  <1>3. des!Split(des!Join(sent[17])) = des!Swap(sent[17])
    BY <1>2, SplitJoin
  <1>4. des!Swap(sent[17]) \in Halves
    BY <1>2 DEF des!Swap, Halves
  <1>5. /\ back' \in Seq(Halves) /\ Len(back') = 1
        /\ \A j \in 1 .. Len(back') : back'[j] = des!Swap(sent'[18 - j])
    <2> DEFINE d == des!Swap(sent[17])
    <2>1. back' = << d >> /\ d \in Halves /\ d = des!Swap(sent'[18 - 1])
      BY <1>1, <1>3, <1>4
    <2> HIDE DEF d
    <2> QED BY <2>1
  <1>6. Len(back') <= 17 /\ Len(sent') = 17
    BY <1>1, <1>5
  <1>7. /\ schedule' \in [1 .. 16 -> Bits(48)]
        /\ sent' \in Seq(Halves) /\ Len(sent') <= 17
        /\ sent' # << >> => text' \in Seq(0 .. 255) /\ Len(text') = 8 /\ sent'[1] = des!Split(text')
        /\ \A i \in 1 .. Len(sent') - 1 : sent'[i + 1] = des!Round(sent'[i], schedule'[i])
    BY <1>1, DESNow, Zenon
  <1> QED BY <1>5, <1>6, <1>7, DESNext

\* A round of decryptBlock() undoes one of encryptBlock().
LEMMA DESDecryptRound ==
    des!Inv /\ des!DecryptRound => des!Inv'
  <1> SUFFICES ASSUME des!Inv, des!DecryptRound PROVE des!Inv'
    OBVIOUS
  <1> DEFINE n == Len(back)
             k == 17 - n
             h == des!Round(back[n], schedule[17 - n])
  <1>1. /\ n \in 1 .. 16 /\ back' = Append(back, h)
        /\ schedule' = schedule /\ text' = text /\ sent' = sent
    BY DEF des!DecryptRound
  <1>2. back \in Seq(Halves) /\ sent \in Seq(Halves) /\ schedule \in [1 .. 16 -> Bits(48)]
    BY DESNow
  <1>3. \A j \in 1 .. n : back[j] = des!Swap(sent[18 - j])
    BY DESNow
  <1>4. Len(sent) = 17
    <2>1. back = << >> => n = 0
      OBVIOUS
    <2>2. back # << >>
      BY <1>1, <2>1
    <2> QED BY <2>2, DESNow
  <1>5. k \in 1 .. 16 /\ k \in 1 .. Len(sent) - 1 /\ k \in 1 .. Len(sent) /\ k + 1 = 18 - n
        /\ n \in 1 .. n /\ 17 - n = k
    <2> HIDE DEF n
    <2> QED BY <1>1, <1>4
  <1>6. sent[k + 1] = des!Round(sent[k], schedule[k])
    <2>1. \A i \in 1 .. Len(sent) - 1 : sent[i + 1] = des!Round(sent[i], schedule[i])
      BY DESNow
    <2> HIDE DEF k
    <2> QED BY <1>5, <2>1
  <1>7. sent[k] \in Halves /\ schedule[k] \in Bits(48)
    <2> HIDE DEF k
    <2> QED BY <1>2, <1>5, ElementOfSeq, Zenon
  <1>8. back[n] = des!Swap(sent[k + 1])
    <2> HIDE DEF n, k
    <2> QED BY <1>3, <1>5
  <1>9. h = des!Round(des!Swap(des!Round(sent[k], schedule[k])), schedule[k])
    BY <1>6, <1>8
  <1> HIDE DEF h, k
  <1>10. h = des!Swap(sent[k]) /\ h \in Halves
    <2>1. h = des!Swap(sent[k])
      BY <1>7, <1>9, RoundBack
    <2> QED BY <1>7, <2>1 DEF des!Swap, Halves
  <1>11. /\ back' \in Seq(Halves) /\ Len(back') = n + 1
         /\ (\A i \in 1 .. n : back'[i] = back[i]) /\ back'[n + 1] = h
    BY <1>1, <1>2, <1>10, AppendProperties
  <1> HIDE DEF n
  <1>12. ASSUME NEW j \in 1 .. Len(back') PROVE back'[j] = des!Swap(sent'[18 - j])
    <2>1. CASE j = n + 1
      <3>1. 18 - j = k
        BY <1>1, <2>1 DEF k
      <3> QED BY <1>1, <1>10, <1>11, <2>1, <3>1
    <2>2. CASE j # n + 1
      <3>1. j \in 1 .. n
        BY <1>1, <1>11, <2>2
      <3> QED BY <1>1, <1>3, <1>11, <3>1
    <2> QED BY <2>1, <2>2
  <1>13. Len(back') <= 17
    BY <1>1, <1>11
  <1>14. /\ schedule' \in [1 .. 16 -> Bits(48)]
         /\ sent' \in Seq(Halves) /\ Len(sent') <= 17
         /\ sent' # << >> => text' \in Seq(0 .. 255) /\ Len(text') = 8 /\ sent'[1] = des!Split(text')
         /\ \A i \in 1 .. Len(sent') - 1 : sent'[i + 1] = des!Round(sent'[i], schedule'[i])
    BY <1>1, DESNow
  <1> QED BY <1>1, <1>4, <1>11, <1>12, <1>13, <1>14, DESNext, Zenon

\* Between calls nothing is kept but the subkeys.
LEMMA DESReturn ==
    des!Inv /\ des!Return => des!Inv'
  <1> SUFFICES ASSUME des!Inv, des!Return PROVE des!Inv'
    OBVIOUS
  <1>1. text' = << >> /\ sent' = << >> /\ back' = << >> /\ schedule' = schedule
    BY DEF des!Return
  <1> QED BY <1>1, DESNow, DESNext

\* Swapped, the halves a block starts with join to the block.
LEMMA DESGivesBack ==
    des!Inv => des!Mirror /\ des!RoundTrip
  <1> SUFFICES ASSUME des!Inv, Len(back) = 17 PROVE des!Join(back[17]) = text
    BY DEF des!Inv, des!RoundTrip
  <1>1. back # << >>
    <2>1. Len(<< >>) = 0
      OBVIOUS
    <2> QED BY <2>1
  <1>2. Len(sent) = 17 /\ back[17] = des!Swap(sent[1])
    BY <1>1, DESNow
  <1>3. sent # << >>
    BY <1>2
  <1>4. text \in Seq(0 .. 255) /\ Len(text) = 8 /\ sent[1] = des!Split(text)
    BY <1>3, DESNow
  <1> QED BY <1>2, <1>4, JoinSplit

\* Permuted choice 1 takes no bit from the end of a byte.
LEMMA ParityFree == \A i \in 1 .. 56 : (des!PC1[i] - 1) % 8 # 7
  BY SMTT(60) DEF des!PC1

\* The other bits of a byte are those of its half.
LEMMA HalvesWeigh ==
    ASSUME NEW x \in 0 .. 255, NEW y \in 0 .. 255, x \div 2 = y \div 2, NEW b \in 0 .. 6
    PROVE  (x \div des!Weight[b + 1]) % 2 = (y \div des!Weight[b + 1]) % 2
  <1>1. ASSUME NEW z \in 0 .. 255
        PROVE  /\ z \div 4 = (z \div 2) \div 2 /\ z \div 8 = (z \div 2) \div 4
               /\ z \div 16 = (z \div 2) \div 8 /\ z \div 32 = (z \div 2) \div 16
               /\ z \div 64 = (z \div 2) \div 32 /\ z \div 128 = (z \div 2) \div 64
    OBVIOUS
  <1>2. /\ x \div 4 = y \div 4 /\ x \div 8 = y \div 8 /\ x \div 16 = y \div 16
        /\ x \div 32 = y \div 32 /\ x \div 64 = y \div 64 /\ x \div 128 = y \div 128
    <2>1. /\ x \div 4 = (x \div 2) \div 2 /\ x \div 8 = (x \div 2) \div 4
          /\ x \div 16 = (x \div 2) \div 8 /\ x \div 32 = (x \div 2) \div 16
          /\ x \div 64 = (x \div 2) \div 32 /\ x \div 128 = (x \div 2) \div 64
      BY <1>1
    <2>2. /\ y \div 4 = (y \div 2) \div 2 /\ y \div 8 = (y \div 2) \div 4
          /\ y \div 16 = (y \div 2) \div 8 /\ y \div 32 = (y \div 2) \div 16
          /\ y \div 64 = (y \div 2) \div 32 /\ y \div 128 = (y \div 2) \div 64
      BY <1>1
    <2> QED BY <2>1, <2>2
  <1>3. /\ des!Weight[1] = 128 /\ des!Weight[2] = 64 /\ des!Weight[3] = 32 /\ des!Weight[4] = 16
        /\ des!Weight[5] = 8 /\ des!Weight[6] = 4 /\ des!Weight[7] = 2
    BY DEF des!Weight
  <1>4. b = 0 \/ b = 1 \/ b = 2 \/ b = 3 \/ b = 4 \/ b = 5 \/ b = 6
    OBVIOUS
  <1>5. x \div des!Weight[b + 1] = y \div des!Weight[b + 1]
    BY <1>2, <1>3, <1>4
  <1> QED BY <1>5

\* Two keys whose bytes differ in the low bit only have one schedule.
LEMMA OneSchedule ==
    ASSUME NEW k \in Seq(0 .. 255), NEW q \in Seq(0 .. 255), Len(k) = 8, Len(q) = 8,
           \A i \in 1 .. 8 : k[i] \div 2 = q[i] \div 2
    PROVE  des!KeyExpansion(k) = des!KeyExpansion(q)
  <1>1. ASSUME NEW j \in 1 .. 64, (j - 1) % 8 # 7
        PROVE  des!ToBits(k)[j] = des!ToBits(q)[j]
    <2> DEFINE n == (j - 1) \div 8 + 1  b == (j - 1) % 8
    <2>1. n \in 1 .. 8 /\ b \in 0 .. 6
      BY <1>1
    <2> HIDE DEF n, b
    <2>2. k[n] \in 0 .. 255 /\ q[n] \in 0 .. 255 /\ k[n] \div 2 = q[n] \div 2
      <3>1. k[n] \in 0 .. 255 /\ q[n] \in 0 .. 255
        BY <2>1, ElementOfSeq, Zenon
      <3>2. k[n] \div 2 = q[n] \div 2
        BY <2>1, Zenon
      <3> QED BY <3>1, <3>2
    <2>3. (k[n] \div des!Weight[b + 1]) % 2 = (q[n] \div des!Weight[b + 1]) % 2
      BY <2>1, <2>2, HalvesWeigh, Zenon
    <2>4. /\ des!ToBits(k)[j] = (k[n] \div des!Weight[b + 1]) % 2
          /\ des!ToBits(q)[j] = (q[n] \div des!Weight[b + 1]) % 2
      BY Zenon DEF des!ToBits, n, b
    <2> QED BY <2>3, <2>4
  <1>2. des!Permute(des!ToBits(k), des!PC1) = des!Permute(des!ToBits(q), des!PC1)
    <2> DEFINE u == des!ToBits(k)  v == des!ToBits(q)
    <2> HIDE DEF u, v
    <2>1. \A i \in 1 .. 56 : u[des!PC1[i]] = v[des!PC1[i]]
      BY <1>1, ParityFree, Tables, Zenon DEF u, v
    <2>2. des!Permute(u, des!PC1) = des!Permute(v, des!PC1)
      BY <2>1, Tables DEF des!Permute
    <2> QED BY <2>2 DEF u, v
  <1> QED BY <1>2, Zenon DEF des!KeyExpansion

----------------------------------------------------------------------------
(*                                   AES                                   *)

Byte == 0 .. 255

\* The bit of x that weighs w.
Digit(x, w) == (x \div w) % 2

Weights == {1, 2, 4, 8, 16, 32, 64, 128}

\* A byte is its bits.
LEMMA DigitBit ==
    ASSUME NEW x \in Byte, NEW w \in Weights
    PROVE  Digit(x, w) \in {0, 1}
  BY DEF Byte, Weights, Digit

\* A byte is the sum of its bits,
LEMMA DigitsSum ==
    ASSUME NEW x \in Byte
    PROVE  x = 128 * Digit(x, 128) + 64 * Digit(x, 64) + 32 * Digit(x, 32) + 16 * Digit(x, 16)
               + 8 * Digit(x, 8) + 4 * Digit(x, 4) + 2 * Digit(x, 2) + Digit(x, 1)
  <1> DEFINE a0 == x \div 1  a1 == x \div 2  a2 == x \div 4  a3 == x \div 8
             a4 == x \div 16  a5 == x \div 32  a6 == x \div 64  a7 == x \div 128
  <1> USE DEF Byte
  <1>1. a0 = x /\ a0 = 2 * a1 + (a0 % 2) /\ a1 = 2 * a2 + (a1 % 2)
    OBVIOUS
  <1>2. a2 = 2 * a3 + (a2 % 2) /\ a3 = 2 * a4 + (a3 % 2)
    OBVIOUS
  <1>3. a4 = 2 * a5 + (a4 % 2) /\ a5 = 2 * a6 + (a5 % 2)
    OBVIOUS
  <1>4. a6 = 2 * a7 + (a6 % 2) /\ a7 = (a7 % 2)
    OBVIOUS
  <1>5. a0 \in Int /\ a1 \in Int /\ a2 \in Int /\ a3 \in Int
    OBVIOUS
  <1>6. a4 \in Int /\ a5 \in Int /\ a6 \in Int /\ a7 \in Int
    OBVIOUS
  <1> DEFINE r0 == a0 % 2  r1 == a1 % 2  r2 == a2 % 2  r3 == a3 % 2
             r4 == a4 % 2  r5 == a5 % 2  r6 == a6 % 2  r7 == a7 % 2
  <1> HIDE DEF a0, a1, a2, a3, a4, a5, a6, a7
  <1>7. r0 \in Int /\ r1 \in Int /\ r2 \in Int /\ r3 \in Int
    BY <1>5
  <1>8. r4 \in Int /\ r5 \in Int /\ r6 \in Int /\ r7 \in Int
    BY <1>6
  <1> HIDE DEF r0, r1, r2, r3, r4, r5, r6, r7
  <1>9. x = 128 * r7 + 64 * r6 + 32 * r5 + 16 * r4 + 8 * r3 + 4 * r2 + 2 * r1 + r0
    BY <1>1, <1>2, <1>3, <1>4, <1>5, <1>6, <1>7, <1>8 DEF r0, r1, r2, r3, r4, r5, r6, r7
  <1> QED BY <1>9 DEF r0, r1, r2, r3, r4, r5, r6, r7, a0, a1, a2, a3, a4, a5, a6, a7, Digit

\* bytes with the same bits are the same,
LEMMA SameDigits ==
    ASSUME NEW x \in Byte, NEW y \in Byte, \A w \in Weights : Digit(x, w) = Digit(y, w)
    PROVE  x = y
  <1>1. /\ Digit(x, 128) = Digit(y, 128) /\ Digit(x, 64) = Digit(y, 64)
        /\ Digit(x, 32) = Digit(y, 32) /\ Digit(x, 16) = Digit(y, 16)
        /\ Digit(x, 8) = Digit(y, 8) /\ Digit(x, 4) = Digit(y, 4)
        /\ Digit(x, 2) = Digit(y, 2) /\ Digit(x, 1) = Digit(y, 1)
    BY Zenon DEF Weights
  <1>2. x = 128 * Digit(x, 128) + 64 * Digit(x, 64) + 32 * Digit(x, 32) + 16 * Digit(x, 16)
              + 8 * Digit(x, 8) + 4 * Digit(x, 4) + 2 * Digit(x, 2) + Digit(x, 1)
    BY DigitsSum
  <1>3. y = 128 * Digit(y, 128) + 64 * Digit(y, 64) + 32 * Digit(y, 32) + 16 * Digit(y, 16)
              + 8 * Digit(y, 8) + 4 * Digit(y, 4) + 2 * Digit(y, 2) + Digit(y, 1)
    BY DigitsSum
  <1> QED BY <1>1, <1>2, <1>3

\* The number of eight bits, and its bits.
Number(b7, b6, b5, b4, b3, b2, b1, b0) ==
    128 * b7 + 64 * b6 + 32 * b5 + 16 * b4 + 8 * b3 + 4 * b2 + 2 * b1 + b0

\* and eight bits are the bits of the byte they make.
LEMMA NumberOfBits ==
    ASSUME NEW b7 \in {0, 1}, NEW b6 \in {0, 1}, NEW b5 \in {0, 1}, NEW b4 \in {0, 1},
           NEW b3 \in {0, 1}, NEW b2 \in {0, 1}, NEW b1 \in {0, 1}, NEW b0 \in {0, 1},
           NEW x, x = Number(b7, b6, b5, b4, b3, b2, b1, b0)
    PROVE  /\ x \in Byte
           /\ Digit(x, 128) = b7 /\ Digit(x, 64) = b6 /\ Digit(x, 32) = b5 /\ Digit(x, 16) = b4
           /\ Digit(x, 8) = b3 /\ Digit(x, 4) = b2 /\ Digit(x, 2) = b1 /\ Digit(x, 1) = b0
  BY SMTT(60) DEF Byte, Digit, Number

\* Xor adds bit by bit, without a carry.
LEMMA NibbleXor ==
    ASSUME NEW a \in 0 .. 15, NEW b \in 0 .. 15
    PROVE  aes!XorNibble[a][b] = 8 * ((Digit(a, 8) + Digit(b, 8)) % 2)
                                 + 4 * ((Digit(a, 4) + Digit(b, 4)) % 2)
                                 + 2 * ((Digit(a, 2) + Digit(b, 2)) % 2)
                                 + ((Digit(a, 1) + Digit(b, 1)) % 2)
  <1>1. aes!XorNibble[a][b] = 8 * ((a \div 8 + b \div 8) % 2) + 4 * ((a \div 4 + b \div 4) % 2)
                              + 2 * ((a \div 2 + b \div 2) % 2) + ((a + b) % 2)
    BY DEF aes!XorNibble
  <1>2. ASSUME NEW x \in Int, NEW y \in Int PROVE (x + y) % 2 = ((x % 2) + (y % 2)) % 2
    OBVIOUS
  <1>3. /\ (a \div 8 + b \div 8) % 2 = (Digit(a, 8) + Digit(b, 8)) % 2
        /\ (a \div 4 + b \div 4) % 2 = (Digit(a, 4) + Digit(b, 4)) % 2
    BY <1>2 DEF Digit
  <1>4. (a \div 2 + b \div 2) % 2 = (Digit(a, 2) + Digit(b, 2)) % 2
    BY <1>2 DEF Digit
  <1>5. (a + b) % 2 = (Digit(a, 1) + Digit(b, 1)) % 2
    BY <1>2 DEF Digit
  <1> QED BY <1>1, <1>3, <1>4, <1>5, Zenon

\* What Xor does to each bit of two bytes.
LEMMA XorDigits ==
    ASSUME NEW a \in Byte, NEW b \in Byte
    PROVE  /\ aes!Xor(a, b) \in Byte
           /\ \A w \in Weights : Digit(aes!Xor(a, b), w) = (Digit(a, w) + Digit(b, w)) % 2
  <1> DEFINE h == a \div 16  l == a % 16  g == b \div 16  k == b % 16
             s(w) == (Digit(a, w) + Digit(b, w)) % 2
             x == aes!Xor(a, b)
  <1>1. h \in 0 .. 15 /\ l \in 0 .. 15 /\ g \in 0 .. 15 /\ k \in 0 .. 15
    BY DEF Byte
  <1>2. /\ Digit(h, 8) = Digit(a, 128) /\ Digit(h, 4) = Digit(a, 64)
        /\ Digit(h, 2) = Digit(a, 32) /\ Digit(h, 1) = Digit(a, 16)
    BY DEF Byte, Digit
  <1>3. /\ Digit(l, 8) = Digit(a, 8) /\ Digit(l, 4) = Digit(a, 4)
        /\ Digit(l, 2) = Digit(a, 2) /\ Digit(l, 1) = Digit(a, 1)
    BY DEF Byte, Digit
  <1>4. /\ Digit(g, 8) = Digit(b, 128) /\ Digit(g, 4) = Digit(b, 64)
        /\ Digit(g, 2) = Digit(b, 32) /\ Digit(g, 1) = Digit(b, 16)
    BY DEF Byte, Digit
  <1>5. /\ Digit(k, 8) = Digit(b, 8) /\ Digit(k, 4) = Digit(b, 4)
        /\ Digit(k, 2) = Digit(b, 2) /\ Digit(k, 1) = Digit(b, 1)
    BY DEF Byte, Digit
  <1>6. x = 16 * aes!XorNibble[h][g] + aes!XorNibble[l][k]
    BY DEF aes!Xor
  <1> HIDE DEF h, l, g, k, x
  <1>7. aes!XorNibble[h][g] = 8 * s(128) + 4 * s(64) + 2 * s(32) + s(16)
    <2>1. aes!XorNibble[h][g] = 8 * ((Digit(h, 8) + Digit(g, 8)) % 2)
                                + 4 * ((Digit(h, 4) + Digit(g, 4)) % 2)
                                + 2 * ((Digit(h, 2) + Digit(g, 2)) % 2)
                                + ((Digit(h, 1) + Digit(g, 1)) % 2)
      BY <1>1, NibbleXor
    <2> QED BY <1>2, <1>4, <2>1
  <1>8. aes!XorNibble[l][k] = 8 * s(8) + 4 * s(4) + 2 * s(2) + s(1)
    BY <1>1, <1>3, <1>5, NibbleXor, Zenon
  <1>9. \A w \in Weights : s(w) \in {0, 1}
    BY DigitBit
  <1> DEFINE b7 == s(128)  b6 == s(64)  b5 == s(32)  b4 == s(16)
             b3 == s(8)  b2 == s(4)  b1 == s(2)  b0 == s(1)
  <1>10. /\ b7 \in {0, 1} /\ b6 \in {0, 1} /\ b5 \in {0, 1} /\ b4 \in {0, 1}
         /\ b3 \in {0, 1} /\ b2 \in {0, 1} /\ b1 \in {0, 1} /\ b0 \in {0, 1}
    BY <1>9, Zenon DEF Weights
  <1>11. x = 16 * (8 * b7 + 4 * b6 + 2 * b5 + b4) + (8 * b3 + 4 * b2 + 2 * b1 + b0)
    BY <1>6, <1>7, <1>8, Zenon
  <1> HIDE DEF s, b7, b6, b5, b4, b3, b2, b1, b0
  <1>12. x = Number(b7, b6, b5, b4, b3, b2, b1, b0)
    BY <1>10, <1>11 DEF Number
  <1>13. /\ x \in Byte
         /\ Digit(x, 128) = b7 /\ Digit(x, 64) = b6 /\ Digit(x, 32) = b5 /\ Digit(x, 16) = b4
         /\ Digit(x, 8) = b3 /\ Digit(x, 4) = b2 /\ Digit(x, 2) = b1 /\ Digit(x, 1) = b0
    BY <1>10, <1>12, NumberOfBits
  <1>14. \A w \in Weights : Digit(x, w) = s(w)
    BY <1>13, Zenon DEF Weights, b7, b6, b5, b4, b3, b2, b1, b0
  <1> QED BY <1>13, <1>14 DEF x, s

\* Xor is a group's sum in which every byte is its own opposite.
LEMMA XorGroup ==
    /\ \A a \in Byte : aes!Xor(a, a) = 0 /\ aes!Xor(a, 0) = a /\ aes!Xor(0, a) = a
    /\ \A a \in Byte, b \in Byte : aes!Xor(a, b) = aes!Xor(b, a) /\ aes!Xor(aes!Xor(a, b), b) = a
  <1>1. 0 \in Byte /\ \A w \in Weights : Digit(0, w) = 0
    BY DEF Byte, Weights, Digit
  <1>2. ASSUME NEW a \in Byte, NEW b \in Byte
        PROVE  aes!Xor(a, b) = aes!Xor(b, a) /\ aes!Xor(aes!Xor(a, b), b) = a
    <2> DEFINE c == aes!Xor(a, b)
               d == aes!Xor(b, a)
               e == aes!Xor(c, b)
    <2>1. c \in Byte /\ \A w \in Weights : Digit(c, w) = (Digit(a, w) + Digit(b, w)) % 2
      BY XorDigits
    <2>2. d \in Byte /\ \A w \in Weights : Digit(d, w) = (Digit(b, w) + Digit(a, w)) % 2
      BY XorDigits
    <2> HIDE DEF c, d
    <2>3. e \in Byte /\ \A w \in Weights : Digit(e, w) = (Digit(c, w) + Digit(b, w)) % 2
      BY <2>1, XorDigits
    <2> HIDE DEF e
    <2>4. ASSUME NEW w \in Weights PROVE Digit(c, w) = Digit(d, w) /\ Digit(e, w) = Digit(a, w)
      <3>1. Digit(a, w) \in {0, 1} /\ Digit(b, w) \in {0, 1}
        BY DigitBit
      <3> QED BY <2>1, <2>2, <2>3, <3>1
    <2>5. c = d /\ e = a
      BY <2>1, <2>2, <2>3, <2>4, SameDigits
    <2> QED BY <2>5 DEF c, d, e
  <1>3. ASSUME NEW a \in Byte PROVE aes!Xor(a, a) = 0 /\ aes!Xor(a, 0) = a /\ aes!Xor(0, a) = a
    <2> DEFINE c == aes!Xor(a, a)
               d == aes!Xor(a, 0)
    <2>1. c \in Byte /\ \A w \in Weights : Digit(c, w) = (Digit(a, w) + Digit(a, w)) % 2
      BY XorDigits
    <2>2. d \in Byte /\ \A w \in Weights : Digit(d, w) = (Digit(a, w) + Digit(0, w)) % 2
      BY <1>1, XorDigits
    <2>3. aes!Xor(0, a) = d
      BY <1>1, <1>2
    <2> HIDE DEF c, d
    <2>4. ASSUME NEW w \in Weights PROVE Digit(c, w) = Digit(0, w) /\ Digit(d, w) = Digit(a, w)
      <3>1. Digit(a, w) \in {0, 1}
        BY DigitBit
      <3> QED BY <1>1, <2>1, <2>2, <3>1
    <2>5. c = 0 /\ d = a
      BY <1>1, <2>1, <2>2, <2>4, SameDigits
    <2> QED BY <2>3, <2>5 DEF c, d
  <1> QED BY <1>2, <1>3

\* What xtime() does to the bits: one place up, and the overflow folded back.
LEMMA XtimeDigits ==
    ASSUME NEW x \in Byte
    PROVE  /\ aes!xtime(x) \in Byte
           /\ \A w \in Weights : Digit(aes!xtime(x), w) =
                 IF w = 1 THEN Digit(x, 128)
                 ELSE IF w \in {2, 8, 16} THEN (Digit(x, w \div 2) + Digit(x, 128)) % 2
                 ELSE Digit(x, w \div 2)
  <1> DEFINE a == (2 * x) % 256
             t == x \div 128
             b == t * 27
             y == aes!xtime(x)
  <1>1. a \in Byte /\ t \in {0, 1} /\ Digit(x, 128) = t
    BY DEF Byte, Digit
  <1>2. /\ Digit(a, 1) = 0 /\ Digit(a, 2) = Digit(x, 1) /\ Digit(a, 4) = Digit(x, 2)
        /\ Digit(a, 8) = Digit(x, 4)
    BY SMTT(30) DEF Byte, Digit
  <1>3. /\ Digit(a, 16) = Digit(x, 8) /\ Digit(a, 32) = Digit(x, 16) /\ Digit(a, 64) = Digit(x, 32)
        /\ Digit(a, 128) = Digit(x, 64)
    BY SMTT(30) DEF Byte, Digit
  <1>4. y = aes!Xor(a, b)
    BY DEF aes!xtime
  <1> HIDE DEF a, t, y
  <1>5. b \in Byte /\ Digit(b, 1) = t /\ Digit(b, 2) = t /\ Digit(b, 4) = 0 /\ Digit(b, 8) = t
        /\ Digit(b, 16) = t /\ Digit(b, 32) = 0 /\ Digit(b, 64) = 0 /\ Digit(b, 128) = 0
    BY <1>1 DEF Byte, Digit
  <1> HIDE DEF b
  <1>6. y \in Byte /\ \A w \in Weights : Digit(y, w) = (Digit(a, w) + Digit(b, w)) % 2
    BY <1>1, <1>4, <1>5, XorDigits
  <1>7. \A w \in {1, 2, 4, 8, 16, 32, 64, 128} : Digit(x, w) \in {0, 1}
    BY DigitBit DEF Weights
  <1>8. /\ Digit(y, 1) = t
        /\ Digit(y, 2) = (Digit(x, 1) + t) % 2 /\ Digit(y, 4) = Digit(x, 2)
        /\ Digit(y, 8) = (Digit(x, 4) + t) % 2 /\ Digit(y, 16) = (Digit(x, 8) + t) % 2
        /\ Digit(y, 32) = Digit(x, 16) /\ Digit(y, 64) = Digit(x, 32) /\ Digit(y, 128) = Digit(x, 64)
    BY <1>1, <1>2, <1>3, <1>5, <1>6, <1>7, SMTT(30) DEF Weights
  <1>9. \A w \in Weights : Digit(y, w) =
                 IF w = 1 THEN Digit(x, 128)
                 ELSE IF w \in {2, 8, 16} THEN (Digit(x, w \div 2) + Digit(x, 128)) % 2
                 ELSE Digit(x, w \div 2)
    BY <1>1, <1>8, SMTT(30) DEF Weights
  <1> QED BY <1>6, <1>9 DEF y

\* xtime() of a sum is the sum of the two.
LEMMA XtimeLinear ==
    ASSUME NEW a \in Byte, NEW b \in Byte
    PROVE  aes!xtime(aes!Xor(a, b)) = aes!Xor(aes!xtime(a), aes!xtime(b))
  <1> DEFINE c == aes!Xor(a, b)
             x == aes!xtime(a)
             y == aes!xtime(b)
             z == aes!xtime(c)
             u == aes!Xor(x, y)
             up(p, w) == IF w = 1 THEN Digit(p, 128)
                         ELSE IF w \in {2, 8, 16} THEN (Digit(p, w \div 2) + Digit(p, 128)) % 2
                         ELSE Digit(p, w \div 2)
  <1>1. c \in Byte /\ \A w \in Weights : Digit(c, w) = (Digit(a, w) + Digit(b, w)) % 2
    BY XorDigits
  <1>2. x \in Byte /\ y \in Byte
        /\ \A w \in Weights : Digit(x, w) = up(a, w) /\ Digit(y, w) = up(b, w)
    BY XtimeDigits
  <1> HIDE DEF c, x, y
  <1>3. z \in Byte /\ \A w \in Weights : Digit(z, w) = up(c, w)
    BY <1>1, XtimeDigits
  <1>4. u \in Byte /\ \A w \in Weights : Digit(u, w) = (Digit(x, w) + Digit(y, w)) % 2
    BY <1>2, XorDigits
  <1> HIDE DEF u, z
  <1>5. ASSUME NEW w \in Weights PROVE Digit(z, w) = Digit(u, w)
    <2>1. 128 \in Weights /\ (w # 1 => w \div 2 \in Weights)
      BY DEF Weights
    <2> DEFINE v == w \div 2
    <2> HIDE DEF v
    <2>2. /\ Digit(a, 128) \in {0, 1} /\ Digit(b, 128) \in {0, 1}
          /\ w # 1 => Digit(a, v) \in {0, 1} /\ Digit(b, v) \in {0, 1}
      BY <2>1, DigitBit DEF v
    <2>3. /\ Digit(c, 128) = (Digit(a, 128) + Digit(b, 128)) % 2
          /\ w # 1 => Digit(c, v) = (Digit(a, v) + Digit(b, v)) % 2
      BY <1>1, <2>1 DEF v
    <2>4. /\ Digit(z, w) = up(c, w) /\ Digit(u, w) = (up(a, w) + up(b, w)) % 2
      BY <1>2, <1>3, <1>4
    <2>5. CASE w = 1
      BY <2>2, <2>3, <2>4, <2>5
    <2>6. CASE w \in {2, 8, 16}
      <3>1. /\ Digit(z, w) = (Digit(c, v) + Digit(c, 128)) % 2
            /\ Digit(u, w) = (((Digit(a, v) + Digit(a, 128)) % 2) + ((Digit(b, v) + Digit(b, 128)) % 2)) % 2
        BY <2>4, <2>6 DEF v
      <3> QED BY <2>2, <2>3, <2>6, <3>1
    <2>7. CASE w # 1 /\ w \notin {2, 8, 16}
      <3>1. Digit(z, w) = Digit(c, v) /\ Digit(u, w) = (Digit(a, v) + Digit(b, v)) % 2
        BY <2>4, <2>7 DEF v
      <3> QED BY <2>2, <2>3, <2>7, <3>1
    <2> QED BY <2>5, <2>6, <2>7
  <1> HIDE DEF up
  <1>6. z = u
    BY <1>3, <1>4, <1>5, SameDigits
  <1> QED BY <1>6 DEF z, u, c, x, y

\* What multiply() does, one bit of its factor after the other.
LEMMA MultiplyOnce ==
    /\ \A x \in Byte : aes!multiply[0][x] = 0
    /\ \A y \in 1 .. 15 : \A x \in Byte :
          aes!multiply[y][x] = aes!Xor((y % 2) * x, aes!multiply[y \div 2][aes!xtime(x)])
  <1> DEFINE X(x) == aes!xtime(x)
             term(y, x) == aes!Xor((y % 2) * x, aes!Xor(((y \div 2) % 2) * X(x),
                              aes!Xor(((y \div 4) % 2) * X(X(x)), ((y \div 8) % 2) * X(X(X(x))))))
             f == [y \in 0 .. 15 |-> [x \in Byte |-> term(y, x)]]
             step(g, y, x) == IF y = 0 THEN 0 ELSE aes!Xor((y % 2) * x, g[y \div 2][X(x)])
             def(g) == g = [y \in 0 .. 15 |-> [x \in Byte |-> step(g, y, x)]]
  <1>1. \A x \in Byte : X(x) \in Byte
    BY XtimeDigits
  <1> HIDE DEF X
  <1>2. ASSUME NEW x \in Byte PROVE term(0, x) = 0
    <2> DEFINE x1 == X(x)
               x2 == X(x1)
               x3 == X(x2)
    <2>1. x1 \in Byte /\ x2 \in Byte /\ x3 \in Byte
      BY <1>1
    <2>2. 0 \in Byte /\ aes!Xor(0, 0) = 0
      <3>1. 0 \in Byte
        BY DEF Byte
      <3> QED BY <3>1, XorGroup
    <2> HIDE DEF x1, x2, x3
    <2>3. /\ (0 % 2) * x = 0 /\ ((0 \div 2) % 2) * x1 = 0
          /\ ((0 \div 4) % 2) * x2 = 0 /\ ((0 \div 8) % 2) * x3 = 0
      BY <2>1 DEF Byte
    <2>4. aes!Xor((0 % 2) * x, aes!Xor(((0 \div 2) % 2) * x1,
                              aes!Xor(((0 \div 4) % 2) * x2, ((0 \div 8) % 2) * x3))) = 0
      BY <2>2, <2>3, Zenon
    <2> QED BY <2>4 DEF x1, x2, x3
  <1>3. ASSUME NEW y \in 1 .. 15, NEW x \in Byte
        PROVE  term(y, x) = aes!Xor((y % 2) * x, term(y \div 2, X(x)))
    <2> DEFINE x1 == X(x)
               x2 == X(x1)
               x3 == X(x2)
               x4 == X(x3)
    <2>1. x1 \in Byte /\ x2 \in Byte /\ x3 \in Byte /\ x4 \in Byte
      BY <1>1
    <2> HIDE DEF x1, x2, x3, x4
    <2>2. /\ (y \div 2) \div 2 = y \div 4 /\ (y \div 2) \div 4 = y \div 8
          /\ ((y \div 2) \div 8) % 2 = 0
      OBVIOUS
    <2>3. (((y \div 2) \div 8) % 2) * x4 = 0
      <3> DEFINE k == ((y \div 2) \div 8) % 2
      <3>1. k = 0 /\ 0 * x4 = 0
        BY <2>1, <2>2 DEF Byte
      <3> HIDE DEF k
      <3>2. k * x4 = 0
        BY <3>1
      <3> QED BY <3>2 DEF k
    <2> DEFINE t3 == ((y \div 8) % 2) * x3
    <2>4. t3 \in Byte
      <3>1. (y \div 8) % 2 \in {0, 1}
        OBVIOUS
      <3> DEFINE k == (y \div 8) % 2
      <3> HIDE DEF k
      <3>2. k * x3 \in Byte
        BY <2>1, <3>1 DEF k, Byte
      <3> QED BY <3>2 DEF k
    <2> HIDE DEF t3
    <2>5. aes!Xor(t3, 0) = t3
      BY <2>4, XorGroup
    <2>6. term(y, x) = aes!Xor((y % 2) * x, aes!Xor(((y \div 2) % 2) * x1,
                              aes!Xor(((y \div 4) % 2) * x2, t3)))
      BY Zenon DEF x1, x2, x3, t3
    <2>7. term(y \div 2, x1) = aes!Xor(((y \div 2) % 2) * x1, aes!Xor((((y \div 2) \div 2) % 2) * x2,
                 aes!Xor((((y \div 2) \div 4) % 2) * x3, (((y \div 2) \div 8) % 2) * x4)))
      BY Zenon DEF x2, x3, x4
    <2>8. term(y \div 2, x1) = aes!Xor(((y \div 2) % 2) * x1, aes!Xor(((y \div 4) % 2) * x2, t3))
      BY <2>2, <2>3, <2>5, <2>7, Zenon DEF t3
    <2> HIDE DEF term
    <2> QED BY <2>6, <2>8, Zenon DEF x1
  <1>4. f = [y \in 0 .. 15 |-> [x \in Byte |-> f[y][x]]]
    OBVIOUS
  <1>5. \A y \in 0 .. 15, x \in Byte : f[y][x] = term(y, x)
    OBVIOUS
  <1> HIDE DEF f, term
  <1>6. ASSUME NEW y \in 0 .. 15, NEW x \in Byte PROVE f[y][x] = step(f, y, x)
    <2>1. CASE y = 0
      BY <1>2, <1>5, <2>1
    <2>2. CASE y # 0
      <3>1. y \in 1 .. 15 /\ y \div 2 \in 0 .. 15 /\ X(x) \in Byte
        BY <1>1, <2>2
      <3>2. f[y \div 2][X(x)] = term(y \div 2, X(x))
        BY <1>5, <3>1
      <3> QED BY <1>3, <1>5, <2>2, <3>1, <3>2
    <2> QED BY <2>1, <2>2
  <1> HIDE DEF step
  <1>7. def(f)
    BY <1>4, <1>6, Zenon
  <1>8. aes!multiply = CHOOSE g : def(g)
    BY DEF aes!multiply, step, X, Byte, aes!Byte
  <1>9. def(aes!multiply)
    <2> HIDE DEF def
    <2> QED BY <1>7, <1>8
  <1>10. \A y \in 0 .. 15 : \A x \in Byte : aes!multiply[y][x] = step(aes!multiply, y, x)
    BY <1>9
  <1>11. \A x \in Byte : aes!multiply[0][x] = 0
    BY <1>10 DEF step
  <1>12. ASSUME NEW y \in 1 .. 15, NEW x \in Byte
         PROVE  aes!multiply[y][x] = aes!Xor((y % 2) * x, aes!multiply[y \div 2][aes!xtime(x)])
    <2>1. y \in 0 .. 15 /\ y # 0
      OBVIOUS
    <2> QED BY <1>10, <2>1 DEF step, X
  <1> QED BY <1>11, <1>12

\* The factors of invMixColumns().
LEMMA Multiples ==
    ASSUME NEW x \in Byte, NEW x1, x1 = aes!xtime(x), NEW x2, x2 = aes!xtime(x1),
           NEW x3, x3 = aes!xtime(x2)
    PROVE  /\ x1 \in Byte /\ x2 \in Byte /\ x3 \in Byte
           /\ aes!multiply[9][x] = aes!Xor(x, x3)
           /\ aes!multiply[11][x] = aes!Xor(x, aes!Xor(x1, x3))
           /\ aes!multiply[13][x] = aes!Xor(x, aes!Xor(x2, x3))
           /\ aes!multiply[14][x] = aes!Xor(x1, aes!Xor(x2, x3))
  <1> DEFINE m == aes!multiply
             x4 == aes!xtime(x3)
  <1>1. x1 \in Byte /\ x2 \in Byte /\ x3 \in Byte /\ x4 \in Byte
    BY XtimeDigits
  <1>2. \A b \in Byte : 0 * b = 0 /\ 1 * b = b
    BY DEF Byte
  <1>3. \A b \in Byte : aes!Xor(b, 0) = b /\ aes!Xor(0, b) = b
    BY XorGroup
  <1>4. ASSUME NEW y \in 1 .. 15, NEW b \in Byte
        PROVE  m[y][b] = aes!Xor((y % 2) * b, m[y \div 2][aes!xtime(b)])
    BY MultiplyOnce
  <1>5. \A b \in Byte : m[0][b] = 0
    BY MultiplyOnce
  <1>6. /\ \A b \in Byte : m[1][b] = aes!Xor(1 * b, m[0][aes!xtime(b)])
        /\ \A b \in Byte : m[2][b] = aes!Xor(0 * b, m[1][aes!xtime(b)])
        /\ \A b \in Byte : m[3][b] = aes!Xor(1 * b, m[1][aes!xtime(b)])
        /\ \A b \in Byte : m[4][b] = aes!Xor(0 * b, m[2][aes!xtime(b)])
    <2>1. 1 % 2 = 1 /\ 1 \div 2 = 0 /\ 2 % 2 = 0 /\ 2 \div 2 = 1 /\ 3 % 2 = 1 /\ 3 \div 2 = 1
          /\ 4 % 2 = 0 /\ 4 \div 2 = 2 /\ 1 \in 1 .. 15 /\ 2 \in 1 .. 15 /\ 3 \in 1 .. 15 /\ 4 \in 1 .. 15
      OBVIOUS
    <2> HIDE DEF m
    <2> QED BY <1>4, <2>1, Zenon
  <1>7. /\ \A b \in Byte : m[5][b] = aes!Xor(1 * b, m[2][aes!xtime(b)])
        /\ \A b \in Byte : m[6][b] = aes!Xor(0 * b, m[3][aes!xtime(b)])
        /\ \A b \in Byte : m[7][b] = aes!Xor(1 * b, m[3][aes!xtime(b)])
    <2>1. 5 % 2 = 1 /\ 5 \div 2 = 2 /\ 6 % 2 = 0 /\ 6 \div 2 = 3 /\ 7 % 2 = 1 /\ 7 \div 2 = 3
          /\ 5 \in 1 .. 15 /\ 6 \in 1 .. 15 /\ 7 \in 1 .. 15
      OBVIOUS
    <2> HIDE DEF m
    <2> QED BY <1>4, <2>1, Zenon
  <1>8. /\ m[9][x] = aes!Xor(1 * x, m[4][x1]) /\ m[11][x] = aes!Xor(1 * x, m[5][x1])
        /\ m[13][x] = aes!Xor(1 * x, m[6][x1]) /\ m[14][x] = aes!Xor(0 * x, m[7][x1])
    <2>1. 9 % 2 = 1 /\ 9 \div 2 = 4 /\ 11 % 2 = 1 /\ 11 \div 2 = 5 /\ 13 % 2 = 1 /\ 13 \div 2 = 6
          /\ 14 % 2 = 0 /\ 14 \div 2 = 7 /\ 9 \in 1 .. 15 /\ 11 \in 1 .. 15 /\ 13 \in 1 .. 15 /\ 14 \in 1 .. 15
      OBVIOUS
    <2> HIDE DEF m
    <2> QED BY <1>4, <2>1, Zenon
  <1> HIDE DEF m
  <1>9. m[1][x3] = x3
    BY <1>1, <1>2, <1>3, <1>5, <1>6
  <1>10. m[2][x2] = x3 /\ m[3][x2] = aes!Xor(x2, x3)
    BY <1>1, <1>2, <1>3, <1>6, <1>9
  <1>11. m[4][x1] = x3 /\ m[5][x1] = aes!Xor(x1, x3) /\ m[6][x1] = aes!Xor(x2, x3)
         /\ m[7][x1] = aes!Xor(x1, aes!Xor(x2, x3))
    <2>1. aes!Xor(x2, x3) \in Byte
      BY <1>1, XorDigits
    <2> QED BY <1>1, <1>2, <1>3, <1>6, <1>7, <1>10, <2>1
  <1>12. /\ m[9][x] = aes!Xor(x, x3)
         /\ m[11][x] = aes!Xor(x, aes!Xor(x1, x3))
         /\ m[13][x] = aes!Xor(x, aes!Xor(x2, x3))
         /\ m[14][x] = aes!Xor(x1, aes!Xor(x2, x3))
    <2>1. aes!Xor(x1, aes!Xor(x2, x3)) \in Byte
      BY <1>1, XorDigits
    <2> QED BY <1>1, <1>2, <1>3, <1>8, <1>11, <2>1
  <1> QED BY <1>1, <1>12 DEF m

\* Xor of bytes is a byte.
LEMMA XorByte ==
    \A a \in Byte, b \in Byte : aes!Xor(a, b) \in Byte
  BY XorDigits

\* Four at a time.
LEMMA XtimeFour ==
    ASSUME NEW a \in Byte, NEW b \in Byte, NEW c \in Byte, NEW d \in Byte
    PROVE  aes!xtime(aes!Xor4(a, b, c, d))
             = aes!Xor4(aes!xtime(a), aes!xtime(b), aes!xtime(c), aes!xtime(d))
  <1>1. aes!Xor(a, b) \in Byte /\ aes!Xor(c, d) \in Byte
    BY XorByte
  <1> QED BY <1>1, XtimeLinear DEF aes!Xor4

\* A byte of a mixed column.
Mixed(a, b, c, d) == aes!Xor4(aes!xtime(a), aes!Xor(aes!xtime(b), b), c, d)

\* What a column's mixed bytes add up to: all four to the sum of the four, two that are
\* neighbours or opposite, and the other three, to what xtime() makes of sums of bytes.
LEMMA MixedSums ==
    ASSUME NEW a \in Byte, NEW b \in Byte, NEW c \in Byte, NEW d \in Byte
    PROVE  LET p == Mixed(a, b, c, d)
               q == Mixed(b, c, d, a)
               r == Mixed(c, d, a, b)
               t == Mixed(d, a, b, c)
               s == aes!Xor4(a, b, c, d)
               u == aes!Xor(a, c)
               v == aes!Xor(a, b)
           IN  /\ p \in Byte /\ q \in Byte /\ r \in Byte /\ t \in Byte
               /\ aes!Xor4(p, q, r, t) = s
               /\ aes!Xor(p, r) = aes!Xor(aes!xtime(s), u)
               /\ aes!Xor(p, q) = aes!Xor(aes!xtime(u), v)
               /\ aes!Xor(q, aes!Xor(r, t)) = aes!Xor(a, aes!xtime(v))
  <1> DEFINE p == Mixed(a, b, c, d)
             q == Mixed(b, c, d, a)
             r == Mixed(c, d, a, b)
             t == Mixed(d, a, b, c)
             s == aes!Xor4(a, b, c, d)
             u == aes!Xor(a, c)
             v == aes!Xor(a, b)
             xa == aes!xtime(a)
             xb == aes!xtime(b)
             xc == aes!xtime(c)
             xd == aes!xtime(d)
             xs == aes!xtime(s)
             xu == aes!xtime(u)
             xv == aes!xtime(v)
  <1>1. xa \in Byte /\ xb \in Byte /\ xc \in Byte /\ xd \in Byte
    BY XtimeDigits
  <1>2. xs = aes!Xor4(xa, xb, xc, xd) /\ xu = aes!Xor(xa, xc) /\ xv = aes!Xor(xa, xb)
    BY XtimeFour, XtimeLinear
  <1>3. /\ p = aes!Xor4(xa, aes!Xor(xb, b), c, d) /\ q = aes!Xor4(xb, aes!Xor(xc, c), d, a)
        /\ r = aes!Xor4(xc, aes!Xor(xd, d), a, b) /\ t = aes!Xor4(xd, aes!Xor(xa, a), b, c)
    BY DEF Mixed
  <1> HIDE DEF p, q, r, t, xa, xb, xc, xd, xs, xu, xv
  <1>4. ASSUME NEW w \in Weights, NEW e \in Byte, NEW f \in Byte, NEW g \in Byte, NEW h \in Byte
        PROVE  /\ aes!Xor4(e, f, g, h) \in Byte
               /\ Digit(aes!Xor4(e, f, g, h), w)
                    = (Digit(e, w) + Digit(f, w) + Digit(g, w) + Digit(h, w)) % 2
    <2> DEFINE y == aes!Xor(e, f)
               z == aes!Xor(g, h)
    <2>1. /\ y \in Byte /\ Digit(y, w) = (Digit(e, w) + Digit(f, w)) % 2
          /\ z \in Byte /\ Digit(z, w) = (Digit(g, w) + Digit(h, w)) % 2
      BY XorDigits
    <2> HIDE DEF y, z
    <2>2. /\ aes!Xor(y, z) \in Byte /\ Digit(aes!Xor(y, z), w) = (Digit(y, w) + Digit(z, w)) % 2
      BY <2>1, XorDigits
    <2>3. Digit(e, w) \in {0, 1} /\ Digit(f, w) \in {0, 1} /\ Digit(g, w) \in {0, 1} /\ Digit(h, w) \in {0, 1}
      BY DigitBit
    <2>4. (((Digit(e, w) + Digit(f, w)) % 2) + ((Digit(g, w) + Digit(h, w)) % 2)) % 2
             = (Digit(e, w) + Digit(f, w) + Digit(g, w) + Digit(h, w)) % 2
      BY <2>3
    <2> QED BY <2>1, <2>2, <2>4 DEF aes!Xor4, y, z
  <1>5. /\ aes!Xor(xb, b) \in Byte /\ aes!Xor(xc, c) \in Byte
        /\ aes!Xor(xd, d) \in Byte /\ aes!Xor(xa, a) \in Byte
    BY <1>1, XorByte
  <1>6. 1 \in Weights
    BY DEF Weights
  <1>7. p \in Byte /\ q \in Byte /\ r \in Byte /\ t \in Byte
    BY <1>1, <1>3, <1>4, <1>5, <1>6
  <1>8. s \in Byte /\ u \in Byte /\ v \in Byte
    BY <1>4, <1>6, XorByte
  <1>9. xs \in Byte /\ xu \in Byte /\ xv \in Byte
    BY <1>8, XtimeDigits DEF xs, xu, xv
  <1>10. /\ aes!Xor4(p, q, r, t) \in Byte /\ aes!Xor(p, r) \in Byte /\ aes!Xor(p, q) \in Byte
         /\ aes!Xor(r, t) \in Byte /\ aes!Xor(q, aes!Xor(r, t)) \in Byte
         /\ aes!Xor(xs, u) \in Byte /\ aes!Xor(xu, v) \in Byte /\ aes!Xor(a, xv) \in Byte
    <2> HIDE DEF u, v
    <2>1. aes!Xor4(p, q, r, t) \in Byte
      BY <1>4, <1>6, <1>7
    <2>2. aes!Xor(p, r) \in Byte /\ aes!Xor(p, q) \in Byte /\ aes!Xor(r, t) \in Byte
      BY <1>7, XorByte
    <2> QED BY <1>7, <1>8, <1>9, <2>1, <2>2, XorByte
  <1>11. ASSUME NEW w \in Weights
         PROVE  /\ Digit(aes!Xor4(p, q, r, t), w) = Digit(s, w)
                /\ Digit(aes!Xor(p, r), w) = Digit(aes!Xor(xs, u), w)
                /\ Digit(aes!Xor(p, q), w) = Digit(aes!Xor(xu, v), w)
                /\ Digit(aes!Xor(q, aes!Xor(r, t)), w) = Digit(aes!Xor(a, xv), w)
    <2> DEFINE A == Digit(a, w)  B == Digit(b, w)  C == Digit(c, w)  D == Digit(d, w)
               I == Digit(xa, w)  J == Digit(xb, w)  K == Digit(xc, w)  L == Digit(xd, w)
               P == Digit(p, w)  Q == Digit(q, w)  R == Digit(r, w)  T == Digit(t, w)
    <2>1. /\ A \in {0, 1} /\ B \in {0, 1} /\ C \in {0, 1} /\ D \in {0, 1}
          /\ I \in {0, 1} /\ J \in {0, 1} /\ K \in {0, 1} /\ L \in {0, 1}
      BY <1>1, DigitBit
    <2>2. /\ P = (I + ((J + B) % 2) + C + D) % 2
          /\ Q = (J + ((K + C) % 2) + D + A) % 2
      BY <1>1, <1>3, <1>4, <1>5, XorDigits
    <2>3. /\ R = (K + ((L + D) % 2) + A + B) % 2
          /\ T = (L + ((I + A) % 2) + B + C) % 2
      BY <1>1, <1>3, <1>4, <1>5, XorDigits
    <2>4. /\ Digit(s, w) = (A + B + C + D) % 2
          /\ Digit(aes!Xor4(p, q, r, t), w) = (P + Q + R + T) % 2
      BY <1>4, <1>7
    <2>5. /\ Digit(u, w) = (A + C) % 2 /\ Digit(v, w) = (A + B) % 2
          /\ Digit(xu, w) = (I + K) % 2 /\ Digit(xv, w) = (I + J) % 2
      BY <1>1, <1>2, XorDigits
    <2>6. Digit(xs, w) = (I + J + K + L) % 2
      BY <1>1, <1>2, <1>4
    <2>7. /\ Digit(aes!Xor(p, r), w) = (P + R) % 2 /\ Digit(aes!Xor(p, q), w) = (P + Q) % 2
          /\ Digit(aes!Xor(r, t), w) = (R + T) % 2
      BY <1>7, XorDigits
    <2>8. Digit(aes!Xor(q, aes!Xor(r, t)), w) = (Q + Digit(aes!Xor(r, t), w)) % 2
      BY <1>7, <1>10, XorDigits
    <2>9. /\ Digit(aes!Xor(xs, u), w) = (Digit(xs, w) + Digit(u, w)) % 2
          /\ Digit(aes!Xor(xu, v), w) = (Digit(xu, w) + Digit(v, w)) % 2
          /\ Digit(aes!Xor(a, xv), w) = (A + Digit(xv, w)) % 2
      BY <1>8, <1>9, XorDigits
    <2> HIDE DEF A, B, C, D, I, J, K, L, P, Q, R, T, s, u, v
    <2>10. (P + Q + R + T) % 2 = (A + B + C + D) % 2
      BY <2>1, <2>2, <2>3, SMTT(60)
    <2>11. (P + R) % 2 = (((I + J + K + L) % 2) + ((A + C) % 2)) % 2
      BY <2>1, <2>2, <2>3, SMTT(60)
    <2>12. (P + Q) % 2 = (((I + K) % 2) + ((A + B) % 2)) % 2
      BY <2>1, <2>2, SMTT(60)
    <2>13. (Q + ((R + T) % 2)) % 2 = (A + ((I + J) % 2)) % 2
      BY <2>1, <2>2, <2>3, SMTT(60)
    <2>14. Digit(aes!Xor4(p, q, r, t), w) = Digit(s, w)
      BY <2>4, <2>10, Zenon
    <2>15. Digit(aes!Xor(p, r), w) = Digit(aes!Xor(xs, u), w)
      BY <2>5, <2>6, <2>7, <2>9, <2>11, Zenon
    <2>16. Digit(aes!Xor(p, q), w) = Digit(aes!Xor(xu, v), w)
      BY <2>5, <2>7, <2>9, <2>12, Zenon
    <2>17. Digit(aes!Xor(q, aes!Xor(r, t)), w) = Digit(aes!Xor(a, xv), w)
      BY <2>5, <2>7, <2>8, <2>9, <2>13, Zenon
    <2> QED BY <2>14, <2>15, <2>16, <2>17
  <1> HIDE DEF s, u, v
  <1>12. aes!Xor4(p, q, r, t) = s
    BY <1>8, <1>10, <1>11, SameDigits
  <1>13. aes!Xor(p, r) = aes!Xor(xs, u)
    BY <1>10, <1>11, SameDigits
  <1>14. aes!Xor(p, q) = aes!Xor(xu, v)
    BY <1>10, <1>11, SameDigits
  <1>15. aes!Xor(q, aes!Xor(r, t)) = aes!Xor(a, xv)
    BY <1>10, <1>11, SameDigits
  <1> QED BY <1>7, <1>12, <1>13, <1>14, <1>15, Zenon DEF p, q, r, t, s, u, v, xs, xu, xv

\* The weighted sum of invMixColumns() takes a mixed column's bytes back to the first.
LEMMA MixBack ==
    ASSUME NEW a \in Byte, NEW b \in Byte, NEW c \in Byte, NEW d \in Byte
    PROVE  aes!Xor4(aes!multiply[14][Mixed(a, b, c, d)], aes!multiply[11][Mixed(b, c, d, a)],
                    aes!multiply[13][Mixed(c, d, a, b)], aes!multiply[9][Mixed(d, a, b, c)]) = a
  <1> DEFINE X(x) == aes!xtime(x)
             p == Mixed(a, b, c, d)
             q == Mixed(b, c, d, a)
             r == Mixed(c, d, a, b)
             t == Mixed(d, a, b, c)
             s == aes!Xor4(a, b, c, d)
             u == aes!Xor(a, c)
             v == aes!Xor(a, b)
             p1 == X(p)  p2 == X(p1)  p3 == X(p2)
             q1 == X(q)  q2 == X(q1)  q3 == X(q2)
             r1 == X(r)  r2 == X(r1)  r3 == X(r2)
             t1 == X(t)  t2 == X(t1)  t3 == X(t2)
  <1>1. /\ p \in Byte /\ q \in Byte /\ r \in Byte /\ t \in Byte
        /\ aes!Xor4(p, q, r, t) = s
        /\ aes!Xor(p, r) = aes!Xor(X(s), u)
        /\ aes!Xor(p, q) = aes!Xor(X(u), v)
        /\ aes!Xor(q, aes!Xor(r, t)) = aes!Xor(a, X(v))
    BY MixedSums
  <1>2. s \in Byte /\ u \in Byte /\ v \in Byte
    <2>1. aes!Xor(a, b) \in Byte /\ aes!Xor(c, d) \in Byte /\ u \in Byte
      BY XorByte
    <2> QED BY <2>1, XorByte DEF aes!Xor4
  <1> HIDE DEF p, q, r, t, s, u, v
  <1>3. \A x \in Byte : X(x) \in Byte
    BY XtimeDigits
  <1>4. \A x \in Byte, y \in Byte : X(aes!Xor(x, y)) = aes!Xor(X(x), X(y))
    BY XtimeLinear
  <1>5. \A x \in Byte, y \in Byte, z \in Byte, w \in Byte :
           X(aes!Xor4(x, y, z, w)) = aes!Xor4(X(x), X(y), X(z), X(w))
    BY XtimeFour
  <1>6. /\ aes!multiply[14][p] = aes!Xor(p1, aes!Xor(p2, p3))
        /\ aes!multiply[11][q] = aes!Xor(q, aes!Xor(q1, q3))
        /\ aes!multiply[13][r] = aes!Xor(r, aes!Xor(r2, r3))
        /\ aes!multiply[9][t] = aes!Xor(t, t3)
    BY <1>1, Multiples
  <1> HIDE DEF X
  <1>7. /\ p1 \in Byte /\ p2 \in Byte /\ p3 \in Byte /\ q1 \in Byte /\ q2 \in Byte /\ q3 \in Byte
        /\ r1 \in Byte /\ r2 \in Byte /\ r3 \in Byte /\ t1 \in Byte /\ t2 \in Byte /\ t3 \in Byte
    BY <1>1, <1>3
  <1> DEFINE s1 == X(s)  s2 == X(s1)  s3 == X(s2)
             u1 == X(u)  u2 == X(u1)  v1 == X(v)
  <1>8. s1 \in Byte /\ s2 \in Byte /\ s3 \in Byte /\ u1 \in Byte /\ u2 \in Byte /\ v1 \in Byte
    BY <1>2, <1>3
  <1>9. aes!Xor4(p3, q3, r3, t3) = s3
    <2>1. aes!Xor4(p1, q1, r1, t1) = s1
      BY <1>1, <1>5
    <2> HIDE DEF p1, q1, r1, t1, s1
    <2>2. aes!Xor4(p2, q2, r2, t2) = s2
      BY <1>5, <1>7, <2>1
    <2> HIDE DEF p2, q2, r2, t2, s2
    <2> QED BY <1>5, <1>7, <2>2
  <1>10. aes!Xor(p2, r2) = aes!Xor(s3, u2)
    <2>1. aes!Xor(p1, r1) = aes!Xor(s2, u1)
      <3>1. aes!Xor(p1, r1) = X(aes!Xor(p, r))
        BY <1>1, <1>4
      <3>2. X(aes!Xor(s1, u)) = aes!Xor(s2, u1)
        BY <1>2, <1>4, <1>8
      <3> QED BY <1>1, <3>1, <3>2
    <2> HIDE DEF p1, r1, s1, u1, s2
    <2>2. aes!Xor(p2, r2) = X(aes!Xor(p1, r1))
      BY <1>4, <1>7
    <2>3. X(aes!Xor(s2, u1)) = aes!Xor(s3, u2)
      BY <1>4, <1>8
    <2> QED BY <2>1, <2>2, <2>3
  <1>11. aes!Xor(p1, q1) = aes!Xor(u2, v1)
    <2>1. aes!Xor(p1, q1) = X(aes!Xor(p, q))
      BY <1>1, <1>4
    <2>2. X(aes!Xor(u1, v)) = aes!Xor(u2, v1)
      BY <1>2, <1>4, <1>8
    <2> QED BY <1>1, <2>1, <2>2
  <1>12. aes!Xor(q, aes!Xor(r, t)) = aes!Xor(a, v1)
    BY <1>1
  <1> HIDE DEF p1, p2, p3, q1, q2, q3, r1, r2, r3, t1, t2, t3, s1, s2, s3, u1, u2, v1
  <1> DEFINE all == aes!Xor4(aes!Xor(p1, aes!Xor(p2, p3)), aes!Xor(q, aes!Xor(q1, q3)),
                             aes!Xor(r, aes!Xor(r2, r3)), aes!Xor(t, t3))
             sum == aes!Xor4(aes!Xor4(p3, q3, r3, t3), aes!Xor(p2, r2), aes!Xor(p1, q1),
                             aes!Xor(q, aes!Xor(r, t)))
             end == aes!Xor4(s3, aes!Xor(s3, u2), aes!Xor(u2, v1), aes!Xor(a, v1))
  <1>13. sum = end
    BY <1>9, <1>10, <1>11, <1>12
  <1>14. all \in Byte /\ end \in Byte
    <2>1. ASSUME NEW e \in Byte, NEW f \in Byte, NEW g \in Byte, NEW h \in Byte
          PROVE  aes!Xor4(e, f, g, h) \in Byte
      <3>1. aes!Xor(e, f) \in Byte /\ aes!Xor(g, h) \in Byte
        BY XorByte
      <3> QED BY <3>1, XorByte DEF aes!Xor4
    <2>2. /\ aes!Xor(p2, p3) \in Byte /\ aes!Xor(q1, q3) \in Byte /\ aes!Xor(r2, r3) \in Byte
          /\ aes!Xor(t, t3) \in Byte /\ aes!Xor(s3, u2) \in Byte /\ aes!Xor(u2, v1) \in Byte
          /\ aes!Xor(a, v1) \in Byte
      BY <1>1, <1>7, <1>8, XorByte
    <2>3. /\ aes!Xor(p1, aes!Xor(p2, p3)) \in Byte /\ aes!Xor(q, aes!Xor(q1, q3)) \in Byte
          /\ aes!Xor(r, aes!Xor(r2, r3)) \in Byte
      BY <1>1, <1>7, <2>2, XorByte
    <2> QED BY <1>8, <2>1, <2>2, <2>3
  <1>15. ASSUME NEW w \in Weights
         PROVE  Digit(all, w) = Digit(sum, w) /\ Digit(end, w) = Digit(a, w)
    <2> DEFINE P1 == Digit(p1, w)  P2 == Digit(p2, w)  P3 == Digit(p3, w)
               Q0 == Digit(q, w)  Q1 == Digit(q1, w)  Q3 == Digit(q3, w)
               R0 == Digit(r, w)  R2 == Digit(r2, w)  R3 == Digit(r3, w)
               T0 == Digit(t, w)  T3 == Digit(t3, w)
               A == Digit(a, w)  S3 == Digit(s3, w)  U2 == Digit(u2, w)  V1 == Digit(v1, w)
    <2>1. ASSUME NEW x \in Byte, NEW y \in Byte
          PROVE  aes!Xor(x, y) \in Byte /\ Digit(aes!Xor(x, y), w) = (Digit(x, w) + Digit(y, w)) % 2
      BY XorDigits
    <2>2. ASSUME NEW e \in Byte, NEW f \in Byte, NEW g \in Byte, NEW h \in Byte
          PROVE  /\ aes!Xor4(e, f, g, h) \in Byte
                 /\ Digit(aes!Xor4(e, f, g, h), w)
                      = (((Digit(e, w) + Digit(f, w)) % 2) + ((Digit(g, w) + Digit(h, w)) % 2)) % 2
      <3> DEFINE y == aes!Xor(e, f)
                 z == aes!Xor(g, h)
      <3>1. /\ y \in Byte /\ Digit(y, w) = (Digit(e, w) + Digit(f, w)) % 2
            /\ z \in Byte /\ Digit(z, w) = (Digit(g, w) + Digit(h, w)) % 2
        BY <2>1
      <3> HIDE DEF y, z
      <3>2. aes!Xor(y, z) \in Byte /\ Digit(aes!Xor(y, z), w) = (Digit(y, w) + Digit(z, w)) % 2
        BY <2>1, <3>1
      <3> QED BY <3>1, <3>2 DEF aes!Xor4, y, z
    <2>3. /\ P1 \in {0, 1} /\ P2 \in {0, 1} /\ P3 \in {0, 1} /\ Q0 \in {0, 1} /\ Q1 \in {0, 1}
          /\ Q3 \in {0, 1} /\ R0 \in {0, 1} /\ R2 \in {0, 1} /\ R3 \in {0, 1} /\ T0 \in {0, 1}
          /\ T3 \in {0, 1} /\ A \in {0, 1} /\ S3 \in {0, 1} /\ U2 \in {0, 1} /\ V1 \in {0, 1}
      BY <1>1, <1>7, <1>8, DigitBit
    <2> DEFINE o1 == aes!Xor(p1, aes!Xor(p2, p3))
               o2 == aes!Xor(q, aes!Xor(q1, q3))
               o3 == aes!Xor(r, aes!Xor(r2, r3))
               o4 == aes!Xor(t, t3)
    <2>4. /\ o1 \in Byte /\ Digit(o1, w) = (P1 + ((P2 + P3) % 2)) % 2
          /\ o2 \in Byte /\ Digit(o2, w) = (Q0 + ((Q1 + Q3) % 2)) % 2
      BY <1>1, <1>7, <2>1
    <2>5. /\ o3 \in Byte /\ Digit(o3, w) = (R0 + ((R2 + R3) % 2)) % 2
          /\ o4 \in Byte /\ Digit(o4, w) = (T0 + T3) % 2
      BY <1>1, <1>7, <2>1
    <2>6. Digit(all, w) = (((Digit(o1, w) + Digit(o2, w)) % 2) + ((Digit(o3, w) + Digit(o4, w)) % 2)) % 2
      <3> HIDE DEF o1, o2, o3, o4
      <3>1. all = aes!Xor4(o1, o2, o3, o4)
        BY DEF o1, o2, o3, o4
      <3> QED BY <2>2, <2>4, <2>5, <3>1
    <2> DEFINE n1 == aes!Xor4(p3, q3, r3, t3)
               n2 == aes!Xor(p2, r2)
               n3 == aes!Xor(p1, q1)
               n4 == aes!Xor(q, aes!Xor(r, t))
    <2>7. /\ n1 \in Byte /\ Digit(n1, w) = (((P3 + Q3) % 2) + ((R3 + T3) % 2)) % 2
          /\ n2 \in Byte /\ Digit(n2, w) = (P2 + R2) % 2
      BY <1>1, <1>7, <2>1, <2>2
    <2>8. /\ n3 \in Byte /\ Digit(n3, w) = (P1 + Q1) % 2
          /\ n4 \in Byte /\ Digit(n4, w) = (Q0 + ((R0 + T0) % 2)) % 2
      BY <1>1, <1>7, <2>1
    <2>9. Digit(sum, w) = (((Digit(n1, w) + Digit(n2, w)) % 2) + ((Digit(n3, w) + Digit(n4, w)) % 2)) % 2
      <3> HIDE DEF n1, n2, n3, n4
      <3>1. sum = aes!Xor4(n1, n2, n3, n4)
        BY DEF n1, n2, n3, n4
      <3> QED BY <2>2, <2>7, <2>8, <3>1
    <2> DEFINE m2 == aes!Xor(s3, u2)
               m3 == aes!Xor(u2, v1)
               m4 == aes!Xor(a, v1)
    <2>10. /\ m2 \in Byte /\ Digit(m2, w) = (S3 + U2) % 2
           /\ m3 \in Byte /\ Digit(m3, w) = (U2 + V1) % 2
           /\ m4 \in Byte /\ Digit(m4, w) = (A + V1) % 2
      BY <1>8, <2>1
    <2>11. Digit(end, w) = (((S3 + Digit(m2, w)) % 2) + ((Digit(m3, w) + Digit(m4, w)) % 2)) % 2
      <3> HIDE DEF m2, m3, m4
      <3>1. end = aes!Xor4(s3, m2, m3, m4)
        BY DEF m2, m3, m4
      <3> QED BY <1>8, <2>2, <2>10, <3>1
    <2> HIDE DEF P1, P2, P3, Q0, Q1, Q3, R0, R2, R3, T0, T3, A, S3, U2, V1,
                 o1, o2, o3, o4, n1, n2, n3, n4, m2, m3, m4, all, sum, end
    <2>12. Digit(all, w) = (P1 + P2 + P3 + Q0 + Q1 + Q3 + R0 + R2 + R3 + T0 + T3) % 2
      BY <2>3, <2>4, <2>5, <2>6, SMTT(60)
    <2>13. Digit(sum, w) = (P1 + P2 + P3 + Q0 + Q1 + Q3 + R0 + R2 + R3 + T0 + T3) % 2
      BY <2>3, <2>7, <2>8, <2>9, SMTT(60)
    <2>14. Digit(end, w) = A
      BY <2>3, <2>10, <2>11, SMTT(60)
    <2> QED BY <2>12, <2>13, <2>14 DEF A
  <1>16. all = end /\ end = a
    <2> HIDE DEF all, sum, end
    <2> QED BY <1>13, <1>14, <1>15, SameDigits
  <1> QED BY <1>6, <1>16, Zenon DEF p, q, r, t

\* Indices modulo 4, counted from 1.
LEMMA AtFour ==
    /\ \A r \in 1 .. 4 : aes!At(r) = r
    /\ \A i \in 1 .. 8 : aes!At(i) \in 1 .. 4
  BY DEF aes!At

\* The S-box holds bytes,
LEMMA SBoxRange ==
    \A x \in Byte : aes!SBOX[x + 1] \in Byte
  BY SMTT(60) DEF Byte, aes!SBOX

\* and the inverse S-box takes each of them back.
LEMMA SBoxInverse ==
    \A x \in Byte : aes!INV_SBOX[aes!SBOX[x + 1] + 1] = x
  BY SMTT(60) DEF Byte, aes!SBOX, aes!INV_SBOX

\* invShiftRows() undoes shiftRows().
LEMMA ShiftBack ==
    ASSUME NEW s \in [1 .. 4 -> [1 .. 4 -> Byte]]
    PROVE  aes!invShiftRows(aes!shiftRows(s)) = s
  BY DEF aes!invShiftRows, aes!shiftRows, aes!Cell, aes!At

\* A column of the State or a word of the key schedule, and the State itself.
Word4 == [1 .. 4 -> Byte]

Square == [1 .. 4 -> [1 .. 4 -> Byte]]

\* invSubBytes() undoes subBytes(), and either keeps the State a State.
LEMMA SubBack ==
    ASSUME NEW s \in Square
    PROVE  aes!subBytes(s) \in Square /\ aes!invSubBytes(aes!subBytes(s)) = s
  <1> DEFINE t == aes!subBytes(s)
  <1>1. ASSUME NEW r \in 1 .. 4, NEW c \in 1 .. 4 PROVE s[r][c] \in Byte
    BY DEF Square
  <1>2. t = [r \in 1 .. 4 |-> [c \in 1 .. 4 |-> aes!SBOX[s[r][c] + 1]]]
    BY DEF aes!subBytes, aes!Cell
  <1>3. t \in Square
    BY <1>1, <1>2, SBoxRange DEF Square
  <1> HIDE DEF t
  <1>4. aes!invSubBytes(t) = [r \in 1 .. 4 |-> [c \in 1 .. 4 |-> aes!INV_SBOX[t[r][c] + 1]]]
    BY DEF aes!invSubBytes, aes!Cell
  <1>5. ASSUME NEW r \in 1 .. 4, NEW c \in 1 .. 4 PROVE aes!INV_SBOX[t[r][c] + 1] = s[r][c]
    BY <1>1, <1>2, SBoxInverse
  <1>6. aes!invSubBytes(t) = [r \in 1 .. 4 |-> [c \in 1 .. 4 |-> s[r][c]]]
    BY <1>4, <1>5, Zenon
  <1> QED BY <1>3, <1>6 DEF t, Square

\* So does shiftRows().
LEMMA ShiftType ==
    ASSUME NEW s \in Square
    PROVE  aes!shiftRows(s) \in Square
  BY DEF aes!shiftRows, aes!Cell, aes!At, Square

\* invMixColumns() undoes mixColumns().
LEMMA MixColumnsBack ==
    ASSUME NEW s \in Square
    PROVE  aes!mixColumns(s) \in Square /\ aes!invMixColumns(aes!mixColumns(s)) = s
  <1> DEFINE m == aes!mixColumns(s)
             A(i) == aes!At(i)
  <1>1. ASSUME NEW r \in 1 .. 4, NEW c \in 1 .. 4 PROVE s[r][c] \in Byte
    BY DEF Square
  <1>2. m = [r \in 1 .. 4 |-> [c \in 1 .. 4 |->
                Mixed(s[A(r)][c], s[A(r + 1)][c], s[A(r + 2)][c], s[A(r + 3)][c])]]
    BY DEF aes!mixColumns, aes!Cell, Mixed
  <1>3. /\ A(1) = 1 /\ A(2) = 2 /\ A(3) = 3 /\ A(4) = 4
        /\ A(1 + 1) = 2 /\ A(1 + 2) = 3 /\ A(1 + 3) = 4
        /\ A(2 + 1) = 3 /\ A(2 + 2) = 4 /\ A(2 + 3) = 1
        /\ A(3 + 1) = 4 /\ A(3 + 2) = 1 /\ A(3 + 3) = 2
        /\ A(4 + 1) = 1 /\ A(4 + 2) = 2 /\ A(4 + 3) = 3
    BY DEF aes!At
  <1> HIDE DEF m
  <1>4. aes!invMixColumns(m) = [r \in 1 .. 4 |-> [c \in 1 .. 4 |->
            aes!Xor4(aes!multiply[14][m[A(r)][c]], aes!multiply[11][m[A(r + 1)][c]],
                     aes!multiply[13][m[A(r + 2)][c]], aes!multiply[9][m[A(r + 3)][c]])]]
    BY DEF aes!invMixColumns, aes!Cell
  <1> HIDE DEF A
  <1>5. ASSUME NEW c \in 1 .. 4
        PROVE  /\ m[1][c] = Mixed(s[1][c], s[2][c], s[3][c], s[4][c])
               /\ m[2][c] = Mixed(s[2][c], s[3][c], s[4][c], s[1][c])
               /\ m[3][c] = Mixed(s[3][c], s[4][c], s[1][c], s[2][c])
               /\ m[4][c] = Mixed(s[4][c], s[1][c], s[2][c], s[3][c])
    <2>1. /\ 1 \in 1 .. 4 /\ 2 \in 1 .. 4 /\ 3 \in 1 .. 4 /\ 4 \in 1 .. 4
      OBVIOUS
    <2>2. ASSUME NEW r \in 1 .. 4
          PROVE  m[r][c] = Mixed(s[A(r)][c], s[A(r + 1)][c], s[A(r + 2)][c], s[A(r + 3)][c])
      BY <1>2
    <2> QED BY <1>3, <2>1, <2>2, Zenon
  <1>6. ASSUME NEW r \in 1 .. 4, NEW c \in 1 .. 4
        PROVE  /\ m[r][c] \in Byte
               /\ aes!Xor4(aes!multiply[14][m[A(r)][c]], aes!multiply[11][m[A(r + 1)][c]],
                           aes!multiply[13][m[A(r + 2)][c]], aes!multiply[9][m[A(r + 3)][c]]) = s[r][c]
    <2> DEFINE s1 == s[1][c]  s2 == s[2][c]  s3 == s[3][c]  s4 == s[4][c]
    <2>1. s1 \in Byte /\ s2 \in Byte /\ s3 \in Byte /\ s4 \in Byte
      BY <1>1
    <2>2. /\ m[1][c] = Mixed(s1, s2, s3, s4) /\ m[2][c] = Mixed(s2, s3, s4, s1)
          /\ m[3][c] = Mixed(s3, s4, s1, s2) /\ m[4][c] = Mixed(s4, s1, s2, s3)
      BY <1>5
    <2> HIDE DEF s1, s2, s3, s4
    <2>3. /\ m[1][c] \in Byte /\ m[2][c] \in Byte /\ m[3][c] \in Byte /\ m[4][c] \in Byte
      <3>1. ASSUME NEW a \in Byte, NEW b \in Byte, NEW d \in Byte, NEW e \in Byte
            PROVE  Mixed(a, b, d, e) \in Byte
        BY MixedSums
      <3> QED BY <2>1, <2>2, <3>1
    <2>4. r = 1 \/ r = 2 \/ r = 3 \/ r = 4
      OBVIOUS
    <2>5. CASE r = 1
      <3>1. A(r) = 1 /\ A(r + 1) = 2 /\ A(r + 2) = 3 /\ A(r + 3) = 4
        BY <1>3, <2>5
      <3>2. aes!Xor4(aes!multiply[14][m[1][c]], aes!multiply[11][m[2][c]],
                     aes!multiply[13][m[3][c]], aes!multiply[9][m[4][c]]) = s1
        BY <2>1, <2>2, MixBack
      <3>3. m[r][c] \in Byte
        BY <2>3, <2>5
      <3> QED BY <2>5, <3>1, <3>2, <3>3, Zenon DEF s1
    <2>6. CASE r = 2
      <3>1. A(r) = 2 /\ A(r + 1) = 3 /\ A(r + 2) = 4 /\ A(r + 3) = 1
        BY <1>3, <2>6
      <3>2. aes!Xor4(aes!multiply[14][m[2][c]], aes!multiply[11][m[3][c]],
                     aes!multiply[13][m[4][c]], aes!multiply[9][m[1][c]]) = s2
        BY <2>1, <2>2, MixBack
      <3>3. m[r][c] \in Byte
        BY <2>3, <2>6
      <3> QED BY <2>6, <3>1, <3>2, <3>3, Zenon DEF s2
    <2>7. CASE r = 3
      <3>1. A(r) = 3 /\ A(r + 1) = 4 /\ A(r + 2) = 1 /\ A(r + 3) = 2
        BY <1>3, <2>7
      <3>2. aes!Xor4(aes!multiply[14][m[3][c]], aes!multiply[11][m[4][c]],
                     aes!multiply[13][m[1][c]], aes!multiply[9][m[2][c]]) = s3
        BY <2>1, <2>2, MixBack
      <3>3. m[r][c] \in Byte
        BY <2>3, <2>7
      <3> QED BY <2>7, <3>1, <3>2, <3>3, Zenon DEF s3
    <2>8. CASE r = 4
      <3>1. A(r) = 4 /\ A(r + 1) = 1 /\ A(r + 2) = 2 /\ A(r + 3) = 3
        BY <1>3, <2>8
      <3>2. aes!Xor4(aes!multiply[14][m[4][c]], aes!multiply[11][m[1][c]],
                     aes!multiply[13][m[2][c]], aes!multiply[9][m[3][c]]) = s4
        BY <2>1, <2>2, MixBack
      <3>3. m[r][c] \in Byte
        BY <2>3, <2>8
      <3> QED BY <2>8, <3>1, <3>2, <3>3, Zenon DEF s4
    <2> QED BY <2>4, <2>5, <2>6, <2>7, <2>8
  <1>7. aes!invMixColumns(m) = [r \in 1 .. 4 |-> [c \in 1 .. 4 |-> s[r][c]]]
    BY <1>4, <1>6, Zenon
  <1>8. m \in Square
    <2>1. m = [r \in 1 .. 4 |-> [c \in 1 .. 4 |-> m[r][c]]]
      BY <1>2
    <2> QED BY <1>6, <2>1, Zenon DEF Square
  <1> QED BY <1>7, <1>8 DEF m, Square

\* A round key added twice is as good as none.
LEMMA KeyBack ==
    ASSUME NEW s \in Square, NEW w \in Seq(Word4), NEW round \in Nat, 4 * round + 4 <= Len(w)
    PROVE  /\ aes!addRoundKey(s, w, round) \in Square
           /\ aes!addRoundKey(aes!addRoundKey(s, w, round), w, round) = s
  <1> DEFINE k == [c \in 1 .. 4 |-> w[4 * round + c]]
             t == aes!addRoundKey(s, w, round)
  <1>1. ASSUME NEW c \in 1 .. 4 PROVE k[c] \in Word4
    <2> DEFINE i == 4 * round + c
    <2>1. i \in 1 .. Len(w)
      OBVIOUS
    <2> HIDE DEF i
    <2>2. w[i] \in Word4
      BY <2>1, ElementOfSeq
    <2> QED BY <2>2 DEF i
  <1>2. ASSUME NEW z
        PROVE  aes!addRoundKey(z, w, round)
                 = [r \in 1 .. 4 |-> [c \in 1 .. 4 |-> aes!Xor(z[r][c], k[c][r])]]
    BY DEF aes!addRoundKey, aes!Cell
  <1> HIDE DEF k, t
  <1>3. ASSUME NEW r \in 1 .. 4, NEW c \in 1 .. 4 PROVE s[r][c] \in Byte /\ k[c][r] \in Byte
    BY <1>1 DEF Square, Word4
  <1>4. t = [r \in 1 .. 4 |-> [c \in 1 .. 4 |-> aes!Xor(s[r][c], k[c][r])]]
    BY <1>2 DEF t
  <1>5. t \in Square
    BY <1>3, <1>4, XorByte DEF Square
  <1>6. ASSUME NEW r \in 1 .. 4, NEW c \in 1 .. 4 PROVE aes!Xor(t[r][c], k[c][r]) = s[r][c]
    BY <1>3, <1>4, XorGroup, Zenon
  <1>7. aes!addRoundKey(t, w, round) = [r \in 1 .. 4 |-> [c \in 1 .. 4 |-> s[r][c]]]
    <2>1. aes!addRoundKey(t, w, round)
            = [r \in 1 .. 4 |-> [c \in 1 .. 4 |-> aes!Xor(t[r][c], k[c][r])]]
      BY <1>2
    <2> QED BY <1>6, <2>1, Zenon
  <1> QED BY <1>5, <1>7 DEF t, Square

\* Sixteen bytes and the State they are loaded into hold the same.
LEMMA LoadStore ==
    /\ \A s \in Square : aes!Load(aes!Store(s)) = s
    /\ \A b \in Seq(Byte) : Len(b) = 16 => aes!Load(b) \in Square /\ aes!Store(aes!Load(b)) = b
  <1>1. ASSUME NEW s \in Square PROVE aes!Load(aes!Store(s)) = s
    <2> DEFINE b == aes!Store(s)
    <2>1. ASSUME NEW r \in 1 .. 4, NEW c \in 1 .. 4 PROVE b[4 * (c - 1) + r] = s[r][c]
      <3> DEFINE i == 4 * (c - 1) + r
      <3>1. i \in 1 .. 16 /\ aes!At(i) = r /\ ((i - 1) \div 4) + 1 = c
        BY DEF aes!At
      <3> HIDE DEF i
      <3> QED BY <3>1 DEF aes!Store, i
    <2>2. aes!Load(b) = [r \in 1 .. 4 |-> [c \in 1 .. 4 |-> b[4 * (c - 1) + r]]]
      BY DEF aes!Load, aes!Cell
    <2> HIDE DEF b
    <2>3. aes!Load(b) = [r \in 1 .. 4 |-> [c \in 1 .. 4 |-> s[r][c]]]
      BY <2>1, <2>2, Zenon
    <2> QED BY <2>3 DEF b, Square
  <1>2. ASSUME NEW b \in Seq(Byte), Len(b) = 16
        PROVE  aes!Load(b) \in Square /\ aes!Store(aes!Load(b)) = b
    <2> DEFINE s == aes!Load(b)
    <2>1. s = [r \in 1 .. 4 |-> [c \in 1 .. 4 |-> b[4 * (c - 1) + r]]]
      BY DEF aes!Load, aes!Cell
    <2>2. \A i \in 1 .. 16 : b[i] \in Byte
      BY <1>2, ElementOfSeq, Zenon
    <2> HIDE DEF s
    <2>3. s \in Square
      BY <2>1, <2>2 DEF Square
    <2>4. ASSUME NEW i \in 1 .. 16 PROVE s[aes!At(i)][((i - 1) \div 4) + 1] = b[i]
      <3> DEFINE r == aes!At(i)  c == ((i - 1) \div 4) + 1
      <3>1. r \in 1 .. 4 /\ c \in 1 .. 4 /\ 4 * (c - 1) + r = i
        BY DEF aes!At
      <3> HIDE DEF r, c
      <3>2. s[r][c] = b[i]
        BY <2>1, <3>1, Zenon
      <3> QED BY <3>2 DEF r, c
    <2>5. aes!Store(s) = [i \in 1 .. 16 |-> b[i]]
      BY <2>4, Zenon DEF aes!Store
    <2>6. b = [i \in 1 .. 16 |-> b[i]]
      <3>1. b \in [1 .. Len(b) -> Byte]
        BY <1>2, LenProperties, Zenon
      <3> QED BY <1>2, <3>1
    <2> QED BY <2>3, <2>5, <2>6 DEF s
  <1> QED BY <1>1, <1>2

\* The round keys there are when the schedule is complete.
Rounds(n) == (n \div 4) + 6

\* The words of a key and the rounds it is good for.
LEMMA SizeFacts ==
    ASSUME NEW n \in {16, 24, 32}
    PROVE  /\ n \div 4 \in {4, 6, 8} /\ Rounds(n) \in {10, 12, 14}
           /\ Rounds(n) = (n \div 4) + 6
  BY DEF Rounds

\* What a round of encryptBlock() does before it adds the round key.
Stir(n, s, round) ==
    IF round < Rounds(n) THEN aes!mixColumns(aes!shiftRows(aes!subBytes(s)))
                         ELSE aes!shiftRows(aes!subBytes(s))

\* It keeps the State a State, and decryptBlock() can undo it.
LEMMA StirType ==
    ASSUME NEW n, NEW s \in Square, NEW round \in Nat
    PROVE  /\ aes!shiftRows(aes!subBytes(s)) \in Square
           /\ Stir(n, s, round) \in Square
           /\ round < Rounds(n) => aes!invMixColumns(Stir(n, s, round)) = aes!shiftRows(aes!subBytes(s))
           /\ ~(round < Rounds(n)) => Stir(n, s, round) = aes!shiftRows(aes!subBytes(s))
           /\ aes!invSubBytes(aes!invShiftRows(aes!shiftRows(aes!subBytes(s)))) = s
  <1>1. aes!subBytes(s) \in Square /\ aes!invSubBytes(aes!subBytes(s)) = s
    BY SubBack
  <1>2. aes!shiftRows(aes!subBytes(s)) \in Square
    BY <1>1, ShiftType
  <1>3. aes!invShiftRows(aes!shiftRows(aes!subBytes(s))) = aes!subBytes(s)
    BY <1>1, ShiftBack DEF Square
  <1>4. /\ aes!mixColumns(aes!shiftRows(aes!subBytes(s))) \in Square
        /\ aes!invMixColumns(aes!mixColumns(aes!shiftRows(aes!subBytes(s)))) = aes!shiftRows(aes!subBytes(s))
    BY <1>2, MixColumnsBack
  <1> QED BY <1>1, <1>2, <1>3, <1>4 DEF Stir

\* The parts of aes!Inv, in the names of this module: the key schedule,
AESSchedule ==
    /\ phase \in {16, 24, 32}
    /\ schedule \in Seq(Word4)
    /\ Len(schedule) \in phase \div 4 .. 4 * (Rounds(phase) + 1)

\* the States of encryptBlock(),
AESSent ==
    /\ sent \in Seq(Square) /\ Len(sent) <= Rounds(phase) + 1
    /\ sent # << >> =>
          /\ Len(schedule) = 4 * (Rounds(phase) + 1) /\ text \in Seq(Byte) /\ Len(text) = 16
          /\ sent[1] = aes!addRoundKey(aes!Load(text), schedule, 0)
    /\ \A i \in 1 .. Len(sent) - 1 :
          sent[i + 1] = aes!addRoundKey(Stir(phase, sent[i], i), schedule, i)

\* and those of decryptBlock().
AESBack ==
    /\ back \in Seq(Square) /\ Len(back) <= Rounds(phase) + 1
    /\ back # << >> => Len(sent) = Rounds(phase) + 1
    /\ \A j \in 1 .. Len(back) : j <= Rounds(phase) =>
          back[j] = aes!shiftRows(aes!subBytes(sent[Rounds(phase) + 1 - j]))
    /\ Len(back) = Rounds(phase) + 1 => aes!Store(back[Rounds(phase) + 1]) = text

\* Together they are aes!Inv,
LEMMA AESNow ==
    aes!Inv <=> AESSchedule /\ AESSent /\ AESBack
  <1>1. /\ aes!Nk = phase \div 4 /\ aes!Nr = Rounds(phase)
        /\ aes!State = Square /\ [1 .. 4 -> aes!Byte] = Word4 /\ aes!Byte = Byte
        /\ aes!Expanded <=> Len(schedule) = 4 * (Rounds(phase) + 1)
    BY DEF aes!Nk, aes!Nr, aes!Expanded, aes!State, aes!Byte, Byte, Rounds, Square, Word4
  <1>2. ASSUME NEW s, NEW i PROVE aes!Stirred(s, i) = Stir(phase, s, i)
    BY <1>1 DEF aes!Stirred, Stir
  <1>3. aes!Mirror <=>
           \A j \in DOMAIN back : j <= Rounds(phase) =>
             back[j] = aes!shiftRows(aes!subBytes(sent[Rounds(phase) + 1 - j]))
    BY <1>1 DEF aes!Mirror
  <1>4. aes!RoundTrip <=> (Len(back) = Rounds(phase) + 1 => aes!Store(back[Rounds(phase) + 1]) = text)
    BY <1>1 DEF aes!RoundTrip
  <1>5. back \in Seq(Square) => DOMAIN back = 1 .. Len(back)
    BY LenProperties
  <1>6. (\A i \in 1 .. Len(sent) - 1 :
             sent[i + 1] = aes!addRoundKey(aes!Stirred(sent[i], i), schedule, i))
        <=> \A i \in 1 .. Len(sent) - 1 :
             sent[i + 1] = aes!addRoundKey(Stir(phase, sent[i], i), schedule, i)
    BY <1>2, Zenon
  <1> QED BY <1>1, <1>3, <1>4, <1>5, <1>6, Zenon DEF aes!Inv, AESSchedule, AESSent, AESBack

\* now and in the next state.
LEMMA AESNext ==
    aes!Inv' <=> AESSchedule' /\ AESSent' /\ AESBack'
  BY AESNow, PTL

\* An object never keyed has zeros for round keys.
LEMMA AESStarts ==
    aes!Init => aes!Inv
  <1> SUFFICES ASSUME aes!Init PROVE aes!Inv
    OBVIOUS
  <1>1. /\ phase \in {16, 24, 32} /\ sent = << >> /\ back = << >>
        /\ schedule = [i \in 1 .. 4 * (Rounds(phase) + 1) |-> << 0, 0, 0, 0 >>]
    BY AESAssumption DEF aes!Init, aes!Nr, aes!Nk, Rounds
  <1> DEFINE n == 4 * (Rounds(phase) + 1)
  <1>2. n \in Nat /\ n \in phase \div 4 .. n /\ Rounds(phase) \in Nat
    BY <1>1, SizeFacts
  <1>3. << 0, 0, 0, 0 >> \in Word4
    BY DEF Word4, Byte
  <1>4. schedule \in Seq(Word4) /\ Len(schedule) = n
    <2> HIDE DEF n
    <2>1. schedule = [i \in 1 .. n |-> << 0, 0, 0, 0 >>]
      BY <1>1 DEF n
    <2>2. schedule \in [1 .. n -> Word4]
      BY <1>3, <2>1
    <2> QED BY <1>2, <2>2, FcnIsSeq
  <1>5. AESSchedule
    BY <1>1, <1>2, <1>4 DEF AESSchedule
  <1>6. AESSent
    BY <1>1, <1>2 DEF AESSent
  <1>7. AESBack
    BY <1>1, <1>2 DEF AESBack
  <1> QED BY <1>5, <1>6, <1>7, AESNow

\* setKey() begins the schedule anew with the key's own words.
LEMMA AESSetKey ==
    aes!Inv /\ (\E k \in AESKeys : aes!SetKey(k)) => aes!Inv'
  <1> SUFFICES ASSUME aes!Inv, NEW k \in AESKeys, aes!SetKey(k) PROVE aes!Inv'
    OBVIOUS
  <1> DEFINE n == phase \div 4
  <1>1. /\ sent = << >> /\ Len(k) = phase
        /\ schedule' = [i \in 1 .. n |-> SubSeq(k, 4 * i - 3, 4 * i)]
        /\ phase' = phase /\ text' = text /\ sent' = sent /\ back' = back
    BY DEF aes!SetKey, aes!Nk
  <1>2. k \in Seq(Byte)
    BY AESAssumption DEF Byte
  <1>3. phase \in {16, 24, 32} /\ n \in Nat /\ n \in n .. 4 * (Rounds(phase) + 1) /\ Rounds(phase) \in Nat
    BY AESNow, SizeFacts DEF AESSchedule
  <1>4. ASSUME NEW i \in 1 .. n PROVE SubSeq(k, 4 * i - 3, 4 * i) \in Word4
    <2> DEFINE a == 4 * i - 3  b == 4 * i
    <2>1. a \in 1 .. Len(k) /\ b \in 1 .. Len(k) /\ b - a + 1 = 4 /\ a <= b
      BY <1>1, <1>3
    <2> HIDE DEF a, b
    <2>2. SubSeq(k, a, b) \in Seq(Byte) /\ Len(SubSeq(k, a, b)) = 4
      BY <1>2, <2>1, SubSeqProperties
    <2>3. SubSeq(k, a, b) \in [1 .. 4 -> Byte]
      BY <2>2, LenProperties, Zenon
    <2> QED BY <2>3 DEF a, b, Word4
  <1> HIDE DEF n
  <1>5. schedule' \in Seq(Word4) /\ Len(schedule') = n
    <2>1. schedule' \in [1 .. n -> Word4]
      BY <1>1, <1>4
    <2> QED BY <1>3, <2>1, FcnIsSeq
  <1>6. back = << >>
    <2>1. Len(sent) = 0
      BY <1>1
    <2>2. Len(sent) # Rounds(phase) + 1
      BY <1>3, <2>1
    <2> QED BY <2>2, AESNow DEF AESBack
  <1>7. AESSchedule'
    BY <1>1, <1>3, <1>5 DEF AESSchedule, n
  <1>8. AESSent'
    BY <1>1, <1>3 DEF AESSent
  <1>9. AESBack'
    BY <1>1, <1>3, <1>6 DEF AESBack
  <1> QED BY <1>7, <1>8, <1>9, AESNext

\* The round constants are bytes.
LEMMA RCONBytes ==
    \A j \in 1 .. 11 : aes!RCON[j] \in Byte
  BY SMTT(30) DEF aes!RCON, Byte

\* What Temp() is for the first word of a round key.
LEMMA TempFirst ==
    ASSUME NEW i, NEW n, NEW w, phase \div 4 = n, schedule[i] = w, i % n = 0
    PROVE  aes!Temp(i) = aes!XorWord(aes!SubWord(aes!RotWord(w)), << aes!RCON[(i \div n) + 1], 0, 0, 0 >>)
  BY SMT DEF aes!Temp, aes!Nk

\* The words of the key schedule: RCON is never read behind its eleven entries.
LEMMA TempType ==
    ASSUME AESSchedule, Len(schedule) < 4 * (Rounds(phase) + 1)
    PROVE  aes!Temp(Len(schedule)) \in Word4
  <1> DEFINE i == Len(schedule)  n == phase \div 4  w == schedule[i]
  <1>1. /\ phase \in {16, 24, 32} /\ schedule \in Seq(Word4)
        /\ i \in n .. 4 * (Rounds(phase) + 1) - 1 /\ n \in {4, 6, 8} /\ Rounds(phase) = n + 6
    BY SizeFacts DEF AESSchedule
  <1>2. i \in 1 .. Len(schedule) /\ i \in Nat
    <2>1. i \in Nat
      BY <1>1, LenProperties
    <2> QED BY <1>1, <2>1
  <1>3. w \in Word4
    <2> HIDE DEF i
    <2> QED BY <1>1, <1>2, ElementOfSeq
  <1> HIDE DEF i, w
  <1>4. ASSUME NEW v \in Word4 PROVE aes!SubWord(v) \in Word4 /\ aes!RotWord(v) \in Word4
    <2>1. \A j \in 1 .. 4 : v[j] \in Byte
      BY DEF Word4
    <2>2. aes!SubWord(v) \in Word4
      BY <2>1, SBoxRange DEF aes!SubWord, Word4
    <2>3. aes!RotWord(v) \in Word4
      BY <2>1 DEF aes!RotWord, Word4
    <2> QED BY <2>2, <2>3
  <1>5. ASSUME NEW v \in Word4, NEW u \in Word4 PROVE aes!XorWord(v, u) \in Word4
    <2>1. \A j \in 1 .. 4 : aes!Xor(v[j], u[j]) \in Byte
      BY XorByte DEF Word4
    <2> QED BY <2>1 DEF aes!XorWord, Word4
  <1> DEFINE e == i \div n + 1
  <1>6. e \in 1 .. 11
    <2>1. CASE n = 4
      BY <1>1, <2>1
    <2>2. CASE n = 6
      BY <1>1, <2>2
    <2>3. CASE n = 8
      BY <1>1, <2>3
    <2> QED BY <1>1, <2>1, <2>2, <2>3
  <1> HIDE DEF e
  <1>7. << aes!RCON[e], 0, 0, 0 >> \in Word4
    <2> DEFINE b == aes!RCON[e]
    <2>1. b \in Byte
      BY <1>6, RCONBytes, Zenon
    <2>2. 0 \in Byte
      BY DEF Byte
    <2> HIDE DEF b
    <2> QED BY <2>1, <2>2 DEF Word4, b
  <1>8. CASE i % n = 0
    <2>1. aes!Temp(i) = aes!XorWord(aes!SubWord(aes!RotWord(w)), << aes!RCON[e], 0, 0, 0 >>)
      BY <1>8, TempFirst DEF w, e, i
    <2> QED BY <1>3, <1>4, <1>5, <1>7, <2>1 DEF i
  <1>9. CASE i % n # 0 /\ n > 6 /\ i % n = 4
    <2>1. aes!Temp(i) = aes!SubWord(w)
      BY <1>9, Zenon DEF aes!Temp, aes!Nk, w, i
    <2> QED BY <1>3, <1>4, <2>1 DEF i
  <1>10. CASE i % n # 0 /\ ~(n > 6 /\ i % n = 4)
    <2>1. aes!Temp(i) = w
      BY <1>10, Zenon DEF aes!Temp, aes!Nk, w, i
    <2> QED BY <1>3, <2>1 DEF i
  <1> QED BY <1>8, <1>9, <1>10

\* A word more in the schedule; nothing is enciphered before it is complete.
LEMMA AESExpandWord ==
    aes!Inv /\ aes!ExpandWord => aes!Inv'
  <1> SUFFICES ASSUME aes!Inv, aes!ExpandWord PROVE aes!Inv'
    OBVIOUS
  <1> DEFINE i == Len(schedule)  n == phase \div 4  w == schedule[i - n + 1]
             full == 4 * (Rounds(phase) + 1)
  <1>1. /\ i # full
        /\ schedule' = Append(schedule, aes!XorWord(w, aes!Temp(i)))
        /\ phase' = phase /\ text' = text /\ sent' = sent /\ back' = back
    BY DEF aes!ExpandWord, aes!Expanded, aes!Nk, aes!Nr, Rounds
  <1>2. AESSchedule /\ AESSent /\ AESBack
    BY AESNow
  <1>3. /\ schedule \in Seq(Word4) /\ i \in n .. full /\ n \in {4, 6, 8} /\ full \in Nat
        /\ phase \in {16, 24, 32} /\ Rounds(phase) \in Nat
    BY <1>2, SizeFacts DEF AESSchedule
  <1>4. i \in Nat /\ i < full /\ i - n + 1 \in 1 .. i
    <2> HIDE DEF full, n
    <2>1. i \in Nat
      BY <1>3, LenProperties
    <2> HIDE DEF i
    <2> QED BY <1>1, <1>3, <2>1
  <1>5. w \in Word4
    <2> DEFINE j == i - n + 1
    <2> HIDE DEF j
    <2>1. schedule[j] \in Word4
      BY <1>3, <1>4, ElementOfSeq DEF j
    <2> QED BY <2>1 DEF j
  <1>6. aes!Temp(i) \in Word4
    BY <1>2, <1>4, TempType
  <1> DEFINE t == aes!Temp(i)  x == aes!XorWord(w, t)
  <1> HIDE DEF w, t
  <1>7. x \in Word4
    <2>1. \A j \in 1 .. 4 : aes!Xor(w[j], t[j]) \in Byte
      BY <1>5, <1>6, XorByte DEF Word4, t
    <2> QED BY <2>1 DEF aes!XorWord, Word4
  <1>8. schedule' \in Seq(Word4) /\ Len(schedule') = i + 1
    <2> HIDE DEF x
    <2>1. schedule' = Append(schedule, x)
      BY <1>1 DEF x, t
    <2> QED BY <1>3, <1>7, <2>1, AppendProperties
  <1> HIDE DEF i
  <1>9. AESSchedule'
    <2>1. i + 1 \in n .. full
      <3> HIDE DEF n, full
      <3> QED BY <1>3, <1>4
    <2> QED BY <1>1, <1>3, <1>8, <2>1 DEF AESSchedule
  <1>10. sent = << >>
    BY <1>1, <1>2 DEF AESSent, i
  <1>11. back = << >>
    <2>1. Len(sent) # Rounds(phase) + 1
      BY <1>3, <1>10
    <2> QED BY <1>2, <2>1 DEF AESBack
  <1>12. AESSent' /\ AESBack'
    BY <1>1, <1>3, <1>10, <1>11 DEF AESSent, AESBack
  <1> QED BY <1>9, <1>12, AESNext

\* A block begins.
LEMMA AESEncryptBlock ==
    aes!Inv /\ (\E b \in AESBlocks : aes!EncryptBlock(b)) => aes!Inv'
  <1> SUFFICES ASSUME aes!Inv, NEW b \in AESBlocks, aes!EncryptBlock(b) PROVE aes!Inv'
    OBVIOUS
  <1> DEFINE full == 4 * (Rounds(phase) + 1)  s == aes!addRoundKey(aes!Load(b), schedule, 0)
  <1>1. /\ Len(schedule) = full /\ sent = << >> /\ Len(b) = 16 /\ text' = b /\ sent' = << s >>
        /\ phase' = phase /\ schedule' = schedule /\ back' = back
    BY DEF aes!EncryptBlock, aes!Expanded, aes!Nr, aes!Nk, Rounds
  <1>2. AESSchedule /\ AESSent /\ AESBack
    BY AESNow
  <1>3. b \in Seq(Byte) /\ schedule \in Seq(Word4) /\ Rounds(phase) \in Nat
    BY <1>2, AESAssumption, SizeFacts DEF Byte, AESSchedule
  <1>4. s \in Square
    <2>1. aes!Load(b) \in Square /\ 0 \in Nat /\ 4 * 0 + 4 <= Len(schedule)
      BY <1>1, <1>3, LoadStore
    <2> QED BY <1>3, <2>1, KeyBack
  <1> HIDE DEF full
  <1>5. sent' \in Seq(Square) /\ Len(sent') = 1 /\ sent'[1] = s
    <2> HIDE DEF s
    <2> QED BY <1>1, <1>4
  <1>6. back = << >>
    <2>1. Len(sent) # Rounds(phase) + 1
      BY <1>1, <1>3
    <2> QED BY <1>2, <2>1 DEF AESBack
  <1>7. AESSchedule'
    BY <1>1, <1>2 DEF AESSchedule
  <1>8. AESSent'
    <2>1. /\ Len(sent') <= Rounds(phase') + 1
          /\ Len(schedule') = 4 * (Rounds(phase') + 1) /\ text' \in Seq(Byte) /\ Len(text') = 16
          /\ sent'[1] = aes!addRoundKey(aes!Load(text'), schedule', 0)
      BY <1>1, <1>3, <1>5 DEF full
    <2>2. 1 .. Len(sent') - 1 = {}
      BY <1>5
    <2> QED BY <1>5, <2>1, <2>2 DEF AESSent
  <1>9. AESBack'
    BY <1>1, <1>3, <1>6 DEF AESBack
  <1> QED BY <1>7, <1>8, <1>9, AESNext

\* A round of encryptBlock().
LEMMA AESEncryptRound ==
    aes!Inv /\ aes!EncryptRound => aes!Inv'
  <1> SUFFICES ASSUME aes!Inv, aes!EncryptRound PROVE aes!Inv'
    OBVIOUS
  <1> DEFINE n == Len(sent)
             h == aes!addRoundKey(Stir(phase, sent[n], n), schedule, n)
  <1>1. /\ n \in 1 .. Rounds(phase) /\ sent' = Append(sent, h)
        /\ phase' = phase /\ schedule' = schedule /\ text' = text /\ back' = back
    <2>1. aes!Nr = Rounds(phase)
      BY DEF aes!Nr, aes!Nk, Rounds
    <2> QED BY <2>1 DEF aes!EncryptRound, Stir
  <1>2. AESSchedule /\ AESSent /\ AESBack
    BY AESNow
  <1>3. schedule \in Seq(Word4) /\ sent \in Seq(Square) /\ Rounds(phase) \in Nat
    BY <1>2, SizeFacts DEF AESSchedule, AESSent
  <1>4. sent # << >>
    <2>1. sent = << >> => n = 0
      OBVIOUS
    <2> HIDE DEF n
    <2> QED BY <1>1, <2>1
  <1>5. /\ Len(schedule) = 4 * (Rounds(phase) + 1) /\ text \in Seq(Byte) /\ Len(text) = 16
        /\ sent[1] = aes!addRoundKey(aes!Load(text), schedule, 0)
    BY <1>2, <1>4 DEF AESSent
  <1>6. h \in Square
    <2>1. sent[n] \in Square
      <3>1. n \in 1 .. Len(sent)
        BY <1>1
      <3> QED BY <1>3, <3>1, ElementOfSeq
    <2>2. n \in Nat /\ 4 * n + 4 <= Len(schedule)
      <3> HIDE DEF n
      <3> QED BY <1>1, <1>3, <1>5
    <2>3. Stir(phase, sent[n], n) \in Square
      BY <2>1, <2>2, StirType, Zenon
    <2> QED BY <1>3, <2>2, <2>3, KeyBack
  <1> HIDE DEF h
  <1>7. /\ sent' \in Seq(Square) /\ Len(sent') = n + 1
        /\ (\A i \in 1 .. n : sent'[i] = sent[i]) /\ sent'[n + 1] = h
    BY <1>1, <1>3, <1>6, AppendProperties
  <1>8. ASSUME NEW i \in 1 .. Len(sent') - 1
        PROVE  sent'[i + 1] = aes!addRoundKey(Stir(phase, sent'[i], i), schedule, i)
    <2>1. CASE i = n
      <3>1. n \in 1 .. n
        BY <1>1
      <3> QED BY <1>7, <2>1, <3>1 DEF h
    <2>2. CASE i # n
      <3>1. i \in 1 .. n - 1 /\ i \in 1 .. n /\ i + 1 \in 1 .. n
        BY <1>1, <1>7, <2>2
      <3>2. sent[i + 1] = aes!addRoundKey(Stir(phase, sent[i], i), schedule, i)
        BY <1>2, <3>1 DEF AESSent
      <3> QED BY <1>7, <3>1, <3>2
    <2> QED BY <2>1, <2>2
  <1>9. back = << >>
    <2>1. n # Rounds(phase) + 1
      <3> HIDE DEF n
      <3> QED BY <1>1, <1>3
    <2> QED BY <1>2, <2>1 DEF AESBack
  <1>10. AESSchedule'
    BY <1>1, <1>2 DEF AESSchedule
  <1>11. AESSent'
    <2>1. Len(sent') <= Rounds(phase') + 1
      <3> HIDE DEF n
      <3> QED BY <1>1, <1>3, <1>7
    <2>2. sent'[1] = aes!addRoundKey(aes!Load(text'), schedule', 0)
      BY <1>1, <1>5, <1>7
    <2>3. /\ Len(schedule') = 4 * (Rounds(phase') + 1) /\ text' \in Seq(Byte) /\ Len(text') = 16
      BY <1>1, <1>5
    <2>4. \A i \in 1 .. Len(sent') - 1 :
             sent'[i + 1] = aes!addRoundKey(Stir(phase', sent'[i], i), schedule', i)
      BY <1>1, <1>8
    <2> QED BY <1>7, <2>1, <2>2, <2>3, <2>4 DEF AESSent
  <1>12. AESBack'
    BY <1>1, <1>3, <1>9 DEF AESBack
  <1> QED BY <1>10, <1>11, <1>12, AESNext

\* decryptBlock() takes off the last round key: what is left is the last round's State.
LEMMA AESDecryptBlock ==
    aes!Inv /\ aes!DecryptBlock => aes!Inv'
  <1> SUFFICES ASSUME aes!Inv, aes!DecryptBlock PROVE aes!Inv'
    OBVIOUS
  <1> DEFINE n == Rounds(phase)  s == sent[n]
             h == aes!addRoundKey(aes!Load(aes!Store(sent[n + 1])), schedule, n)
  <1>1. /\ Len(sent) = n + 1 /\ back' = << h >>
        /\ phase' = phase /\ schedule' = schedule /\ text' = text /\ sent' = sent
    <2>1. aes!Nr = n
      BY DEF aes!Nr, aes!Nk, Rounds
    <2> QED BY <2>1 DEF aes!DecryptBlock
  <1>2. AESSchedule /\ AESSent /\ AESBack
    BY AESNow
  <1>3. schedule \in Seq(Word4) /\ sent \in Seq(Square) /\ n \in Nat /\ n >= 1 /\ n + 1 # 1
    BY <1>2, SizeFacts DEF AESSchedule, AESSent
  <1> HIDE DEF n
  <1>4. Len(schedule) = 4 * (n + 1)
    <2>1. sent # << >>
      BY <1>1, <1>3
    <2> QED BY <1>2, <2>1 DEF AESSent, n
  <1>5. s \in Square /\ sent[n + 1] \in Square
    <2>1. n \in 1 .. Len(sent) /\ n + 1 \in 1 .. Len(sent)
      BY <1>1, <1>3
    <2> QED BY <1>3, <2>1, ElementOfSeq
  <1>6. sent[n + 1] = aes!addRoundKey(Stir(phase, s, n), schedule, n)
    <2>1. n \in 1 .. Len(sent) - 1
      BY <1>1, <1>3
    <2> QED BY <1>2, <2>1 DEF AESSent
  <1> HIDE DEF s
  <1>7. Stir(phase, s, n) = aes!shiftRows(aes!subBytes(s)) /\ Stir(phase, s, n) \in Square
    <2>1. ~(n < Rounds(phase))
      BY <1>3 DEF n
    <2> QED BY <1>3, <1>5, <2>1, StirType
  <1>8. h = aes!shiftRows(aes!subBytes(s)) /\ h \in Square
    <2>1. aes!Load(aes!Store(sent[n + 1])) = sent[n + 1]
      BY <1>5, LoadStore
    <2>2. 4 * n + 4 <= Len(schedule)
      BY <1>3, <1>4
    <2>3. aes!addRoundKey(aes!addRoundKey(Stir(phase, s, n), schedule, n), schedule, n) = Stir(phase, s, n)
      BY <1>3, <1>7, <2>2, KeyBack
    <2> QED BY <1>6, <1>7, <2>1, <2>3
  <1> HIDE DEF h
  <1>9. back' \in Seq(Square) /\ Len(back') = 1 /\ back'[1] = aes!shiftRows(aes!subBytes(sent'[n]))
    <2>1. back' = << h >> /\ h = aes!shiftRows(aes!subBytes(sent'[n]))
      BY <1>1, <1>8 DEF s
    <2> QED BY <1>8, <2>1
  <1>10. AESSchedule'
    BY <1>1, <1>2 DEF AESSchedule
  <1>11. AESSent'
    BY <1>1, <1>2 DEF AESSent
  <1>12. AESBack'
    <2>1. ASSUME NEW j \in 1 .. Len(back')
          PROVE  back'[j] = aes!shiftRows(aes!subBytes(sent'[n + 1 - j]))
      <3>1. j = 1 /\ n + 1 - j = n
        BY <1>3, <1>9
      <3> QED BY <1>9, <3>1
    <2>2. Len(back') <= n + 1 /\ Len(back') # n + 1 /\ Len(sent') = n + 1
      BY <1>1, <1>3, <1>9
    <2>3. Rounds(phase') = n
      BY <1>1 DEF n
    <2> QED BY <1>9, <2>1, <2>2, <2>3 DEF AESBack
  <1> QED BY <1>10, <1>11, <1>12, AESNext

\* A round of decryptBlock() undoes one of encryptBlock(); the last one leaves the block.
LEMMA AESDecryptRound ==
    aes!Inv /\ aes!DecryptRound => aes!Inv'
  <1> SUFFICES ASSUME aes!Inv, aes!DecryptRound PROVE aes!Inv'
    OBVIOUS
  <1> DEFINE n == Rounds(phase)  l == Len(back)  k == n - l
             keyed == aes!addRoundKey(aes!invSubBytes(aes!invShiftRows(back[l])), schedule, k)
             h == IF k > 0 THEN aes!invMixColumns(keyed) ELSE keyed
  <1>1. /\ l \in 1 .. n /\ back' = Append(back, h)
        /\ phase' = phase /\ schedule' = schedule /\ text' = text /\ sent' = sent
    <2>1. aes!Nr = n
      BY DEF aes!Nr, aes!Nk, Rounds
    <2> QED BY <2>1 DEF aes!DecryptRound
  <1>2. AESSchedule /\ AESSent /\ AESBack
    BY AESNow
  <1>3. schedule \in Seq(Word4) /\ sent \in Seq(Square) /\ back \in Seq(Square) /\ n \in Nat /\ n >= 1
    BY <1>2, SizeFacts DEF AESSchedule, AESSent, AESBack
  <1>4. back # << >>
    <2>1. back = << >> => l = 0
      OBVIOUS
    <2> HIDE DEF l
    <2> QED BY <1>1, <2>1
  <1>5. Len(sent) = n + 1
    BY <1>2, <1>4 DEF AESBack
  <1>6. /\ Len(schedule) = 4 * (n + 1) /\ text \in Seq(Byte) /\ Len(text) = 16
        /\ sent[1] = aes!addRoundKey(aes!Load(text), schedule, 0)
    <2>1. sent # << >>
      <3> HIDE DEF n
      <3> QED BY <1>3, <1>5
    <2> QED BY <1>2, <2>1 DEF AESSent
  <1>7. \A j \in 1 .. l : j <= n => back[j] = aes!shiftRows(aes!subBytes(sent[n + 1 - j]))
    BY <1>2 DEF AESBack
  <1>8. \A i \in 1 .. Len(sent) - 1 : sent[i + 1] = aes!addRoundKey(Stir(phase, sent[i], i), schedule, i)
    BY <1>2 DEF AESSent
  <1> DEFINE u == sent[k + 1]
  <1> HIDE DEF n, l
  <1>9. k \in Nat /\ k < n /\ k + 1 \in 1 .. Len(sent) /\ n + 1 - l = k + 1 /\ 4 * k + 4 <= Len(schedule)
    BY <1>1, <1>3, <1>5, <1>6
  <1> HIDE DEF k
  <1>10. u \in Square
    BY <1>3, <1>9, ElementOfSeq
  <1>11. back[l] = aes!shiftRows(aes!subBytes(u))
    BY <1>1, <1>3, <1>7, <1>9
  <1> HIDE DEF u
  <1>12. aes!invSubBytes(aes!invShiftRows(back[l])) = u
    BY <1>9, <1>10, <1>11, StirType, Zenon
  <1>13. keyed = aes!addRoundKey(u, schedule, k)
    BY <1>12
  <1> HIDE DEF keyed
  <1>14. CASE k = 0
    <2>1. u = aes!addRoundKey(aes!Load(text), schedule, 0)
      BY <1>6, <1>14 DEF u
    <2>2. aes!Load(text) \in Square /\ aes!Store(aes!Load(text)) = text
      BY <1>6, LoadStore
    <2>3. keyed = aes!Load(text)
      <3>1. 0 \in Nat /\ 4 * 0 + 4 <= Len(schedule)
        BY <1>9, <1>14
      <3>2. aes!addRoundKey(aes!addRoundKey(aes!Load(text), schedule, 0), schedule, 0) = aes!Load(text)
        BY <1>3, <2>2, <3>1, KeyBack
      <3> QED BY <1>13, <1>14, <2>1, <3>2
    <2>4. h \in Square /\ aes!Store(h) = text /\ l = n
      <3>1. l = n
        BY <1>1, <1>3, <1>14 DEF k
      <3>2. h = keyed
        BY <1>14
      <3> QED BY <2>2, <2>3, <3>1, <3>2
    <2> HIDE DEF h
    <2>5. /\ back' \in Seq(Square) /\ Len(back') = l + 1
          /\ (\A i \in 1 .. l : back'[i] = back[i]) /\ back'[l + 1] = h
      BY <1>1, <1>3, <2>4, AppendProperties DEF l
    <2>6. /\ Rounds(phase') = n /\ Len(sent') = n + 1 /\ text' = text
      BY <1>1, <1>5 DEF n
    <2>7. \A j \in 1 .. Len(back') : j <= n =>
             back'[j] = aes!shiftRows(aes!subBytes(sent'[n + 1 - j]))
      <3> SUFFICES ASSUME NEW j \in 1 .. Len(back'), j <= n
                   PROVE  back'[j] = aes!shiftRows(aes!subBytes(sent'[n + 1 - j]))
        OBVIOUS
      <3>1. j \in 1 .. l
        BY <1>3, <2>4, <2>5
      <3> QED BY <1>1, <1>7, <2>5, <3>1
    <2>8. AESBack'
      <3>1. Len(back') <= n + 1 /\ aes!Store(back'[n + 1]) = text'
        BY <1>3, <2>4, <2>5, <2>6
      <3> QED BY <2>5, <2>6, <2>7, <3>1 DEF AESBack
    <2>9. AESSchedule' /\ AESSent'
      BY <1>1, <1>2 DEF AESSchedule, AESSent
    <2> QED BY <2>8, <2>9, AESNext
  <1>15. CASE k # 0
    <2> DEFINE v == sent[k]
    <2>1. k \in 1 .. Len(sent) /\ k \in 1 .. Len(sent) - 1 /\ k > 0
      BY <1>3, <1>5, <1>9, <1>15
    <2>2. v \in Square
      BY <1>3, <2>1, ElementOfSeq
    <2>3. u = aes!addRoundKey(Stir(phase, v, k), schedule, k)
      BY <1>8, <2>1 DEF u
    <2> HIDE DEF v
    <2>4. /\ Stir(phase, v, k) \in Square
          /\ aes!invMixColumns(Stir(phase, v, k)) = aes!shiftRows(aes!subBytes(v))
          /\ aes!shiftRows(aes!subBytes(v)) \in Square
      BY <1>9, <2>2, StirType DEF n
    <2>5. keyed = Stir(phase, v, k)
      <3>1. aes!addRoundKey(aes!addRoundKey(Stir(phase, v, k), schedule, k), schedule, k) = Stir(phase, v, k)
        BY <1>3, <1>9, <2>4, KeyBack
      <3> QED BY <1>13, <2>3, <3>1
    <2>6. h = aes!shiftRows(aes!subBytes(v)) /\ h \in Square
      BY <2>1, <2>4, <2>5
    <2> HIDE DEF h
    <2>7. /\ back' \in Seq(Square) /\ Len(back') = l + 1
          /\ (\A i \in 1 .. l : back'[i] = back[i]) /\ back'[l + 1] = h
      BY <1>1, <1>3, <2>6, AppendProperties DEF l
    <2>8. /\ Rounds(phase') = n /\ Len(sent') = n + 1 /\ text' = text
      BY <1>1, <1>5 DEF n
    <2>9. l \in 1 .. n - 1 /\ n + 1 - (l + 1) = k
      BY <1>1, <1>3, <1>15 DEF k
    <2>10. \A j \in 1 .. Len(back') : j <= n =>
              back'[j] = aes!shiftRows(aes!subBytes(sent'[n + 1 - j]))
      <3> SUFFICES ASSUME NEW j \in 1 .. Len(back'), j <= n
                   PROVE  back'[j] = aes!shiftRows(aes!subBytes(sent'[n + 1 - j]))
        OBVIOUS
      <3>1. CASE j = l + 1
        <4>1. n + 1 - j = k
          BY <2>9, <3>1
        <4> QED BY <1>1, <2>6, <2>7, <3>1, <4>1 DEF v
      <3>2. CASE j # l + 1
        <4>1. j \in 1 .. l
          BY <2>7, <2>9, <3>2
        <4> QED BY <1>1, <1>7, <2>7, <4>1
      <3> QED BY <3>1, <3>2
    <2>11. AESBack'
      <3>1. Len(back') <= n + 1 /\ Len(back') # n + 1
        BY <1>3, <2>7, <2>9
      <3> QED BY <2>7, <2>8, <2>10, <3>1 DEF AESBack
    <2>12. AESSchedule' /\ AESSent'
      BY <1>1, <1>2 DEF AESSchedule, AESSent
    <2> QED BY <2>11, <2>12, AESNext
  <1> QED BY <1>14, <1>15

\* Between calls nothing is kept but the schedule.
LEMMA AESReturn ==
    aes!Inv /\ aes!Return => aes!Inv'
  <1> SUFFICES ASSUME aes!Inv, aes!Return PROVE aes!Inv'
    OBVIOUS
  <1>1. text' = << >> /\ sent' = << >> /\ back' = << >> /\ phase' = phase /\ schedule' = schedule
    BY DEF aes!Return
  <1>2. AESSchedule
    BY AESNow
  <1>3. Rounds(phase) \in Nat
    BY <1>2, SizeFacts DEF AESSchedule
  <1>4. AESSchedule'
    BY <1>1, <1>2 DEF AESSchedule
  <1>5. AESSent' /\ AESBack'
    BY <1>1, <1>3 DEF AESSent, AESBack
  <1> QED BY <1>4, <1>5, AESNext

----------------------------------------------------------------------------
(*                                   RSA                                   *)

\* The words of the machine.
MachineWords == 0 .. RSAWords - 1

Moduli == MachineWords \ {0}

\* A word modulo a modulus is a word below it.
LEMMA ModWord ==
    ASSUME NEW x \in Int, NEW n \in Moduli
    PROVE  x % n \in 0 .. n - 1 /\ x % n \in MachineWords
  <1>1. RSAWords \in Nat \ {0} /\ n \in Nat \ {0} /\ n <= RSAWords - 1
    BY RSAAssumption DEF Moduli, MachineWords
  <1> DEFINE y == x % n
  <1>2. y \in 0 .. n - 1
    BY <1>1, ModDef, Zenon
  <1> HIDE DEF y
  <1>3. y \in 0 .. RSAWords - 1
    BY <1>1, <1>2
  <1> QED BY <1>2, <1>3 DEF y, MachineWords

\* The turns of mulMod()'s loop.
LEMMA DoublingTurn ==
    /\ \A a \in MachineWords, res \in MachineWords, n \in Moduli : rsa!Doubling[0][a][res][n] = res
    /\ \A b \in Moduli, a \in MachineWords, res \in MachineWords, n \in Moduli :
          rsa!Doubling[b][a][res][n]
            = rsa!Doubling[b \div 2][rsa!Wrap(a * 2) % n]
                          [IF b % 2 = 1 THEN rsa!Wrap(res + a) % n ELSE res][n]
  <1> DEFINE W == MachineWords
             V == [W -> [W -> [Moduli -> W]]]
             N == RSAWords - 1
             up(a, n) == rsa!Wrap(a * 2) % n
             sum(b, a, res, n) == IF b % 2 = 1 THEN rsa!Wrap(res + a) % n ELSE res
             z == [a \in W |-> [res \in W |-> [n \in Moduli |-> res]]]
             step == [b \in 1 .. N |-> [h \in V |->
                        [a \in W |-> [res \in W |-> [n \in Moduli |-> h[up(a, n)][sum(b, a, res, n)][n]]]]]]
             prev == [b \in 1 .. N |-> b \div 2]
             turn(g, b, a, res, n) == IF b = 0 THEN res ELSE g[b \div 2][up(a, n)][sum(b, a, res, n)][n]
             def(g) == g = [b \in W |-> [a \in W |-> [res \in W |-> [n \in Moduli |-> turn(g, b, a, res, n)]]]]
  <1>1. N \in Nat /\ W = 0 .. N
    BY RSAAssumption DEF MachineWords
  <1>2. ASSUME NEW a \in W, NEW res \in W, NEW b \in W, NEW n \in Moduli
        PROVE  up(a, n) \in W /\ sum(b, a, res, n) \in W
    <2> DEFINE p == a * 2  q == res + a
    <2>1. p \in Int /\ q \in Int /\ RSAWords \in Nat \ {0}
      BY RSAAssumption DEF MachineWords
    <2> HIDE DEF p, q
    <2>2. p % RSAWords \in Int /\ q % RSAWords \in Int
      BY <2>1, ModDef
    <2>3. (p % RSAWords) % n \in W /\ (q % RSAWords) % n \in W
      BY <2>2, ModWord
    <2> QED BY <2>3 DEF p, q, rsa!Wrap
  <1> HIDE DEF N, up, sum
  <1>3. z \in V
    OBVIOUS
  <1>4. step \in [1 .. N -> [V -> V]]
    <2>1. ASSUME NEW b \in 1 .. N, NEW h \in V, NEW a \in W, NEW res \in W, NEW n \in Moduli
          PROVE  h[up(a, n)][sum(b, a, res, n)][n] \in W
      <3>1. b \in W
        BY <1>1
      <3>2. up(a, n) \in W /\ sum(b, a, res, n) \in W
        BY <1>2, <3>1
      <3> HIDE DEF W
      <3> QED BY <3>2
    <2> HIDE DEF W
    <2>2. ASSUME NEW b \in 1 .. N, NEW h \in V
          PROVE  [a \in W |-> [res \in W |-> [n \in Moduli |-> h[up(a, n)][sum(b, a, res, n)][n]]]] \in V
      BY <2>1, Zenon
    <2> HIDE DEF V
    <2> QED BY <2>2
  <1>5. \A b \in 1 .. N : prev[b] \in 0 .. b - 1
    BY <1>1
  <1> HIDE DEF step, prev, z, V
  <1>6. PICK f \in [0 .. N -> V] : f[0] = z /\ \A b \in 1 .. N : f[b] = step[b][f[prev[b]]]
    <2>1. \E f : Recursive(f, N, V, z, step, prev)
      BY <1>1, <1>3, <1>4, <1>5, Recursion, Zenon
    <2> QED BY <2>1, Zenon DEF Recursive
  <1>7. ASSUME NEW b \in W, NEW a \in W, NEW res \in W, NEW n \in Moduli
        PROVE  f[b][a][res][n] = turn(f, b, a, res, n)
    <2>1. CASE b = 0
      BY <1>6, <2>1 DEF z
    <2>2. CASE b # 0
      <3>1. b \in 1 .. N /\ prev[b] \in 0 .. N /\ prev[b] = b \div 2
        BY <1>1, <1>5, <2>2 DEF prev
      <3>2. f[b] = step[b][f[b \div 2]] /\ f[b \div 2] \in V
        BY <1>6, <3>1
      <3> DEFINE h == f[b \div 2]
      <3> HIDE DEF h
      <3>3. step[b][h][a][res][n] = h[up(a, n)][sum(b, a, res, n)][n]
        BY <3>1, <3>2 DEF step, h
      <3> QED BY <2>2, <3>2, <3>3 DEF h
    <2> QED BY <2>1, <2>2
  <1> HIDE DEF turn
  <1>8. ASSUME NEW b \in W
        PROVE  f[b] = [a \in W |-> [res \in W |-> [n \in Moduli |-> turn(f, b, a, res, n)]]]
    <2>1. f[b] \in [W -> [W -> [Moduli -> W]]]
      BY <1>1, <1>6, Zenon DEF V
    <2> HIDE DEF W
    <2>2. ASSUME NEW a \in W, NEW res \in W
          PROVE  f[b][a][res] = [n \in Moduli |-> turn(f, b, a, res, n)]
      BY <1>7, <2>1
    <2>3. ASSUME NEW a \in W
          PROVE  f[b][a] = [res \in W |-> [n \in Moduli |-> turn(f, b, a, res, n)]]
      BY <2>1, <2>2
    <2> QED BY <2>1, <2>3
  <1>9. def(f)
    <2>1. f = [b \in W |-> f[b]]
      BY <1>1
    <2> HIDE DEF W
    <2> QED BY <1>8, <2>1
  <1> HIDE DEF W
  <1>10. rsa!Doubling = CHOOSE g : def(g)
    BY Zenon DEF rsa!Doubling, turn, up, sum, W, MachineWords, rsa!Word, Moduli
  <1>11. def(rsa!Doubling)
    <2> HIDE DEF def
    <2> QED BY <1>9, <1>10
  <1>12. \A b \in W, a \in W, res \in W, n \in Moduli :
            rsa!Doubling[b][a][res][n] = turn(rsa!Doubling, b, a, res, n)
    <2> DEFINE G == rsa!Doubling
    <2> HIDE DEF G
    <2> SUFFICES ASSUME NEW b \in W, NEW a \in W, NEW res \in W, NEW n \in Moduli
                 PROVE  G[b][a][res][n] = turn(G, b, a, res, n)
      BY DEF G
    <2>1. G = [b1 \in W |-> [a1 \in W |-> [r1 \in W |-> [n1 \in Moduli |-> turn(G, b1, a1, r1, n1)]]]]
      BY <1>11, Zenon DEF G
    <2>2. G[b] = [a1 \in W |-> [r1 \in W |-> [n1 \in Moduli |-> turn(G, b, a1, r1, n1)]]]
      BY <2>1, Zenon
    <2>3. G[b][a] = [r1 \in W |-> [n1 \in Moduli |-> turn(G, b, a, r1, n1)]]
      BY <2>2
    <2>4. G[b][a][res] = [n1 \in Moduli |-> turn(G, b, a, res, n1)]
      BY <2>3
    <2> QED BY <2>4
  <1> HIDE DEF def
  <1>13. 0 \in W /\ Moduli \subseteq W /\ \A b \in Moduli : b # 0
    BY RSAAssumption DEF W, MachineWords, Moduli
  <1> QED BY <1>12, <1>13 DEF W, turn, up, sum

\* mulMod()'s loop adds up a * b modulo n, as long as twice the modulus fits the word.
LEMMA DoublingRight ==
    ASSUME NEW n \in Moduli, 2 * n <= RSAWords
    PROVE  \A b \in MachineWords : \A a \in 0 .. n - 1, res \in 0 .. n - 1 :
              rsa!Doubling[b][a][res][n] = (res + a * b) % n
  <1> DEFINE Right(b) == \A a \in 0 .. n - 1, res \in 0 .. n - 1 :
                            rsa!Doubling[b][a][res][n] = (res + a * b) % n
             T == {b \in MachineWords : ~Right(b)}
  <1>1. /\ RSAWords \in Nat \ {0} /\ n \in Nat \ {0} /\ n < RSAWords
        /\ 0 .. n - 1 \subseteq MachineWords /\ 0 \in MachineWords /\ MachineWords \subseteq Nat
    BY RSAAssumption DEF Moduli, MachineWords
  <1> SUFFICES ASSUME T # {} PROVE FALSE
    OBVIOUS
  <1>2. PICK b \in T : \A y \in T : b <= y
    <2>1. T \subseteq Nat
      BY <1>1, Zenon
    <2> HIDE DEF T
    <2> QED BY <2>1, Smallest, Zenon
  <1>3. b \in MachineWords /\ b \in Nat /\ ~Right(b)
    BY <1>1
  <1>4. CASE b = 0
    <2>1. ASSUME NEW a \in 0 .. n - 1, NEW res \in 0 .. n - 1
          PROVE  rsa!Doubling[0][a][res][n] = (res + a * 0) % n
      <3>1. rsa!Doubling[0][a][res][n] = res
        BY <1>1, DoublingTurn
      <3>2. res + a * 0 = res /\ res \in Int /\ 0 \in Int /\ res = n * 0 + res
        BY <1>1
      <3>3. res % n = res
        BY <1>1, <3>2, ModUnique, Zenon
      <3> QED BY <3>1, <3>2, <3>3
    <2> QED BY <1>3, <1>4, <2>1
  <1>5. CASE b # 0
    <2> DEFINE h == b \div 2
    <2>1. h \in MachineWords /\ h < b /\ h \in Nat /\ b \in Moduli /\ b = 2 * h + (b % 2) /\ b % 2 \in {0, 1}
      BY <1>1, <1>3, <1>5 DEF MachineWords, Moduli
    <2>2. Right(h)
      <3>1. h \notin T
        <4> HIDE DEF T, h
        <4> QED BY <1>2, <1>3, <2>1
      <3> QED BY <2>1, <3>1
    <2> HIDE DEF h
    <2>3. ASSUME NEW a \in 0 .. n - 1, NEW res \in 0 .. n - 1
          PROVE  rsa!Doubling[b][a][res][n] = (res + a * b) % n
      <3> DEFINE a1 == (a * 2) % n  res1 == IF b % 2 = 1 THEN (res + a) % n ELSE res
      <3>1. rsa!Wrap(a * 2) = a * 2 /\ rsa!Wrap(res + a) = res + a
        BY <1>1 DEF rsa!Wrap
      <3>2. rsa!Doubling[b][a][res][n] = rsa!Doubling[h][a1][res1][n]
        <4>1. a \in MachineWords /\ res \in MachineWords
          BY <1>1
        <4>2. rsa!Doubling[b][a][res][n]
                = rsa!Doubling[h][rsa!Wrap(a * 2) % n]
                              [IF b % 2 = 1 THEN rsa!Wrap(res + a) % n ELSE res][n]
          <5>1. \A c \in Moduli, x \in MachineWords, y \in MachineWords, k \in Moduli :
                   rsa!Doubling[c][x][y][k]
                     = rsa!Doubling[c \div 2][rsa!Wrap(x * 2) % k]
                                   [IF c % 2 = 1 THEN rsa!Wrap(y + x) % k ELSE y][k]
            BY DoublingTurn
          <5>2. b \in Moduli
            BY <2>1
          <5> QED BY <4>1, <5>1, <5>2, Zenon DEF h
        <4> QED BY <3>1, <4>2, Zenon
      <3> DEFINE q == (a * 2) \div n
      <3>3. a1 \in 0 .. n - 1 /\ q \in Int /\ a * 2 = n * q + a1
        <4> DEFINE u == a * 2
        <4>1. u \in Int
          BY <1>1
        <4> HIDE DEF u
        <4>2. u % n \in 0 .. n - 1 /\ u \div n \in Int /\ u = n * (u \div n) + (u % n)
          BY <1>1, <4>1, ModDef, Zenon
        <4> QED BY <4>2, Zenon DEF u
      <3>4. /\ res1 \in 0 .. n - 1
            /\ \E k \in Int : (IF b % 2 = 1 THEN res + a ELSE res) = n * k + res1
        <4>1. CASE b % 2 = 1
          <5> DEFINE u == res + a
          <5>1. u \in Int /\ res1 = u % n
            BY <1>1, <4>1
          <5> HIDE DEF u, res1
          <5>2. u % n \in 0 .. n - 1 /\ u \div n \in Int /\ u = n * (u \div n) + (u % n)
            BY <1>1, <5>1, ModDef, Zenon
          <5>3. (IF b % 2 = 1 THEN res + a ELSE res) = u
            BY <4>1 DEF u
          <5> QED BY <5>1, <5>2, <5>3, Zenon
        <4>2. CASE b % 2 # 1
          <5>1. res = n * 0 + res /\ 0 \in Int
            BY <1>1
          <5> QED BY <4>2, <5>1
        <4> QED BY <4>1, <4>2
      <3>5. PICK k \in Int : (IF b % 2 = 1 THEN res + a ELSE res) = n * k + res1
        BY <3>4
      <3> HIDE DEF a1, res1, q
      <3>6. rsa!Doubling[h][a1][res1][n] = (res1 + a1 * h) % n
        BY <2>2, <3>3, <3>4
      <3>7. res + a * b = (IF b % 2 = 1 THEN res + a ELSE res) + (a * 2) * h
        <4>1. CASE b % 2 = 1
          <5>1. b = 2 * h + 1
            BY <2>1, <4>1
          <5>2. a * (2 * h + 1) = (a * 2) * h + a
            BY <2>1, SMTT(20)
          <5> QED BY <2>1, <4>1, <5>1, <5>2
        <4>2. CASE b % 2 = 0
          <5>1. b = 2 * h
            BY <2>1, <4>2
          <5>2. a * (2 * h) = (a * 2) * h
            BY <2>1, SMTT(20)
          <5> QED BY <2>1, <4>2, <5>1, <5>2
        <4> QED BY <2>1, <4>1, <4>2
      <3> DEFINE t == k + q * h
      <3>8. res + a * b = res1 + a1 * h + n * t
        <4> DEFINE u == n * k  v == n * q
        <4>1. res + a * b = (u + res1) + (v + a1) * h
          BY <3>3, <3>5, <3>7
        <4>2. n * t = u + v * h
          BY <1>1, <2>1, <3>3, SMTT(20)
        <4>3. u \in Int /\ v \in Int /\ res1 \in Int /\ a1 \in Int /\ h \in Int
          BY <1>1, <2>1, <3>3, <3>4
        <4> DEFINE w == n * t
        <4> HIDE DEF u, v, w, t
        <4>4. w = u + v * h
          BY <4>2 DEF w
        <4>5. (u + res1) + (v + a1) * h = res1 + a1 * h + w
          BY <4>3, <4>4, SMTT(20)
        <4> QED BY <4>1, <4>5 DEF w
      <3>9. t \in Int /\ res + a * b \in Int /\ res1 + a1 * h \in Int
        BY <1>1, <1>3, <2>1, <3>3, <3>4, <3>5
      <3> DEFINE x == res + a * b  y == res1 + a1 * h
      <3>10. x \in Int /\ y \in Int /\ Congruent(x, y, n)
        BY <3>8, <3>9, Zenon DEF Congruent
      <3> HIDE DEF t, x, y
      <3>11. x % n = y % n
        BY <1>1, <3>10, ModSame
      <3> QED BY <3>2, <3>6, <3>11 DEF x, y
    <2> QED BY <1>3, <2>3
  <1> QED BY <1>4, <1>5

\* So mulMod() multiplies, for such a modulus.
LEMMA MulModRight ==
    ASSUME NEW n \in Moduli, 2 * n <= RSAWords, NEW a \in MachineWords, NEW b \in MachineWords
    PROVE  rsa!mulMod(a, b, n) = (a * b) % n /\ rsa!mulMod(a, b, n) \in 0 .. n - 1
  <1>1. n \in Nat \ {0} /\ a \in Int /\ b \in Int
    BY RSAAssumption DEF Moduli, MachineWords
  <1> DEFINE r == a % n
  <1>2. r \in 0 .. n - 1 /\ 0 \in 0 .. n - 1
    BY <1>1, ModDef
  <1>3. rsa!mulMod(a, b, n) = (0 + r * b) % n
    <2> HIDE DEF r
    <2>1. rsa!Doubling[b][r][0][n] = (0 + r * b) % n
      BY <1>2, DoublingRight
    <2> QED BY <2>1 DEF rsa!mulMod, r
  <1>4. (r * b) % n = (a * b) % n
    BY <1>1, ModFactor, Zenon
  <1> DEFINE u == r * b  v == a * b
  <1>5. u \in Int /\ v \in Int /\ 0 + u = u
    BY <1>1, <1>2
  <1>6. v % n \in 0 .. n - 1
    <2> HIDE DEF v
    <2> QED BY <1>1, <1>5, ModDef, Zenon
  <1> HIDE DEF r
  <1> QED BY <1>3, <1>4, <1>5, <1>6

\* The powers the code is measured by, one bit of the exponent after the other.
LEMMA PowerTurn ==
    /\ \A n \in Moduli, b \in MachineWords : rsa!PowerMod[0][n][b] = 1 % n
    /\ \A x \in Moduli, n \in Moduli, b \in MachineWords :
          rsa!PowerMod[x][n][b] = IF x % 2 = 0 THEN rsa!PowerMod[x \div 2][n][(b * b) % n]
                                  ELSE (b * rsa!PowerMod[x - 1][n][b]) % n
  <1> DEFINE W == MachineWords
             V == [Moduli -> [W -> W]]
             N == RSAWords - 1
             square(b, n) == (b * b) % n
             one(n) == 1 % n
             times(b, y, n) == (b * y) % n
             z == [n \in Moduli |-> [b \in W |-> one(n)]]
             step == [x \in 1 .. N |-> [h \in V |-> [n \in Moduli |-> [b \in W |->
                        IF x % 2 = 0 THEN h[n][square(b, n)] ELSE times(b, h[n][b], n)]]]]
             prev == [x \in 1 .. N |-> IF x % 2 = 0 THEN x \div 2 ELSE x - 1]
             turn(g, x, n, b) == IF x = 0 THEN one(n)
                                 ELSE IF x % 2 = 0 THEN g[x \div 2][n][square(b, n)]
                                      ELSE times(b, g[x - 1][n][b], n)
             def(g) == g = [x \in W |-> [n \in Moduli |-> [b \in W |-> turn(g, x, n, b)]]]
  <1>1. N \in Nat /\ W = 0 .. N
    BY RSAAssumption DEF MachineWords
  <1>2. ASSUME NEW b \in W, NEW y \in W, NEW n \in Moduli
        PROVE  square(b, n) \in W /\ times(b, y, n) \in W /\ one(n) \in W
    <2> DEFINE p == b * b  q == b * y
    <2>1. p \in Int /\ q \in Int /\ 1 \in Int
      BY RSAAssumption DEF MachineWords
    <2> HIDE DEF p, q
    <2>2. p % n \in W /\ q % n \in W /\ 1 % n \in W
      BY <2>1, ModWord
    <2> QED BY <2>2 DEF p, q
  <1> HIDE DEF N, square, one, times
  <1>3. z \in V
    <2> HIDE DEF W
    <2> QED BY <1>2
  <1>4. step \in [1 .. N -> [V -> V]]
    <2> HIDE DEF W
    <2>1. ASSUME NEW x \in 1 .. N, NEW h \in V, NEW n \in Moduli, NEW b \in W
          PROVE  (IF x % 2 = 0 THEN h[n][square(b, n)] ELSE times(b, h[n][b], n)) \in W
      <3>1. h[n] \in [W -> W]
        OBVIOUS
      <3>2. square(b, n) \in W
        BY <1>2
      <3>3. h[n][b] \in W /\ h[n][square(b, n)] \in W
        BY <3>1, <3>2
      <3>4. times(b, h[n][b], n) \in W
        BY <1>2, <3>3
      <3> QED BY <3>3, <3>4
    <2>2. ASSUME NEW x \in 1 .. N, NEW h \in V
          PROVE  [n \in Moduli |-> [b \in W |->
                     IF x % 2 = 0 THEN h[n][square(b, n)] ELSE times(b, h[n][b], n)]] \in V
      BY <2>1, Zenon
    <2> HIDE DEF V
    <2> QED BY <2>2
  <1>5. \A x \in 1 .. N : prev[x] \in 0 .. x - 1
    BY <1>1
  <1> HIDE DEF step, prev, z, V
  <1>6. PICK f \in [0 .. N -> V] : f[0] = z /\ \A x \in 1 .. N : f[x] = step[x][f[prev[x]]]
    <2>1. \E f : Recursive(f, N, V, z, step, prev)
      BY <1>1, <1>3, <1>4, <1>5, Recursion, Zenon
    <2> QED BY <2>1, Zenon DEF Recursive
  <1>7. ASSUME NEW x \in W, NEW n \in Moduli, NEW b \in W
        PROVE  f[x][n][b] = turn(f, x, n, b)
    <2>1. CASE x = 0
      <3>1. z[n][b] = one(n)
        BY DEF z
      <3>2. f[x][n][b] = one(n)
        BY <1>6, <2>1, <3>1, Zenon
      <3> QED BY <2>1, <3>2, Zenon
    <2>2. CASE x # 0
      <3>1. x \in 1 .. N /\ prev[x] \in 0 .. N /\ prev[x] = IF x % 2 = 0 THEN x \div 2 ELSE x - 1
        BY <1>1, <1>5, <2>2 DEF prev
      <3> DEFINE h == f[prev[x]]
      <3>2. f[x] = step[x][h] /\ h \in V
        BY <1>6, <3>1
      <3> HIDE DEF h
      <3>3. step[x][h][n][b] = IF x % 2 = 0 THEN h[n][square(b, n)] ELSE times(b, h[n][b], n)
        BY <3>1, <3>2 DEF step
      <3>4. CASE x % 2 = 0
        BY <2>2, <3>1, <3>2, <3>3, <3>4 DEF h
      <3>5. CASE x % 2 # 0
        BY <2>2, <3>1, <3>2, <3>3, <3>5 DEF h
      <3> QED BY <3>4, <3>5
    <2> QED BY <2>1, <2>2
  <1> HIDE DEF turn
  <1>8. ASSUME NEW x \in W
        PROVE  f[x] = [n \in Moduli |-> [b \in W |-> turn(f, x, n, b)]]
    <2>1. f[x] \in [Moduli -> [W -> W]]
      BY <1>1, <1>6, Zenon DEF V
    <2> HIDE DEF W
    <2>2. ASSUME NEW n \in Moduli
          PROVE  f[x][n] = [b \in W |-> turn(f, x, n, b)]
      BY <1>7, <2>1
    <2> QED BY <2>1, <2>2
  <1>9. def(f)
    <2>1. f = [x \in W |-> f[x]]
      BY <1>1
    <2> HIDE DEF W
    <2> QED BY <1>8, <2>1
  <1> HIDE DEF W
  <1>10. rsa!PowerMod = CHOOSE g : def(g)
    BY Zenon DEF rsa!PowerMod, turn, square, one, times, W, MachineWords, rsa!Word, Moduli
  <1>11. def(rsa!PowerMod)
    <2> HIDE DEF def
    <2> QED BY <1>9, <1>10
  <1>12. \A x \in W, n \in Moduli, b \in W : rsa!PowerMod[x][n][b] = turn(rsa!PowerMod, x, n, b)
    <2> DEFINE G == rsa!PowerMod
    <2> HIDE DEF G
    <2> SUFFICES ASSUME NEW x \in W, NEW n \in Moduli, NEW b \in W
                 PROVE  G[x][n][b] = turn(G, x, n, b)
      BY DEF G
    <2>1. G = [x1 \in W |-> [n1 \in Moduli |-> [b1 \in W |-> turn(G, x1, n1, b1)]]]
      BY <1>11, Zenon DEF G
    <2>2. G[x] = [n1 \in Moduli |-> [b1 \in W |-> turn(G, x, n1, b1)]]
      BY <2>1, Zenon
    <2>3. G[x][n] = [b1 \in W |-> turn(G, x, n, b1)]
      BY <2>2
    <2> QED BY <2>3
  <1> HIDE DEF def
  <1>13. 0 \in W /\ Moduli \subseteq W /\ \A x \in Moduli : x # 0
    BY RSAAssumption DEF W, MachineWords, Moduli
  <1>14. ASSUME NEW n \in Moduli, NEW b \in W PROVE rsa!PowerMod[0][n][b] = 1 % n
    BY <1>12, <1>13, Zenon DEF turn, one
  <1>15. ASSUME NEW x \in Moduli, NEW n \in Moduli, NEW b \in W
         PROVE  rsa!PowerMod[x][n][b] = IF x % 2 = 0 THEN rsa!PowerMod[x \div 2][n][(b * b) % n]
                                        ELSE (b * rsa!PowerMod[x - 1][n][b]) % n
    <2>1. x \in W /\ x # 0
      BY <1>13
    <2>2. rsa!PowerMod[x][n][b] = turn(rsa!PowerMod, x, n, b)
      BY <1>12, <2>1
    <2> QED BY <2>1, <2>2, Zenon DEF turn, square, times
  <1> QED BY <1>14, <1>15, Zenon DEF W

\* Every power is a residue of its modulus.
LEMMA PowerType ==
    \A x \in MachineWords, n \in Moduli, b \in MachineWords : rsa!PowerMod[x][n][b] \in 0 .. n - 1
  <1> DEFINE Fine(x) == \A n \in Moduli, b \in MachineWords : rsa!PowerMod[x][n][b] \in 0 .. n - 1
             T == {x \in MachineWords : ~Fine(x)}
  <1> SUFFICES ASSUME T # {} PROVE FALSE
    OBVIOUS
  <1>1. MachineWords \subseteq Nat /\ \A b \in MachineWords, y \in Int : b * y \in Int
    BY RSAAssumption DEF MachineWords
  <1>2. PICK x \in T : \A y \in T : x <= y
    <2>1. T \subseteq Nat
      BY <1>1, Zenon
    <2> HIDE DEF T
    <2> QED BY <2>1, Smallest, Zenon
  <1>3. x \in MachineWords /\ x \in Nat
    BY <1>1
  <1>4. CASE x = 0
    <2>1. \A n \in Moduli, b \in MachineWords : rsa!PowerMod[0][n][b] \in 0 .. n - 1
      <3>1. \A n \in Moduli : 1 % n \in 0 .. n - 1
        BY ModWord
      <3> QED BY <3>1, PowerTurn
    <2> QED BY <1>4, <2>1
  <1>5. CASE x # 0
    <2> DEFINE h == x \div 2  y == x - 1
    <2>1. h \in MachineWords /\ h < x /\ y \in MachineWords /\ y < x /\ x \in Moduli
      BY <1>3, <1>5, RSAAssumption DEF MachineWords, Moduli
    <2>2. Fine(h) /\ Fine(y)
      <3>1. h \in Nat /\ y \in Nat
        BY <1>1, <2>1
      <3>2. h \notin T /\ y \notin T
        <4> HIDE DEF T, h, y
        <4> QED BY <1>2, <1>3, <2>1, <3>1
      <3> QED BY <2>1, <3>2
    <2> HIDE DEF h, y
    <2>3. ASSUME NEW n \in Moduli, NEW b \in MachineWords PROVE rsa!PowerMod[x][n][b] \in 0 .. n - 1
      <3>1. (b * b) % n \in MachineWords
        <4>1. b * b \in Int
          BY <1>1
        <4> QED BY <4>1, ModWord
      <3>2. rsa!PowerMod[h][n][(b * b) % n] \in 0 .. n - 1
        BY <2>2, <3>1
      <3> DEFINE p == rsa!PowerMod[y][n][b]
      <3>3. p \in Int
        <4>1. p \in 0 .. n - 1 /\ n \in Nat
          BY <1>1, <2>2 DEF Moduli
        <4> HIDE DEF p
        <4> QED BY <4>1
      <3> HIDE DEF p
      <3>4. (b * p) % n \in 0 .. n - 1
        <4>1. b * p \in Int
          BY <1>1, <3>3
        <4> QED BY <4>1, ModWord
      <3>5. rsa!PowerMod[x][n][b] = IF x % 2 = 0 THEN rsa!PowerMod[h][n][(b * b) % n] ELSE (b * p) % n
        <4>1. \A x1 \in Moduli, n1 \in Moduli, b1 \in MachineWords :
                 rsa!PowerMod[x1][n1][b1] = IF x1 % 2 = 0 THEN rsa!PowerMod[x1 \div 2][n1][(b1 * b1) % n1]
                                            ELSE (b1 * rsa!PowerMod[x1 - 1][n1][b1]) % n1
          BY PowerTurn
        <4>2. x \in Moduli
          BY <2>1
        <4> QED BY <4>1, <4>2, Zenon DEF h, y, p
      <3>6. CASE x % 2 = 0
        BY <3>2, <3>5, <3>6, Zenon
      <3>7. CASE x % 2 # 0
        BY <3>4, <3>5, <3>7, Zenon
      <3> QED BY <3>6, <3>7
    <2> QED BY <2>3
  <1> QED BY <1>4, <1>5

\* modPow()'s turn: the power of b is that of its square to half the exponent, times b
\* where the exponent is odd.
LEMMA PowerHalf ==
    ASSUME NEW x \in Moduli, NEW n \in Moduli, NEW b \in MachineWords
    PROVE  /\ x \div 2 \in MachineWords /\ (b * b) % n \in MachineWords
           /\ rsa!PowerMod[x][n][b] = IF x % 2 = 1 THEN (b * rsa!PowerMod[x \div 2][n][(b * b) % n]) % n
                                      ELSE rsa!PowerMod[x \div 2][n][(b * b) % n]
  <1> DEFINE h == x \div 2  y == x - 1  s == (b * b) % n
  <1>1. /\ x \in Nat /\ h \in MachineWords /\ y \in MachineWords /\ x % 2 \in {0, 1}
        /\ y # 0 => y \in Moduli
        /\ x % 2 = 1 => y % 2 = 0 /\ y \div 2 = h
    BY RSAAssumption DEF MachineWords, Moduli
  <1>2. s \in MachineWords
    <2>1. b * b \in Int
      BY RSAAssumption DEF MachineWords
    <2> QED BY <2>1, ModWord
  <1> DEFINE P(e, c) == rsa!PowerMod[e][n][c]
  <1>3. ASSUME NEW e \in Moduli, NEW c \in MachineWords
        PROVE  P(e, c) = IF e % 2 = 0 THEN P(e \div 2, (c * c) % n) ELSE (c * P(e - 1, c)) % n
    <2>1. \A x1 \in Moduli, n1 \in Moduli, b1 \in MachineWords :
                 rsa!PowerMod[x1][n1][b1] = IF x1 % 2 = 0 THEN rsa!PowerMod[x1 \div 2][n1][(b1 * b1) % n1]
                                            ELSE (b1 * rsa!PowerMod[x1 - 1][n1][b1]) % n1
      BY PowerTurn
    <2> QED BY <2>1, Zenon
  <1>4. \A c \in MachineWords : P(0, c) = 1 % n
    BY PowerTurn
  <1> HIDE DEF P
  <1>5. P(x, b) = IF x % 2 = 0 THEN P(h, s) ELSE (b * P(y, b)) % n
    BY <1>3, Zenon
  <1>6. x % 2 = 1 => P(y, b) = P(h, s)
    <2> SUFFICES ASSUME x % 2 = 1 PROVE P(y, b) = P(h, s)
      OBVIOUS
    <2>1. CASE y = 0
      <3>1. h = 0
        BY <1>1, <2>1
      <3> HIDE DEF h, y, s
      <3> QED BY <1>2, <1>4, <2>1, <3>1
    <2>2. CASE y # 0
      <3>1. y \in Moduli /\ y % 2 = 0 /\ y \div 2 = h
        BY <1>1, <2>2
      <3> HIDE DEF y, h
      <3>2. P(y, b) = P(y \div 2, s)
        BY <1>3, <3>1
      <3> QED BY <3>1, <3>2
    <2> QED BY <2>1, <2>2
  <1>7. P(x, b) = IF x % 2 = 1 THEN (b * P(h, s)) % n ELSE P(h, s)
    <2> HIDE DEF h, s, y
    <2>1. CASE x % 2 = 1
      <3>1. x % 2 # 0
        BY <2>1
      <3> QED BY <1>5, <1>6, <2>1, <3>1, Zenon
    <2>2. CASE x % 2 = 0
      <3>1. x % 2 # 1
        BY <2>2
      <3> QED BY <1>5, <2>2, <3>1, Zenon
    <2> QED BY <1>1, <2>1, <2>2
  <1> QED BY <1>1, <1>2, <1>7, Zenon DEF P

\* The part of rsa!Inv about a call, in the names of this module.
RSACall ==
    /\ text \in RSABytes /\ text < key.n
    /\ local1 \in 0 .. key.n - 1 /\ local3 \in 0 .. key.n - 1 /\ local4 \in 0 .. key.n - 1
    /\ local2 \in MachineWords /\ local5 \in MachineWords
    /\ phase \in {"encrypt", "decrypt"} =>
          (local3 * rsa!PowerMod[local2][key.n][local1]) % key.n = rsa!PowerMod[local5][key.n][local4]
    /\ phase = "encrypt" => local4 = text /\ local5 = key.e
    /\ phase = "sent" => local3 = rsa!PowerMod[key.e][key.n][text]
    /\ phase = "decrypt" => local4 = rsa!PowerMod[key.e][key.n][text] /\ local5 = key.d
    /\ phase = "done" => local3 = text

\* Together with what is always so it is rsa!Inv,
LEMMA RSANow ==
    rsa!Inv <=> /\ key \in RSAKeyPairs
                /\ phase \in {"idle", "encrypt", "sent", "decrypt", "done"}
                /\ phase # "idle" /\ 2 * key.n <= RSAWords => RSACall
  <1>1. rsa!Word = MachineWords
    BY DEF rsa!Word, MachineWords
  <1>2. /\ {local1, local3, local4} \subseteq 0 .. key.n - 1
             <=> local1 \in 0 .. key.n - 1 /\ local3 \in 0 .. key.n - 1 /\ local4 \in 0 .. key.n - 1
        /\ {local2, local5} \subseteq MachineWords <=> local2 \in MachineWords /\ local5 \in MachineWords
    BY Zenon
  <1>3. CASE 2 * key.n <= RSAWords
    BY <1>1, <1>2, <1>3, Zenon DEF rsa!Inv, rsa!NothingLost, RSACall
  <1>4. CASE ~(2 * key.n <= RSAWords)
    BY <1>4, Zenon DEF rsa!Inv
  <1> QED BY <1>3, <1>4

\* now and in the next state.
LEMMA RSANext ==
    rsa!Inv' <=> /\ key' \in RSAKeyPairs
                 /\ phase' \in {"idle", "encrypt", "sent", "decrypt", "done"}
                 /\ phase' # "idle" /\ 2 * key'.n <= RSAWords => RSACall'
  <1> DEFINE A == key \in RSAKeyPairs
             B == phase \in {"idle", "encrypt", "sent", "decrypt", "done"}
             C == phase # "idle" /\ 2 * key.n <= RSAWords
  <1>1. rsa!Inv <=> A /\ B /\ (C => RSACall)
    BY RSANow
  <1>2. rsa!Inv' <=> A' /\ B' /\ (C' => RSACall')
    <2> HIDE DEF A, B, C
    <2> QED BY <1>1, PTL
  <1> QED BY <1>2

\* A key pair's numbers.
LEMMA PairFacts ==
    ASSUME NEW k \in RSAKeyPairs
    PROVE  /\ k.n \in Moduli /\ k.n \in Nat /\ k.n >= 2 /\ k.e \in MachineWords /\ k.d \in MachineWords
           /\ 0 .. k.n - 1 \subseteq MachineWords
           /\ \A byte \in RSABytes : byte < k.n =>
                 rsa!PowerMod[k.d][k.n][rsa!PowerMod[k.e][k.n][byte]] = byte
  <1>1. k.n \in 2 .. RSAWords - 1 /\ {k.e, k.d} \subseteq 0 .. RSAWords - 1 /\ RSAWords \in Nat
    BY RSAAssumption
  <1>2. rsa!BelongTogether(k)
    BY RSAAssumption
  <1> QED BY <1>1, <1>2 DEF Moduli, MachineWords, rsa!BelongTogether

\* An object with its keys and no call yet.
LEMMA RSAStarts ==
    rsa!Init => rsa!Inv
  BY RSANow DEF rsa!Init

\* A pair whose halves were copied from elsewhere leaves nothing to show.
LEMMA RSAGenerate ==
    rsa!Inv /\ rsa!generateKeyPair => rsa!Inv'
  <1> SUFFICES ASSUME rsa!Inv, rsa!generateKeyPair PROVE rsa!Inv'
    OBVIOUS
  <1>1. key' = key /\ phase' = phase /\ phase = "idle"
    BY Zenon DEF rsa!generateKeyPair
  <1> QED BY <1>1, RSANow, RSANext

\* What modPow() holds when it is called: nothing gathered, all still to do.
LEMMA CallStarts ==
    ASSUME NEW n \in Moduli, n >= 2, NEW b \in 0 .. n - 1, NEW x \in MachineWords
    PROVE  /\ b % n = b /\ b \in MachineWords /\ 1 \in 0 .. n - 1
           /\ (1 * rsa!PowerMod[x][n][b]) % n = rsa!PowerMod[x][n][b]
  <1>1. n \in Nat \ {0} /\ b \in MachineWords
    BY RSAAssumption DEF Moduli, MachineWords
  <1>2. ASSUME NEW c \in 0 .. n - 1 PROVE c % n = c
    <2>1. c \in Int /\ 0 \in Int /\ c = n * 0 + c
      BY <1>1
    <2> QED BY <1>1, <2>1, ModUnique
  <1> DEFINE p == rsa!PowerMod[x][n][b]
  <1>3. p \in 0 .. n - 1
    BY <1>1, PowerType
  <1> HIDE DEF p
  <1>4. 1 * p = p
    BY <1>1, <1>3
  <1>5. (1 * p) % n = p
    BY <1>2, <1>3, <1>4
  <1> QED BY <1>1, <1>2, <1>5 DEF p

\* encrypt() calls modPow() with the byte and the public exponent.
LEMMA RSAEncrypt ==
    rsa!Inv /\ (\E byte \in RSABytes : rsa!encrypt(byte)) => rsa!Inv'
  <1> SUFFICES ASSUME rsa!Inv, NEW byte \in RSABytes, rsa!encrypt(byte) PROVE rsa!Inv'
    OBVIOUS
  <1>1. /\ byte < key.n /\ text' = byte /\ phase' = "encrypt" /\ key' = key
        /\ local1' = byte % key.n /\ local2' = key.e /\ local3' = 1
        /\ local4' = byte /\ local5' = key.e
    BY Zenon DEF rsa!encrypt, rsa!Call
  <1>2. key \in RSAKeyPairs
    BY RSANow
  <1> DEFINE n == key.n  x == key.e
  <1>3. n \in Moduli /\ n \in Nat /\ n >= 2 /\ x \in MachineWords
    BY <1>2, PairFacts
  <1> HIDE DEF n, x
  <1>4. byte \in 0 .. n - 1
    <2>1. byte \in Nat
      BY RSAAssumption
    <2> QED BY <1>1, <1>3, <2>1 DEF n
  <1>5. /\ byte % n = byte /\ 1 \in 0 .. n - 1
        /\ (1 * rsa!PowerMod[x][n][byte]) % n = rsa!PowerMod[x][n][byte]
    BY <1>3, <1>4, CallStarts
  <1>6. RSACall'
    <2>1. /\ text' \in RSABytes /\ text' < n
          /\ local1' \in 0 .. n - 1 /\ local3' \in 0 .. n - 1 /\ local4' \in 0 .. n - 1
          /\ local2' \in MachineWords /\ local5' \in MachineWords
      BY <1>1, <1>3, <1>4, <1>5 DEF n, x
    <2>2. (local3' * rsa!PowerMod[local2'][n][local1']) % n = rsa!PowerMod[local5'][n][local4']
      BY <1>1, <1>5, Zenon DEF n, x
    <2> QED BY <1>1, <2>1, <2>2 DEF RSACall, n, x
  <1> QED BY <1>1, <1>2, <1>6, RSANext

\* A turn of modPow()'s loop moves a factor from what is to do to what is done.
LEMMA RSAModPow ==
    rsa!Inv /\ rsa!modPow => rsa!Inv'
  <1> SUFFICES ASSUME rsa!Inv, rsa!modPow PROVE rsa!Inv'
    OBVIOUS
  <1>1. /\ phase \in {"encrypt", "decrypt"} /\ local2 > 0
        /\ local3' = IF local2 % 2 = 1 THEN rsa!mulMod(local3, local1, key.n) ELSE local3
        /\ local1' = rsa!mulMod(local1, local1, key.n)
        /\ local2' = local2 \div 2
        /\ key' = key /\ text' = text /\ phase' = phase /\ local4' = local4 /\ local5' = local5
    BY Zenon DEF rsa!modPow
  <1>2. key \in RSAKeyPairs /\ (2 * key.n <= RSAWords => RSACall)
    BY <1>1, RSANow
  <1>3. CASE ~(2 * key.n <= RSAWords)
    BY <1>1, <1>2, <1>3, RSANext
  <1>4. CASE 2 * key.n <= RSAWords
    <2> DEFINE n == key.n  b == local1  r == local3  x == local2  h == local2 \div 2
               s == (b * b) % n
    <2>1. /\ n \in Moduli /\ n \in Nat /\ n >= 2 /\ 2 * n <= RSAWords /\ 0 .. n - 1 \subseteq MachineWords
      BY <1>2, <1>4, PairFacts
    <2>2. /\ b \in 0 .. n - 1 /\ r \in 0 .. n - 1 /\ x \in MachineWords /\ x \in Moduli
          /\ (r * rsa!PowerMod[x][n][b]) % n = rsa!PowerMod[local5][n][local4]
      BY <1>1, <1>2, <1>4 DEF RSACall, Moduli
    <2> DEFINE Q == rsa!PowerMod[h][n][s]
    <2>3. /\ h \in MachineWords /\ s \in MachineWords
          /\ rsa!PowerMod[x][n][b] = IF x % 2 = 1 THEN (b * Q) % n ELSE Q
      BY <2>1, <2>2, PowerHalf
    <2> HIDE DEF s, n, h
    <2>4. Q \in 0 .. n - 1
      BY <2>1, <2>3, PowerType
    <2>5. /\ rsa!mulMod(r, b, n) = (r * b) % n /\ rsa!mulMod(r, b, n) \in 0 .. n - 1
          /\ rsa!mulMod(b, b, n) = s /\ s \in 0 .. n - 1
      <3>1. r \in MachineWords /\ b \in MachineWords
        BY <2>1, <2>2
      <3>2. /\ rsa!mulMod(r, b, n) = (r * b) % n /\ rsa!mulMod(r, b, n) \in 0 .. n - 1
            /\ rsa!mulMod(b, b, n) = (b * b) % n /\ rsa!mulMod(b, b, n) \in 0 .. n - 1
        BY <2>1, <3>1, MulModRight
      <3> QED BY <3>2, Zenon DEF s
    <2> DEFINE t == IF x % 2 = 1 THEN (r * b) % n ELSE r
    <2>6. local1' = s /\ local2' = h /\ local3' = t /\ t \in 0 .. n - 1
      <3>1. CASE x % 2 = 1
        BY <1>1, <2>5, <3>1, Zenon DEF n, h
      <3>2. CASE x % 2 # 1
        BY <1>1, <2>2, <2>5, <3>2, Zenon DEF n, h
      <3> QED BY <3>1, <3>2
    <2> HIDE DEF Q
    <2>7. (t * Q) % n = (r * rsa!PowerMod[x][n][b]) % n
      <3>1. CASE x % 2 = 1
        <4> DEFINE u == r * b  v == b * Q
        <4>1. u \in Int /\ v \in Int /\ Q \in Int /\ r \in Int /\ n \in Nat \ {0}
          BY <2>1, <2>2, <2>4
        <4>2. u * Q = v * r
          BY <2>1, <2>2, <4>1, SMTT(20)
        <4> HIDE DEF u, v
        <4>3. ((u % n) * Q) % n = (u * Q) % n
          BY <4>1, ModFactor, Zenon
        <4>4. (r * (v % n)) % n = (v * r) % n
          BY <4>1, ModFactor, Zenon
        <4>5. t = u % n /\ rsa!PowerMod[x][n][b] = v % n
          BY <2>3, <3>1 DEF u, v
        <4> HIDE DEF t
        <4> QED BY <4>2, <4>3, <4>4, <4>5
      <3>2. CASE x % 2 # 1
        <4>1. t = r /\ rsa!PowerMod[x][n][b] = Q
          BY <2>3, <3>2
        <4> HIDE DEF t
        <4> QED BY <4>1
      <3> QED BY <3>1, <3>2
    <2>8. RSACall'
      <3>1. (local3' * rsa!PowerMod[local2'][n][local1']) % n = rsa!PowerMod[local5'][n][local4']
        BY <1>1, <2>2, <2>6, <2>7, Zenon DEF Q
      <3>2. /\ local1' \in 0 .. n - 1 /\ local3' \in 0 .. n - 1 /\ local2' \in MachineWords
        BY <2>3, <2>5, <2>6
      <3> QED BY <1>1, <1>2, <1>4, <3>1, <3>2 DEF RSACall, n
    <2> QED BY <1>1, <1>2, <2>8, RSANext
  <1> QED BY <1>3, <1>4

\* Nothing is left to do: the result is the power that was asked for.
LEMMA RSAReturn ==
    rsa!Inv /\ rsa!Return => rsa!Inv'
  <1> SUFFICES ASSUME rsa!Inv, rsa!Return PROVE rsa!Inv'
    OBVIOUS
  <1>1. /\ phase \in {"encrypt", "decrypt"} /\ local2 = 0
        /\ phase' = IF phase = "encrypt" THEN "sent" ELSE "done"
        /\ key' = key /\ text' = text /\ local1' = local1 /\ local2' = local2 /\ local3' = local3
        /\ local4' = local4 /\ local5' = local5
    BY Zenon DEF rsa!Return
  <1>2. key \in RSAKeyPairs /\ (2 * key.n <= RSAWords => RSACall) /\ phase' \in {"sent", "done"}
    BY <1>1, RSANow
  <1>3. CASE ~(2 * key.n <= RSAWords)
    BY <1>1, <1>2, <1>3, RSANext
  <1>4. CASE 2 * key.n <= RSAWords
    <2> DEFINE n == key.n  r == local3
    <2>1. /\ n \in Moduli /\ n \in Nat \ {0} /\ n >= 2 /\ 0 .. n - 1 \subseteq MachineWords
      BY <1>2, PairFacts
    <2>2. /\ local1 \in 0 .. n - 1 /\ r \in 0 .. n - 1 /\ RSACall
          /\ (r * rsa!PowerMod[0][n][local1]) % n = rsa!PowerMod[local5][n][local4]
      BY <1>1, <1>2, <1>4 DEF RSACall
    <2> HIDE DEF n, r
    <2>3. rsa!PowerMod[0][n][local1] = 1
      <3>1. local1 \in MachineWords
        BY <2>1, <2>2
      <3>2. rsa!PowerMod[0][n][local1] = 1 % n
        BY <2>1, <3>1, PowerTurn
      <3>3. 1 \in Int /\ 0 \in Int /\ 1 = n * 0 + 1 /\ 1 \in 0 .. n - 1
        BY <2>1
      <3>4. 1 % n = 1
        BY <2>1, <3>3, ModUnique
      <3> QED BY <3>2, <3>4
    <2>4. rsa!PowerMod[local5][n][local4] = r
      <3>1. r * 1 = r /\ r \in Int /\ 0 \in Int /\ r = n * 0 + r
        BY <2>1, <2>2
      <3>2. r % n = r
        BY <2>1, <2>2, <3>1, ModUnique
      <3> QED BY <2>2, <2>3, <3>1, <3>2
    <2>5. text \in RSABytes /\ text < n
      BY <2>2 DEF RSACall, n
    <2>6. CASE phase = "encrypt"
      <3>1. phase' = "sent" /\ local3' = rsa!PowerMod[key.e][key.n][text]
        BY <1>1, <2>2, <2>4, <2>6 DEF RSACall, n, r
      <3>2. RSACall'
        BY <1>1, <2>2, <3>1 DEF RSACall
      <3> QED BY <1>1, <1>2, <3>2, RSANext
    <2>7. CASE phase = "decrypt"
      <3>1. rsa!PowerMod[key.d][n][rsa!PowerMod[key.e][n][text]] = text
        BY <1>2, <2>5, PairFacts DEF n
      <3>2. local4 = rsa!PowerMod[key.e][n][text] /\ local5 = key.d
        BY <2>2, <2>7 DEF RSACall, n
      <3>3. phase' = "done" /\ local3' = text
        BY <1>1, <2>4, <2>7, <3>1, <3>2 DEF r
      <3>4. RSACall'
        BY <1>1, <2>2, <3>3 DEF RSACall
      <3> QED BY <1>1, <1>2, <3>4, RSANext
    <2> QED BY <1>1, <2>6, <2>7
  <1> QED BY <1>3, <1>4

\* What was sent is deciphered.
LEMMA RSADecrypt ==
    rsa!Inv /\ rsa!decrypt => rsa!Inv'
  <1> SUFFICES ASSUME rsa!Inv, rsa!decrypt PROVE rsa!Inv'
    OBVIOUS
  <1>1. /\ phase = "sent" /\ phase' = "decrypt" /\ key' = key /\ text' = text
        /\ local1' = local3 % key.n /\ local2' = key.d /\ local3' = 1
        /\ local4' = local3 /\ local5' = key.d
    BY Zenon DEF rsa!decrypt, rsa!Call
  <1>2. key \in RSAKeyPairs /\ (2 * key.n <= RSAWords => RSACall)
    BY <1>1, RSANow
  <1>3. CASE ~(2 * key.n <= RSAWords)
    BY <1>1, <1>2, <1>3, RSANext
  <1>4. CASE 2 * key.n <= RSAWords
    <2> DEFINE n == key.n  x == key.d  r == local3
    <2>1. n \in Moduli /\ n \in Nat /\ n >= 2 /\ x \in MachineWords
      BY <1>2, PairFacts
    <2>2. /\ r \in 0 .. n - 1 /\ r = rsa!PowerMod[key.e][n][text] /\ text \in RSABytes /\ text < n
      BY <1>1, <1>2, <1>4 DEF RSACall
    <2> HIDE DEF n, x, r
    <2>3. /\ r % n = r /\ 1 \in 0 .. n - 1
          /\ (1 * rsa!PowerMod[x][n][r]) % n = rsa!PowerMod[x][n][r]
      BY <2>1, <2>2, CallStarts
    <2>4. RSACall'
      <3>1. /\ text' \in RSABytes /\ text' < n
            /\ local1' \in 0 .. n - 1 /\ local3' \in 0 .. n - 1 /\ local4' \in 0 .. n - 1
            /\ local2' \in MachineWords /\ local5' \in MachineWords
        BY <1>1, <2>1, <2>2, <2>3, Zenon DEF n, x, r
      <3>2. (local3' * rsa!PowerMod[local2'][n][local1']) % n = rsa!PowerMod[local5'][n][local4']
        BY <1>1, <2>3, Zenon DEF n, x, r
      <3>3. local4' = rsa!PowerMod[key.e][n][text'] /\ local5' = key.d
        BY <1>1, <2>2 DEF r
      <3> QED BY <1>1, <3>1, <3>2, <3>3, Zenon DEF RSACall, n
    <2> QED BY <1>1, <1>2, <2>4, RSANext
  <1> QED BY <1>3, <1>4

\* Bytes below 256 are their own low byte.
LEMMA RSAGivesBack ==
    rsa!Inv => rsa!NothingLost /\ rsa!RoundTrip
  <1> SUFFICES ASSUME rsa!Inv PROVE rsa!NothingLost /\ rsa!RoundTrip
    OBVIOUS
  <1>1. phase # "idle" /\ 2 * key.n <= RSAWords => RSACall
    BY RSANow
  <1>2. rsa!NothingLost
    BY <1>1, Zenon DEF rsa!NothingLost, RSACall
  <1>3. rsa!RoundTrip
    <2> SUFFICES ASSUME phase = "done", 2 * key.n <= RSAWords PROVE local3 % 256 = text
      BY DEF rsa!RoundTrip
    <2>1. local3 = text /\ text \in 0 .. 255
      BY <1>1, RSAAssumption, Zenon DEF RSACall
    <2> QED BY <2>1
  <1> QED BY <1>2, <1>3

----------------------------------------------------------------------------
(*                       Caesar, Affine and Vigenere                       *)

\* Rem is what is left over, with the sign of what is divided.
LEMMA RemSmaller ==
    ASSUME NEW a \in Int, NEW b \in Int, b # 0
    PROVE  /\ subst!Rem(a, b) \in Int
           /\ subst!Abs(b) \in Nat /\ subst!Abs(b) # 0
           /\ subst!Abs(subst!Rem(a, b)) < subst!Abs(b)
           /\ subst!Abs(subst!Rem(a, b)) \in Nat
  <1> DEFINE m == subst!Abs(b)  r == a % m  s == (-a) % m
  <1>1. m \in Nat \ {0}
    BY DEF subst!Abs
  <1> HIDE DEF m
  <1>2. r \in 0 .. m - 1 /\ s \in 0 .. m - 1
    BY <1>1, ModDef
  <1>3. subst!Rem(a, b) = IF a >= 0 THEN r ELSE -s
    BY DEF subst!Rem, m
  <1> HIDE DEF r, s
  <1> DEFINE t == IF a >= 0 THEN r ELSE -s
  <1>4. t \in Int /\ subst!Abs(t) < m /\ subst!Abs(t) \in Nat
    BY <1>1, <1>2 DEF subst!Abs
  <1> QED BY <1>1, <1>3, <1>4 DEF m

\* gcd() for second arguments up to n.
Turns(n) == {b \in Int : subst!Abs(b) <= n}

Dividing(g, n) ==
    /\ g \in [Turns(n) -> [Int -> Int]]
    /\ \A b \in Turns(n), a \in Int : g[b][a] = IF b = 0 THEN a ELSE g[subst!Rem(a, b)][b]

\* Two such tables agree as far as both go,
LEMMA DividingAgree ==
    ASSUME NEW m \in Nat, NEW n \in Nat, NEW f, NEW g, Dividing(f, m), Dividing(g, n),
           NEW b \in Int, subst!Abs(b) <= m, subst!Abs(b) <= n, NEW a \in Int
    PROVE  f[b][a] = g[b][a]
  <1> DEFINE T == {k \in Nat : k <= m /\ k <= n
                                 /\ \E y \in Int, x \in Int : subst!Abs(y) = k /\ f[y][x] # g[y][x]}
  <1>1. T = {}
    <2> SUFFICES ASSUME T # {} PROVE FALSE
      OBVIOUS
    <2>1. PICK k \in T : \A j \in T : k <= j
      <3>1. T \subseteq Nat
        OBVIOUS
      <3> HIDE DEF T
      <3> QED BY <3>1, Smallest, Zenon
    <2>2. PICK y \in Int, x \in Int : subst!Abs(y) = k /\ f[y][x] # g[y][x]
      OBVIOUS
    <2>3. k \in Nat /\ k <= m /\ k <= n
      OBVIOUS
    <2>4. y \in Turns(m) /\ y \in Turns(n)
      BY <2>2, <2>3 DEF Turns
    <2>5. CASE y = 0
      BY <2>2, <2>4, <2>5 DEF Dividing
    <2>6. CASE y # 0
      <3> DEFINE r == subst!Rem(x, y)  j == subst!Abs(r)
      <3>1. f[y][x] = f[r][y] /\ g[y][x] = g[r][y]
        BY <2>4, <2>6, Zenon DEF Dividing
      <3>2. r \in Int /\ j \in Nat /\ j < k
        BY <2>2, <2>6, RemSmaller, Zenon
      <3>3. j \notin T /\ j <= m /\ j <= n
        <4> HIDE DEF T, j
        <4> QED BY <2>1, <2>3, <3>2
      <3>4. f[r][y] = g[r][y]
        <4> HIDE DEF r
        <4> QED BY <3>2, <3>3
      <3> QED BY <2>2, <3>1, <3>4
    <2> QED BY <2>5, <2>6
  <1>2. subst!Abs(b) \in Nat
    BY DEF subst!Abs
  <1> QED BY <1>1, <1>2

\* and there is one for every size.
LEMMA DividingExists ==
    ASSUME NEW n \in Nat
    PROVE  \E g : Dividing(g, n)
  <1> DEFINE T == {k \in Nat : ~\E g : Dividing(g, k)}
  <1>1. T = {}
    <2> SUFFICES ASSUME T # {} PROVE FALSE
      OBVIOUS
    <2>1. PICK k \in T : \A j \in T : k <= j
      <3>1. T \subseteq Nat
        OBVIOUS
      <3> HIDE DEF T
      <3> QED BY <3>1, Smallest, Zenon
    <2>2. k \in Nat /\ ~\E g : Dividing(g, k)
      OBVIOUS
    <2>3. CASE k = 0
      <3> DEFINE g == [b \in Turns(0) |-> [a \in Int |-> a]]
      <3>1. \A b \in Turns(0) : b = 0
        BY DEF Turns, subst!Abs
      <3>2. Dividing(g, 0)
        BY <3>1 DEF Dividing
      <3> QED BY <2>2, <2>3, <3>2
    <2>4. CASE k # 0
      <3> DEFINE j == k - 1
      <3>1. j \in Nat /\ j < k
        BY <2>2, <2>4
      <3>2. PICK f : Dividing(f, j)
        <4> HIDE DEF j
        <4>1. j \notin T
          <5> HIDE DEF T
          <5> QED BY <2>1, <2>2, <3>1
        <4> QED BY <3>1, <4>1
      <3> DEFINE g == [b \in Turns(k) |-> IF b \in Turns(j) THEN f[b]
                                          ELSE [a \in Int |-> f[subst!Rem(a, b)][b]]]
      <3>3. ASSUME NEW b \in Turns(k), b # 0, NEW a \in Int
            PROVE  subst!Rem(a, b) \in Turns(j) /\ subst!Rem(a, b) \in Turns(k) /\ b \in Int
        <4> DEFINE r == subst!Rem(a, b)
        <4>1. b \in Int /\ subst!Abs(b) \in Nat /\ subst!Abs(b) <= k
          BY <3>3, RemSmaller DEF Turns
        <4>2. r \in Int /\ subst!Abs(r) < subst!Abs(b) /\ subst!Abs(r) \in Nat
          BY <3>3, <4>1, RemSmaller, Zenon
        <4> HIDE DEF r
        <4>3. subst!Abs(r) <= j /\ subst!Abs(r) <= k
          BY <2>2, <4>1, <4>2
        <4> QED BY <4>1, <4>2, <4>3 DEF r, Turns
      <3>4. 0 \in Turns(j) /\ Turns(j) \subseteq Int /\ Turns(k) \subseteq Int
        BY <3>1 DEF Turns, subst!Abs
      <3>5. f \in [Turns(j) -> [Int -> Int]]
        BY <3>2 DEF Dividing
      <3>6. ASSUME NEW b \in Turns(k), b \notin Turns(j) PROVE [a \in Int |-> f[subst!Rem(a, b)][b]] \in [Int -> Int]
        <4>1. ASSUME NEW a \in Int PROVE f[subst!Rem(a, b)][b] \in Int
          BY <3>3, <3>4, <3>5, <3>6
        <4> QED BY <4>1
      <3>7. g \in [Turns(k) -> [Int -> Int]]
        BY <3>5, <3>6
      <3>8. ASSUME NEW b \in Turns(k), NEW a \in Int
            PROVE  g[b][a] = IF b = 0 THEN a ELSE g[subst!Rem(a, b)][b]
        <4>1. CASE b \in Turns(j)
          <5>1. g[b] = f[b]
            BY <4>1
          <5>2. f[b][a] = IF b = 0 THEN a ELSE f[subst!Rem(a, b)][b]
            BY <3>2, <4>1 DEF Dividing
          <5>3. b # 0 => g[subst!Rem(a, b)] = f[subst!Rem(a, b)]
            BY <3>3
          <5> QED BY <5>1, <5>2, <5>3
        <4>2. CASE b \notin Turns(j)
          <5>1. b # 0
            BY <3>4, <4>2
          <5>2. g[b][a] = f[subst!Rem(a, b)][b]
            BY <4>2
          <5>3. g[subst!Rem(a, b)] = f[subst!Rem(a, b)]
            BY <3>3, <5>1
          <5> QED BY <5>1, <5>2, <5>3
        <4> QED BY <4>1, <4>2
      <3> HIDE DEF g
      <3>9. Dividing(g, k)
        BY <3>7, <3>8 DEF Dividing
      <3> QED BY <2>2, <3>9
    <2> QED BY <2>3, <2>4
  <1> QED BY <1>1

\* gcd() is Euclid's loop, one turn after the other.
LEMMA GcdTurn ==
    ASSUME NEW a \in Int, NEW b \in Int
    PROVE  subst!gcd[a][b] = IF b = 0 THEN a ELSE subst!gcd[b][subst!Rem(a, b)]
  <1> DEFINE best(n) == CHOOSE g : Dividing(g, n)
             G == [x \in Int |-> [y \in Int |-> best(subst!Abs(y))[y][x]]]
             def(g) == g = [x \in Int |-> [y \in Int |-> IF y = 0 THEN x ELSE g[y][subst!Rem(x, y)]]]
  <1>1. ASSUME NEW n \in Nat PROVE Dividing(best(n), n)
    BY DividingExists
  <1> HIDE DEF best
  <1>2. ASSUME NEW x \in Int, NEW y \in Int
        PROVE  G[x][y] = IF y = 0 THEN x ELSE G[y][subst!Rem(x, y)]
    <2> DEFINE n == subst!Abs(y)
    <2>1. n \in Nat /\ G[x][y] = best(n)[y][x] /\ y \in Turns(n)
      BY DEF subst!Abs, Turns
    <2>2. CASE y = 0
      BY <1>1, <2>1, <2>2 DEF Dividing
    <2>3. CASE y # 0
      <3> DEFINE r == subst!Rem(x, y)  m == subst!Abs(r)
      <3>1. r \in Int /\ m \in Nat /\ m < n
        BY <2>3, RemSmaller
      <3>2. best(n)[y][x] = best(n)[r][y]
        BY <1>1, <2>1, <2>3 DEF Dividing
      <3>3. Dividing(best(n), n) /\ Dividing(best(m), m)
        <4> HIDE DEF m, n
        <4> QED BY <1>1, <2>1, <3>1
      <3>4. best(n)[r][y] = best(m)[r][y]
        <4>1. m <= m /\ m <= n
          <5> HIDE DEF m, n
          <5> QED BY <2>1, <3>1
        <4> DEFINE f == best(n)  g == best(m)
        <4>2. Dividing(f, n) /\ Dividing(g, m)
          BY <3>3
        <4> HIDE DEF f, g
        <4>3. f[r][y] = g[r][y]
          BY <2>1, <3>1, <4>1, <4>2, DividingAgree
        <4> QED BY <4>3 DEF f, g
      <3>5. G[y][r] = best(m)[r][y]
        <4> HIDE DEF r
        <4> QED BY <3>1
      <3> QED BY <2>1, <2>3, <3>2, <3>4, <3>5
    <2> QED BY <2>2, <2>3
  <1>3. def(G)
    <2> DEFINE H == [x \in Int |-> [y \in Int |-> IF y = 0 THEN x ELSE G[y][subst!Rem(x, y)]]]
    <2>1. ASSUME NEW x \in Int PROVE G[x] = H[x]
      <3> DEFINE hx == [y \in Int |-> IF y = 0 THEN x ELSE G[y][subst!Rem(x, y)]]
                 gx == [y \in Int |-> best(subst!Abs(y))[y][x]]
      <3>1. G[x] = gx /\ H[x] = hx
        OBVIOUS
      <3>2. ASSUME NEW y \in Int PROVE gx[y] = hx[y]
        <4>1. gx[y] = G[x][y]
          OBVIOUS
        <4>2. hx[y] = IF y = 0 THEN x ELSE G[y][subst!Rem(x, y)]
          OBVIOUS
        <4> QED BY <1>2, <4>1, <4>2
      <3>3. DOMAIN gx = Int /\ DOMAIN hx = Int
        OBVIOUS
      <3>4. gx = hx
        BY <3>2
      <3> QED BY <3>1, <3>4
    <2>2. G = H
      BY <2>1
    <2> QED BY <2>2, Zenon
  <1> HIDE DEF G
  <1>4. subst!gcd = CHOOSE g : def(g)
    BY DEF subst!gcd
  <1>5. def(CHOOSE g : def(g))
    <2> HIDE DEF def
    <2> QED BY <1>3
  <1>6. subst!gcd = [x \in Int |-> [y \in Int |-> IF y = 0 THEN x ELSE subst!gcd[y][subst!Rem(x, y)]]]
    <2> HIDE DEF def
    <2>1. def(subst!gcd)
      BY <1>4, <1>5
    <2> QED BY <2>1 DEF def
  <1> QED BY <1>6

\* A factor above zero that Affine's constructor takes is odd and no multiple of 13.
Units == {1, 3, 5, 7, 9, 11, 15, 17, 19, 21, 23, 25}

\* A factor that Affine's constructor takes has an inverse modulo 26.
LEMMA CoprimeFactor ==
    ASSUME NEW a \in Int, a >= 0, subst!gcd[a][26] = 1
    PROVE  a % 26 \in Units
  <1> DEFINE g(x, y) == subst!gcd[x][y]
  <1>1. /\ g(a, 26) = g(26, a % 26)
        /\ \A x \in 0 .. 26, y \in 1 .. 25 : g(x, y) = g(y, x % y)
        /\ \A x \in 0 .. 26 : g(x, 0) = x
    <2>1. ASSUME NEW x \in Int, x >= 0, NEW y \in 1 .. 26 PROVE g(x, y) = g(y, x % y)
      <3>1. subst!Rem(x, y) = x % y
        BY <2>1 DEF subst!Rem, subst!Abs
      <3> QED BY <3>1, GcdTurn
    <2>2. \A x \in 0 .. 26 : g(x, 0) = x
      BY GcdTurn
    <2>3. g(a, 26) = g(26, a % 26)
      BY <2>1
    <2>4. ASSUME NEW x \in 0 .. 26, NEW y \in 1 .. 25 PROVE g(x, y) = g(y, x % y)
      <3>1. x \in Int /\ x >= 0 /\ y \in 1 .. 26
        OBVIOUS
      <3> QED BY <2>1, <3>1, Zenon
    <2> HIDE DEF g
    <2> QED BY <2>2, <2>3, <2>4
  <1> HIDE DEF g
  <1>2. g(2, 0) = 2 /\ g(26, 0) = 26 /\ g(13, 0) = 13
    BY <1>1
  <1>3. g(4, 2) = 2 /\ g(6, 2) = 2 /\ g(8, 2) = 2 /\ g(12, 2) = 2 /\ g(26, 13) = 13 /\ g(26, 2) = 2
    BY <1>1, <1>2
  <1>4. g(6, 4) = 2 /\ g(14, 12) = 2 /\ g(18, 8) = 2 /\ g(20, 6) = 2 /\ g(22, 4) = 2 /\ g(24, 2) = 2
    BY <1>1, <1>2, <1>3
  <1>5. g(10, 6) = 2 /\ g(26, 4) = 2 /\ g(26, 6) = 2 /\ g(26, 8) = 2 /\ g(26, 12) = 2
    BY <1>1, <1>3, <1>4
  <1>6. g(16, 10) = 2 /\ g(26, 10) = 2 /\ g(26, 14) = 2
    BY <1>1, <1>4, <1>5
  <1>7. g(26, 16) = 2 /\ g(26, 18) = 2 /\ g(26, 20) = 2 /\ g(26, 22) = 2 /\ g(26, 24) = 2
    BY <1>1, <1>4, <1>6
  <1> DEFINE r == a % 26
  <1>8. r \in 0 .. 25 /\ g(26, r) = 1
    <2>1. g(a, 26) = 1
      BY DEF g
    <2>2. r \in 0 .. 25
      BY SMTT(20)
    <2> QED BY <1>1, <2>1, <2>2
  <1> HIDE DEF r
  <1>9. r \in Units
    BY <1>2, <1>3, <1>5, <1>6, <1>7, <1>8 DEF Units
  <1> QED BY <1>9 DEF r

\* modInverse() finds the inverse of each of them.
LEMMA InverseOfUnit ==
    ASSUME NEW a \in Int, a >= 0, a % 26 \in Units
    PROVE  subst!modInverse(a, 26) \in 1 .. 25 /\ ((a % 26) * subst!modInverse(a, 26)) % 26 = 1
  <1> DEFINE r == a % 26
             S == {x \in 1 .. 26 - 1 : subst!Rem(subst!Rem(a, 26) * x, 26) = 1}
  <1>1. subst!Rem(a, 26) = r
    BY DEF subst!Rem, subst!Abs
  <1>2. r \in Units
    OBVIOUS
  <1> HIDE DEF r
  <1>3. ASSUME NEW x \in 1 .. 25 PROVE r * x \in Nat /\ subst!Rem(r * x, 26) = (r * x) % 26
    <2>1. r \in 1 .. 25
      BY <1>2 DEF Units
    <2> DEFINE p == r * x
    <2>2. p \in Int /\ p >= 0
      BY <2>1, SMTT(20)
    <2> HIDE DEF p
    <2>3. subst!Rem(p, 26) = p % 26
      BY <2>2 DEF subst!Rem, subst!Abs
    <2> QED BY <2>2, <2>3 DEF p
  <1>4. \E x \in 1 .. 25 : (r * x) % 26 = 1
    <2>1. /\ (1 * 1) % 26 = 1 /\ (3 * 9) % 26 = 1 /\ (5 * 21) % 26 = 1 /\ (7 * 15) % 26 = 1
          /\ (9 * 3) % 26 = 1 /\ (11 * 19) % 26 = 1 /\ (15 * 7) % 26 = 1 /\ (17 * 23) % 26 = 1
          /\ (19 * 11) % 26 = 1 /\ (21 * 5) % 26 = 1 /\ (23 * 17) % 26 = 1 /\ (25 * 25) % 26 = 1
      OBVIOUS
    <2> QED BY <1>2, <2>1 DEF Units
  <1>5. S # {} /\ S \subseteq Nat
    BY <1>1, <1>3, <1>4
  <1>6. PICK k \in S : \A y \in S : k <= y
    <2> HIDE DEF S
    <2> QED BY <1>5, Smallest, Zenon
  <1> DEFINE m == CHOOSE x \in S : \A y \in S : x <= y
  <1>7. m \in S
    <2> HIDE DEF S
    <2> QED BY <1>6
  <1>8. subst!modInverse(a, 26) = m
    <2>1. subst!modInverse(a, 26) = IF S = {} THEN -1 ELSE m
      BY DEF subst!modInverse
    <2> HIDE DEF S, m
    <2> QED BY <1>5, <2>1
  <1>9. m \in 1 .. 25 /\ (r * m) % 26 = 1
    <2>1. m \in S
      BY <1>7
    <2> HIDE DEF m
    <2> QED BY <1>1, <1>3, <2>1
  <1> HIDE DEF m
  <1> QED BY <1>8, <1>9, Zenon DEF r, m

\* The alphabet's remainders.
LEMMA Mod26 ==
    ASSUME NEW i \in Int
    PROVE  i % 26 \in 0 .. 25 /\ i \div 26 \in Int /\ i = 26 * (i \div 26) + (i % 26)
  BY SMTT(20)

\* and nothing else fits.
LEMMA Mod26Unique ==
    ASSUME NEW i \in Int, NEW q \in Int, NEW r \in 0 .. 25, i = 26 * q + r
    PROVE  i % 26 = r
  BY SMTT(20)

\* Affine: what the factor does to a letter its inverse undoes, with any offset of a turn.
LEMMA AffineBack ==
    ASSUME NEW c, c.a \in Int, c.b \in 0 .. 26, c.a > 0, subst!gcd[c.a][26] = 1, NEW x \in 0 .. 25
    PROVE  /\ subst!AffineEncrypt(c, x) \in 0 .. 25
           /\ subst!AffineDecrypt(c, subst!AffineEncrypt(c, x)) = x
  <1> DEFINE a == c.a  b == c.b  v == subst!modInverse(a, 26)
  <1>1. a \in Int /\ b \in 0 .. 26 /\ a > 0
    OBVIOUS
  <1>2. v \in 1 .. 25 /\ ((a % 26) * v) % 26 = 1
    BY CoprimeFactor, InverseOfUnit
  <1> HIDE DEF v
  <1> DEFINE p == a * x  w == p + b  e == w % 26  q == w \div 26
             y == e - b + 26  z == y % 26
  <1>3. subst!AffineEncrypt(c, x) = subst!Rem(w, 26)
        /\ subst!AffineDecrypt(c, e) = subst!Rem(v * subst!Rem(y, 26), 26)
    BY DEF subst!AffineEncrypt, subst!AffineDecrypt, v
  <1> HIDE DEF a, b
  <1>4. p \in Int /\ p >= 0
    BY <1>1, SMTT(20)
  <1> HIDE DEF p
  <1>5. ASSUME NEW i \in Int, i >= 0 PROVE subst!Rem(i, 26) = i % 26
    BY <1>5 DEF subst!Rem, subst!Abs
  <1>6. w \in Int /\ w >= 0
    BY <1>1, <1>4
  <1>7. e \in 0 .. 25 /\ q \in Int /\ w = 26 * q + e /\ subst!Rem(w, 26) = e
    <2> HIDE DEF w
    <2> QED BY <1>5, <1>6, Mod26
  <1> HIDE DEF e, q
  <1>8. y \in Int /\ y >= 0 /\ y = p + 26 * (1 - q)
    BY <1>1, <1>4, <1>7
  <1>9. z = p % 26 /\ z \in 0 .. 25 /\ subst!Rem(y, 26) = z
    <2> HIDE DEF y
    <2>1. Congruent(y, p, 26)
      <3>1. 1 - q \in Int
        BY <1>7
      <3> QED BY <1>8, <3>1 DEF Congruent
    <2>2. y % 26 = p % 26
      BY <1>4, <1>8, <2>1, ModSame
    <2> QED BY <1>5, <1>8, <2>2, Mod26
  <1> HIDE DEF z
  <1>10. (v * z) % 26 = x
    <2>1. (v * z) % 26 = (v * p) % 26
      BY <1>2, <1>4, <1>9, ModFactor
    <2> DEFINE k == a * v
    <2>2. v * p = k * x /\ k \in Int
      BY <1>1, <1>2, SMTT(20) DEF p
    <2>3. k % 26 = 1
      BY <1>1, <1>2, ModFactor
    <2> HIDE DEF k
    <2>4. (k * x) % 26 = (1 * x) % 26
      <3>1. x \in Int /\ 26 \in Nat \ {0}
        OBVIOUS
      <3>2. ((k % 26) * x) % 26 = (k * x) % 26
        BY <2>2, <3>1, ModFactor
      <3> QED BY <2>3, <3>2
    <2>5. (1 * x) % 26 = x
      OBVIOUS
    <2> QED BY <2>1, <2>2, <2>4, <2>5
  <1>11. v * z \in Int /\ v * z >= 0
    BY <1>2, <1>9, SMTT(20)
  <1>12. subst!Rem(v * z, 26) = x
    <2> DEFINE k == v * z
    <2>1. k \in Int /\ k >= 0 /\ k % 26 = x
      BY <1>10, <1>11
    <2> HIDE DEF k
    <2>2. subst!Rem(k, 26) = x
      BY <1>5, <2>1
    <2> QED BY <2>2 DEF k
  <1>13. subst!AffineEncrypt(c, x) = e
    BY <1>3, <1>7
  <1> HIDE DEF y
  <1> QED BY <1>3, <1>7, <1>9, <1>12, <1>13

\* Caesar: whatever the size and the sign of the shift.
LEMMA CaesarBack ==
    ASSUME NEW c, c.shift \in Int, NEW x \in 0 .. 25
    PROVE  /\ subst!CaesarEncrypt(c, x) \in 0 .. 25
           /\ subst!CaesarDecrypt(c, subst!CaesarEncrypt(c, x)) = x
  <1> DEFINE s == c.shift
  <1>1. ASSUME NEW i \in Int PROVE subst!Wrap(i) = i % 26
    <2>1. CASE i >= 0
      <3>1. subst!Rem(i, 26) = i % 26
        BY <2>1 DEF subst!Rem, subst!Abs
      <3> QED BY <3>1 DEF subst!Wrap
    <2>2. CASE i < 0
      <3> DEFINE j == (-i) % 26  q == (-i) \div 26
      <3>1. j \in 0 .. 25 /\ q \in Int /\ -i = 26 * q + j
        BY ModDef
      <3>2. subst!Rem(i, 26) = -j
        BY <2>2 DEF subst!Rem, subst!Abs
      <3> HIDE DEF j, q
      <3>3. CASE j = 0
        <4>1. i = 26 * (-q) + 0 /\ -q \in Int
          BY <3>1, <3>3
        <4>2. i % 26 = 0
          BY <4>1, Mod26Unique
        <4> QED BY <3>2, <3>3, <4>2 DEF subst!Wrap
      <3>4. CASE j # 0
        <4>1. i = 26 * (-q - 1) + (26 - j) /\ 26 - j \in 0 .. 25 /\ -q - 1 \in Int
          BY <3>1, <3>4
        <4>2. i % 26 = 26 - j
          BY <4>1, Mod26Unique
        <4> QED BY <3>1, <3>2, <3>4, <4>2 DEF subst!Wrap
      <3> QED BY <3>3, <3>4
    <2> QED BY <2>1, <2>2
  <1> DEFINE w == x + s  e == w % 26  q == w \div 26
  <1>2. s \in Int /\ w \in Int
    OBVIOUS
  <1>3. subst!CaesarEncrypt(c, x) = subst!Wrap(w) /\ subst!CaesarDecrypt(c, e) = subst!Wrap(e - s)
    BY DEF subst!CaesarEncrypt, subst!CaesarDecrypt
  <1> HIDE DEF s
  <1>4. e \in 0 .. 25 /\ q \in Int /\ w = 26 * q + e /\ subst!Wrap(w) = e
    <2> HIDE DEF w
    <2> QED BY <1>1, <1>2, Mod26
  <1> HIDE DEF e, q
  <1>5. e - s = 26 * (-q) + x
    BY <1>2, <1>4
  <1>6. (e - s) % 26 = x
    <2>1. -q \in Int /\ e - s \in Int
      BY <1>2, <1>4
    <2> QED BY <1>5, <2>1, Mod26Unique
  <1>7. subst!Wrap(e - s) = x
    BY <1>1, <1>2, <1>4, <1>6
  <1> QED BY <1>3, <1>4, <1>7

\* A character of type char.
Char == -128 .. 127

\* Vigenere: every letter of the key is a shift by less than a turn.
LEMMA VigenereBack ==
    ASSUME NEW c, c.key \in Seq(Char), c.key # << >>,
           \A i \in DOMAIN c.key : subst!IsAlpha(c.key[i]), NEW k \in Nat, NEW x \in 0 .. 25
    PROVE  /\ subst!VigenereEncrypt(c, k, x) \in 0 .. 25
           /\ subst!VigenereDecrypt(c, k, subst!VigenereEncrypt(c, k, x)) = x
  <1> DEFINE n == Len(c.key)  i == (k % n) + 1  ch == c.key[i]  s == subst!Shift(c, k)
  <1>1. n \in Nat \ {0} /\ DOMAIN c.key = 1 .. n
    BY EmptySeq, LenProperties
  <1>2. i \in DOMAIN c.key
    <2> HIDE DEF n
    <2>1. k \in Int
      OBVIOUS
    <2>2. k % n \in 0 .. n - 1
      BY <1>1, <2>1, ModDef, Zenon
    <2> QED BY <1>1, <2>2
  <1>3. ch \in Int /\ subst!IsAlpha(ch)
    <2> DEFINE q == c.key
    <2>1. q \in Seq(Char) /\ i \in 1 .. Len(q)
      BY <1>1, <1>2, Zenon
    <2> HIDE DEF i, q
    <2>2. q[i] \in Char
      BY <2>1, ElementOfSeq, Zenon
    <2>3. subst!IsAlpha(q[i])
      BY <1>2 DEF q
    <2>4. ch = q[i]
      BY DEF q
    <2> HIDE DEF ch
    <2>5. ch \in Char /\ subst!IsAlpha(ch)
      BY <2>2, <2>3, <2>4, Zenon
    <2> QED BY <2>5 DEF Char
  <1>4. s = subst!ToUpper(ch) - 65
    BY DEF subst!Shift
  <1> HIDE DEF s, ch
  <1>5. s \in 0 .. 25
    BY <1>3, <1>4 DEF subst!ToUpper, subst!IsAlpha, subst!IsUpper
  <1> DEFINE w == x + s  e == subst!Rem(w, 26)  y == e - s + 26
  <1>6. subst!VigenereEncrypt(c, k, x) = e /\ subst!VigenereDecrypt(c, k, e) = subst!Rem(y, 26)
    BY DEF subst!VigenereEncrypt, subst!VigenereDecrypt, s
  <1>7. e = (IF w <= 25 THEN w ELSE w - 26) /\ e \in 0 .. 25
    <2>1. w \in 0 .. 50
      BY <1>5
    <2> HIDE DEF w
    <2>2. e = w % 26
      BY <2>1 DEF subst!Rem, subst!Abs
    <2>3. w % 26 = IF w <= 25 THEN w ELSE w - 26
      <3>1. w <= 25 => w = 26 * 0 + w /\ w \in 0 .. 25
        BY <2>1
      <3>2. ~(w <= 25) => w = 26 * 1 + (w - 26) /\ w - 26 \in 0 .. 25
        BY <2>1
      <3> QED BY <2>1, <3>1, <3>2, Mod26Unique
    <2> HIDE DEF e
    <2> QED BY <2>1, <2>2, <2>3
  <1> HIDE DEF e
  <1>8. y \in 0 .. 51 /\ y \in {x + 26, x}
    BY <1>5, <1>7
  <1> HIDE DEF y
  <1>9. subst!Rem(y, 26) = x
    <2>1. (x + 26) % 26 = x /\ x % 26 = x
      BY Mod26Unique
    <2> QED BY <1>8, <2>1 DEF subst!Rem, subst!Abs
  <1> QED BY <1>6, <1>7, <1>9

\* What Substitution counts with is the library's Cardinality.
LEMMA Counted ==
    ASSUME NEW n \in Nat
    PROVE  /\ subst!LettersIn(0) = 0 /\ subst!LettersIn(n) \in Nat
           /\ subst!LettersIn(n + 1) = subst!LettersIn(n)
                                         + (IF subst!IsAlpha(text[n + 1]) THEN 1 ELSE 0)
  <1> DEFINE S(m) == {i \in 1 .. m : subst!IsAlpha(text[i])}
  <1>1. ASSUME NEW m PROVE subst!LettersIn(m) = Cardinality(S(m))
    BY DEF subst!LettersIn, subst!Cardinality, Cardinality
  <1>2. IsFiniteSet(S(n)) /\ Cardinality(S(n)) \in Nat
    <2>1. IsFiniteSet(1 .. n) /\ S(n) \in SUBSET (1 .. n)
      BY FS_Interval
    <2> HIDE DEF S
    <2> QED BY <2>1, FS_Subset, FS_CardinalityType
  <1>3. subst!LettersIn(0) = 0 /\ subst!LettersIn(n) = Cardinality(S(n))
        /\ subst!LettersIn(n + 1) = Cardinality(S(n + 1))
    <2>1. S(0) = {}
      OBVIOUS
    <2> HIDE DEF S
    <2> QED BY <1>1, <2>1, FS_EmptySet
  <1>4. CASE subst!IsAlpha(text[n + 1])
    <2>1. S(n + 1) = S(n) \cup {n + 1} /\ n + 1 \notin S(n)
      BY <1>4
    <2> HIDE DEF S
    <2>2. Cardinality(S(n + 1)) = Cardinality(S(n)) + 1
      BY <1>2, <2>1, FS_AddElement
    <2> QED BY <1>2, <1>3, <1>4, <2>2
  <1>5. CASE ~subst!IsAlpha(text[n + 1])
    <2>1. S(n + 1) = S(n)
      <3> DEFINE k == n + 1
      <3>1. \A i \in 1 .. k : i # k => i \in 1 .. n
        OBVIOUS
      <3>2. 1 .. n \subseteq 1 .. k
        OBVIOUS
      <3> QED BY <1>5, <3>1, <3>2
    <2> HIDE DEF S
    <2> QED BY <1>2, <1>3, <1>5, <2>1
  <1> QED BY <1>4, <1>5

\* A char of C++.

\* A good key's letter stays a letter of its case and comes back.
LEMMA LetterBack ==
    ASSUME key \in LetterCiphers, subst!Constructible(key), subst!GoodKey, NEW k \in Nat,
           NEW x \in 0 .. 25
    PROVE  /\ subst!Encipher(key, k, x) \in 0 .. 25
           /\ subst!Decipher(key, k, subst!Encipher(key, k, x)) = x
  <1>1. \/ key.kind = "Caesar" /\ key.shift \in Int
        \/ key.kind = "Affine" /\ key.a \in Int /\ key.b \in Int
        \/ key.kind = "Vigenere" /\ key.key \in Seq(Char) /\ key.key # << >>
    BY LettersAssumption DEF Char
  <1>2. CASE key.kind = "Caesar" /\ key.shift \in Int
    <2>1. \A y : subst!Encipher(key, k, y) = subst!CaesarEncrypt(key, y)
                 /\ subst!Decipher(key, k, y) = subst!CaesarDecrypt(key, y)
      BY <1>2 DEF subst!Encipher, subst!Decipher
    <2> QED BY <1>2, <2>1, CaesarBack
  <1>3. CASE key.kind = "Affine" /\ key.a \in Int /\ key.b \in Int
    <2>1. \A y : subst!Encipher(key, k, y) = subst!AffineEncrypt(key, y)
                 /\ subst!Decipher(key, k, y) = subst!AffineDecrypt(key, y)
      BY <1>3 DEF subst!Encipher, subst!Decipher
    <2>2. key.a > 0 /\ key.b \in 0 .. 26 /\ subst!gcd[key.a][26] = 1
      BY <1>3 DEF subst!GoodKey, subst!Constructible
    <2> QED BY <1>3, <2>1, <2>2, AffineBack
  <1>4. CASE key.kind = "Vigenere" /\ key.key \in Seq(Char) /\ key.key # << >>
    <2>1. \A y : subst!Encipher(key, k, y) = subst!VigenereEncrypt(key, k, y)
                 /\ subst!Decipher(key, k, y) = subst!VigenereDecrypt(key, k, y)
      BY <1>4 DEF subst!Encipher, subst!Decipher
    <2>2. \A i \in DOMAIN key.key : subst!IsAlpha(key.key[i])
      BY <1>4 DEF subst!GoodKey
    <2>3. /\ subst!VigenereEncrypt(key, k, x) \in 0 .. 25
          /\ subst!VigenereDecrypt(key, k, subst!VigenereEncrypt(key, k, x)) = x
      BY <1>4, <2>2, VigenereBack, Zenon
    <2> QED BY <2>1, <2>3
  <1> QED BY <1>1, <1>2, <1>3, <1>4

\* What becomes of a character, and of what became of it.
LEMMA CharacterBack ==
    ASSUME key \in LetterCiphers, subst!Constructible(key), subst!GoodKey, text \in Seq(Char),
           NEW i \in 1 .. Len(text)
    PROVE  LET e == subst!Enciphered(i)
               ch == text[i]
               k == subst!LettersIn(i - 1)
           IN  /\ e \in Int /\ ch \in Int /\ k \in Nat
               /\ subst!IsUpper(e) <=> subst!IsUpper(ch)
               /\ subst!IsAlpha(e) <=> subst!IsAlpha(ch)
               /\ ~subst!IsAlpha(ch) => e = ch
               /\ subst!IsAlpha(ch) =>
                     /\ e = subst!Base(ch) + subst!Encipher(key, k, ch - subst!Base(ch))
                     /\ subst!Base(e) + subst!Decipher(key, k, e - subst!Base(e)) = ch
  <1> DEFINE e == subst!Enciphered(i)  ch == text[i]  k == subst!LettersIn(i - 1)
             x == ch - subst!Base(ch)  v == subst!Encipher(key, k, x)
  <1>1. ch \in Int
    <2>1. ch \in Char
      BY ElementOfSeq, Zenon
    <2> HIDE DEF ch
    <2> QED BY <2>1 DEF Char
  <1>2. k \in Nat
    <2>1. i - 1 \in Nat
      OBVIOUS
    <2> QED BY <2>1, Counted, Zenon
  <1>3. e = IF subst!IsAlpha(ch) THEN subst!Base(ch) + v ELSE ch
    BY DEF subst!Enciphered
  <1> HIDE DEF e, ch, k, v
  <1>4. CASE ~subst!IsAlpha(ch)
    BY <1>1, <1>2, <1>3, <1>4 DEF e, ch, k
  <1>5. CASE subst!IsAlpha(ch)
    <2>1. x \in 0 .. 25 /\ subst!Base(ch) \in {65, 97} /\ (subst!Base(ch) = 65 <=> subst!IsUpper(ch))
      BY <1>1, <1>5 DEF subst!Base, subst!IsAlpha, subst!IsUpper
    <2>2. v \in 0 .. 25 /\ subst!Decipher(key, k, v) = x
      <3> HIDE DEF x
      <3> QED BY <1>2, <2>1, LetterBack, Zenon DEF v
    <2>3. /\ e \in Int /\ subst!IsAlpha(e) /\ (subst!IsUpper(e) <=> subst!IsUpper(ch))
          /\ subst!Base(e) = subst!Base(ch) /\ e - subst!Base(e) = v
      <3> DEFINE base == subst!Base(ch)
      <3>1. e = base + v
        BY <1>3, <1>5
      <3>2. v \in 0 .. 25 /\ base \in {65, 97} /\ (base = 65 <=> subst!IsUpper(ch))
        BY <2>1, <2>2
      <3> HIDE DEF x, base
      <3>3. subst!IsUpper(e) <=> e \in 65 .. 90
        BY <3>1, <3>2 DEF subst!IsUpper
      <3>4. e \in Int /\ (subst!IsUpper(e) <=> base = 65)
        BY <3>1, <3>2, <3>3
      <3>5. subst!IsAlpha(e)
        <4>1. base = 97 => e \in 97 .. 122
          BY <3>1, <3>2
        <4> QED BY <3>2, <3>4, <4>1 DEF subst!IsAlpha
      <3>6. subst!Base(e) = base
        BY <3>2, <3>4 DEF subst!Base
      <3>7. e - subst!Base(e) = v
        BY <3>1, <3>2, <3>6
      <3> QED BY <3>2, <3>4, <3>5, <3>6, <3>7 DEF base
    <2>4. subst!Base(e) + subst!Decipher(key, k, e - subst!Base(e)) = ch
      BY <1>1, <2>1, <2>2, <2>3
    <2> QED BY <1>1, <1>2, <1>3, <1>5, <2>3, <2>4 DEF e, ch, k, v
  <1> QED BY <1>4, <1>5

\* What the invariant says under a good key.
LettersGood ==
    /\ sent \in Seq(Int) /\ Len(sent) <= Len(text)
    /\ \A i \in 1 .. Len(sent) : sent[i] = subst!Enciphered(i)
    /\ back \in Seq(Int) /\ Len(back) <= Len(text)
    /\ back # << >> => Len(sent) = Len(text)
    /\ \A i \in 1 .. Len(back) : back[i] = text[i]
    /\ local1 = subst!LettersIn(IF back = << >> THEN Len(sent) ELSE Len(back))

\* subst!Inv in the names of this module,
LEMMA LettersNow ==
    subst!Inv <=> /\ key \in LetterCiphers /\ subst!Constructible(key) /\ text \in LetterTexts
                  /\ subst!GoodKey => LettersGood
  BY DEF subst!Inv, LettersGood

\* now and in the next state.
LEMMA LettersNext ==
    (subst!Inv <=> /\ key \in LetterCiphers /\ subst!Constructible(key) /\ text \in LetterTexts
                   /\ subst!GoodKey => LettersGood)'
  BY LettersNow, PTL

\* The key and the text stay; so what they say stays.
LEMMA LettersKept ==
    ASSUME key' = key, text' = text, subst!Inv, subst!GoodKey => LettersGood'
    PROVE  subst!Inv'
  <1>1. subst!GoodKey' <=> subst!GoodKey
    BY DEF subst!GoodKey
  <1>2. subst!Constructible(key)' <=> subst!Constructible(key)
    BY DEF subst!Constructible
  <1> QED BY <1>1, <1>2, LettersNow, LettersNext

\* Nothing written, no letter met.
LEMMA LettersStarts ==
    subst!Init => subst!Inv
  <1> SUFFICES ASSUME subst!Init PROVE subst!Inv
    OBVIOUS
  <1>1. /\ key \in LetterCiphers /\ subst!Constructible(key) /\ text \in LetterTexts
        /\ sent = << >> /\ back = << >> /\ local1 = 0
    BY DEF subst!Init
  <1>2. subst!LettersIn(0) = 0
    BY Counted
  <1>3. LettersGood
    <2>1. text \in Seq(Char)
      BY <1>1, LettersAssumption, Zenon DEF Char
    <2> QED BY <1>1, <1>2, <2>1, LenProperties DEF LettersGood
  <1> QED BY <1>1, <1>3, LettersNow

\* A character more of the ciphertext.
LEMMA LettersEncrypt ==
    subst!Inv /\ subst!encrypt => subst!Inv'
  <1> SUFFICES ASSUME subst!Inv, subst!encrypt PROVE subst!Inv'
    OBVIOUS
  <1> DEFINE n == Len(sent)  ch == text[n + 1]
             v == subst!Base(ch) + subst!Encipher(key, local1, ch - subst!Base(ch))
  <1>1. /\ key' = key /\ text' = text /\ back' = back /\ n < Len(text)
        /\ sent' = Append(sent, IF subst!IsAlpha(ch) THEN v ELSE ch)
        /\ subst!IsAlpha(ch) => local1' = local1 + 1
        /\ ~subst!IsAlpha(ch) => local1' = local1
    BY DEF subst!encrypt
  <1>2. /\ key \in LetterCiphers /\ subst!Constructible(key) /\ text \in Seq(Char)
        /\ subst!GoodKey => LettersGood
    BY LettersNow, LettersAssumption, Zenon DEF Char
  <1>3. ASSUME subst!GoodKey PROVE LettersGood'
    <2>1. /\ sent \in Seq(Int) /\ n \in Nat /\ Len(text) \in Nat
          /\ \A i \in 1 .. n : sent[i] = subst!Enciphered(i)
          /\ back = << >>
          /\ local1 = subst!LettersIn(n)
      <3>1. LettersGood
        BY <1>2, <1>3
      <3>2. n \in Nat /\ Len(text) \in Nat
        BY <1>2, <3>1, LenProperties DEF LettersGood
      <3>3. back = << >>
        BY <1>1, <3>1, <3>2 DEF LettersGood
      <3> QED BY <3>1, <3>2, <3>3 DEF LettersGood
    <2> DEFINE m == n + 1  e == subst!Enciphered(m)
    <2>2. m \in 1 .. Len(text) /\ m - 1 = n
      BY <1>1, <2>1
    <2>3. /\ e \in Int /\ ch \in Int
          /\ ~subst!IsAlpha(ch) => e = ch
          /\ subst!IsAlpha(ch) => e = v
      <3> HIDE DEF m
      <3>1. LET k == subst!LettersIn(m - 1)
            IN  /\ e \in Int /\ text[m] \in Int
                /\ ~subst!IsAlpha(text[m]) => e = text[m]
                /\ subst!IsAlpha(text[m]) =>
                      e = subst!Base(text[m]) + subst!Encipher(key, k, text[m] - subst!Base(text[m]))
        BY <1>2, <1>3, <2>2, CharacterBack
      <3> QED BY <2>1, <2>2, <3>1 DEF m
    <2>4. sent' = Append(sent, e)
      BY <1>1, <2>3
    <2>5. /\ sent' \in Seq(Int) /\ Len(sent') = n + 1
          /\ \A i \in 1 .. n : sent'[i] = sent[i]
          /\ sent'[n + 1] = e
      <3> HIDE DEF e
      <3> QED BY <2>1, <2>3, <2>4, AppendProperties
    <2>6. \A i : subst!Enciphered(i)' = subst!Enciphered(i)
      BY <1>1 DEF subst!Enciphered, subst!LettersIn
    <2>7. \A i \in 1 .. Len(sent') : sent'[i] = subst!Enciphered(i)'
      <3>1. \A i \in 1 .. n + 1 : i = n + 1 \/ i \in 1 .. n
        BY <2>1
      <3>2. ASSUME NEW i \in 1 .. n + 1 PROVE sent'[i] = subst!Enciphered(i)
        <4>1. CASE i = n + 1
          <5> HIDE DEF n
          <5>1. sent'[n + 1] = e
            BY <2>5, Zenon
          <5> QED BY <4>1, <5>1, Zenon
        <4>2. CASE i \in 1 .. n
          BY <2>1, <2>5, <4>2, Zenon
        <4> QED BY <3>1, <4>1, <4>2
      <3> HIDE DEF n, e
      <3> QED BY <2>5, <2>6, <3>2
    <2>8. local1' = subst!LettersIn(IF back = << >> THEN Len(sent) ELSE Len(back))'
      <3>1. subst!LettersIn(n + 1) = subst!LettersIn(n) + (IF subst!IsAlpha(ch) THEN 1 ELSE 0)
            /\ subst!LettersIn(n) \in Nat
        BY <2>1, Counted, Zenon
      <3>2. subst!LettersIn(IF back = << >> THEN Len(sent) ELSE Len(back))'
              = subst!LettersIn(n + 1)
        BY <1>1, <2>1, <2>5 DEF subst!LettersIn
      <3> QED BY <1>1, <2>1, <3>1, <3>2
    <2> QED BY <1>1, <2>1, <2>2, <2>5, <2>7, <2>8 DEF LettersGood
  <1> QED BY <1>1, <1>3, LettersKept

\* A character of the text, read again.
LEMMA LettersDecrypt ==
    subst!Inv /\ subst!decrypt => subst!Inv'
  <1> SUFFICES ASSUME subst!Inv, subst!decrypt PROVE subst!Inv'
    OBVIOUS
  <1> DEFINE n == Len(back)  e == sent[n + 1]  k == IF back = << >> THEN 0 ELSE local1
             v == subst!Base(e) + subst!Decipher(key, k, e - subst!Base(e))
  <1>1. /\ key' = key /\ text' = text /\ sent' = sent /\ Len(sent) = Len(text) /\ n < Len(sent)
        /\ back' = Append(back, IF subst!IsAlpha(e) THEN v ELSE e)
        /\ subst!IsAlpha(e) => local1' = k + 1
        /\ ~subst!IsAlpha(e) => local1' = k
    BY DEF subst!decrypt
  <1>2. /\ key \in LetterCiphers /\ subst!Constructible(key) /\ text \in Seq(Char)
        /\ subst!GoodKey => LettersGood
    BY LettersNow, LettersAssumption, Zenon DEF Char
  <1>3. ASSUME subst!GoodKey PROVE LettersGood'
    <2> DEFINE m == n + 1  ch == text[m]
    <2>1. /\ back \in Seq(Int) /\ n \in Nat /\ Len(text) \in Nat
          /\ \A i \in 1 .. n : back[i] = text[i]
          /\ \A i \in 1 .. Len(sent) : sent[i] = subst!Enciphered(i)
          /\ sent \in Seq(Int)
      BY <1>2, <1>3, LenProperties DEF LettersGood
    <2>2. k = subst!LettersIn(n)
      <3>1. CASE back = << >>
        <4>1. n = 0
          BY <3>1
        <4> QED BY <3>1, <4>1, Counted
      <3>2. CASE back # << >>
        BY <1>2, <1>3, <3>2 DEF LettersGood
      <3> QED BY <3>1, <3>2
    <2>3. m \in 1 .. Len(text) /\ m - 1 = n /\ m \in 1 .. Len(sent)
      BY <1>1, <2>1
    <2>4. e = subst!Enciphered(m)
      BY <2>1, <2>3
    <2>5. /\ ch \in Int
          /\ subst!IsAlpha(e) <=> subst!IsAlpha(ch)
          /\ ~subst!IsAlpha(ch) => e = ch
          /\ subst!IsAlpha(ch) => v = ch
      <3> HIDE DEF m
      <3>1. LET x == subst!Enciphered(m)
                j == subst!LettersIn(m - 1)
            IN  /\ text[m] \in Int
                /\ subst!IsAlpha(x) <=> subst!IsAlpha(text[m])
                /\ ~subst!IsAlpha(text[m]) => x = text[m]
                /\ subst!IsAlpha(text[m]) =>
                      subst!Base(x) + subst!Decipher(key, j, x - subst!Base(x)) = text[m]
        BY <1>2, <1>3, <2>3, CharacterBack
      <3> HIDE DEF e, k
      <3> QED BY <2>2, <2>3, <2>4, <3>1
    <2> HIDE DEF k, e, v
    <2>6. back' = Append(back, ch)
      BY <1>1, <2>5
    <2>7. /\ back' \in Seq(Int) /\ Len(back') = n + 1
          /\ \A i \in 1 .. n : back'[i] = back[i]
          /\ back'[n + 1] = ch
      <3> HIDE DEF ch
      <3> QED BY <2>1, <2>5, <2>6, AppendProperties
    <2>8. \A i \in 1 .. Len(back') : back'[i] = text'[i]
      <3>1. \A i \in 1 .. n + 1 : i = n + 1 \/ i \in 1 .. n
        BY <2>1
      <3>2. ASSUME NEW i \in 1 .. n + 1 PROVE back'[i] = text[i]
        <4>1. CASE i = n + 1
          <5> HIDE DEF n
          <5>1. back'[n + 1] = ch
            BY <2>7, Zenon
          <5> QED BY <4>1, <5>1, Zenon
        <4>2. CASE i \in 1 .. n
          BY <2>1, <2>7, <4>2, Zenon
        <4> QED BY <3>1, <4>1, <4>2
      <3> HIDE DEF n, ch
      <3> QED BY <1>1, <2>7, <3>2
    <2>9. back' # << >>
      BY <2>1, <2>7
    <2>10. local1' = subst!LettersIn(IF back = << >> THEN Len(sent) ELSE Len(back))'
      <3>1. subst!LettersIn(n + 1) = subst!LettersIn(n) + (IF subst!IsAlpha(ch) THEN 1 ELSE 0)
            /\ subst!LettersIn(n) \in Nat
        BY <2>1, Counted
      <3>2. subst!LettersIn(IF back = << >> THEN Len(sent) ELSE Len(back))'
              = subst!LettersIn(n + 1)
        BY <1>1, <2>7, <2>9, Zenon DEF subst!LettersIn
      <3> QED BY <1>1, <2>2, <2>5, <3>1, <3>2
    <2>11. \A i : subst!Enciphered(i)' = subst!Enciphered(i)
      BY <1>1 DEF subst!Enciphered, subst!LettersIn
    <2>12. /\ sent' \in Seq(Int) /\ Len(sent') <= Len(text')
           /\ back' \in Seq(Int) /\ Len(back') <= Len(text')
           /\ back' # << >> => Len(sent') = Len(text')
      BY <1>1, <2>1, <2>7
    <2>13. \A i \in 1 .. Len(sent') : sent'[i] = subst!Enciphered(i)'
      <3>1. \A i \in 1 .. Len(sent) : sent'[i] = subst!Enciphered(i)
        BY <1>1, <2>1
      <3>2. Len(sent') = Len(sent)
        BY <1>1
      <3> QED BY <2>11, <3>1, <3>2, Zenon
    <2> QED BY <2>8, <2>10, <2>12, <2>13, Zenon DEF LettersGood
  <1> QED BY <1>1, <1>3, LettersKept

\* So the text comes back, and the ciphertext has its shape.
LEMMA LettersGiveBack ==
    subst!Inv => subst!RoundTrip /\ subst!SameShape
  <1> SUFFICES ASSUME subst!Inv, subst!GoodKey PROVE subst!RoundTrip /\ subst!SameShape
    BY DEF subst!RoundTrip, subst!SameShape
  <1>1. /\ key \in LetterCiphers /\ subst!Constructible(key) /\ text \in Seq(Char)
        /\ LettersGood
    BY LettersNow, LettersAssumption, Zenon DEF Char
  <1>2. subst!RoundTrip
    <2>1. back \in Seq(Int) /\ Len(back) \in Nat /\ Len(back) <= Len(text) /\ Len(text) \in Nat
      BY <1>1, LenProperties DEF LettersGood
    <2> DEFINE s == SubSeq(text, 1, Len(back))
    <2>2. s \in Seq(Char) /\ Len(s) = Len(back) /\ \A i \in 1 .. Len(back) : s[i] = text[i]
      <3> DEFINE k == Len(back)
      <3>1. k \in 0 .. Len(text) /\ text \in Seq(Char)
        BY <1>1, <2>1
      <3> HIDE DEF k
      <3>2. SubSeq(text, 1, k) \in Seq(Char) /\ Len(SubSeq(text, 1, k)) = k
            /\ \A i \in 1 .. k : SubSeq(text, 1, k)[i] = text[i]
        BY <3>1, SubSeqProperties
      <3> QED BY <3>2 DEF k
    <2>3. \A i \in 1 .. Len(back) : back[i] = text[i]
      BY <1>1 DEF LettersGood
    <2> HIDE DEF s
    <2>4. back = s
      <3>1. \A i \in 1 .. Len(back) : back[i] = s[i]
        BY <2>2, <2>3
      <3> QED BY <2>1, <2>2, <3>1, SeqEqual
    <2> QED BY <2>4 DEF subst!RoundTrip, s
  <1>3. subst!SameShape
    <2>1. ASSUME NEW i \in DOMAIN sent
          PROVE  /\ subst!IsUpper(sent[i]) <=> subst!IsUpper(text[i])
                 /\ subst!IsAlpha(sent[i]) <=> subst!IsAlpha(text[i])
                 /\ ~subst!IsAlpha(text[i]) => sent[i] = text[i]
      <3>1. i \in 1 .. Len(sent) /\ i \in 1 .. Len(text) /\ sent[i] = subst!Enciphered(i)
        BY <1>1, LenProperties DEF LettersGood
      <3>2. LET e == subst!Enciphered(i)
            IN  /\ subst!IsUpper(e) <=> subst!IsUpper(text[i])
                /\ subst!IsAlpha(e) <=> subst!IsAlpha(text[i])
                /\ ~subst!IsAlpha(text[i]) => e = text[i]
        BY <1>1, <3>1, CharacterBack, Zenon
      <3> QED BY <3>1, <3>2
    <2> QED BY <2>1 DEF subst!SameShape
  <1> QED BY <1>2, <1>3

----------------------------------------------------------------------------
(*                                 Playfair                                *)

\* The values after have in playfair!Loop(s, step).
After(f, s, step) ==
    /\ f \in [0 .. Len(s) -> Seq(Int)]
    /\ f[0] = << >>
    /\ \A i \in 1 .. Len(s) : f[i] = step[f[i - 1]][s[i]]

\* What a loop makes of each beginning of s exists,
LEMMA AfterExists ==
    ASSUME NEW s \in Seq(Int), NEW step \in playfair!Steps
    PROVE  \E f : After(f, s, step)
  <1> DEFINE N == Len(s)
             V == Seq(Int)
             st == [x \in 1 .. N |-> [v \in V |-> step[v][s[x]]]]
             prev == [x \in 1 .. N |-> x - 1]
  <1>1. N \in Nat /\ << >> \in V
    BY LenProperties
  <1>2. ASSUME NEW x \in 1 .. N, NEW v \in V PROVE step[v][s[x]] \in V
    <2>1. s[x] \in Int
      BY ElementOfSeq
    <2> QED BY <2>1, Zenon DEF playfair!Steps
  <1>3. st \in [1 .. N -> [V -> V]]
    BY <1>2
  <1>4. \A x \in 1 .. N : prev[x] = x - 1 /\ prev[x] \in 0 .. x - 1
    BY <1>1
  <1>5. \A x \in 1 .. N, v \in V : st[x][v] = step[v][s[x]]
    OBVIOUS
  <1> HIDE DEF st, prev, N, V
  <1>6. PICK f : Recursive(f, N, V, << >>, st, prev)
    BY <1>1, <1>3, <1>4, Recursion, Zenon
  <1>7. f \in [0 .. N -> V] /\ f[0] = << >> /\ \A x \in 1 .. N : f[x] = st[x][f[prev[x]]]
    BY <1>6 DEF Recursive
  <1>8. ASSUME NEW x \in 1 .. N PROVE f[x] = step[f[x - 1]][s[x]]
    <2>1. x - 1 \in 0 .. N
      BY <1>1
    <2>2. f[x - 1] \in V
      BY <1>7, <2>1
    <2> QED BY <1>4, <1>5, <1>7, <2>2
  <1> QED BY <1>7, <1>8, Zenon DEF After, N, V

\* after's values and what the loop returns.
LEMMA LoopIsAfter ==
    ASSUME NEW s \in Seq(Int), NEW step \in playfair!Steps
    PROVE  \E f : After(f, s, step) /\ playfair!Loop(s, step) = f[Len(s)]
  <1>1. PICK f : After(f, s, step)
    BY AfterExists
  <1> DEFINE N == Len(s)
             def(g) == g = [i \in 0 .. N |-> IF i = 0 THEN << >> ELSE step[g[i - 1]][s[i]]]
             h == CHOOSE g : def(g)
  <1>2. N \in Nat
    BY LenProperties
  <1>3. /\ f \in [0 .. N -> Seq(Int)] /\ f[0] = << >>
        /\ \A i \in 1 .. N : f[i] = step[f[i - 1]][s[i]]
    BY <1>1 DEF After
  <1>4. playfair!Loop(s, step) = h[N]
    BY DEF playfair!Loop
  <1>5. def(f)
    <2>1. ASSUME NEW i \in 0 .. N
          PROVE  f[i] = IF i = 0 THEN << >> ELSE step[f[i - 1]][s[i]]
      <3>1. CASE i = 0
        BY <1>3, <3>1
      <3>2. CASE i # 0
        <4>1. i \in 1 .. N
          BY <1>2, <3>2
        <4> QED BY <1>3, <3>2, <4>1
      <3> QED BY <3>1, <3>2
    <2> QED BY <1>3, <2>1, Zenon
  <1>6. def(h)
    BY <1>5, Zenon
  <1> HIDE DEF h
  <1>7. DOMAIN h = 0 .. N /\ h[0] = << >> /\ \A i \in 1 .. N : h[i] = step[h[i - 1]][s[i]]
    <2>1. 0 \in 0 .. N /\ \A i \in 1 .. N : i \in 0 .. N /\ i # 0
      BY <1>2
    <2> QED BY <1>6, <2>1, Zenon
  <1> DEFINE T == {i \in 0 .. N : h[i] # f[i]}
  <1> HIDE DEF N
  <1>8. T = {}
    <2> SUFFICES ASSUME T # {} PROVE FALSE
      OBVIOUS
    <2>1. PICK n \in T : \A y \in T : n <= y
      <3>1. T \subseteq Nat
        BY <1>2
      <3> HIDE DEF T
      <3> QED BY <3>1, Smallest, Zenon
    <2>2. n \in 0 .. N /\ h[n] # f[n]
      OBVIOUS
    <2>3. n # 0
      BY <1>3, <1>7, <2>2
    <2>4. n \in 1 .. N /\ n - 1 \in 0 .. N /\ ~(n <= n - 1)
      BY <1>2, <2>2, <2>3
    <2>5. h[n - 1] = f[n - 1]
      BY <2>1, <2>4
    <2> QED BY <1>3, <1>7, <2>2, <2>4, <2>5, Zenon
  <1>9. h[N] = f[N]
    BY <1>2, <1>8
  <1> QED BY <1>1, <1>4, <1>9 DEF N

\* What holds of nothing and is kept by each turn of the loop holds of what it returns.
LEMMA LoopKeeps ==
    ASSUME NEW s \in Seq(Int), NEW step \in playfair!Steps, NEW J,
           << >> \in J[0],
           \A i \in 1 .. Len(s), q \in Seq(Int) : q \in J[i - 1] => step[q][s[i]] \in J[i]
    PROVE  playfair!Loop(s, step) \in J[Len(s)] /\ playfair!Loop(s, step) \in Seq(Int)
  <1> DEFINE N == Len(s)
  <1>1. PICK f : After(f, s, step) /\ playfair!Loop(s, step) = f[N]
    BY LoopIsAfter
  <1>2. N \in Nat
    BY LenProperties
  <1>3. /\ f \in [0 .. N -> Seq(Int)] /\ f[0] = << >>
        /\ \A i \in 1 .. N : f[i] = step[f[i - 1]][s[i]]
    BY <1>1 DEF After
  <1> DEFINE T == {i \in 0 .. N : f[i] \notin J[i]}
  <1> HIDE DEF N
  <1>4. T = {}
    <2> SUFFICES ASSUME T # {} PROVE FALSE
      OBVIOUS
    <2>1. PICK n \in T : \A y \in T : n <= y
      <3>1. T \subseteq Nat
        BY <1>2
      <3> HIDE DEF T
      <3> QED BY <3>1, Smallest, Zenon
    <2>2. n \in 0 .. N /\ f[n] \notin J[n]
      OBVIOUS
    <2>3. n # 0
      BY <1>3, <2>2
    <2>4. n \in 1 .. N /\ n - 1 \in 0 .. N /\ ~(n <= n - 1)
      BY <1>2, <2>2, <2>3
    <2>5. f[n - 1] \in J[n - 1]
      BY <2>1, <2>4
    <2>6. f[n - 1] \in Seq(Int)
      BY <1>3, <2>4, Zenon
    <2>7. step[f[n - 1]][s[n]] \in J[n]
      BY <2>4, <2>5, <2>6, Zenon DEF N
    <2> QED BY <1>3, <2>2, <2>4, <2>7
  <1>5. f[N] \in J[N] /\ f[N] \in Seq(Int)
    <2>1. N \in 0 .. N
      BY <1>2
    <2>2. f[N] \in J[N]
      BY <1>4, <2>1
    <2> QED BY <1>3, <2>1, <2>2
  <1> QED BY <1>1, <1>5 DEF N

\* A character more is a turn more.
LEMMA LoopMore ==
    ASSUME NEW s \in Seq(Int), NEW ch \in Int, NEW step \in playfair!Steps
    PROVE  /\ playfair!Loop(<< >>, step) = << >>
           /\ playfair!Loop(s, step) \in Seq(Int)
           /\ playfair!Loop(Append(s, ch), step) = step[playfair!Loop(s, step)][ch]
  <1>1. playfair!Loop(<< >>, step) = << >>
    <2> DEFINE e == << >>
    <2>1. e \in Seq(Int) /\ Len(e) = 0
      OBVIOUS
    <2> HIDE DEF e
    <2>2. PICK f : After(f, e, step) /\ playfair!Loop(e, step) = f[Len(e)]
      BY <2>1, LoopIsAfter, Zenon
    <2>3. f[0] = << >>
      BY <2>2 DEF After
    <2> QED BY <2>1, <2>2, <2>3 DEF e
  <1> DEFINE t == Append(s, ch)
             N == Len(s)
  <1>2. /\ t \in Seq(Int) /\ N \in Nat /\ Len(t) = N + 1
        /\ \A i \in 1 .. N : t[i] = s[i]
        /\ t[N + 1] = ch
    BY AppendProperties, LenProperties
  <1>3. PICK f : After(f, t, step) /\ playfair!Loop(t, step) = f[Len(t)]
    BY <1>2, LoopIsAfter, Zenon
  <1> HIDE DEF t
  <1>4. /\ f \in [0 .. N + 1 -> Seq(Int)] /\ f[0] = << >>
        /\ \A i \in 1 .. N + 1 : f[i] = step[f[i - 1]][t[i]]
    BY <1>2, <1>3 DEF After
  <1> DEFINE J == [i \in 0 .. N |-> {f[i]}]
  <1>5. << >> \in J[0]
    BY <1>2, <1>4
  <1>6. ASSUME NEW i \in 1 .. N, NEW q \in Seq(Int), q \in J[i - 1]
        PROVE  step[q][s[i]] \in J[i]
    <2>1. i \in 1 .. N + 1 /\ i - 1 \in 0 .. N /\ i \in 0 .. N
      BY <1>2
    <2>2. q = f[i - 1] /\ t[i] = s[i] /\ f[i] = step[f[i - 1]][t[i]]
      BY <1>2, <1>4, <1>6, <2>1, Zenon
    <2> QED BY <2>1, <2>2
  <1>7. playfair!Loop(s, step) \in J[N] /\ playfair!Loop(s, step) \in Seq(Int)
    <2> HIDE DEF J
    <2> QED BY <1>5, <1>6, LoopKeeps, Zenon
  <1>8. playfair!Loop(s, step) = f[N]
    <2>1. N \in 0 .. N
      BY <1>2
    <2> QED BY <1>7, <2>1
  <1>9. f[N + 1] = step[f[N]][ch]
    <2>1. N + 1 \in 1 .. N + 1 /\ (N + 1) - 1 = N
      BY <1>2
    <2> QED BY <1>2, <1>4, <2>1, Zenon
  <1>10. playfair!Loop(t, step) = step[playfair!Loop(s, step)][ch]
    BY <1>2, <1>3, <1>8, <1>9
  <1> QED BY <1>1, <1>7, <1>10 DEF t

\* What the steps of the three loops do.
LEMMA StepsDo ==
    /\ {playfair!Keep, playfair!KeepNew, playfair!DropX} \subseteq playfair!Steps
    /\ \A q \in Seq(Int), ch \in Int :
          /\ playfair!Keep[q][ch] = IF playfair!IsAlpha(ch) THEN Append(q, playfair!Capital(ch)) ELSE q
          /\ playfair!KeepNew[q][ch] = IF ch \in playfair!Range(q) THEN q ELSE Append(q, ch)
          /\ playfair!DropX[q][ch] = IF ch = playfair!X THEN q ELSE Append(q, ch)
  <1>1. ASSUME NEW q \in Seq(Int), NEW ch \in Int PROVE Append(q, ch) \in Seq(Int)
    BY AppendProperties
  <1>2. ASSUME NEW ch \in Int PROVE playfair!Capital(ch) \in Int
    BY DEF playfair!Capital, playfair!Upper
  <1>3. playfair!Keep \in playfair!Steps
    BY <1>1, <1>2 DEF playfair!Keep, playfair!Steps
  <1>4. playfair!KeepNew \in playfair!Steps
    BY <1>1 DEF playfair!KeepNew, playfair!Steps
  <1>5. playfair!DropX \in playfair!Steps
    BY <1>1 DEF playfair!DropX, playfair!Steps
  <1>6. ASSUME NEW q \in Seq(Int), NEW ch \in Int
        PROVE  /\ playfair!Keep[q][ch] = IF playfair!IsAlpha(ch) THEN Append(q, playfair!Capital(ch)) ELSE q
               /\ playfair!KeepNew[q][ch] = IF ch \in playfair!Range(q) THEN q ELSE Append(q, ch)
               /\ playfair!DropX[q][ch] = IF ch = playfair!X THEN q ELSE Append(q, ch)
    BY DEF playfair!Keep, playfair!KeepNew, playfair!DropX
  <1> QED BY <1>3, <1>4, <1>5, <1>6

\* x is in the sequence q.
In(q, x) == \E k \in 1 .. Len(q) : q[k] = x

\* What is in a sequence with a character more.
LEMMA InAppend ==
    ASSUME NEW q \in Seq(Int), NEW ch \in Int
    PROVE  /\ \A x : In(Append(q, ch), x) <=> In(q, x) \/ x = ch
           /\ \A x : x \in playfair!Range(q) <=> In(q, x)
           /\ ~In(<< >>, ch)
  <1> DEFINE r == Append(q, ch)
             n == Len(q)
  <1>1. /\ n \in Nat /\ Len(r) = n + 1 /\ r[n + 1] = ch
        /\ \A k \in 1 .. n : r[k] = q[k]
    BY AppendProperties, LenProperties
  <1> HIDE DEF r
  <1>2. \A k \in 1 .. n + 1 : k = n + 1 \/ k \in 1 .. n
    BY <1>1
  <1>3. \A k \in 1 .. n : k \in 1 .. n + 1
    BY <1>1
  <1>4. n + 1 \in 1 .. n + 1
    BY <1>1
  <1>5. ASSUME NEW x PROVE In(r, x) <=> In(q, x) \/ x = ch
    <2>1. ASSUME In(r, x) PROVE In(q, x) \/ x = ch
      <3>1. PICK k \in 1 .. n + 1 : r[k] = x
        BY <1>1, <2>1 DEF In
      <3> QED BY <1>1, <1>2, <3>1 DEF In
    <2>2. ASSUME In(q, x) PROVE In(r, x)
      <3>1. PICK k \in 1 .. n : q[k] = x
        BY <2>2 DEF In
      <3>2. k \in 1 .. Len(r) /\ r[k] = x
        BY <1>1, <1>3, <3>1
      <3> QED BY <3>2 DEF In
    <2>3. In(r, ch)
      BY <1>1, <1>4 DEF In
    <2> QED BY <2>1, <2>2, <2>3
  <1>6. ASSUME NEW x PROVE x \in playfair!Range(q) <=> In(q, x)
    <2>1. DOMAIN q = 1 .. n
      OBVIOUS
    <2> QED BY <2>1, Zenon DEF playfair!Range, In
  <1>7. ~In(<< >>, ch)
    BY DEF In
  <1> QED BY <1>5, <1>6, <1>7 DEF r

\* The letters of a text: they are in the alphabet, and hold every letter of the text.
LEMMA LettersOf ==
    ASSUME NEW s \in Seq(Int)
    PROVE  /\ playfair!Letters(s) \in Seq(playfair!Alphabet)
           /\ playfair!Letters(s) \in Seq(Int)
           /\ \A i \in 1 .. Len(s) :
                 playfair!IsAlpha(s[i]) => In(playfair!Letters(s), playfair!Capital(s[i]))
  <1> DEFINE J == [i \in 0 .. Len(s) |->
                     {q \in Seq(Int) :
                        /\ \A k \in 1 .. Len(q) : q[k] \in playfair!Alphabet
                        /\ \A j \in 1 .. i : playfair!IsAlpha(s[j]) => In(q, playfair!Capital(s[j]))}]
             r == playfair!Letters(s)
  <1>1. Len(s) \in Nat /\ 0 \in 0 .. Len(s) /\ Len(s) \in 0 .. Len(s)
    BY LenProperties
  <1>2. << >> \in J[0]
    <2>1. << >> \in Seq(Int) /\ Len(<< >>) = 0
      OBVIOUS
    <2> QED BY <1>1, <2>1
  <1>3. ASSUME NEW i \in 1 .. Len(s), NEW q \in Seq(Int), q \in J[i - 1]
        PROVE  playfair!Keep[q][s[i]] \in J[i]
    <2> DEFINE ch == s[i]  c == playfair!Capital(ch)
    <2>1. ch \in Int /\ c \in Int
      <3>1. ch \in Int
        BY ElementOfSeq
      <3> HIDE DEF ch
      <3> QED BY <3>1 DEF playfair!Capital, playfair!Upper
    <2>2. /\ i - 1 \in 0 .. Len(s) /\ i \in 0 .. Len(s)
          /\ \A j \in 1 .. i : j = i \/ j \in 1 .. i - 1
      BY <1>1
    <2>3. /\ \A k \in 1 .. Len(q) : q[k] \in playfair!Alphabet
          /\ \A j \in 1 .. i - 1 : playfair!IsAlpha(s[j]) => In(q, playfair!Capital(s[j]))
      BY <1>3, <2>2
    <2>4. CASE playfair!IsAlpha(ch)
      <3> DEFINE t == Append(q, c)
      <3>1. playfair!Keep[q][ch] = t
        BY <2>1, <2>4, StepsDo, Zenon
      <3>2. c \in playfair!Alphabet
        <4> HIDE DEF ch
        <4> QED BY <2>1, <2>4 DEF playfair!IsAlpha, playfair!Capital, playfair!Upper, playfair!Alphabet
      <3> HIDE DEF c, ch
      <3>3. /\ t \in Seq(Int) /\ Len(t) = Len(q) + 1 /\ t[Len(q) + 1] = c
            /\ \A k \in 1 .. Len(q) : t[k] = q[k]
        BY <2>1, AppendProperties
      <3>4. \A x : In(t, x) <=> In(q, x) \/ x = c
        BY <2>1, InAppend
      <3> HIDE DEF t
      <3>5. ASSUME NEW k \in 1 .. Len(t) PROVE t[k] \in playfair!Alphabet
        <4>1. k = Len(q) + 1 \/ k \in 1 .. Len(q)
          BY <3>3
        <4> QED BY <2>3, <3>2, <3>3, <4>1, Zenon
      <3>6. ASSUME NEW j \in 1 .. i, playfair!IsAlpha(s[j]) PROVE In(t, playfair!Capital(s[j]))
        <4>1. CASE j = i
          BY <3>4, <4>1 DEF c, ch
        <4>2. CASE j \in 1 .. i - 1
          BY <2>3, <3>4, <3>6, <4>2
        <4> QED BY <2>2, <4>1, <4>2
      <3> QED BY <2>2, <3>1, <3>3, <3>5, <3>6, Zenon DEF ch
    <2>5. CASE ~playfair!IsAlpha(ch)
      <3>1. playfair!Keep[q][ch] = q
        BY <2>1, <2>5, StepsDo
      <3>2. \A j \in 1 .. i : playfair!IsAlpha(s[j]) => In(q, playfair!Capital(s[j]))
        BY <2>2, <2>3, <2>5
      <3> QED BY <2>2, <2>3, <3>1, <3>2
    <2> QED BY <2>4, <2>5
  <1>4. r \in J[Len(s)]
    <2> HIDE DEF J
    <2>1. playfair!Keep \in playfair!Steps
      BY StepsDo
    <2>2. playfair!Loop(s, playfair!Keep) \in J[Len(s)]
      BY <1>2, <1>3, <2>1, LoopKeeps
    <2> QED BY <2>2 DEF playfair!Letters
  <1>5. /\ r \in Seq(Int) /\ \A k \in 1 .. Len(r) : r[k] \in playfair!Alphabet
        /\ \A j \in 1 .. Len(s) : playfair!IsAlpha(s[j]) => In(r, playfair!Capital(s[j]))
    BY <1>1, <1>4
  <1> HIDE DEF r
  <1>6. r \in Seq(playfair!Alphabet)
    <2>1. r = [k \in 1 .. Len(r) |-> r[k]] /\ Len(r) \in Nat
      BY <1>5
    <2>2. r \in [1 .. Len(r) -> playfair!Alphabet]
      BY <1>5, <2>1
    <2> QED BY <2>1, <2>2, SeqDef
  <1> QED BY <1>5, <1>6 DEF r

\* The alphabet without J.
LEMMA AlphabetSize ==
    IsFiniteSet(playfair!Alphabet) /\ Cardinality(playfair!Alphabet) = 25
  <1> DEFINE A == 65 .. 90
  <1>1. IsFiniteSet(A) /\ Cardinality(A) = 26 /\ 74 \in A
    <2> DEFINE a == 65  b == 90
    <2>1. a \in Int /\ b \in Int /\ ~(a > b) /\ b - a + 1 = 26 /\ A = a .. b /\ 74 \in A
      OBVIOUS
    <2> HIDE DEF a, b, A
    <2>2. IsFiniteSet(a .. b) /\ Cardinality(a .. b) = IF a > b THEN 0 ELSE b - a + 1
      BY <2>1, FS_Interval
    <2> QED BY <2>1, <2>2
  <1> HIDE DEF A
  <1>2. IsFiniteSet(A \ {74}) /\ Cardinality(A \ {74}) = 25
    BY <1>1, FS_RemoveElement
  <1> QED BY <1>2 DEF playfair!Alphabet, A

\* A square that finds every letter but J, in one place.
LetterSquare(m) ==
    /\ m \in [1 .. 25 -> playfair!Alphabet] /\ m \in Seq(playfair!Alphabet)
    /\ \A i, j \in 1 .. 25 : m[i] = m[j] => i = j
    /\ \A x \in playfair!Alphabet : \E i \in 1 .. 25 : m[i] = x

\* A list of all letters with none twice is a square.
LEMMA ListIsSquare ==
    ASSUME NEW m \in Seq(Int), \A i, j \in 1 .. Len(m) : m[i] = m[j] => i = j,
           \A x : In(m, x) <=> x \in playfair!Alphabet
    PROVE  LetterSquare(m) /\ Len(m) = 25 /\ playfair!Range(m) = playfair!Alphabet
  <1> DEFINE n == Len(m)  A == playfair!Alphabet
  <1>1. n \in Nat /\ m \in [1 .. n -> Int]
    BY LenProperties
  <1>2. \A i \in 1 .. n : m[i] \in A
    BY DEF In
  <1>3. \A x \in A : \E i \in 1 .. n : m[i] = x
    BY DEF In
  <1> HIDE DEF n
  <1>4. m \in [1 .. n -> A]
    BY <1>1, <1>2
  <1>5. m \in Bijection(1 .. n, A)
    <2>1. \A i, j \in 1 .. n : m[i] = m[j] => i = j
      BY DEF n
    <2>2. DOMAIN m = 1 .. n
      BY <1>4
    <2>3. m \in Injection(1 .. n, A)
      BY <1>4, <2>1, <2>2 DEF Injection, IsInjective
    <2>4. m \in Surjection(1 .. n, A)
      BY <1>3, <1>4 DEF Surjection
    <2> QED BY <2>3, <2>4 DEF Bijection
  <1>6. n = 25
    <2>1. IsFiniteSet(1 .. n) /\ Cardinality(1 .. n) = n
      BY <1>1, FS_Interval
    <2>2. ExistsBijection(1 .. n, A)
      BY <1>5 DEF ExistsBijection
    <2>3. Cardinality(A) = Cardinality(1 .. n)
      BY <2>1, <2>2, FS_Bijection
    <2> QED BY <2>1, <2>3, AlphabetSize
  <1>7. playfair!Range(m) = A
    BY <1>2, <1>3, <1>4 DEF playfair!Range
  <1>8. m \in Seq(A)
    BY <1>1, <1>4, FcnIsSeq
  <1> QED BY <1>3, <1>4, <1>6, <1>7, <1>8 DEF LetterSquare, n

\* And the other way round.
LEMMA SquareOfList ==
    ASSUME NEW m \in Seq(Int), Len(m) = 25, playfair!Range(m) = playfair!Alphabet
    PROVE  LetterSquare(m)
  <1> DEFINE A == playfair!Alphabet
  <1>1. m \in [1 .. 25 -> Int] /\ DOMAIN m = 1 .. 25
    <2> DEFINE n == Len(m)
    <2>1. m \in [1 .. n -> Int] /\ n = 25
      BY LenProperties, Zenon
    <2> QED BY <2>1
  <1>2. /\ \A i \in 1 .. 25 : m[i] \in A
        /\ \A x \in A : \E i \in 1 .. 25 : m[i] = x
    BY <1>1, Zenon DEF playfair!Range
  <1>3. m \in [1 .. 25 -> A]
    BY <1>1, <1>2
  <1>4. m \in Surjection(1 .. 25, A)
    BY <1>2, <1>3 DEF Surjection
  <1>5. IsFiniteSet(1 .. 25) /\ Cardinality(1 .. 25) = 25
    <2> DEFINE a == 1  b == 25
    <2>1. a \in Int /\ b \in Int /\ ~(a > b) /\ b - a + 1 = 25
      OBVIOUS
    <2> HIDE DEF a, b
    <2>2. IsFiniteSet(a .. b) /\ Cardinality(a .. b) = 25
      BY <2>1, FS_Interval
    <2> QED BY <2>2 DEF a, b
  <1>6. m \in Injection(1 .. 25, A)
    <2> DEFINE S == 1 .. 25
    <2>1. IsFiniteSet(S) /\ Cardinality(S) = Cardinality(A) /\ m \in Surjection(S, A)
      BY <1>4, <1>5, AlphabetSize
    <2>2. IsFiniteSet(A)
      BY AlphabetSize
    <2> HIDE DEF S, A
    <2>3. m \in Injection(S, A)
      BY <2>1, <2>2, FS_SurjSameCardinalityImpliesInj
    <2> QED BY <2>3 DEF S
  <1>7. \A i, j \in 1 .. 25 : m[i] = m[j] => i = j
    BY <1>1, <1>6, Zenon DEF Injection, IsInjective
  <1>8. m \in Seq(A)
    <2> DEFINE n == 25
    <2>1. n \in Nat /\ m \in [1 .. n -> A]
      BY <1>3
    <2> HIDE DEF n, A
    <2> QED BY <2>1, FcnIsSeq
  <1> QED BY <1>2, <1>3, <1>7, <1>8 DEF LetterSquare

\* What generateKeyMatrix() makes of a key is a square.
LEMMA KeyMatrix ==
    ASSUME NEW key1 \in Seq(Int)
    PROVE  LET m == playfair!generateKeyMatrix(key1)
           IN  LetterSquare(m) /\ Len(m) = 25 /\ playfair!Range(m) = playfair!Alphabet
  <1> DEFINE a == [i \in 1 .. 26 |-> 64 + i]
             s == key1 \o a
             L == playfair!Letters(s)
             m == playfair!Loop(L, playfair!KeepNew)
             A == playfair!Alphabet
  <1>1. s \in Seq(Int) /\ \A i \in 1 .. 26 : Len(key1) + i \in 1 .. Len(s) /\ s[Len(key1) + i] = 64 + i
    <2>1. a \in Seq(Int) /\ Len(a) = 26 /\ \A i \in 1 .. 26 : a[i] = 64 + i
      OBVIOUS
    <2> HIDE DEF a
    <2>2. /\ s \in Seq(Int) /\ Len(s) = Len(key1) + 26 /\ Len(key1) \in Nat
          /\ \A i \in 1 .. Len(key1) + 26 :
                s[i] = IF i <= Len(key1) THEN key1[i] ELSE a[i - Len(key1)]
      <3>1. /\ key1 \o a \in Seq(Int) /\ Len(key1 \o a) = Len(key1) + Len(a)
            /\ \A i \in 1 .. Len(key1) + Len(a) :
                  (key1 \o a)[i] = IF i <= Len(key1) THEN key1[i] ELSE a[i - Len(key1)]
        BY <2>1, Joined, Zenon
      <3>2. Len(key1) \in Nat
        BY LenProperties
      <3> QED BY <2>1, <3>1, <3>2, Zenon
    <2> HIDE DEF s
    <2>3. ASSUME NEW i \in 1 .. 26 PROVE Len(key1) + i \in 1 .. Len(s) /\ s[Len(key1) + i] = 64 + i
      <3> DEFINE j == Len(key1) + i
      <3>1. j \in 1 .. Len(key1) + 26 /\ ~(j <= Len(key1)) /\ j - Len(key1) = i
        BY <2>2
      <3> HIDE DEF j
      <3>2. s[j] = a[i]
        BY <2>2, <3>1, Zenon
      <3> QED BY <2>1, <2>2, <3>1, <3>2, Zenon DEF j
    <2> QED BY <2>2, <2>3
  <1> HIDE DEF s
  <1>2. /\ L \in Seq(A) /\ L \in Seq(Int)
        /\ \A i \in 1 .. Len(s) : playfair!IsAlpha(s[i]) => In(L, playfair!Capital(s[i]))
    BY <1>1, LettersOf, Zenon
  <1> HIDE DEF L
  <1>3. \A x : In(L, x) <=> x \in A
    <2>1. ASSUME NEW x, In(L, x) PROVE x \in A
      <3>1. PICK k \in 1 .. Len(L) : L[k] = x
        BY <2>1 DEF In
      <3> QED BY <1>2, <3>1, ElementOfSeq
    <2>2. ASSUME NEW x \in A PROVE In(L, x)
      <3> DEFINE i == x - 64
      <3>1. i \in 1 .. 26 /\ 64 + i = x
        BY DEF playfair!Alphabet
      <3> HIDE DEF i
      <3>2. Len(key1) + i \in 1 .. Len(s) /\ s[Len(key1) + i] = x
        BY <1>1, <3>1, Zenon
      <3>3. playfair!IsAlpha(x) /\ playfair!Capital(x) = x
        BY DEF playfair!IsAlpha, playfair!Capital, playfair!Upper, playfair!Alphabet
      <3> QED BY <1>2, <3>2, <3>3, Zenon
    <2> QED BY <2>1, <2>2
  <1> DEFINE J == [i \in 0 .. Len(L) |->
                     {q \in Seq(Int) :
                        /\ \A k, l \in 1 .. Len(q) : q[k] = q[l] => k = l
                        /\ \A x : In(q, x) <=> \E j \in 1 .. i : L[j] = x}]
  <1>4. Len(L) \in Nat /\ 0 \in 0 .. Len(L) /\ Len(L) \in 0 .. Len(L)
    BY <1>2, LenProperties
  <1>5. << >> \in J[0]
    <2>1. << >> \in Seq(Int) /\ Len(<< >>) = 0 /\ \A x : ~In(<< >>, x)
      BY DEF In
    <2> QED BY <1>4, <2>1
  <1>6. ASSUME NEW i \in 1 .. Len(L), NEW q \in Seq(Int), q \in J[i - 1]
        PROVE  playfair!KeepNew[q][L[i]] \in J[i]
    <2> DEFINE ch == L[i]
    <2>1. ch \in Int
      BY <1>2, ElementOfSeq
    <2>2. /\ i - 1 \in 0 .. Len(L) /\ i \in 0 .. Len(L) /\ i \in 1 .. i
          /\ \A j \in 1 .. i : j = i \/ j \in 1 .. i - 1
          /\ \A j \in 1 .. i - 1 : j \in 1 .. i
      BY <1>4
    <2>3. /\ \A k, l \in 1 .. Len(q) : q[k] = q[l] => k = l
          /\ \A x : In(q, x) <=> \E j \in 1 .. i - 1 : L[j] = x
      BY <1>6, <2>2
    <2>4. \A x : (\E j \in 1 .. i : L[j] = x) <=> In(q, x) \/ x = ch
      BY <2>2, <2>3
    <2> HIDE DEF ch
    <2>5. CASE In(q, ch)
      <3>1. playfair!KeepNew[q][ch] = q
        BY <2>1, <2>5, StepsDo, InAppend, Zenon
      <3>2. \A x : In(q, x) <=> \E j \in 1 .. i : L[j] = x
        BY <2>4, <2>5, Zenon
      <3> QED BY <2>2, <2>3, <3>1, <3>2 DEF ch
    <2>6. CASE ~In(q, ch)
      <3> DEFINE t == Append(q, ch)
      <3>1. playfair!KeepNew[q][ch] = t
        BY <2>1, <2>6, StepsDo, InAppend, Zenon
      <3>2. /\ t \in Seq(Int) /\ Len(t) = Len(q) + 1 /\ t[Len(q) + 1] = ch
            /\ \A k \in 1 .. Len(q) : t[k] = q[k]
            /\ Len(q) \in Nat
        BY <2>1, AppendProperties, LenProperties
      <3>3. \A x : In(t, x) <=> In(q, x) \/ x = ch
        BY <2>1, InAppend
      <3> HIDE DEF t
      <3>4. ASSUME NEW k \in 1 .. Len(t), NEW l \in 1 .. Len(t), t[k] = t[l] PROVE k = l
        <4>1. (k = Len(q) + 1 \/ k \in 1 .. Len(q)) /\ (l = Len(q) + 1 \/ l \in 1 .. Len(q))
          BY <3>2
        <4>2. \A o \in 1 .. Len(q) : q[o] # ch
          BY <2>6 DEF In
        <4> QED BY <2>3, <3>2, <3>4, <4>1, <4>2, Zenon
      <3>5. \A x : In(t, x) <=> \E j \in 1 .. i : L[j] = x
        BY <2>4, <3>3, Zenon
      <3> QED BY <2>2, <3>1, <3>2, <3>4, <3>5, Zenon DEF ch
    <2> QED BY <2>5, <2>6
  <1>7. m \in J[Len(L)]
    <2> HIDE DEF J
    <2>1. playfair!KeepNew \in playfair!Steps
      BY StepsDo
    <2> QED BY <1>2, <1>5, <1>6, <2>1, LoopKeeps
  <1> HIDE DEF m
  <1>8. /\ m \in Seq(Int) /\ \A k, l \in 1 .. Len(m) : m[k] = m[l] => k = l
        /\ \A x : In(m, x) <=> \E j \in 1 .. Len(L) : L[j] = x
    BY <1>4, <1>7
  <1>9. \A x : In(m, x) <=> x \in A
    BY <1>3, <1>8, Zenon DEF In
  <1> HIDE DEF A
  <1>10. LetterSquare(m) /\ Len(m) = 25 /\ playfair!Range(m) = A
    BY <1>8, <1>9, ListIsSquare DEF A
  <1>11. playfair!generateKeyMatrix(key1) = m
    BY DEF playfair!generateKeyMatrix, m, L, s
  <1> QED BY <1>10, <1>11 DEF A

\* Where findPosition() finds a letter, and the letter at a row and a column.
Place(m, x) == CHOOSE i \in 0 .. 24 : m[i + 1] = x

Cell(m, r, c) == m[5 * (r % 5) + (c % 5) + 1]

\* The two letters the rules make of the letters at two places.
Rule(m, r1, c1, r2, c2, n) ==
    IF r1 = r2 THEN << Cell(m, r1, c1 + n), Cell(m, r2, c2 + n) >>
    ELSE IF c1 = c2 THEN << Cell(m, r1 + n, c1), Cell(m, r2 + n, c2) >>
    ELSE << Cell(m, r1, c2), Cell(m, r2, c1) >>

\* Substitute() applies the rules to the places of the two letters.
LEMMA SubstituteIs ==
    ASSUME NEW m, NEW x, NEW y, NEW n
    PROVE  playfair!Substitute(m, << x, y >>, n)
             = Rule(m, Place(m, x) \div 5, Place(m, x) % 5, Place(m, y) \div 5, Place(m, y) % 5, n)
  <1> DEFINE p == << x, y >>
  <1>1. /\ (CHOOSE i \in 0 .. 24 : m[i + 1] = p[1]) = Place(m, x)
        /\ (CHOOSE i \in 0 .. 24 : m[i + 1] = p[2]) = Place(m, y)
    BY DEF Place
  <1> DEFINE a == Place(m, x)  b == Place(m, y)
  <1>2. playfair!Substitute(m, p, n)
          = CASE a \div 5 = b \div 5 ->
                 << Cell(m, a \div 5, (a % 5) + n), Cell(m, b \div 5, (b % 5) + n) >>
              [] a \div 5 # b \div 5 /\ a % 5 = b % 5 ->
                 << Cell(m, (a \div 5) + n, a % 5), Cell(m, (b \div 5) + n, b % 5) >>
              [] OTHER -> << Cell(m, a \div 5, b % 5), Cell(m, b \div 5, a % 5) >>
    BY <1>1, Zenon DEF playfair!Substitute, Cell
  <1> HIDE DEF a, b, p
  <1> DEFINE r1 == a \div 5  r2 == b \div 5  c1 == a % 5  c2 == b % 5
  <1>3. playfair!Substitute(m, p, n) = Rule(m, r1, c1, r2, c2, n)
    <2> HIDE DEF r1, r2, c1, c2
    <2> QED BY <1>2 DEF Rule, r1, r2, c1, c2
  <1> QED BY <1>3 DEF a, b, p

\* Rows and columns.
LEMMA RowsColumns ==
    /\ \A i \in 0 .. 24 : i \div 5 \in 0 .. 4 /\ i % 5 \in 0 .. 4 /\ i = 5 * (i \div 5) + (i % 5)
    /\ \A r, c \in 0 .. 4 :
          5 * r + c \in 0 .. 24 /\ (5 * r + c) \div 5 = r /\ (5 * r + c) % 5 = c
    /\ \A c \in 0 .. 4 :
          c % 5 = c /\ (c + 1) % 5 \in 0 .. 4 /\ (((c + 1) % 5) + 4) % 5 = c
  <1>1. \A i \in 0 .. 24 : i \div 5 \in 0 .. 4 /\ i % 5 \in 0 .. 4 /\ i = 5 * (i \div 5) + (i % 5)
    OBVIOUS
  <1>2. \A r, c \in 0 .. 4 :
          5 * r + c \in 0 .. 24 /\ (5 * r + c) \div 5 = r /\ (5 * r + c) % 5 = c
    OBVIOUS
  <1>3. \A c \in 0 .. 4 :
          c % 5 = c /\ (c + 1) % 5 \in 0 .. 4 /\ (((c + 1) % 5) + 4) % 5 = c
    OBVIOUS
  <1> QED BY <1>1, <1>2, <1>3

\* The letter at a row and a column.
At(m, r, c) == m[5 * r + c + 1]

\* A step along a row or a column and four more lead back.
LEMMA CellAt ==
    ASSUME NEW m, NEW r \in 0 .. 4, NEW c \in 0 .. 4
    PROVE  /\ Cell(m, r, c) = At(m, r, c)
           /\ Cell(m, r + 1, c) = At(m, (r + 1) % 5, c)
           /\ Cell(m, r, c + 1) = At(m, r, (c + 1) % 5)
           /\ Cell(m, ((r + 1) % 5) + 4, c) = At(m, r, c)
           /\ Cell(m, r, ((c + 1) % 5) + 4) = At(m, r, c)
  <1>1. r % 5 = r /\ c % 5 = c /\ (((c + 1) % 5) + 4) % 5 = c /\ (((r + 1) % 5) + 4) % 5 = r
    BY RowsColumns
  <1> QED BY <1>1, Zenon DEF Cell, At

\* A letter of a square is at one place.
LEMMA OnePlace ==
    ASSUME NEW m, LetterSquare(m)
    PROVE  /\ \A x \in playfair!Alphabet :
                 \E r, c \in 0 .. 4 : x = At(m, r, c)
           /\ \A r, c \in 0 .. 4 :
                 /\ At(m, r, c) \in playfair!Alphabet
                 /\ Place(m, At(m, r, c)) \div 5 = r
                 /\ Place(m, At(m, r, c)) % 5 = c
  <1>1. ASSUME NEW x \in playfair!Alphabet PROVE \E r, c \in 0 .. 4 : x = At(m, r, c)
    <2>1. PICK i \in 1 .. 25 : m[i] = x
      BY DEF LetterSquare
    <2> DEFINE j == i - 1  r == j \div 5  c == j % 5
    <2>2. j \in 0 .. 24 /\ i = j + 1
      OBVIOUS
    <2> HIDE DEF j
    <2>3. r \in 0 .. 4 /\ c \in 0 .. 4 /\ j = 5 * r + c
      BY <2>2, RowsColumns
    <2> HIDE DEF r, c
    <2>4. x = At(m, r, c)
      BY <2>1, <2>2, <2>3 DEF At
    <2> QED BY <2>3, <2>4
  <1>2. ASSUME NEW r \in 0 .. 4, NEW c \in 0 .. 4
        PROVE  /\ At(m, r, c) \in playfair!Alphabet
               /\ Place(m, At(m, r, c)) \div 5 = r
               /\ Place(m, At(m, r, c)) % 5 = c
    <2> DEFINE i == 5 * r + c  x == At(m, r, c)
    <2>1. i \in 0 .. 24 /\ i \div 5 = r /\ i % 5 = c
      BY RowsColumns
    <2>2. x = m[i + 1]
      BY DEF At
    <2> HIDE DEF i, x
    <2>3. i + 1 \in 1 .. 25 /\ x \in playfair!Alphabet
      <3>1. i + 1 \in 1 .. 25
        BY <2>1
      <3>2. m[i + 1] \in playfair!Alphabet
        BY <3>1, Zenon DEF LetterSquare
      <3> QED BY <2>2, <3>1, <3>2
    <2>4. ASSUME NEW j \in 0 .. 24, m[j + 1] = x PROVE j = i
      <3>1. j + 1 \in 1 .. 25 /\ m[j + 1] = m[i + 1]
        BY <2>2, <2>4
      <3>2. j + 1 = i + 1
        BY <2>3, <3>1, Zenon DEF LetterSquare
      <3> QED BY <2>1, <3>2
    <2>5. Place(m, x) = i
      BY <2>1, <2>2, <2>4 DEF Place
    <2> QED BY <2>1, <2>3, <2>5 DEF x
  <1> QED BY <1>1, <1>2

\* The rules take two places to two others, and back.
Undone(m, r1, c1, r2, c2) ==
    \E s1, d1, s2, d2 \in 0 .. 4 :
       /\ Rule(m, r1, c1, r2, c2, 1) = << At(m, s1, d1), At(m, s2, d2) >>
       /\ Rule(m, s1, d1, s2, d2, 4) = << At(m, r1, c1), At(m, r2, c2) >>

\* The rules with n = 4 undo the rules with n = 1.
LEMMA RuleBack ==
    ASSUME NEW m, NEW r1 \in 0 .. 4, NEW c1 \in 0 .. 4, NEW r2 \in 0 .. 4, NEW c2 \in 0 .. 4
    PROVE  Undone(m, r1, c1, r2, c2)
  <1> DEFINE up(k) == (k + 1) % 5
  <1>1. /\ up(r1) \in 0 .. 4 /\ up(c1) \in 0 .. 4 /\ up(r2) \in 0 .. 4 /\ up(c2) \in 0 .. 4
        /\ up(r1) = up(r2) => r1 = r2
        /\ up(c1) = up(c2) => c1 = c2
    BY RowsColumns
  <1>2. CASE r1 = r2
    <2>1. Rule(m, r1, c1, r2, c2, 1) = << At(m, r1, up(c1)), At(m, r2, up(c2)) >>
      BY <1>2, CellAt DEF Rule
    <2>2. Rule(m, r1, up(c1), r2, up(c2), 4) = << At(m, r1, c1), At(m, r2, c2) >>
      BY <1>2, CellAt DEF Rule
    <2> HIDE DEF up
    <2> QED BY <1>1, <2>1, <2>2 DEF Undone
  <1>3. CASE r1 # r2 /\ c1 = c2
    <2>1. Rule(m, r1, c1, r2, c2, 1) = << At(m, up(r1), c1), At(m, up(r2), c2) >>
      BY <1>3, CellAt DEF Rule
    <2>2. Rule(m, up(r1), c1, up(r2), c2, 4) = << At(m, r1, c1), At(m, r2, c2) >>
      BY <1>1, <1>3, CellAt DEF Rule
    <2> HIDE DEF up
    <2> QED BY <1>1, <2>1, <2>2 DEF Undone
  <1>4. CASE r1 # r2 /\ c1 # c2
    <2>1. Rule(m, r1, c1, r2, c2, 1) = << At(m, r1, c2), At(m, r2, c1) >>
      BY <1>4, CellAt DEF Rule
    <2>2. Rule(m, r1, c2, r2, c1, 4) = << At(m, r1, c1), At(m, r2, c2) >>
      BY <1>4, CellAt DEF Rule
    <2> QED BY <2>1, <2>2 DEF Undone
  <1> QED BY <1>2, <1>3, <1>4

\* A pair x, y that is enciphered and deciphered again.
TakenBack(m, x, y) ==
    \E v, w \in playfair!Alphabet :
        /\ playfair!Substitute(m, << x, y >>, 1) = << v, w >>
        /\ playfair!Substitute(m, << v, w >>, 4) = << x, y >>

\* What a pair is enciphered to is a pair of letters, and deciphers to the pair.
LEMMA PairBack ==
    ASSUME NEW m, LetterSquare(m), NEW x \in playfair!Alphabet, NEW y \in playfair!Alphabet
    PROVE  TakenBack(m, x, y)
  <1>1. PICK r1 \in 0 .. 4, c1 \in 0 .. 4 : x = At(m, r1, c1)
    BY OnePlace
  <1>2. PICK r2 \in 0 .. 4, c2 \in 0 .. 4 : y = At(m, r2, c2)
    BY OnePlace
  <1>3. PICK s1 \in 0 .. 4, d1 \in 0 .. 4, s2 \in 0 .. 4, d2 \in 0 .. 4 :
              /\ Rule(m, r1, c1, r2, c2, 1) = << At(m, s1, d1), At(m, s2, d2) >>
              /\ Rule(m, s1, d1, s2, d2, 4) = << At(m, r1, c1), At(m, r2, c2) >>
    <2>1. Undone(m, r1, c1, r2, c2)
      BY RuleBack, Zenon
    <2> QED BY <2>1 DEF Undone
  <1> DEFINE v == At(m, s1, d1)  w == At(m, s2, d2)
  <1>4. /\ v \in playfair!Alphabet /\ w \in playfair!Alphabet
        /\ Place(m, v) \div 5 = s1 /\ Place(m, v) % 5 = d1
        /\ Place(m, w) \div 5 = s2 /\ Place(m, w) % 5 = d2
        /\ Place(m, x) \div 5 = r1 /\ Place(m, x) % 5 = c1
        /\ Place(m, y) \div 5 = r2 /\ Place(m, y) % 5 = c2
    BY <1>1, <1>2, OnePlace
  <1>5. playfair!Substitute(m, << x, y >>, 1) = << v, w >>
    <2>1. playfair!Substitute(m, << x, y >>, 1) = Rule(m, r1, c1, r2, c2, 1)
      BY <1>4, SubstituteIs
    <2> QED BY <1>3, <2>1
  <1>6. playfair!Substitute(m, << v, w >>, 4) = << x, y >>
    <2> HIDE DEF v, w
    <2>1. playfair!Substitute(m, << v, w >>, 4) = Rule(m, s1, d1, s2, d2, 4)
      BY <1>4, SubstituteIs
    <2> QED BY <1>1, <1>2, <1>3, <2>1
  <1> HIDE DEF v, w
  <1> QED BY <1>4, <1>5, <1>6 DEF TakenBack

\* The parts of playfair!Inv, as operators.
Unlike(p) ==
    /\ Len(p) % 2 = 0
    /\ \A i \in 1 .. Len(p) \div 2 : p[2 * i - 1] = p[2 * i] => p[2 * i] = playfair!X

WithoutX(q) == playfair!Loop(q, playfair!DropX)

Cut(t, r, p) ==
    /\ Len(t) - Len(r) >= 0
    /\ r = SubSeq(t, Len(t) - Len(r) + 1, Len(t))
    /\ WithoutX(p) = WithoutX(SubSeq(t, 1, Len(t) - Len(r)))

Pairs(m, p, s) ==
    /\ Len(s) % 2 = 0 /\ Len(s) <= Len(p)
    /\ \A i \in 1 .. Len(s) \div 2 :
          << s[2 * i - 1], s[2 * i] >> = playfair!Substitute(m, << p[2 * i - 1], p[2 * i] >>, 1)

Back(ph, p, s, b) ==
    /\ ph # "done" => Len(b) % 2 = 0 /\ Len(b) <= Len(s)
    /\ ph = "decrypt" => b = SubSeq(p, 1, Len(b))
    /\ ph = "done" => b = p \/ p = Append(b, playfair!X)

Phases(ph, r, p, s, b) ==
    /\ ph \in {"preprocess", "encrypt", "decrypt", "done"}
    /\ ph # "preprocess" => r = << >>
    /\ ph = "preprocess" => s = << >>
    /\ ph \in {"preprocess", "encrypt"} => b = << >>
    /\ ph \in {"decrypt", "done"} => Len(s) = Len(p)

\* The invariant by its parts, and of the next state.
LEMMA PlayNow ==
    playfair!Inv <=> /\ {schedule, text, local1, local2, sent, back} \subseteq Seq(playfair!Alphabet)
                     /\ Len(schedule) = 25 /\ playfair!Range(schedule) = playfair!Alphabet
                     /\ Phases(phase, local1, local2, sent, back)
                     /\ Unlike(local2) /\ Cut(text, local1, local2)
                     /\ Pairs(schedule, local2, sent) /\ Back(phase, local2, sent, back)
  <1>1. playfair!MatrixIsAlphabet
          <=> Len(schedule) = 25 /\ playfair!Range(schedule) = playfair!Alphabet
    BY Zenon DEF playfair!MatrixIsAlphabet, playfair!Alphabet
  <1>2. playfair!PairsUnlike <=> Unlike(local2)
    BY Zenon DEF playfair!PairsUnlike, Unlike
  <1>3. playfair!RoundTrip <=>
            /\ phase = "decrypt" => back = SubSeq(local2, 1, Len(back))
            /\ phase = "done" => back = local2 \/ local2 = Append(back, playfair!X)
    BY Zenon DEF playfair!RoundTrip
  <1> QED BY <1>1, <1>2, <1>3, Zenon DEF playfair!Inv, WithoutX, Cut, Pairs, Back, Phases

\* The same of the next state.
LEMMA PlayNext ==
    (playfair!Inv <=> /\ {schedule, text, local1, local2, sent, back} \subseteq Seq(playfair!Alphabet)
                      /\ Len(schedule) = 25 /\ playfair!Range(schedule) = playfair!Alphabet
                      /\ Phases(phase, local1, local2, sent, back)
                      /\ Unlike(local2) /\ Cut(text, local1, local2)
                      /\ Pairs(schedule, local2, sent) /\ Back(phase, local2, sent, back))'
  BY PlayNow, PTL

\* Letters are numbers.
LEMMA LettersAreInts ==
    /\ playfair!Alphabet \subseteq Int /\ playfair!X \in playfair!Alphabet
    /\ Seq(playfair!Alphabet) \subseteq Seq(Int)
    /\ Seq(-128 .. 127) \subseteq Seq(Int)
  <1>1. playfair!Alphabet \subseteq Int /\ playfair!X \in playfair!Alphabet
    BY DEF playfair!Alphabet, playfair!X
  <1>2. ASSUME NEW S, S \subseteq Int PROVE Seq(S) \subseteq Seq(Int)
    <2> SUFFICES ASSUME NEW q \in Seq(S) PROVE q \in Seq(Int)
      OBVIOUS
    <2> DEFINE n == Len(q)
    <2>1. n \in Nat /\ q \in [1 .. n -> S]
      BY LenProperties
    <2> HIDE DEF n
    <2>2. q \in [1 .. n -> Int]
      BY <1>2, <2>1, Zenon
    <2> QED BY <2>1, <2>2, FcnIsSeq
  <1>3. -128 .. 127 \subseteq Int
    OBVIOUS
  <1> QED BY <1>1, <1>2, <1>3, Zenon

\* Two letters more.
LEMMA TwoMore ==
    ASSUME NEW S, NEW q \in Seq(S), NEW a \in S, NEW b \in S
    PROVE  /\ q \o << a, b >> = Append(Append(q, a), b)
           /\ q \o << a, b >> \in Seq(S)
           /\ Len(q \o << a, b >>) = Len(q) + 2 /\ Len(q) \in Nat
           /\ \A i \in 1 .. Len(q) : (q \o << a, b >>)[i] = q[i]
           /\ (q \o << a, b >>)[Len(q) + 1] = a
           /\ (q \o << a, b >>)[Len(q) + 2] = b
  <1> DEFINE t == << a, b >>  u == q \o t  v == Append(q, a)  w == Append(v, b)  n == Len(q)
  <1>1. t \in Seq(S) /\ Len(t) = 2 /\ t[1] = a /\ t[2] = b
    OBVIOUS
  <1> HIDE DEF t
  <1>2. /\ u \in Seq(S) /\ Len(u) = n + 2 /\ n \in Nat
        /\ \A p \in 1 .. n + 2 : u[p] = IF p <= n THEN q[p] ELSE t[p - n]
    <2>1. /\ q \o t \in Seq(S) /\ Len(q \o t) = Len(q) + Len(t)
          /\ \A p \in 1 .. Len(q) + Len(t) :
                (q \o t)[p] = IF p <= Len(q) THEN q[p] ELSE t[p - Len(q)]
      BY <1>1, Joined, Zenon
    <2>2. n \in Nat
      BY LenProperties
    <2> QED BY <1>1, <2>1, <2>2
  <1>3. /\ v \in Seq(S) /\ Len(v) = n + 1 /\ v[n + 1] = a
        /\ \A p \in 1 .. n : v[p] = q[p]
    BY AppendProperties
  <1> HIDE DEF v
  <1>4. /\ w \in Seq(S) /\ Len(w) = n + 2 /\ w[n + 2] = b
        /\ \A p \in 1 .. n + 1 : w[p] = v[p]
    BY <1>2, <1>3, AppendProperties
  <1> HIDE DEF u, w, n
  <1>5. /\ \A i \in 1 .. n : u[i] = q[i]
        /\ u[n + 1] = a /\ u[n + 2] = b
    <2>1. /\ n + 1 \in 1 .. n + 2 /\ ~(n + 1 <= n) /\ (n + 1) - n = 1
          /\ n + 2 \in 1 .. n + 2 /\ ~(n + 2 <= n) /\ (n + 2) - n = 2
          /\ \A i \in 1 .. n : i \in 1 .. n + 2 /\ i <= n
      BY <1>2
    <2>2. u[n + 1] = t[1] /\ u[n + 2] = t[2]
      BY <1>2, <2>1
    <2>3. \A i \in 1 .. n : u[i] = q[i]
      BY <1>2, <2>1
    <2> QED BY <1>1, <2>2, <2>3
  <1>6. u = w
    <2>1. ASSUME NEW p \in 1 .. n + 2 PROVE u[p] = w[p]
      <3>1. p \in 1 .. n \/ p = n + 1 \/ p = n + 2
        BY <1>2
      <3>2. ASSUME p \in 1 .. n PROVE u[p] = w[p]
        <4>1. p \in 1 .. n + 1
          BY <1>2, <3>2
        <4> QED BY <1>3, <1>4, <1>5, <3>2, <4>1
      <3>3. n + 1 \in 1 .. n + 1
        BY <1>2
      <3>4. u[n + 1] = w[n + 1]
        BY <1>3, <1>4, <1>5, <3>3
      <3> QED BY <1>4, <1>5, <3>1, <3>2, <3>4
    <2> QED BY <1>2, <1>4, <2>1, SeqEqual
  <1> QED BY <1>2, <1>5, <1>6 DEF u, t, w, v, n

\* The text without its X, a letter more at a time.
LEMMA WithoutXMore ==
    ASSUME NEW q \in Seq(Int), NEW a \in Int
    PROVE  /\ WithoutX(<< >>) = << >> /\ WithoutX(q) \in Seq(Int)
           /\ WithoutX(Append(q, a)) = IF a = playfair!X THEN WithoutX(q) ELSE Append(WithoutX(q), a)
  <1> DEFINE st == playfair!DropX
  <1>1. st \in playfair!Steps
        /\ \A r \in Seq(Int) : st[r][a] = IF a = playfair!X THEN r ELSE Append(r, a)
    BY StepsDo
  <1> HIDE DEF st
  <1>2. /\ playfair!Loop(<< >>, st) = << >>
        /\ playfair!Loop(q, st) \in Seq(Int)
        /\ playfair!Loop(Append(q, a), st) = st[playfair!Loop(q, st)][a]
    BY <1>1, LoopMore
  <1> QED BY <1>1, <1>2 DEF WithoutX, st

\* The first k elements and the others, as k grows.
LEMMA Shift ==
    ASSUME NEW S, NEW t \in Seq(S), NEW k \in 0 .. Len(t) - 1
    PROVE  LET r == SubSeq(t, k + 1, Len(t))
           IN  /\ r \in Seq(S) /\ Len(r) = Len(t) - k
               /\ r[1] = t[k + 1] /\ t[k + 1] \in S
               /\ Tail(r) = SubSeq(t, k + 2, Len(t))
               /\ SubSeq(t, 1, k) \in Seq(S)
               /\ SubSeq(t, 1, k + 1) = Append(SubSeq(t, 1, k), t[k + 1])
  <1> DEFINE n == Len(t)  r == SubSeq(t, k + 1, n)  u == SubSeq(t, k + 2, n)
             x == SubSeq(t, 1, k)  y == SubSeq(t, 1, k + 1)  z == Append(x, t[k + 1])
  <1>1. n \in Nat /\ k \in Nat /\ k + 1 \in 1 .. n
    BY LenProperties
  <1>2. t[k + 1] \in S
    BY <1>1, ElementOfSeq
  <1>3. r \in Seq(S) /\ Len(r) = n - k /\ \A i \in 1 .. n - k : r[i] = t[k + i]
    <2> DEFINE a == k + 1
    <2>1. a \in 1 .. n + 1 /\ n \in a - 1 .. n /\ n - a + 1 = n - k
      BY <1>1
    <2> HIDE DEF n, a
    <2>2. SubSeq(t, a, n) \in Seq(S) /\ Len(SubSeq(t, a, n)) = n - a + 1
          /\ \A i \in 1 .. n - a + 1 : SubSeq(t, a, n)[i] = t[a + i - 1]
      BY <2>1, SubSeqProperties DEF n
    <2>3. \A i \in 1 .. n - k : a + i - 1 = k + i
      BY <1>1 DEF a
    <2> QED BY <2>1, <2>2, <2>3 DEF a
  <1>4. u \in Seq(S) /\ Len(u) = n - k - 1 /\ \A i \in 1 .. n - k - 1 : u[i] = t[k + 1 + i]
    <2> DEFINE a == k + 2
    <2>1. a \in 1 .. n + 1 /\ n \in a - 1 .. n /\ n - a + 1 = n - k - 1
      BY <1>1
    <2> HIDE DEF n, a
    <2>2. SubSeq(t, a, n) \in Seq(S) /\ Len(SubSeq(t, a, n)) = n - a + 1
          /\ \A i \in 1 .. n - a + 1 : SubSeq(t, a, n)[i] = t[a + i - 1]
      BY <2>1, SubSeqProperties DEF n
    <2>3. \A i \in 1 .. n - k - 1 : a + i - 1 = k + 1 + i
      BY <1>1 DEF a
    <2> QED BY <2>1, <2>2, <2>3, Zenon DEF a
  <1>5. /\ x \in Seq(S) /\ Len(x) = k /\ \A i \in 1 .. k : x[i] = t[i]
        /\ y \in Seq(S) /\ Len(y) = k + 1 /\ \A i \in 1 .. k + 1 : y[i] = t[i]
    <2> DEFINE a == k + 1
    <2>1. k \in 0 .. n /\ a \in 0 .. n
      BY <1>1
    <2> HIDE DEF a
    <2>2. SubSeq(t, 1, k) \in Seq(S) /\ Len(SubSeq(t, 1, k)) = k
          /\ \A i \in 1 .. k : SubSeq(t, 1, k)[i] = t[i]
      BY <2>1, SubSeqProperties
    <2>3. SubSeq(t, 1, a) \in Seq(S) /\ Len(SubSeq(t, 1, a)) = a
          /\ \A i \in 1 .. a : SubSeq(t, 1, a)[i] = t[i]
      BY <2>1, SubSeqProperties
    <2> QED BY <2>2, <2>3 DEF a
  <1> HIDE DEF r, u, x, y, n
  <1>6. r[1] = t[k + 1]
    BY <1>1, <1>3
  <1>7. Tail(r) = u
    <2>1. r # << >>
      BY <1>1, <1>3
    <2>2. /\ Tail(r) \in Seq(S) /\ Len(Tail(r)) = n - k - 1
          /\ \A i \in 1 .. n - k - 1 : Tail(r)[i] = r[i + 1]
      BY <1>1, <1>3, <2>1, HeadTailProperties
    <2>3. ASSUME NEW i \in 1 .. n - k - 1 PROVE Tail(r)[i] = u[i]
      <3>1. i + 1 \in 1 .. n - k /\ k + (i + 1) = k + 1 + i
        BY <1>1
      <3>2. r[i + 1] = t[k + 1 + i]
        BY <1>3, <3>1
      <3> QED BY <1>4, <2>2, <3>2, Zenon
    <2> QED BY <1>4, <2>2, <2>3, SeqEqual
  <1>8. y = z
    <2>1. /\ z \in Seq(S) /\ Len(z) = k + 1 /\ z[k + 1] = t[k + 1]
          /\ \A i \in 1 .. k : z[i] = x[i]
      BY <1>2, <1>5, AppendProperties
    <2> HIDE DEF z
    <2>2. ASSUME NEW i \in 1 .. k + 1 PROVE y[i] = z[i]
      <3>1. i \in 1 .. k \/ i = k + 1
        BY <1>1
      <3> QED BY <1>5, <2>1, <3>1
    <2> QED BY <1>5, <2>1, <2>2, SeqEqual
  <1> QED BY <1>2, <1>3, <1>5, <1>6, <1>7, <1>8 DEF r, u, x, y, z, n

\* The loop over the text: a letter of rest is taken to plain.
LEMMA CutMore ==
    ASSUME NEW t \in Seq(playfair!Alphabet), NEW r \in Seq(playfair!Alphabet),
           NEW p \in Seq(playfair!Alphabet), Cut(t, r, p), r # << >>
    PROVE  /\ r[1] \in playfair!Alphabet /\ Tail(r) \in Seq(playfair!Alphabet)
           /\ Cut(t, Tail(r), Append(p, r[1]))
  <1> DEFINE A == playfair!Alphabet  k == Len(t) - Len(r)  n == Len(t)
  <1>1. n \in Nat /\ Len(r) \in Nat /\ Len(r) # 0
    BY LenProperties, EmptySeq
  <1>2. k \in 0 .. n - 1
    BY <1>1 DEF Cut
  <1>3. r = SubSeq(t, k + 1, n) /\ WithoutX(p) = WithoutX(SubSeq(t, 1, k))
    BY DEF Cut
  <1> HIDE DEF k
  <1>4. /\ r[1] = t[k + 1] /\ t[k + 1] \in A
        /\ Tail(r) = SubSeq(t, k + 2, n)
        /\ SubSeq(t, 1, k) \in Seq(A)
        /\ SubSeq(t, 1, k + 1) = Append(SubSeq(t, 1, k), t[k + 1])
    BY <1>2, <1>3, Shift
  <1>5. Tail(r) \in Seq(A) /\ Len(Tail(r)) = Len(r) - 1
    BY HeadTailProperties
  <1>6. WithoutX(Append(p, r[1])) = WithoutX(SubSeq(t, 1, k + 1))
    <2> DEFINE a == r[1]  x == SubSeq(t, 1, k)
    <2>1. /\ a \in Int /\ p \in Seq(Int) /\ x \in Seq(Int)
          /\ SubSeq(t, 1, k + 1) = Append(x, a) /\ WithoutX(p) = WithoutX(x)
      BY <1>3, <1>4, LettersAreInts, Zenon
    <2> HIDE DEF a, x
    <2>2. /\ WithoutX(Append(p, a)) = IF a = playfair!X THEN WithoutX(p) ELSE Append(WithoutX(p), a)
          /\ WithoutX(Append(x, a)) = IF a = playfair!X THEN WithoutX(x) ELSE Append(WithoutX(x), a)
      BY <2>1, WithoutXMore, Zenon
    <2> QED BY <2>1, <2>2, Zenon DEF a
  <1>7. Len(t) - Len(Tail(r)) = k + 1 /\ (k + 1) + 1 = k + 2
    BY <1>1, <1>2, <1>5 DEF k
  <1>8. Cut(t, Tail(r), Append(p, r[1]))
    <2> DEFINE l == Len(Tail(r))
    <2> HIDE DEF l
    <2>1. Len(t) - l = k + 1 /\ k + 1 >= 0
      BY <1>2, <1>7 DEF l
    <2>2. Tail(r) = SubSeq(t, Len(t) - l + 1, Len(t))
      BY <1>4, <1>7, <2>1, Zenon
    <2>3. WithoutX(Append(p, r[1])) = WithoutX(SubSeq(t, 1, Len(t) - l))
      BY <1>6, <2>1
    <2> QED BY <2>1, <2>2, <2>3 DEF Cut, l
  <1> QED BY <1>4, <1>5, <1>8

\* An X put in changes nothing of it.
LEMMA CutX ==
    ASSUME NEW t, NEW r, NEW p \in Seq(playfair!Alphabet), Cut(t, r, p)
    PROVE  Cut(t, r, Append(p, playfair!X))
  <1>1. p \in Seq(Int) /\ playfair!X \in Int
    BY LettersAreInts
  <1>2. WithoutX(Append(p, playfair!X)) = WithoutX(p)
    BY <1>1, WithoutXMore
  <1> QED BY <1>2 DEF Cut

\* A pair more keeps the pairs unlike.
LEMMA UnlikeMore ==
    ASSUME NEW p \in Seq(playfair!Alphabet), Unlike(p), NEW a \in playfair!Alphabet,
           NEW b \in playfair!Alphabet, a = b => b = playfair!X
    PROVE  Unlike(p \o << a, b >>)
  <1> DEFINE q == p \o << a, b >>  n == Len(p)  h == n \div 2
  <1>1. /\ Len(q) = n + 2 /\ n \in Nat
        /\ \A i \in 1 .. n : q[i] = p[i]
        /\ q[n + 1] = a /\ q[n + 2] = b
    BY TwoMore
  <1> HIDE DEF q
  <1>2. n % 2 = 0 /\ \A i \in 1 .. h : p[2 * i - 1] = p[2 * i] => p[2 * i] = playfair!X
    BY DEF Unlike
  <1> HIDE DEF n
  <1>3. h \in Nat /\ n = 2 * h /\ (n + 2) % 2 = 0 /\ (n + 2) \div 2 = h + 1
    BY <1>1, <1>2
  <1> HIDE DEF h
  <1>4. ASSUME NEW i \in 1 .. h + 1, q[2 * i - 1] = q[2 * i] PROVE q[2 * i] = playfair!X
    <2>1. CASE i = h + 1
      <3>1. 2 * i - 1 = n + 1 /\ 2 * i = n + 2
        BY <1>3, <2>1
      <3>2. a = b
        BY <1>1, <1>4, <3>1
      <3> QED BY <1>1, <3>1, <3>2
    <2>2. CASE i # h + 1
      <3>1. i \in 1 .. h /\ 2 * i - 1 \in 1 .. n /\ 2 * i \in 1 .. n
        BY <1>3, <2>2
      <3>2. q[2 * i - 1] = p[2 * i - 1] /\ q[2 * i] = p[2 * i]
        BY <1>1, <3>1
      <3> QED BY <1>2, <1>4, <3>1, <3>2, Zenon
    <2> QED BY <2>1, <2>2
  <1>5. Len(q) % 2 = 0 /\ Len(q) \div 2 = h + 1
    BY <1>1, <1>3
  <1> QED BY <1>4, <1>5, Zenon DEF Unlike, q

\* A program starts with the whole text to cut.
LEMMA PlayStarts ==
    playfair!Init => playfair!Inv
  <1> SUFFICES ASSUME playfair!Init PROVE playfair!Inv
    OBVIOUS
  <1> DEFINE A == playfair!Alphabet
  <1>1. PICK key1 \in PlayfairKeys : schedule = playfair!generateKeyMatrix(key1)
    BY DEF playfair!Init
  <1>2. PICK text1 \in PlayfairTexts : text = playfair!Letters(text1)
    BY DEF playfair!Init
  <1>3. /\ local1 = text /\ local2 = << >> /\ sent = << >> /\ back = << >>
        /\ phase = "preprocess"
    BY DEF playfair!Init
  <1>4. key1 \in Seq(Int) /\ text1 \in Seq(Int)
    BY PlayfairAssumption, LettersAreInts
  <1>5. schedule \in Seq(A) /\ Len(schedule) = 25 /\ playfair!Range(schedule) = A
    BY <1>1, <1>4, KeyMatrix DEF LetterSquare
  <1>6. text \in Seq(A)
    BY <1>2, <1>4, LettersOf
  <1>7. << >> \in Seq(A) /\ Len(<< >>) = 0
    OBVIOUS
  <1> HIDE DEF A
  <1>8. Unlike(<< >>)
    BY DEF Unlike
  <1>9. Cut(text, text, << >>)
    <2> DEFINE n == Len(text)
    <2>1. n \in Nat /\ n - n = 0 /\ n - n + 1 = 1 /\ 0 \in 0 .. n
      BY <1>6, LenProperties
    <2>2. SubSeq(text, 1, n) = text
      <3>1. n \in 0 .. n
        BY <2>1
      <3> HIDE DEF n
      <3>2. /\ SubSeq(text, 1, n) \in Seq(A) /\ Len(SubSeq(text, 1, n)) = n
            /\ \A i \in 1 .. n : SubSeq(text, 1, n)[i] = text[i]
        BY <1>6, <3>1, SubSeqProperties DEF n
      <3> DEFINE u == SubSeq(text, 1, n)
      <3>3. u \in Seq(A) /\ Len(u) = Len(text) /\ \A i \in 1 .. Len(text) : u[i] = text[i]
        BY <3>2 DEF n
      <3> HIDE DEF u
      <3>4. u = text
        BY <1>6, <3>3, SeqEqual
      <3> QED BY <3>4 DEF u
    <2>3. SubSeq(text, 1, 0) = << >>
      OBVIOUS
    <2> DEFINE d == Len(text) - Len(text)
    <2>4. d = 0
      BY <2>1
    <2> HIDE DEF d
    <2>5. /\ d >= 0
          /\ text = SubSeq(text, d + 1, Len(text))
          /\ WithoutX(<< >>) = WithoutX(SubSeq(text, 1, d))
      <3>1. d + 1 = 1 /\ d >= 0
        BY <2>4
      <3> QED BY <2>2, <2>3, <2>4, <3>1, Zenon
    <2> QED BY <2>5 DEF Cut, d
  <1>10. Pairs(schedule, << >>, << >>)
    BY <1>7 DEF Pairs
  <1>11. Back("preprocess", << >>, << >>, << >>) /\ Phases("preprocess", text, << >>, << >>, << >>)
    BY <1>7 DEF Back, Phases
  <1> QED BY <1>3, <1>5, <1>6, <1>7, <1>8, <1>9, <1>10, <1>11, PlayNow DEF A

\* A pair cut off the text.
LEMMA PlayTakePair ==
    playfair!Inv /\ playfair!TakePair => playfair!Inv'
  <1> SUFFICES ASSUME playfair!Inv, playfair!TakePair PROVE playfair!Inv'
    OBVIOUS
  <1> DEFINE A == playfair!Alphabet  r == local1  p == local2
  <1>1. /\ phase = "preprocess" /\ Len(r) > 1
        /\ phase' = phase /\ schedule' = schedule /\ text' = text /\ sent' = sent /\ back' = back
        /\ IF r[1] = r[2] THEN p' = p \o << r[1], playfair!X >> /\ r' = Tail(r)
           ELSE p' = p \o << r[1], r[2] >> /\ r' = SubSeq(r, 3, Len(r))
    BY Zenon DEF playfair!TakePair
  <1>2. /\ {schedule, text, r, p, sent, back} \subseteq Seq(A)
        /\ Len(schedule) = 25 /\ playfair!Range(schedule) = A
        /\ sent = << >> /\ back = << >>
        /\ Unlike(p) /\ Cut(text, r, p)
    BY <1>1, PlayNow DEF Phases
  <1> HIDE DEF A
  <1>3. r # << >> /\ Len(r) \in Nat /\ Len(r) > 1
    BY <1>1, <1>2, LenProperties
  <1>4. /\ r[1] \in A /\ Tail(r) \in Seq(A) /\ Cut(text, Tail(r), Append(p, r[1]))
        /\ Append(p, r[1]) \in Seq(A) /\ playfair!X \in A
    <2>1. r[1] \in A /\ Tail(r) \in Seq(A) /\ Cut(text, Tail(r), Append(p, r[1]))
      BY <1>2, <1>3, CutMore DEF A
    <2> QED BY <1>2, <2>1, AppendProperties, LettersAreInts DEF A
  <1>5. r' \in Seq(A) /\ p' \in Seq(A) /\ Unlike(p') /\ Cut(text, r', p')
    <2>1. CASE r[1] = r[2]
      <3>1. p' = p \o << r[1], playfair!X >> /\ r' = Tail(r)
        BY <1>1, <2>1, Zenon
      <3>2. p' = Append(Append(p, r[1]), playfair!X) /\ p' \in Seq(A)
        BY <1>2, <1>4, <3>1, TwoMore
      <3>3. Unlike(p')
        BY <1>2, <1>4, <3>1, UnlikeMore DEF A
      <3>4. Cut(text, Tail(r), Append(Append(p, r[1]), playfair!X))
        BY <1>4, CutX, Zenon DEF A
      <3> QED BY <1>4, <3>1, <3>2, <3>3, <3>4, Zenon
    <2>2. CASE r[1] # r[2]
      <3> DEFINE u == Tail(r)
      <3>1. p' = p \o << r[1], r[2] >> /\ r' = SubSeq(r, 3, Len(r))
        BY <1>1, <2>2
      <3>2. u \in Seq(A) /\ u # << >> /\ u[1] = r[2] /\ Tail(u) = r'
        <4>1. /\ u \in Seq(A) /\ Len(u) = Len(r) - 1
              /\ \A i \in 1 .. Len(r) - 1 : u[i] = r[i + 1]
          BY <1>2, <1>3, HeadTailProperties
        <4> HIDE DEF u
        <4>2. 1 \in 1 .. Len(r) - 1 /\ Len(u) # 0
          <5> DEFINE n == Len(r)  l == Len(u)
          <5>1. l = n - 1 /\ n \in Nat /\ n > 1
            BY <1>3, <4>1
          <5> HIDE DEF n, l
          <5>2. 1 \in 1 .. n - 1 /\ l # 0
            BY <5>1
          <5> QED BY <5>2 DEF n, l
        <4>3. u # << >> /\ u[1] = r[2]
          BY <4>1, <4>2
        <4>4. Tail(u) = SubSeq(r, 3, Len(r))
          <5> DEFINE k == 1
          <5>1. k \in 0 .. Len(r) - 1 /\ r \in Seq(A)
            BY <1>1, <1>2, <1>3
          <5> HIDE DEF k
          <5>2. Tail(SubSeq(r, k + 1, Len(r))) = SubSeq(r, k + 2, Len(r))
            BY <5>1, Shift
          <5> DEFINE j == 0
          <5>3. j \in 0 .. Len(r) - 1
            BY <1>1, <1>3
          <5> HIDE DEF j
          <5>4. /\ Tail(SubSeq(r, j + 1, Len(r))) = SubSeq(r, j + 2, Len(r))
                /\ SubSeq(r, j + 1, Len(r)) \in Seq(A)
                /\ Len(SubSeq(r, j + 1, Len(r))) = Len(r) - j
            BY <5>1, <5>3, Shift
          <5>5. SubSeq(r, 1, Len(r)) = r
            <6> DEFINE n == Len(r)
            <6>1. n \in 0 .. n
              BY <1>3
            <6> HIDE DEF n
            <6> DEFINE w == SubSeq(r, 1, n)
            <6>2. /\ w \in Seq(A) /\ Len(w) = n /\ \A i \in 1 .. n : w[i] = r[i]
              BY <5>1, <6>1, SubSeqProperties DEF n
            <6> HIDE DEF w
            <6>3. w = r
              BY <5>1, <6>2, SeqEqual DEF n
            <6> QED BY <6>3 DEF w, n
          <5>6. u = SubSeq(r, 2, Len(r))
            BY <5>4, <5>5 DEF u, j
          <5> QED BY <5>2, <5>6 DEF k
        <4> QED BY <3>1, <4>1, <4>3, <4>4
      <3> HIDE DEF u
      <3>3. /\ u[1] \in A /\ Tail(u) \in Seq(A)
            /\ Cut(text, Tail(u), Append(Append(p, r[1]), u[1]))
        BY <1>2, <1>4, <3>2, CutMore, Zenon DEF A, u
      <3>4. r[2] \in A /\ r' \in Seq(A)
        BY <3>2, <3>3
      <3>5. p' = Append(Append(p, r[1]), r[2]) /\ p' \in Seq(A)
        BY <1>2, <1>4, <3>1, <3>4, TwoMore
      <3>6. Unlike(p')
        BY <1>2, <1>4, <2>2, <3>1, <3>4, UnlikeMore DEF A
      <3> QED BY <3>2, <3>3, <3>4, <3>5, <3>6, Zenon
    <2> QED BY <2>1, <2>2
  <1>6. Pairs(schedule, p', << >>) /\ Back("preprocess", p', << >>, << >>)
        /\ Phases("preprocess", r', p', << >>, << >>)
    <2>1. Len(p') \in Nat
      BY <1>5, LenProperties
    <2> QED BY <2>1 DEF Pairs, Back, Phases
  <1> QED BY <1>1, <1>2, <1>5, <1>6, PlayNext DEF A

\* The text is cut: an X beside a letter left alone.
LEMMA PlayPad ==
    playfair!Inv /\ playfair!Pad => playfair!Inv'
  <1> SUFFICES ASSUME playfair!Inv, playfair!Pad PROVE playfair!Inv'
    OBVIOUS
  <1> DEFINE A == playfair!Alphabet  r == local1  p == local2
  <1>1. /\ phase = "preprocess" /\ Len(r) < 2
        /\ phase' = "encrypt" /\ schedule' = schedule /\ text' = text /\ sent' = sent /\ back' = back
        /\ p' = (IF r = << >> THEN p ELSE p \o << r[1], playfair!X >>)
        /\ r' = << >>
    BY DEF playfair!Pad
  <1>2. /\ {schedule, text, r, p, sent, back} \subseteq Seq(A)
        /\ Len(schedule) = 25 /\ playfair!Range(schedule) = A
        /\ sent = << >> /\ back = << >>
        /\ Unlike(p) /\ Cut(text, r, p)
    BY <1>1, PlayNow DEF Phases
  <1> HIDE DEF A
  <1>3. p' \in Seq(A) /\ Unlike(p') /\ Cut(text, << >>, p')
    <2>1. CASE r = << >>
      BY <1>1, <1>2, <2>1
    <2>2. CASE r # << >>
      <3>1. r[1] \in A /\ Tail(r) \in Seq(A) /\ Cut(text, Tail(r), Append(p, r[1]))
        BY <1>2, <2>2, CutMore DEF A
      <3>2. Tail(r) = << >>
        <4>1. Len(r) \in Nat /\ Len(r) # 0
          BY <1>2, <2>2, LenProperties, EmptySeq
        <4>2. Len(Tail(r)) = 0
          <5>1. Len(Tail(r)) = Len(r) - 1
            BY <1>2, <2>2, HeadTailProperties
          <5> QED BY <1>1, <4>1, <5>1
        <4> QED BY <3>1, <4>2, EmptySeq, Zenon
      <3>3. playfair!X \in A /\ Append(p, r[1]) \in Seq(A)
        BY <1>2, <3>1, AppendProperties, LettersAreInts DEF A
      <3>4. p' = p \o << r[1], playfair!X >>
        BY <1>1, <2>2
      <3>5. p' = Append(Append(p, r[1]), playfair!X) /\ p' \in Seq(A)
        BY <1>2, <3>1, <3>3, <3>4, TwoMore
      <3>6. Unlike(p')
        BY <1>2, <3>1, <3>3, <3>4, UnlikeMore DEF A
      <3>7. Cut(text, << >>, Append(Append(p, r[1]), playfair!X))
        BY <3>1, <3>2, <3>3, CutX, Zenon DEF A
      <3> QED BY <3>5, <3>6, <3>7
    <2> QED BY <2>1, <2>2
  <1>4. Pairs(schedule, p', << >>) /\ Back("encrypt", p', << >>, << >>)
        /\ Phases("encrypt", << >>, p', << >>, << >>)
    <2>1. Len(p') \in Nat
      BY <1>3, LenProperties
    <2> QED BY <2>1 DEF Pairs, Back, Phases
  <1>5. << >> \in Seq(A)
    OBVIOUS
  <1> QED BY <1>1, <1>2, <1>3, <1>4, <1>5, PlayNext DEF A

\* The pair that comes after what is done.
LEMMA NextPair ==
    ASSUME NEW S, NEW s \in Seq(S), NEW d, Len(d) \in Nat, Len(d) % 2 = 0, Len(s) % 2 = 0,
           Len(d) < Len(s)
    PROVE  LET n == Len(d)
           IN  /\ playfair!Next2(s, d) = << s[n + 1], s[n + 2] >>
               /\ s[n + 1] \in S /\ s[n + 2] \in S
               /\ n + 2 <= Len(s) /\ (n + 2) % 2 = 0
               /\ (n + 2) \div 2 = (n \div 2) + 1 /\ n = 2 * (n \div 2)
  <1> DEFINE n == Len(d)  l == Len(s)  t == SubSeq(s, n + 1, n + 2)
  <1>1. n \in Nat /\ l \in Nat /\ n % 2 = 0 /\ l % 2 = 0 /\ n < l
    BY LenProperties
  <1>2. playfair!Next2(s, d) = t
    BY DEF playfair!Next2
  <1> HIDE DEF n
  <1>3. n + 2 <= l /\ (n + 2) % 2 = 0 /\ (n + 2) \div 2 = (n \div 2) + 1 /\ n = 2 * (n \div 2)
    <2> HIDE DEF l
    <2> QED BY <1>1
  <1>4. n + 1 \in 1 .. l /\ n + 2 \in 1 .. l
    <2> HIDE DEF l
    <2> QED BY <1>1, <1>3
  <1>5. s[n + 1] \in S /\ s[n + 2] \in S
    BY <1>4, ElementOfSeq
  <1>6. t = << s[n + 1], s[n + 2] >>
    <2> DEFINE a == n + 1  b == n + 2
    <2>1. a \in 1 .. Len(s) + 1 /\ b \in a - 1 .. Len(s) /\ b - a + 1 = 2
      BY <1>1, <1>3
    <2>2. 1 \in 1 .. 2 /\ 2 \in 1 .. 2 /\ a + 1 - 1 = n + 1 /\ a + 2 - 1 = n + 2
      BY <1>1
    <2> HIDE DEF a, b
    <2>3. /\ SubSeq(s, a, b) \in Seq(S) /\ Len(SubSeq(s, a, b)) = b - a + 1
          /\ \A i \in 1 .. b - a + 1 : SubSeq(s, a, b)[i] = s[a + i - 1]
      BY <2>1, SubSeqProperties
    <2>4. t = SubSeq(s, a, b)
      BY DEF a, b
    <2> HIDE DEF t
    <2>5. t \in Seq(S) /\ Len(t) = 2 /\ t[1] = s[n + 1] /\ t[2] = s[n + 2]
      BY <2>1, <2>2, <2>3, <2>4, Zenon
    <2> DEFINE w == << s[n + 1], s[n + 2] >>
    <2>6. w \in Seq(S) /\ Len(w) = 2 /\ w[1] = s[n + 1] /\ w[2] = s[n + 2]
      BY <1>5
    <2> HIDE DEF w
    <2>7. t = w
      <3>1. \A i \in 1 .. 2 : i = 1 \/ i = 2
        OBVIOUS
      <3>2. \A i \in 1 .. Len(t) : t[i] = w[i]
        BY <2>5, <2>6, <3>1
      <3> QED BY <2>5, <2>6, <3>2, SeqEqual
    <2> QED BY <2>7 DEF w
  <1> QED BY <1>2, <1>3, <1>5, <1>6 DEF n

\* A pair more enciphered, or all are.
LEMMA PlayEncrypt ==
    playfair!Inv /\ playfair!encrypt => playfair!Inv'
  <1> SUFFICES ASSUME playfair!Inv, playfair!encrypt PROVE playfair!Inv'
    OBVIOUS
  <1> DEFINE A == playfair!Alphabet  m == schedule  p == local2  n == Len(sent)
  <1>1. /\ phase = "encrypt" /\ m' = m /\ text' = text /\ local1' = local1 /\ p' = p
        /\ back' = back
        /\ IF n < Len(p) THEN sent' = sent \o playfair!Substitute(m, playfair!Next2(p, sent), 1)
                              /\ phase' = phase
           ELSE phase' = "decrypt" /\ sent' = sent
    BY DEF playfair!encrypt
  <1>2. /\ {m, text, local1, p, sent, back} \subseteq Seq(A)
        /\ Len(m) = 25 /\ playfair!Range(m) = A
        /\ back = << >> /\ local1 = << >>
        /\ Unlike(p) /\ Cut(text, local1, p) /\ Pairs(m, p, sent)
    BY <1>1, PlayNow DEF Phases
  <1> HIDE DEF A
  <1>3. n \in Nat /\ Len(p) \in Nat /\ n <= Len(p) /\ n % 2 = 0 /\ Len(p) % 2 = 0 /\ LetterSquare(m)
    <2>1. n \in Nat /\ Len(p) \in Nat
      BY <1>2, LenProperties
    <2>2. LetterSquare(m)
      <3>1. m \in Seq(Int)
        BY <1>2, LettersAreInts DEF A
      <3> QED BY <1>2, <3>1, SquareOfList DEF A
    <2> QED BY <1>2, <2>1, <2>2 DEF Pairs, Unlike
  <1>4. CASE n < Len(p)
    <2> DEFINE x == p[n + 1]  y == p[n + 2]
    <2>1. /\ playfair!Next2(p, sent) = << x, y >> /\ x \in A /\ y \in A
          /\ n + 2 <= Len(p) /\ (n + 2) % 2 = 0
          /\ (n + 2) \div 2 = (n \div 2) + 1 /\ n = 2 * (n \div 2)
      BY <1>2, <1>3, <1>4, NextPair
    <2> HIDE DEF x, y
    <2>2. PICK v \in A, w \in A : /\ playfair!Substitute(m, << x, y >>, 1) = << v, w >>
                                  /\ playfair!Substitute(m, << v, w >>, 4) = << x, y >>
      <3>1. TakenBack(m, x, y)
        <4>1. x \in playfair!Alphabet /\ y \in playfair!Alphabet
          BY <2>1 DEF A
        <4> QED BY <1>3, <4>1, PairBack
      <3> QED BY <3>1 DEF TakenBack, A
    <2>3. sent' = sent \o << v, w >> /\ phase' = "encrypt"
      BY <1>1, <1>4, <2>1, <2>2, Zenon
    <2>4. /\ sent' \in Seq(A) /\ Len(sent') = n + 2
          /\ \A i \in 1 .. n : sent'[i] = sent[i]
          /\ sent'[n + 1] = v /\ sent'[n + 2] = w
      BY <1>2, <2>3, TwoMore
    <2> DEFINE h == n \div 2  q == sent'
    <2>5. h \in Nat /\ n = 2 * h /\ (n + 2) \div 2 = h + 1
      BY <1>3, <2>1
    <2> HIDE DEF h
    <2>6. ASSUME NEW i \in 1 .. h + 1
          PROVE  << q[2 * i - 1], q[2 * i] >> = playfair!Substitute(m, << p[2 * i - 1], p[2 * i] >>, 1)
      <3>1. CASE i = h + 1
        <4>1. 2 * i - 1 = n + 1 /\ 2 * i = n + 2
          BY <2>5, <3>1
        <4> HIDE DEF q, n
        <4>2. p[2 * i - 1] = x /\ p[2 * i] = y /\ q[2 * i - 1] = v /\ q[2 * i] = w
          BY <2>4, <4>1 DEF x, y, q
        <4> QED BY <2>2, <4>2
      <3>2. CASE i # h + 1
        <4>1. i \in 1 .. h /\ 2 * i - 1 \in 1 .. n /\ 2 * i \in 1 .. n
          BY <2>5, <3>2
        <4>2. q[2 * i - 1] = sent[2 * i - 1] /\ q[2 * i] = sent[2 * i]
          BY <2>4, <4>1
        <4>3. << sent[2 * i - 1], sent[2 * i] >>
                = playfair!Substitute(m, << p[2 * i - 1], p[2 * i] >>, 1)
          BY <1>2, <4>1, Zenon DEF Pairs, h
        <4> HIDE DEF q
        <4> QED BY <4>2, <4>3
      <3> QED BY <3>1, <3>2
    <2>7. Pairs(m, p, sent')
      <3>1. Len(q) % 2 = 0 /\ Len(q) <= Len(p) /\ Len(q) \div 2 = h + 1
        BY <2>1, <2>4, <2>5
      <3> HIDE DEF q
      <3>2. \A i \in 1 .. Len(q) \div 2 :
               << q[2 * i - 1], q[2 * i] >> = playfair!Substitute(m, << p[2 * i - 1], p[2 * i] >>, 1)
        BY <2>6, <3>1
      <3>3. Pairs(m, p, q)
        BY <3>1, <3>2 DEF Pairs
      <3> QED BY <3>3 DEF q
    <2>8. Back("encrypt", p, sent', << >>) /\ Phases("encrypt", << >>, p, sent', << >>)
      <3>1. Len(<< >>) = 0 /\ n + 2 >= 0
        BY <1>3
      <3> QED BY <2>4, <3>1 DEF Back, Phases
    <2> QED BY <1>1, <1>2, <2>3, <2>4, <2>7, <2>8, PlayNext DEF A
  <1>5. CASE ~(n < Len(p))
    <2>1. sent' = sent /\ phase' = "decrypt" /\ n = Len(p)
      BY <1>1, <1>3, <1>5
    <2>2. Back("decrypt", p, sent, << >>)
      <3>1. SubSeq(p, 1, 0) = << >> /\ Len(<< >>) = 0
        OBVIOUS
      <3> QED BY <1>3, <3>1 DEF Back
    <2>3. Phases("decrypt", << >>, p, sent, << >>)
      BY <2>1 DEF Phases
    <2> QED BY <1>1, <1>2, <2>1, <2>2, <2>3, PlayNext DEF A
  <1> QED BY <1>4, <1>5

\* A pair more deciphered, or the last X taken off.
LEMMA PlayDecrypt ==
    playfair!Inv /\ playfair!decrypt => playfair!Inv'
  <1> SUFFICES ASSUME playfair!Inv, playfair!decrypt PROVE playfair!Inv'
    OBVIOUS
  <1> DEFINE A == playfair!Alphabet  m == schedule  p == local2  n == Len(back)
             last == back # << >> /\ back[n] = playfair!X
  <1>1. /\ phase = "decrypt" /\ m' = m /\ text' = text /\ local1' = local1 /\ p' = p
        /\ sent' = sent
        /\ IF n < Len(sent) THEN back' = back \o playfair!Substitute(m, playfair!Next2(sent, back), 4)
                                 /\ phase' = phase
           ELSE /\ back' = (IF last THEN SubSeq(back, 1, n - 1) ELSE back)
                /\ phase' = "done"
    BY DEF playfair!decrypt
  <1> HIDE DEF last
  <1>2. /\ {m, text, local1, p, sent, back} \subseteq Seq(A)
        /\ Len(m) = 25 /\ playfair!Range(m) = A
        /\ local1 = << >> /\ Len(sent) = Len(p)
        /\ Unlike(p) /\ Cut(text, local1, p) /\ Pairs(m, p, sent)
        /\ n % 2 = 0 /\ n <= Len(sent) /\ back = SubSeq(p, 1, n)
    BY <1>1, PlayNow DEF Phases, Back
  <1> HIDE DEF A
  <1>3. n \in Nat /\ Len(p) \in Nat /\ n <= Len(p) /\ Len(p) % 2 = 0 /\ LetterSquare(m)
    <2>1. n \in Nat /\ Len(p) \in Nat
      BY <1>2, LenProperties
    <2>2. LetterSquare(m)
      <3>1. m \in Seq(Int)
        BY <1>2, LettersAreInts DEF A
      <3> QED BY <1>2, <3>1, SquareOfList DEF A
    <2> QED BY <1>2, <2>1, <2>2 DEF Unlike
  <1>4. CASE n < Len(p)
    <2> DEFINE x == p[n + 1]  y == p[n + 2]  v == sent[n + 1]  w == sent[n + 2]  h == n \div 2
    <2>1. /\ playfair!Next2(sent, back) = << v, w >>
          /\ n + 2 <= Len(p) /\ (n + 2) % 2 = 0 /\ n = 2 * h
      BY <1>2, <1>3, <1>4, NextPair, Zenon
    <2>2. x \in A /\ y \in A
      BY <1>2, <1>3, <1>4, NextPair, Zenon
    <2>3. << v, w >> = playfair!Substitute(m, << x, y >>, 1)
      <3> DEFINE i == h + 1
      <3>1. i \in 1 .. Len(sent) \div 2 /\ 2 * i - 1 = n + 1 /\ 2 * i = n + 2
        <4> DEFINE l == Len(p)
        <4>1. l \in Nat /\ n \in Nat /\ n + 2 <= l /\ n % 2 = 0 /\ Len(sent) = l
          BY <1>2, <1>3, <2>1
        <4> HIDE DEF l, n
        <4> QED BY <4>1
      <3> HIDE DEF i
      <3>2. << sent[2 * i - 1], sent[2 * i] >>
              = playfair!Substitute(m, << p[2 * i - 1], p[2 * i] >>, 1)
        BY <1>2, <3>1, Zenon DEF Pairs
      <3> QED BY <3>1, <3>2
    <2> HIDE DEF x, y, v, w
    <2>4. playfair!Substitute(m, << v, w >>, 4) = << x, y >>
      <3>1. PICK a \in A, b \in A : /\ playfair!Substitute(m, << x, y >>, 1) = << a, b >>
                                    /\ playfair!Substitute(m, << a, b >>, 4) = << x, y >>
        <4>1. TakenBack(m, x, y)
          <5>1. x \in playfair!Alphabet /\ y \in playfair!Alphabet
            BY <2>2 DEF A
          <5> QED BY <1>3, <5>1, PairBack
        <4> QED BY <4>1 DEF TakenBack, A
      <3> QED BY <2>3, <3>1
    <2>5. back' = back \o << x, y >> /\ phase' = "decrypt"
      BY <1>1, <1>2, <1>4, <2>1, <2>4, Zenon
    <2>6. /\ back' = Append(Append(back, x), y)
          /\ back' \in Seq(A) /\ Len(back') = n + 2
      <3>1. back \in Seq(A)
        BY <1>2
      <3>2. /\ back \o << x, y >> = Append(Append(back, x), y)
            /\ back \o << x, y >> \in Seq(A) /\ Len(back \o << x, y >>) = n + 2
        BY <2>2, <3>1, TwoMore
      <3> QED BY <2>5, <3>2
    <2>7. back' = SubSeq(p, 1, n + 2)
      <3> DEFINE k == n  j == n + 1
      <3>1. k \in 0 .. Len(p) - 1 /\ j \in 0 .. Len(p) - 1 /\ p \in Seq(A) /\ j + 1 = n + 2
        BY <1>2, <1>3, <2>1
      <3> HIDE DEF k, j
      <3>2. SubSeq(p, 1, k + 1) = Append(SubSeq(p, 1, k), p[k + 1])
        BY <3>1, Shift
      <3>3. SubSeq(p, 1, j + 1) = Append(SubSeq(p, 1, j), p[j + 1])
        BY <3>1, Shift
      <3>4. j = k + 1 /\ p[k + 1] = x /\ p[j + 1] = y /\ back = SubSeq(p, 1, k) /\ j + 1 = n + 2
        BY <1>2, <3>1 DEF x, y, k, j
      <3> QED BY <2>6, <3>2, <3>3, <3>4, Zenon
    <2>8. Back("decrypt", p, sent, back') /\ Phases("decrypt", << >>, p, sent, back')
      BY <1>2, <2>1, <2>6, <2>7 DEF Back, Phases
    <2> QED BY <1>1, <1>2, <2>5, <2>6, <2>8, PlayNext DEF A
  <1>5. CASE ~(n < Len(p))
    <2>1. n = Len(p)
      BY <1>3, <1>5
    <2>2. back = p
      <3> DEFINE k == n
      <3>1. k \in 0 .. Len(p) /\ k = Len(p) /\ p \in Seq(A)
        BY <1>2, <1>3, <2>1
      <3>2. back = SubSeq(p, 1, k)
        BY <1>2
      <3> HIDE DEF k
      <3> DEFINE u == SubSeq(p, 1, k)
      <3>3. u \in Seq(A) /\ Len(u) = k /\ \A i \in 1 .. k : u[i] = p[i]
        BY <3>1, SubSeqProperties
      <3> HIDE DEF u
      <3>4. u = p
        BY <3>1, <3>3, SeqEqual
      <3> QED BY <3>2, <3>4 DEF u
    <2>3. phase' = "done" /\ back' = IF last THEN SubSeq(back, 1, n - 1) ELSE back
      BY <1>1, <1>2, <2>1
    <2>4. back' \in Seq(A) /\ (back' = p \/ p = Append(back', playfair!X))
      <3>1. CASE ~last
        BY <1>2, <2>2, <2>3, <3>1
      <3>2. CASE last
        <4> DEFINE k == n - 1
        <4>1. k \in 0 .. Len(p) - 1 /\ k + 1 = n /\ p \in Seq(A) /\ p[n] = playfair!X
          <5>1. back # << >> /\ back[n] = playfair!X
            BY <3>2 DEF last
          <5>2. n # 0
            BY <1>2, <5>1, EmptySeq
          <5>3. n - 1 \in 0 .. Len(p) - 1 /\ (n - 1) + 1 = n
            BY <1>3, <2>1, <5>2
          <5> QED BY <1>2, <2>2, <5>1, <5>3
        <4>2. back' = SubSeq(p, 1, k)
          BY <2>2, <2>3, <3>2
        <4> HIDE DEF k
        <4>3. /\ SubSeq(p, 1, k) \in Seq(A)
              /\ SubSeq(p, 1, k + 1) = Append(SubSeq(p, 1, k), p[k + 1])
          BY <4>1, Shift
        <4>4. SubSeq(p, 1, k + 1) = p
          BY <1>2, <2>2, <4>1
        <4> QED BY <4>1, <4>2, <4>3, <4>4
      <3> QED BY <3>1, <3>2
    <2>5. Back("done", p, sent, back') /\ Phases("done", << >>, p, sent, back')
      BY <1>2, <2>4 DEF Back, Phases
    <2> QED BY <1>1, <1>2, <2>3, <2>4, <2>5, PlayNext, Zenon DEF A
  <1> QED BY <1>4, <1>5

\* So the square has every letter but J once, the pairs hold the text, and the text comes
\* back.
LEMMA PlayGivesBack ==
    playfair!Inv => playfair!MatrixIsAlphabet /\ playfair!WellCut /\ playfair!RoundTrip
  <1> SUFFICES ASSUME playfair!Inv
               PROVE  playfair!MatrixIsAlphabet /\ playfair!WellCut /\ playfair!RoundTrip
    OBVIOUS
  <1>1. playfair!MatrixIsAlphabet /\ playfair!RoundTrip /\ playfair!PairsUnlike
    BY DEF playfair!Inv
  <1>2. ASSUME phase # "preprocess"
        PROVE  playfair!Loop(local2, playfair!DropX) = playfair!Loop(text, playfair!DropX)
    <2> DEFINE A == playfair!Alphabet  n == Len(text)  u == SubSeq(text, 1, n)
    <2>1. local1 = << >> /\ Cut(text, local1, local2) /\ text \in Seq(A)
      BY <1>2, PlayNow DEF Phases
    <2>2. n \in Nat /\ Len(text) - Len(<< >>) = n /\ n \in 0 .. n
      BY <2>1, LenProperties
    <2>3. WithoutX(local2) = WithoutX(u)
      BY <2>1, <2>2 DEF Cut
    <2>4. u = text
      <3> HIDE DEF n, A
      <3>1. u \in Seq(A) /\ Len(u) = n /\ \A i \in 1 .. n : u[i] = text[i]
        BY <2>1, <2>2, SubSeqProperties DEF n
      <3> HIDE DEF u
      <3> QED BY <2>1, <3>1, SeqEqual DEF n
    <2> HIDE DEF u
    <2> QED BY <2>3, <2>4 DEF WithoutX
  <1> QED BY <1>1, <1>2 DEF playfair!WellCut

----------------------------------------------------------------------------
(*                            Ciphers together                             *)

\* A step is the use of one cipher, and the cipher in use stays the same.
LEMMA OneInUse ==
    ASSUME [Next]_vars
    PROVE  /\ which' = which
           /\ \/ UNCHANGED vars
              \/ UseDES \/ UseAES \/ UseLetters \/ UseHill \/ UsePlayfair \/ UseRSA \/ UseText
              \/ UseOpenSSL
           /\ UseDES => which = "DES"
           /\ UseAES => which = "AES"
           /\ UseLetters => which = "letters"
           /\ UseHill => which = "Hill"
           /\ UsePlayfair => which = "Playfair"
           /\ UseRSA => which = "RSA"
           /\ UseText => which = "text"
           /\ UseOpenSSL => which = "OpenSSL"
  <1>1. UNCHANGED vars => which' = which
    BY DEF vars
  <1>2. /\ UseDES => which = "DES" /\ which' = which
        /\ UseAES => which = "AES" /\ which' = which
        /\ UseLetters => which = "letters" /\ which' = which
        /\ UseHill => which = "Hill" /\ which' = which
        /\ UsePlayfair => which = "Playfair" /\ which' = which
        /\ UseRSA => which = "RSA" /\ which' = which
        /\ UseText => which = "text" /\ which' = which
        /\ UseOpenSSL => which = "OpenSSL" /\ which' = which
    BY DEF UseDES, UseAES, UseLetters, UseHill, UsePlayfair, UseRSA, UseText, UseOpenSSL
  <1> QED BY <1>1, <1>2, Zenon DEF Next

\* Whatever is done with an object of class DES, it keeps des!Inv.
LEMMA DESAlways == Spec => [](which = "DES" => des!Inv)
  <1>1. Init => (which = "DES" => des!Inv)
    BY DESStarts DEF Init
  <1>2. (which = "DES" => des!Inv) /\ [Next]_vars => (which = "DES" => des!Inv)'
    <2> SUFFICES ASSUME which = "DES", des!Inv, [Next]_vars PROVE des!Inv'
      BY OneInUse
    <2>1. CASE UNCHANGED vars
      <3>1. schedule' = schedule /\ sent' = sent /\ back' = back /\ text' = text
        BY <2>1 DEF vars
      <3> QED BY <3>1, DESNow, DESNext
    <2>2. CASE UseDES
      <3>1. des!Next
        BY <2>2 DEF UseDES
      <3> QED BY <3>1, DESSetKey, DESEncryptBlock, DESEncryptRound, DESDecryptBlock,
                 DESDecryptRound, DESReturn, Zenon DEF des!Next
    <2> QED BY <2>1, <2>2, OneInUse
  <1> QED BY <1>1, <1>2, PTL DEF Spec

\* Whatever is done with an object of class AES, it keeps aes!Inv.
LEMMA AESAlways == Spec => [](which = "AES" => aes!Inv)
  <1>1. Init => (which = "AES" => aes!Inv)
    BY AESStarts DEF Init
  <1>2. (which = "AES" => aes!Inv) /\ [Next]_vars => (which = "AES" => aes!Inv)'
    <2> SUFFICES ASSUME which = "AES", aes!Inv, [Next]_vars PROVE aes!Inv'
      BY OneInUse
    <2>1. CASE UNCHANGED vars
      <3>1. /\ phase' = phase /\ schedule' = schedule /\ sent' = sent /\ back' = back
            /\ text' = text
        BY <2>1 DEF vars
      <3>2. AESSchedule' /\ AESSent' /\ AESBack'
        BY <3>1, AESNow DEF AESSchedule, AESSent, AESBack
      <3> QED BY <3>2, AESNext
    <2>2. CASE UseAES
      <3>1. aes!Next
        BY <2>2 DEF UseAES
      <3> QED BY <3>1, AESSetKey, AESExpandWord, AESEncryptBlock, AESEncryptRound,
                 AESDecryptBlock, AESDecryptRound, AESReturn, Zenon DEF aes!Next
    <2> QED BY <2>1, <2>2, OneInUse
  <1> QED BY <1>1, <1>2, PTL DEF Spec

\* Whatever is done with an object of class RSA, it keeps rsa!Inv.
LEMMA RSAAlways == Spec => [](which = "RSA" => rsa!Inv)
  <1>1. Init => (which = "RSA" => rsa!Inv)
    BY RSAStarts DEF Init
  <1>2. (which = "RSA" => rsa!Inv) /\ [Next]_vars => (which = "RSA" => rsa!Inv)'
    <2> SUFFICES ASSUME which = "RSA", rsa!Inv, [Next]_vars PROVE rsa!Inv'
      BY OneInUse
    <2>1. CASE UNCHANGED vars
      <3>1. /\ key' = key /\ phase' = phase /\ text' = text /\ local1' = local1
            /\ local2' = local2 /\ local3' = local3 /\ local4' = local4 /\ local5' = local5
        BY <2>1 DEF vars
      <3>2. RSACall => RSACall'
        BY <3>1 DEF RSACall
      <3> QED BY <3>1, <3>2, RSANow, RSANext
    <2>2. CASE UseRSA
      <3>1. rsa!Next
        BY <2>2 DEF UseRSA
      <3> QED BY <3>1, RSAGenerate, RSAEncrypt, RSAModPow, RSAReturn, RSADecrypt, Zenon DEF rsa!Next
    <2> QED BY <2>1, <2>2, OneInUse
  <1> QED BY <1>1, <1>2, PTL DEF Spec

\* Whatever Caesar, Affine and Vigenere are given, they keep subst!Inv.
LEMMA LettersAlways == Spec => [](which = "letters" => subst!Inv)
  <1>1. Init => (which = "letters" => subst!Inv)
    BY LettersStarts DEF Init
  <1>2. (which = "letters" => subst!Inv) /\ [Next]_vars => (which = "letters" => subst!Inv)'
    <2> SUFFICES ASSUME which = "letters", subst!Inv, [Next]_vars PROVE subst!Inv'
      BY OneInUse
    <2>1. CASE UNCHANGED vars
      <3>1. key' = key /\ text' = text /\ sent' = sent /\ back' = back /\ local1' = local1
        BY <2>1 DEF vars
      <3>2. \A i : subst!Enciphered(i)' = subst!Enciphered(i)
        BY <3>1 DEF subst!Enciphered, subst!LettersIn
      <3>3. subst!LettersIn(IF back = << >> THEN Len(sent) ELSE Len(back))'
              = subst!LettersIn(IF back = << >> THEN Len(sent) ELSE Len(back))
        BY <3>1 DEF subst!LettersIn
      <3>4. LettersGood => LettersGood'
        BY <3>1, <3>2, <3>3, Zenon DEF LettersGood
      <3> QED BY <3>1, <3>4, LettersNow, LettersKept
    <2>2. CASE UseLetters
      <3>1. subst!Next
        BY <2>2 DEF UseLetters
      <3> QED BY <3>1, LettersEncrypt, LettersDecrypt, Zenon DEF subst!Next
    <2> QED BY <2>1, <2>2, OneInUse
  <1> QED BY <1>1, <1>2, PTL DEF Spec

\* Whatever Playfair is given, it keeps playfair!Inv.
LEMMA PlayAlways == Spec => [](which = "Playfair" => playfair!Inv)
  <1>1. Init => (which = "Playfair" => playfair!Inv)
    BY PlayStarts DEF Init
  <1>2. (which = "Playfair" => playfair!Inv) /\ [Next]_vars => (which = "Playfair" => playfair!Inv)'
    <2> SUFFICES ASSUME which = "Playfair", playfair!Inv, [Next]_vars PROVE playfair!Inv'
      BY OneInUse
    <2>1. CASE UNCHANGED vars
      <3>1. /\ schedule' = schedule /\ text' = text /\ local1' = local1 /\ local2' = local2
            /\ sent' = sent /\ back' = back /\ phase' = phase
        BY <2>1 DEF vars
      <3> QED BY <3>1, PlayNow, PlayNext
    <2>2. CASE UsePlayfair
      <3>1. playfair!Next
        BY <2>2 DEF UsePlayfair
      <3> QED BY <3>1, PlayTakePair, PlayPad, PlayEncrypt, PlayDecrypt, Zenon DEF playfair!Next
    <2> QED BY <2>1, <2>2, OneInUse
  <1> QED BY <1>1, <1>2, PTL DEF Spec

\* Whatever is done with a text in blocks, it keeps blocks!Inv.
LEMMA TextAlways == Spec => [](which = "text" => blocks!Inv)
  <1>1. Init => (which = "text" => blocks!Inv)
    BY TextStarts DEF Init
  <1>2. (which = "text" => blocks!Inv) /\ [Next]_vars => (which = "text" => blocks!Inv)'
    <2> SUFFICES ASSUME which = "text", blocks!Inv, [Next]_vars PROVE blocks!Inv'
      BY OneInUse
    <2>1. CASE UNCHANGED vars
      <3>1. /\ text' = text /\ key' = key /\ schedule' = schedule /\ phase' = phase
            /\ sent' = sent /\ back' = back
            /\ local1' = local1 /\ local2' = local2 /\ local3' = local3
        BY <2>1 DEF vars
      <3>2. blocks!Enciphered(blocks!pad(text))' = blocks!Enciphered(blocks!pad(text))
        BY <3>1 DEF blocks!Enciphered
      <3>3. (blocks!TypeOK /\ blocks!Enciphering /\ blocks!Shown)'
        BY <3>1, <3>2 DEF blocks!Inv, blocks!TypeOK, blocks!Enciphering, blocks!Shown
      <3> QED BY <3>1, <3>3 DEF blocks!Inv, blocks!Deciphering, blocks!OverrunOnlyByEdit,
                 blocks!PrefixSurvives, blocks!RoundTrip
    <2>2. CASE UseText
      <3>1. blocks!Next
        BY <2>2 DEF UseText
      <3> QED BY <3>1, TextRefuse, TextEncrypt, TextEncryptNext, TextEdit, TextTypeKey, TextDecrypt,
                 TextDecryptNext, Zenon DEF blocks!Next
    <2> QED BY <2>1, <2>2, OneInUse
  <1> QED BY <1>1, <1>2, PTL DEF Spec

\* Whatever is done with an object around OpenSSL, it keeps ssl!Inv.
LEMMA SSLAlways == Spec => [](which = "OpenSSL" => ssl!Inv)
  <1>1. Init => (which = "OpenSSL" => ssl!Inv)
    BY SSLStarts DEF Init
  <1>2. (which = "OpenSSL" => ssl!Inv) /\ [Next]_vars => (which = "OpenSSL" => ssl!Inv)'
    <2> SUFFICES ASSUME which = "OpenSSL", ssl!Inv, [Next]_vars PROVE ssl!Inv'
      BY OneInUse
    <2>1. CASE UNCHANGED vars
      <3>1. /\ key' = key /\ schedule' = schedule /\ sent' = sent /\ back' = back
            /\ text' = text /\ phase' = phase /\ local1' = local1 /\ local2' = local2
            /\ local3' = local3 /\ local4' = local4 /\ local5' = local5
        BY <2>1 DEF vars
      <3>2. /\ ssl!Calls' = ssl!Calls /\ ssl!Holds' = ssl!Holds /\ ssl!Input' = ssl!Input
            /\ ssl!blockSize' = ssl!blockSize /\ ssl!AsInt(ssl!Input)' = ssl!AsInt(ssl!Input)
            /\ ssl!AsInt(text)' = ssl!AsInt(text)
        BY <3>1 DEF ssl!Calls, ssl!Holds, ssl!Input, ssl!blockSize, ssl!AsInt
      <3>3. ssl!LeftBehind <=> ssl!LeftBehind'
        BY <3>1 DEF ssl!LeftBehind
      <3>4. ssl!RoundTrip <=> ssl!RoundTrip'
        BY <3>1 DEF ssl!RoundTrip
      <3> QED BY <3>1, <3>2, <3>3, <3>4, LengthsKept DEF ssl!Inv
    <2>2. CASE UseOpenSSL
      <3>1. ssl!Next
        BY <2>2 DEF UseOpenSSL
      <3> QED BY <3>1, SSLSetKey, SSLBegin, SSLSucceed, SSLReturn, SSLThrow, Zenon DEF ssl!Next
    <2> QED BY <2>1, <2>2, OneInUse
  <1> QED BY <1>1, <1>2, PTL DEF Spec

\* Whatever the key: DES, AES and RSA give back what they were given, and RSA's
\* square-and-multiply loop loses nothing, while twice the modulus fits the word.
THEOREM ModernCiphersGiveBack == Spec => []ModernRoundTrip
  <1>1. des!Inv => des!RoundTrip
    BY DESGivesBack
  <1>2. aes!Inv => aes!RoundTrip
    BY DEF aes!Inv
  <1>3. rsa!Inv => rsa!NothingLost /\ rsa!RoundTrip
    BY RSAGivesBack
  <1>4. /\ which = "DES" => des!Inv
        /\ which = "AES" => aes!Inv
        /\ which = "RSA" => rsa!Inv
        => ModernRoundTrip
    BY <1>1, <1>2, <1>3, Zenon DEF ModernRoundTrip
  <1> QED BY <1>4, DESAlways, AESAlways, RSAAlways, PTL

\* Whatever the key and the block: each round of decryptBlock() of DES and of AES stands
\* where a round of encryptBlock() stood.
THEOREM RoundsAreUndone == Spec => []Mirror
  <1>1. des!Inv => des!Mirror
    BY DESGivesBack
  <1>2. aes!Inv => aes!Mirror
    BY DEF aes!Inv
  <1>3. (which = "DES" => des!Inv) /\ (which = "AES" => aes!Inv) => Mirror
    BY <1>1, <1>2, Zenon DEF Mirror
  <1> QED BY <1>3, DESAlways, AESAlways, PTL

\* Whatever the key and the text: Caesar, Affine and Vigenere give back every character,
\* where the key is one they are meant for; Playfair's square holds each letter once, its
\* pairs are unlike letters that hold the whole text, and deciphered they are the same.
THEOREM ClassicCiphersGiveBack == Spec => []ClassicRoundTrip
  <1>1. subst!Inv => subst!RoundTrip /\ subst!SameShape
    BY LettersGiveBack
  <1>2. playfair!Inv => playfair!MatrixIsAlphabet /\ playfair!WellCut /\ playfair!RoundTrip
    BY PlayGivesBack
  <1>3. (which = "letters" => subst!Inv) /\ (which = "Playfair" => playfair!Inv)
        => ClassicRoundTrip
    BY <1>1, <1>2, Zenon DEF ClassicRoundTrip
  <1> QED BY <1>3, LettersAlways, PlayAlways, PTL

\* Whatever the text, the block size, the keys typed and a block cipher that inverts:
\* padded, enciphered block by block, shown in hex and read again under the same key it is
\* the text; only hex that a user has changed makes the loop read behind its data, and hex
\* cut at a block's end deciphers to a beginning of the text.
THEOREM TextComesBack == Spec => []TextReturns
  <1>1. blocks!Inv => blocks!RoundTrip /\ blocks!OverrunOnlyByEdit /\ blocks!PrefixSurvives
    BY DEF blocks!Inv
  <1>2. (which = "text" => blocks!Inv) => TextReturns
    BY <1>1, Zenon DEF TextReturns
  <1> QED BY <1>2, TextAlways, PTL

\* For any keys, sizes, lengths of text and failures: what the classes around OpenSSL
\* encipher has the length of so much of the text as an int counts and deciphers to it; no
\* call writes past its buffer; and what a throwing call leaves allocated is what
\* LeftBehind lists for the library call that failed, no more and no less.
THEOREM LibraryCallsAccounted == Spec => []LibraryAccounted
  <1>1. ssl!Inv => ssl!RoundTrip /\ ssl!Lengths /\ ssl!FitsBuffer /\ ssl!LeftBehind
    BY SSLFits DEF ssl!Inv
  <1>2. (which = "OpenSSL" => ssl!Inv) => LibraryAccounted
    BY <1>1, Zenon DEF LibraryAccounted
  <1> QED BY <1>2, SSLAlways, PTL


\* The subkeys are those of the last key.
SubkeysOfKey ==
    \/ key = << >>
    \/ key \in DESKeys /\ schedule = des!KeyExpansion(key)

\* No call but setKey() touches the one or the other.
LEMMA SubkeysKept == Spec => [](which = "DES" => SubkeysOfKey)
  <1>1. Init => (which = "DES" => SubkeysOfKey)
    <2>1. des!Init => SubkeysOfKey
      BY DEF des!Init, SubkeysOfKey
    <2> QED BY <2>1 DEF Init
  <1>2. (which = "DES" => SubkeysOfKey) /\ [Next]_vars => (which = "DES" => SubkeysOfKey)'
    <2> SUFFICES ASSUME which = "DES", SubkeysOfKey, [Next]_vars PROVE SubkeysOfKey'
      BY OneInUse
    <2>1. CASE key' = key /\ schedule' = schedule
      <3>1. des!KeyExpansion(key)' = des!KeyExpansion(key)
        BY <2>1 DEF des!KeyExpansion
      <3> QED BY <2>1, <3>1 DEF SubkeysOfKey
    <2>2. ASSUME NEW k \in DESKeys, des!SetKey(k) PROVE SubkeysOfKey'
      <3>1. key' = k /\ schedule' = des!KeyExpansion(k)
        BY <2>2 DEF des!SetKey
      <3>2. des!KeyExpansion(key)' = des!KeyExpansion(k)
        BY <3>1 DEF des!KeyExpansion
      <3> QED BY <3>1, <3>2 DEF SubkeysOfKey
    <2>3. UNCHANGED vars => key' = key /\ schedule' = schedule
      BY DEF vars
    <2>4. UseDES => \/ \E k \in DESKeys : des!SetKey(k)
                    \/ key' = key /\ schedule' = schedule
      BY Zenon DEF UseDES, des!Next, des!EncryptBlock, des!EncryptRound, des!DecryptBlock,
                   des!DecryptRound, des!Return
    <2> QED BY <2>1, <2>2, <2>3, <2>4, OneInUse
  <1> QED BY <1>1, <1>2, PTL DEF Spec

\* Whatever the keys: two that differ in nothing but the low bits of their bytes give DES
\* the same subkeys, so those bits do not count.
THEOREM ParityBitsDoNotCount == Spec => [](which = "DES" => des!ParityIgnored)
  <1>1. SubkeysOfKey => des!ParityIgnored
    <2> SUFFICES ASSUME SubkeysOfKey, NEW k \in DESKeys, Len(k) = 8, Len(key) = 8,
                        \A i \in 1 .. 8 : k[i] \div 2 = key[i] \div 2
                 PROVE  des!KeyExpansion(k) = schedule
      BY Zenon DEF des!ParityIgnored
    <2>1. k \in Seq(0 .. 255)
      BY DESAssumption, Zenon DEF DESAssumption
    <2>2. key # << >>
      OBVIOUS
    <2>3. key \in Seq(0 .. 255) /\ schedule = des!KeyExpansion(key)
      BY <2>2, DESAssumption DEF SubkeysOfKey
    <2> QED BY <2>1, <2>3, OneSchedule
  <1> QED BY <1>1, SubkeysKept, PTL

=============================================================================
