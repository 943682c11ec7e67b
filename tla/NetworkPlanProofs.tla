-------------------------- MODULE NetworkPlanProofs --------------------------
(***************************************************************************)
(* Theorems about NetworkPlan, for every set of cidrs and any number of     *)
(* hosts.                                                                   *)
(***************************************************************************)
EXTENDS NetworkPlan, FiniteSetTheorems, SequenceTheorems, TLAPS

-----------------------------------------------------------------------------
(* Addresses.                                                               *)

IsByte(x) == x \in Int /\ 0 <= x /\ x <= 255
IsHalf(x) == x \in Int /\ 0 <= x /\ x < 65536

\* An address as one number.
Value(ip) == 65536 * Hi(ip) + Lo(ip)

\* What an address is made of.
LEMMA Bytes ==
  ASSUME NEW a \in Address
  PROVE  /\ IsByte(a[1]) /\ IsByte(a[2]) /\ IsByte(a[3]) /\ IsByte(a[4])
         /\ a = [k \in 1 .. 4 |-> a[k]]
  BY DEF Address, Byte, IsByte

\* Four bytes are an address.
LEMMA FourBytes ==
  ASSUME NEW a, a = [k \in 1 .. 4 |-> a[k]],
         IsByte(a[1]), IsByte(a[2]), IsByte(a[3]), IsByte(a[4])
  PROVE  a \in Address
  BY DEF Address, Byte, IsByte

\* The halves have 16 bits.
LEMMA Halves ==
  ASSUME NEW a \in Address
  PROVE  IsHalf(Hi(a)) /\ IsHalf(Lo(a))
  BY Bytes, SMT DEF Hi, Lo, IsByte, IsHalf

\* The two numbers of Minus.
LEMMA MinusParts ==
  ASSUME NEW a, NEW m
  PROVE  /\ Minus(a, m)[1] = (Hi(a) + (Lo(a) - m) \div 65536) % 65536
         /\ Minus(a, m)[2] = (Lo(a) - m) % 65536
  BY SMT DEF Minus

\* An address less nothing.
LEMMA ZeroParts ==
  ASSUME NEW a \in Address
  PROVE  Minus(a, 0)[1] = Hi(a) /\ Minus(a, 0)[2] = Lo(a)
<1>1. IsHalf(Hi(a)) /\ IsHalf(Lo(a))
  BY Halves
<1> QED
  BY <1>1, SMT DEF Minus, IsHalf

\* A number of 16 bits has one pair of bytes.
LEMMA OnePair ==
  ASSUME NEW x, NEW y, NEW z, NEW w,
         IsByte(x), IsByte(y), IsByte(z), IsByte(w),
         256 * x + y = 256 * z + w
  PROVE  x = z /\ y = w
  BY SMT DEF IsByte

\* Two addresses are the same if they are the same number.
LEMMA MinusZero ==
  ASSUME NEW a \in Address, NEW b \in Address, Minus(a, 0) = Minus(b, 0)
  PROVE  a = b
<1>2. Hi(a) = Hi(b) /\ Lo(a) = Lo(b)
  BY ZeroParts
<1>3. /\ IsByte(a[1]) /\ IsByte(a[2]) /\ IsByte(a[3]) /\ IsByte(a[4])
      /\ IsByte(b[1]) /\ IsByte(b[2]) /\ IsByte(b[3]) /\ IsByte(b[4])
  BY Bytes
<1>4. a[1] = b[1] /\ a[2] = b[2] /\ a[3] = b[3] /\ a[4] = b[4]
  BY <1>2, <1>3, OnePair, SMT DEF Hi, Lo
<1>5. \A k \in 1 .. 4 : a[k] = b[k]
  BY <1>4, SMT
<1>6. a = [k \in 1 .. 4 |-> a[k]] /\ b = [k \in 1 .. 4 |-> b[k]]
  BY Bytes
<1> QED
  BY <1>5, <1>6

\* Taking one off both sides.
LEMMA MinusStep ==
  ASSUME NEW a \in Address, NEW b \in Address, NEW m \in Nat,
         Minus(a, 0) = Minus(b, m)
  PROVE  Minus(a, 1) = Minus(b, m + 1)
<1>1. IsHalf(Hi(a)) /\ IsHalf(Lo(a)) /\ IsHalf(Hi(b)) /\ IsHalf(Lo(b))
  BY Halves
<1>2. /\ Hi(a) = (Hi(b) + (Lo(b) - m) \div 65536) % 65536
      /\ Lo(a) = (Lo(b) - m) % 65536
  BY ZeroParts, MinusParts, SMT
<1>3. (Lo(a) - 1) % 65536 = (Lo(b) - (m + 1)) % 65536
  BY <1>1, <1>2, SMT DEF IsHalf
<1>4. (Hi(a) + (Lo(a) - 1) \div 65536) % 65536
        = (Hi(b) + (Lo(b) - (m + 1)) \div 65536) % 65536
  BY <1>1, <1>2, SMT DEF IsHalf
<1> QED
  BY <1>3, <1>4, SMT DEF Minus

\* An address that does not go below zero is the number less m.
LEMMA MinusValue ==
  ASSUME NEW a \in Address, NEW b \in Address, NEW m \in Nat,
         Minus(a, 0) = Minus(b, m), m <= Value(b)
  PROVE  Value(a) = Value(b) - m
<1>1. IsHalf(Hi(a)) /\ IsHalf(Lo(a)) /\ IsHalf(Hi(b)) /\ IsHalf(Lo(b))
  BY Halves
<1>2. /\ Hi(a) = (Hi(b) + (Lo(b) - m) \div 65536) % 65536
      /\ Lo(a) = (Lo(b) - m) % 65536
  BY ZeroParts, MinusParts, SMT
<1> QED
  BY <1>1, <1>2, SMT DEF Value, IsHalf

\* The one with the smaller number comes first.
LEMMA BelowIs ==
  ASSUME NEW a \in Address, NEW b \in Address, Value(a) < Value(b)
  PROVE  Below(a, b)
<1>1. /\ IsByte(a[1]) /\ IsByte(a[2]) /\ IsByte(a[3]) /\ IsByte(a[4])
      /\ IsByte(b[1]) /\ IsByte(b[2]) /\ IsByte(b[3]) /\ IsByte(b[4])
  BY Bytes
<1>2. \/ a[1] < b[1]
      \/ a[1] = b[1] /\ a[2] < b[2]
      \/ a[1] = b[1] /\ a[2] = b[2] /\ a[3] < b[3]
      \/ a[1] = b[1] /\ a[2] = b[2] /\ a[3] = b[3] /\ a[4] < b[4]
  <2>1. \/ Hi(a) < Hi(b)
        \/ Hi(a) = Hi(b) /\ Lo(a) < Lo(b)
    <3>1. IsHalf(Hi(a)) /\ IsHalf(Lo(a)) /\ IsHalf(Hi(b)) /\ IsHalf(Lo(b))
      BY Halves
    <3> QED
      BY <3>1, SMT DEF Value, IsHalf
  <2>2. Hi(a) < Hi(b) => a[1] < b[1] \/ (a[1] = b[1] /\ a[2] < b[2])
    BY <1>1, SMT DEF Hi, IsByte
  <2>3. Lo(a) < Lo(b) => a[3] < b[3] \/ (a[3] = b[3] /\ a[4] < b[4])
    BY <1>1, SMT DEF Lo, IsByte
  <2>4. Hi(a) = Hi(b) => a[1] = b[1] /\ a[2] = b[2]
    BY <1>1, OnePair DEF Hi
  <2> QED
    BY <2>1, <2>2, <2>3, <2>4
<1>3. CASE a[1] < b[1]
  BY <1>3, SMT DEF Below
<1>4. CASE a[1] = b[1] /\ a[2] < b[2]
  BY <1>4, SMT DEF Below
<1>5. CASE a[1] = b[1] /\ a[2] = b[2] /\ a[3] < b[3]
  BY <1>5, SMT DEF Below
<1>6. CASE a[1] = b[1] /\ a[2] = b[2] /\ a[3] = b[3] /\ a[4] < b[4]
  BY <1>6, SMT DEF Below
<1> QED
  BY <1>2, <1>3, <1>4, <1>5, <1>6

-----------------------------------------------------------------------------
(* IPDecr.                                                                  *)

\* The largest element.
LEMMA MaxIs ==
  ASSUME NEW S, S \subseteq Int, NEW x \in S, \A y \in S : x >= y
  PROVE  Max(S) = x
<1>1. PICK z \in S : Max(S) = z /\ \A y \in S : z >= y
  BY DEF Max
<1> QED
  BY <1>1, SMT

\* The smallest element.
LEMMA MinIs ==
  ASSUME NEW S, S \subseteq Int, NEW x \in S, \A y \in S : x <= y
  PROVE  Min(S) = x
<1>1. PICK z \in S : Min(S) = z /\ \A y \in S : z <= y
  BY DEF Min
<1> QED
  BY <1>1, SMT

\* IPDecr takes one off, with borrow, and the zero address becomes the last.
LEMMA DecrIs ==
  ASSUME NEW ip \in Address
  PROVE  IPDecr(ip) \in Address /\ Minus(IPDecr(ip), 0) = Minus(ip, 1)
<1> DEFINE S == {0} \cup {k \in 1 .. 4 : ip[k] # 0}
           last == Max(S)
           d == IPDecr(ip)
<1>1. IsByte(ip[1]) /\ IsByte(ip[2]) /\ IsByte(ip[3]) /\ IsByte(ip[4])
  BY Bytes
<1>2. ASSUME NEW x \in S, \A y \in S : x >= y PROVE last = x
  <2>1. S \subseteq Int
    OBVIOUS
  <2> HIDE DEF S
  <2> QED
    BY <1>2, <2>1, MaxIs
<1>3. \/ last = 4 /\ ip[4] # 0
      \/ last = 3 /\ ip[4] = 0 /\ ip[3] # 0
      \/ last = 2 /\ ip[4] = 0 /\ ip[3] = 0 /\ ip[2] # 0
      \/ last = 1 /\ ip[4] = 0 /\ ip[3] = 0 /\ ip[2] = 0 /\ ip[1] # 0
      \/ last = 0 /\ ip[4] = 0 /\ ip[3] = 0 /\ ip[2] = 0 /\ ip[1] = 0
  <2> HIDE DEF last
  <2>1. CASE ip[4] # 0
    BY <1>2, <2>1
  <2>2. CASE ip[4] = 0 /\ ip[3] # 0
    BY <1>2, <2>2
  <2>3. CASE ip[4] = 0 /\ ip[3] = 0 /\ ip[2] # 0
    BY <1>2, <2>3
  <2>4. CASE ip[4] = 0 /\ ip[3] = 0 /\ ip[2] = 0 /\ ip[1] # 0
    BY <1>2, <2>4
  <2>5. CASE ip[4] = 0 /\ ip[3] = 0 /\ ip[2] = 0 /\ ip[1] = 0
    BY <1>2, <2>5
  <2> QED
    BY <2>1, <2>2, <2>3, <2>4, <2>5
<1>4. d = [k \in 1 .. 4 |-> IF k < last THEN ip[k]
                            ELSE IF k = last THEN ip[k] - 1 ELSE 255]
  BY DEF IPDecr
<1> HIDE DEF last, d, S
<1>5. /\ d[1] = IF 1 < last THEN ip[1] ELSE IF 1 = last THEN ip[1] - 1 ELSE 255
      /\ d[2] = IF 2 < last THEN ip[2] ELSE IF 2 = last THEN ip[2] - 1 ELSE 255
      /\ d[3] = IF 3 < last THEN ip[3] ELSE IF 3 = last THEN ip[3] - 1 ELSE 255
      /\ d[4] = IF 4 < last THEN ip[4] ELSE IF 4 = last THEN ip[4] - 1 ELSE 255
      /\ d = [k \in 1 .. 4 |-> d[k]]
  BY <1>4
<1>6. IsByte(d[1]) /\ IsByte(d[2]) /\ IsByte(d[3]) /\ IsByte(d[4])
  BY <1>1, <1>3, <1>5, SMT DEF IsByte
<1>7. d \in Address
  BY <1>5, <1>6, FourBytes
<1>8. \/ Lo(ip) > 0 /\ Lo(d) = Lo(ip) - 1 /\ Hi(d) = Hi(ip)
      \/ Lo(ip) = 0 /\ Lo(d) = 65535 /\ Hi(ip) > 0 /\ Hi(d) = Hi(ip) - 1
      \/ Lo(ip) = 0 /\ Lo(d) = 65535 /\ Hi(ip) = 0 /\ Hi(d) = 65535
  <2>1. CASE last = 4 /\ ip[4] # 0
    <3>1. d[1] = ip[1] /\ d[2] = ip[2] /\ d[3] = ip[3] /\ d[4] = ip[4] - 1
      BY <1>1, <1>5, <2>1, SMT
    <3>2. ip[4] > 0
      BY <1>1, <2>1, SMT DEF IsByte
    <3>3. Hi(d) = Hi(ip)
      BY <3>1 DEF Hi
    <3>4. Lo(d) = Lo(ip) - 1 /\ Lo(ip) > 0
      BY <1>1, <3>1, <3>2, SMT DEF Lo, IsByte
    <3> QED
      BY <3>3, <3>4
  <2>2. CASE last = 3 /\ ip[4] = 0 /\ ip[3] # 0
    BY <1>1, <1>5, <2>2, SMT DEF Hi, Lo, IsByte
  <2>3. CASE last = 2 /\ ip[4] = 0 /\ ip[3] = 0 /\ ip[2] # 0
    BY <1>1, <1>5, <2>3, SMT DEF Hi, Lo, IsByte
  <2>4. CASE last = 1 /\ ip[4] = 0 /\ ip[3] = 0 /\ ip[2] = 0 /\ ip[1] # 0
    BY <1>1, <1>5, <2>4, SMT DEF Hi, Lo, IsByte
  <2>5. CASE last = 0 /\ ip[4] = 0 /\ ip[3] = 0 /\ ip[2] = 0 /\ ip[1] = 0
    BY <1>1, <1>5, <2>5, SMT DEF Hi, Lo, IsByte
  <2> QED
    BY <1>3, <2>1, <2>2, <2>3, <2>4, <2>5
<1>9. IsHalf(Hi(ip)) /\ IsHalf(Lo(ip))
  BY Halves
<1>10. Minus(d, 0) = Minus(ip, 1)
  BY <1>8, <1>9, SMT DEF Minus, IsHalf
<1> QED
  BY <1>7, <1>10 DEF d

-----------------------------------------------------------------------------
(* The range of a cidr.                                                     *)

\* The powers of two that a byte holds.
Powers == {1, 2, 4, 8, 16, 32, 64, 128, 256}

\* They are what HostBits takes.
LEMMA PowersAre ==
  ASSUME NEW e \in 0 .. 8
  PROVE  2 ^ e \in Powers
<1>0. CASE e = 0
  BY <1>0, SMT DEF Powers
<1>1. CASE e = 1
  BY <1>1, SMT DEF Powers
<1>2. CASE e = 2
  BY <1>2, SMT DEF Powers
<1>3. CASE e = 3
  BY <1>3, SMT DEF Powers
<1>4. CASE e = 4
  BY <1>4, SMT DEF Powers
<1>5. CASE e = 5
  BY <1>5, SMT DEF Powers
<1>6. CASE e = 6
  BY <1>6, SMT DEF Powers
<1>7. CASE e = 7
  BY <1>7, SMT DEF Powers
<1>8. CASE e = 8
  BY <1>8, SMT DEF Powers
<1> QED
  BY <1>0, <1>1, <1>2, <1>3, <1>4, <1>5, <1>6, <1>7, <1>8

\* The bits of a byte: none before the prefix ends, all 8 behind that.
LEMMA BitsAre ==
  ASSUME NEW c, c.prefix \in 0 .. 32, NEW k \in 1 .. 4
  PROVE  /\ HostBits(c, k) \in Powers
         /\ 8 * k <= c.prefix => HostBits(c, k) = 1
         /\ 8 * k - 8 >= c.prefix => HostBits(c, k) = 256
<1> DEFINE x == 8 * k - c.prefix
           y == IF x < 8 THEN x ELSE 8
           e == IF y > 0 THEN y ELSE 0
<1>1. x \in Int
  OBVIOUS
<1>2. HostBits(c, k) = 2 ^ Max({0, Min({8, x})})
  BY DEF HostBits
<1> HIDE DEF x
<1>3. y \in Int /\ y \in {8, x} /\ \A z \in {8, x} : y <= z
  BY <1>1, SMT
<1>4. Min({8, x}) = y
  BY <1>1, <1>3, MinIs
<1> HIDE DEF y
<1>5. e \in {0, y} /\ \A z \in {0, y} : e >= z
  BY <1>3, SMT
<1>6. Max({0, y}) = e
  BY <1>3, <1>5, MaxIs
<1>7. HostBits(c, k) = 2 ^ e
  BY <1>2, <1>4, <1>6
<1>8. /\ e \in 0 .. 8
      /\ x <= 0 => e = 0
      /\ x >= 8 => e = 8
  BY <1>1, SMT DEF y
<1>9. 2 ^ 0 = 1 /\ 2 ^ 8 = 256
  BY SMT
<1>10. (8 * k <= c.prefix => x <= 0) /\ (8 * k - 8 >= c.prefix => x >= 8)
  BY SMT DEF x
<1> HIDE DEF e
<1> QED
  BY <1>7, <1>8, <1>9, <1>10, PowersAre

\* A byte of the range's ends.
LEMMA EndByte ==
  ASSUME NEW x, IsByte(x), NEW h \in Powers
  PROVE  /\ h \in Int /\ 1 <= h /\ h <= 256
         /\ IsByte(x - (x % h)) /\ IsByte(x - (x % h) + h - 1)
  BY SMT DEF IsByte, Powers

\* The range begins and ends with an address, and the ends are the room and
\* one apart.
LEMMA RangeIs ==
  ASSUME NEW c \in Cidrs
  PROVE  /\ NetworkAddress(c) \in Address /\ EndIp(c) \in Address
         /\ Room(c) \in Int
         /\ Value(EndIp(c)) - Value(NetworkAddress(c)) = Room(c) + 1
<1> DEFINE n == NetworkAddress(c)
           e == EndIp(c)
           h(k) == HostBits(c, k)
<1>1. c.ip \in Address /\ c.prefix \in 0 .. 32
  BY NetworkAssumption
<1>2. /\ IsByte(c.ip[1]) /\ IsByte(c.ip[2])
      /\ IsByte(c.ip[3]) /\ IsByte(c.ip[4])
  BY <1>1, Bytes
<1>3. h(1) \in Powers /\ h(2) \in Powers /\ h(3) \in Powers /\ h(4) \in Powers
  BY <1>1, BitsAre
<1>4. n = [k \in 1 .. 4 |-> c.ip[k] - (c.ip[k] % h(k))]
  BY DEF NetworkAddress
<1>5. e = [k \in 1 .. 4 |-> n[k] + h(k) - 1]
  BY DEF EndIp
<1>6. Room(c) = h(1) * h(2) * h(3) * h(4) - 2
  BY DEF Room
<1>7. \/ h(2) = 256 /\ h(3) = 256 /\ h(4) = 256
      \/ h(1) = 1 /\ h(3) = 256 /\ h(4) = 256
      \/ h(1) = 1 /\ h(2) = 1 /\ h(4) = 256
      \/ h(1) = 1 /\ h(2) = 1 /\ h(3) = 1
  <2>1. /\ 8 <= c.prefix => h(1) = 1
        /\ 16 <= c.prefix => h(2) = 1
        /\ 24 <= c.prefix => h(3) = 1
        /\ 8 >= c.prefix => h(2) = 256
        /\ 16 >= c.prefix => h(3) = 256
        /\ 24 >= c.prefix => h(4) = 256
    BY <1>1, BitsAre
  <2> HIDE DEF h
  <2> QED
    BY <1>1, <2>1, SMT
<1> HIDE DEF n, e, h
<1>8. /\ n[1] = c.ip[1] - (c.ip[1] % h(1)) /\ n[2] = c.ip[2] - (c.ip[2] % h(2))
      /\ n[3] = c.ip[3] - (c.ip[3] % h(3)) /\ n[4] = c.ip[4] - (c.ip[4] % h(4))
      /\ n = [k \in 1 .. 4 |-> n[k]]
  BY <1>4
<1>9. /\ e[1] = n[1] + h(1) - 1 /\ e[2] = n[2] + h(2) - 1
      /\ e[3] = n[3] + h(3) - 1 /\ e[4] = n[4] + h(4) - 1
      /\ e = [k \in 1 .. 4 |-> e[k]]
  BY <1>5
<1>10. /\ IsByte(n[1]) /\ IsByte(n[2]) /\ IsByte(n[3]) /\ IsByte(n[4])
       /\ IsByte(e[1]) /\ IsByte(e[2]) /\ IsByte(e[3]) /\ IsByte(e[4])
  BY <1>2, <1>3, <1>8, <1>9, EndByte
<1>11. n \in Address /\ e \in Address
  BY <1>8, <1>9, <1>10, FourBytes
<1>12. h(1) \in Int /\ h(2) \in Int /\ h(3) \in Int /\ h(4) \in Int
  BY <1>2, <1>3, EndByte
<1>13. Value(e) - Value(n) = h(1) * h(2) * h(3) * h(4) - 2 + 1
  <2>1. /\ n[1] \in Int /\ n[2] \in Int /\ n[3] \in Int /\ n[4] \in Int
        /\ e[1] \in Int /\ e[2] \in Int /\ e[3] \in Int /\ e[4] \in Int
    BY <1>10 DEF IsByte
  \* all bytes before the one in which the prefix ends are the same, and all
  \* behind it are 0 and 255
  <2>2. (65536 * (256 * e[1] + e[2]) + (256 * e[3] + e[4]))
          - (65536 * (256 * n[1] + n[2]) + (256 * n[3] + n[4]))
          = h(1) * h(2) * h(3) * h(4) - 2 + 1
    <3>1. /\ e[1] = n[1] + h(1) - 1 /\ e[2] = n[2] + h(2) - 1
          /\ e[3] = n[3] + h(3) - 1 /\ e[4] = n[4] + h(4) - 1
      BY <1>9
    <3>2. PICK h1 \in Int, h2 \in Int, h3 \in Int, h4 \in Int :
            h(1) = h1 /\ h(2) = h2 /\ h(3) = h3 /\ h(4) = h4
      BY <1>12
    <3>3. PICK n1 \in Int, n2 \in Int, n3 \in Int, n4 \in Int :
            n[1] = n1 /\ n[2] = n2 /\ n[3] = n3 /\ n[4] = n4
      BY <2>1
    <3>4. PICK e1 \in Int, e2 \in Int, e3 \in Int, e4 \in Int :
            e[1] = e1 /\ e[2] = e2 /\ e[3] = e3 /\ e[4] = e4
      BY <2>1
    <3>5. CASE h(2) = 256 /\ h(3) = 256 /\ h(4) = 256
      <4>1. /\ e1 = n1 + h1 - 1 /\ e2 = n2 + 255
            /\ e3 = n3 + 255 /\ e4 = n4 + 255
            /\ h(1) * h(2) * h(3) * h(4) = 16777216 * h1
        BY <3>1, <3>2, <3>3, <3>4, <3>5, SMT
      <4> QED
        BY <3>3, <3>4, <4>1, SMT
    <3>6. CASE h(1) = 1 /\ h(3) = 256 /\ h(4) = 256
      <4>1. /\ e1 = n1 + 0 /\ e2 = n2 + h2 - 1
            /\ e3 = n3 + 255 /\ e4 = n4 + 255
            /\ h(1) * h(2) * h(3) * h(4) = 65536 * h2
        BY <3>1, <3>2, <3>3, <3>4, <3>6, SMT
      <4> QED
        BY <3>3, <3>4, <4>1, SMT
    <3>7. CASE h(1) = 1 /\ h(2) = 1 /\ h(4) = 256
      <4>1. /\ e1 = n1 + 0 /\ e2 = n2 + 0
            /\ e3 = n3 + h3 - 1 /\ e4 = n4 + 255
            /\ h(1) * h(2) * h(3) * h(4) = 256 * h3
        BY <3>1, <3>2, <3>3, <3>4, <3>7, SMT
      <4> QED
        BY <3>3, <3>4, <4>1, SMT
    <3>8. CASE h(1) = 1 /\ h(2) = 1 /\ h(3) = 1
      <4>1. /\ e1 = n1 + 0 /\ e2 = n2 + 0
            /\ e3 = n3 + 0 /\ e4 = n4 + h4 - 1
            /\ h(1) * h(2) * h(3) * h(4) = h4
        BY <3>1, <3>2, <3>3, <3>4, <3>8, SMT
      <4> QED
        BY <3>3, <3>4, <4>1, SMT
    <3> QED
      BY <1>7, <3>5, <3>6, <3>7, <3>8
  <2> QED
    BY <2>2, SMT DEF Value, Hi, Lo
<1>14. h(1) * h(2) * h(3) * h(4) - 2 \in Int
  BY <1>12, SMT
<1> QED
  BY <1>6, <1>11, <1>13, <1>14 DEF n, e

-----------------------------------------------------------------------------
(* Ranks.                                                                   *)

\* In a finite set of numbers every element has a rank of its own, between 1
\* and the size of the set.
LEMMA Ranks ==
  ASSUME NEW S, S \subseteq Int, IsFiniteSet(S), NEW h \in S
  PROVE  LET R(x) == Cardinality({y \in S : y <= x}) IN
         /\ R(h) \in Nat /\ 1 <= R(h) /\ R(h) <= Cardinality(S)
         /\ \A g \in S : R(g) = R(h) => g = h
<1> DEFINE U(x) == {y \in S : y <= x}
<1>1. ASSUME NEW x \in S
      PROVE  /\ U(x) \in SUBSET S /\ x \in U(x) /\ IsFiniteSet(U(x))
             /\ Cardinality(U(x)) \in Nat /\ Cardinality(U(x)) <= Cardinality(S)
             /\ Cardinality(U(x)) # 0
  <2>1. U(x) \in SUBSET S /\ x \in U(x)
    BY SMT
  <2> HIDE DEF U
  <2> QED
    BY <2>1, FS_Subset, FS_CardinalityType, FS_EmptySet
<1>2. ASSUME NEW x \in S, NEW z \in S, x < z
      PROVE  Cardinality(U(x)) # Cardinality(U(z))
  <2>1. x \in Int /\ z \in Int /\ z \notin U(x) /\ z \in U(z)
    BY <1>2, SMT
  <2>2. ASSUME NEW y \in U(x) PROVE y \in U(z)
    BY <1>2, <2>1, <2>2, SMT
  <2> HIDE DEF U
  <2> QED
    BY <1>1, <2>1, <2>2, FS_Subset
<1>3. ASSUME NEW g \in S, Cardinality(U(g)) = Cardinality(U(h)) PROVE g = h
  <2> HIDE DEF U
  <2>1. ~(g < h) /\ ~(h < g)
    BY <1>2, <1>3
  <2> QED
    BY <2>1, SMT
<1>4. Cardinality(U(h)) \in Nat /\ 1 <= Cardinality(U(h))
  <2> HIDE DEF U
  <2> QED
    BY <1>1, SMT
<1> QED
  BY <1>1, <1>3, <1>4

\* A larger element gets the next rank, and changes nobody else's.
LEMMA NextRank ==
  ASSUME NEW S, S \subseteq Int, IsFiniteSet(S),
         NEW n \in Int, \A y \in S : y < n
  PROVE  LET T == S \cup {n} IN
         /\ Cardinality(T) = Cardinality(S) + 1
         /\ Cardinality({y \in T : y <= n}) = Cardinality(T)
         /\ \A h \in S : {y \in T : y <= h} = {y \in S : y <= h}
<1>1. n \notin S
  OBVIOUS
<1>2. Cardinality(S \cup {n}) = Cardinality(S) + 1
  BY <1>1, FS_AddElement
<1>3. {y \in S \cup {n} : y <= n} = S \cup {n}
  <2>1. \A y \in S \cup {n} : y <= n
    OBVIOUS
  <2> QED
    BY <2>1, Zenon
<1>4. \A h \in S : {y \in S \cup {n} : y <= h} = {y \in S : y <= h}
  BY SMT
<1> QED
  BY <1>2, <1>3, <1>4

-----------------------------------------------------------------------------
(* The inductive invariant.                                                 *)

\* The one slice there is holds the end of the range less as many as there
\* are automatic hosts so far.
SliceInv ==
  /\ autoIp = 1
  /\ bytes \in Seq(Address) /\ Len(bytes) = 1
  /\ Minus(bytes[1], 0) = Minus(EndIp(user.cidr), Cardinality(Autos))

NetInv ==
  /\ user \in [cidr : Cidrs, hosts : HostLists(Static)]
  /\ hosts \in Seq(Address)
  /\ Len(hosts) <= Len(user.hosts)
  /\ pc \in {"parse", "error", "hosts", "shared", "done", "panic"}
  /\ pc \in {"parse", "error"} => hosts = << >>
  /\ pc \notin {"parse", "error"} => SliceInv
  /\ AutosCountDown
  /\ pc \in {"shared", "done", "panic"} => Len(hosts) = Len(user.hosts)
  /\ pc = "done" => dns = DnsHosts

\* The hosts of a config.
LEMMA HostsAre ==
  ASSUME user \in [cidr : Cidrs, hosts : HostLists(Static)]
  PROVE  /\ user.cidr \in Cidrs
         /\ user.hosts \in Seq({AutoText, Static}) /\ Len(user.hosts) \in Nat
<1>1. user.cidr \in Cidrs /\ user.hosts \in HostLists(Static)
  OBVIOUS
<1>2. PICK n \in 0 .. MaxHosts : user.hosts \in [1 .. n -> {AutoText, Static}]
  BY <1>1 DEF HostLists
<1>3. n \in Nat
  BY NetworkAssumption
<1>4. user.hosts \in Seq({AutoText, Static})
  <2> HIDE DEF AutoText, Static
  <2>1. [1 .. n -> {AutoText, Static}]
          \in {[1 .. m -> {AutoText, Static}] : m \in Nat}
    BY <1>3
  <2> QED
    BY <1>2, <2>1, SeqDef, Zenon
<1> QED
  BY <1>1, <1>4, LenProperties

\* The static address is one.
LEMMA StaticIs == Static \in Address
<1>1. <<192, 168, 1, 1>> \in [1 .. 4 -> 0 .. 255]
  OBVIOUS
<1> QED
  BY <1>1, Zenon DEF Static, Address, Byte

\* The automatic hosts are finitely many numbers.
LEMMA AutosAre ==
  ASSUME hosts \in Seq(Address)
  PROVE  /\ Autos \subseteq Int /\ IsFiniteSet(Autos)
         /\ \A y \in Autos : y \in 1 .. Len(hosts)
         /\ Cardinality(Autos) \in Nat
<1>1. Autos \in SUBSET (1 .. Len(hosts)) /\ Len(hosts) \in Int
  BY DEF Autos
<1>2. IsFiniteSet(1 .. Len(hosts))
  BY <1>1, FS_Interval
<1>3. IsFiniteSet(Autos)
  BY <1>1, <1>2, FS_Subset
<1> QED
  BY <1>1, <1>3, FS_CardinalityType

\* Before the first host there is no automatic one.
LEMMA NoAutos ==
  ASSUME hosts = << >>
  PROVE  Autos = {} /\ Cardinality(Autos) = 0 /\ AutosCountDown
<1>1. Autos = {}
  BY DEF Autos
<1> QED
  BY <1>1, FS_EmptySet DEF AutosCountDown

\* It holds of the first state.
LEMMA InitNet == Init => NetInv
<1> SUFFICES ASSUME Init PROVE NetInv
  OBVIOUS
<1>1. hosts = << >> /\ pc = "parse"
      /\ user \in [cidr : Cidrs, hosts : HostLists(Static)]
  BY DEF Init
<1>2. AutosCountDown
  BY <1>1, NoAutos
<1>3. Len(user.hosts) \in Nat
  BY <1>1, HostsAre
<1> QED
  BY <1>1, <1>2, <1>3 DEF NetInv

\* Parse makes the slice.
LEMMA ParseNet == NetInv /\ Parse => NetInv'
<1> SUFFICES ASSUME NetInv, Parse PROVE NetInv'
  OBVIOUS
<1>1. /\ pc = "parse" /\ pc' = "hosts" /\ user' = user /\ hosts' = hosts
      /\ hosts = << >> /\ autoIp' = 1 /\ bytes' = <<EndIp(user.cidr)>>
      /\ user \in [cidr : Cidrs, hosts : HostLists(Static)]
  BY DEF NetInv, Parse, Goto, StartIp
<1>2. Autos' = {} /\ Cardinality(Autos') = 0 /\ AutosCountDown'
  <2>1. Autos' = {}
    BY <1>1 DEF Autos
  <2> QED
    BY <2>1, FS_EmptySet DEF AutosCountDown
<1>3. EndIp(user.cidr) \in Address
  BY <1>1, HostsAre, RangeIs
<1>4. SliceInv'
  BY <1>1, <1>2, <1>3 DEF SliceInv
<1> QED
  BY <1>1, <1>2, <1>4 DEF NetInv

\* A step that leaves the hosts alone keeps the automatic ones.
LEMMA SameHosts ==
  ASSUME UNCHANGED <<user, bytes, autoIp, hosts>>
  PROVE  /\ SliceInv => SliceInv'
         /\ AutosCountDown => AutosCountDown'
  BY DEF SliceInv, AutosCountDown, Autos, Rank

\* The end of the loop, and what SetupShared does.
LEMMA RestNet ==
  NetInv /\ (ParseError \/ EndHosts \/ SetupShared \/ SetupSharedPanic)
    => NetInv'
<1> SUFFICES ASSUME NetInv,
                    ParseError \/ EndHosts \/ SetupShared \/ SetupSharedPanic
             PROVE  NetInv'
  OBVIOUS
<1>1. UNCHANGED <<user, bytes, autoIp, hosts>>
  BY DEF ParseError, EndHosts, SetupShared, SetupSharedPanic
<1>2. (SliceInv => SliceInv') /\ AutosCountDown'
  BY <1>1, SameHosts DEF NetInv
<1>3. DnsHosts' = DnsHosts
  BY <1>1 DEF DnsHosts
<1>4. CASE ParseError
  BY <1>1, <1>2, <1>4 DEF NetInv, ParseError, Goto
<1>5. CASE EndHosts
  BY <1>1, <1>2, <1>5 DEF NetInv, EndHosts, Goto
<1>6. CASE SetupShared
  BY <1>1, <1>2, <1>3, <1>6 DEF NetInv, SetupShared, Goto
<1>7. CASE SetupSharedPanic
  BY <1>1, <1>2, <1>7 DEF NetInv, SetupSharedPanic, Goto
<1> QED
  BY <1>4, <1>5, <1>6, <1>7

\* A host that has an address leaves the automatic ones as they are.
LEMMA StaticNet == NetInv /\ StaticHost => NetInv'
<1> SUFFICES ASSUME NetInv, StaticHost PROVE NetInv'
  OBVIOUS
<1> DEFINE n == Len(hosts) + 1
<1>1. /\ pc = "hosts" /\ pc' = "hosts" /\ user' = user
      /\ bytes' = bytes /\ autoIp' = autoIp
      /\ Len(hosts) < Len(user.hosts) /\ user.hosts[n] # AutoText
      /\ hosts' = Append(hosts, user.hosts[n])
      /\ user \in [cidr : Cidrs, hosts : HostLists(Static)]
      /\ hosts \in Seq(Address) /\ SliceInv /\ AutosCountDown
  BY DEF NetInv, StaticHost, Goto
<1>2. user.hosts \in Seq({AutoText, Static}) /\ Len(user.hosts) \in Nat
  BY <1>1, HostsAre
<1>3. user.hosts[n] \in Address
  <2>1. n \in 1 .. Len(user.hosts)
    BY <1>1, <1>2
  <2>2. user.hosts[n] \in {AutoText, Static}
    BY <1>2, <2>1, ElementOfSeq
  <2> QED
    BY <1>1, <2>2, StaticIs
<1>4. /\ hosts' \in Seq(Address) /\ Len(hosts') = n
      /\ \A h \in 1 .. Len(hosts) : hosts'[h] = hosts[h]
      /\ DOMAIN hosts = 1 .. Len(hosts) /\ DOMAIN hosts' = 1 .. n
  BY <1>1, <1>3
<1>5. Autos' = Autos
  BY <1>1, <1>4 DEF Autos
<1>6. AutosCountDown'
  <2> SUFFICES ASSUME NEW h \in Autos
               PROVE  Minus(hosts'[h], 0) = Minus(EndIp(user.cidr), Rank(h)')
    BY <1>1, <1>5 DEF AutosCountDown
  <2>1. Rank(h)' = Rank(h)
    BY <1>5 DEF Rank
  <2>2. hosts'[h] = hosts[h]
    BY <1>1, <1>4, AutosAre
  <2> QED
    BY <1>1, <2>1, <2>2 DEF AutosCountDown
<1>7. SliceInv'
  BY <1>1, <1>5 DEF SliceInv
<1>8. Len(hosts') <= Len(user.hosts)
  BY <1>1, <1>2, <1>4
<1> QED
  BY <1>1, <1>4, <1>6, <1>7, <1>8 DEF NetInv

\* An automatic host gets the next rank and, because thisIp and autoIp are
\* one slice, the address that the next one starts from.
LEMMA AutoNet == NetInv /\ AutoHost => NetInv'
<1> SUFFICES ASSUME NetInv, AutoHost PROVE NetInv'
  OBVIOUS
<1>0. PICK n : n = Len(hosts) + 1
  OBVIOUS
<1> DEFINE b == bytes[1]
           d == IPDecr(b)
           e == EndIp(user.cidr)
<1>1. /\ pc = "hosts" /\ pc' = "hosts" /\ user' = user /\ autoIp = 1
      /\ Len(hosts) < Len(user.hosts) /\ user.hosts[n] = AutoText
      /\ user \in [cidr : Cidrs, hosts : HostLists(Static)]
      /\ hosts \in Seq(Address) /\ AutosCountDown
      /\ bytes \in Seq(Address) /\ Len(bytes) = 1
      /\ Minus(b, 0) = Minus(e, Cardinality(Autos))
  BY <1>0 DEF NetInv, AutoHost, Goto, SliceInv
<1>2. /\ bytes' = [bytes EXCEPT ![1] = d] /\ autoIp' = 1
      /\ hosts' = Append(hosts, bytes'[1])
  BY <1>1 DEF AutoHost, ShareOf
<1>3. b \in Address /\ d \in Address /\ e \in Address
  <2>1. bytes \in Seq(Address) /\ 1 \in 1 .. Len(bytes)
    BY <1>1
  <2>2. e \in Address
    BY <1>1, HostsAre, RangeIs
  <2> QED
    BY <2>1, <2>2, DecrIs, ElementOfSeq
<1>4. bytes' \in Seq(Address) /\ Len(bytes') = 1 /\ bytes'[1] = d
  <2>1. bytes \in Seq(Address) /\ Len(bytes) = 1 /\ d \in Address
    BY <1>1, <1>3
  <2> HIDE DEF d
  <2> QED
    BY <1>2, <2>1
<1>5. /\ Autos \subseteq Int /\ IsFiniteSet(Autos)
      /\ \A y \in Autos : y \in 1 .. Len(hosts)
      /\ Cardinality(Autos) \in Nat
  BY <1>1, AutosAre
<1>6. Minus(d, 0) = Minus(e, Cardinality(Autos) + 1)
  BY <1>1, <1>3, <1>5, DecrIs, MinusStep
<1> HIDE DEF b, d, e
<1>7. /\ hosts' \in Seq(Address) /\ Len(hosts') = n /\ n \in Int
      /\ \A h \in 1 .. Len(hosts) : hosts'[h] = hosts[h]
      /\ hosts'[n] = d
      /\ DOMAIN hosts = 1 .. Len(hosts) /\ DOMAIN hosts' = 1 .. n
  BY <1>0, <1>1, <1>2, <1>3, <1>4
<1>8. Autos' = Autos \cup {n}
  BY <1>0, <1>1, <1>7 DEF Autos
<1>9. \A y \in Autos : y < n
  BY <1>0, <1>1, <1>5
<1>10. /\ Cardinality(Autos') = Cardinality(Autos) + 1
       /\ Rank(n)' = Cardinality(Autos')
       /\ \A h \in Autos : Rank(h)' = Rank(h)
  <2>1. Cardinality(Autos \cup {n}) = Cardinality(Autos) + 1
    BY <1>5, <1>7, <1>9, NextRank
  <2>2. Cardinality({y \in Autos \cup {n} : y <= n}) = Cardinality(Autos \cup {n})
    BY <1>5, <1>7, <1>9, NextRank
  <2>3. \A h \in Autos :
          {y \in Autos \cup {n} : y <= h} = {y \in Autos : y <= h}
    BY <1>5, <1>7, <1>9, NextRank
  <2>4. Rank(n)' = Cardinality({y \in Autos \cup {n} : y <= n})
    BY <1>8, Zenon DEF Rank
  <2>5. \A h \in Autos : Rank(h)' = Rank(h)
    BY <1>8, <2>3, Zenon DEF Rank
  <2> QED
    BY <1>8, <2>1, <2>2, <2>4, <2>5
<1>11. AutosCountDown'
  <2> SUFFICES ASSUME NEW h \in Autos'
               PROVE  Minus(hosts'[h], 0) = Minus(e, Rank(h)')
    BY <1>1 DEF AutosCountDown, e
  <2>1. CASE h \in Autos
    <3>1. hosts'[h] = hosts[h] /\ Rank(h)' = Rank(h)
      BY <1>5, <1>7, <1>10, <2>1
    <3> QED
      BY <1>1, <2>1, <3>1 DEF AutosCountDown, e
  <2>2. CASE h = n
    BY <1>6, <1>7, <1>10, <2>2
  <2> QED
    BY <1>8, <2>1, <2>2
<1>12. SliceInv'
  BY <1>1, <1>2, <1>4, <1>6, <1>10 DEF SliceInv, e
<1>13. Len(hosts') <= Len(user.hosts)
  BY <1>0, <1>1, <1>7, HostsAre
<1> QED
  BY <1>1, <1>7, <1>11, <1>12, <1>13 DEF NetInv

\* Every step keeps it.
LEMMA NetStep == NetInv /\ [Next]_vars => NetInv'
<1> SUFFICES ASSUME NetInv, [Next]_vars PROVE NetInv'
  OBVIOUS
<1>1. CASE Parse
  BY <1>1, ParseNet
<1>2. CASE ParseError \/ EndHosts \/ SetupShared \/ SetupSharedPanic
  BY <1>2, RestNet
<1>3. CASE AutoHost
  BY <1>3, AutoNet
<1>4. CASE StaticHost
  BY <1>4, StaticNet
<1>5. CASE UNCHANGED vars
  <2>1. /\ SliceInv' = SliceInv /\ AutosCountDown' = AutosCountDown
        /\ DnsHosts' = DnsHosts
    BY <1>5 DEF vars, SliceInv, AutosCountDown, Autos, Rank, DnsHosts
  <2> QED
    BY <1>5, <2>1 DEF NetInv, vars
<1> QED
  BY <1>1, <1>2, <1>3, <1>4, <1>5 DEF Next

\* So it always holds.
LEMMA NetAlways == Spec => []NetInv
  BY InitNet, NetStep, PTL DEF Spec

-----------------------------------------------------------------------------
(* The theorems.                                                            *)

\* The m-th automatic address of a config is the end of the range less m,
\* however many hosts there are and through every borrow (ToNetwork).
THEOREM AddressesCountDown == Spec => []AutosCountDown
<1>1. NetInv => AutosCountDown
  BY DEF NetInv
<1> QED
  BY <1>1, NetAlways, PTL

\* The address of an automatic host as a number, while there is room.
LEMMA AutoValue ==
  ASSUME NetInv, Cardinality(Autos) <= Room(user.cidr), NEW h \in Autos
  PROVE  /\ hosts[h] \in Address
         /\ Value(hosts[h]) = Value(EndIp(user.cidr)) - Rank(h)
         /\ Rank(h) \in Nat /\ 1 <= Rank(h) /\ Rank(h) <= Room(user.cidr)
<1> DEFINE e == EndIp(user.cidr)
           b == NetworkAddress(user.cidr)
<1>1. /\ hosts \in Seq(Address) /\ user.cidr \in Cidrs
      /\ Minus(hosts[h], 0) = Minus(e, Rank(h))
  BY HostsAre DEF NetInv, AutosCountDown
<1>2. /\ e \in Address /\ b \in Address /\ Room(user.cidr) \in Int
      /\ Value(e) - Value(b) = Room(user.cidr) + 1
  BY <1>1, RangeIs
<1> HIDE DEF e, b
<1>3. /\ Autos \subseteq Int /\ IsFiniteSet(Autos) /\ Cardinality(Autos) \in Nat
      /\ h \in 1 .. Len(hosts)
  BY <1>1, AutosAre
<1>4. hosts[h] \in Address
  BY <1>1, <1>3, ElementOfSeq
<1>5. Rank(h) \in Nat /\ 1 <= Rank(h) /\ Rank(h) <= Cardinality(Autos)
  BY <1>3, Ranks DEF Rank
<1>6. Rank(h) <= Room(user.cidr)
  BY <1>2, <1>3, <1>5
<1>7. Value(e) \in Int /\ Value(b) \in Int /\ 0 <= Value(b)
  <2>1. IsHalf(Hi(e)) /\ IsHalf(Lo(e)) /\ IsHalf(Hi(b)) /\ IsHalf(Lo(b))
    BY <1>2, Halves
  <2> QED
    BY <2>1, SMT DEF Value, IsHalf
<1>8. Rank(h) <= Value(e)
  BY <1>2, <1>5, <1>6, <1>7
<1>9. Value(hosts[h]) = Value(e) - Rank(h)
  BY <1>1, <1>2, <1>4, <1>5, <1>8, MinusValue
<1> QED
  BY <1>4, <1>5, <1>6, <1>9 DEF e

\* While the range has room, no automatic address is the network's, the
\* broadcast address or another host's (ToNetwork), for every cidr.
THEOREM AddressesUsable == Spec => []AutosUsable
<1>1. NetInv => AutosUsable
  <2> SUFFICES ASSUME NetInv, Cardinality(Autos) <= Room(user.cidr),
                      NEW h \in Autos
               PROVE  /\ Below(NetworkAddress(user.cidr), hosts[h])
                      /\ Below(hosts[h], EndIp(user.cidr))
                      /\ \A g \in Autos : hosts[g] = hosts[h] => g = h
    BY DEF AutosUsable
  <2> DEFINE e == EndIp(user.cidr)
             b == NetworkAddress(user.cidr)
  <2>1. user.cidr \in Cidrs /\ hosts \in Seq(Address)
    BY HostsAre DEF NetInv
  <2>2. /\ e \in Address /\ b \in Address /\ Room(user.cidr) \in Int
        /\ Value(e) - Value(b) = Room(user.cidr) + 1
    BY <2>1, RangeIs
  <2>3. /\ hosts[h] \in Address
        /\ Value(hosts[h]) = Value(e) - Rank(h)
        /\ Rank(h) \in Nat /\ 1 <= Rank(h) /\ Rank(h) <= Room(user.cidr)
    BY AutoValue
  <2>4. Value(e) \in Int /\ Value(b) \in Int
    <3> HIDE DEF e, b
    <3>1. IsHalf(Hi(e)) /\ IsHalf(Lo(e)) /\ IsHalf(Hi(b)) /\ IsHalf(Lo(b))
      BY <2>2, Halves
    <3> QED
      BY <3>1, SMT DEF Value, IsHalf
  <2>5. Value(b) < Value(hosts[h]) /\ Value(hosts[h]) < Value(e)
    <3> HIDE DEF e, b
    <3> QED
      BY <2>2, <2>3, <2>4, SMT
  <2>6. ASSUME NEW g \in Autos, hosts[g] = hosts[h] PROVE g = h
    <3>1. Value(hosts[g]) = Value(e) - Rank(g) /\ Rank(g) \in Nat
      BY AutoValue
    <3>2. Rank(g) = Rank(h)
      <4> HIDE DEF e
      <4> QED
        BY <2>3, <2>4, <2>6, <3>1, SMT
    <3>3. Autos \subseteq Int /\ IsFiniteSet(Autos)
      BY <2>1, AutosAre
    <3> QED
      BY <3>2, <3>3, Ranks DEF Rank
  <2> QED
    BY <2>2, <2>3, <2>5, <2>6, BelowIs
<1> QED
  BY <1>1, NetAlways, PTL

\* The end of the range of the libvirt network.
LEMMA LibvirtEnd ==
  ASSUME LibvirtCidr \in Cidrs
  PROVE  Hi(EndIp(LibvirtCidr)) = 2760 /\ Lo(EndIp(LibvirtCidr)) = 51455
<1> DEFINE c == LibvirtCidr
<1>1. c.prefix = 24 /\ c.ip = <<10, 200, 200, 1>>
  BY DEF LibvirtCidr
<1>2. c.ip[1] = 10 /\ c.ip[2] = 200 /\ c.ip[3] = 200 /\ c.ip[4] = 1
  BY <1>1
<1> HIDE DEF c
<1>3. /\ HostBits(c, 1) = 1 /\ HostBits(c, 2) = 1
      /\ HostBits(c, 3) = 1 /\ HostBits(c, 4) = 256
  BY <1>1, BitsAre
<1>4. /\ NetworkAddress(c)[1] = 10 /\ NetworkAddress(c)[2] = 200
      /\ NetworkAddress(c)[3] = 200 /\ NetworkAddress(c)[4] = 0
  BY <1>2, <1>3 DEF NetworkAddress
<1>5. /\ EndIp(c)[1] = 10 /\ EndIp(c)[2] = 200
      /\ EndIp(c)[3] = 200 /\ EndIp(c)[4] = 255
  BY <1>3, <1>4 DEF EndIp
<1> QED
  BY <1>5, SMT DEF Hi, Lo, c

\* With the network and the two automatic hosts of the repository's stacks,
\* the name server has the second host under the address that the hacks of
\* the remote command put into the service (SetupShared and remote.go).
THEOREM HacksMatch == Spec => []HackMatchesSecondHost
<1>1. NetInv => HackMatchesSecondHost
  <2> SUFFICES ASSUME NetInv, pc = "done", user.cidr = LibvirtCidr,
                      user.hosts = <<AutoText, AutoText>>
               PROVE  Len(dns) = 2 /\ dns[2] = HackAddress
    BY DEF HackMatchesSecondHost
  <2>1. /\ hosts \in Seq(Address) /\ user.cidr \in Cidrs
        /\ Len(hosts) = 2 /\ dns = hosts /\ AutosCountDown
    BY HostsAre DEF NetInv, DnsHosts
  <2>2. Autos = 1 .. Len(hosts)
    BY <2>1 DEF Autos
  <2>3. Rank(2) = 2
    <3>1. \A g \in Autos : g <= 2
      BY <2>1, <2>2
    <3>2. {g \in Autos : g <= 2} = Autos
      BY <3>1, Zenon
    <3>3. \A b \in Int : b >= 1 => Cardinality(1 .. b) = b
      BY FS_Interval
    <3>4. Cardinality(1 .. Len(hosts)) = Len(hosts)
      <4>1. Len(hosts) \in Int /\ Len(hosts) >= 1
        BY <2>1
      <4> QED
        BY <3>3, <4>1, Zenon
    <3> QED
      BY <2>1, <2>2, <3>2, <3>4 DEF Rank
  <2>4. Minus(hosts[2], 0) = Minus(EndIp(LibvirtCidr), 2)
    BY <2>1, <2>2, <2>3 DEF AutosCountDown
  <2>5. Hi(HackAddress) = 2760 /\ Lo(HackAddress) = 51453
    BY SMT DEF Hi, Lo, HackAddress
  <2>6. Minus(EndIp(LibvirtCidr), 2) = Minus(HackAddress, 0)
    BY <2>1, <2>5, LibvirtEnd, SMT DEF Minus
  <2>7. HackAddress \in Address
    <3>1. <<10, 200, 200, 253>> \in [1 .. 4 -> 0 .. 255]
      OBVIOUS
    <3> QED
      BY <3>1, Zenon DEF HackAddress, Address, Byte
  <2>8. hosts[2] \in Address
    <3>1. 2 \in 1 .. Len(hosts)
      BY <2>1
    <3> QED
      BY <2>1, <3>1, ElementOfSeq
  <2> QED
    BY <2>1, <2>4, <2>6, <2>7, <2>8, MinusZero
<1> QED
  BY <1>1, NetAlways, PTL
=============================================================================
