----------------------------- MODULE Vita49Proof -----------------------------
(***************************************************************************)
(* Proofs about the VITA 49.2 codec for every width of the size field and  *)
(* of a sample, every sequence of calls and every part of the stream.      *)
(*                                                                         *)
(* The first half is about the operators: what a header, a sample and a    *)
(* field become on the wire and back (HeaderRoundTrip, SampleRoundTrip,    *)
(* FieldRoundTrip), and that each encoder leaves words that are cut into   *)
(* packets (SignalParted, ContextParted, OtherParted).  The second half is *)
(* about the specification: Inv says where the packets of the stream are   *)
(* and that parseStream() is at one of them, having found what the calls   *)
(* were given in those before it.  Every property follows from Inv.  The   *)
(* last part is about the round trip of Vita49FileCodec: what was read is  *)
(* stored without rounding (SampleAgain, ContextReEncoded), and the loop   *)
(* of parseStream() over the new packets finds it again (Reads).           *)
(***************************************************************************)
EXTENDS Vita49FileCodec, SequenceTheorems, WellFoundedInduction, TLAPS

(* Induction, for a set in place of a predicate: the library's theorem     *)
(* takes an operator, which the provers cannot instantiate.                *)
LEMMA SetInduction ==
    ASSUME NEW T, 0 \in T, \A n \in Nat : n \in T => n + 1 \in T
    PROVE  Nat \subseteq T
  <1> SUFFICES ASSUME Nat \ T # {}
               PROVE  FALSE
    OBVIOUS
  <1> DEFINE R == OpToRel(<, Nat)
             U == Nat \ T
  <1>1. IsWellFoundedOn(R, Nat)
    BY NatLessThanWellFounded
  <1> HIDE DEF R
  <1>2. PICK x \in U : \A y \in U : ~ (<<y, x>> \in R)
    BY <1>1, WFMin
  <1>3. x \in Nat /\ x # 0 /\ x - 1 \in Nat /\ x - 1 < x
    BY DEF U
  <1>4. <<x - 1, x>> \in R
    BY <1>3 DEF R, OpToRel
  <1>5. x - 1 \in T
    BY <1>2, <1>3, <1>4
  <1> QED
    BY <1>3, <1>5

-----------------------------------------------------------------------------
(* Powers of two up to the word width. *)
LEMMA PowerType ==
    ASSUME NEW n \in 0 .. WordBits
    PROVE  2 ^ n \in Nat /\ 2 ^ n > 0 /\ 2 ^ n \in Int
  BY PowersOfTwo DEF WordBits

(* The width of a word is positive. *)
LEMMA WordBitsType == WordBits \in Nat /\ SizeBits \in Nat /\ SizeBits <= WordBits - 16 /\ SizeBits > 0
                      /\ HalfBits \in Nat /\ HalfBits > 0 /\ 2 * HalfBits <= WordBits
  BY Vita49Assumption DEF WordBits

(* Powers add up. *)
LEMMA PowerSum ==
    ASSUME NEW a \in Nat, NEW b \in Nat, a + b <= WordBits
    PROVE  2 ^ (a + b) = 2 ^ a * 2 ^ b
  <1> DEFINE T == {n \in Nat : a + n <= WordBits => 2 ^ (a + n) = 2 ^ a * 2 ^ n}
  <1>1. 0 \in T
    <2>1. a + 0 = a /\ 2 ^ 0 = 1
      OBVIOUS
    <2>2. a + 0 <= WordBits => 2 ^ a \in Nat
      BY <2>1, PowerType, WordBitsType
    <2> QED
      BY <2>1, <2>2
  <1>2. ASSUME NEW n \in Nat, n \in T
        PROVE  n + 1 \in T
    <2> SUFFICES ASSUME a + (n + 1) <= WordBits
                 PROVE  2 ^ (a + (n + 1)) = 2 ^ a * 2 ^ (n + 1)
      OBVIOUS
    <2>1. /\ a + (n + 1) = (a + n) + 1
          /\ a + n \in 0 .. WordBits /\ n \in 0 .. WordBits /\ a \in 0 .. WordBits
      BY WordBitsType
    <2>2. 2 ^ ((a + n) + 1) = 2 * 2 ^ (a + n) /\ 2 ^ (n + 1) = 2 * 2 ^ n
      BY <2>1, PowersOfTwo DEF WordBits
    <2>3. 2 ^ (a + n) = 2 ^ a * 2 ^ n
      BY <1>2, <2>1
    <2>4. 2 ^ a \in Nat /\ 2 ^ n \in Nat
      BY <2>1, PowerType
    <2>5. \A x, y \in Nat : 2 * (x * y) = x * (2 * y)
      OBVIOUS
    <2> QED
      BY <2>1, <2>2, <2>3, <2>4, <2>5
  <1> HIDE DEF T
  <1>3. b \in T
    BY <1>1, <1>2, SetInduction
  <1> QED
    BY <1>3 DEF T

(* A wider field has more values. *)
LEMMA PowerGrows ==
    ASSUME NEW a \in Nat, NEW b \in Nat, a <= b, b <= WordBits
    PROVE  2 ^ a <= 2 ^ b
  <1>1. b - a \in Nat /\ a + (b - a) = b /\ a \in 0 .. WordBits /\ b - a \in 0 .. WordBits
    BY WordBitsType
  <1>2. 2 ^ b = 2 ^ a * 2 ^ (b - a)
    BY <1>1, PowerSum
  <1>3. 2 ^ a \in Nat /\ 2 ^ (b - a) \in Nat /\ 2 ^ (b - a) > 0
    BY <1>1, PowerType
  <1>4. \A x, y \in Nat : y > 0 => x <= x * y
    OBVIOUS
  <1> QED
    BY <1>2, <1>3, <1>4

(* Splitting a number into an upper and a lower part. *)
LEMMA Split ==
    ASSUME NEW u \in Nat, NEW P \in Nat, P > 0, NEW l \in 0 .. P - 1
    PROVE  (u * P + l) \div P = u /\ (u * P + l) % P = l /\ u * P + l \in Nat
  OBVIOUS

(* Shifting twice. *)
LEMMA DivDiv ==
    ASSUME NEW a \in Nat, NEW P \in Nat, P > 0, NEW Q \in Nat, Q > 0
    PROVE  (a \div P) \div Q = a \div (Q * P)
  OBVIOUS

(* The powers that word 0 uses, as multiples of 2^SizeBits. *)
LEMMA HeaderPowers ==
    /\ 2 ^ SizeBits \in Nat /\ 2 ^ SizeBits > 0
    /\ 2 ^ (SizeBits + 4) = 16 * 2 ^ SizeBits
    /\ 2 ^ (SizeBits + 6) = 64 * 2 ^ SizeBits
    /\ 2 ^ (SizeBits + 10) = 1024 * 2 ^ SizeBits
    /\ 2 ^ (SizeBits + 11) = 2048 * 2 ^ SizeBits
    /\ 2 ^ (SizeBits + 12) = 4096 * 2 ^ SizeBits
    /\ 2 ^ WordBits = 65536 * 2 ^ SizeBits
  <1> DEFINE P == 2 ^ SizeBits
  <1>1. P \in Nat /\ P > 0
    BY PowerType, WordBitsType
  <1>2. /\ 2 ^ 4 = 16 /\ 2 ^ 6 = 64 /\ 2 ^ 10 = 1024 /\ 2 ^ 11 = 2048 /\ 2 ^ 12 = 4096 /\ 2 ^ 16 = 65536
    OBVIOUS
  <1>3. \A k \in 0 .. 16 : 2 ^ (SizeBits + k) = P * 2 ^ k
    BY PowerSum, WordBitsType
  <1> HIDE DEF P
  <1>4. /\ 2 ^ (SizeBits + 4) = 16 * P /\ 2 ^ (SizeBits + 6) = 64 * P /\ 2 ^ (SizeBits + 10) = 1024 * P
        /\ 2 ^ (SizeBits + 11) = 2048 * P /\ 2 ^ (SizeBits + 12) = 4096 * P /\ 2 ^ (SizeBits + 16) = 65536 * P
    BY <1>1, <1>2, <1>3
  <1> QED
    BY <1>1, <1>4 DEF P, WordBits

-----------------------------------------------------------------------------
(* The bit fields of word 0, the size excepted, as one 16-bit number. *)
Upper(h) ==
    4096 * h.packetType + 2048 * h.classIdPresent
    + (IF IsDataPacket(h.packetType) THEN 1024 * h.trailerPresent ELSE 0)
    + 64 * h.tsiType + 16 * h.tsfType + h.packetCount

(* The ranges of a header's bit fields. *)
LEMMA HeaderRanges ==
    ASSUME NEW h \in Header
    PROVE  /\ h.packetType \in 0 .. 15 /\ h.classIdPresent \in 0 .. 1 /\ h.trailerPresent \in 0 .. 1
           /\ h.tsiType \in 0 .. 3 /\ h.tsfType \in 0 .. 3 /\ h.packetCount \in 0 .. 15
           /\ h.packetSize \in 0 .. 2 ^ SizeBits - 1
  BY DEF Header, MaxPacketSizeWords

(* They may be shifted one by one or together. *)
LEMMA BitWord ==
    ASSUME NEW a \in Nat, NEW b \in Nat, NEW c \in Nat, NEW d \in Nat, NEW e \in Nat, NEW f \in Nat,
           NEW P \in Nat
    PROVE  (4096 * a + 2048 * b + 1024 * c + 64 * d + 16 * e + f) * P
             = a * (4096 * P) + b * (2048 * P) + c * (1024 * P) + d * (64 * P) + e * (16 * P) + f * P
  OBVIOUS

(* Sixteen bits above a lower part of size P fit the word. *)
LEMMA WordRange ==
    ASSUME NEW u \in Nat, u <= 65535, NEW P \in Nat, P > 0, NEW l \in 0 .. P - 1
    PROVE  u * P + l \in Nat /\ u * P + l <= 65536 * P - 1
  <1>1. 65535 * P = u * P + (65535 - u) * P /\ (65535 - u) * P \in Nat /\ u * P \in Nat
    OBVIOUS
  <1> QED
    BY <1>1

(* Word 0 is the bit fields above the size. *)
LEMMA Word0Split ==
    ASSUME NEW h \in Header
    PROVE  /\ Upper(h) \in Nat
           /\ Word0(h) \in Word /\ Word0(h) \in Nat
           /\ Word0(h) \div 2 ^ SizeBits = Upper(h) /\ Word0(h) % 2 ^ SizeBits = h.packetSize
  <1> DEFINE P == 2 ^ SizeBits
             a == h.packetType
             b == h.classIdPresent
             c == IF IsDataPacket(h.packetType) THEN h.trailerPresent ELSE 0
             d == h.tsiType
             e == h.tsfType
             f == h.packetCount
             l == h.packetSize
             u == 4096 * a + 2048 * b + 1024 * c + 64 * d + 16 * e + f
  <1>1. /\ a \in 0 .. 15 /\ b \in 0 .. 1 /\ c \in 0 .. 1 /\ d \in 0 .. 3 /\ e \in 0 .. 3 /\ f \in 0 .. 15
        /\ l \in 0 .. P - 1
    BY HeaderRanges
  <1>2. P \in Nat /\ P > 0 /\ 2 ^ WordBits = 65536 * P
    BY HeaderPowers
  <1>3. Upper(h) = u
    BY <1>1 DEF Upper
  <1>4. Word0(h) = a * (4096 * P) + b * (2048 * P) + c * (1024 * P) + d * (64 * P) + e * (16 * P) + f * P + l
    <2>1. (IF IsDataPacket(h.packetType) THEN h.trailerPresent * 2 ^ (SizeBits + 10) ELSE 0) = c * (1024 * P)
      BY <1>2, HeaderPowers
    <2> QED
      BY <2>1, HeaderPowers DEF Word0
  <1> HIDE DEF P, a, b, c, d, e, f, l
  <1>5. u \in Nat /\ u <= 65535
    BY <1>1
  <1>6. Word0(h) = u * P + l
    BY <1>1, <1>2, <1>4, BitWord
  <1> HIDE DEF u
  <1>7. Word0(h) \div P = u /\ Word0(h) % P = l /\ Word0(h) \in Nat
    BY <1>1, <1>2, <1>5, <1>6, Split
  <1>8. Word0(h) <= 65536 * P - 1
    BY <1>1, <1>2, <1>5, <1>6, WordRange
  <1>9. Word0(h) \in Word
    BY <1>2, <1>7, <1>8 DEF Word
  <1> QED
    BY <1>3, <1>5, <1>7, <1>9 DEF P, l

(* The bit fields of a word are those of u and, for the size, the word's rest. *)
FixedFrom(w, u) ==
    /\ Fixed(w).packetType = (u \div 4096) % 16
    /\ Fixed(w).classIdPresent = (u \div 2048) % 2
    /\ Fixed(w).trailerPresent = (IF IsDataPacket(Fixed(w).packetType) THEN (u \div 1024) % 2 ELSE 0)
    /\ Fixed(w).tsiType = (u \div 64) % 4
    /\ Fixed(w).tsfType = (u \div 16) % 4
    /\ Fixed(w).packetCount = u % 16
    /\ Fixed(w).packetSize = w % 2 ^ SizeBits

(* The bit fields of a word are in its upper part. *)
LEMMA FixedFields ==
    ASSUME NEW w \in Nat
    PROVE  w \div 2 ^ SizeBits \in Nat /\ FixedFrom(w, w \div 2 ^ SizeBits)
  <1> DEFINE P == 2 ^ SizeBits
             u == w \div P
  <1>1. P \in Nat /\ P > 0
    BY HeaderPowers
  <1>0. u \in Nat
    BY <1>1
  <1>2. 2 ^ 0 = 1 /\ 2 ^ 1 = 2 /\ 2 ^ 2 = 4 /\ 2 ^ 4 = 16
    OBVIOUS
  <1>3. ASSUME NEW Q \in Nat, Q > 0
        PROVE  w \div (Q * P) = u \div Q
    BY <1>1, <1>3, DivDiv
  <1>4. Bits(w, SizeBits + 12, 4) = (u \div 4096) % 16
    <2>1. w \div (4096 * P) = u \div 4096
      BY <1>3
    <2> QED
      BY <1>2, <2>1, HeaderPowers DEF Bits
  <1>5. Bits(w, SizeBits + 11, 1) = (u \div 2048) % 2
    <2>1. w \div (2048 * P) = u \div 2048
      BY <1>3
    <2> QED
      BY <1>2, <2>1, HeaderPowers DEF Bits
  <1>6. Bits(w, SizeBits + 10, 1) = (u \div 1024) % 2
    <2>1. w \div (1024 * P) = u \div 1024
      BY <1>3
    <2> QED
      BY <1>2, <2>1, HeaderPowers DEF Bits
  <1>7. Bits(w, SizeBits + 6, 2) = (u \div 64) % 4
    <2>1. w \div (64 * P) = u \div 64
      BY <1>3
    <2> QED
      BY <1>2, <2>1, HeaderPowers DEF Bits
  <1>8. Bits(w, SizeBits + 4, 2) = (u \div 16) % 4
    <2>1. w \div (16 * P) = u \div 16
      BY <1>3
    <2> QED
      BY <1>2, <2>1, HeaderPowers DEF Bits
  <1>9. Bits(w, SizeBits, 4) = u % 16
    BY <1>2 DEF Bits
  <1>10. Bits(w, 0, SizeBits) = w % P
    <2>1. w \div 1 = w
      OBVIOUS
    <2> QED
      BY <1>2, <2>1 DEF Bits
  <1> QED
    BY <1>0, <1>4, <1>5, <1>6, <1>7, <1>8, <1>9, <1>10 DEF Fixed, FixedFrom

(* The bit fields that serialize() writes are the ones that parse() reads. *)
LEMMA FixedOfWord0 ==
    ASSUME NEW h \in Header
    PROVE  /\ Fixed(Word0(h)).packetType = h.packetType
           /\ Fixed(Word0(h)).classIdPresent = h.classIdPresent
           /\ Fixed(Word0(h)).trailerPresent = (IF IsDataPacket(h.packetType) THEN h.trailerPresent ELSE 0)
           /\ Fixed(Word0(h)).tsiType = h.tsiType
           /\ Fixed(Word0(h)).tsfType = h.tsfType
           /\ Fixed(Word0(h)).packetCount = h.packetCount
           /\ Fixed(Word0(h)).packetSize = h.packetSize
  <1> DEFINE w == Word0(h)
             u == Upper(h)
             a == h.packetType
             b == h.classIdPresent
             c == IF IsDataPacket(h.packetType) THEN h.trailerPresent ELSE 0
             d == h.tsiType
             e == h.tsfType
             f == h.packetCount
  <1>1. u \in Nat /\ w \div 2 ^ SizeBits = u /\ w % 2 ^ SizeBits = h.packetSize /\ w \in Nat
    BY Word0Split
  <1>2. a \in 0 .. 15 /\ b \in 0 .. 1 /\ c \in 0 .. 1 /\ d \in 0 .. 3 /\ e \in 0 .. 3 /\ f \in 0 .. 15
    BY HeaderRanges
  <1>3. u = 4096 * a + 2048 * b + 1024 * c + 64 * d + 16 * e + f
    BY <1>2 DEF Upper
  <1> HIDE DEF w, u, a, b, c, d, e, f
  <1>4. FixedFrom(w, u)
    BY <1>1, FixedFields
  <1>5. (u \div 4096) % 16 = a
    BY <1>1, <1>2, <1>3
  <1>6. (u \div 2048) % 2 = b
    BY <1>1, <1>2, <1>3
  <1>7. (u \div 1024) % 2 = c
    BY <1>1, <1>2, <1>3
  <1>8. (u \div 64) % 4 = d
    BY <1>1, <1>2, <1>3
  <1>9. (u \div 16) % 4 = e
    BY <1>1, <1>2, <1>3
  <1>10. u % 16 = f
    BY <1>1, <1>2, <1>3
  <1>11. Fixed(w).trailerPresent = c
    <2>1. Fixed(w).trailerPresent = IF IsDataPacket(a) THEN c ELSE 0
      BY <1>4, <1>5, <1>7 DEF FixedFrom
    <2> QED
      BY <2>1 DEF a, c
  <1>12. /\ Fixed(w).packetType = a /\ Fixed(w).classIdPresent = b /\ Fixed(w).tsiType = d
         /\ Fixed(w).tsfType = e /\ Fixed(w).packetCount = f /\ Fixed(w).packetSize = h.packetSize
    BY <1>1, <1>4, <1>5, <1>6, <1>8, <1>9, <1>10 DEF FixedFrom
  <1> QED
    BY <1>11, <1>12 DEF w, a, b, c, d, e, f

-----------------------------------------------------------------------------
(* Headers. *)

(* Two sequences one after the other. *)
LEMMA Concat ==
    ASSUME NEW W, NEW a \in Seq(W), NEW b \in Seq(W)
    PROVE  /\ a \o b \in Seq(W) /\ Len(a) \in Nat /\ Len(b) \in Nat /\ Len(a \o b) = Len(a) + Len(b)
           /\ \A i \in 1 .. Len(a) : (a \o b)[i] = a[i]
           /\ \A i \in 1 .. Len(b) : (a \o b)[Len(a) + i] = b[i]
  OBVIOUS

(* The sequence s is made of a, b, c, d and e: each keeps its order, and   *)
(* begins where the ones before it end.                                    *)
Joined(s, a, b, c, d, e) ==
    /\ Len(s) = Len(a) + Len(b) + Len(c) + Len(d) + Len(e)
    /\ \A i \in 1 .. Len(a) : s[i] = a[i]
    /\ \A i \in 1 .. Len(b) : s[Len(a) + i] = b[i]
    /\ \A i \in 1 .. Len(c) : s[Len(a) + Len(b) + i] = c[i]
    /\ \A i \in 1 .. Len(d) : s[Len(a) + Len(b) + Len(c) + i] = d[i]
    /\ \A i \in 1 .. Len(e) : s[Len(a) + Len(b) + Len(c) + Len(d) + i] = e[i]

(* Five sequences one after the other. *)
LEMMA Concat5 ==
    ASSUME NEW W, NEW a \in Seq(W), NEW b \in Seq(W), NEW c \in Seq(W), NEW d \in Seq(W), NEW e \in Seq(W)
    PROVE  a \o b \o c \o d \o e \in Seq(W) /\ Joined(a \o b \o c \o d \o e, a, b, c, d, e)
  <1> DEFINE s2 == a \o b
             s3 == s2 \o c
             s4 == s3 \o d
             s5 == s4 \o e
  <1>0. Len(a) \in Nat /\ Len(b) \in Nat /\ Len(c) \in Nat /\ Len(d) \in Nat /\ Len(e) \in Nat
    OBVIOUS
  <1>2. s2 \in Seq(W) /\ Len(s2) = Len(a) + Len(b) /\ (\A i \in 1 .. Len(a) : s2[i] = a[i])
        /\ (\A i \in 1 .. Len(b) : s2[Len(a) + i] = b[i])
    BY Concat
  <1>3. s2 \in Seq(W) => s3 \in Seq(W) /\ Len(s3) = Len(s2) + Len(c) /\ (\A i \in 1 .. Len(s2) : s3[i] = s2[i])
        /\ (\A i \in 1 .. Len(c) : s3[Len(s2) + i] = c[i])
    <2> HIDE DEF s2
    <2> QED
      BY Concat
  <1>4. s3 \in Seq(W) => s4 \in Seq(W) /\ Len(s4) = Len(s3) + Len(d) /\ (\A i \in 1 .. Len(s3) : s4[i] = s3[i])
        /\ (\A i \in 1 .. Len(d) : s4[Len(s3) + i] = d[i])
    <2> HIDE DEF s3
    <2> QED
      BY Concat
  <1>5. s4 \in Seq(W) => s5 \in Seq(W) /\ Len(s5) = Len(s4) + Len(e) /\ (\A i \in 1 .. Len(s4) : s5[i] = s4[i])
        /\ (\A i \in 1 .. Len(e) : s5[Len(s4) + i] = e[i])
    <2> HIDE DEF s4
    <2> QED
      BY Concat
  <1> SUFFICES s5 \in Seq(W) /\ Joined(s5, a, b, c, d, e)
    OBVIOUS
  <1> HIDE DEF s5, s4, s3, s2
  <1>6. /\ s5 \in Seq(W)
        /\ Len(s5) = Len(a) + Len(b) + Len(c) + Len(d) + Len(e)
    BY <1>0, <1>2, <1>3, <1>4, <1>5
  <1>l. /\ Len(s2) = Len(a) + Len(b) /\ Len(s3) = Len(a) + Len(b) + Len(c)
        /\ Len(s4) = Len(a) + Len(b) + Len(c) + Len(d)
    BY <1>0, <1>2, <1>3, <1>4
  <1>7. ASSUME NEW i \in 1 .. Len(a)
        PROVE  s5[i] = a[i]
    <2>1. i \in 1 .. Len(s2) /\ i \in 1 .. Len(s3) /\ i \in 1 .. Len(s4)
      BY <1>0, <1>l
    <2> QED
      BY <1>2, <1>3, <1>4, <1>5, <2>1
  <1>8. ASSUME NEW i \in 1 .. Len(b)
        PROVE  s5[Len(a) + i] = b[i]
    <2>1. Len(a) + i \in 1 .. Len(s2) /\ Len(a) + i \in 1 .. Len(s3) /\ Len(a) + i \in 1 .. Len(s4)
      BY <1>0, <1>l
    <2> QED
      BY <1>2, <1>3, <1>4, <1>5, <2>1
  <1>9. ASSUME NEW i \in 1 .. Len(c)
        PROVE  s5[Len(a) + Len(b) + i] = c[i]
    <2>1. Len(a) + Len(b) + i \in 1 .. Len(s3) /\ Len(a) + Len(b) + i \in 1 .. Len(s4)
      BY <1>0, <1>l
    <2> QED
      BY <1>2, <1>3, <1>4, <1>5, <2>1
  <1>10. ASSUME NEW i \in 1 .. Len(d)
         PROVE  s5[Len(a) + Len(b) + Len(c) + i] = d[i]
    <2>1. Len(s3) + i \in 1 .. Len(s4) /\ Len(a) + Len(b) + Len(c) + i = Len(s3) + i
      BY <1>0, <1>l
    <2>2. s5[Len(s3) + i] = s4[Len(s3) + i] /\ s4[Len(s3) + i] = d[i]
      BY <1>2, <1>3, <1>4, <1>5, <2>1
    <2> QED
      BY <2>1, <2>2
  <1>11. ASSUME NEW i \in 1 .. Len(e)
         PROVE  s5[Len(a) + Len(b) + Len(c) + Len(d) + i] = e[i]
    <2>1. Len(a) + Len(b) + Len(c) + Len(d) + i = Len(s4) + i
      BY <1>0, <1>l
    <2>2. s5[Len(s4) + i] = e[i]
      BY <1>2, <1>3, <1>4, <1>5
    <2> QED
      BY <2>1, <2>2
  <1> QED
    BY <1>6, <1>7, <1>8, <1>9, <1>10, <1>11 DEF Joined

(* A 64-bit value takes two words, and swapping them twice changes nothing. *)
LEMMA DWordTwice ==
    ASSUME NEW W, NEW ws \in Seq(W), Len(ws) = 2, NEW o
    PROVE  /\ DWord(ws, o) \in Seq(W) /\ Len(DWord(ws, o)) = 2
           /\ DWord(<<DWord(ws, o)[1], DWord(ws, o)[2]>>, o) = ws
  <1>1. ws = <<ws[1], ws[2]>> /\ ws[1] \in W /\ ws[2] \in W
    OBVIOUS
  <1>2. ASSUME NEW x, NEW y
        PROVE  Reverse(<<x, y>>) = <<y, x>>
    BY DEF Reverse
  <1>3. CASE o = "BigEndian"
    BY <1>1, <1>3 DEF DWord
  <1>4. CASE o # "BigEndian"
    <2>1. DWord(ws, o) = <<ws[2], ws[1]>>
      BY <1>1, <1>2, <1>4 DEF DWord
    <2>2. DWord(<<ws[2], ws[1]>>, o) = <<ws[1], ws[2]>>
      BY <1>2, <1>4 DEF DWord
    <2> QED
      BY <1>1, <2>1, <2>2
  <1> QED
    BY <1>3, <1>4

(* Where parse() reads the class identifier and the time stamps. *)
ClassAt(h) == IF HasStreamId(h.packetType) THEN 3 ELSE 2
TsiAt(h) == ClassAt(h) + (IF h.classIdPresent = 1 THEN 2 ELSE 0)
TsfAt(h) == TsiAt(h) + (IF h.tsiType # 0 THEN 1 ELSE 0)

(* The words of s are those of a header, each in its place. *)
Shape(s, h, o) ==
    /\ s[1] = Word0(h)
    /\ HasStreamId(h.packetType) => s[2] = h.streamId[1]
    /\ h.classIdPresent = 1 => /\ s[ClassAt(h)] = h.classId[1] % 2 ^ (WordBits - 8)
                               /\ s[ClassAt(h) + 1] = h.classId[2]
    /\ h.tsiType # 0 => s[TsiAt(h)] = h.integerTimestamp[1]
    /\ h.tsfType # 0 => /\ s[TsfAt(h)] = DWord(h.fractionalTimestamp, o)[1]
                        /\ s[TsfAt(h) + 1] = DWord(h.fractionalTimestamp, o)[2]

(* The optional values of a header are sequences of words. *)
LEMMA HeaderSeqs ==
    ASSUME NEW h \in Header
    PROVE  /\ h.streamId \in Seq(Word) /\ h.classId \in Seq(Word)
           /\ h.integerTimestamp \in Seq(Word) /\ h.fractionalTimestamp \in Seq(Word)
  BY DEF Header

(* The words of the class identifier fit their width. *)
LEMMA ClassIdType ==
    ASSUME NEW h \in Header
    PROVE  /\ ClassIdWords(h) \in Seq(Word) /\ Len(ClassIdWords(h)) = Len(h.classId)
           /\ h.classId # <<>> => ClassIdWords(h)[1] = h.classId[1] % 2 ^ (WordBits - 8)
           /\ \A k \in 2 .. Len(h.classId) : ClassIdWords(h)[k] = h.classId[k]
  <1> DEFINE c == h.classId
             M == 2 ^ (WordBits - 8)
  <1>1. c \in Seq(Word)
    BY DEF Header
  <1>2. M \in Nat /\ M > 0 /\ M <= 2 ^ WordBits /\ 2 ^ WordBits \in Nat
    <2>1. WordBits - 8 \in Nat /\ WordBits - 8 <= WordBits /\ WordBits - 8 \in 0 .. WordBits
      BY WordBitsType
    <2> QED
      BY <2>1, PowerType, PowerGrows, WordBitsType
  <1>3. ASSUME NEW w \in Word
        PROVE  w % M \in Word
    <2> HIDE DEF M
    <2> QED
      BY <1>2, <1>3 DEF Word
  <1>4. Len(c) \in Nat /\ DOMAIN c = 1 .. Len(c) /\ \A k \in 1 .. Len(c) : c[k] \in Word
    BY <1>1
  <1>5. ClassIdWords(h) = [k \in 1 .. Len(c) |-> IF k = 1 THEN c[k] % M ELSE c[k]]
    BY <1>4 DEF ClassIdWords
  <1>6. \A k \in 1 .. Len(c) : (IF k = 1 THEN c[k] % M ELSE c[k]) \in Word
    BY <1>3, <1>4
  <1> HIDE DEF c, M
  <1>7. /\ ClassIdWords(h) \in Seq(Word) /\ Len(ClassIdWords(h)) = Len(c)
        /\ \A k \in 1 .. Len(c) : ClassIdWords(h)[k] = IF k = 1 THEN c[k] % M ELSE c[k]
    BY <1>4, <1>5, <1>6
  <1>8. c # <<>> => 1 \in 1 .. Len(c)
    BY <1>1, <1>4
  <1> QED
    BY <1>4, <1>7, <1>8 DEF c, M

(* serialize() writes as many words as sizeInWords() says, each in its place. *)
LEMMA SerializeShape ==
    ASSUME NEW h \in Header, Complete(h), NEW o
    PROVE  /\ Serialize(h, o) \in Seq(Word)
           /\ Len(Serialize(h, o)) = SizeInWords(h)
           /\ Shape(Serialize(h, o), h, o)
  <1> DEFINE a == <<Word0(h)>>
             b == IF HasStreamId(h.packetType) THEN h.streamId ELSE <<>>
             c == IF h.classIdPresent = 1 THEN ClassIdWords(h) ELSE <<>>
             d == IF h.tsiType # 0 THEN h.integerTimestamp ELSE <<>>
             e == IF h.tsfType # 0 THEN DWord(h.fractionalTimestamp, o) ELSE <<>>
             s == Serialize(h, o)
  <1>1. a \in Seq(Word) /\ Len(a) = 1 /\ a[1] = Word0(h)
    BY Word0Split
  <1>2. b \in Seq(Word) /\ Len(b) = IF HasStreamId(h.packetType) THEN 1 ELSE 0
    <2>1. CASE HasStreamId(h.packetType)
      BY <2>1, HeaderSeqs DEF Complete
    <2>2. CASE ~ HasStreamId(h.packetType)
      BY <2>2
    <2> QED
      BY <2>1, <2>2
  <1>3. c \in Seq(Word) /\ Len(c) = IF h.classIdPresent = 1 THEN 2 ELSE 0
    <2>1. CASE h.classIdPresent = 1
      BY <2>1, ClassIdType DEF Complete
    <2>2. CASE h.classIdPresent # 1
      BY <2>2
    <2> QED
      BY <2>1, <2>2
  <1>4. d \in Seq(Word) /\ Len(d) = IF h.tsiType # 0 THEN 1 ELSE 0
    <2>1. CASE h.tsiType # 0
      BY <2>1, HeaderSeqs DEF Complete
    <2>2. CASE h.tsiType = 0
      BY <2>2
    <2> QED
      BY <2>1, <2>2
  <1>5. e \in Seq(Word) /\ Len(e) = IF h.tsfType # 0 THEN 2 ELSE 0
    <2>1. CASE h.tsfType # 0
      <3>1. h.fractionalTimestamp \in Seq(Word) /\ Len(h.fractionalTimestamp) = 2
        BY <2>1, HeaderSeqs DEF Complete
      <3>2. DWord(h.fractionalTimestamp, o) \in Seq(Word) /\ Len(DWord(h.fractionalTimestamp, o)) = 2
        BY <3>1, DWordTwice
      <3> QED
        BY <2>1, <3>2
    <2>2. CASE h.tsfType = 0
      BY <2>2
    <2> QED
      BY <2>1, <2>2
  <1>6. s = a \o b \o c \o d \o e
    BY DEF Serialize
  <1> HIDE DEF a, b, c, d, e, s
  <1>7. /\ s \in Seq(Word)
        /\ Len(s) = Len(a) + Len(b) + Len(c) + Len(d) + Len(e)
        /\ \A i \in 1 .. Len(a) : s[i] = a[i]
        /\ \A i \in 1 .. Len(b) : s[Len(a) + i] = b[i]
        /\ \A i \in 1 .. Len(c) : s[Len(a) + Len(b) + i] = c[i]
        /\ \A i \in 1 .. Len(d) : s[Len(a) + Len(b) + Len(c) + i] = d[i]
        /\ \A i \in 1 .. Len(e) : s[Len(a) + Len(b) + Len(c) + Len(d) + i] = e[i]
    <2>1. a \in Seq(Word) /\ b \in Seq(Word) /\ c \in Seq(Word) /\ d \in Seq(Word) /\ e \in Seq(Word)
      BY <1>1, <1>2, <1>3, <1>4, <1>5
    <2>2. a \o b \o c \o d \o e \in Seq(Word) /\ Joined(a \o b \o c \o d \o e, a, b, c, d, e)
      BY <2>1, Concat5
    <2>3. s \in Seq(Word) /\ Joined(s, a, b, c, d, e)
      BY <1>6, <2>2
    <2> QED
      BY <2>3 DEF Joined
  <1>8. Len(s) = SizeInWords(h)
    BY <1>1, <1>2, <1>3, <1>4, <1>5, <1>7 DEF SizeInWords
  <1>9. s[1] = Word0(h)
    BY <1>1, <1>7
  <1>10. HasStreamId(h.packetType) => s[2] = h.streamId[1]
    BY <1>1, <1>2, <1>7 DEF b
  <1>11. h.classIdPresent = 1 => /\ s[ClassAt(h)] = h.classId[1] % 2 ^ (WordBits - 8)
                                 /\ s[ClassAt(h) + 1] = h.classId[2]
    <2> SUFFICES ASSUME h.classIdPresent = 1
                 PROVE  /\ s[ClassAt(h)] = h.classId[1] % 2 ^ (WordBits - 8)
                        /\ s[ClassAt(h) + 1] = h.classId[2]
      OBVIOUS
    <2>1. Len(a) + Len(b) + 1 = ClassAt(h) /\ Len(a) + Len(b) + 2 = ClassAt(h) + 1 /\ Len(c) = 2
      BY <1>1, <1>2, <1>3 DEF ClassAt
    <2>2. s[ClassAt(h)] = c[1] /\ s[ClassAt(h) + 1] = c[2]
      BY <1>7, <2>1
    <2>3. h.classId # <<>> /\ 2 \in 2 .. Len(h.classId)
      BY DEF Complete
    <2> QED
      BY <2>2, <2>3, ClassIdType DEF c
  <1>12. h.tsiType # 0 => s[TsiAt(h)] = h.integerTimestamp[1]
    <2> SUFFICES ASSUME h.tsiType # 0
                 PROVE  s[TsiAt(h)] = h.integerTimestamp[1]
      OBVIOUS
    <2>1. Len(a) + Len(b) + Len(c) + 1 = TsiAt(h) /\ Len(d) = 1
      BY <1>1, <1>2, <1>3, <1>4 DEF ClassAt, TsiAt
    <2>2. s[TsiAt(h)] = d[1]
      BY <1>7, <2>1
    <2> QED
      BY <2>2 DEF d
  <1>13. h.tsfType # 0 => /\ s[TsfAt(h)] = DWord(h.fractionalTimestamp, o)[1]
                          /\ s[TsfAt(h) + 1] = DWord(h.fractionalTimestamp, o)[2]
    <2> SUFFICES ASSUME h.tsfType # 0
                 PROVE  /\ s[TsfAt(h)] = DWord(h.fractionalTimestamp, o)[1]
                        /\ s[TsfAt(h) + 1] = DWord(h.fractionalTimestamp, o)[2]
      OBVIOUS
    <2>1. /\ Len(a) + Len(b) + Len(c) + Len(d) + 1 = TsfAt(h) /\ Len(e) = 2
          /\ Len(a) + Len(b) + Len(c) + Len(d) + 2 = TsfAt(h) + 1
      BY <1>1, <1>2, <1>3, <1>4, <1>5 DEF ClassAt, TsiAt, TsfAt
    <2>2. s[TsfAt(h)] = e[1] /\ s[TsfAt(h) + 1] = e[2]
      BY <1>7, <2>1
    <2> QED
      BY <2>2 DEF e
  <1> QED
    BY <1>7, <1>8, <1>9, <1>10, <1>11, <1>12, <1>13 DEF s, Shape

(* What parse() finds in word 0 of a complete header. *)
LEMMA FixedOfHeader ==
    ASSUME NEW h \in Header, Complete(h)
    PROVE  /\ Fixed(Word0(h)).packetType = h.packetType
           /\ Fixed(Word0(h)).classIdPresent = h.classIdPresent
           /\ Fixed(Word0(h)).trailerPresent = h.trailerPresent
           /\ Fixed(Word0(h)).tsiType = h.tsiType
           /\ Fixed(Word0(h)).tsfType = h.tsfType
           /\ Fixed(Word0(h)).packetCount = h.packetCount
           /\ Fixed(Word0(h)).packetSize = h.packetSize
           /\ SizeInWords(Fixed(Word0(h))) = SizeInWords(h)
  <1>1. (IF IsDataPacket(h.packetType) THEN h.trailerPresent ELSE 0) = h.trailerPresent
    BY HeaderRanges DEF Complete
  <1> DEFINE f == Fixed(Word0(h))
  <1>2. /\ f.packetType = h.packetType /\ f.classIdPresent = h.classIdPresent
        /\ f.trailerPresent = h.trailerPresent /\ f.tsiType = h.tsiType /\ f.tsfType = h.tsfType
        /\ f.packetCount = h.packetCount /\ f.packetSize = h.packetSize
    BY <1>1, FixedOfWord0
  <1> HIDE DEF f
  <1>3. SizeInWords(f) = SizeInWords(h)
    BY <1>2 DEF SizeInWords
  <1> QED
    BY <1>2, <1>3 DEF f

(* A sequence of one element. *)
LEMMA One ==
    ASSUME NEW W, NEW s \in Seq(W), Len(s) = 1
    PROVE  <<s[1]>> = s
  OBVIOUS

(* A sequence of two elements. *)
LEMMA Two ==
    ASSUME NEW W, NEW s \in Seq(W), Len(s) = 2
    PROVE  s = <<s[1], s[2]>> /\ s[1] \in W /\ s[2] \in W
  OBVIOUS

(* Two elements are a sequence. *)
LEMMA TwoType ==
    ASSUME NEW W, NEW x \in W, NEW y \in W
    PROVE  <<x, y>> \in Seq(W) /\ Len(<<x, y>>) = 2
  OBVIOUS

(* A sequence of none. *)
LEMMA None ==
    ASSUME NEW W, NEW s \in Seq(W), Len(s) = 0
    PROVE  s = <<>>
  OBVIOUS

(* Taking the lower bits of a number that has no others changes nothing. *)
LEMMA ModSmall ==
    ASSUME NEW n \in Nat, NEW m \in Nat, n < m
    PROVE  n % m = n
  <1>1. n \in 0 .. m - 1 /\ m > 0 /\ 0 * m + n = n
    OBVIOUS
  <1>2. (0 * m + n) % m = n
    BY <1>1, Split
  <1> QED
    BY <1>1, <1>2

(* parse() reads, from words that begin like a header, that header. *)
LEMMA ParseShape ==
    ASSUME NEW h \in Header, Complete(h), NEW words, NEW o, Shape(words, h, o)
    PROVE  Parse(words, o) = h
  <1> DEFINE f == Fixed(words[1])
             p == Parse(words, o)
  <1>1. /\ f.packetType = h.packetType /\ f.classIdPresent = h.classIdPresent
        /\ f.trailerPresent = h.trailerPresent /\ f.tsiType = h.tsiType /\ f.tsfType = h.tsfType
        /\ f.packetCount = h.packetCount /\ f.packetSize = h.packetSize
    BY FixedOfHeader DEF Shape
  <1> HIDE DEF f
  <1>2. p = [packetType |-> h.packetType, classIdPresent |-> h.classIdPresent,
             trailerPresent |-> h.trailerPresent, tsiType |-> h.tsiType, tsfType |-> h.tsfType,
             packetCount |-> h.packetCount, packetSize |-> h.packetSize,
             streamId |-> IF HasStreamId(h.packetType) THEN <<words[2]>> ELSE <<>>,
             classId |-> IF h.classIdPresent = 1
                         THEN <<words[ClassAt(h)] % 2 ^ (WordBits - 8), words[ClassAt(h) + 1]>> ELSE <<>>,
             integerTimestamp |-> IF h.tsiType # 0 THEN <<words[TsiAt(h)]>> ELSE <<>>,
             fractionalTimestamp |-> IF h.tsfType # 0
                                     THEN DWord(<<words[TsfAt(h)], words[TsfAt(h) + 1]>>, o) ELSE <<>>]
    <2>1. /\ ClassAt(f) = ClassAt(h) /\ TsiAt(f) = TsiAt(h) /\ TsfAt(f) = TsfAt(h)
      BY <1>1 DEF ClassAt, TsiAt, TsfAt
    <2>2. p = [packetType |-> f.packetType, classIdPresent |-> f.classIdPresent,
             trailerPresent |-> f.trailerPresent, tsiType |-> f.tsiType, tsfType |-> f.tsfType,
             packetCount |-> f.packetCount, packetSize |-> f.packetSize,
             streamId |-> IF HasStreamId(f.packetType) THEN <<words[2]>> ELSE <<>>,
             classId |-> IF f.classIdPresent = 1
                         THEN <<words[ClassAt(f)] % 2 ^ (WordBits - 8), words[ClassAt(f) + 1]>> ELSE <<>>,
             integerTimestamp |-> IF f.tsiType # 0 THEN <<words[TsiAt(f)]>> ELSE <<>>,
             fractionalTimestamp |-> IF f.tsfType # 0
                                     THEN DWord(<<words[TsfAt(f)], words[TsfAt(f) + 1]>>, o) ELSE <<>>]
      BY DEF Parse, ClassAt, TsiAt, TsfAt, f
    <2> QED
      BY <1>1, <2>1, <2>2
  <1> HIDE DEF p
  <1>3. (IF HasStreamId(h.packetType) THEN <<words[2]>> ELSE <<>>) = h.streamId
    <2>1. CASE HasStreamId(h.packetType)
      BY <2>1, HeaderSeqs, One DEF Shape, Complete
    <2>2. CASE ~ HasStreamId(h.packetType)
      BY <2>2, HeaderSeqs, None DEF Complete
    <2> QED
      BY <2>1, <2>2
  <1>4. (IF h.classIdPresent = 1
         THEN <<words[ClassAt(h)] % 2 ^ (WordBits - 8), words[ClassAt(h) + 1]>> ELSE <<>>) = h.classId
    <2>1. CASE h.classIdPresent = 1
      <3> DEFINE m == 2 ^ (WordBits - 8)
      <3>1. <<h.classId[1], h.classId[2]>> = h.classId /\ h.classId[1] \in Word /\ h.classId[1] < m
        BY <2>1, HeaderSeqs, Two DEF Complete
      <3>2. m \in Nat
        BY PowerType, WordBitsType
      <3>3. words[ClassAt(h)] = h.classId[1] % m /\ words[ClassAt(h) + 1] = h.classId[2]
        BY <2>1 DEF Shape
      <3>4. h.classId[1] \in Nat
        BY <3>1, PowerType, WordBitsType DEF Word
      <3> HIDE DEF m
      <3>5. h.classId[1] % m = h.classId[1]
        BY <3>1, <3>2, <3>4, ModSmall
      <3> QED
        BY <2>1, <3>1, <3>3, <3>5 DEF m
    <2>2. CASE h.classIdPresent # 1
      BY <2>2, HeaderSeqs, None DEF Complete
    <2> QED
      BY <2>1, <2>2
  <1>5. (IF h.tsiType # 0 THEN <<words[TsiAt(h)]>> ELSE <<>>) = h.integerTimestamp
    <2>1. CASE h.tsiType # 0
      BY <2>1, HeaderSeqs, One DEF Shape, Complete
    <2>2. CASE h.tsiType = 0
      BY <2>2, HeaderSeqs, None DEF Complete
    <2> QED
      BY <2>1, <2>2
  <1>6. (IF h.tsfType # 0 THEN DWord(<<words[TsfAt(h)], words[TsfAt(h) + 1]>>, o) ELSE <<>>)
          = h.fractionalTimestamp
    <2>1. CASE h.tsfType # 0
      <3>1. h.fractionalTimestamp \in Seq(Word) /\ Len(h.fractionalTimestamp) = 2
        BY <2>1, HeaderSeqs DEF Complete
      <3> QED
        BY <2>1, <3>1, DWordTwice DEF Shape
    <2>2. CASE h.tsfType = 0
      BY <2>2, HeaderSeqs, None DEF Complete
    <2> QED
      BY <2>1, <2>2
  <1>7. h = [packetType |-> h.packetType, classIdPresent |-> h.classIdPresent,
             trailerPresent |-> h.trailerPresent, tsiType |-> h.tsiType, tsfType |-> h.tsfType,
             packetCount |-> h.packetCount, packetSize |-> h.packetSize,
             streamId |-> h.streamId, classId |-> h.classId, integerTimestamp |-> h.integerTimestamp,
             fractionalTimestamp |-> h.fractionalTimestamp]
    BY DEF Header
  <1> QED
    BY <1>2, <1>3, <1>4, <1>5, <1>6, <1>7 DEF p

(* For every width, byte order and continuation of the buffer, parse()     *)
(* returns the header that serialize() was given, and serialize() writes   *)
(* as many words as sizeInWords() says and no bit beyond a word.           *)
THEOREM HeaderRoundTrip ==
    ASSUME NEW h \in Header, Complete(h), NEW o \in ByteOrder, NEW rest \in Seq(Word)
    PROVE  /\ Serialize(h, o) \in Seq(Word) /\ Len(Serialize(h, o)) = SizeInWords(h)
           /\ Parse(Serialize(h, o) \o rest, o) = h
  <1> DEFINE s == Serialize(h, o)
  <1>1. s \in Seq(Word) /\ Len(s) = SizeInWords(h) /\ Shape(s, h, o)
    BY SerializeShape
  <1> HIDE DEF s
  <1>2. \A k \in 1 .. Len(s) : (s \o rest)[k] = s[k]
    BY <1>1, Concat
  <1>3. Shape(s \o rest, h, o)
    BY <1>1, <1>2 DEF Shape, SizeInWords, ClassAt, TsiAt, TsfAt
  <1> QED
    BY <1>1, <1>3, ParseShape DEF s

-----------------------------------------------------------------------------
(* Sequences one after the other: what FlattenSeq returns. *)

(* The function that FlattenSeq is defined by, on the first n sequences. *)
Flat(f, seqs, n) == f = [i \in 1 .. n |-> IF i = 1 THEN seqs[i] ELSE f[i - 1] \o seqs[i]]

(* Its value at each place. *)
LEMMA FlatAt ==
    ASSUME NEW f, NEW seqs, NEW n \in Nat, Flat(f, seqs, n), NEW i \in 1 .. n
    PROVE  f[i] = IF i = 1 THEN seqs[i] ELSE f[i - 1] \o seqs[i]
  BY DEF Flat

(* It exists. *)
LEMMA FlatExists ==
    ASSUME NEW seqs, NEW n \in Nat
    PROVE  \E f : Flat(f, seqs, n)
  <1> DEFINE T == {k \in Nat : \E f : Flat(f, seqs, k)}
  <1>1. 0 \in T
    <2>1. Flat(<<>>, seqs, 0)
      BY DEF Flat
    <2> QED
      BY <2>1
  <1>2. ASSUME NEW k \in Nat, k \in T
        PROVE  k + 1 \in T
    <2>1. PICK f : Flat(f, seqs, k)
      BY <1>2
    <2> DEFINE g == [i \in 1 .. k + 1 |->
                       IF i <= k THEN f[i] ELSE IF i = 1 THEN seqs[1] ELSE f[k] \o seqs[k + 1]]
    <2>2. \A i \in 1 .. k + 1 : g[i] = IF i = 1 THEN seqs[i] ELSE g[i - 1] \o seqs[i]
      <3> SUFFICES ASSUME NEW i \in 1 .. k + 1
                   PROVE  g[i] = IF i = 1 THEN seqs[i] ELSE g[i - 1] \o seqs[i]
        OBVIOUS
      <3>1. CASE i <= k
        <4>1. f[i] = IF i = 1 THEN seqs[i] ELSE f[i - 1] \o seqs[i]
          BY <2>1, <3>1, FlatAt
        <4>2. g[i] = f[i] /\ (i # 1 => g[i - 1] = f[i - 1])
          BY <3>1
        <4> QED
          BY <4>1, <4>2
      <3>2. CASE i = k + 1
        BY <3>2
      <3> QED
        BY <3>1, <3>2
    <2>3. Flat(g, seqs, k + 1)
      <3> DEFINE g2 == [i \in 1 .. k + 1 |-> IF i = 1 THEN seqs[i] ELSE g[i - 1] \o seqs[i]]
      <3>1. g = [i \in 1 .. k + 1 |-> g[i]]
        OBVIOUS
      <3> HIDE DEF g
      <3>2. g = g2
        BY <2>2, <3>1
      <3> QED
        BY <3>2 DEF Flat
    <2> QED
      BY <2>3
  <1> HIDE DEF T
  <1>3. n \in T
    BY <1>1, <1>2, SetInduction
  <1> QED
    BY <1>3 DEF T

(* FlattenSeq is one such function, at the last sequence. *)
LEMMA FlattenIsFlat ==
    ASSUME NEW seqs, Len(seqs) \in Nat, Len(seqs) # 0
    PROVE  \E f : Flat(f, seqs, Len(seqs)) /\ FlattenSeq(seqs) = f[Len(seqs)]
  <1> DEFINE n == Len(seqs)
             F == CHOOSE f : f = [i \in 1 .. n |-> IF i = 1 THEN seqs[i] ELSE f[i - 1] \o seqs[i]]
  <1>1. FlattenSeq(seqs) = F[n]
    BY DEF FlattenSeq
  <1>2. \E f : f = [i \in 1 .. n |-> IF i = 1 THEN seqs[i] ELSE f[i - 1] \o seqs[i]]
    BY FlatExists DEF Flat
  <1>3. Flat(F, seqs, n)
    BY <1>2 DEF Flat
  <1> QED
    BY <1>1, <1>3

(* The sequence s is made of the sequences seqs, the k-th of which begins  *)
(* after st[k] elements.                                                   *)
Parts(s, seqs, st) ==
    /\ st \in [1 .. Len(seqs) + 1 -> Nat] /\ st[1] = 0 /\ st[Len(seqs) + 1] = Len(s)
    /\ \A k \in 1 .. Len(seqs) :
         /\ st[k + 1] = st[k] + Len(seqs[k]) /\ st[k + 1] <= Len(s)
         /\ \A i \in 1 .. Len(seqs[k]) : s[st[k] + i] = seqs[k][i]

(* The first m sequences are in s, the k-th where the first k - 1 of f end. *)
Begin(f, k) == IF k = 1 THEN 0 ELSE Len(f[k - 1])
Filled(s, seqs, f, m) ==
    \A k \in 1 .. m : /\ Begin(f, k) \in Nat /\ Begin(f, k) + Len(seqs[k]) <= Len(s)
                     /\ \A i \in 1 .. Len(seqs[k]) : s[Begin(f, k) + i] = seqs[k][i]

(* One more sequence at the end. *)
LEMMA FilledOne ==
    ASSUME NEW W, NEW a \in Seq(W), NEW c \in Seq(W), NEW seqs, NEW f, NEW m \in Nat,
           Filled(a, seqs, f, m), \A k \in 1 .. m : seqs[k] \in Seq(W),
           seqs[m + 1] = c, Begin(f, m + 1) = Len(a)
    PROVE  Filled(a \o c, seqs, f, m + 1)
  <1> DEFINE s == a \o c
  <1>1. /\ s \in Seq(W) /\ Len(a) \in Nat /\ Len(c) \in Nat /\ Len(s) = Len(a) + Len(c)
        /\ \A i \in 1 .. Len(a) : s[i] = a[i]
        /\ \A i \in 1 .. Len(c) : s[Len(a) + i] = c[i]
    BY Concat
  <1> HIDE DEF s
  <1>2. ASSUME NEW k \in 1 .. m + 1
        PROVE  /\ Begin(f, k) \in Nat /\ Begin(f, k) + Len(seqs[k]) <= Len(s)
               /\ \A i \in 1 .. Len(seqs[k]) : s[Begin(f, k) + i] = seqs[k][i]
    <2>1. CASE k = m + 1
      <3>1. seqs[k] = c /\ Begin(f, k) = Len(a)
        BY <2>1
      <3> QED
        BY <1>1, <3>1
    <2>2. CASE k \in 1 .. m
      <3> DEFINE b == Begin(f, k)
                 t == seqs[k]
      <3>1. b \in Nat /\ b + Len(t) <= Len(a) /\ (\A i \in 1 .. Len(t) : a[b + i] = t[i]) /\ t \in Seq(W)
        BY <2>2 DEF Filled
      <3> HIDE DEF b, t
      <3>2. Len(t) \in Nat
        BY <3>1
      <3>3. ASSUME NEW i \in 1 .. Len(t)
            PROVE  s[b + i] = t[i]
        <4>1. b + i \in 1 .. Len(a)
          BY <1>1, <3>1, <3>2
        <4> QED
          BY <1>1, <3>1, <4>1
      <3>4. b + Len(t) <= Len(s)
        BY <1>1, <3>1, <3>2
      <3> QED
        BY <3>1, <3>3, <3>4 DEF b, t
    <2> QED
      BY <2>1, <2>2
  <1> QED
    BY <1>2 DEF Filled, s

(* FlattenSeq puts its sequences one after the other. *)
LEMMA FlattenParts ==
    ASSUME NEW W, NEW seqs \in Seq(Seq(W)), Len(seqs) # 0
    PROVE  FlattenSeq(seqs) \in Seq(W) /\ \E st : Parts(FlattenSeq(seqs), seqs, st)
  <1> DEFINE n == Len(seqs)
  <1>1. n \in Nat /\ n # 0 /\ \A k \in 1 .. n : seqs[k] \in Seq(W) /\ Len(seqs[k]) \in Nat
    OBVIOUS
  <1>2. PICK f : Flat(f, seqs, n) /\ FlattenSeq(seqs) = f[n]
    BY <1>1, FlattenIsFlat
  <1>3. \A k \in 1 .. n : f[k] = IF k = 1 THEN seqs[k] ELSE f[k - 1] \o seqs[k]
    BY <1>1, <1>2, FlatAt
  <1> DEFINE T == {m \in Nat : m + 1 \in 1 .. n => f[m + 1] \in Seq(W) /\ Filled(f[m + 1], seqs, f, m + 1)}
  <1> HIDE DEF n
  <1>4. 0 \in T
    <2>1. 1 \in 1 .. n /\ f[1] = seqs[1] /\ seqs[1] \in Seq(W) /\ Len(seqs[1]) \in Nat
      BY <1>1, <1>3
    <2>2. Begin(f, 1) = 0
      BY DEF Begin
    <2>3. \A i \in 1 .. Len(seqs[1]) : 0 + i = i
      BY <2>1
    <2>4. Filled(f[1], seqs, f, 1)
      BY <2>1, <2>2, <2>3 DEF Filled
    <2> QED
      BY <2>1, <2>4
  <1>5. ASSUME NEW m \in Nat, m \in T
        PROVE  m + 1 \in T
    <2> SUFFICES ASSUME (m + 1) + 1 \in 1 .. n
                 PROVE  f[(m + 1) + 1] \in Seq(W) /\ Filled(f[(m + 1) + 1], seqs, f, (m + 1) + 1)
      OBVIOUS
    <2> DEFINE q == m + 1
    <2>1. q \in 1 .. n /\ q \in Nat /\ q + 1 \in 1 .. n /\ (q + 1) - 1 = q /\ q + 1 # 1
      BY <1>1
    <2>2. f[q] \in Seq(W) /\ Filled(f[q], seqs, f, q)
      BY <1>5, <2>1
    <2> HIDE DEF q
    <2>3. f[q + 1] = f[q] \o seqs[q + 1] /\ seqs[q + 1] \in Seq(W) /\ Begin(f, q + 1) = Len(f[q])
      BY <1>1, <1>3, <2>1 DEF Begin
    <2>4. \A k \in 1 .. q : seqs[k] \in Seq(W)
      BY <1>1, <2>1
    <2>5. f[q] \o seqs[q + 1] \in Seq(W)
      BY <2>2, <2>3, Concat
    <2>6. Filled(f[q] \o seqs[q + 1], seqs, f, q + 1)
      BY <2>1, <2>2, <2>3, <2>4, FilledOne
    <2> QED
      BY <2>3, <2>5, <2>6 DEF q
  <1>6. \A k \in 1 .. n : f[k] \in Seq(W) /\ Filled(f[k], seqs, f, k)
    <2> SUFFICES ASSUME NEW k \in 1 .. n
                 PROVE  f[k] \in Seq(W) /\ Filled(f[k], seqs, f, k)
      OBVIOUS
    <2> HIDE DEF T
    <2>1. Nat \subseteq T
      BY <1>4, <1>5, SetInduction
    <2>2. (k - 1) + 1 = k /\ k - 1 \in Nat
      BY <1>1
    <2> QED
      BY <2>1, <2>2 DEF T
  <1> DEFINE s == FlattenSeq(seqs)
             st == [k \in 1 .. n + 1 |-> Begin(f, k)]
  <1>7. s \in Seq(W) /\ Filled(s, seqs, f, n) /\ Len(s) = Len(f[n]) /\ Len(s) \in Nat
    BY <1>1, <1>2, <1>6
  <1>8. st \in [1 .. n + 1 -> Nat]
    <2>1. \A k \in 1 .. n + 1 : Begin(f, k) \in Nat
      <3> SUFFICES ASSUME NEW k \in 1 .. n + 1
                   PROVE  Begin(f, k) \in Nat
        OBVIOUS
      <3>1. k # 1 => Len(f[k - 1]) \in Nat
        BY <1>1, <1>6
      <3> QED
        BY <3>1 DEF Begin
    <2> QED
      BY <2>1
  <1>9. st[1] = 0 /\ st[n + 1] = Len(s)
    BY <1>1, <1>7 DEF Begin
  <1>10. ASSUME NEW k \in 1 .. n
         PROVE  /\ st[k + 1] = st[k] + Len(seqs[k]) /\ st[k + 1] <= Len(s)
                /\ \A i \in 1 .. Len(seqs[k]) : s[st[k] + i] = seqs[k][i]
    <2>1. st[k] = Begin(f, k) /\ st[k + 1] = Len(f[k]) /\ Begin(f, k) \in Nat /\ Len(seqs[k]) \in Nat
      BY <1>1, <1>8 DEF Begin
    <2>2. Len(f[k]) = Begin(f, k) + Len(seqs[k])
      <3>1. CASE k = 1
        BY <1>1, <1>3, <2>1, <3>1 DEF Begin
      <3>2. CASE k # 1
        <4>1. f[k] = f[k - 1] \o seqs[k]
          BY <1>3, <3>2
        <4>2. f[k - 1] \in Seq(W) /\ seqs[k] \in Seq(W)
          <5>1. k - 1 \in 1 .. n
            BY <1>1, <3>2
          <5> QED
            BY <1>1, <1>6, <5>1
        <4>3. Len(f[k]) = Len(f[k - 1]) + Len(seqs[k])
          BY <4>1, <4>2, Concat
        <4> QED
          BY <3>2, <4>3 DEF Begin
      <3> QED
        BY <3>1, <3>2
    <2>3. Begin(f, k) + Len(seqs[k]) <= Len(s) /\ \A i \in 1 .. Len(seqs[k]) : s[Begin(f, k) + i] = seqs[k][i]
      BY <1>7 DEF Filled
    <2> QED
      BY <2>1, <2>2, <2>3
  <1> HIDE DEF s, st
  <1>11. Parts(s, seqs, st)
    BY <1>8, <1>9, <1>10 DEF Parts, n
  <1> QED
    BY <1>7, <1>11 DEF s

-----------------------------------------------------------------------------
(* Samples. *)

(* Rounding is exact to half a step. *)
LEMMA RoundClose ==
    ASSUME NEW x \in Int
    PROVE  Round(x) \in Int /\ x - 2 * Round(x) \in -1 .. 1
  <1>1. CASE x >= 0
    <2>1. (x + 1) \div 2 \in Int /\ x - 2 * ((x + 1) \div 2) \in -1 .. 1
      BY <1>1
    <2> QED
      BY <1>1, <2>1 DEF Round
  <1>2. CASE x < 0
    <2>1. (1 - x) \div 2 \in Int /\ x + 2 * ((1 - x) \div 2) \in -1 .. 1
      BY <1>2
    <2>2. Round(x) = - ((1 - x) \div 2)
      BY <1>2 DEF Round
    <2> QED
      BY <2>1, <2>2
  <1> QED
    BY <1>1, <1>2

(* The powers that a half word uses. *)
LEMMA HalfPowers ==
    /\ 2 ^ (HalfBits - 1) \in Nat /\ 2 ^ (HalfBits - 1) > 0
    /\ 2 ^ HalfBits = 2 * 2 ^ (HalfBits - 1)
    /\ 2 ^ HalfBits \in Nat /\ 2 ^ HalfBits > 0
    /\ 2 ^ WordBits \in Nat
    /\ 2 ^ HalfBits * 2 ^ HalfBits <= 2 ^ WordBits
  <1>1. /\ HalfBits - 1 \in 0 .. WordBits /\ HalfBits \in 0 .. WordBits /\ WordBits \in 0 .. WordBits
        /\ HalfBits + HalfBits \in Nat /\ HalfBits + HalfBits <= WordBits /\ (HalfBits - 1) + 1 = HalfBits
    BY WordBitsType
  <1>2. /\ 2 ^ (HalfBits - 1) \in Nat /\ 2 ^ (HalfBits - 1) > 0
        /\ 2 ^ HalfBits \in Nat /\ 2 ^ HalfBits > 0 /\ 2 ^ WordBits \in Nat
    BY <1>1, PowerType
  <1>3. 2 ^ ((HalfBits - 1) + 1) = 2 * 2 ^ (HalfBits - 1)
    BY <1>1, PowersOfTwo DEF WordBits
  <1>4. 2 ^ (HalfBits + HalfBits) = 2 ^ HalfBits * 2 ^ HalfBits
    BY <1>1, PowerSum, WordBitsType
  <1>5. 2 ^ (HalfBits + HalfBits) <= 2 ^ WordBits
    BY <1>1, PowerGrows, WordBitsType
  <1> QED
    BY <1>1, <1>2, <1>3, <1>4, <1>5

(* A number of width M = 2 * m and its bits: the sign comes back. *)
LEMMA SignBack ==
    ASSUME NEW m \in Nat, m > 0, NEW n \in - m .. m - 1
    PROVE  /\ n % (2 * m) \in 0 .. 2 * m - 1
           /\ n >= 0 => n % (2 * m) = n
           /\ n < 0 => n % (2 * m) = n + 2 * m
           /\ (IF n % (2 * m) >= m THEN (n % (2 * m)) - 2 * m ELSE n % (2 * m)) = n
  <1> DEFINE M == 2 * m
  <1>0. M \in Nat /\ M > 0
    OBVIOUS
  <1>1. n >= 0 => n % M = n
    <2>1. n >= 0 => n \in Nat /\ n < M
      OBVIOUS
    <2> HIDE DEF M
    <2> QED
      BY <1>0, <2>1, ModSmall
  <1>2. n < 0 => n % M = n + M
    <2>1. n < 0 => n + M \in 0 .. M - 1 /\ n = (-1) * M + (n + M)
      OBVIOUS
    <2>2. ASSUME NEW l \in 0 .. M - 1
          PROVE  ((-1) * M + l) % M = l
      <3> HIDE DEF M
      <3> QED
        BY <1>0
    <2> HIDE DEF M
    <2> QED
      BY <2>1, <2>2
  <1>3. n % M \in 0 .. M - 1
    BY <1>1, <1>2
  <1>4. (IF n % M >= m THEN (n % M) - M ELSE n % M) = n
    BY <1>1, <1>2
  <1> QED
    BY <1>1, <1>2, <1>3, <1>4

(* The powers of an int. *)
LEMMA IntPowers ==
    /\ IntBits \in 1 .. WordBits
    /\ 2 ^ (IntBits - 1) \in Nat /\ 2 ^ (IntBits - 1) > 0 /\ 2 ^ IntBits = 2 * 2 ^ (IntBits - 1)
    /\ 2 ^ (HalfBits - 1) <= 2 ^ (IntBits - 1)
  <1>1. /\ IntBits \in 1 .. WordBits /\ IntBits - 1 \in 0 .. WordBits /\ (IntBits - 1) + 1 = IntBits
        /\ HalfBits - 1 \in Nat /\ HalfBits \in Nat /\ (HalfBits - 1) + HalfBits = IntBits - 1
        /\ IntBits - 1 \in Nat /\ IntBits - 1 <= WordBits /\ HalfBits - 1 <= IntBits - 1
    BY WordBitsType DEF IntBits
  <1>2. 2 ^ (IntBits - 1) \in Nat /\ 2 ^ (IntBits - 1) > 0
    BY <1>1, PowerType
  <1>3. 2 ^ ((IntBits - 1) + 1) = 2 * 2 ^ (IntBits - 1)
    BY <1>1, PowersOfTwo DEF WordBits
  <1>4. 2 ^ (HalfBits - 1) <= 2 ^ (IntBits - 1)
    BY <1>1, PowerGrows, WordBitsType
  <1> QED
    BY <1>1, <1>2, <1>3, <1>4

(* The int that a value is cut to, which is the value if it fits. *)
LEMMA CutToInt ==
    ASSUME NEW x \in Int
    PROVE  /\ Signed(Round(x) % 2 ^ IntBits, IntBits) \in Int
           /\ FitsInt(x) => Signed(Round(x) % 2 ^ IntBits, IntBits) = Round(x)
  <1> DEFINE m == 2 ^ (IntBits - 1)
             M == 2 ^ IntBits
             r == Round(x)
  <1>1. m \in Nat /\ m > 0 /\ M = 2 * m
    BY IntPowers
  <1>2. r \in Int
    BY RoundClose
  <1>3. Signed(r % M, IntBits) = IF r % M >= m THEN (r % M) - M ELSE r % M
    BY DEF Signed
  <1>4. FitsInt(x) <=> r \in - m .. m - 1
    BY DEF FitsInt
  <1> HIDE DEF m, M, r
  <1>5. r % M \in Int
    BY <1>1, <1>2
  <1>6. r \in - m .. m - 1 => (IF r % (2 * m) >= m THEN (r % (2 * m)) - 2 * m ELSE r % (2 * m)) = r
    BY <1>1, SignBack
  <1>7. Signed(r % M, IntBits) \in Int
    BY <1>1, <1>3, <1>5
  <1>8. r \in - m .. m - 1 => Signed(r % M, IntBits) = r
    BY <1>1, <1>3, <1>6
  <1> QED
    BY <1>4, <1>7, <1>8 DEF M, r

(* A value that fits an int is stored as the closest one of its width. *)
LEMMA QuantiseClose ==
    ASSUME NEW x \in Int
    PROVE  /\ Quantise(x) \in - 2 ^ (HalfBits - 1) .. 2 ^ (HalfBits - 1) - 1
           /\ FitsInt(x) => Closest(x, 2 * Quantise(x), - 2 ^ HalfBits, 2 ^ HalfBits - 2)
  <1> DEFINE t == 2 ^ (HalfBits - 1)
             M == 2 ^ HalfBits
             n == Signed(Round(x) % 2 ^ IntBits, IntBits)
             q == Quantise(x)
  <1>1. t \in Nat /\ t > 0 /\ M = 2 * t /\ M \in Nat
    BY HalfPowers
  <1>2. n \in Int /\ (FitsInt(x) => x - 2 * n \in -1 .. 1)
    BY CutToInt, RoundClose
  <1>3. q = IF n < - t THEN - t ELSE IF n > t - 1 THEN t - 1 ELSE n
    BY DEF Quantise
  <1> HIDE DEF t, M, n, q
  <1>4. q \in - t .. t - 1
    BY <1>1, <1>2, <1>3
  <1>5. ASSUME FitsInt(x) PROVE Closest(x, 2 * q, - M, M - 2)
    <2>0. x - 2 * n \in -1 .. 1
      BY <1>2, <1>5
    <2>1. CASE n < - t
      <3>1. 2 * q = - M /\ x < 2 * q
        BY <1>1, <1>2, <1>3, <2>0, <2>1
      <3> QED
        BY <1>1, <3>1 DEF Closest
    <2>2. CASE n > t - 1
      <3>1. 2 * q = M - 2 /\ x > 2 * q
        BY <1>1, <1>2, <1>3, <2>0, <2>2
      <3> QED
        BY <1>1, <3>1 DEF Closest
    <2>3. CASE ~ (n < - t) /\ ~ (n > t - 1)
      <3>1. q = n /\ - M <= 2 * q /\ 2 * q <= M - 2
        BY <1>1, <1>2, <1>3, <2>3
      <3> QED
        BY <2>0, <3>1 DEF Closest
    <2> QED
      BY <1>2, <2>1, <2>2, <2>3
  <1> QED
    BY <1>4, <1>5 DEF t, M, q

(* Two halves of a word. *)
LEMMA Halves ==
    ASSUME NEW a \in 0 .. 2 ^ HalfBits - 1, NEW b \in 0 .. 2 ^ HalfBits - 1
    PROVE  /\ a * 2 ^ HalfBits + b \in Word /\ a * 2 ^ HalfBits + b \in Nat
           /\ Bits(a * 2 ^ HalfBits + b, HalfBits, HalfBits) = a
           /\ Bits(a * 2 ^ HalfBits + b, 0, HalfBits) = b
  <1> DEFINE M == 2 ^ HalfBits
             w == a * M + b
  <1>1. M \in Nat /\ M > 0 /\ 2 ^ WordBits \in Nat /\ M * M <= 2 ^ WordBits
    BY HalfPowers
  <1>2. a \in Nat /\ a < M /\ b \in 0 .. M - 1 /\ 2 ^ 0 = 1
    BY <1>1
  <1> HIDE DEF M
  <1>3. w \div M = a /\ w % M = b /\ w \in Nat
    BY <1>1, <1>2, Split
  <1>4. a % M = a
    BY <1>1, <1>2, ModSmall
  <1>5. w <= M * M - 1
    <2>1. M * M = a * M + (M - a) * M /\ M - a \in Nat /\ M - a > 0 /\ a * M \in Nat
      BY <1>1, <1>2
    <2>2. \A x \in Nat : x > 0 => x * M >= M
      BY <1>1
    <2>3. (M - a) * M >= M /\ (M - a) * M \in Nat
      BY <1>1, <2>1, <2>2
    <2> QED
      BY <1>1, <1>2, <2>1, <2>3
  <1>6. M * M \in Nat
    BY <1>1
  <1>7. w \in Word
    BY <1>1, <1>3, <1>5, <1>6 DEF Word
  <1>8. w \div 1 = w
    BY <1>3
  <1> QED
    BY <1>2, <1>3, <1>4, <1>7, <1>8 DEF M, Bits

(* The words of a sample fit a word; its values come back as stored. *)
LEMMA SampleStored ==
    ASSUME NEW sample \in Int \X Int, NEW factor \in Nat, NEW o
    PROVE  /\ SampleWord(sample, factor, o) \in Word
           /\ factor \in 1 .. 2 =>
                ReadSample(SampleWord(sample, factor, o), factor, o)
                  = <<(2 * Quantise(sample[1] * factor)) \div factor, (2 * Quantise(sample[2] * factor)) \div factor>>
  <1> DEFINE M == 2 ^ HalfBits
             m == 2 ^ (HalfBits - 1)
             x == Quantise(sample[1] * factor)
             y == Quantise(sample[2] * factor)
             i == x % M
             q == y % M
             w == SampleWord(sample, factor, o)
  <1>1. m \in Nat /\ m > 0 /\ M = 2 * m /\ M \in Nat
    BY HalfPowers
  <1>2. sample[1] * factor \in Int /\ sample[2] * factor \in Int
    OBVIOUS
  <1>3. x \in - m .. m - 1 /\ y \in - m .. m - 1
    BY <1>2, QuantiseClose
  <1>4. w = IF o = "BigEndian" THEN i * M + q ELSE q * M + i
    BY DEF SampleWord
  <1> HIDE DEF x, y
  <1>5. i \in 0 .. M - 1 /\ q \in 0 .. M - 1 /\ Signed(i, HalfBits) = x /\ Signed(q, HalfBits) = y
    <2> HIDE DEF M, m
    <2>1. /\ x % (2 * m) \in 0 .. 2 * m - 1
          /\ (IF x % (2 * m) >= m THEN (x % (2 * m)) - 2 * m ELSE x % (2 * m)) = x
      BY <1>1, <1>3, SignBack
    <2>2. /\ y % (2 * m) \in 0 .. 2 * m - 1
          /\ (IF y % (2 * m) >= m THEN (y % (2 * m)) - 2 * m ELSE y % (2 * m)) = y
      BY <1>1, <1>3, SignBack
    <2> QED
      BY <1>1, <2>1, <2>2 DEF Signed, m, M
  <1> HIDE DEF i, q
  <1>6. /\ i * M + q \in Word /\ Bits(i * M + q, HalfBits, HalfBits) = i /\ Bits(i * M + q, 0, HalfBits) = q
    BY <1>5, Halves
  <1>7. /\ q * M + i \in Word /\ Bits(q * M + i, HalfBits, HalfBits) = q /\ Bits(q * M + i, 0, HalfBits) = i
    BY <1>5, Halves
  <1> HIDE DEF w, M
  <1>8. w \in Word
    BY <1>4, <1>6, <1>7
  <1>9. ReadSample(w, factor, o) = <<(2 * x) \div factor, (2 * y) \div factor>>
    <2>1. CASE o = "BigEndian"
      BY <1>4, <1>5, <1>6, <2>1 DEF ReadSample
    <2>2. CASE o # "BigEndian"
      BY <1>4, <1>5, <1>7, <2>2 DEF ReadSample
    <2> QED
      BY <2>1, <2>2
  <1> QED
    BY <1>8, <1>9 DEF w, x, y

(* For every width, in both byte orders and with a scale factor that keeps *)
(* half steps whole, 1 or 2, decode() reads from a sample that encode()    *)
(* wrote the closest value of its width, full scale if it is beyond,       *)
(* provided that the scaled sample fits an int; and I is not taken for Q.  *)
THEOREM SampleRoundTrip ==
    ASSUME NEW sample \in Int \X Int, NEW factor \in 1 .. 2, NEW o \in ByteOrder
    PROVE  /\ SampleWord(sample, factor, o) \in Word
           /\ \A part \in 1 .. 2 :
                FitsInt(sample[part] * factor) =>
                  Closest(sample[part] * factor,
                          ReadSample(SampleWord(sample, factor, o), factor, o)[part] * factor,
                          - 2 ^ HalfBits, 2 ^ HalfBits - 2)
  <1> DEFINE z == ReadSample(SampleWord(sample, factor, o), factor, o)
  <1>1. /\ SampleWord(sample, factor, o) \in Word
        /\ z = <<(2 * Quantise(sample[1] * factor)) \div factor, (2 * Quantise(sample[2] * factor)) \div factor>>
    BY SampleStored
  <1> HIDE DEF z
  <1>2. \A k \in Int : ((2 * k) \div factor) * factor = 2 * k
    <2>1. factor = 1 \/ factor = 2
      OBVIOUS
    <2>2. \A k \in Int : ((2 * k) \div 1) * 1 = 2 * k /\ ((2 * k) \div 2) * 2 = 2 * k
      OBVIOUS
    <2> QED
      BY <2>1, <2>2
  <1>3. ASSUME NEW part \in 1 .. 2, FitsInt(sample[part] * factor)
        PROVE  Closest(sample[part] * factor, z[part] * factor, - 2 ^ HalfBits, 2 ^ HalfBits - 2)
    <2> DEFINE x == sample[part] * factor
    <2>1. x \in Int
      BY <1>3
    <2>2. z[part] = (2 * Quantise(x)) \div factor
      BY <1>1, <1>3
    <2>3. FitsInt(x)
      BY <1>3
    <2> HIDE DEF x
    <2>4. /\ Quantise(x) \in - 2 ^ (HalfBits - 1) .. 2 ^ (HalfBits - 1) - 1
          /\ Closest(x, 2 * Quantise(x), - 2 ^ HalfBits, 2 ^ HalfBits - 2)
      BY <2>1, <2>3, QuantiseClose
    <2>5. Quantise(x) \in Int
      BY <2>4, HalfPowers
    <2>6. z[part] * factor = 2 * Quantise(x)
      BY <1>2, <2>2, <2>5
    <2> QED
      BY <2>4, <2>6 DEF x
  <1> QED
    BY <1>1, <1>3 DEF z

-----------------------------------------------------------------------------
(* Packets. *)

(* A packet: the words of a complete header, and at least as many as its   *)
(* size says.                                                              *)
IsPacket(w, h, o) ==
    /\ w \in Seq(Word) /\ h \in Header /\ Complete(h)
    /\ SizeInWords(h) <= Len(w) /\ h.packetSize <= Len(w)
    /\ Shape(w, h, o)

(* A header has between one and seven words. *)
LEMMA SizeRange ==
    ASSUME NEW h
    PROVE  SizeInWords(h) \in Nat /\ 1 <= SizeInWords(h) /\ SizeInWords(h) <= 7
  BY DEF SizeInWords

(* The header without its count and size. *)
SameHeader(h, g) ==
    /\ h.packetType = g.packetType /\ h.classIdPresent = g.classIdPresent
    /\ h.trailerPresent = g.trailerPresent /\ h.tsiType = g.tsiType /\ h.tsfType = g.tsfType
    /\ h.streamId = g.streamId /\ h.classId = g.classId
    /\ h.integerTimestamp = g.integerTimestamp /\ h.fractionalTimestamp = g.fractionalTimestamp

(* A header with the size filled in. *)
LEMMA SizedHeader ==
    ASSUME NEW g \in Header, Complete(g), NEW size \in 0 .. MaxPacketSizeWords, NEW h,
           h = [g EXCEPT !.packetSize = size]
    PROVE  /\ h \in Header /\ Complete(h) /\ SameHeader(h, g) /\ SizeInWords(h) = SizeInWords(g)
           /\ h.packetSize = size /\ h.packetCount = g.packetCount
  <1>1. h \in Header /\ h.packetSize = size /\ h.packetCount = g.packetCount
    BY DEF Header
  <1>2. SameHeader(h, g)
    BY DEF Header, SameHeader
  <1>3. Complete(h)
    BY <1>2 DEF SameHeader, Complete
  <1>4. SizeInWords(h) = SizeInWords(g)
    BY <1>2 DEF SameHeader, SizeInWords
  <1> QED
    BY <1>1, <1>2, <1>3, <1>4

(* The packet w is the header h and the words rest. *)
HeadAndRest(w, h, rest, o) ==
    /\ IsPacket(w, h, o) /\ Len(w) = SizeInWords(h) + Len(rest)
    /\ \A k \in 1 .. Len(rest) : w[SizeInWords(h) + k] = rest[k]

(* A packet is a header and what follows it. *)
LEMMA HeaderThenRest ==
    ASSUME NEW h \in Header, Complete(h), NEW o, NEW rest \in Seq(Word),
           h.packetSize <= SizeInWords(h) + Len(rest)
    PROVE  HeadAndRest(Serialize(h, o) \o rest, h, rest, o)
  <1> DEFINE s == Serialize(h, o)
             w == s \o rest
  <1>1. s \in Seq(Word) /\ Len(s) = SizeInWords(h) /\ Shape(s, h, o)
    BY SerializeShape
  <1> HIDE DEF s
  <1>2. /\ w \in Seq(Word) /\ Len(w) = Len(s) + Len(rest) /\ Len(rest) \in Nat
        /\ \A k \in 1 .. Len(s) : w[k] = s[k]
        /\ \A k \in 1 .. Len(rest) : w[Len(s) + k] = rest[k]
    <2>1. s \in Seq(Word)
      BY <1>1
    <2>2. /\ s \o rest \in Seq(Word) /\ Len(s \o rest) = Len(s) + Len(rest) /\ Len(rest) \in Nat
          /\ \A k \in 1 .. Len(s) : (s \o rest)[k] = s[k]
          /\ \A k \in 1 .. Len(rest) : (s \o rest)[Len(s) + k] = rest[k]
      BY <2>1, Concat
    <2> QED
      BY <2>2
  <1> HIDE DEF w
  <1>3. Shape(w, h, o)
    BY <1>1, <1>2 DEF Shape, SizeInWords, ClassAt, TsiAt, TsfAt
  <1>4. SizeInWords(h) \in Nat
    BY SizeRange
  <1> QED
    BY <1>1, <1>2, <1>3, <1>4 DEF IsPacket, HeadAndRest, w, s

(* A header that the encoders build. *)
Built(h, type, count, trailer, stamp) ==
    /\ h \in Header /\ Complete(h)
    /\ h.packetType = type /\ h.packetCount = count % 16 /\ h.trailerPresent = trailer
    /\ h.tsiType = stamp.tsi /\ h.tsfType = stamp.tsf /\ h.classIdPresent = 0
    /\ h.packetSize = 0
    /\ SizeInWords(h) = 2 + (IF stamp.tsi # 0 THEN 1 ELSE 0) + (IF stamp.tsf # 0 THEN 2 ELSE 0)

(* NewHeader builds it. *)
LEMMA NewHeaderOK ==
    ASSUME NEW type \in {1, 4}, NEW id \in Word, NEW count \in Nat, NEW trailer \in 0 .. 1,
           NEW stamp \in [tsi : 0 .. 3, tsf : 0 .. 3, int : Word, frac : Word \X Word],
           trailer = 1 => type = 1,
           NEW h, h = NewHeader(type, id, count, trailer, stamp)
    PROVE  Built(h, type, count, trailer, stamp)
  <1> DEFINE int == IF stamp.tsi # 0 THEN <<stamp.int>> ELSE <<>>
             frac == IF stamp.tsf # 0 THEN stamp.frac ELSE <<>>
  <1>1. h = [packetType |-> type, classIdPresent |-> 0, trailerPresent |-> trailer, tsiType |-> stamp.tsi,
             tsfType |-> stamp.tsf, packetCount |-> count % 16, packetSize |-> 0, streamId |-> <<id>>,
             classId |-> <<>>, integerTimestamp |-> int, fractionalTimestamp |-> frac]
    BY DEF NewHeader, DefaultHeader
  <1>2. int \in Seq(Word) /\ Len(int) = IF stamp.tsi # 0 THEN 1 ELSE 0
    <2>1. stamp.int \in Word /\ <<stamp.int>> \in Seq(Word) /\ Len(<<stamp.int>>) = 1
      OBVIOUS
    <2>2. CASE stamp.tsi # 0
      BY <2>1, <2>2
    <2>3. CASE stamp.tsi = 0
      BY <2>3
    <2> QED
      BY <2>2, <2>3
  <1>3. frac \in Seq(Word) /\ Len(frac) = IF stamp.tsf # 0 THEN 2 ELSE 0
    <2>1. PICK x \in Word, y \in Word : stamp.frac = <<x, y>>
      OBVIOUS
    <2>2. stamp.frac \in Seq(Word) /\ Len(stamp.frac) = 2
      BY <2>1, TwoType
    <2>3. CASE stamp.tsf # 0
      BY <2>2, <2>3
    <2>4. CASE stamp.tsf = 0
      BY <2>4
    <2> QED
      BY <2>3, <2>4
  <1>4. <<id>> \in Seq(Word) /\ Len(<<id>>) = 1 /\ <<>> \in Seq(Word) /\ Len(<<>>) = 0
    OBVIOUS
  <1>5. count % 16 \in 0 .. 15 /\ 0 \in 0 .. MaxPacketSizeWords
    BY HeaderPowers DEF MaxPacketSizeWords
  <1>6. stamp.tsi \in 0 .. 3 /\ stamp.tsf \in 0 .. 3
    OBVIOUS
  <1> HIDE DEF int, frac
  <1>7. /\ h.packetType = type /\ h.packetCount = count % 16 /\ h.trailerPresent = trailer
        /\ h.tsiType = stamp.tsi /\ h.tsfType = stamp.tsf /\ h.classIdPresent = 0 /\ h.packetSize = 0
        /\ h.streamId = <<id>> /\ h.classId = <<>> /\ h.integerTimestamp = int /\ h.fractionalTimestamp = frac
    BY <1>1
  <1>8. h \in Header
    <2>1. type \in 0 .. 15 /\ 0 \in 0 .. 1
      OBVIOUS
    <2> QED
      BY <1>1, <1>2, <1>3, <1>4, <1>5, <1>6, <2>1 DEF Header
  <1>9. HasStreamId(type) /\ (trailer = 1 => IsDataPacket(type))
    BY DEF HasStreamId, IsDataPacket
  <1>10. Complete(h)
    BY <1>2, <1>3, <1>4, <1>7, <1>9 DEF Complete
  <1>11. SizeInWords(h) = 2 + (IF stamp.tsi # 0 THEN 1 ELSE 0) + (IF stamp.tsf # 0 THEN 2 ELSE 0)
    BY <1>7, <1>9 DEF SizeInWords
  <1> QED
    BY <1>7, <1>8, <1>10, <1>11 DEF Built

-----------------------------------------------------------------------------
(* Signal data packets. *)

(* The longest packet has room for the header of encodeSignalData(). *)
LEMMA MaxPacketType == MaxPacketSizeWords \in Nat /\ MaxPacketSizeWords >= 7 /\ MaxPacketSizeWords \in Int
  <1>1. 3 \in Nat /\ 3 <= SizeBits /\ SizeBits \in Nat /\ SizeBits <= WordBits
    BY WordBitsType, Vita49Assumption
  <1>2. 8 <= 2 ^ SizeBits
    <2>1. \A k \in 0 .. 3 : 2 ^ k <= 2 ^ SizeBits
      BY <1>1, PowerGrows
    <2>2. 2 ^ 3 = 8
      OBVIOUS
    <2> QED
      BY <2>1, <2>2
  <1> QED
    BY <1>2, HeaderPowers DEF MaxPacketSizeWords

(* encode() of a signal data packet: header, samples and trailer. *)
LEMMA SignalPacket ==
    ASSUME NEW g \in Header, Complete(g), NEW samples \in Seq(Int \X Int), NEW factor \in Nat, NEW o,
           NEW total, total = SizeInWords(g) + Len(samples) + g.trailerPresent,
           total <= MaxPacketSizeWords,
           NEW h, h = [g EXCEPT !.packetSize = total],
           NEW w, w = SignalEncode(g, samples, factor, o)
    PROVE  /\ IsPacket(w, h, o) /\ SameHeader(h, g) /\ SizeInWords(h) = SizeInWords(g)
           /\ h.packetSize = total /\ Len(w) = total /\ h.packetCount = g.packetCount
           /\ \A k \in 1 .. Len(samples) : w[SizeInWords(h) + k] = SampleWord(samples[k], factor, o)
  <1> DEFINE body == [k \in 1 .. Len(samples) |-> SampleWord(samples[k], factor, o)]
             tail == IF g.trailerPresent = 1 THEN <<0>> ELSE <<>>
             s == Serialize(h, o)
  <1>1. Len(samples) \in Nat /\ \A k \in 1 .. Len(samples) : samples[k] \in Int \X Int
    OBVIOUS
  <1>2. g.trailerPresent \in 0 .. 1 /\ SizeInWords(g) \in Nat /\ MaxPacketSizeWords \in Nat
    BY HeaderRanges, SizeRange, MaxPacketType
  <1>3. total \in 0 .. MaxPacketSizeWords
    BY <1>1, <1>2
  <1>4. /\ h \in Header /\ Complete(h) /\ SameHeader(h, g) /\ SizeInWords(h) = SizeInWords(g)
        /\ h.packetSize = total /\ h.packetCount = g.packetCount
    BY <1>3, SizedHeader
  <1>5. body \in Seq(Word) /\ Len(body) = Len(samples) /\ \A k \in 1 .. Len(samples) : body[k] = SampleWord(samples[k], factor, o)
    <2>1. \A k \in 1 .. Len(samples) : SampleWord(samples[k], factor, o) \in Word
      BY <1>1, SampleStored
    <2> QED
      BY <1>1, <2>1
  <1>6. tail \in Seq(Word) /\ Len(tail) = g.trailerPresent
    <2>1. 0 \in Word
      <3> DEFINE P == 2 ^ WordBits
      <3>1. WordBits \in 0 .. WordBits
        BY WordBitsType
      <3>2. P \in Nat /\ P > 0
        BY <3>1, PowerType
      <3> HIDE DEF P
      <3>3. 0 \in 0 .. P - 1
        BY <3>2
      <3> QED
        BY <3>3 DEF Word, P
    <2>2. CASE g.trailerPresent = 1
      BY <2>1, <2>2
    <2>3. CASE g.trailerPresent = 0
      BY <2>3
    <2> QED
      BY <1>2, <2>2, <2>3
  <1>7. w = s \o body \o tail
    <2>1. ~ (total > MaxPacketSizeWords)
      BY <1>3, MaxPacketType
    <2> QED
      BY <2>1 DEF SignalEncode
  <1>8. s \in Seq(Word)
    BY <1>4, SerializeShape
  <1> HIDE DEF body, tail, s
  <1> DEFINE rest == body \o tail
  <1>9. /\ rest \in Seq(Word) /\ Len(rest) = Len(body) + Len(tail)
        /\ \A k \in 1 .. Len(body) : rest[k] = body[k]
    BY <1>5, <1>6, Concat
  <1>10. w = s \o rest
    BY <1>5, <1>6, <1>7, <1>8, ConcatAssociative
  <1> HIDE DEF rest
  <1>11. h.packetSize = SizeInWords(h) + Len(rest) /\ Len(rest) \in Nat
    BY <1>1, <1>2, <1>4, <1>5, <1>6, <1>9
  <1>12. h.packetSize <= SizeInWords(h) + Len(rest)
    BY <1>3, <1>4, <1>11
  <1>13. /\ IsPacket(w, h, o) /\ Len(w) = SizeInWords(h) + Len(rest)
         /\ \A k \in 1 .. Len(rest) : w[SizeInWords(h) + k] = rest[k]
    <2>1. h \in Header /\ Complete(h) /\ rest \in Seq(Word) /\ w = Serialize(h, o) \o rest
      BY <1>4, <1>9, <1>10 DEF s
    <2>2. HeadAndRest(w, h, rest, o)
      BY <1>12, <2>1, HeaderThenRest
    <2> QED
      BY <1>12, <2>1, <2>2 DEF HeadAndRest
  <1>14. ASSUME NEW k \in 1 .. Len(samples)
         PROVE  w[SizeInWords(h) + k] = SampleWord(samples[k], factor, o)
    <2>1. Len(body) = Len(samples) /\ Len(tail) \in Nat
      BY <1>2, <1>5, <1>6
    <2>2. k \in 1 .. Len(body) /\ k \in 1 .. Len(rest)
      BY <1>1, <1>9, <2>1
    <2> QED
      BY <1>5, <1>9, <1>13, <2>2
  <1> QED
    BY <1>4, <1>11, <1>13, <1>14

(* A quotient and its remainder. *)
LEMMA DivBounds ==
    ASSUME NEW a \in Nat, NEW m \in Nat, m > 0
    PROVE  a \div m \in Nat /\ (a \div m) * m <= a /\ a < (a \div m) * m + m
  OBVIOUS

(* How samples are split over packets. *)
LEMMA SplitFacts ==
    ASSUME NEW L \in Nat, NEW most \in Nat, most > 0,
           NEW number, number = IF L = 0 THEN 1 ELSE (L + most - 1) \div most
    PROVE  /\ number \in Nat /\ number >= 1
           /\ \A k \in 1 .. number :
                /\ (k - 1) * most \in Nat /\ (k - 1) * most <= L
                /\ L - (k - 1) * most <= most <=> k = number
                /\ k # number => k * most <= L
                /\ k * most = (k - 1) * most + most
  <1>1. CASE L = 0
    BY <1>1
  <1>2. CASE L # 0
    <2>1. L + most - 1 \in Nat
      BY <1>2
    <2>2. number = (L + most - 1) \div most
      BY <1>2
    <2>3. number \in Nat /\ number * most <= L + most - 1 /\ L + most - 1 < number * most + most
      BY <2>1, <2>2, DivBounds
    <2>4. number >= 1
      <3> SUFFICES ASSUME number = 0
                   PROVE  FALSE
        BY <2>3
      <3>1. number * most = 0
        OBVIOUS
      <3> QED
        BY <1>2, <2>3, <3>1
    <2>5. ASSUME NEW k \in 1 .. number
          PROVE  /\ (k - 1) * most \in Nat /\ (k - 1) * most <= L
                 /\ L - (k - 1) * most <= most <=> k = number
                 /\ k # number => k * most <= L
                 /\ k * most = (k - 1) * most + most
      <3>1. (k - 1) * most \in Nat /\ k * most = (k - 1) * most + most /\ number * most \in Nat
        BY <2>3
      <3>2. k = number => number * most = k * most
        OBVIOUS
      <3>3. k # number => number * most >= k * most + most
        <4>1. k # number => number - k >= 1 /\ number - k \in Nat /\ number * most = k * most + (number - k) * most
          BY <2>3
        <4>2. \A x \in Nat : x >= 1 => x * most >= most
          OBVIOUS
        <4>3. k * most \in Nat /\ \A x \in Nat : x * most \in Nat
          OBVIOUS
        <4> QED
          BY <4>1, <4>2, <4>3
      <3> QED
        BY <2>3, <3>1, <3>2, <3>3
    <2> QED
      BY <2>3, <2>4, <2>5
  <1> QED
    BY <1>1, <1>2

-----------------------------------------------------------------------------
(* Where the packets of a stream are. *)

(* parsePacket() accepts w, if no scale factor of 0 is in the way. *)
Acceptable(w) ==
    IF IsDataPacket(Fixed(w[1]).packetType) THEN SignalValid(w, 1)
    ELSE IF IsContextPacket(Fixed(w[1]).packetType) THEN ContextValid(w)
    ELSE Fixed(w[1]).packetSize # 0

(* The words w lie in words after the first p. *)
Block(words, p, w) ==
    p + Len(w) <= Len(words) /\ \A k \in 1 .. Len(w) : words[p + k] = w[k]

(* The packets of one encodeSignalData() call: all but the last are full,  *)
(* and the next one has the next count.                                    *)
Numbered(words, p, w, h, call) ==
    /\ p = call.first => h.packetCount = call.header.packetCount
    /\ p + Len(w) < call.end =>
         /\ Len(w) = MaxPacketSizeWords
         /\ Fixed(words[p + Len(w) + 1]).packetCount = (h.packetCount + 1) % 16

(* The number of samples in a full packet of a call, and in w. *)
MostOf(call) == MaxPacketSizeWords - SizeInWords(call.header) - call.header.trailerPresent
InPacket(w, call) == Len(w) - SizeInWords(call.header) - call.header.trailerPresent

(* The packet after m full ones has the samples that follow theirs. *)
SamplesIn(p, w, call, o) ==
    /\ IsDataPacket(call.header.packetType)
    /\ InPacket(w, call) \in Nat /\ MostOf(call) \in Nat
    /\ \E m \in Nat :
         /\ p = call.first + m * MaxPacketSizeWords
         /\ m * MostOf(call) + InPacket(w, call) <= Len(call.samples)
         /\ p + Len(w) = call.end => m * MostOf(call) + InPacket(w, call) = Len(call.samples)
         /\ \A k \in 1 .. InPacket(w, call) :
              w[SizeInWords(call.header) + k] = SampleWord(call.samples[m * MostOf(call) + k], call.scale, o)

(* What decode() finds in a context packet are the fields that were given. *)
FieldsClose(found, fields) ==
    \A b \in Field :
        /\ Len(found[b]) = Len(fields[b])
        /\ \A k \in DOMAIN found[b] : IF b \in PlainField THEN found[b][k] = fields[b][k]
                                      ELSE found[b][k] - fields[b][k] \in -1 .. 1

(* At p in words begins the packet w, with header h, of a call. *)
PacketIn(words, p, T, call, o, w, h) ==
    /\ IsPacket(w, h, o) /\ SameHeader(h, call.header)
    /\ Block(words, p, w) /\ p + Len(w) <= call.end
    /\ call.wellFormed = Acceptable(w)
    /\ call.wellFormed => h.packetSize = Len(w) /\ p + Len(w) \in T
    /\ call.kind # "SignalData" =>
         p = call.first /\ p + Len(w) = call.end /\ h.packetCount = call.header.packetCount
    /\ call.kind = "SignalData" => Numbered(words, p, w, h, call) /\ SamplesIn(p, w, call, o)
    /\ call.kind = "Context" => IsContextPacket(h.packetType) /\ FieldsClose(ContextFields(w, o), call.fields)

PacketAt(words, p, T, call, o) == \E w, h : PacketIn(words, p, T, call, o, w, h)

(* A call, moved by L words. *)
Moved(c, d, L) ==
    /\ d.kind = c.kind /\ d.header = c.header /\ d.samples = c.samples /\ d.fields = c.fields
    /\ d.wellFormed = c.wellFormed /\ d.scale = c.scale
    /\ d.first = L + c.first /\ d.end = L + c.end

(* The words of a call keep their packets wherever they are put. *)
LEMMA PacketMoves ==
    ASSUME NEW words \in Seq(Word), NEW p \in Nat, NEW T, NEW c, NEW o, PacketAt(words, p, T, c, o),
           c.first \in Nat, c.end \in Nat, c.end <= Len(words),
           NEW L \in Nat, NEW longer \in Seq(Word), Block(longer, L, words), NEW d, Moved(c, d, L),
           NEW U, \A t \in T : L + t \in U
    PROVE  PacketAt(longer, L + p, U, d, o)
  <1>1. PICK w, h : PacketIn(words, p, T, c, o, w, h)
    BY DEF PacketAt
  <1>2. w \in Seq(Word) /\ Len(w) \in Nat /\ Len(words) \in Nat /\ Len(longer) \in Nat
    BY <1>1 DEF PacketIn, IsPacket
  <1>3. p + Len(w) <= Len(words) /\ \A k \in 1 .. Len(w) : words[p + k] = w[k]
    BY <1>1 DEF PacketIn, Block
  <1>4. L + Len(words) <= Len(longer) /\ \A k \in 1 .. Len(words) : longer[L + k] = words[k]
    BY DEF Block
  <1>5. Block(longer, L + p, w)
    <2>1. (L + p) + Len(w) <= Len(longer)
      BY <1>2, <1>3, <1>4
    <2>2. ASSUME NEW k \in 1 .. Len(w)
          PROVE  longer[(L + p) + k] = w[k]
      <3>1. p + k \in 1 .. Len(words) /\ (L + p) + k = L + (p + k)
        BY <1>2, <1>3
      <3> QED
        BY <1>3, <1>4, <3>1
    <2> QED
      BY <2>1, <2>2 DEF Block
  <1>6. (L + p) + Len(w) = L + (p + Len(w)) /\ (L + p) + Len(w) <= d.end
    BY <1>1, <1>2 DEF PacketIn, Moved
  <1>7. c.wellFormed => (L + p) + Len(w) \in U
    <2>1. c.wellFormed => p + Len(w) \in T
      BY <1>1 DEF PacketIn
    <2> QED
      BY <1>6, <2>1
  <1>8. c.kind # "SignalData" =>
          L + p = d.first /\ (L + p) + Len(w) = d.end /\ h.packetCount = d.header.packetCount
    BY <1>1, <1>6 DEF PacketIn, Moved
  <1>9. c.kind = "SignalData" => Numbered(longer, L + p, w, h, d)
    <2> SUFFICES ASSUME Numbered(words, p, w, h, c)
                 PROVE  Numbered(longer, L + p, w, h, d)
      BY <1>1 DEF PacketIn
    <2>1. L + p = d.first => p = c.first
      BY DEF Moved
    <2>2. (L + p) + Len(w) < d.end => p + Len(w) < c.end
      BY <1>2, <1>6 DEF Moved
    <2>3. p + Len(w) < c.end => longer[((L + p) + Len(w)) + 1] = words[(p + Len(w)) + 1]
      <3>1. p + Len(w) < c.end => (p + Len(w)) + 1 \in 1 .. Len(words)
        BY <1>2
      <3>2. ((L + p) + Len(w)) + 1 = L + ((p + Len(w)) + 1)
        BY <1>2
      <3> QED
        BY <1>4, <3>1, <3>2
    <2> QED
      BY <2>1, <2>2, <2>3 DEF Numbered, Moved
  <1>10. c.kind = "SignalData" => SamplesIn(L + p, w, d, o)
    <2> SUFFICES ASSUME SamplesIn(p, w, c, o)
                 PROVE  SamplesIn(L + p, w, d, o)
      BY <1>1 DEF PacketIn
    <2>1. MostOf(d) = MostOf(c) /\ InPacket(w, d) = InPacket(w, c)
      BY DEF Moved, MostOf, InPacket
    <2>2. d.header = c.header /\ d.samples = c.samples /\ d.scale = c.scale /\ d.first = L + c.first /\ d.end = L + c.end
      BY DEF Moved
    <2>3. PICK m \in Nat :
            /\ p = c.first + m * MaxPacketSizeWords
            /\ m * MostOf(c) + InPacket(w, c) <= Len(c.samples)
            /\ p + Len(w) = c.end => m * MostOf(c) + InPacket(w, c) = Len(c.samples)
            /\ \A k \in 1 .. InPacket(w, c) :
                 w[SizeInWords(c.header) + k] = SampleWord(c.samples[m * MostOf(c) + k], c.scale, o)
      BY DEF SamplesIn
    <2>4. L + p = d.first + m * MaxPacketSizeWords
      <3>1. m * MaxPacketSizeWords \in Nat
        BY MaxPacketType
      <3> QED
        BY <2>2, <2>3, <3>1
    <2>5. (L + p) + Len(w) = d.end => p + Len(w) = c.end
      <3>1. p + Len(w) \in Nat /\ (L + p) + Len(w) = L + (p + Len(w)) /\ d.end = L + c.end
        BY <1>2, <1>6, <2>2
      <3>2. \A x, y \in Nat : L + x = L + y => x = y
        OBVIOUS
      <3> QED
        BY <3>1, <3>2
    <2> QED
      BY <2>1, <2>2, <2>3, <2>4, <2>5 DEF SamplesIn
  <1> QED
    BY <1>1, <1>5, <1>6, <1>7, <1>8, <1>9, <1>10 DEF PacketAt, PacketIn, Moved

-----------------------------------------------------------------------------
(* What parsePacket() sees of a packet. *)

(* The bit fields of a packet are those of its header. *)
LEMMA PacketFixed ==
    ASSUME NEW w, NEW h, NEW o, IsPacket(w, h, o)
    PROVE  /\ w \in Seq(Word) /\ Len(w) \in Nat /\ Len(w) >= 1 /\ w # <<>>
           /\ Fixed(w[1]).packetType = h.packetType
           /\ Fixed(w[1]).trailerPresent = h.trailerPresent
           /\ Fixed(w[1]).packetCount = h.packetCount
           /\ Fixed(w[1]).packetSize = h.packetSize
           /\ SizeInWords(Fixed(w[1])) = SizeInWords(h)
           /\ h.packetSize \in Nat /\ h.packetCount \in 0 .. 15 /\ h.trailerPresent \in 0 .. 1
  <1>1. h \in Header /\ Complete(h) /\ w \in Seq(Word) /\ SizeInWords(h) <= Len(w) /\ w[1] = Word0(h)
    BY DEF IsPacket, Shape
  <1>2. h.packetSize \in Nat /\ h.packetCount \in 0 .. 15 /\ h.trailerPresent \in 0 .. 1
    BY <1>1, HeaderRanges, HeaderPowers
  <1>3. Len(w) \in Nat /\ Len(w) >= 1 /\ w # <<>>
    BY <1>1, SizeRange
  <1> QED
    BY <1>1, <1>2, <1>3, FixedOfHeader

(* Where a field is depends on the header's size and on CIF0. *)
FieldFrom(first, cif0, b) ==
    LET at[c \in b .. 31] ==
            IF c = 31 THEN first + 1
            ELSE at[c + 1] + (IF Cif0Has(cif0, c + 1) THEN Cif0FieldSizeWords(c + 1) ELSE 0)
    IN  at[b]

(* FieldAt is that place. *)
LEMMA FieldAtFrom ==
    ASSUME NEW words, NEW b
    PROVE  FieldAt(words, b) = FieldFrom(SizeInWords(Fixed(words[1])) + 1,
                                         words[SizeInWords(Fixed(words[1])) + 1], b)
  BY DEF FieldAt, FieldFrom

(* The field b of a packet of the given size does not end beyond it. *)
FieldFits(words, cif0, size, b) ==
    Cif0Has(cif0, b) => FieldAt(words, b) + Cif0FieldSizeWords(b) - 1 <= size

(* What decode() tests, part by part. *)
LEMMA ContextValidParts ==
    ASSUME NEW words, NEW f, f = Fixed(words[1])
    PROVE  ContextValid(words) <=>
             /\ HeaderValid(words) /\ IsContextPacket(f.packetType) /\ SizeInWords(f) + 1 <= f.packetSize
             /\ \A b \in 15 .. 30 : FieldFits(words, words[SizeInWords(f) + 1], f.packetSize, b)
  BY DEF ContextValid, FieldFits

(* Whether a packet is accepted depends on the words of its size only. *)
LEMMA ValidSame ==
    ASSUME NEW w \in Seq(Word), NEW r \in Seq(Word), Len(w) > 0, Len(r) > 0, r[1] = w[1],
           Fixed(w[1]).packetSize \in Nat, Fixed(w[1]).packetSize <= Len(w), Fixed(w[1]).packetSize <= Len(r),
           \A k \in 1 .. Fixed(w[1]).packetSize : r[k] = w[k]
    PROVE  /\ \A factor : SignalValid(r, factor) <=> SignalValid(w, factor)
           /\ ContextValid(r) <=> ContextValid(w)
  <1> DEFINE f == Fixed(w[1])
             a == SizeInWords(f) + 1
  <1>1. w # <<>> /\ r # <<>>
    OBVIOUS
  <1>2. HeaderValid(r) <=> HeaderValid(w)
    BY <1>1 DEF HeaderValid
  <1>3. \A factor : SignalValid(r, factor) <=> SignalValid(w, factor)
    BY <1>2 DEF SignalValid
  <1>4. f = Fixed(w[1]) /\ f = Fixed(r[1])
    OBVIOUS
  <1>5. ContextValid(w) <=> /\ HeaderValid(w) /\ IsContextPacket(f.packetType) /\ a <= f.packetSize
                            /\ \A b \in 15 .. 30 : FieldFits(w, w[a], f.packetSize, b)
    BY <1>4, ContextValidParts
  <1>6. ContextValid(r) <=> /\ HeaderValid(r) /\ IsContextPacket(f.packetType) /\ a <= f.packetSize
                            /\ \A b \in 15 .. 30 : FieldFits(r, r[a], f.packetSize, b)
    BY <1>4, ContextValidParts
  <1>7. a <= f.packetSize => r[a] = w[a]
    <2>1. a <= f.packetSize => a \in 1 .. f.packetSize
      BY SizeRange
    <2> QED
      BY <2>1
  <1>8. a <= f.packetSize => \A b : FieldAt(r, b) = FieldAt(w, b)
    BY <1>7, FieldAtFrom
  <1> HIDE DEF f, a
  <1>9. a <= f.packetSize => \A b : FieldFits(r, r[a], f.packetSize, b) <=> FieldFits(w, w[a], f.packetSize, b)
    BY <1>7, <1>8 DEF FieldFits
  <1>10. ContextValid(r) <=> ContextValid(w)
    BY <1>2, <1>5, <1>6, <1>9
  <1> QED
    BY <1>3, <1>10

(* The recursive function that gives the places of the fields b and above. *)
Gap(cif0, c) == IF Cif0Has(cif0, c) THEN Cif0FieldSizeWords(c) ELSE 0
Places(f, first, cif0, b) ==
    f = [c \in b .. 31 |-> IF c = 31 THEN first + 1 ELSE f[c + 1] + Gap(cif0, c + 1)]

(* Its values. *)
LEMMA PlacesAt ==
    ASSUME NEW f, NEW first, NEW cif0, NEW b \in 0 .. 31, Places(f, first, cif0, b), NEW c \in b .. 31
    PROVE  f[c] = IF c = 31 THEN first + 1 ELSE f[c + 1] + Gap(cif0, c + 1)
  BY DEF Places

(* It exists. *)
LEMMA PlacesExist ==
    ASSUME NEW first, NEW cif0, NEW b \in 0 .. 31
    PROVE  \E f : Places(f, first, cif0, b)
  <1> DEFINE T == {n \in Nat : n <= 31 => \E f : Places(f, first, cif0, 31 - n)}
  <1>1. 0 \in T
    <2> DEFINE g == [c \in 31 .. 31 |-> first + 1]
    <2>1. g = [c \in 31 .. 31 |-> IF c = 31 THEN first + 1 ELSE g[c + 1] + Gap(cif0, c + 1)]
      OBVIOUS
    <2> HIDE DEF g
    <2>2. Places(g, first, cif0, 31)
      BY <2>1 DEF Places
    <2> QED
      BY <2>2
  <1>2. ASSUME NEW n \in Nat, n \in T
        PROVE  n + 1 \in T
    <2> SUFFICES ASSUME n + 1 <= 31
                 PROVE  \E f : Places(f, first, cif0, 31 - (n + 1))
      OBVIOUS
    <2> DEFINE e == 31 - (n + 1)
    <2>1. e \in 0 .. 30 /\ 31 - n = e + 1 /\ e + 1 \in 0 .. 31
      OBVIOUS
    <2>2. PICK f : Places(f, first, cif0, e + 1)
      BY <1>2, <2>1
    <2> HIDE DEF e
    <2> DEFINE g == [c \in e .. 31 |-> IF c = e THEN f[e + 1] + Gap(cif0, e + 1) ELSE f[c]]
    <2>3. \A c \in e .. 31 : g[c] = IF c = 31 THEN first + 1 ELSE g[c + 1] + Gap(cif0, c + 1)
      <3> SUFFICES ASSUME NEW c \in e .. 31
                   PROVE  g[c] = IF c = 31 THEN first + 1 ELSE g[c + 1] + Gap(cif0, c + 1)
        OBVIOUS
      <3>1. CASE c = e
        BY <2>1, <3>1
      <3>2. CASE c # e
        <4>1. c \in e + 1 .. 31
          BY <2>1, <3>2
        <4>2. f[c] = IF c = 31 THEN first + 1 ELSE f[c + 1] + Gap(cif0, c + 1)
          BY <2>1, <2>2, <4>1, PlacesAt
        <4>3. g[c] = f[c] /\ (c # 31 => g[c + 1] = f[c + 1])
          BY <2>1, <3>2, <4>1
        <4> QED
          BY <4>2, <4>3
      <3> QED
        BY <3>1, <3>2
    <2>4. Places(g, first, cif0, e)
      <3> DEFINE g2 == [c \in e .. 31 |-> IF c = 31 THEN first + 1 ELSE g[c + 1] + Gap(cif0, c + 1)]
      <3>1. g = [c \in e .. 31 |-> g[c]]
        OBVIOUS
      <3> HIDE DEF g
      <3>2. g = g2
        BY <2>3, <3>1
      <3> QED
        BY <3>2 DEF Places
    <2> QED
      BY <2>4 DEF e
  <1> HIDE DEF T
  <1>3. 31 - b \in T
    <2>1. Nat \subseteq T
      BY <1>1, <1>2, SetInduction
    <2> QED
      BY <2>1
  <1> QED
    BY <1>3 DEF T

(* Two such functions agree where both are defined. *)
Agree(f, g, b, d) == \A c \in 0 .. 31 : b <= c /\ d <= c => f[c] = g[c]

(* It does not depend on where it ends. *)
LEMMA PlacesSame ==
    ASSUME NEW first, NEW cif0, NEW b \in 0 .. 31, NEW d \in 0 .. 31, NEW f, NEW g,
           Places(f, first, cif0, b), Places(g, first, cif0, d)
    PROVE  Agree(f, g, b, d)
  <1> DEFINE T == {n \in Nat : b <= 31 - n /\ d <= 31 - n => f[31 - n] = g[31 - n]}
  <1>1. 0 \in T
    BY PlacesAt
  <1>2. ASSUME NEW n \in Nat, n \in T
        PROVE  n + 1 \in T
    <2> SUFFICES ASSUME b <= 31 - (n + 1), d <= 31 - (n + 1)
                 PROVE  f[31 - (n + 1)] = g[31 - (n + 1)]
      OBVIOUS
    <2> DEFINE e == 31 - (n + 1)
    <2>1. e \in b .. 31 /\ e \in d .. 31 /\ e # 31 /\ e + 1 = 31 - n
      OBVIOUS
    <2>2. f[e + 1] = g[e + 1]
      BY <1>2, <2>1
    <2> HIDE DEF e
    <2>3. f[e] = f[e + 1] + Gap(cif0, e + 1) /\ g[e] = g[e + 1] + Gap(cif0, e + 1)
      BY <2>1, PlacesAt
    <2> QED
      BY <2>2, <2>3 DEF e
  <1> HIDE DEF T
  <1>3. Nat \subseteq T
    BY <1>1, <1>2, SetInduction
  <1>4. ASSUME NEW c \in 0 .. 31, b <= c, d <= c
        PROVE  f[c] = g[c]
    <2>1. 31 - c \in T /\ 31 - (31 - c) = c
      BY <1>3
    <2> QED
      BY <1>4, <2>1 DEF T
  <1> QED
    BY <1>4 DEF Agree

(* The place of a field is that of such a function. *)
LEMMA FieldFromPlaces ==
    ASSUME NEW first, NEW cif0, NEW b \in 0 .. 31
    PROVE  \E f : Places(f, first, cif0, b) /\ FieldFrom(first, cif0, b) = f[b]
  <1> DEFINE F == CHOOSE f : f = [c \in b .. 31 |->
                    IF c = 31 THEN first + 1
                    ELSE f[c + 1] + (IF Cif0Has(cif0, c + 1) THEN Cif0FieldSizeWords(c + 1) ELSE 0)]
  <1>1. FieldFrom(first, cif0, b) = F[b]
    BY DEF FieldFrom
  <1>2. \E f : f = [c \in b .. 31 |->
                    IF c = 31 THEN first + 1
                    ELSE f[c + 1] + (IF Cif0Has(cif0, c + 1) THEN Cif0FieldSizeWords(c + 1) ELSE 0)]
    <2>1. PICK f : Places(f, first, cif0, b)
      BY PlacesExist
    <2> QED
      BY <2>1 DEF Places, Gap
  <1>3. Places(F, first, cif0, b)
    BY <1>2 DEF Places, Gap
  <1> QED
    BY <1>1, <1>3

(* The first field follows CIF0, and each of the others the one before it. *)
LEMMA FieldFromStep ==
    ASSUME NEW first, NEW cif0
    PROVE  /\ FieldFrom(first, cif0, 31) = first + 1
           /\ \A b \in 0 .. 30 : FieldFrom(first, cif0, b) = FieldFrom(first, cif0, b + 1) + Gap(cif0, b + 1)
  <1>1. FieldFrom(first, cif0, 31) = first + 1
    <2>1. PICK f : Places(f, first, cif0, 31) /\ FieldFrom(first, cif0, 31) = f[31]
      BY FieldFromPlaces
    <2> QED
      BY <2>1, PlacesAt
  <1>2. ASSUME NEW b \in 0 .. 30
        PROVE  FieldFrom(first, cif0, b) = FieldFrom(first, cif0, b + 1) + Gap(cif0, b + 1)
    <2>1. b \in 0 .. 31 /\ b + 1 \in 0 .. 31 /\ b \in b .. 31 /\ b # 31 /\ b <= b + 1
      OBVIOUS
    <2>2. PICK f : Places(f, first, cif0, b) /\ FieldFrom(first, cif0, b) = f[b]
      BY <2>1, FieldFromPlaces
    <2>3. PICK g : Places(g, first, cif0, b + 1) /\ FieldFrom(first, cif0, b + 1) = g[b + 1]
      BY <2>1, FieldFromPlaces
    <2>4. f[b] = f[b + 1] + Gap(cif0, b + 1)
      BY <2>1, <2>2, PlacesAt
    <2>5. f[b + 1] = g[b + 1]
      <3> DEFINE c == b + 1
      <3>1. c \in 0 .. 31 /\ b <= c /\ c <= c /\ b \in 0 .. 31
        BY <2>1
      <3>2. Places(f, first, cif0, b) /\ Places(g, first, cif0, c)
        BY <2>2, <2>3
      <3> HIDE DEF c
      <3>3. Agree(f, g, b, c)
        BY <3>1, <3>2, PlacesSame
      <3>4. f[c] = g[c]
        BY <3>1, <3>3 DEF Agree
      <3> QED
        BY <3>4 DEF c
    <2> QED
      BY <2>2, <2>3, <2>4, <2>5
  <1> QED
    BY <1>1, <1>2

-----------------------------------------------------------------------------
(* The fields of a context packet. *)

(* A number is its quotient and its remainder. *)
LEMMA DivMod ==
    ASSUME NEW n \in Int, NEW W \in Nat, W > 0
    PROVE  /\ n \div W \in Int /\ n % W \in 0 .. W - 1
           /\ n = (n \div W) * W + (n % W)
  <1>1. n \div W \in Int
    OBVIOUS
  <1>2. n % W \in 0 .. W - 1
    OBVIOUS
  <1>3. n % W = n - W * (n \div W)
    OBVIOUS
  <1> QED
    BY <1>1, <1>2, <1>3

(* The powers that a word uses. *)
LEMMA WordPowers ==
    /\ 2 ^ (WordBits - 1) \in Nat /\ 2 ^ (WordBits - 1) > 0
    /\ 2 ^ WordBits = 2 * 2 ^ (WordBits - 1) /\ 2 ^ WordBits \in Nat /\ 2 ^ WordBits > 0
  <1>1. WordBits - 1 \in 0 .. WordBits /\ WordBits \in 0 .. WordBits /\ (WordBits - 1) + 1 = WordBits
    BY WordBitsType
  <1>2. 2 ^ ((WordBits - 1) + 1) = 2 * 2 ^ (WordBits - 1)
    BY <1>1, PowersOfTwo DEF WordBits
  <1> QED
    BY <1>1, <1>2, PowerType

(* A frequency that fits two words comes back. *)
LEMMA FrequencyBack ==
    ASSUME NEW v \in Int, Round(v) \div 2 ^ WordBits \in - 2 ^ (WordBits - 1) .. 2 ^ (WordBits - 1) - 1,
           NEW o, NEW d, d = DWord(FreqToFixed(v), o)
    PROVE  /\ d \in Seq(Word) /\ Len(d) = 2
           /\ FreqFromFixed(DWord(<<d[1], d[2]>>, o)) = 2 * Round(v)
  <1> DEFINE m == 2 ^ (WordBits - 1)
             W == 2 ^ WordBits
             n == Round(v)
             hi == n \div W
             a == hi % W
             b == n % W
  <1>1. m \in Nat /\ m > 0 /\ W = 2 * m /\ W \in Nat /\ W > 0
    BY WordPowers
  <1>2. n \in Int /\ hi \in - m .. m - 1
    BY RoundClose
  <1>3. FreqToFixed(v) = <<a, b>>
    BY DEF FreqToFixed
  <1>4. \A x : Signed(x, WordBits) = IF x >= m THEN x - W ELSE x
    BY DEF Signed
  <1>5. Word = 0 .. W - 1
    BY DEF Word
  <1> HIDE DEF m, W, n
  <1>6. b \in 0 .. W - 1 /\ n = hi * W + b /\ hi \in Int
    BY <1>1, <1>2, DivMod
  <1> HIDE DEF hi, b
  <1>7. a \in 0 .. W - 1 /\ Signed(a, WordBits) = hi
    <2>1. /\ hi % (2 * m) \in 0 .. 2 * m - 1
          /\ (IF hi % (2 * m) >= m THEN (hi % (2 * m)) - 2 * m ELSE hi % (2 * m)) = hi
      BY <1>1, <1>2, SignBack
    <2> QED
      BY <1>1, <1>4, <2>1
  <1> HIDE DEF a
  <1>8. a \in Word /\ b \in Word
    BY <1>5, <1>6, <1>7
  <1>9. <<a, b>> \in Seq(Word) /\ Len(<<a, b>>) = 2
    BY <1>8, TwoType
  <1>10. d = DWord(<<a, b>>, o)
    BY <1>3
  <1>11. d \in Seq(Word) /\ Len(d) = 2 /\ DWord(<<d[1], d[2]>>, o) = <<a, b>>
    BY <1>9, <1>10, DWordTwice
  <1>12. FreqFromFixed(<<a, b>>) = 2 * (hi * W + b)
    BY <1>7 DEF FreqFromFixed, W
  <1> QED
    BY <1>6, <1>11, <1>12 DEF n

(* The words d are in words from the place at on. *)
Written(words, at, d) == \A k \in 1 .. Len(d) : words[at + (k - 1)] = d[k]

(* decode() reads the value v of field b there. *)
Restores(b, words, at, o, v) ==
    IF b \in PlainField THEN ReadField(b, words, at, o) = v
    ELSE ReadField(b, words, at, o) - v \in -1 .. 1

(* For every width and byte order, decode() reads from the words that      *)
(* encode() wrote for a field, wherever they are, the number that was      *)
(* given, or the fixed-point value within half a step of it.               *)
THEOREM FieldRoundTrip ==
    ASSUME NEW b \in Field, NEW v, FieldValue(b, v), NEW o \in ByteOrder,
           NEW d, d = FieldWords(b, v, o), NEW words, NEW at \in Nat
    PROVE  /\ d \in Seq(Word) /\ Len(d) = Cif0FieldSizeWords(b)
           /\ Written(words, at, d) => Restores(b, words, at, o, v)
  <1>0. b \in 21 .. 31 /\ at + 0 = at
    BY DEF Field, FieldOrder, ChangeIndicator
  <1>1. CASE b = ChangeIndicator
    <2>1. d = <<>> /\ v = 1 /\ Cif0FieldSizeWords(b) = 0 /\ b \in PlainField /\ ReadField(b, words, at, o) = 1
      BY <1>1 DEF FieldWords, FieldValue, Cif0FieldSizeWords, PlainField, ReadField, ChangeIndicator
    <2> QED
      BY <2>1 DEF Restores
  <1>2. CASE b \in {30, 22}
    <2>1. d = <<v>> /\ v \in Word /\ Cif0FieldSizeWords(b) = 1 /\ b \in PlainField /\ ReadField(b, words, at, o) = words[at]
      BY <1>2 DEF FieldWords, FieldValue, Cif0FieldSizeWords, PlainField, ReadField, ChangeIndicator
    <2>2. d \in Seq(Word) /\ Len(d) = 1 /\ d[1] = v
      BY <2>1
    <2>3. Written(words, at, d) => words[at] = v
      BY <1>0, <2>2 DEF Written
    <2> QED
      BY <2>1, <2>2, <2>3 DEF Restores
  <1> DEFINE M == 2 ^ HalfBits
             m == 2 ^ (HalfBits - 1)
             r == Round(v)
             q == r % M
  <1>3. ASSUME b \in {RefLevel, Gain}
        PROVE  /\ v \in Int /\ r \in Int /\ r - 2 * r = - r /\ v - 2 * r \in -1 .. 1
               /\ q \in 0 .. M - 1 /\ 0 \in 0 .. M - 1 /\ M \in Nat /\ Signed(q, HalfBits) = r
    <2>1. v \in Int /\ r \in - m .. m - 1
      BY <1>3 DEF FieldValue, RefLevel, Gain, PlainField, ChangeIndicator
    <2>2. r \in Int /\ v - 2 * r \in -1 .. 1
      BY <2>1, RoundClose
    <2>3. m \in Nat /\ m > 0 /\ M = 2 * m
      BY HalfPowers
    <2>4. Signed(q, HalfBits) = IF q >= m THEN q - M ELSE q
      BY DEF Signed
    <2> HIDE DEF m, M, r
    <2>5. /\ r % (2 * m) \in 0 .. 2 * m - 1
          /\ (IF r % (2 * m) >= m THEN (r % (2 * m)) - 2 * m ELSE r % (2 * m)) = r
      BY <2>1, <2>3, SignBack
    <2> QED
      BY <2>1, <2>2, <2>3, <2>4, <2>5
  <1>4. CASE b = RefLevel
    <2>1. d = <<q * M>> /\ Cif0FieldSizeWords(b) = 1 /\ b \notin PlainField
          /\ ReadField(b, words, at, o) = 2 * Signed(Bits(words[at], HalfBits, HalfBits), HalfBits)
      BY <1>4 DEF FieldWords, Cif0FieldSizeWords, PlainField, ReadField, ChangeIndicator, RefLevel
    <2>2. /\ v \in Int /\ r \in Int /\ v - 2 * r \in -1 .. 1
          /\ q \in 0 .. M - 1 /\ 0 \in 0 .. M - 1 /\ M \in Nat /\ Signed(q, HalfBits) = r
      BY <1>3, <1>4
    <2> HIDE DEF q, r
    <2>3. q * M + 0 \in Word /\ Bits(q * M + 0, HalfBits, HalfBits) = q
      BY <2>2, Halves
    <2>4. q * M + 0 = q * M
      BY <2>2
    <2>5. d \in Seq(Word) /\ Len(d) = 1 /\ d[1] = q * M
      BY <2>1, <2>3, <2>4
    <2>6. Written(words, at, d) => words[at] = q * M
      BY <1>0, <2>5 DEF Written
    <2>7. Written(words, at, d) => ReadField(b, words, at, o) = 2 * r
      BY <2>1, <2>2, <2>3, <2>4, <2>6
    <2> QED
      BY <2>1, <2>2, <2>5, <2>7 DEF Restores
  <1>5. CASE b = Gain
    <2>1. d = <<q>> /\ Cif0FieldSizeWords(b) = 1 /\ b \notin PlainField
          /\ ReadField(b, words, at, o) = 2 * Signed(Bits(words[at], 0, HalfBits), HalfBits)
      BY <1>5 DEF FieldWords, Cif0FieldSizeWords, PlainField, ReadField, ChangeIndicator, RefLevel, Gain
    <2>2. /\ v \in Int /\ r \in Int /\ v - 2 * r \in -1 .. 1
          /\ q \in 0 .. M - 1 /\ 0 \in 0 .. M - 1 /\ M \in Nat /\ Signed(q, HalfBits) = r
      BY <1>3, <1>5
    <2> HIDE DEF q, r
    <2>3. 0 * M + q \in Word /\ Bits(0 * M + q, 0, HalfBits) = q
      BY <2>2, Halves
    <2>4. 0 * M + q = q
      BY <2>2
    <2>5. d \in Seq(Word) /\ Len(d) = 1 /\ d[1] = q
      BY <2>1, <2>3, <2>4
    <2>6. Written(words, at, d) => words[at] = q
      BY <1>0, <2>5 DEF Written
    <2>7. Written(words, at, d) => ReadField(b, words, at, o) = 2 * r
      BY <2>1, <2>2, <2>3, <2>4, <2>6
    <2> QED
      BY <2>1, <2>2, <2>5, <2>7 DEF Restores
  <1>6. CASE b \in {29, 28, 27, 26, 25, 21}
    <2>1. /\ d = DWord(FreqToFixed(v), o) /\ Cif0FieldSizeWords(b) = 2 /\ b \notin PlainField
          /\ ReadField(b, words, at, o) = FreqFromFixed(DWord(<<words[at], words[at + 1]>>, o))
          /\ v \in Int /\ Round(v) \div 2 ^ WordBits \in - 2 ^ (WordBits - 1) .. 2 ^ (WordBits - 1) - 1
      BY <1>6 DEF FieldWords, Cif0FieldSizeWords, PlainField, ReadField, ChangeIndicator, RefLevel, Gain, FieldValue
    <2>2. d \in Seq(Word) /\ Len(d) = 2 /\ FreqFromFixed(DWord(<<d[1], d[2]>>, o)) = 2 * r
      BY <2>1, FrequencyBack
    <2>3. Written(words, at, d) => words[at] = d[1] /\ words[at + 1] = d[2]
      <3>1. 1 \in 1 .. Len(d) /\ 2 \in 1 .. Len(d) /\ at + (1 - 1) = at /\ at + (2 - 1) = at + 1
        BY <2>2
      <3> QED
        BY <3>1 DEF Written
    <2>4. r \in Int /\ v - 2 * r \in -1 .. 1
      BY <2>1, RoundClose
    <2> HIDE DEF r
    <2>5. Written(words, at, d) => ReadField(b, words, at, o) = 2 * r
      BY <2>1, <2>2, <2>3
    <2> QED
      BY <2>1, <2>2, <2>4, <2>5 DEF Restores
  <1>7. b = ChangeIndicator \/ b \in {30, 22} \/ b = RefLevel \/ b = Gain \/ b \in {29, 28, 27, 26, 25, 21}
    BY <1>0 DEF ChangeIndicator, RefLevel, Gain
  <1> QED
    BY <1>1, <1>2, <1>4, <1>5, <1>6, <1>7

(* The function that adds up the first n numbers of a. *)
Sums(f, a, n) == f = [i \in 0 .. n |-> IF i = 0 THEN 0 ELSE f[i - 1] + a[i]]

(* Its values. *)
LEMMA SumsAt ==
    ASSUME NEW f, NEW a, NEW n \in Nat, Sums(f, a, n), NEW i \in 0 .. n
    PROVE  f[i] = IF i = 0 THEN 0 ELSE f[i - 1] + a[i]
  BY DEF Sums

(* It exists. *)
LEMMA SumsExist ==
    ASSUME NEW a, NEW n \in Nat
    PROVE  \E f : Sums(f, a, n)
  <1> DEFINE T == {k \in Nat : \E f : Sums(f, a, k)}
  <1>1. 0 \in T
    <2> DEFINE g == [i \in 0 .. 0 |-> 0]
    <2>1. g = [i \in 0 .. 0 |-> IF i = 0 THEN 0 ELSE g[i - 1] + a[i]]
      OBVIOUS
    <2> HIDE DEF g
    <2>2. Sums(g, a, 0)
      BY <2>1 DEF Sums
    <2> QED
      BY <2>2
  <1>2. ASSUME NEW k \in Nat, k \in T
        PROVE  k + 1 \in T
    <2>1. PICK f : Sums(f, a, k)
      BY <1>2
    <2> DEFINE g == [i \in 0 .. k + 1 |-> IF i <= k THEN f[i] ELSE f[k] + a[k + 1]]
    <2>2. \A i \in 0 .. k + 1 : g[i] = IF i = 0 THEN 0 ELSE g[i - 1] + a[i]
      <3> SUFFICES ASSUME NEW i \in 0 .. k + 1
                   PROVE  g[i] = IF i = 0 THEN 0 ELSE g[i - 1] + a[i]
        OBVIOUS
      <3>1. CASE i <= k
        <4>1. f[i] = IF i = 0 THEN 0 ELSE f[i - 1] + a[i]
          BY <2>1, <3>1, SumsAt
        <4>2. g[i] = f[i] /\ (i # 0 => g[i - 1] = f[i - 1])
          BY <3>1
        <4> QED
          BY <4>1, <4>2
      <3>2. CASE i = k + 1
        BY <3>2
      <3> QED
        BY <3>1, <3>2
    <2>3. Sums(g, a, k + 1)
      <3> DEFINE g2 == [i \in 0 .. k + 1 |-> IF i = 0 THEN 0 ELSE g[i - 1] + a[i]]
      <3>1. g = [i \in 0 .. k + 1 |-> g[i]]
        OBVIOUS
      <3> HIDE DEF g
      <3>2. g = g2
        BY <2>2, <3>1
      <3> QED
        BY <3>2 DEF Sums
    <2> QED
      BY <2>3
  <1> HIDE DEF T
  <1>3. n \in T
    BY <1>1, <1>2, SetInduction
  <1> QED
    BY <1>3 DEF T

(* The bit of CIF0 that a field sets, and 0 or 1 for it. *)
BitOf(fields, b) == IF fields[b] # <<>> THEN Cif0Bit(b) ELSE 0
Given(fields, b) == IF fields[b] # <<>> THEN 1 ELSE 0

(* CIF0 is the sum of the bits of the fields, in their order. *)
LEMMA Cif0Sum ==
    ASSUME NEW fields
    PROVE  \E f : Sums(f, [i \in 1 .. 11 |-> BitOf(fields, 32 - i)], 11) /\ Cif0Of(fields) = f[11]
  <1> DEFINE F == CHOOSE f : f = [i \in 0 .. Len(FieldOrder) |->
                    IF i = 0 THEN 0 ELSE f[i - 1] + (IF fields[FieldOrder[i]] # <<>> THEN Cif0Bit(FieldOrder[i]) ELSE 0)]
             a == [i \in 1 .. 11 |-> BitOf(fields, 32 - i)]
  <1>1. Len(FieldOrder) = 11 /\ \A i \in 1 .. 11 : FieldOrder[i] = 32 - i
    BY DEF FieldOrder, ChangeIndicator
  <1>2. Cif0Of(fields) = F[Len(FieldOrder)]
    BY DEF Cif0Of
  <1>3. \A f : (f = [i \in 0 .. Len(FieldOrder) |->
                    IF i = 0 THEN 0 ELSE f[i - 1] + (IF fields[FieldOrder[i]] # <<>> THEN Cif0Bit(FieldOrder[i]) ELSE 0)])
               <=> Sums(f, a, 11)
    <2> SUFFICES ASSUME NEW f
                 PROVE  [i \in 0 .. Len(FieldOrder) |->
                           IF i = 0 THEN 0 ELSE f[i - 1] + (IF fields[FieldOrder[i]] # <<>> THEN Cif0Bit(FieldOrder[i]) ELSE 0)]
                        = [i \in 0 .. 11 |-> IF i = 0 THEN 0 ELSE f[i - 1] + a[i]]
      BY DEF Sums
    <2>1. \A i \in 1 .. 11 : a[i] = IF fields[FieldOrder[i]] # <<>> THEN Cif0Bit(FieldOrder[i]) ELSE 0
      BY <1>1 DEF BitOf
    <2> HIDE DEF a
    <2>2. \A i \in 0 .. 11 :
            (IF i = 0 THEN 0 ELSE f[i - 1] + (IF fields[FieldOrder[i]] # <<>> THEN Cif0Bit(FieldOrder[i]) ELSE 0))
            = (IF i = 0 THEN 0 ELSE f[i - 1] + a[i])
      BY <2>1
    <2> QED
      BY <1>1, <2>2
  <1> HIDE DEF a
  <1>4. \E f : Sums(f, a, 11)
    BY SumsExist
  <1>5. \E f : f = [i \in 0 .. Len(FieldOrder) |->
                    IF i = 0 THEN 0 ELSE f[i - 1] + (IF fields[FieldOrder[i]] # <<>> THEN Cif0Bit(FieldOrder[i]) ELSE 0)]
    BY <1>3, <1>4
  <1>6. Sums(F, a, 11)
    BY <1>3, <1>5
  <1> QED
    BY <1>1, <1>2, <1>6 DEF a

(* The powers of the bits of CIF0: those of the fields are multiples of    *)
(* the lowest, which is a multiple of those that decode() also looks at.   *)
LEMMA Cif0Powers ==
    ASSUME NEW Q, Q = 2 ^ (WordBits - 11)
    PROVE  /\ Q \in Nat /\ Q > 0 /\ 2 ^ WordBits = 2048 * Q
           /\ Cif0Bit(31) = 1024 * Q /\ Cif0Bit(30) = 512 * Q /\ Cif0Bit(29) = 256 * Q
           /\ Cif0Bit(28) = 128 * Q /\ Cif0Bit(27) = 64 * Q /\ Cif0Bit(26) = 32 * Q
           /\ Cif0Bit(25) = 16 * Q /\ Cif0Bit(24) = 8 * Q /\ Cif0Bit(23) = 4 * Q
           /\ Cif0Bit(22) = 2 * Q /\ Cif0Bit(21) = Q
           /\ \A b \in 15 .. 20 : /\ Cif0Bit(b) \in Nat /\ Cif0Bit(b) > 0
                                  /\ \E j \in Nat : Q = (2 * j) * Cif0Bit(b)
  <1>1. WordBits - 11 \in Nat /\ WordBits - 11 \in 0 .. WordBits /\ WordBits >= 19 /\ WordBits \in Nat
    BY WordBitsType, Vita49Assumption DEF WordBits
  <1>2. Q \in Nat /\ Q > 0
    BY <1>1, PowerType
  <1>3. \A k \in 0 .. 11 : 2 ^ ((WordBits - 11) + k) = Q * 2 ^ k
    <2> SUFFICES ASSUME NEW k \in 0 .. 11
                 PROVE  2 ^ ((WordBits - 11) + k) = Q * 2 ^ k
      OBVIOUS
    <2>1. k \in Nat /\ (WordBits - 11) + k <= WordBits
      BY <1>1
    <2> QED
      BY <1>1, <2>1, PowerSum
  <1>4. \A b \in 15 .. 31 : Cif0Bit(b) = 2 ^ (b - 32 + WordBits)
    BY DEF Cif0Bit
  <1>5. \A k \in 0 .. 10 : Cif0Bit(21 + k) = Q * 2 ^ k
    <2> SUFFICES ASSUME NEW k \in 0 .. 10
                 PROVE  Cif0Bit(21 + k) = Q * 2 ^ k
      OBVIOUS
    <2>1. (21 + k) - 32 + WordBits = (WordBits - 11) + k /\ 21 + k \in 15 .. 31
      BY <1>1
    <2>2. Cif0Bit(21 + k) = 2 ^ ((21 + k) - 32 + WordBits)
      BY DEF Cif0Bit
    <2>3. 2 ^ ((WordBits - 11) + k) = Q * 2 ^ k
      <3>1. k \in 0 .. 11
        OBVIOUS
      <3> QED
        BY <1>3, <3>1, Zenon
    <2> QED
      BY <2>1, <2>2, <2>3, Zenon
  <1>6. /\ 2 ^ 0 = 1 /\ 2 ^ 1 = 2 /\ 2 ^ 2 = 4 /\ 2 ^ 3 = 8 /\ 2 ^ 4 = 16 /\ 2 ^ 5 = 32 /\ 2 ^ 6 = 64
        /\ 2 ^ 7 = 128 /\ 2 ^ 8 = 256 /\ 2 ^ 9 = 512 /\ 2 ^ 10 = 1024 /\ 2 ^ 11 = 2048
    OBVIOUS
  <1>7. 2 ^ WordBits = 2048 * Q
    <2>1. (WordBits - 11) + 11 = WordBits
      BY <1>1
    <2>2. 2 ^ ((WordBits - 11) + 11) = Q * 2 ^ 11
      BY <1>3
    <2> QED
      BY <1>2, <1>6, <2>1, <2>2
  <1>8. /\ Cif0Bit(21) = Q /\ Cif0Bit(22) = 2 * Q /\ Cif0Bit(23) = 4 * Q /\ Cif0Bit(24) = 8 * Q
    BY <1>2, <1>5, <1>6
  <1>9. /\ Cif0Bit(25) = 16 * Q /\ Cif0Bit(26) = 32 * Q /\ Cif0Bit(27) = 64 * Q /\ Cif0Bit(28) = 128 * Q
    BY <1>2, <1>5, <1>6
  <1>10. /\ Cif0Bit(29) = 256 * Q /\ Cif0Bit(30) = 512 * Q /\ Cif0Bit(31) = 1024 * Q
    BY <1>2, <1>5, <1>6
  <1>11. ASSUME NEW b \in 15 .. 20
         PROVE  /\ Cif0Bit(b) \in Nat /\ Cif0Bit(b) > 0
                /\ \E j \in Nat : Q = (2 * j) * Cif0Bit(b)
    <2> DEFINE e == b - 32 + WordBits
               k == 20 - b
               B == 2 ^ e
               j == 2 ^ k
    <2>1. e \in Nat /\ e \in 0 .. WordBits /\ k \in 0 .. 5 /\ k \in 0 .. WordBits /\ k + 1 \in Nat /\ e + (k + 1) = WordBits - 11
          /\ e + (k + 1) <= WordBits /\ k \in 0 .. SizeBits + 16
      BY <1>1, WordBitsType
    <2>2. B \in Nat /\ B > 0 /\ j \in Nat
      BY <2>1, PowerType
    <2>3. Q = B * 2 ^ (k + 1)
      BY <2>1, PowerSum
    <2>4. 2 ^ (k + 1) = 2 * j
      BY <2>1, PowersOfTwo
    <2>5. Cif0Bit(b) = B
      BY <1>4
    <2> HIDE DEF B, j
    <2>6. Q = (2 * j) * B
      BY <2>2, <2>3, <2>4
    <2> QED
      BY <2>2, <2>5, <2>6
  <1> QED
    BY <1>2, <1>7, <1>8, <1>9, <1>10, <1>11

(* X has the bits a to k. *)
Eleven(X, a, b, c, d, e, f, g, h, i, j, k) ==
    /\ X \in Nat /\ X < 2048
    /\ (X \div 1024) % 2 = a /\ (X \div 512) % 2 = b /\ (X \div 256) % 2 = c
    /\ (X \div 128) % 2 = d /\ (X \div 64) % 2 = e /\ (X \div 32) % 2 = f
    /\ (X \div 16) % 2 = g /\ (X \div 8) % 2 = h /\ (X \div 4) % 2 = i
    /\ (X \div 2) % 2 = j /\ X % 2 = k

(* The lowest of the bits that are left after a shift, for 11 bits. *)
LEMMA ElevenBits ==
    ASSUME NEW a \in 0 .. 1, NEW b \in 0 .. 1, NEW c \in 0 .. 1, NEW d \in 0 .. 1, NEW e \in 0 .. 1,
           NEW f \in 0 .. 1, NEW g \in 0 .. 1, NEW h \in 0 .. 1, NEW i \in 0 .. 1, NEW j \in 0 .. 1,
           NEW k \in 0 .. 1, NEW X,
           X = 1024 * a + 512 * b + 256 * c + 128 * d + 64 * e + 32 * f + 16 * g + 8 * h + 4 * i + 2 * j + k
    PROVE  Eleven(X, a, b, c, d, e, f, g, h, i, j, k)
  <1>1. X \in Nat /\ X < 2048
    OBVIOUS
  <1>2. (X \div 1024) % 2 = a
    OBVIOUS
  <1>3. (X \div 512) % 2 = b
    OBVIOUS
  <1>4. (X \div 256) % 2 = c
    OBVIOUS
  <1>5. (X \div 128) % 2 = d
    OBVIOUS
  <1>6. (X \div 64) % 2 = e
    OBVIOUS
  <1>7. (X \div 32) % 2 = f
    OBVIOUS
  <1>8. (X \div 16) % 2 = g
    OBVIOUS
  <1>9. (X \div 8) % 2 = h
    OBVIOUS
  <1>10. (X \div 4) % 2 = i
    OBVIOUS
  <1>11. (X \div 2) % 2 = j
    OBVIOUS
  <1>12. X % 2 = k
    OBVIOUS
  <1> QED
    BY <1>1, <1>2, <1>3, <1>4, <1>5, <1>6, <1>7, <1>8, <1>9, <1>10, <1>11, <1>12 DEF Eleven

(* CIF0 is a number of 11 bits, shifted. *)
LEMMA Cif0Number ==
    ASSUME NEW fields, NEW Q, Q = 2 ^ (WordBits - 11), NEW X,
           X = 1024 * Given(fields, 31) + 512 * Given(fields, 30) + 256 * Given(fields, 29)
               + 128 * Given(fields, 28) + 64 * Given(fields, 27) + 32 * Given(fields, 26)
               + 16 * Given(fields, 25) + 8 * Given(fields, 24) + 4 * Given(fields, 23)
               + 2 * Given(fields, 22) + Given(fields, 21)
    PROVE  Cif0Of(fields) = X * Q
  <1> DEFINE a == [i \in 1 .. 11 |-> BitOf(fields, 32 - i)]
  <1>1. PICK f : Sums(f, a, 11) /\ Cif0Of(fields) = f[11]
    BY Cif0Sum
  <1>2. Q \in Nat
    BY Cif0Powers
  <1>3. /\ a[1] = BitOf(fields, 31) /\ a[2] = BitOf(fields, 30) /\ a[3] = BitOf(fields, 29)
        /\ a[4] = BitOf(fields, 28) /\ a[5] = BitOf(fields, 27) /\ a[6] = BitOf(fields, 26)
        /\ a[7] = BitOf(fields, 25) /\ a[8] = BitOf(fields, 24) /\ a[9] = BitOf(fields, 23)
        /\ a[10] = BitOf(fields, 22) /\ a[11] = BitOf(fields, 21)
    OBVIOUS
  <1> HIDE DEF a
  <1>4. ASSUME NEW b, NEW m \in Nat, Cif0Bit(b) = m * Q
        PROVE  BitOf(fields, b) = (m * Given(fields, b)) * Q /\ Given(fields, b) \in 0 .. 1
    <2>1. m * 1 = m /\ m * 0 = 0 /\ 0 * Q = 0
      BY <1>2
    <2> QED
      BY <1>4, <2>1 DEF BitOf, Given
  <1>5. \A b \in 21 .. 31 : Given(fields, b) \in 0 .. 1
    BY DEF Given
  <1>6. /\ a[1] = (1024 * Given(fields, 31)) * Q /\ a[2] = (512 * Given(fields, 30)) * Q
        /\ a[3] = (256 * Given(fields, 29)) * Q /\ a[4] = (128 * Given(fields, 28)) * Q
        /\ a[5] = (64 * Given(fields, 27)) * Q /\ a[6] = (32 * Given(fields, 26)) * Q
    BY <1>3, <1>4, Cif0Powers
  <1>7. /\ a[7] = (16 * Given(fields, 25)) * Q /\ a[8] = (8 * Given(fields, 24)) * Q
        /\ a[9] = (4 * Given(fields, 23)) * Q /\ a[10] = (2 * Given(fields, 22)) * Q
        /\ a[11] = (1 * Given(fields, 21)) * Q
    <2>1. Cif0Bit(21) = 1 * Q
      BY <1>2, Cif0Powers
    <2> QED
      BY <1>3, <1>4, <2>1, Cif0Powers
  <1>8. f[0] = 0 /\ \A i \in 1 .. 11 : f[i] = f[i - 1] + a[i]
    BY <1>1, SumsAt
  <1>9. /\ f[1] = 0 + a[1] /\ f[2] = f[1] + a[2] /\ f[3] = f[2] + a[3] /\ f[4] = f[3] + a[4]
        /\ f[5] = f[4] + a[5] /\ f[6] = f[5] + a[6] /\ f[7] = f[6] + a[7] /\ f[8] = f[7] + a[8]
        /\ f[9] = f[8] + a[9] /\ f[10] = f[9] + a[10] /\ f[11] = f[10] + a[11]
    BY <1>8
  <1> QED
    BY <1>1, <1>2, <1>5, <1>6, <1>7, <1>9

(* What decode() finds in CIF0: a field that was given, and no other. *)
LEMMA Cif0Back ==
    ASSUME NEW fields, NEW cif0, cif0 = Cif0Of(fields)
    PROVE  /\ cif0 \in Word
           /\ \A b \in 21 .. 31 : Cif0Has(cif0, b) <=> fields[b] # <<>>
           /\ \A b \in 15 .. 20 : ~ Cif0Has(cif0, b)
  <1> DEFINE Q == 2 ^ (WordBits - 11)
             X == 1024 * Given(fields, 31) + 512 * Given(fields, 30) + 256 * Given(fields, 29)
                  + 128 * Given(fields, 28) + 64 * Given(fields, 27) + 32 * Given(fields, 26)
                  + 16 * Given(fields, 25) + 8 * Given(fields, 24) + 4 * Given(fields, 23)
                  + 2 * Given(fields, 22) + Given(fields, 21)
  <1>1. cif0 = X * Q
    BY Cif0Number
  <1>2. \A b : Given(fields, b) \in 0 .. 1 /\ (Given(fields, b) = 1 <=> fields[b] # <<>>)
    BY DEF Given
  <1>3. /\ X \in Nat /\ X < 2048
        /\ (X \div 1024) % 2 = Given(fields, 31) /\ (X \div 512) % 2 = Given(fields, 30)
        /\ (X \div 256) % 2 = Given(fields, 29) /\ (X \div 128) % 2 = Given(fields, 28)
        /\ (X \div 64) % 2 = Given(fields, 27) /\ (X \div 32) % 2 = Given(fields, 26)
        /\ (X \div 16) % 2 = Given(fields, 25) /\ (X \div 8) % 2 = Given(fields, 24)
        /\ (X \div 4) % 2 = Given(fields, 23) /\ (X \div 2) % 2 = Given(fields, 22)
        /\ X % 2 = Given(fields, 21)
    <2> DEFINE x(b) == Given(fields, b)
    <2>0. /\ X = 1024 * x(31) + 512 * x(30) + 256 * x(29) + 128 * x(28) + 64 * x(27) + 32 * x(26)
                 + 16 * x(25) + 8 * x(24) + 4 * x(23) + 2 * x(22) + x(21)
          /\ x(31) \in 0 .. 1 /\ x(30) \in 0 .. 1 /\ x(29) \in 0 .. 1 /\ x(28) \in 0 .. 1 /\ x(27) \in 0 .. 1
          /\ x(26) \in 0 .. 1 /\ x(25) \in 0 .. 1 /\ x(24) \in 0 .. 1 /\ x(23) \in 0 .. 1 /\ x(22) \in 0 .. 1
          /\ x(21) \in 0 .. 1
      BY <1>2
    <2> HIDE DEF X, x
    <2>1. Eleven(X, x(31), x(30), x(29), x(28), x(27), x(26), x(25), x(24), x(23), x(22), x(21))
      BY <2>0, ElevenBits
    <2> QED
      BY <2>1 DEF Eleven, x
  <1>4. /\ Q \in Nat /\ Q > 0 /\ 2 ^ WordBits = 2048 * Q
        /\ Cif0Bit(31) = 1024 * Q /\ Cif0Bit(30) = 512 * Q /\ Cif0Bit(29) = 256 * Q
        /\ Cif0Bit(28) = 128 * Q /\ Cif0Bit(27) = 64 * Q /\ Cif0Bit(26) = 32 * Q
        /\ Cif0Bit(25) = 16 * Q /\ Cif0Bit(24) = 8 * Q /\ Cif0Bit(23) = 4 * Q
        /\ Cif0Bit(22) = 2 * Q /\ Cif0Bit(21) = Q
        /\ \A b \in 15 .. 20 : /\ Cif0Bit(b) \in Nat /\ Cif0Bit(b) > 0
                               /\ \E j \in Nat : Q = (2 * j) * Cif0Bit(b)
    BY Cif0Powers
  <1> HIDE DEF Q, X
  <1>5. cif0 \in Word
    BY <1>1, <1>3, <1>4 DEF Word
  <1>6. (X * Q) \div Q = X /\ X * Q \in Nat
    BY <1>3, <1>4
  <1>7. ASSUME NEW b, NEW m \in Nat, m > 0, Cif0Bit(b) = m * Q
        PROVE  Cif0Has(cif0, b) <=> (X \div m) % 2 = 1
    <2>1. ((X * Q) \div Q) \div m = (X * Q) \div (m * Q)
      BY <1>4, <1>6, <1>7, DivDiv
    <2> QED
      BY <1>1, <1>6, <1>7, <2>1 DEF Cif0Has
  <1>8. /\ Cif0Has(cif0, 31) <=> (X \div 1024) % 2 = 1
        /\ Cif0Has(cif0, 30) <=> (X \div 512) % 2 = 1
        /\ Cif0Has(cif0, 29) <=> (X \div 256) % 2 = 1
        /\ Cif0Has(cif0, 28) <=> (X \div 128) % 2 = 1
        /\ Cif0Has(cif0, 27) <=> (X \div 64) % 2 = 1
    BY <1>4, <1>7
  <1>9. /\ Cif0Has(cif0, 26) <=> (X \div 32) % 2 = 1
        /\ Cif0Has(cif0, 25) <=> (X \div 16) % 2 = 1
        /\ Cif0Has(cif0, 24) <=> (X \div 8) % 2 = 1
        /\ Cif0Has(cif0, 23) <=> (X \div 4) % 2 = 1
        /\ Cif0Has(cif0, 22) <=> (X \div 2) % 2 = 1
    BY <1>4, <1>7
  <1>10. Cif0Has(cif0, 21) <=> X % 2 = 1
    BY <1>1, <1>4, <1>6 DEF Cif0Has
  <1>11. ASSUME NEW b \in 21 .. 31
         PROVE  Cif0Has(cif0, b) <=> Given(fields, b) = 1
    <2>1. b = 31 \/ b = 30 \/ b = 29 \/ b = 28 \/ b = 27 \/ b = 26 \/ b = 25 \/ b = 24 \/ b = 23 \/ b = 22 \/ b = 21
      OBVIOUS
    <2> QED
      BY <1>3, <1>8, <1>9, <1>10, <2>1
  <1>12. ASSUME NEW b \in 15 .. 20
         PROVE  ~ Cif0Has(cif0, b)
    <2> DEFINE B == Cif0Bit(b)
    <2>1. B \in Nat /\ B > 0
      BY <1>4
    <2>2. PICK j \in Nat : Q = (2 * j) * B
      BY <1>4
    <2>3. Cif0Has(cif0, b) <=> (cif0 \div B) % 2 = 1
      BY DEF Cif0Has
    <2> HIDE DEF B
    <2> DEFINE y == X * j
    <2>4. y \in Nat /\ cif0 = (2 * y) * B
      BY <1>1, <1>3, <2>1, <2>2
    <2> HIDE DEF y
    <2>5. ((2 * y) * B + 0) \div B = 2 * y /\ (2 * y) * B + 0 = (2 * y) * B
      BY <2>1, <2>4, Split
    <2>6. (2 * y) % 2 = 0
      BY <2>4
    <2> QED
      BY <2>3, <2>4, <2>5, <2>6
  <1> QED
    BY <1>2, <1>5, <1>11, <1>12

(* Fields as encodeContext() is given them. *)
FieldsOK(fields) ==
    DOMAIN fields = Field /\ \A b \in Field :
        fields[b] # <<>> => fields[b] = <<fields[b][1]>> /\ FieldValue(b, fields[b][1])

(* The words of the field b. *)
WordsOf(fields, b, o) == FieldWords(b, fields[b][1], o)

(* The data of a context packet: the field 32 - i begins after st[i] words. *)
FieldPlaces(data, fields, cif0, o, st) ==
    /\ st \in [1 .. 12 -> Nat] /\ st[1] = 0 /\ st[12] = Len(data)
    /\ \A i \in 1 .. 11 :
         /\ st[i + 1] = st[i] + Gap(cif0, 32 - i) /\ st[i + 1] <= Len(data)
         /\ fields[32 - i] # <<>> =>
              /\ Len(WordsOf(fields, 32 - i, o)) = Cif0FieldSizeWords(32 - i)
              /\ \A k \in 1 .. Cif0FieldSizeWords(32 - i) : data[st[i] + k] = WordsOf(fields, 32 - i, o)[k]

(* The fields are those of the bits 21 to 31. *)
LEMMA FieldRange == Field = 21 .. 31 /\ Len(FieldOrder) = 11 /\ DOMAIN FieldOrder = 1 .. 11
                    /\ \A i \in 1 .. 11 : FieldOrder[i] = 32 - i
  <1>1. Len(FieldOrder) = 11 /\ DOMAIN FieldOrder = 1 .. 11 /\ \A i \in 1 .. 11 : FieldOrder[i] = 32 - i
    BY DEF FieldOrder, ChangeIndicator
  <1>2. Field = {32 - i : i \in 1 .. 11}
    BY <1>1 DEF Field
  <1>3. \A b \in 21 .. 31 : 32 - b \in 1 .. 11 /\ b = 32 - (32 - b)
    OBVIOUS
  <1> QED
    BY <1>1, <1>2, <1>3

(* A function on 1 .. n is a sequence. *)
LEMMA FunctionSeq ==
    ASSUME NEW W, NEW n \in Nat, NEW s \in [1 .. n -> W]
    PROVE  s \in Seq(W) /\ Len(s) = n
  OBVIOUS

(* encode() writes one field after the other. *)
LEMMA FieldDataParts ==
    ASSUME NEW fields, FieldsOK(fields), NEW o \in ByteOrder, NEW cif0, cif0 = Cif0Of(fields),
           NEW data, data = FieldData(fields, o)
    PROVE  data \in Seq(Word) /\ \E st : FieldPlaces(data, fields, cif0, o, st)
  <1> DEFINE seqs == [i \in 1 .. 11 |-> IF fields[32 - i] = <<>> THEN <<>> ELSE WordsOf(fields, 32 - i, o)]
  <1>1. data = FlattenSeq(seqs)
    <2> DEFINE other == [i \in DOMAIN FieldOrder |->
                           IF fields[FieldOrder[i]] = <<>> THEN <<>>
                           ELSE FieldWords(FieldOrder[i], fields[FieldOrder[i]][1], o)]
    <2>1. data = FlattenSeq(other)
      BY DEF FieldData
    <2>2. other = seqs
      BY FieldRange DEF WordsOf
    <2> QED
      BY <2>1, <2>2
  <1>2. ASSUME NEW i \in 1 .. 11
        PROVE  /\ seqs[i] \in Seq(Word) /\ Len(seqs[i]) = Gap(cif0, 32 - i)
               /\ fields[32 - i] # <<>> => /\ Len(WordsOf(fields, 32 - i, o)) = Cif0FieldSizeWords(32 - i)
                                           /\ seqs[i] = WordsOf(fields, 32 - i, o)
                                           /\ Len(seqs[i]) = Cif0FieldSizeWords(32 - i)
    <2> DEFINE b == 32 - i
               d == WordsOf(fields, b, o)
    <2>1. b \in Field /\ b \in 21 .. 31
      BY FieldRange
    <2>2. Cif0Has(cif0, b) <=> fields[b] # <<>>
      BY <2>1, Cif0Back
    <2>3. seqs[i] = IF fields[b] = <<>> THEN <<>> ELSE d
      OBVIOUS
    <2> HIDE DEF seqs, b
    <2>4. CASE fields[b] = <<>>
      <3>1. seqs[i] = <<>> /\ Gap(cif0, b) = 0
        BY <2>2, <2>3, <2>4 DEF Gap
      <3> QED
        BY <2>4, <3>1 DEF b
    <2>5. CASE fields[b] # <<>>
      <3>1. FieldValue(b, fields[b][1])
        BY <2>1, <2>5 DEF FieldsOK
      <3>3. d = FieldWords(b, fields[b][1], o)
        BY DEF WordsOf
      <3> HIDE DEF d
      <3>4. /\ d \in Seq(Word) /\ Len(d) = Cif0FieldSizeWords(b)
            /\ Written(d, 1, d) => Restores(b, d, 1, o, fields[b][1])
        BY <2>1, <3>1, <3>3, FieldRoundTrip
      <3>5. seqs[i] = d /\ Gap(cif0, b) = Cif0FieldSizeWords(b)
        BY <2>2, <2>3, <2>5 DEF Gap
      <3> QED
        BY <3>4, <3>5 DEF b, d
    <2> QED
      BY <2>4, <2>5
  <1>3. seqs \in Seq(Seq(Word)) /\ Len(seqs) = 11
    <2>1. seqs \in [1 .. 11 -> Seq(Word)]
      BY <1>2
    <2> HIDE DEF seqs
    <2>2. 11 \in Nat
      OBVIOUS
    <2> QED
      BY <2>1, <2>2, FunctionSeq
  <1> HIDE DEF seqs
  <1>4. FlattenSeq(seqs) \in Seq(Word) /\ \E st : Parts(FlattenSeq(seqs), seqs, st)
    <2>1. Len(seqs) # 0
      BY <1>3
    <2> QED
      BY <1>3, <2>1, FlattenParts
  <1>5. PICK st : Parts(data, seqs, st)
    BY <1>1, <1>4
  <1>6. /\ st \in [1 .. 12 -> Nat] /\ st[1] = 0 /\ st[12] = Len(data)
    BY <1>3, <1>5 DEF Parts
  <1>7. ASSUME NEW i \in 1 .. 11
        PROVE  /\ st[i + 1] = st[i] + Gap(cif0, 32 - i) /\ st[i + 1] <= Len(data)
               /\ fields[32 - i] # <<>> =>
                    /\ Len(WordsOf(fields, 32 - i, o)) = Cif0FieldSizeWords(32 - i)
                    /\ \A k \in 1 .. Cif0FieldSizeWords(32 - i) : data[st[i] + k] = WordsOf(fields, 32 - i, o)[k]
    <2>1. /\ st[i + 1] = st[i] + Len(seqs[i]) /\ st[i + 1] <= Len(data)
          /\ \A k \in 1 .. Len(seqs[i]) : data[st[i] + k] = seqs[i][k]
      BY <1>3, <1>5 DEF Parts
    <2>2. /\ Len(seqs[i]) = Gap(cif0, 32 - i)
          /\ fields[32 - i] # <<>> => /\ Len(WordsOf(fields, 32 - i, o)) = Cif0FieldSizeWords(32 - i)
                                      /\ seqs[i] = WordsOf(fields, 32 - i, o)
                                      /\ Len(seqs[i]) = Cif0FieldSizeWords(32 - i)
      BY <1>2
    <2> QED
      BY <2>1, <2>2
  <1>8. FieldPlaces(data, fields, cif0, o, st)
    BY <1>6, <1>7 DEF FieldPlaces
  <1> QED
    BY <1>1, <1>4, <1>8

(* The field 32 - i is looked for after CIF0 and st[i] words. *)
PlacedFrom(first, cif0, st) == \A i \in 1 .. 11 : FieldFrom(first, cif0, 32 - i) = first + 1 + st[i]

(* decode() looks for each field where encode() put it. *)
LEMMA FieldPlaced ==
    ASSUME NEW data, NEW fields, NEW cif0, NEW o, NEW st, FieldPlaces(data, fields, cif0, o, st), NEW first \in Nat
    PROVE  PlacedFrom(first, cif0, st)
  <1> DEFINE T == {n \in Nat : n <= 10 => FieldFrom(first, cif0, 31 - n) = first + 1 + st[n + 1]}
  <1>1. st \in [1 .. 12 -> Nat] /\ st[1] = 0 /\ \A i \in 1 .. 11 : st[i + 1] = st[i] + Gap(cif0, 32 - i)
    BY DEF FieldPlaces
  <1>2. 0 \in T
    <2>1. FieldFrom(first, cif0, 31) = first + 1
      BY FieldFromStep
    <2> QED
      BY <1>1, <2>1
  <1>3. ASSUME NEW n \in Nat, n \in T
        PROVE  n + 1 \in T
    <2> SUFFICES ASSUME n + 1 <= 10
                 PROVE  FieldFrom(first, cif0, 31 - (n + 1)) = first + 1 + st[(n + 1) + 1]
      OBVIOUS
    <2> DEFINE b == 31 - (n + 1)
               i == n + 1
    <2>1. b \in 0 .. 30 /\ b + 1 = 31 - n /\ i \in 1 .. 11 /\ 32 - i = 31 - n /\ n <= 10 /\ i + 1 \in 1 .. 12
      OBVIOUS
    <2>2. FieldFrom(first, cif0, 31 - n) = first + 1 + st[i]
      BY <1>3, <2>1
    <2>3. FieldFrom(first, cif0, b) = FieldFrom(first, cif0, b + 1) + Gap(cif0, b + 1)
      BY <2>1, FieldFromStep
    <2>4. st[i + 1] = st[i] + Gap(cif0, 31 - n) /\ st[i] \in Nat /\ st[i + 1] \in Nat
      BY <1>1, <2>1
    <2>5. Gap(cif0, 31 - n) \in Nat
      BY DEF Gap, Cif0FieldSizeWords
    <2> HIDE DEF b, i
    <2>6. FieldFrom(first, cif0, b) = (first + 1 + st[i]) + Gap(cif0, 31 - n)
      BY <2>1, <2>2, <2>3
    <2>7. FieldFrom(first, cif0, b) = first + 1 + st[i + 1]
      BY <2>4, <2>5, <2>6
    <2> QED
      BY <2>7 DEF b, i
  <1> HIDE DEF T
  <1>4. Nat \subseteq T
    BY <1>2, <1>3, SetInduction
  <1>5. ASSUME NEW i \in 1 .. 11
        PROVE  FieldFrom(first, cif0, 32 - i) = first + 1 + st[i]
    <2>1. i - 1 \in T /\ i - 1 <= 10 /\ (i - 1) + 1 = i /\ 31 - (i - 1) = 32 - i
      BY <1>4
    <2> QED
      BY <2>1 DEF T
  <1> QED
    BY <1>5 DEF PlacedFrom

(* A packet w of a header, CIF0 and the data. *)
ContextLayout(w, h, cif0, data) ==
    /\ Len(w) = SizeInWords(h) + 1 + Len(data) /\ w[SizeInWords(h) + 1] = cif0
    /\ \A k \in 1 .. Len(data) : w[SizeInWords(h) + 1 + k] = data[k]

(* What decode() finds in a packet w that is made of the header h, of CIF0 *)
(* and of the data.                                                        *)
LEMMA ContextDecoded ==
    ASSUME NEW fields, FieldsOK(fields), NEW o \in ByteOrder, NEW h, NEW w, IsPacket(w, h, o),
           IsContextPacket(h.packetType), h.packetSize = Len(w),
           NEW cif0, cif0 = Cif0Of(fields), NEW data \in Seq(Word), NEW st, FieldPlaces(data, fields, cif0, o, st),
           ContextLayout(w, h, cif0, data)
    PROVE  ContextValid(w) /\ FieldsClose(ContextFields(w, o), fields)
  <1> DEFINE f == Fixed(w[1])
             z == SizeInWords(h)
  <1>0. /\ Len(w) = z + 1 + Len(data) /\ w[z + 1] = cif0 /\ z = SizeInWords(h)
        /\ \A k \in 1 .. Len(data) : w[z + 1 + k] = data[k]
    BY DEF ContextLayout
  <1>1. /\ w \in Seq(Word) /\ Len(w) \in Nat /\ Len(w) >= 1 /\ w # <<>>
        /\ f.packetType = h.packetType /\ f.packetSize = h.packetSize /\ SizeInWords(f) = SizeInWords(h)
    BY PacketFixed
  <1>2. f = Fixed(w[1])
    OBVIOUS
  <1> HIDE DEF f
  <1>3. z \in Nat /\ z >= 1 /\ Len(data) \in Nat
    BY SizeRange
  <1> HIDE DEF z
  <1>4. HeaderValid(w)
    BY <1>0, <1>1, <1>2, <1>3 DEF HeaderValid
  <1>5. /\ \A b \in 21 .. 31 : Cif0Has(cif0, b) <=> fields[b] # <<>>
        /\ \A b \in 15 .. 20 : ~ Cif0Has(cif0, b)
    BY Cif0Back
  <1>6. \A b : FieldAt(w, b) = FieldFrom(z + 1, cif0, b)
    BY <1>0, <1>1, <1>2, FieldAtFrom
  <1>7. \A i \in 1 .. 11 : FieldFrom(z + 1, cif0, 32 - i) = z + 1 + 1 + st[i]
    <2>1. z + 1 \in Nat
      BY <1>3
    <2>2. PlacedFrom(z + 1, cif0, st)
      BY <2>1, FieldPlaced
    <2> QED
      BY <2>2 DEF PlacedFrom
  <1>8. ASSUME NEW b \in 21 .. 31
        PROVE  /\ 32 - b \in 1 .. 11 /\ 32 - (32 - b) = b /\ st[32 - b] \in Nat
               /\ FieldAt(w, b) = z + 2 + st[32 - b]
               /\ fields[b] # <<>> => /\ st[32 - b] + Cif0FieldSizeWords(b) <= Len(data)
                                      /\ Len(WordsOf(fields, b, o)) = Cif0FieldSizeWords(b)
                                      /\ \A k \in 1 .. Cif0FieldSizeWords(b) : data[st[32 - b] + k] = WordsOf(fields, b, o)[k]
    <2> DEFINE i == 32 - b
    <2>1. i \in 1 .. 11 /\ 32 - i = b
      OBVIOUS
    <2> HIDE DEF i
    <2>2. /\ st \in [1 .. 12 -> Nat]
          /\ st[i + 1] = st[i] + Gap(cif0, b) /\ st[i + 1] <= Len(data)
          /\ fields[b] # <<>> =>
              /\ Len(WordsOf(fields, b, o)) = Cif0FieldSizeWords(b)
              /\ \A k \in 1 .. Cif0FieldSizeWords(b) : data[st[i] + k] = WordsOf(fields, b, o)[k]
      BY <2>1 DEF FieldPlaces
    <2>3. st[i] \in Nat
      <3>1. i \in 1 .. 12
        BY <2>1
      <3> QED
        BY <2>2, <3>1
    <2>4. FieldAt(w, b) = z + 1 + 1 + st[i]
      BY <1>6, <1>7, <2>1
    <2>5. fields[b] # <<>> => Gap(cif0, b) = Cif0FieldSizeWords(b)
      BY <1>5 DEF Gap
    <2>6. z + 1 + 1 + st[i] = z + 2 + st[i]
      BY <1>3, <2>3
    <2> QED
      BY <2>1, <2>2, <2>3, <2>4, <2>5, <2>6 DEF i
  <1>9. ASSUME NEW b \in 15 .. 30
        PROVE  FieldFits(w, cif0, f.packetSize, b)
    <2>1. CASE b \in 15 .. 20
      BY <1>5, <2>1 DEF FieldFits
    <2>2. CASE b \in 21 .. 30
      <3>1. b \in 21 .. 31
        BY <2>2
      <3>2. Cif0FieldSizeWords(b) \in Nat
        BY DEF Cif0FieldSizeWords
      <3>3. fields[b] # <<>> => FieldAt(w, b) + Cif0FieldSizeWords(b) - 1 <= f.packetSize
        <4> DEFINE s == st[32 - b]
                   n == Cif0FieldSizeWords(b)
        <4>1. s \in Nat /\ FieldAt(w, b) = z + 2 + s /\ (fields[b] # <<>> => s + n <= Len(data))
          BY <1>8, <3>1
        <4>2. f.packetSize = z + 1 + Len(data) /\ n \in Nat
          BY <1>0, <1>1, <3>2
        <4> HIDE DEF s, n
        <4>3. fields[b] # <<>> => (z + 2 + s) + n - 1 <= z + 1 + Len(data)
          BY <1>3, <4>1, <4>2
        <4> QED
          BY <4>1, <4>2, <4>3 DEF n
      <3> QED
        BY <1>5, <3>1, <3>3 DEF FieldFits
    <2> QED
      BY <2>1, <2>2
  <1>10. ContextValid(w)
    <2>1. SizeInWords(f) + 1 <= f.packetSize /\ IsContextPacket(f.packetType)
      BY <1>0, <1>1, <1>3
    <2>2. \A b \in 15 .. 30 : FieldFits(w, w[SizeInWords(f) + 1], f.packetSize, b)
      BY <1>0, <1>1, <1>9
    <2> QED
      BY <1>2, <1>4, <2>1, <2>2, ContextValidParts
  <1>11. ASSUME NEW b \in Field
         PROVE  /\ fields[b] # <<>> => /\ ContextFields(w, o)[b] = <<ReadField(b, w, FieldAt(w, b), o)>>
                                       /\ Restores(b, w, FieldAt(w, b), o, fields[b][1])
                                       /\ fields[b] = <<fields[b][1]>>
                /\ fields[b] = <<>> => ContextFields(w, o)[b] = <<>>
    <2>1. b \in 21 .. 31
      BY FieldRange
    <2>2. ContextFields(w, o)[b] = IF Cif0Has(cif0, b) THEN <<ReadField(b, w, FieldAt(w, b), o)>> ELSE <<>>
      BY <1>0, <1>1, <1>2 DEF ContextFields
    <2>3. ASSUME fields[b] # <<>>
          PROVE  Restores(b, w, FieldAt(w, b), o, fields[b][1]) /\ fields[b] = <<fields[b][1]>>
      <3> DEFINE s == st[32 - b]
                 d == WordsOf(fields, b, o)
                 at == FieldAt(w, b)
      <3>1. /\ s \in Nat /\ at = z + 2 + s /\ s + Cif0FieldSizeWords(b) <= Len(data)
            /\ Len(d) = Cif0FieldSizeWords(b)
            /\ \A k \in 1 .. Cif0FieldSizeWords(b) : data[s + k] = d[k]
        BY <1>8, <2>1, <2>3
      <3>2. FieldValue(b, fields[b][1]) /\ fields[b] = <<fields[b][1]>>
        BY <2>3 DEF FieldsOK
      <3>3. d = FieldWords(b, fields[b][1], o)
        BY DEF WordsOf
      <3>4. Cif0FieldSizeWords(b) \in Nat
        BY DEF Cif0FieldSizeWords
      <3> HIDE DEF s, d, at
      <3>5. at \in Nat
        BY <1>3, <3>1
      <3>6. ASSUME NEW k \in 1 .. Len(d)
            PROVE  w[at + (k - 1)] = d[k]
        <4>1. s + k \in 1 .. Len(data) /\ at + (k - 1) = z + 1 + (s + k) /\ k \in 1 .. Cif0FieldSizeWords(b)
          <5> DEFINE n == Cif0FieldSizeWords(b)
          <5>1. n \in Nat /\ s \in Nat /\ z \in Nat /\ Len(data) \in Nat /\ s + n <= Len(data) /\ k \in 1 .. n /\ at = z + 2 + s
            BY <1>3, <3>1, <3>4, <3>6
          <5> HIDE DEF n
          <5> DEFINE L == Len(data)
          <5>2. k \in Nat /\ k >= 1 /\ k <= n /\ L \in Nat /\ s + n <= L
            BY <5>1
          <5> HIDE DEF L
          <5>3. s + k \in 1 .. L
            BY <5>1, <5>2
          <5>4. at + (k - 1) = z + 1 + (s + k)
            BY <5>1, <5>2
          <5> QED
            BY <5>1, <5>3, <5>4 DEF n, L
        <4> QED
          BY <1>0, <3>1, <4>1
      <3>7. Written(w, at, d)
        BY <3>6 DEF Written
      <3>8. Written(w, at, d) => Restores(b, w, at, o, fields[b][1])
        BY <3>2, <3>3, <3>5, FieldRoundTrip
      <3> QED
        BY <3>2, <3>7, <3>8 DEF at
    <2> QED
      BY <1>5, <2>1, <2>2, <2>3
  <1>12. ASSUME NEW b \in Field
         PROVE  /\ Len(ContextFields(w, o)[b]) = Len(fields[b])
                /\ \A k \in DOMAIN ContextFields(w, o)[b] :
                     IF b \in PlainField THEN ContextFields(w, o)[b][k] = fields[b][k]
                     ELSE ContextFields(w, o)[b][k] - fields[b][k] \in -1 .. 1
    <2>1. CASE fields[b] = <<>>
      BY <1>11, <2>1
    <2>2. CASE fields[b] # <<>>
      <3>1. PICK x, y : ContextFields(w, o)[b] = <<x>> /\ fields[b] = <<y>>
                        /\ IF b \in PlainField THEN x = y ELSE x - y \in -1 .. 1
        BY <1>11, <2>2 DEF Restores
      <3> QED
        BY <3>1
    <2> QED
      BY <2>1, <2>2
  <1> QED
    BY <1>10, <1>12 DEF FieldsClose

(* encode() of a context packet: the packet, if it is not too long. *)
ContextOK(w, h, g, fields, o) ==
    /\ IsPacket(w, h, o) /\ SameHeader(h, g) /\ h.packetSize = Len(w) /\ h.packetCount = g.packetCount
    /\ ContextValid(w) /\ FieldsClose(ContextFields(w, o), fields)

(* What encode() returns for a context packet, if it fits. *)
LEMMA ContextPacket ==
    ASSUME NEW g \in Header, Complete(g), IsContextPacket(g.packetType), NEW fields, FieldsOK(fields),
           NEW o \in ByteOrder, NEW w, w = ContextEncode(g, fields, o)
    PROVE  w = <<>> \/ \E h : ContextOK(w, h, g, fields, o)
  <1> DEFINE data == FieldData(fields, o)
             cif0 == Cif0Of(fields)
             total == SizeInWords(g) + 1 + Len(data)
             h == [g EXCEPT !.packetSize = total]
             s == Serialize(h, o)
             rest == <<cif0>> \o data
  <1> SUFFICES ASSUME ~ (total > MaxPacketSizeWords)
               PROVE  ContextOK(w, h, g, fields, o)
    BY DEF ContextEncode
  <1>1. w = s \o <<cif0>> \o data
    BY DEF ContextEncode
  <1>2. data \in Seq(Word)
    BY FieldDataParts
  <1>3. PICK st : FieldPlaces(data, fields, cif0, o, st)
    BY FieldDataParts
  <1>4. cif0 \in Word /\ <<cif0>> \in Seq(Word) /\ Len(<<cif0>>) = 1 /\ <<cif0>>[1] = cif0
    BY Cif0Back
  <1>5. SizeInWords(g) \in Nat /\ MaxPacketSizeWords \in Nat /\ Len(data) \in Nat
    BY <1>2, SizeRange, MaxPacketType
  <1>6. total \in 0 .. MaxPacketSizeWords
    BY <1>5
  <1> HIDE DEF data, cif0, total
  <1>7. /\ h \in Header /\ Complete(h) /\ SameHeader(h, g) /\ SizeInWords(h) = SizeInWords(g)
        /\ h.packetSize = total /\ h.packetCount = g.packetCount
    BY <1>6, SizedHeader
  <1> HIDE DEF h
  <1>8. s \in Seq(Word)
    BY <1>7, SerializeShape
  <1> HIDE DEF s
  <1>9. /\ rest \in Seq(Word) /\ Len(rest) = 1 + Len(data) /\ rest[1] = cif0
        /\ \A k \in 1 .. Len(data) : rest[1 + k] = data[k]
    <2>1. /\ rest \in Seq(Word) /\ Len(rest) = Len(<<cif0>>) + Len(data)
          /\ \A i \in 1 .. Len(<<cif0>>) : rest[i] = <<cif0>>[i]
          /\ \A i \in 1 .. Len(data) : rest[Len(<<cif0>>) + i] = data[i]
      BY <1>2, <1>4, Concat
    <2> QED
      BY <1>4, <2>1
  <1>10. w = s \o rest
    BY <1>1, <1>2, <1>4, <1>8, ConcatAssociative
  <1> HIDE DEF rest
  <1>11. h.packetSize = SizeInWords(h) + Len(rest) /\ Len(rest) \in Nat
    BY <1>5, <1>7, <1>9 DEF total
  <1>12. h.packetSize <= SizeInWords(h) + Len(rest)
    BY <1>11, SizeRange
  <1>13. HeadAndRest(w, h, rest, o)
    BY <1>7, <1>9, <1>10, <1>12, HeaderThenRest DEF s
  <1> DEFINE z == SizeInWords(h)
  <1>14. /\ IsPacket(w, h, o) /\ Len(w) = z + Len(rest) /\ z \in Nat
         /\ \A k \in 1 .. Len(rest) : w[z + k] = rest[k]
    BY <1>13, SizeRange DEF HeadAndRest
  <1> HIDE DEF z
  <1>15. /\ Len(w) = z + 1 + Len(data) /\ w[z + 1] = cif0
         /\ \A k \in 1 .. Len(data) : w[z + 1 + k] = data[k]
    <2>1. 1 \in 1 .. Len(rest) /\ \A k \in 1 .. Len(data) : 1 + k \in 1 .. Len(rest) /\ z + (1 + k) = z + 1 + k
      BY <1>5, <1>9, <1>14
    <2>2. z + Len(rest) = z + 1 + Len(data)
      BY <1>5, <1>9, <1>14
    <2> QED
      BY <1>9, <1>14, <2>1, <2>2
  <1>16. IsContextPacket(h.packetType) /\ h.packetSize = Len(w)
    BY <1>7, <1>11, <1>14 DEF SameHeader, z
  <1>17. ContextValid(w) /\ FieldsClose(ContextFields(w, o), fields)
    <2>1. ContextLayout(w, h, cif0, data) /\ cif0 = Cif0Of(fields)
      BY <1>15 DEF z, cif0, ContextLayout
    <2> QED
      BY <1>2, <1>3, <1>14, <1>16, <2>1, ContextDecoded
  <1> QED
    BY <1>7, <1>14, <1>16, <1>17 DEF ContextOK

-----------------------------------------------------------------------------
(* The packets of encodeSignalData(). *)

(* The samples of the k-th packet. *)
Piece(samples, most, number, k) ==
    SubSeq(samples, (k - 1) * most + 1, IF k = number THEN Len(samples) ELSE k * most)

(* A part of a sequence. *)
LEMMA Part ==
    ASSUME NEW W, NEW s \in Seq(W), NEW a \in Nat, NEW b \in Nat, a <= b, b <= Len(s)
    PROVE  /\ SubSeq(s, a + 1, b) \in Seq(W) /\ Len(SubSeq(s, a + 1, b)) = b - a
           /\ \A j \in 1 .. b - a : SubSeq(s, a + 1, b)[j] = s[a + j]
  <1>1. \A i \in (a + 1) .. b : i \in 1 .. Len(s)
    OBVIOUS
  <1>2. SubSeq(s, a + 1, b) = [i \in 1 .. b - (a + 1) + 1 |-> s[i + (a + 1) - 1]]
    OBVIOUS
  <1>3. b - (a + 1) + 1 = b - a /\ b - a \in Nat /\ \A i \in 1 .. b - a : i + (a + 1) - 1 = a + i /\ a + i \in 1 .. Len(s)
    OBVIOUS
  <1>4. SubSeq(s, a + 1, b) = [i \in 1 .. b - a |-> s[a + i]]
    BY <1>2, <1>3
  <1>5. \A i \in 1 .. b - a : s[a + i] \in W
    BY <1>3
  <1> QED
    BY <1>3, <1>4, <1>5, FunctionSeq

(* What encode() makes of the samples in piece. *)
SignalOK(w, h, g, piece, factor, o) ==
    /\ IsPacket(w, h, o) /\ SameHeader(h, g) /\ SizeInWords(h) = SizeInWords(g)
    /\ h.packetSize = Len(w) /\ h.packetCount = g.packetCount /\ SignalValid(w, 1)
    /\ Len(w) = SizeInWords(g) + Len(piece) + g.trailerPresent
    /\ \A k \in 1 .. Len(piece) : w[SizeInWords(g) + k] = SampleWord(piece[k], factor, o)

(* A packet of encodeSignalData(), which decode() accepts. *)
LEMMA SignalEncoded ==
    ASSUME NEW g \in Header, Complete(g), IsDataPacket(g.packetType), NEW piece \in Seq(Int \X Int),
           NEW factor \in Nat, NEW o,
           SizeInWords(g) + Len(piece) + g.trailerPresent <= MaxPacketSizeWords,
           NEW w, w = SignalEncode(g, piece, factor, o)
    PROVE  \E h : SignalOK(w, h, g, piece, factor, o)
  <1> DEFINE total == SizeInWords(g) + Len(piece) + g.trailerPresent
             h == [g EXCEPT !.packetSize = total]
  <1>1. total = SizeInWords(g) + Len(piece) + g.trailerPresent /\ total <= MaxPacketSizeWords /\ h = [g EXCEPT !.packetSize = total]
    OBVIOUS
  <1> HIDE DEF total, h
  <1>2. /\ IsPacket(w, h, o) /\ SameHeader(h, g) /\ SizeInWords(h) = SizeInWords(g)
        /\ h.packetSize = total /\ Len(w) = total /\ h.packetCount = g.packetCount
        /\ \A k \in 1 .. Len(piece) : w[SizeInWords(h) + k] = SampleWord(piece[k], factor, o)
    BY <1>1, SignalPacket
  <1> DEFINE f == Fixed(w[1])
  <1>3. /\ w # <<>> /\ f.packetType = h.packetType /\ f.trailerPresent = h.trailerPresent
        /\ f.packetSize = h.packetSize /\ SizeInWords(f) = SizeInWords(h) /\ h.packetSize \in Nat
        /\ h.trailerPresent \in 0 .. 1
    BY <1>2, PacketFixed
  <1>4. h.packetType = g.packetType /\ h.trailerPresent = g.trailerPresent
    BY <1>2 DEF SameHeader
  <1>5. SizeInWords(g) \in Nat /\ SizeInWords(g) >= 1 /\ Len(piece) \in Nat
    BY SizeRange
  <1>6. /\ h.packetSize # 0 /\ h.packetSize <= Len(w) /\ SizeInWords(h) <= h.packetSize
        /\ SizeInWords(h) + h.trailerPresent <= h.packetSize
    BY <1>1, <1>2, <1>3, <1>4, <1>5
  <1>7. HeaderValid(w)
    BY <1>3, <1>6 DEF HeaderValid
  <1>8. SignalValid(w, 1)
    BY <1>3, <1>4, <1>6, <1>7 DEF SignalValid
  <1> QED
    BY <1>1, <1>2, <1>8 DEF SignalOK

(* Where the samples of a packet come from. *)
PieceOK(piece, samples, most, number, k) ==
    /\ piece \in Seq(Int \X Int) /\ Len(piece) \in Nat /\ Len(piece) <= most
    /\ k # number => Len(piece) = most
    /\ (k - 1) * most \in Nat
    /\ (k - 1) * most + Len(piece) <= Len(samples)
    /\ k = number => (k - 1) * most + Len(piece) = Len(samples)
    /\ \A j \in 1 .. Len(piece) : piece[j] = samples[(k - 1) * most + j]

(* They are those that follow the samples of the packets before it. *)
LEMMA PieceFacts ==
    ASSUME NEW samples \in Seq(Int \X Int), NEW most \in Nat, most > 0,
           NEW number, number = IF samples = <<>> THEN 1 ELSE (Len(samples) + most - 1) \div most,
           NEW k \in 1 .. number
    PROVE  PieceOK(Piece(samples, most, number, k), samples, most, number, k)
  <1> DEFINE L == Len(samples)
             a == (k - 1) * most
             b == IF k = number THEN L ELSE k * most
  <1>1. L \in Nat /\ (samples = <<>> <=> L = 0)
    OBVIOUS
  <1>2. number = IF L = 0 THEN 1 ELSE (L + most - 1) \div most
    BY <1>1
  <1> HIDE DEF L
  <1>3. /\ number \in Nat /\ number >= 1
        /\ \A i \in 1 .. number :
             /\ (i - 1) * most \in Nat /\ (i - 1) * most <= L
             /\ L - (i - 1) * most <= most <=> i = number
             /\ i # number => i * most <= L
             /\ i * most = (i - 1) * most + most
    BY <1>1, <1>2, SplitFacts
  <1>4. /\ a \in Nat /\ a <= L /\ (k = number => L - a <= most) /\ (k # number => k * most <= L)
        /\ k * most = a + most
    BY <1>3
  <1>5. b = IF k = number THEN L ELSE a + most
    BY <1>4
  <1> HIDE DEF a, b
  <1>6. b \in Nat /\ a <= b /\ b <= L /\ b - a <= most /\ b - a \in Nat /\ (k # number => b - a = most) /\ (k = number => a + (b - a) = L)
        /\ a + (b - a) = b
    BY <1>1, <1>4, <1>5
  <1> DEFINE piece == SubSeq(samples, a + 1, b)
  <1>7. piece \in Seq(Int \X Int) /\ Len(piece) = b - a /\ \A j \in 1 .. b - a : piece[j] = samples[a + j]
    <2>1. b <= Len(samples) /\ a \in Nat /\ b \in Nat /\ a <= b
      BY <1>4, <1>6 DEF L
    <2>2. /\ SubSeq(samples, a + 1, b) \in Seq(Int \X Int) /\ Len(SubSeq(samples, a + 1, b)) = b - a
          /\ \A j \in 1 .. b - a : SubSeq(samples, a + 1, b)[j] = samples[a + j]
      BY <2>1, Part
    <2> QED
      BY <2>2
  <1>8. Piece(samples, most, number, k) = piece
    BY DEF Piece, a, b, L
  <1> HIDE DEF piece
  <1>9. /\ Len(piece) \in Nat /\ Len(piece) <= most /\ (k # number => Len(piece) = most) /\ a \in Nat
        /\ a + Len(piece) <= L /\ (k = number => a + Len(piece) = L)
        /\ \A j \in 1 .. Len(piece) : piece[j] = samples[a + j]
    BY <1>4, <1>6, <1>7
  <1> QED
    BY <1>7, <1>8, <1>9 DEF PieceOK, a, L

(* The sequences of packets that encodeSignalData() sends. *)
TheStamps == [tsi : 0 .. 3, tsf : 0 .. 3, int : Word, frac : Word \X Word]
NumberOf(samples, most) == IF samples = <<>> THEN 1 ELSE (Len(samples) + most - 1) \div most
KthHeader(id, start, k, trailer, stamp) == NewHeader(1, id, start + k - 1, trailer, stamp)
KthPacket(id, samples, start, stamp, trailer, k) ==
    LET most == MaxSamplesPerPacket(stamp, trailer)
    IN  SignalEncode(KthHeader(id, start, k, trailer, stamp),
                     Piece(samples, most, NumberOf(samples, most), k), scale, order)

(* A header of such a packet: there is room for most samples. *)
RoomOK(g, most, start, k, trailer) ==
    /\ g \in Header /\ Complete(g) /\ IsDataPacket(g.packetType) /\ g.trailerPresent = trailer
    /\ g.packetCount = (start + k - 1) % 16
    /\ most \in Nat /\ most > 0 /\ SizeInWords(g) \in Nat
    /\ SizeInWords(g) + most + trailer = MaxPacketSizeWords

(* Every packet has the same overhead, and there is room for a sample. *)
LEMMA SignalRoom ==
    ASSUME NEW id \in Word, NEW start \in Nat, NEW stamp \in TheStamps, NEW trailer \in 0 .. 1,
           NEW k \in Nat, k >= 1, NEW g, g = KthHeader(id, start, k, trailer, stamp),
           NEW most, most = MaxSamplesPerPacket(stamp, trailer)
    PROVE  RoomOK(g, most, start, k, trailer)
  <1>1. 1 \in {1, 4} /\ start + k - 1 \in Nat /\ (trailer = 1 => 1 = 1)
    OBVIOUS
  <1>2. g = NewHeader(1, id, start + k - 1, trailer, stamp)
    BY DEF KthHeader
  <1>3. /\ g \in Header /\ Complete(g)
        /\ g.packetType = 1 /\ g.packetCount = (start + k - 1) % 16 /\ g.trailerPresent = trailer
        /\ SizeInWords(g) = 2 + (IF stamp.tsi # 0 THEN 1 ELSE 0) + (IF stamp.tsf # 0 THEN 2 ELSE 0)
    <2> DEFINE count == start + k - 1
    <2>1. count \in Nat /\ stamp \in [tsi : 0 .. 3, tsf : 0 .. 3, int : Word, frac : Word \X Word]
          /\ g = NewHeader(1, id, count, trailer, stamp)
      BY <1>1, <1>2 DEF TheStamps
    <2> HIDE DEF count
    <2>2. Built(g, 1, count, trailer, stamp)
      BY <1>1, <2>1, NewHeaderOK
    <2> QED
      BY <2>2 DEF count, Built
  <1>4. IsDataPacket(g.packetType)
    BY <1>3 DEF IsDataPacket
  <1> DEFINE overhead == 2 + (IF stamp.tsi # 0 THEN 1 ELSE 0) + (IF stamp.tsf # 0 THEN 2 ELSE 0) + trailer
  <1>5. most = IF overhead >= MaxPacketSizeWords THEN 0 ELSE MaxPacketSizeWords - overhead
    BY DEF MaxSamplesPerPacket
  <1>6. overhead \in Nat /\ overhead <= 6 /\ overhead = SizeInWords(g) + trailer /\ SizeInWords(g) \in Nat
    BY <1>3
  <1> HIDE DEF overhead
  <1>7. most = MaxPacketSizeWords - overhead /\ most \in Nat /\ most > 0
    BY <1>5, <1>6, MaxPacketType
  <1>8. SizeInWords(g) + most + trailer = MaxPacketSizeWords
    BY <1>6, <1>7, MaxPacketType
  <1> QED
    BY <1>3, <1>4, <1>6, <1>7, <1>8 DEF RoomOK

(* The k-th packet. *)
KthOK(w, h, id, samples, start, stamp, trailer, k) ==
    LET most == MaxSamplesPerPacket(stamp, trailer)
    IN  SignalOK(w, h, KthHeader(id, start, k, trailer, stamp),
                 Piece(samples, most, NumberOf(samples, most), k), scale, order)

(* The k-th packet of a call is one, full unless it is the last. *)
LEMMA SignalKth ==
    ASSUME scale \in Nat, NEW id \in Word, NEW samples \in Seq(Int \X Int), NEW start \in Nat,
           NEW stamp \in TheStamps, NEW trailer \in 0 .. 1,
           NEW most, most = MaxSamplesPerPacket(stamp, trailer), NEW number, number = NumberOf(samples, most),
           NEW k \in 1 .. number
    PROVE  /\ PieceOK(Piece(samples, most, number, k), samples, most, number, k)
           /\ \E h : KthOK(KthPacket(id, samples, start, stamp, trailer, k), h, id, samples, start, stamp, trailer, k)
  <1> DEFINE g == KthHeader(id, start, k, trailer, stamp)
             piece == Piece(samples, most, number, k)
             w == SignalEncode(g, piece, scale, order)
  <1>1. most \in Nat /\ most > 0
    <2>1. 1 \in Nat /\ 1 >= 1
      OBVIOUS
    <2>2. RoomOK(KthHeader(id, start, 1, trailer, stamp), most, start, 1, trailer)
      BY <2>1, SignalRoom
    <2> QED
      BY <2>2 DEF RoomOK
  <1>2. number \in Nat /\ number >= 1 /\ number = IF samples = <<>> THEN 1 ELSE (Len(samples) + most - 1) \div most
    <2> DEFINE L == Len(samples)
    <2>1. L \in Nat /\ (samples = <<>> <=> L = 0)
      OBVIOUS
    <2>2. number = IF samples = <<>> THEN 1 ELSE (Len(samples) + most - 1) \div most
      BY DEF NumberOf
    <2>3. number = IF L = 0 THEN 1 ELSE (L + most - 1) \div most
      BY <2>1, <2>2
    <2> HIDE DEF L
    <2>4. number \in Nat /\ number >= 1
      BY <1>1, <2>1, <2>3, SplitFacts
    <2> QED
      BY <2>2, <2>4
  <1>3. k \in Nat /\ k >= 1
    BY <1>2
  <1>4. PieceOK(piece, samples, most, number, k)
    BY <1>1, <1>2, PieceFacts
  <1>5. /\ g \in Header /\ Complete(g) /\ IsDataPacket(g.packetType) /\ g.trailerPresent = trailer
        /\ SizeInWords(g) \in Nat /\ SizeInWords(g) + most + trailer = MaxPacketSizeWords
    <2>1. RoomOK(g, most, start, k, trailer)
      BY <1>3, SignalRoom
    <2> HIDE DEF g
    <2> QED
      BY <2>1 DEF RoomOK
  <1>6. w = KthPacket(id, samples, start, stamp, trailer, k)
    BY DEF KthPacket
  <1>7. w = SignalEncode(g, piece, scale, order)
    OBVIOUS
  <1>8. \A h : SignalOK(w, h, g, piece, scale, order) => KthOK(w, h, id, samples, start, stamp, trailer, k)
    BY DEF KthOK
  <1> HIDE DEF g, piece, w
  <1>9. piece \in Seq(Int \X Int) /\ SizeInWords(g) + Len(piece) + g.trailerPresent <= MaxPacketSizeWords
    <2>1. piece \in Seq(Int \X Int) /\ Len(piece) \in Nat /\ Len(piece) <= most
      BY <1>4 DEF PieceOK
    <2> QED
      BY <1>1, <1>5, <2>1
  <1>10. \E h : SignalOK(w, h, g, piece, scale, order)
    BY <1>5, <1>7, <1>9, SignalEncoded
  <1> QED
    BY <1>4, <1>6, <1>8, <1>10 DEF piece

(* The number of packets. *)
LEMMA NumberType ==
    ASSUME NEW id \in Word, NEW samples \in Seq(Int \X Int), NEW start \in Nat, NEW stamp \in TheStamps,
           NEW trailer \in 0 .. 1, NEW most, most = MaxSamplesPerPacket(stamp, trailer),
           NEW number, number = NumberOf(samples, most)
    PROVE  number \in Nat /\ number >= 1 /\ most \in Nat /\ most > 0
  <1>1. most \in Nat /\ most > 0
    <2>1. 1 \in Nat /\ 1 >= 1
      OBVIOUS
    <2>2. RoomOK(KthHeader(id, start, 1, trailer, stamp), most, start, 1, trailer)
      BY <2>1, SignalRoom
    <2> QED
      BY <2>2 DEF RoomOK
  <1> DEFINE L == Len(samples)
  <1>2. L \in Nat /\ (samples = <<>> <=> L = 0)
    OBVIOUS
  <1>3. number = IF L = 0 THEN 1 ELSE (L + most - 1) \div most
    BY <1>2 DEF NumberOf
  <1> HIDE DEF L
  <1>4. number \in Nat /\ number >= 1
    BY <1>1, <1>2, <1>3, SplitFacts
  <1> QED
    BY <1>1, <1>4

(* What the rest of the proof uses of the k-th packet. *)
KthParts(w, h, id, samples, start, stamp, trailer, k, number) ==
    LET g    == NewHeader(1, id, start, trailer, stamp)
        most == MaxSamplesPerPacket(stamp, trailer)
        have == Len(w) - SizeInWords(g) - trailer
    IN  /\ IsPacket(w, h, order) /\ SameHeader(h, g) /\ h.packetSize = Len(w) /\ Acceptable(w)
        /\ w \in Seq(Word) /\ Len(w) \in Nat /\ Len(w) >= 1
        /\ h.packetCount = (start + k - 1) % 16 /\ Fixed(w[1]).packetCount = h.packetCount
        /\ SizeInWords(g) \in Nat /\ SizeInWords(g) + most + trailer = MaxPacketSizeWords
        /\ k # number => Len(w) = MaxPacketSizeWords
        /\ have \in Nat /\ (k - 1) * most \in Nat /\ (k - 1) * most + have <= Len(samples)
        /\ k = number => (k - 1) * most + have = Len(samples)
        /\ \A j \in 1 .. have : w[SizeInWords(g) + j] = SampleWord(samples[(k - 1) * most + j], scale, order)

(* What the k-th packet of a call holds. *)
LEMMA KthFacts ==
    ASSUME scale \in Nat, NEW id \in Word, NEW samples \in Seq(Int \X Int), NEW start \in Nat,
           NEW stamp \in TheStamps, NEW trailer \in 0 .. 1,
           NEW most, most = MaxSamplesPerPacket(stamp, trailer), NEW number, number = NumberOf(samples, most),
           NEW k \in 1 .. number
    PROVE  \E h : KthParts(KthPacket(id, samples, start, stamp, trailer, k), h, id, samples, start, stamp, trailer, k, number)
  <1> DEFINE w == KthPacket(id, samples, start, stamp, trailer, k)
             g == NewHeader(1, id, start, trailer, stamp)
             gk == KthHeader(id, start, k, trailer, stamp)
             piece == Piece(samples, most, number, k)
             z == SizeInWords(g)
  <1>1. number \in Nat /\ number >= 1 /\ most \in Nat /\ most > 0
    BY NumberType
  <1>2. k \in Nat /\ k >= 1
    BY <1>1
  <1>3. PieceOK(piece, samples, most, number, k)
    BY SignalKth
  <1>4. PICK h : KthOK(w, h, id, samples, start, stamp, trailer, k)
    BY SignalKth
  <1>5. RoomOK(gk, most, start, k, trailer)
    BY <1>2, SignalRoom
  <1>6. SameHeader(gk, g)
    BY DEF KthHeader, NewHeader, DefaultHeader, SameHeader
  <1>7. SignalOK(w, h, gk, piece, scale, order)
    BY <1>4 DEF KthOK
  <1> HIDE DEF w, gk, piece, g
  <1>8. SizeInWords(gk) = z /\ gk.trailerPresent = g.trailerPresent
    BY <1>6 DEF SameHeader, SizeInWords
  <1>9. /\ IsPacket(w, h, order) /\ SameHeader(h, gk) /\ h.packetSize = Len(w) /\ h.packetCount = gk.packetCount
        /\ SignalValid(w, 1) /\ SizeInWords(h) = z
        /\ Len(w) = z + Len(piece) + gk.trailerPresent
        /\ \A j \in 1 .. Len(piece) : w[z + j] = SampleWord(piece[j], scale, order)
    BY <1>7, <1>8 DEF SignalOK
  <1>10. /\ w \in Seq(Word) /\ Len(w) \in Nat /\ Len(w) >= 1 /\ Fixed(w[1]).packetCount = h.packetCount
         /\ Fixed(w[1]).packetType = h.packetType
    BY <1>9, PacketFixed
  <1>11. /\ IsDataPacket(gk.packetType) /\ gk.trailerPresent = trailer /\ gk.packetCount = (start + k - 1) % 16
         /\ z \in Nat /\ z + most + trailer = MaxPacketSizeWords
    BY <1>5, <1>8 DEF RoomOK
  <1>12. SameHeader(h, g) /\ IsDataPacket(h.packetType)
    BY <1>6, <1>9, <1>11 DEF SameHeader
  <1>13. Acceptable(w)
    BY <1>9, <1>10, <1>12 DEF Acceptable
  <1> HIDE DEF z
  <1>14. /\ Len(piece) \in Nat /\ Len(piece) <= most /\ (k # number => Len(piece) = most) /\ (k - 1) * most \in Nat
         /\ (k - 1) * most + Len(piece) <= Len(samples)
         /\ k = number => (k - 1) * most + Len(piece) = Len(samples)
         /\ \A j \in 1 .. Len(piece) : piece[j] = samples[(k - 1) * most + j]
    BY <1>3 DEF PieceOK
  <1> DEFINE n == Len(piece)
             have == Len(w) - z - trailer
  <1>15. have = n /\ (k # number => Len(w) = MaxPacketSizeWords)
    <2>1. n \in Nat /\ Len(w) = z + n + trailer /\ (k # number => n = most)
      BY <1>9, <1>11, <1>14
    <2> HIDE DEF n
    <2> QED
      BY <1>11, <2>1
  <1>16. \A j \in 1 .. have : w[z + j] = SampleWord(samples[(k - 1) * most + j], scale, order)
    BY <1>9, <1>14, <1>15
  <1> HIDE DEF have
  <1>17. /\ have \in Nat /\ (k - 1) * most \in Nat /\ (k - 1) * most + have <= Len(samples)
         /\ k = number => (k - 1) * most + have = Len(samples)
    BY <1>14, <1>15
  <1>18. KthParts(w, h, id, samples, start, stamp, trailer, k, number)
    BY <1>9, <1>10, <1>11, <1>12, <1>13, <1>15, <1>16, <1>17 DEF KthParts, have, z, g
  <1> QED
    BY <1>18 DEF w

(* encodeSignalData() puts the packets one after the other: none is refused *)
(* for its length.                                                         *)
LEMMA SignalFlat ==
    ASSUME scale \in Nat, NEW id \in Word, NEW samples \in Seq(Int \X Int), NEW start \in Nat,
           NEW stamp \in TheStamps, NEW trailer \in 0 .. 1,
           NEW number, number = NumberOf(samples, MaxSamplesPerPacket(stamp, trailer)),
           NEW ws, ws = [k \in 1 .. number |-> KthPacket(id, samples, start, stamp, trailer, k)]
    PROVE  /\ SignalPackets(id, samples, start, stamp, trailer) = FlattenSeq(ws)
           /\ ws \in Seq(Seq(Word)) /\ Len(ws) = number /\ number \in Nat /\ number >= 1
  <1> DEFINE most == MaxSamplesPerPacket(stamp, trailer)
             P(k) == KthPacket(id, samples, start, stamp, trailer, k)
  <1>1. number \in Nat /\ number >= 1 /\ most \in Nat /\ most > 0
    BY NumberType
  <1>2. ASSUME NEW k \in 1 .. number
        PROVE  P(k) \in Seq(Word) /\ P(k) # <<>>
    <2>1. PICK h : KthParts(P(k), h, id, samples, start, stamp, trailer, k, number)
      BY KthFacts
    <2> HIDE DEF P
    <2>2. P(k) \in Seq(Word) /\ Len(P(k)) >= 1
      BY <2>1 DEF KthParts
    <2> QED
      BY <2>2
  <1>3. SignalPackets(id, samples, start, stamp, trailer)
          = IF most = 0 THEN <<>>
            ELSE FlattenSeq([k \in 1 .. number |-> IF \A j \in 1 .. k : P(j) # <<>> THEN P(k) ELSE <<>>])
    BY DEF SignalPackets, KthPacket, KthHeader, Piece, NumberOf
  <1>4. ws = [k \in 1 .. number |-> P(k)]
    OBVIOUS
  <1> HIDE DEF P, most
  <1>5. [k \in 1 .. number |-> IF \A j \in 1 .. k : P(j) # <<>> THEN P(k) ELSE <<>>] = [k \in 1 .. number |-> P(k)]
    <2>1. \A k \in 1 .. number : \A j \in 1 .. k : j \in 1 .. number
      BY <1>1
    <2>2. \A k \in 1 .. number : \A j \in 1 .. k : P(j) # <<>>
      BY <1>2, <2>1
    <2> QED
      BY <2>2
  <1>6. most # 0
    BY <1>1
  <1>7. SignalPackets(id, samples, start, stamp, trailer) = FlattenSeq(ws)
    BY <1>3, <1>4, <1>5, <1>6
  <1>8. ws \in [1 .. number -> Seq(Word)]
    BY <1>2, <1>4
  <1>9. ws \in Seq(Seq(Word)) /\ Len(ws) = number
    BY <1>1, <1>8, FunctionSeq
  <1> QED
    BY <1>1, <1>7, <1>9

(* The words of a call are cut into packets at the places T. *)
Parted(words, T, c, o) ==
    /\ words \in Seq(Word) /\ T \subseteq 0 .. Len(words) /\ 0 \in T /\ Len(words) \in T
    /\ \A p \in T : p < Len(words) => PacketAt(words, p, T, c, o)

(* Where the packets begin. *)
LEMMA SignalPlaces ==
    ASSUME NEW words, NEW ws, NEW st, Parts(words, ws, st), NEW number \in Nat, number >= 1, Len(ws) = number,
           \A k \in 1 .. number : Len(ws[k]) \in Nat /\ Len(ws[k]) >= 1 /\ (k # number => Len(ws[k]) = MaxPacketSizeWords)
    PROVE  /\ \A k \in 1 .. number : st[k] = (k - 1) * MaxPacketSizeWords /\ st[k] < st[number + 1]
           /\ \A k \in 1 .. number : k # number => st[k + 1] < st[number + 1]
  <1> DEFINE M == MaxPacketSizeWords
             T == {n \in Nat : n < number => st[n + 1] = n * M}
  <1>1. M \in Nat /\ M >= 7
    BY MaxPacketType
  <1>2. st \in [1 .. number + 1 -> Nat] /\ st[1] = 0 /\ \A k \in 1 .. number : st[k + 1] = st[k] + Len(ws[k])
    BY DEF Parts
  <1> HIDE DEF M
  <1>3. 0 \in T
    <2>1. 0 * M = 0
      BY <1>1
    <2> QED
      BY <1>2, <2>1
  <1>4. ASSUME NEW n \in Nat, n \in T
        PROVE  n + 1 \in T
    <2> SUFFICES ASSUME n + 1 < number
                 PROVE  st[(n + 1) + 1] = (n + 1) * M
      OBVIOUS
    <2>1. n + 1 \in 1 .. number /\ n + 1 # number /\ n < number
      OBVIOUS
    <2>2. st[n + 1] = n * M /\ st[(n + 1) + 1] = st[n + 1] + M
      BY <1>2, <1>4, <2>1 DEF M
    <2>3. (n + 1) * M = n * M + M
      BY <1>1
    <2> QED
      BY <2>2, <2>3
  <1> HIDE DEF T
  <1>5. Nat \subseteq T
    BY <1>3, <1>4, SetInduction
  <1>6. ASSUME NEW k \in 1 .. number
        PROVE  st[k] = (k - 1) * M
    <2>1. k - 1 \in T /\ k - 1 < number /\ (k - 1) + 1 = k
      BY <1>5
    <2> QED
      BY <2>1 DEF T
  <1>7. st[number + 1] = st[number] + Len(ws[number]) /\ st[number] \in Nat /\ Len(ws[number]) \in Nat /\ Len(ws[number]) >= 1
    <2>1. number \in 1 .. number /\ number \in 1 .. number + 1
      OBVIOUS
    <2> QED
      BY <1>2, <2>1
  <1>8. ASSUME NEW k \in 1 .. number
        PROVE  st[k] < st[number + 1]
    <2>1. st[k] = (k - 1) * M /\ st[number] = (number - 1) * M
      BY <1>6
    <2>2. (k - 1) * M <= (number - 1) * M /\ (k - 1) * M \in Nat /\ (number - 1) * M \in Nat
      <3>1. number - k \in Nat /\ (number - 1) * M = (k - 1) * M + (number - k) * M
        BY <1>1
      <3>2. (number - k) * M \in Nat /\ (k - 1) * M \in Nat
        BY <1>1, <3>1
      <3> QED
        BY <3>1, <3>2
    <2> QED
      BY <1>7, <2>1, <2>2
  <1>9. ASSUME NEW k \in 1 .. number, k # number
        PROVE  st[k + 1] < st[number + 1]
    <2>1. k + 1 \in 1 .. number
      BY <1>9
    <2> QED
      BY <1>8, <2>1
  <1> QED
    BY <1>6, <1>8, <1>9 DEF M

(* A call of encodeSignalData(), its words counted from 0. *)
SignalCall(c, id, samples, start, stamp, trailer, words) ==
    /\ c.kind = "SignalData" /\ c.header = NewHeader(1, id, start, trailer, stamp)
    /\ c.samples = samples /\ c.wellFormed = TRUE /\ c.scale = scale
    /\ c.first = 0 /\ c.end = Len(words)

(* Counting modulo 16. *)
LEMMA NextCount ==
    ASSUME NEW n \in Nat
    PROVE  (n + 1) % 16 = ((n % 16) + 1) % 16
  OBVIOUS

(* The k-th packet is in its place. *)
LEMMA SignalPacketAt ==
    ASSUME NEW id \in Word, NEW samples \in Seq(Int \X Int), NEW start \in Nat,
           NEW stamp \in TheStamps, NEW trailer \in 0 .. 1,
           NEW number \in Nat, number >= 1, number = NumberOf(samples, MaxSamplesPerPacket(stamp, trailer)),
           NEW words \in Seq(Word), NEW ws, NEW st, Parts(words, ws, st), Len(ws) = number,
           NEW H, \A k \in 1 .. number : KthParts(ws[k], H[k], id, samples, start, stamp, trailer, k, number),
           NEW c, SignalCall(c, id, samples, start, stamp, trailer, words),
           NEW T, T = {st[k] : k \in 1 .. number + 1}, NEW k \in 1 .. number
    PROVE  PacketIn(words, st[k], T, c, order, ws[k], H[k])
  <1> DEFINE w == ws[k]
             h == H[k]
             g == NewHeader(1, id, start, trailer, stamp)
             most == MaxSamplesPerPacket(stamp, trailer)
             M == MaxPacketSizeWords
             z == SizeInWords(g)
             have == Len(w) - z - trailer
  <1>1. /\ IsPacket(w, h, order) /\ SameHeader(h, g) /\ h.packetSize = Len(w) /\ Acceptable(w)
        /\ w \in Seq(Word) /\ Len(w) \in Nat /\ Len(w) >= 1
        /\ h.packetCount = (start + k - 1) % 16 /\ Fixed(w[1]).packetCount = h.packetCount
        /\ z \in Nat /\ z + most + trailer = M
        /\ k # number => Len(w) = M
        /\ have \in Nat /\ (k - 1) * most \in Nat /\ (k - 1) * most + have <= Len(samples)
        /\ k = number => (k - 1) * most + have = Len(samples)
        /\ \A j \in 1 .. have : w[z + j] = SampleWord(samples[(k - 1) * most + j], scale, order)
    BY DEF KthParts
  <1>2. \A i \in 1 .. number : Len(ws[i]) \in Nat /\ Len(ws[i]) >= 1 /\ (i # number => Len(ws[i]) = M)
    BY DEF KthParts
  <1>3. /\ \A i \in 1 .. number : st[i] = (i - 1) * M /\ st[i] < st[number + 1]
        /\ \A i \in 1 .. number : i # number => st[i + 1] < st[number + 1]
    BY <1>2, SignalPlaces
  <1>4. /\ st \in [1 .. number + 1 -> Nat] /\ st[1] = 0 /\ st[number + 1] = Len(words)
        /\ st[k + 1] = st[k] + Len(w) /\ st[k + 1] <= Len(words)
        /\ \A i \in 1 .. Len(w) : words[st[k] + i] = w[i]
    BY DEF Parts
  <1>5. st[k] \in Nat /\ k \in 1 .. number + 1 /\ k + 1 \in 1 .. number + 1
    BY <1>4
  <1>6. Block(words, st[k], w)
    BY <1>4 DEF Block
  <1>7. st[k] + Len(w) \in T /\ st[k] + Len(w) <= c.end
    BY <1>4, <1>5 DEF SignalCall
  <1>8. st[k] + Len(w) < c.end => k # number
    BY <1>4 DEF SignalCall
  <1>9. st[k] + Len(w) = c.end => k = number
    BY <1>3, <1>4 DEF SignalCall
  <1>10. g.packetCount = start % 16 /\ g.trailerPresent = trailer /\ IsDataPacket(g.packetType)
    <2>1. 1 \in Nat /\ 1 >= 1 /\ start + 1 - 1 = start
      OBVIOUS
    <2>2. RoomOK(KthHeader(id, start, 1, trailer, stamp), most, start, 1, trailer)
      BY <2>1, SignalRoom
    <2>3. KthHeader(id, start, 1, trailer, stamp) = g
      BY <2>1 DEF KthHeader
    <2> HIDE DEF g
    <2> QED
      BY <2>1, <2>2, <2>3 DEF RoomOK
  <1>11. Numbered(words, st[k], w, h, c)
    <2>1. st[k] = c.first => h.packetCount = c.header.packetCount
      <3>1. SUFFICES ASSUME st[k] = 0
                     PROVE  k = 1
        BY <1>1, <1>10 DEF SignalCall
      <3>2. (k - 1) * M = 0 /\ M \in Nat /\ M >= 7
        BY <1>3, <3>1, MaxPacketType
      <3> QED
        BY <3>2
    <2>2. ASSUME k # number
          PROVE  Len(w) = M /\ Fixed(words[st[k] + Len(w) + 1]).packetCount = (h.packetCount + 1) % 16
      <3>1. k + 1 \in 1 .. number /\ start + (k + 1) - 1 = (start + k - 1) + 1 /\ start + k - 1 \in Nat
        BY <2>2
      <3>2. Fixed(ws[k + 1][1]).packetCount = (start + (k + 1) - 1) % 16 /\ Len(ws[k + 1]) \in Nat /\ Len(ws[k + 1]) >= 1
        BY <3>1 DEF KthParts
      <3>3. words[st[k + 1] + 1] = ws[k + 1][1]
        <4>1. \A i \in 1 .. Len(ws[k + 1]) : words[st[k + 1] + i] = ws[k + 1][i]
          BY <3>1 DEF Parts
        <4>2. 1 \in 1 .. Len(ws[k + 1])
          BY <3>2
        <4> QED
          BY <4>1, <4>2
      <3>4. ((start + k - 1) + 1) % 16 = (((start + k - 1) % 16) + 1) % 16
        BY <3>1, NextCount
      <3> QED
        BY <1>1, <1>4, <2>2, <3>1, <3>2, <3>3, <3>4
    <2> QED
      BY <1>8, <2>1, <2>2 DEF Numbered
  <1>12. SamplesIn(st[k], w, c, order)
    <2>1. c.header = g /\ c.samples = samples /\ c.scale = scale /\ c.first = 0
      BY DEF SignalCall
    <2> HIDE DEF g
    <2>2. most \in Nat
      BY NumberType
    <2> HIDE DEF most
    <2>3. MostOf(c) = most /\ InPacket(w, c) = have
      <3>1. MaxPacketSizeWords - z - trailer = most
        BY <1>1, <2>2
      <3> QED
        BY <1>10, <2>1, <3>1 DEF MostOf, InPacket
    <2>4. k - 1 \in Nat /\ st[k] = c.first + (k - 1) * MaxPacketSizeWords
      <3>1. (k - 1) * MaxPacketSizeWords \in Nat
        BY MaxPacketType
      <3> QED
        BY <1>3, <2>1, <3>1
    <2>5. st[k] + Len(w) = c.end => (k - 1) * most + have = Len(samples)
      BY <1>1, <1>9
    <2> HIDE DEF have, z, w
    <2>6. /\ (k - 1) * MostOf(c) + InPacket(w, c) <= Len(c.samples)
          /\ st[k] + Len(w) = c.end => (k - 1) * MostOf(c) + InPacket(w, c) = Len(c.samples)
          /\ \A j \in 1 .. InPacket(w, c) :
               w[SizeInWords(c.header) + j] = SampleWord(c.samples[(k - 1) * MostOf(c) + j], c.scale, order)
      BY <1>1, <2>1, <2>3, <2>5 DEF z
    <2> QED
      BY <1>1, <1>10, <2>1, <2>2, <2>3, <2>4, <2>6 DEF SamplesIn
  <1> QED
    BY <1>1, <1>6, <1>7, <1>11, <1>12 DEF PacketIn, SignalCall

(* encodeSignalData() cuts its words into packets. *)
LEMMA SignalParted ==
    ASSUME scale \in Nat, NEW id \in Word, NEW samples \in Seq(Int \X Int), NEW start \in Nat,
           NEW stamp \in TheStamps, NEW trailer \in 0 .. 1,
           NEW words, words = SignalPackets(id, samples, start, stamp, trailer),
           NEW c, SignalCall(c, id, samples, start, stamp, trailer, words)
    PROVE  (\E T : Parted(words, T, c, order)) /\ Len(words) > 0
  <1> DEFINE number == NumberOf(samples, MaxSamplesPerPacket(stamp, trailer))
             ws == [k \in 1 .. number |-> KthPacket(id, samples, start, stamp, trailer, k)]
  <1>1. /\ words = FlattenSeq(ws) /\ ws \in Seq(Seq(Word)) /\ Len(ws) = number /\ number \in Nat /\ number >= 1
    BY SignalFlat
  <1>2. \A k \in 1 .. number : \E h : KthParts(ws[k], h, id, samples, start, stamp, trailer, k, number)
    <2> SUFFICES ASSUME NEW k \in 1 .. number
                 PROVE  \E h : KthParts(KthPacket(id, samples, start, stamp, trailer, k), h, id, samples, start, stamp, trailer, k, number)
      OBVIOUS
    <2> HIDE DEF ws
    <2> QED
      BY KthFacts
  <1>3. number = NumberOf(samples, MaxSamplesPerPacket(stamp, trailer))
    OBVIOUS
  <1> HIDE DEF ws, number
  <1> DEFINE H == [k \in 1 .. number |-> CHOOSE h : KthParts(ws[k], h, id, samples, start, stamp, trailer, k, number)]
  <1>4. \A k \in 1 .. number : KthParts(ws[k], H[k], id, samples, start, stamp, trailer, k, number)
    BY <1>2
  <1> HIDE DEF H
  <1>5. words \in Seq(Word) /\ \E st : Parts(words, ws, st)
    <2>1. Len(ws) # 0
      BY <1>1
    <2> QED
      BY <1>1, <2>1, FlattenParts
  <1>6. PICK st : Parts(words, ws, st)
    BY <1>5
  <1> DEFINE T == {st[k] : k \in 1 .. number + 1}
  <1>7. /\ st \in [1 .. number + 1 -> Nat] /\ st[1] = 0 /\ st[number + 1] = Len(words)
        /\ \A k \in 1 .. number : st[k + 1] = st[k] + Len(ws[k]) /\ st[k + 1] <= Len(words)
    BY <1>1, <1>6 DEF Parts
  <1>8. \A k \in 1 .. number : Len(ws[k]) \in Nat /\ Len(ws[k]) >= 1 /\ (k # number => Len(ws[k]) = MaxPacketSizeWords)
    BY <1>4 DEF KthParts
  <1>9. \A k \in 1 .. number : st[k] < st[number + 1]
    BY <1>1, <1>6, <1>8, SignalPlaces
  <1>10. 1 \in 1 .. number /\ 1 \in 1 .. number + 1 /\ number + 1 \in 1 .. number + 1 /\ Len(words) \in Nat
    BY <1>1, <1>5
  <1>11. T \subseteq 0 .. Len(words) /\ 0 \in T /\ Len(words) \in T /\ Len(words) > 0
    <2>1. \A k \in 1 .. number + 1 : st[k] \in 0 .. Len(words)
      <3>1. ASSUME NEW k \in 1 .. number + 1
            PROVE  st[k] \in 0 .. Len(words)
        <4>1. CASE k = number + 1
          BY <1>7, <1>10, <4>1
        <4>2. CASE k # number + 1
          <5>1. k \in 1 .. number
            BY <1>1, <4>2
          <5>2. st[k] < Len(words) /\ st[k] \in Nat
            BY <1>7, <1>9, <5>1
          <5> QED
            BY <1>10, <5>2
        <4> QED
          BY <4>1, <4>2
      <3> QED
        BY <3>1
    <2>2. 0 \in T /\ Len(words) \in T
      BY <1>7, <1>10
    <2>3. Len(words) > 0
      BY <1>7, <1>9, <1>10
    <2> QED
      BY <2>1, <2>2, <2>3
  <1>12. ASSUME NEW p \in T, p < Len(words)
         PROVE  PacketAt(words, p, T, c, order)
    <2>1. PICK k \in 1 .. number + 1 : p = st[k]
      OBVIOUS
    <2>2. k \in 1 .. number
      <3>1. k # number + 1
        BY <1>7, <1>10, <1>12, <2>1
      <3> QED
        BY <1>1, <3>1
    <2>3. T = {st[i] : i \in 1 .. number + 1}
      OBVIOUS
    <2> HIDE DEF T
    <2>4. PacketIn(words, st[k], T, c, order, ws[k], H[k])
      BY <1>1, <1>3, <1>4, <1>5, <1>6, <2>2, <2>3, SignalPacketAt
    <2> QED
      BY <2>1, <2>4 DEF PacketAt
  <1>13. Parted(words, T, c, order)
    BY <1>5, <1>11, <1>12 DEF Parted
  <1> QED
    BY <1>11, <1>13

(* encodeContext() makes one packet, or none. *)
LEMMA ContextParted ==
    ASSUME NEW o \in ByteOrder, NEW g \in Header, Complete(g), IsContextPacket(g.packetType), NEW fields, FieldsOK(fields),
           NEW words, words = ContextEncode(g, fields, o),
           NEW c, c.kind = "Context", c.header = g, c.fields = fields, c.wellFormed = TRUE,
           c.first = 0, c.end = Len(words)
    PROVE  \E T : Parted(words, T, c, o)
  <1>1. CASE words = <<>>
    <2>1. Len(words) = 0 /\ words \in Seq(Word)
      BY <1>1
    <2>2. Parted(words, {0}, c, o)
      BY <2>1 DEF Parted
    <2> QED
      BY <2>2
  <1>2. CASE words # <<>>
    <2>1. PICK h : ContextOK(words, h, g, fields, o)
      BY <1>2, ContextPacket
    <2>2. /\ IsPacket(words, h, o) /\ SameHeader(h, g) /\ h.packetSize = Len(words) /\ h.packetCount = g.packetCount
          /\ ContextValid(words) /\ FieldsClose(ContextFields(words, o), fields)
      BY <2>1 DEF ContextOK
    <2>3. words \in Seq(Word) /\ Len(words) \in Nat /\ Fixed(words[1]).packetType = h.packetType
      BY <2>2, PacketFixed
    <2>4. IsContextPacket(h.packetType) /\ ~ IsDataPacket(h.packetType)
      BY <2>2 DEF SameHeader, IsContextPacket, IsDataPacket
    <2>5. Acceptable(words)
      BY <2>2, <2>3, <2>4 DEF Acceptable
    <2> DEFINE T == {0, Len(words)}
    <2>6. Block(words, 0, words) /\ 0 + Len(words) = Len(words)
      BY <2>3 DEF Block
    <2>7. PacketIn(words, 0, T, c, o, words, h)
      <3>1. c.kind # "SignalData" /\ 0 + Len(words) <= c.end /\ 0 + Len(words) \in T /\ 0 + Len(words) = c.end
        BY <2>3, <2>6
      <3>2. c.wellFormed = Acceptable(words)
        BY <2>5
      <3> QED
        BY <2>2, <2>4, <2>6, <3>1, <3>2 DEF PacketIn
    <2>8. \A p \in T : p < Len(words) => p = 0
      BY <2>3
    <2>9. Parted(words, T, c, o)
      BY <2>3, <2>7, <2>8 DEF Parted, PacketAt
    <2> QED
      BY <2>9
  <1> QED
    BY <1>1, <1>2

(* One packet is cut at its ends. *)
LEMMA OneParted ==
    ASSUME NEW words, NEW h, NEW o, IsPacket(words, h, o), NEW c,
           PacketIn(words, 0, {0, Len(words)}, c, o, words, h)
    PROVE  (\E T : Parted(words, T, c, o)) /\ Len(words) > 0
  <1> DEFINE T == {0, Len(words)}
  <1>1. words \in Seq(Word) /\ Len(words) \in Nat /\ Len(words) >= 1
    BY PacketFixed
  <1>2. \A p \in T : p < Len(words) => p = 0
    BY <1>1
  <1>3. Parted(words, T, c, o)
    BY <1>1, <1>2 DEF Parted, PacketAt
  <1> QED
    BY <1>1, <1>3

(* A packet from elsewhere. *)
LEMMA OtherParted ==
    ASSUME NEW o \in ByteOrder, NEW other \in OtherPacket,
           NEW words, words = Serialize(other.header, o) \o other.payload,
           NEW c, c.kind = "Other", c.header = other.header, c.wellFormed = other.wellFormed,
           c.first = 0, c.end = Len(words)
    PROVE  (\E T : Parted(words, T, c, o)) /\ Len(words) > 0
  <1> DEFINE h == other.header
             rest == other.payload
             f == Fixed(words[1])
  <1>1. /\ h \in Header /\ Complete(h) /\ rest \in Seq(Word)
        /\ h.packetSize <= SizeInWords(h) + Len(rest)
        /\ other.wellFormed => h.packetSize = SizeInWords(h) + Len(rest)
        /\ other.wellFormed = IF IsDataPacket(h.packetType) THEN SignalValid(words, 1)
                              ELSE IF IsContextPacket(h.packetType) THEN ContextValid(words)
                              ELSE h.packetSize # 0
    BY OtherPacketAssumption
  <1>2. HeadAndRest(words, h, rest, o)
    BY <1>1, HeaderThenRest
  <1>3. IsPacket(words, h, o) /\ Len(words) = SizeInWords(h) + Len(rest)
    BY <1>2 DEF HeadAndRest
  <1>4. /\ words \in Seq(Word) /\ Len(words) \in Nat /\ Len(words) >= 1
        /\ f.packetType = h.packetType /\ f.packetSize = h.packetSize
    BY <1>3, PacketFixed
  <1> HIDE DEF f, rest
  <1>5. other.wellFormed = Acceptable(words)
    BY <1>1, <1>4 DEF Acceptable, f
  <1> HIDE DEF h
  <1> DEFINE T == {0, Len(words)}
  <1>6. Block(words, 0, words) /\ 0 + Len(words) = Len(words)
    BY <1>4 DEF Block
  <1>7. PacketIn(words, 0, T, c, o, words, h)
    <2>1. c.kind # "SignalData" /\ c.kind # "Context" /\ 0 + Len(words) <= c.end /\ 0 + Len(words) \in T /\ 0 + Len(words) = c.end
      BY <1>4, <1>6
    <2>2. c.header = h /\ SameHeader(h, h)
      BY DEF h, SameHeader
    <2>3. c.wellFormed => h.packetSize = Len(words)
      BY <1>1, <1>3
    <2> QED
      BY <1>3, <1>5, <1>6, <2>1, <2>2, <2>3 DEF PacketIn
  <1> QED
    BY <1>3, <1>7, OneParted

-----------------------------------------------------------------------------
(* parsePacket() on a packet and whatever follows it. *)

(* A field is behind CIF0. *)
LEMMA FieldFromType ==
    ASSUME NEW first \in Nat, NEW cif0, NEW b \in 0 .. 31
    PROVE  FieldFrom(first, cif0, b) \in Nat /\ FieldFrom(first, cif0, b) >= 1
  <1> DEFINE T == {n \in Nat : n <= 31 => FieldFrom(first, cif0, 31 - n) \in Nat /\ FieldFrom(first, cif0, 31 - n) >= 1}
  <1>1. 0 \in T
    <2>1. FieldFrom(first, cif0, 31) = first + 1
      BY FieldFromStep
    <2> QED
      BY <2>1
  <1>2. ASSUME NEW n \in Nat, n \in T
        PROVE  n + 1 \in T
    <2> SUFFICES ASSUME n + 1 <= 31
                 PROVE  FieldFrom(first, cif0, 31 - (n + 1)) \in Nat /\ FieldFrom(first, cif0, 31 - (n + 1)) >= 1
      OBVIOUS
    <2> DEFINE c == 31 - (n + 1)
    <2>1. c \in 0 .. 30 /\ c + 1 = 31 - n /\ n <= 31
      OBVIOUS
    <2>2. FieldFrom(first, cif0, c + 1) \in Nat /\ FieldFrom(first, cif0, c + 1) >= 1
      BY <1>2, <2>1
    <2>3. FieldFrom(first, cif0, c) = FieldFrom(first, cif0, c + 1) + Gap(cif0, c + 1)
      BY <2>1, FieldFromStep
    <2>4. Gap(cif0, c + 1) \in Nat
      BY DEF Gap, Cif0FieldSizeWords
    <2> HIDE DEF c
    <2>5. FieldFrom(first, cif0, c) \in Nat /\ FieldFrom(first, cif0, c) >= 1
      BY <2>2, <2>3, <2>4
    <2> QED
      BY <2>5 DEF c
  <1> HIDE DEF T
  <1>3. Nat \subseteq T
    BY <1>1, <1>2, SetInduction
  <1>4. 31 - b \in T /\ 31 - b <= 31 /\ 31 - (31 - b) = b
    BY <1>3
  <1> QED
    BY <1>4 DEF T

(* The words r begin with the packet w. *)
Continues(r, w, h) ==
    /\ r \in Seq(Word) /\ Len(w) <= Len(r) /\ h.packetSize = Len(w)
    /\ \A k \in 1 .. Len(w) : r[k] = w[k]

(* What decode() reads from a packet does not depend on what follows it. *)
LEMMA DecodedSame ==
    ASSUME NEW w, NEW h, NEW o, IsPacket(w, h, o), NEW r, Continues(r, w, h)
    PROVE  /\ Parse(r, o) = h
           /\ \A factor, e : SignalSamples(r, factor, e) = SignalSamples(w, factor, e)
           /\ ContextValid(w) => \A e : ContextFields(r, e) = ContextFields(w, e)
  <1> DEFINE f == Fixed(w[1])
             z == SizeInWords(h)
  <1>1. /\ w \in Seq(Word) /\ Len(w) \in Nat /\ Len(w) >= 1
        /\ f.trailerPresent = h.trailerPresent /\ f.packetSize = h.packetSize
        /\ SizeInWords(f) = z /\ h.packetSize \in Nat /\ h.trailerPresent \in 0 .. 1
    BY PacketFixed
  <1>2. /\ h \in Header /\ Complete(h) /\ z <= Len(w) /\ Shape(w, h, o)
    BY DEF IsPacket
  <1>3. r \in Seq(Word) /\ Len(w) <= Len(r) /\ h.packetSize = Len(w) /\ \A k \in 1 .. Len(w) : r[k] = w[k]
    BY DEF Continues
  <1>4. z \in Nat /\ z >= 1 /\ r[1] = w[1]
    BY <1>1, <1>3, SizeRange
  <1>5. Parse(r, o) = h
    <2>1. \A k \in 1 .. z : r[k] = w[k]
      BY <1>1, <1>2, <1>3, <1>4
    <2>2. Shape(r, h, o)
      BY <1>2, <1>4, <2>1 DEF Shape, SizeInWords, ClassAt, TsiAt, TsfAt
    <2> QED
      BY <1>2, <2>2, ParseShape
  <1>6. ASSUME NEW factor, NEW e
        PROVE  SignalSamples(r, factor, e) = SignalSamples(w, factor, e)
    <2> DEFINE n == f.packetSize - SizeInWords(f) - f.trailerPresent
    <2>1. SignalSamples(w, factor, e) = [k \in 1 .. n |-> ReadSample(w[SizeInWords(f) + k], factor, e)]
      BY DEF SignalSamples
    <2>2. SignalSamples(r, factor, e) = [k \in 1 .. n |-> ReadSample(r[SizeInWords(f) + k], factor, e)]
      BY <1>4 DEF SignalSamples
    <2>3. n = Len(w) - z - h.trailerPresent
      BY <1>1, <1>3
    <2> HIDE DEF n, f
    <2>4. \A k \in 1 .. n : r[z + k] = w[z + k]
      <3>1. \A k \in 1 .. n : z + k \in 1 .. Len(w)
        BY <1>1, <1>2, <1>4, <2>3
      <3> QED
        BY <1>3, <3>1
    <2> QED
      BY <1>1, <2>1, <2>2, <2>4
  <1>7. ASSUME ContextValid(w), NEW e
        PROVE  ContextFields(r, e) = ContextFields(w, e)
    <2> DEFINE cif0 == w[z + 1]
    <2>1. f = Fixed(w[1])
      OBVIOUS
    <2> HIDE DEF f
    <2>2. /\ SizeInWords(f) + 1 <= f.packetSize
          /\ \A b \in 15 .. 30 : FieldFits(w, w[SizeInWords(f) + 1], f.packetSize, b)
      BY <1>7, <2>1, ContextValidParts
    <2>3. z + 1 <= Len(w) /\ \A b \in 15 .. 30 : FieldFits(w, cif0, Len(w), b)
      BY <1>1, <1>3, <2>2
    <2>4. r[z + 1] = cif0
      <3>1. z + 1 \in 1 .. Len(w)
        BY <1>4, <2>3
      <3> QED
        BY <1>3, <3>1
    <2>5. \A b : FieldAt(w, b) = FieldFrom(z + 1, cif0, b) /\ FieldAt(r, b) = FieldFrom(z + 1, cif0, b)
      BY <1>1, <1>4, <2>1, <2>4, FieldAtFrom
    <2>6. ContextFields(w, e) = [b \in Field |-> IF Cif0Has(cif0, b) THEN <<ReadField(b, w, FieldAt(w, b), e)>> ELSE <<>>]
      BY <1>1, <2>1 DEF ContextFields
    <2>7. ContextFields(r, e) = [b \in Field |-> IF Cif0Has(cif0, b) THEN <<ReadField(b, r, FieldAt(r, b), e)>> ELSE <<>>]
      BY <1>1, <1>4, <2>1, <2>4 DEF ContextFields
    <2> HIDE DEF cif0
    <2>8. ASSUME NEW b \in Field, Cif0Has(cif0, b)
          PROVE  ReadField(b, r, FieldAt(r, b), e) = ReadField(b, w, FieldAt(w, b), e)
      <3> DEFINE at == FieldAt(w, b)
      <3>1. at = FieldAt(r, b) /\ at \in Nat /\ at >= 1
        <4>1. z + 1 \in Nat /\ b \in 0 .. 31
          BY <1>4, <2>8, FieldRange
        <4>2. FieldFrom(z + 1, cif0, b) \in Nat /\ FieldFrom(z + 1, cif0, b) >= 1
          BY <4>1, FieldFromType
        <4> QED
          BY <2>5, <4>2
      <3>2. b \in 21 .. 31
        BY <2>8, FieldRange
      <3>3. b # 31 => at + Cif0FieldSizeWords(b) - 1 <= Len(w)
        <4>1. b # 31 => b \in 15 .. 30
          BY <3>2
        <4> QED
          BY <2>3, <2>8, <4>1 DEF FieldFits
      <3> HIDE DEF at
      <3>4. CASE b = 31
        BY <3>4 DEF ReadField, ChangeIndicator
      <3>5. CASE b \in {30, 24, 23, 22}
        <4>1. Cif0FieldSizeWords(b) = 1 /\ b # 31
          BY <3>5 DEF Cif0FieldSizeWords, ChangeIndicator
        <4>2. at \in 1 .. Len(w)
          BY <1>1, <3>1, <3>3, <4>1
        <4>3. r[at] = w[at]
          BY <1>3, <4>2
        <4> QED
          BY <3>1, <3>5, <4>3 DEF ReadField, ChangeIndicator, PlainField, RefLevel, Gain, at
      <3>6. CASE b \in {29, 28, 27, 26, 25, 21}
        <4>1. Cif0FieldSizeWords(b) = 2 /\ b # 31
          BY <3>6 DEF Cif0FieldSizeWords, ChangeIndicator
        <4>2. at \in 1 .. Len(w) /\ at + 1 \in 1 .. Len(w)
          BY <1>1, <3>1, <3>3, <4>1
        <4>3. r[at] = w[at] /\ r[at + 1] = w[at + 1]
          BY <1>3, <4>2
        <4> QED
          BY <3>1, <3>6, <4>3 DEF ReadField, ChangeIndicator, PlainField, RefLevel, Gain, at
      <3>7. b = 31 \/ b \in {30, 24, 23, 22} \/ b \in {29, 28, 27, 26, 25, 21}
        BY <3>2
      <3> QED
        BY <3>4, <3>5, <3>6, <3>7
    <2> QED
      BY <2>6, <2>7, <2>8
  <1> QED
    BY <1>5, <1>6, <1>7

(* The result e of parsePacket() on the packet w with header h. *)
Found(e, w, h, factor, o) ==
    /\ e.header.packetCount \in 0 .. 15
    /\ e.type = IF IsDataPacket(h.packetType) THEN "SignalData"
                ELSE IF IsContextPacket(h.packetType) THEN "Context" ELSE "Unknown"
    /\ e.type # "Unknown" => e.header = h
    /\ IsDataPacket(h.packetType) => factor # 0 /\ e.samples = SignalSamples(w, factor, o)
    /\ ~ IsDataPacket(h.packetType) => e.samples = <<>>
    /\ IsContextPacket(h.packetType) => e.fields = ContextFields(w, o)

(* parsePacket() refuses the packet w for what it is. *)
Rejected(w, h) == ~ Acceptable(w) \/ (scale = 0 /\ IsDataPacket(h.packetType))

(* What the words r begin with: the packet w, or its beginning. *)
Begins(r, w) ==
    /\ r \in Seq(Word) /\ Len(r) > 0
    /\ \A k \in 1 .. Len(r) : k <= Len(w) => r[k] = w[k]

(* parsePacket() accepts a packet that is whole and that it does not       *)
(* refuse, whatever follows it.                                            *)
LEMMA PacketSeen ==
    ASSUME NEW w, NEW h, IsPacket(w, h, order), Acceptable(w) => h.packetSize = Len(w),
           NEW r, Begins(r, w)
    PROVE  /\ Fixed(r[1]).packetSize = h.packetSize /\ Fixed(r[1]).packetCount = h.packetCount
           /\ PacketValid(r) <=> ~ Rejected(w, h) /\ h.packetSize <= Len(r)
           /\ PacketValid(r) => Found(ParsedPacket(r), w, h, scale, order)
  <1> DEFINE f == Fixed(w[1])
             size == h.packetSize
  <1>1. /\ w \in Seq(Word) /\ Len(w) \in Nat /\ Len(w) >= 1
        /\ f.packetType = h.packetType /\ f.packetSize = size /\ f.packetCount = h.packetCount
        /\ SizeInWords(f) = SizeInWords(h) /\ size \in Nat /\ h.packetCount \in 0 .. 15
    BY PacketFixed
  <1>2. r \in Seq(Word) /\ Len(r) \in Nat /\ Len(r) > 0 /\ \A k \in 1 .. Len(r) : k <= Len(w) => r[k] = w[k]
    BY DEF Begins
  <1>3. r[1] = w[1] /\ r # <<>>
    BY <1>1, <1>2
  <1>4. size <= Len(w)
    BY DEF IsPacket
  <1>5. PacketValid(r) <=> IF IsDataPacket(h.packetType) THEN SignalValid(r, scale)
                           ELSE IF IsContextPacket(h.packetType) THEN ContextValid(r)
                           ELSE size # 0 /\ size <= Len(r)
    BY <1>1, <1>3 DEF PacketValid
  <1>6. Acceptable(w) <=> IF IsDataPacket(h.packetType) THEN SignalValid(w, 1)
                          ELSE IF IsContextPacket(h.packetType) THEN ContextValid(w)
                          ELSE size # 0
    BY <1>1 DEF Acceptable
  <1>7. SignalValid(w, scale) <=> scale # 0 /\ SignalValid(w, 1)
    BY DEF SignalValid
  <1>8. PacketValid(r) <=> ~ Rejected(w, h) /\ size <= Len(r)
    <2>1. CASE size <= Len(r)
      <3>1. \A k \in 1 .. size : r[k] = w[k]
        BY <1>1, <1>2, <1>4, <2>1
      <3>2. SignalValid(r, scale) <=> SignalValid(w, scale)
        BY <1>1, <1>2, <1>3, <1>4, <2>1, <3>1, ValidSame
      <3>3. ContextValid(r) <=> ContextValid(w)
        BY <1>1, <1>2, <1>3, <1>4, <2>1, <3>1, ValidSame
      <3>4. IsContextPacket(h.packetType) => ~ IsDataPacket(h.packetType)
        BY DEF IsContextPacket, IsDataPacket
      <3>5. Rejected(w, h) <=> ~ Acceptable(w) \/ (scale = 0 /\ IsDataPacket(h.packetType))
        BY DEF Rejected
      <3>6. CASE IsDataPacket(h.packetType)
        BY <1>5, <1>6, <1>7, <2>1, <3>2, <3>5, <3>6
      <3>7. CASE IsContextPacket(h.packetType)
        BY <1>5, <1>6, <2>1, <3>3, <3>4, <3>5, <3>7
      <3>8. CASE ~ IsDataPacket(h.packetType) /\ ~ IsContextPacket(h.packetType)
        BY <1>5, <1>6, <2>1, <3>5, <3>8
      <3> QED
        BY <3>6, <3>7, <3>8
    <2>2. CASE ~ (size <= Len(r))
      <3>1. ~ HeaderValid(r)
        BY <1>1, <1>3, <2>2 DEF HeaderValid
      <3>2. ~ SignalValid(r, scale) /\ ~ ContextValid(r)
        BY <3>1 DEF SignalValid, ContextValid
      <3> QED
        BY <1>5, <2>2, <3>2
    <2> QED
      BY <2>1, <2>2
  <1>9. ASSUME PacketValid(r)
        PROVE  Found(ParsedPacket(r), w, h, scale, order)
    <2> DEFINE e == ParsedPacket(r)
               type == h.packetType
    <2>1. ~ Rejected(w, h) /\ size <= Len(r) /\ Acceptable(w) /\ size = Len(w)
      <3>1. ~ Rejected(w, h) /\ size <= Len(r)
        BY <1>8, <1>9
      <3>2. Acceptable(w)
        BY <3>1 DEF Rejected
      <3> QED
        BY <3>1, <3>2
    <2>2. Continues(r, w, h)
      BY <1>1, <1>2, <2>1 DEF Continues
    <2>3. /\ Parse(r, order) = h /\ SignalSamples(r, scale, order) = SignalSamples(w, scale, order)
          /\ ContextValid(w) => ContextFields(r, order) = ContextFields(w, order)
      BY <2>2, DecodedSame
    <2>4. /\ e.type = IF IsDataPacket(type) THEN "SignalData" ELSE IF IsContextPacket(type) THEN "Context" ELSE "Unknown"
          /\ e.header = IF IsDataPacket(type) \/ IsContextPacket(type) THEN Parse(r, order) ELSE DefaultHeader
          /\ e.samples = IF IsDataPacket(type) THEN SignalSamples(r, scale, order) ELSE <<>>
          /\ IsContextPacket(type) => e.fields = ContextFields(r, order)
      BY <1>1, <1>3 DEF ParsedPacket
    <2>5. IsDataPacket(type) => scale # 0
      BY <2>1 DEF Rejected
    <2>6. IsContextPacket(type) => ContextValid(w)
      <3>1. IsContextPacket(type) => ~ IsDataPacket(type)
        BY DEF IsContextPacket, IsDataPacket
      <3> QED
        BY <1>6, <2>1, <3>1
    <2>7. e.header.packetCount \in 0 .. 15
      <3>1. DefaultHeader.packetCount = 0
        BY DEF DefaultHeader
      <3> QED
        BY <1>1, <2>3, <2>4, <3>1
    <2> HIDE DEF e
    <2>8. Found(e, w, h, scale, order)
      BY <2>3, <2>4, <2>5, <2>6, <2>7 DEF Found
    <2> QED
      BY <2>8 DEF e
  <1> QED
    BY <1>1, <1>3, <1>8, <1>9

-----------------------------------------------------------------------------
(* The inductive invariant.  Its parts are given the state as parameters. *)

IsSeq(s) == \E C : s \in Seq(C)
Inside(p, c) == c.first <= p /\ p < c.end

(* A call of an encoder, in a stream of size words. *)
CallOK(c, size) ==
    /\ c.header \in Header /\ c.first \in Nat /\ c.end \in Nat /\ c.first <= c.end /\ c.end <= size
    /\ ~ c.wellFormed => c.first < c.end
    /\ IsDataPacket(c.header.packetType) => c.first < c.end
    /\ c.kind = "SignalData" => c.samples \in Seq(Int \X Int) /\ IsDataPacket(c.header.packetType)

(* The calls follow one another and cover the stream. *)
CallsOK(cs, words) ==
    /\ IsSeq(cs) /\ words \in Seq(Word)
    /\ \A n \in 1 .. Len(cs) : CallOK(cs[n], Len(words))
    /\ \A n \in 1 .. Len(cs) : \A m \in 1 .. n - 1 : cs[m].end <= cs[n].first
    /\ \A p \in Nat : p < Len(words) => \E n \in 1 .. Len(cs) : Inside(p, cs[n])

(* S are places where packets begin, and where the last one may end. *)
Cut(S, cs, words, o) ==
    /\ S \subseteq 0 .. Len(words) /\ 0 \in S
    /\ \A n \in 1 .. Len(cs) : \A p \in S : Inside(p, cs[n]) => PacketAt(words, p, S, cs[n], o)

(* parseStream() stands where a packet begins. *)
ReaderOK(S, rd, ps, words) ==
    /\ rd \in [phase : {"idle", "parsing", "done"}, length : Nat, offset : Nat]
    /\ rd.offset <= rd.length /\ rd.length <= Len(words) /\ rd.offset \in S
    /\ rd.phase = "idle" => rd.offset = 0 /\ ps = <<>>
    /\ IsSeq(ps)
    /\ ps = <<>> => rd.offset = 0
    /\ ps # <<>> => ps[1].at = 0

(* Where the next packet begins. *)
After(ps, rd, i) == IF i = Len(ps) THEN rd.offset ELSE ps[i + 1].at

(* The result e is that of the packet w of the call c. *)
EntryIn(e, next, S, c, words, factor, o, w, h) ==
    /\ e.at \in S /\ Inside(e.at, c) /\ c.wellFormed /\ e.at + Len(w) = next
    /\ PacketIn(words, e.at, S, c, o, w, h) /\ Found(e, w, h, factor, o)

Entry(e, next, S, c, words, factor, o) ==
    \E w, h : EntryIn(e, next, S, c, words, factor, o, w, h)

(* Every result is that of a packet, and the next one begins where it ends. *)
EntriesOK(S, rd, ps, cs, words, factor, o) ==
    \A i \in 1 .. Len(ps) : \E n \in 1 .. Len(cs) : Entry(ps[i], After(ps, rd, i), S, cs[n], words, factor, o)

(* parseStream() is not past a call that it refuses. *)
Refused(c, factor) == ~ c.wellFormed \/ (factor = 0 /\ IsDataPacket(c.header.packetType))
RefusedAhead(rd, cs, factor) ==
    \A n \in 1 .. Len(cs) : Refused(cs[n], factor) => rd.offset <= cs[n].first

PlacesOK(S, rd, ps, cs, words, factor, o) ==
    Cut(S, cs, words, o) /\ ReaderOK(S, rd, ps, words) /\ EntriesOK(S, rd, ps, cs, words, factor, o)

Inv ==
    /\ order \in ByteOrder /\ scale \in Scale /\ Len(calls) <= MaxCalls
    /\ CallsOK(calls, stream)
    /\ RefusedAhead(reader, calls, scale)
    /\ reader.phase = "done" => ~ PacketAhead
    /\ \E S : PlacesOK(S, reader, parsed, calls, stream, scale, order)

(* Two sequences one after the other. *)
LEMMA Appended ==
    ASSUME NEW cs, IsSeq(cs), NEW d
    PROVE  /\ IsSeq(Append(cs, d)) /\ Len(cs) \in Nat /\ Len(Append(cs, d)) = Len(cs) + 1
           /\ \A n \in 1 .. Len(cs) : Append(cs, d)[n] = cs[n]
           /\ Append(cs, d)[Len(cs) + 1] = d
  <1>1. PICK C : cs \in Seq(C)
    BY DEF IsSeq
  <1>2. cs \in Seq(C \cup {d}) /\ d \in C \cup {d}
    BY <1>1
  <1>3. Append(cs, d) \in Seq(C \cup {d})
    BY <1>2
  <1> QED
    BY <1>2, <1>3 DEF IsSeq

(* A call that is added covers the words it adds. *)
LEMMA CallsGrow ==
    ASSUME NEW cs, NEW words, CallsOK(cs, words), NEW more \in Seq(Word), NEW d,
           CallOK(d, Len(words) + Len(more)), d.first = Len(words), d.end = Len(words) + Len(more)
    PROVE  CallsOK(Append(cs, d), words \o more)
  <1> DEFINE ds == Append(cs, d)
             longer == words \o more
             N == Len(cs)
  <1>1. /\ IsSeq(cs) /\ words \in Seq(Word) /\ \A n \in 1 .. N : CallOK(cs[n], Len(words))
        /\ \A n \in 1 .. N : \A m \in 1 .. n - 1 : cs[m].end <= cs[n].first
        /\ \A p \in Nat : p < Len(words) => \E n \in 1 .. N : Inside(p, cs[n])
    BY DEF CallsOK
  <1>2. IsSeq(ds) /\ N \in Nat /\ Len(ds) = N + 1 /\ (\A n \in 1 .. N : ds[n] = cs[n]) /\ ds[N + 1] = d
    BY <1>1, Appended
  <1>3. longer \in Seq(Word) /\ Len(longer) = Len(words) + Len(more) /\ Len(words) \in Nat /\ Len(more) \in Nat
    BY <1>1, ConcatProperties
  <1> HIDE DEF ds, longer, N
  <1>4. ASSUME NEW n \in 1 .. Len(ds)
        PROVE  CallOK(ds[n], Len(longer))
    <2>1. CASE n = N + 1
      BY <1>2, <1>3, <2>1
    <2>2. CASE n \in 1 .. N
      <3>1. ds[n] = cs[n] /\ CallOK(cs[n], Len(words))
        BY <1>1, <1>2, <2>2
      <3> QED
        BY <1>3, <3>1 DEF CallOK
    <2> QED
      BY <1>2, <2>1, <2>2
  <1>5. ASSUME NEW n \in 1 .. Len(ds), NEW m \in 1 .. n - 1
        PROVE  ds[m].end <= ds[n].first
    <2>1. m \in 1 .. N /\ ds[m] = cs[m]
      BY <1>2
    <2>2. CASE n = N + 1
      <3>1. cs[m].end <= Len(words)
        BY <1>1, <2>1 DEF CallOK
      <3> QED
        BY <1>2, <2>1, <2>2, <3>1
    <2>3. CASE n \in 1 .. N
      BY <1>1, <1>2, <2>1, <2>3
    <2> QED
      BY <1>2, <2>2, <2>3
  <1>6. ASSUME NEW p \in Nat, p < Len(longer)
        PROVE  \E n \in 1 .. Len(ds) : Inside(p, ds[n])
    <2>1. CASE p < Len(words)
      <3>1. PICK n \in 1 .. N : Inside(p, cs[n])
        BY <1>1, <2>1
      <3>2. n \in 1 .. Len(ds) /\ ds[n] = cs[n]
        BY <1>2
      <3> QED
        BY <3>1, <3>2
    <2>2. CASE p >= Len(words)
      <3>1. Inside(p, d)
        BY <1>3, <1>6, <2>2 DEF Inside
      <3>2. N + 1 \in 1 .. Len(ds) /\ ds[N + 1] = d
        BY <1>2
      <3> QED
        BY <3>1, <3>2
    <2> QED
      BY <1>3, <2>1, <2>2
  <1>7. CallsOK(ds, longer)
    BY <1>2, <1>3, <1>4, <1>5, <1>6 DEF CallsOK
  <1> QED
    BY <1>7 DEF ds, longer

(* The words of a stream and of what is added to it. *)
LEMMA ConcatBlocks ==
    ASSUME NEW words \in Seq(Word), NEW more \in Seq(Word)
    PROVE  /\ words \o more \in Seq(Word) /\ Len(words \o more) = Len(words) + Len(more)
           /\ Len(words) \in Nat /\ Len(more) \in Nat
           /\ Block(words \o more, 0, words) /\ Block(words \o more, Len(words), more)
  <1>1. /\ words \o more \in Seq(Word) /\ Len(words \o more) = Len(words) + Len(more)
        /\ Len(words) \in Nat /\ Len(more) \in Nat
    BY ConcatProperties
  <1>2. \A k \in 1 .. Len(words) : 0 + k = k /\ (words \o more)[k] = words[k]
    OBVIOUS
  <1>3. \A k \in 1 .. Len(more) : (words \o more)[Len(words) + k] = more[k]
    BY <1>1
  <1> QED
    BY <1>1, <1>2, <1>3 DEF Block

(* The new packets begin behind the old ones. *)
LEMMA CutGrows ==
    ASSUME NEW S, NEW cs, NEW words, NEW o, CallsOK(cs, words), Cut(S, cs, words, o),
           NEW more, NEW T, NEW c, Parted(more, T, c, o), c.first = 0, c.end = Len(more),
           NEW d, Moved(c, d, Len(words))
    PROVE  \E U : Cut(U, Append(cs, d), words \o more, o) /\ S \subseteq U
  <1> DEFINE ds == Append(cs, d)
             longer == words \o more
             N == Len(cs)
             L == Len(words)
             U == S \cup {L + t : t \in T}
  <1>1. /\ IsSeq(cs) /\ words \in Seq(Word) /\ \A n \in 1 .. N : CallOK(cs[n], L)
    BY DEF CallsOK
  <1>2. IsSeq(ds) /\ N \in Nat /\ Len(ds) = N + 1 /\ (\A n \in 1 .. N : ds[n] = cs[n]) /\ ds[N + 1] = d
    BY <1>1, Appended
  <1>3. /\ more \in Seq(Word) /\ T \subseteq 0 .. Len(more) /\ 0 \in T
        /\ \A p \in T : p < Len(more) => PacketAt(more, p, T, c, o)
    BY DEF Parted
  <1>4. /\ longer \in Seq(Word) /\ Len(longer) = L + Len(more) /\ L \in Nat /\ Len(more) \in Nat
        /\ Block(longer, 0, words) /\ Block(longer, L, more)
    BY <1>1, <1>3, ConcatBlocks
  <1>5. /\ S \subseteq 0 .. L /\ 0 \in S
        /\ \A n \in 1 .. N : \A p \in S : Inside(p, cs[n]) => PacketAt(words, p, S, cs[n], o)
    BY DEF Cut
  <1>6. d.first = L /\ d.end = L + Len(more)
    BY <1>4 DEF Moved
  <1> HIDE DEF ds, longer, N, L
  <1>7. U \subseteq 0 .. Len(longer) /\ 0 \in U /\ S \subseteq U /\ \A t \in T : L + t \in U
    <2>1. \A t \in T : t \in Nat /\ t <= Len(more) /\ L + t \in 0 .. Len(longer)
      BY <1>3, <1>4
    <2>2. \A t \in S : t \in 0 .. Len(longer)
      BY <1>4, <1>5
    <2> QED
      BY <1>5, <2>1, <2>2
  <1>8. ASSUME NEW n \in 1 .. N, NEW p \in U, Inside(p, cs[n])
        PROVE  PacketAt(longer, p, U, cs[n], o)
    <2>1. cs[n].first \in Nat /\ cs[n].end \in Nat /\ cs[n].end <= L /\ p < cs[n].end
      BY <1>1, <1>8 DEF CallOK, Inside
    <2>2. p \in S
      <3>1. ASSUME NEW t \in T, p = L + t
            PROVE  FALSE
        <4>1. t \in Nat
          BY <1>3
        <4> QED
          BY <1>4, <2>1, <3>1, <4>1
      <3> QED
        BY <3>1
    <2>3. PacketAt(words, p, S, cs[n], o) /\ p \in Nat
      BY <1>4, <1>5, <1>8, <2>2
    <2>4. Moved(cs[n], cs[n], 0)
      BY <2>1 DEF Moved
    <2>5. \A t \in S : 0 + t \in U
      BY <1>5, <1>7, <1>4
    <2>6. PacketAt(longer, 0 + p, U, cs[n], o)
      <3> HIDE DEF U
      <3>1. cs[n].end <= Len(words) /\ 0 \in Nat
        BY <2>1 DEF L
      <3> QED
        BY <1>1, <1>4, <2>1, <2>3, <2>4, <2>5, <3>1, PacketMoves
    <2>7. 0 + p = p
      BY <2>3
    <2> QED
      BY <2>6, <2>7
  <1>9. ASSUME NEW p \in U, Inside(p, d)
        PROVE  PacketAt(longer, p, U, d, o)
    <2>1. PICK t \in T : p = L + t
      <3>1. CASE p \in S
        <4>1. p \in 0 .. L
          BY <1>5, <3>1
        <4>2. d.first <= p
          BY <1>9 DEF Inside
        <4>3. p = L /\ L = L + 0
          BY <1>4, <1>6, <4>1, <4>2
        <4> QED
          BY <1>3, <4>3
      <3> QED
        BY <3>1
    <2>2. t \in Nat /\ t < Len(more)
      BY <1>3, <1>4, <1>6, <1>9, <2>1 DEF Inside
    <2>3. PacketAt(more, t, T, c, o)
      BY <1>3, <2>2
    <2>4. c.first \in Nat /\ c.end \in Nat /\ c.end <= Len(more)
      BY <1>4
    <2>5. PacketAt(longer, L + t, U, d, o)
      <3> HIDE DEF U
      <3>1. Moved(c, d, L)
        BY DEF L
      <3> QED
        BY <1>3, <1>4, <1>7, <2>2, <2>3, <2>4, <3>1, PacketMoves
    <2> QED
      BY <2>1, <2>5
  <1>10. ASSUME NEW n \in 1 .. Len(ds), NEW p \in U, Inside(p, ds[n])
         PROVE  PacketAt(longer, p, U, ds[n], o)
    <2> HIDE DEF U
    <2>1. CASE n = N + 1
      BY <1>2, <1>9, <1>10, <2>1
    <2>2. CASE n \in 1 .. N
      BY <1>2, <1>8, <1>10, <2>2
    <2> QED
      BY <1>2, <2>1, <2>2
  <1> HIDE DEF U
  <1>11. Cut(U, ds, longer, o)
    BY <1>7, <1>10 DEF Cut
  <1> QED
    BY <1>7, <1>11 DEF ds, longer

-----------------------------------------------------------------------------
(* The encoders. *)

(* The call that Encoded() records, its words put behind the first ones. *)
CallOf(words, kind, header, samples, fields, wellFormed, factor, first) ==
    [kind |-> kind, header |-> header, samples |-> samples, fields |-> fields, wellFormed |-> wellFormed,
     scale |-> factor, first |-> first, end |-> first + Len(words)]

(* What an encoder leaves is cut into packets. *)
Encodes(words, kind, header, samples, fields, wellFormed) ==
    /\ \E T : Parted(words, T, CallOf(words, kind, header, samples, fields, wellFormed, scale, 0), order)
    /\ header \in Header
    /\ ~ wellFormed => Len(words) > 0
    /\ IsDataPacket(header.packetType) => Len(words) > 0
    /\ kind = "SignalData" => samples \in Seq(Int \X Int) /\ IsDataPacket(header.packetType)

(* An encoder keeps the invariant: nothing is being parsed. *)
LEMMA EncodedStep ==
    ASSUME Inv, NEW words, NEW kind, NEW header, NEW samples, NEW fields, NEW wellFormed,
           Encodes(words, kind, header, samples, fields, wellFormed),
           Encoded(words, kind, header, samples, fields, wellFormed)
    PROVE  Inv'
  <1> DEFINE L == Len(stream)
             c == CallOf(words, kind, header, samples, fields, wellFormed, scale, 0)
             d == CallOf(words, kind, header, samples, fields, wellFormed, scale, L)
  <1>1. /\ reader.phase = "idle" /\ Len(calls) < MaxCalls /\ stream' = stream \o words /\ calls' = Append(calls, d)
        /\ order' = order /\ scale' = scale /\ reader' = reader /\ parsed' = parsed
    BY DEF Encoded, CallOf
  <1>2. /\ order \in ByteOrder /\ scale \in Scale /\ CallsOK(calls, stream)
    BY DEF Inv
  <1>3. PICK T : Parted(words, T, c, order)
    BY DEF Encodes
  <1>4. words \in Seq(Word) /\ Len(words) \in Nat /\ stream \in Seq(Word) /\ L \in Nat /\ IsSeq(calls)
    BY <1>2, <1>3 DEF Parted, CallsOK
  <1>5. c.first = 0 /\ c.end = Len(words) /\ d.first = L /\ d.end = L + Len(words) /\ Moved(c, d, L)
    BY <1>4 DEF CallOf, Moved
  <1>6. CallOK(d, L + Len(words))
    BY <1>4 DEF Encodes, CallOf, CallOK
  <1>7. PICK S : PlacesOK(S, reader, parsed, calls, stream, scale, order)
    BY DEF Inv
  <1>8. Cut(S, calls, stream, order) /\ ReaderOK(S, reader, parsed, stream)
    BY <1>7 DEF PlacesOK
  <1>9. /\ reader \in [phase : {"idle", "parsing", "done"}, length : Nat, offset : Nat]
        /\ reader.offset = 0 /\ parsed = <<>> /\ reader.length <= L /\ reader.offset \in S /\ IsSeq(parsed)
        /\ reader.offset <= reader.length
    BY <1>1, <1>8 DEF ReaderOK
  <1> HIDE DEF c, d
  <1>10. CallsOK(calls', stream')
    <2>1. CallsOK(Append(calls, d), stream \o words)
      BY <1>2, <1>4, <1>5, <1>6, CallsGrow DEF L
    <2> QED
      BY <1>1, <2>1
  <1>11. PICK U : Cut(U, calls', stream', order') /\ S \subseteq U
    <2>1. \E U : Cut(U, Append(calls, d), stream \o words, order) /\ S \subseteq U
      BY <1>2, <1>3, <1>5, <1>8, CutGrows DEF L
    <2> QED
      BY <1>1, <2>1
  <1>12. Len(stream') = L + Len(words) /\ Len(calls') = Len(calls) + 1 /\ Len(calls) \in Nat
    BY <1>1, <1>4, ConcatBlocks, Appended
  <1>13. RefusedAhead(reader', calls', scale')
    <2>1. \A n \in 1 .. Len(calls') : 0 <= (calls')[n].first
      BY <1>10 DEF CallsOK, CallOK
    <2> QED
      BY <1>1, <1>9, <2>1 DEF RefusedAhead
  <1>14. ReaderOK(U, reader', parsed', stream')
    <2> HIDE DEF L
    <2>1. reader.length <= Len(stream')
      BY <1>4, <1>9, <1>12
    <2> QED
      BY <1>1, <1>9, <1>11, <2>1 DEF ReaderOK
  <1>15. EntriesOK(U, reader', parsed', calls', stream', scale', order')
    BY <1>1, <1>9 DEF EntriesOK
  <1>16. PlacesOK(U, reader', parsed', calls', stream', scale', order')
    BY <1>11, <1>14, <1>15 DEF PlacesOK
  <1>17. reader'.phase # "done" /\ Len(calls') <= MaxCalls
    BY <1>1, <1>12, CodecAssumption
  <1> QED
    BY <1>1, <1>2, <1>10, <1>13, <1>16, <1>17 DEF Inv

(* encodeSignalData(). *)
LEMMA EncodeSignalDataStep ==
    ASSUME Inv, EncodeSignalData
    PROVE  Inv'
  <1>1. PICK id \in StreamId, samples \in SampleRun, start \in Start, stamp \in Stamp, trailer \in 0 .. 1 :
          Encoded(SignalPackets(id, samples, start, stamp, trailer),
                  "SignalData", NewHeader(1, id, start, trailer, stamp), samples, NoFields, TRUE)
    BY DEF EncodeSignalData
  <1> DEFINE words == SignalPackets(id, samples, start, stamp, trailer)
             g == NewHeader(1, id, start, trailer, stamp)
             c == CallOf(words, "SignalData", g, samples, NoFields, TRUE, scale, 0)
  <1>2. /\ id \in Word /\ samples \in Seq(Int \X Int) /\ start \in Nat
        /\ stamp \in TheStamps /\ stamp \in [tsi : 0 .. 3, tsf : 0 .. 3, int : Word, frac : Word \X Word]
    BY CodecAssumption DEF TheStamps
  <1>3. Built(g, 1, start, trailer, stamp)
    BY <1>2, NewHeaderOK
  <1>4. g \in Header /\ IsDataPacket(g.packetType)
    BY <1>3 DEF Built, IsDataPacket
  <1>5. scale \in Nat
    BY CodecAssumption DEF Inv
  <1> HIDE DEF words
  <1>6. SignalCall(c, id, samples, start, stamp, trailer, words)
    <2>1. words = words
      OBVIOUS
    <2> QED
      BY DEF SignalCall, CallOf
  <1> HIDE DEF c
  <1>7. (\E T : Parted(words, T, c, order)) /\ Len(words) > 0
    BY <1>2, <1>5, <1>6, SignalParted DEF words
  <1>8. Encodes(words, "SignalData", g, samples, NoFields, TRUE)
    BY <1>2, <1>4, <1>7 DEF Encodes, c
  <1> HIDE DEF g
  <1> QED
    BY <1>1, <1>8, EncodedStep DEF words, g

(* encodeContext(). *)
LEMMA EncodeContextStep ==
    ASSUME Inv, EncodeContext
    PROVE  Inv'
  <1>1. PICK id \in StreamId, fields \in FieldSet, count \in Start, stamp \in Stamp :
          LET header == NewHeader(4, id, count, 0, stamp)
          IN  Encoded(ContextEncode(header, fields, order), "Context", header, <<>>, fields, TRUE)
    BY DEF EncodeContext
  <1> DEFINE g == NewHeader(4, id, count, 0, stamp)
             words == ContextEncode(g, fields, order)
             c == CallOf(words, "Context", g, <<>>, fields, TRUE, scale, 0)
  <1>2. /\ id \in Word /\ count \in Nat
        /\ stamp \in [tsi : 0 .. 3, tsf : 0 .. 3, int : Word, frac : Word \X Word]
    BY CodecAssumption
  <1>3. Built(g, 4, count, 0, stamp)
    BY <1>2, NewHeaderOK
  <1>4. g \in Header /\ Complete(g) /\ g.packetType = 4 /\ IsContextPacket(g.packetType) /\ ~ IsDataPacket(g.packetType)
    BY <1>3 DEF Built, IsContextPacket, IsDataPacket
  <1>5. FieldsOK(fields) /\ order \in ByteOrder
    BY CodecAssumption DEF FieldsOK, Inv
  <1> HIDE DEF g
  <1>6. words \in Seq(Word)
    <2>1. CASE words = <<>>
      BY <2>1
    <2>2. CASE words # <<>>
      <3>1. PICK h : ContextOK(words, h, g, fields, order)
        BY <1>4, <1>5, <2>2, ContextPacket
      <3> QED
        BY <3>1 DEF ContextOK, IsPacket
    <2> QED
      BY <2>1, <2>2
  <1> HIDE DEF words
  <1>7. /\ c.kind = "Context" /\ c.header = g /\ c.fields = fields /\ c.wellFormed = TRUE
        /\ c.first = 0 /\ c.end = Len(words)
    BY <1>6 DEF CallOf
  <1> HIDE DEF c
  <1>8. \E T : Parted(words, T, c, order)
    BY <1>4, <1>5, <1>7, ContextParted DEF words
  <1>9. Encodes(words, "Context", g, <<>>, fields, TRUE)
    BY <1>4, <1>8 DEF Encodes, c
  <1> QED
    BY <1>1, <1>9, EncodedStep DEF words, g

(* A packet from elsewhere. *)
LEMMA PutPacketStep ==
    ASSUME Inv, PutPacket
    PROVE  Inv'
  <1>1. PICK other \in OtherPacket :
          Encoded(Serialize(other.header, order) \o other.payload,
                  "Other", other.header, <<>>, NoFields, other.wellFormed)
    BY DEF PutPacket
  <1> DEFINE words == Serialize(other.header, order) \o other.payload
             c == CallOf(words, "Other", other.header, <<>>, NoFields, other.wellFormed, scale, 0)
  <1>2. other.header \in Header /\ Complete(other.header) /\ other.payload \in Seq(Word)
    BY OtherPacketAssumption
  <1>3. order \in ByteOrder
    BY DEF Inv
  <1>4. words \in Seq(Word)
    <2>1. Serialize(other.header, order) \in Seq(Word)
      BY <1>2, <1>3, HeaderRoundTrip
    <2> HIDE DEF words
    <2> QED
      BY <1>2, <2>1 DEF words
  <1> HIDE DEF words
  <1>5. /\ c.kind = "Other" /\ c.header = other.header /\ c.wellFormed = other.wellFormed
        /\ c.first = 0 /\ c.end = Len(words)
    BY <1>4 DEF CallOf
  <1> HIDE DEF c
  <1>6. (\E T : Parted(words, T, c, order)) /\ Len(words) > 0
    BY <1>3, <1>5, OtherParted DEF words
  <1>7. Encodes(words, "Other", other.header, <<>>, NoFields, other.wellFormed)
    BY <1>2, <1>6 DEF Encodes, c
  <1> QED
    BY <1>1, <1>7, EncodedStep DEF words

-----------------------------------------------------------------------------
(* parseStream(). *)

(* Ahead is the packet w of the n-th call. *)
Ahead(S, n, w, h) ==
    /\ Inside(reader.offset, calls[n]) /\ PacketIn(stream, reader.offset, S, calls[n], order, w, h)
    /\ IsPacket(w, h, order) /\ Begins(Rest, w) /\ Len(Rest) = reader.length - reader.offset
    /\ (Acceptable(w) => h.packetSize = Len(w))
    /\ (calls[n].wellFormed => Acceptable(w))
    /\ (Rejected(w, h) <=> Refused(calls[n], scale))

(* Where there are words left, there is a packet. *)
LEMMA RestIsPacket ==
    ASSUME Inv, NEW S, PlacesOK(S, reader, parsed, calls, stream, scale, order), reader.offset < reader.length
    PROVE  \E n \in 1 .. Len(calls) : \E w, h : Ahead(S, n, w, h)
  <1> DEFINE p == reader.offset
             q == reader.length
             L == Len(stream)
  <1>1. /\ p \in Nat /\ q \in Nat /\ p < q /\ q <= L /\ p \in S
    BY DEF PlacesOK, ReaderOK
  <1>2. stream \in Seq(Word) /\ L \in Nat /\ \A k \in Nat : k < L => \E n \in 1 .. Len(calls) : Inside(k, calls[n])
    BY DEF Inv, CallsOK
  <1>3. PICK n \in 1 .. Len(calls) : Inside(p, calls[n])
    <2>1. p < L
      BY <1>1, <1>2
    <2> QED
      BY <1>1, <1>2, <2>1
  <1>4. PacketAt(stream, p, S, calls[n], order)
    BY <1>1, <1>3 DEF PlacesOK, Cut
  <1>5. PICK w, h : PacketIn(stream, p, S, calls[n], order, w, h)
    BY <1>4 DEF PacketAt
  <1>6. /\ IsPacket(w, h, order) /\ SameHeader(h, calls[n].header) /\ Block(stream, p, w)
        /\ calls[n].wellFormed = Acceptable(w) /\ (calls[n].wellFormed => h.packetSize = Len(w))
    BY <1>5 DEF PacketIn
  <1>7. Rest = SubSeq(stream, p + 1, q)
    BY DEF Rest
  <1> HIDE DEF p, q, L
  <1>8. /\ Rest \in Seq(Word) /\ Len(Rest) = q - p /\ \A k \in 1 .. q - p : Rest[k] = stream[p + k]
    <2>1. p + 1 \in 1 .. L + 1 /\ q \in p .. L /\ q \in 0 .. L
      BY <1>1, <1>2
    <2>2. SubSeq(stream, p + 1, q) \in Seq(Word)
      BY <1>1, <1>2, <2>1 DEF L
    <2>3. Len(SubSeq(stream, p + 1, q)) = q - p
      BY <1>1, <1>2, <2>1 DEF L
    <2>4. \A k \in 1 .. q - p : SubSeq(stream, p + 1, q)[k] = stream[p + k]
      <3>1. \A k \in 1 .. q - p : (p + 1) + k - 1 = p + k
        BY <1>1
      <3> QED
        BY <1>1, <1>2, <2>1, <3>1 DEF L
    <2> QED
      BY <1>7, <2>2, <2>3, <2>4
  <1>9. Begins(Rest, w)
    <2>1. Len(w) \in Nat /\ \A k \in 1 .. Len(w) : stream[p + k] = w[k]
      BY <1>6, PacketFixed DEF Block
    <2>2. ASSUME NEW k \in 1 .. Len(Rest), k <= Len(w)
          PROVE  Rest[k] = w[k]
      <3>1. k \in 1 .. q - p /\ k \in 1 .. Len(w)
        BY <1>1, <1>8, <2>1, <2>2
      <3> QED
        BY <1>8, <2>1, <3>1
    <2>3. Len(Rest) > 0
      BY <1>1, <1>8
    <2> QED
      BY <1>8, <2>2, <2>3 DEF Begins
  <1>10. Rejected(w, h) <=> Refused(calls[n], scale)
    <2>1. h.packetType = calls[n].header.packetType
      BY <1>6 DEF SameHeader
    <2> QED
      BY <1>6, <2>1 DEF Rejected, Refused
  <1>11. Ahead(S, n, w, h)
    BY <1>3, <1>5, <1>6, <1>8, <1>9, <1>10 DEF Ahead, p, q
  <1> QED
    BY <1>11

(* The results with one more. *)
LEMMA EntriesGrow ==
    ASSUME NEW S, NEW rd, NEW ps, IsSeq(ps), NEW cs, NEW words, NEW factor, NEW o, EntriesOK(S, rd, ps, cs, words, factor, o),
           NEW e, e.at = rd.offset, NEW to, NEW n \in 1 .. Len(cs), Entry(e, to.offset, S, cs[n], words, factor, o)
    PROVE  EntriesOK(S, to, Append(ps, e), cs, words, factor, o)
  <1> DEFINE qs == Append(ps, e)
             N == Len(ps)
  <1>1. IsSeq(qs) /\ N \in Nat /\ Len(qs) = N + 1 /\ (\A i \in 1 .. N : qs[i] = ps[i]) /\ qs[N + 1] = e
    BY Appended
  <1> HIDE DEF qs
  <1>2. ASSUME NEW i \in 1 .. Len(qs)
        PROVE  \E m \in 1 .. Len(cs) : Entry(qs[i], After(qs, to, i), S, cs[m], words, factor, o)
    <2>1. CASE i = N + 1
      <3>1. qs[i] = e /\ After(qs, to, i) = to.offset
        BY <1>1, <2>1 DEF After
      <3> QED
        BY <3>1
    <2>2. CASE i \in 1 .. N
      <3>1. PICK m \in 1 .. Len(cs) : Entry(ps[i], After(ps, rd, i), S, cs[m], words, factor, o)
        BY <2>2 DEF EntriesOK, N
      <3>2. qs[i] = ps[i]
        BY <1>1, <2>2
      <3>3. After(qs, to, i) = After(ps, rd, i)
        <4>1. i # Len(qs) /\ After(qs, to, i) = qs[i + 1].at
          BY <1>1, <2>2 DEF After
        <4>2. CASE i = N
          BY <1>1, <4>1, <4>2 DEF After, N
        <4>3. CASE i # N
          <5>1. i + 1 \in 1 .. N
            BY <1>1, <2>2, <4>3
          <5> QED
            BY <1>1, <4>1, <4>3, <5>1 DEF After, N
        <4> QED
          BY <4>2, <4>3
      <3> QED
        BY <3>1, <3>2, <3>3
    <2> QED
      BY <1>1, <2>1, <2>2
  <1>3. EntriesOK(S, to, qs, cs, words, factor, o)
    BY <1>2 DEF EntriesOK
  <1> QED
    BY <1>3 DEF qs

(* Calls in their order. *)
LEMMA CallOrder ==
    ASSUME NEW cs, NEW words, CallsOK(cs, words), NEW m \in 1 .. Len(cs), NEW n \in 1 .. Len(cs)
    PROVE  /\ cs[m].first \in Nat /\ cs[m].end \in Nat /\ cs[m].first <= cs[m].end /\ cs[m].end <= Len(words)
           /\ m < n => cs[m].end <= cs[n].first
           /\ n < m => cs[n].end <= cs[m].first
           /\ m # n => m < n \/ n < m
  <1>1. /\ \A k \in 1 .. Len(cs) : CallOK(cs[k], Len(words))
        /\ \A k \in 1 .. Len(cs) : \A j \in 1 .. k - 1 : cs[j].end <= cs[k].first
        /\ IsSeq(cs)
    BY DEF CallsOK
  <1>2. Len(cs) \in Nat
    BY <1>1 DEF IsSeq
  <1>3. (m < n => m \in 1 .. n - 1) /\ (n < m => n \in 1 .. m - 1) /\ (m # n => m < n \/ n < m)
    BY <1>2
  <1>4. cs[m].first \in Nat /\ cs[m].end \in Nat /\ cs[m].first <= cs[m].end /\ cs[m].end <= Len(words)
    BY <1>1 DEF CallOK
  <1> QED
    BY <1>1, <1>3, <1>4

(* A place lies in one call. *)
LEMMA OneCall ==
    ASSUME NEW cs, NEW words, CallsOK(cs, words), NEW m \in 1 .. Len(cs), NEW n \in 1 .. Len(cs),
           NEW p \in Nat, Inside(p, cs[m]), Inside(p, cs[n])
    PROVE  m = n
  <1>1. cs[m].first <= p /\ p < cs[m].end /\ cs[n].first <= p /\ p < cs[n].end
    BY DEF Inside
  <1>2. cs[m].first \in Nat /\ cs[m].end \in Nat /\ cs[n].first \in Nat /\ cs[n].end \in Nat
    BY CallOrder
  <1>3. (m < n => cs[m].end <= cs[n].first) /\ (n < m => cs[n].end <= cs[m].first) /\ (m # n => m < n \/ n < m)
    BY CallOrder
  <1> QED
    BY <1>1, <1>2, <1>3

(* Going on to the end of a packet does not pass a call that is refused. *)
LEMMA StaysAhead ==
    ASSUME NEW cs, NEW words, CallsOK(cs, words), NEW rd, rd.offset \in Nat, NEW factor, RefusedAhead(rd, cs, factor),
           NEW n \in 1 .. Len(cs), Inside(rd.offset, cs[n]), ~ Refused(cs[n], factor),
           NEW to, to.offset \in Nat, to.offset <= cs[n].end
    PROVE  RefusedAhead(to, cs, factor)
  <1> SUFFICES ASSUME NEW m \in 1 .. Len(cs), Refused(cs[m], factor)
               PROVE  to.offset <= cs[m].first
    BY DEF RefusedAhead
  <1>1. rd.offset <= cs[m].first /\ cs[n].first <= rd.offset /\ rd.offset < cs[n].end
    BY DEF RefusedAhead, Inside
  <1>2. cs[m].first < cs[m].end
    BY DEF Refused, CallsOK, CallOK
  <1>3. /\ (n < m => cs[n].end <= cs[m].first) /\ (m < n => cs[m].end <= cs[n].first) /\ (m # n => m < n \/ n < m)
        /\ cs[m].first \in Nat /\ cs[m].end \in Nat /\ cs[n].first \in Nat /\ cs[n].end \in Nat
    BY CallOrder
  <1>4. m # n
    OBVIOUS
  <1> QED
    BY <1>1, <1>2, <1>3, <1>4

(* A packet is taken. *)
LEMMA ParsePacketStep ==
    ASSUME Inv, ParsePacket
    PROVE  Inv'
  <1> DEFINE e == ParsedPacket(Rest)
             p == reader.offset
  <1>1. /\ reader.phase = "parsing" /\ Rest # <<>> /\ PacketValid(Rest) /\ parsed' = Append(parsed, e)
        /\ reader' = [reader EXCEPT !.offset = @ + Fixed(Rest[1]).packetSize]
        /\ order' = order /\ scale' = scale /\ stream' = stream /\ calls' = calls
    BY DEF ParsePacket, PacketAhead
  <1>2. e.at = p
    BY DEF ParsedPacket
  <1> HIDE DEF e
  <1>3. /\ order \in ByteOrder /\ scale \in Scale /\ Len(calls) <= MaxCalls /\ CallsOK(calls, stream)
        /\ RefusedAhead(reader, calls, scale)
    BY DEF Inv
  <1>4. PICK S : PlacesOK(S, reader, parsed, calls, stream, scale, order)
    BY DEF Inv
  <1>5. Cut(S, calls, stream, order) /\ ReaderOK(S, reader, parsed, stream) /\ EntriesOK(S, reader, parsed, calls, stream, scale, order)
    BY <1>4 DEF PlacesOK
  <1>6. /\ reader \in [phase : {"idle", "parsing", "done"}, length : Nat, offset : Nat] /\ p \in Nat /\ reader.length \in Nat
        /\ p <= reader.length /\ reader.length <= Len(stream) /\ p \in S /\ IsSeq(parsed)
        /\ (parsed = <<>> => p = 0) /\ (parsed # <<>> => parsed[1].at = 0)
    BY <1>5 DEF ReaderOK
  <1>7. p < reader.length
    <2>1. stream \in Seq(Word)
      BY <1>3 DEF CallsOK
    <2>2. p = reader.length => Rest = <<>>
      BY <1>6, <2>1 DEF Rest
    <2> QED
      BY <1>1, <1>6, <2>2
  <1>8. PICK n \in 1 .. Len(calls) : \E w, h : Ahead(S, n, w, h)
    BY <1>4, <1>7, RestIsPacket
  <1>9. PICK w, h : Ahead(S, n, w, h)
    BY <1>8
  <1>10. /\ Inside(p, calls[n]) /\ PacketIn(stream, p, S, calls[n], order, w, h)
         /\ IsPacket(w, h, order) /\ Begins(Rest, w) /\ Len(Rest) = reader.length - p
         /\ (Acceptable(w) => h.packetSize = Len(w)) /\ (Rejected(w, h) <=> Refused(calls[n], scale))
    BY <1>9 DEF Ahead
  <1>11. Fixed(Rest[1]).packetSize = h.packetSize /\ ~ Rejected(w, h) /\ h.packetSize <= Len(Rest) /\ Found(e, w, h, scale, order)
    BY <1>1, <1>10, PacketSeen DEF e
  <1>12. calls[n].wellFormed /\ ~ Refused(calls[n], scale)
    BY <1>10, <1>11 DEF Refused
  <1>13. h.packetSize = Len(w) /\ p + Len(w) \in S /\ p + Len(w) <= calls[n].end /\ Len(w) \in Nat
    BY <1>10, <1>12, PacketFixed DEF PacketIn
  <1>14. /\ reader' \in [phase : {"idle", "parsing", "done"}, length : Nat, offset : Nat]
         /\ reader'.phase = "parsing" /\ reader'.length = reader.length /\ reader'.offset = p + Len(w)
         /\ reader'.offset \in Nat
    BY <1>1, <1>6, <1>11, <1>13
  <1>15. p + Len(w) <= reader.length
    BY <1>6, <1>10, <1>11, <1>13
  <1>16. RefusedAhead(reader', calls, scale)
    BY <1>3, <1>6, <1>10, <1>12, <1>13, <1>14, StaysAhead
  <1>17. Entry(e, (reader').offset, S, calls[n], stream, scale, order)
    <2>1. EntryIn(e, (reader').offset, S, calls[n], stream, scale, order, w, h)
      BY <1>2, <1>6, <1>10, <1>11, <1>12, <1>14 DEF EntryIn
    <2> QED
      BY <2>1 DEF Entry
  <1>18. EntriesOK(S, reader', Append(parsed, e), calls, stream, scale, order)
    BY <1>2, <1>5, <1>6, <1>17, EntriesGrow
  <1>19. ReaderOK(S, reader', Append(parsed, e), stream)
    <2>1. IsSeq(Append(parsed, e)) /\ Append(parsed, e) # <<>> /\ Append(parsed, e)[1].at = 0
      <3>1. /\ IsSeq(Append(parsed, e)) /\ Len(parsed) \in Nat /\ Len(Append(parsed, e)) = Len(parsed) + 1
            /\ \A i \in 1 .. Len(parsed) : Append(parsed, e)[i] = parsed[i]
            /\ Append(parsed, e)[Len(parsed) + 1] = e
        BY <1>6, Appended
      <3>2. parsed = <<>> <=> Len(parsed) = 0
        BY <1>6 DEF IsSeq
      <3>3. CASE parsed = <<>>
        BY <1>2, <1>6, <3>1, <3>2, <3>3
      <3>4. CASE parsed # <<>>
        <4>1. 1 \in 1 .. Len(parsed)
          BY <3>1, <3>2, <3>4
        <4> QED
          BY <1>6, <3>1, <3>4, <4>1
      <3> QED
        BY <3>3, <3>4
    <2> QED
      BY <1>6, <1>13, <1>14, <1>15, <2>1 DEF ReaderOK
  <1>20. PlacesOK(S, reader', parsed', calls', stream', scale', order')
    BY <1>1, <1>5, <1>18, <1>19 DEF PlacesOK
  <1> QED
    BY <1>1, <1>3, <1>14, <1>16, <1>20 DEF Inv

(* The steps that take no packet. *)
LEMMA OtherSteps ==
    ASSUME Inv, \/ \E newOrder \in ByteOrder : SetByteOrder(newOrder)
                \/ \E factor \in Scale : SetScaleFactor(factor)
                \/ \E length \in 0 .. Len(stream) : ParseStream(length)
                \/ ParseEnd
                \/ ParseReturn
                \/ UNCHANGED vars
    PROVE  Inv'
  <1>1. /\ order \in ByteOrder /\ scale \in Scale /\ Len(calls) <= MaxCalls /\ CallsOK(calls, stream)
        /\ RefusedAhead(reader, calls, scale) /\ (reader.phase = "done" => ~ PacketAhead)
    BY DEF Inv
  <1>2. PICK S : PlacesOK(S, reader, parsed, calls, stream, scale, order)
    BY DEF Inv
  <1>3. Cut(S, calls, stream, order) /\ ReaderOK(S, reader, parsed, stream) /\ EntriesOK(S, reader, parsed, calls, stream, scale, order)
    BY <1>2 DEF PlacesOK
  <1>4. /\ reader \in [phase : {"idle", "parsing", "done"}, length : Nat, offset : Nat]
        /\ reader.offset <= reader.length /\ reader.length <= Len(stream) /\ reader.offset \in S
        /\ reader.phase = "idle" => reader.offset = 0 /\ parsed = <<>>
        /\ IsSeq(parsed) /\ (parsed = <<>> => reader.offset = 0) /\ (parsed # <<>> => parsed[1].at = 0)
    BY <1>3 DEF ReaderOK
  <1>5. \A n \in 1 .. Len(calls) : 0 <= calls[n].first
    BY <1>1 DEF CallsOK, CallOK
  <1>6. 0 \in S /\ stream \in Seq(Word) /\ Len(stream) \in Nat
    BY <1>1, <1>3 DEF Cut, CallsOK
  <1>7. ASSUME parsed' = <<>>, NEW c, NEW w, NEW f, NEW o
        PROVE  EntriesOK(S, reader', parsed', c, w, f, o) /\ IsSeq(parsed')
    BY <1>7 DEF EntriesOK, IsSeq
  <1>8. ASSUME reader'.offset = 0
        PROVE  RefusedAhead(reader', calls, scale')
    BY <1>5, <1>8 DEF RefusedAhead
  <1>9. CASE \E newOrder \in ByteOrder : SetByteOrder(newOrder)
    <2>1. /\ reader.phase = "idle" /\ stream = <<>> /\ calls = <<>> /\ order' \in ByteOrder
          /\ scale' = scale /\ stream' = stream /\ calls' = calls /\ reader' = reader /\ parsed' = parsed
      BY <1>9 DEF SetByteOrder
    <2>2. Cut(S, calls, stream, order')
      BY <1>3, <2>1 DEF Cut
    <2>3. EntriesOK(S, reader', parsed', calls, stream, scale, order')
      BY <1>4, <1>7, <2>1
    <2>4. PlacesOK(S, reader', parsed', calls', stream', scale', order')
      BY <1>3, <2>1, <2>2, <2>3 DEF PlacesOK
    <2> QED
      BY <1>1, <2>1, <2>4 DEF Inv
  <1>10. CASE \E factor \in Scale : SetScaleFactor(factor)
    <2>1. /\ reader.phase = "idle" /\ scale' \in Scale
          /\ order' = order /\ stream' = stream /\ calls' = calls /\ reader' = reader /\ parsed' = parsed
      BY <1>10 DEF SetScaleFactor
    <2>2. EntriesOK(S, reader', parsed', calls, stream, scale', order) /\ RefusedAhead(reader', calls, scale')
      BY <1>4, <1>7, <1>8, <2>1
    <2>3. PlacesOK(S, reader', parsed', calls', stream', scale', order')
      BY <1>3, <2>1, <2>2 DEF PlacesOK
    <2> QED
      BY <1>1, <2>1, <2>2, <2>3 DEF Inv
  <1>11. CASE \E length \in 0 .. Len(stream) : ParseStream(length)
    <2>1. PICK length \in 0 .. Len(stream) : ParseStream(length)
      BY <1>11
    <2>2. /\ reader.phase = "idle" /\ reader' = [phase |-> "parsing", length |-> length, offset |-> 0]
          /\ order' = order /\ scale' = scale /\ stream' = stream /\ calls' = calls /\ parsed' = parsed
      BY <2>1 DEF ParseStream
    <2>3. EntriesOK(S, reader', parsed', calls, stream, scale, order) /\ RefusedAhead(reader', calls, scale)
      BY <1>4, <1>7, <1>8, <2>2
    <2>4. ReaderOK(S, reader', parsed', stream)
      BY <1>4, <1>6, <2>2 DEF ReaderOK
    <2>5. PlacesOK(S, reader', parsed', calls', stream', scale', order')
      BY <1>3, <2>2, <2>3, <2>4 DEF PlacesOK
    <2> QED
      BY <1>1, <2>2, <2>3, <2>5 DEF Inv
  <1>12. CASE ParseEnd
    <2>1. /\ reader' = [reader EXCEPT !.phase = "done"] /\ ~ PacketAhead /\ reader.phase = "parsing"
          /\ order' = order /\ scale' = scale /\ stream' = stream /\ calls' = calls /\ parsed' = parsed
      BY <1>12 DEF ParseEnd
    <2>2. /\ reader'.offset = reader.offset /\ reader'.length = reader.length /\ reader'.phase = "done"
          /\ reader' \in [phase : {"idle", "parsing", "done"}, length : Nat, offset : Nat]
      BY <1>4, <2>1
    <2>3. ~ PacketAhead'
      BY <2>1, <2>2 DEF PacketAhead, Rest, PacketValid
    <2>4. EntriesOK(S, reader', parsed', calls, stream, scale, order)
      BY <1>3, <2>1, <2>2 DEF EntriesOK, After
    <2>5. ReaderOK(S, reader', parsed', stream)
      BY <1>4, <2>1, <2>2 DEF ReaderOK
    <2>6. RefusedAhead(reader', calls, scale)
      BY <1>1, <2>2 DEF RefusedAhead
    <2>7. PlacesOK(S, reader', parsed', calls', stream', scale', order')
      BY <1>3, <2>1, <2>4, <2>5 DEF PlacesOK
    <2> QED
      BY <1>1, <2>1, <2>3, <2>6, <2>7 DEF Inv
  <1>13. CASE ParseReturn
    <2>1. /\ reader' = NoReader /\ parsed' = <<>>
          /\ order' = order /\ scale' = scale /\ stream' = stream /\ calls' = calls
      BY <1>13 DEF ParseReturn
    <2>2. /\ reader'.offset = 0 /\ reader'.length = 0 /\ reader'.phase = "idle"
          /\ reader' \in [phase : {"idle", "parsing", "done"}, length : Nat, offset : Nat]
      BY <2>1 DEF NoReader
    <2>3. EntriesOK(S, reader', parsed', calls, stream, scale, order) /\ IsSeq(parsed') /\ RefusedAhead(reader', calls, scale)
      BY <1>7, <1>8, <2>1, <2>2
    <2>4. ReaderOK(S, reader', parsed', stream)
      BY <1>6, <2>1, <2>2, <2>3 DEF ReaderOK
    <2>5. PlacesOK(S, reader', parsed', calls', stream', scale', order')
      BY <1>3, <2>1, <2>3, <2>4 DEF PlacesOK
    <2> QED
      BY <1>1, <2>1, <2>2, <2>3, <2>5 DEF Inv
  <1>14. CASE UNCHANGED vars
    BY <1>1, <1>2, <1>14 DEF Inv, vars, PacketAhead, Rest, PacketValid
  <1> QED
    BY <1>9, <1>10, <1>11, <1>12, <1>13, <1>14

(* The invariant, of every state. *)
THEOREM Invariant == Spec => []Inv
  <1>1. Init => Inv
    <2> SUFFICES ASSUME Init PROVE Inv
      OBVIOUS
    <2>1. /\ order \in ByteOrder /\ scale \in Scale /\ stream = <<>> /\ calls = <<>> /\ parsed = <<>>
          /\ reader = [phase |-> "idle", length |-> 0, offset |-> 0]
      BY DEF Init, NoReader
    <2>2. IsSeq(<<>>) /\ Len(<<>>) = 0 /\ <<>> \in Seq(Word)
      BY DEF IsSeq
    <2>3. CallsOK(calls, stream) /\ RefusedAhead(reader, calls, scale)
      BY <2>1, <2>2 DEF CallsOK, RefusedAhead
    <2>4. Cut({0}, calls, stream, order)
      BY <2>1, <2>2 DEF Cut
    <2>5. ReaderOK({0}, reader, parsed, stream)
      BY <2>1, <2>2 DEF ReaderOK
    <2>6. EntriesOK({0}, reader, parsed, calls, stream, scale, order)
      BY <2>1, <2>2 DEF EntriesOK
    <2>7. PlacesOK({0}, reader, parsed, calls, stream, scale, order)
      BY <2>4, <2>5, <2>6 DEF PlacesOK
    <2> QED
      BY <2>1, <2>2, <2>3, <2>7, CodecAssumption DEF Inv
  <1>2. Inv /\ [Next]_vars => Inv'
    <2> SUFFICES ASSUME Inv, [Next]_vars PROVE Inv'
      OBVIOUS
    <2>1. CASE EncodeSignalData
      BY <2>1, EncodeSignalDataStep
    <2>2. CASE EncodeContext
      BY <2>2, EncodeContextStep
    <2>3. CASE PutPacket
      BY <2>3, PutPacketStep
    <2>4. CASE ParsePacket
      BY <2>4, ParsePacketStep
    <2>5. CASE \/ \E newOrder \in ByteOrder : SetByteOrder(newOrder)
               \/ \E factor \in Scale : SetScaleFactor(factor)
               \/ \E length \in 0 .. Len(stream) : ParseStream(length)
               \/ ParseEnd
               \/ ParseReturn
               \/ UNCHANGED vars
      BY <2>5, OtherSteps
    <2> QED
      BY <2>1, <2>2, <2>3, <2>4, <2>5 DEF Next
  <1> QED
    BY <1>1, <1>2, PTL DEF Spec

-----------------------------------------------------------------------------
(* What the invariant says of the results. *)

(* Results and calls are sequences. *)
LEMMA Domains ==
    ASSUME Inv
    PROVE  /\ DOMAIN parsed = 1 .. Len(parsed) /\ DOMAIN calls = 1 .. Len(calls)
           /\ Len(parsed) \in Nat /\ Len(calls) \in Nat /\ CallsOK(calls, stream)
  <1>1. CallsOK(calls, stream) /\ IsSeq(calls) /\ IsSeq(parsed)
    BY DEF Inv, PlacesOK, CallsOK, ReaderOK
  <1> QED
    BY <1>1 DEF IsSeq

(* The i-th result is that of a packet of the n-th call. *)
ResultOf(i, n) ==
    \E S, w, h : EntryIn(parsed[i], After(parsed, reader, i), S, calls[n], stream, scale, order, w, h)

(* Every result is one of some call, and only of the call it lies in. *)
LEMMA Results ==
    ASSUME Inv, NEW i \in DOMAIN parsed
    PROVE  /\ \E n \in DOMAIN calls : ResultOf(i, n)
           /\ \A n \in DOMAIN calls : Of(parsed[i], calls[n]) => ResultOf(i, n)
  <1>1. PICK S : PlacesOK(S, reader, parsed, calls, stream, scale, order)
    BY DEF Inv
  <1>2. /\ DOMAIN parsed = 1 .. Len(parsed) /\ DOMAIN calls = 1 .. Len(calls) /\ CallsOK(calls, stream)
        /\ EntriesOK(S, reader, parsed, calls, stream, scale, order) /\ S \subseteq 0 .. Len(stream)
    BY <1>1, Domains DEF PlacesOK, Cut
  <1>3. PICK m \in DOMAIN calls : Entry(parsed[i], After(parsed, reader, i), S, calls[m], stream, scale, order)
    BY <1>2 DEF EntriesOK
  <1>4. PICK w, h : EntryIn(parsed[i], After(parsed, reader, i), S, calls[m], stream, scale, order, w, h)
    BY <1>3 DEF Entry
  <1>5. ResultOf(i, m)
    BY <1>4 DEF ResultOf
  <1>6. parsed[i].at \in S /\ Inside(parsed[i].at, calls[m])
    BY <1>4 DEF EntryIn
  <1>7. ASSUME NEW n \in DOMAIN calls, Of(parsed[i], calls[n])
        PROVE  n = m
    <2>1. Inside(parsed[i].at, calls[n]) /\ parsed[i].at \in Nat
      <3>1. Len(stream) \in Nat
        BY <1>2 DEF CallsOK
      <3>2. parsed[i].at \in Nat
        <4>1. parsed[i].at \in 0 .. Len(stream)
          BY <1>2, <1>6
        <4>2. \A k \in 0 .. Len(stream) : k \in Nat
          BY <3>1
        <4> QED
          BY <4>1, <4>2
      <3> QED
        BY <1>7, <3>2 DEF Of, Inside
    <2> QED
      BY <1>2, <1>6, <2>1, OneCall
  <1> QED
    BY <1>5, <1>7

(* The type invariant: the words fit their width, and parseStream() never  *)
(* goes past the bytes it was given.                                       *)
THEOREM TypesHold == Spec => []TypeOK
  <1>1. Inv => TypeOK
    <2> SUFFICES ASSUME Inv PROVE TypeOK
      OBVIOUS
    <2>1. stream \in Seq(Word) /\ Len(calls) <= MaxCalls
      BY DEF Inv, CallsOK
    <2>2. /\ reader \in [phase : {"idle", "parsing", "done"}, length : Nat, offset : Nat]
          /\ reader.offset <= reader.length /\ reader.length <= Len(stream)
      BY DEF Inv, PlacesOK, ReaderOK
    <2>3. ASSUME NEW i \in DOMAIN parsed
          PROVE  parsed[i].header.packetCount \in 0 .. 15
      <3>1. PICK n \in DOMAIN calls : ResultOf(i, n)
        BY Results
      <3> QED
        BY <3>1 DEF ResultOf, EntryIn, Found
    <2> QED
      BY <2>1, <2>2, <2>3 DEF TypeOK
  <1> QED
    BY <1>1, Invariant, PTL

(* h, found at the given place, is the header of a packet of c. *)
HeaderBack(h, c, place) ==
    LET g == [c.header EXCEPT !.packetCount = h.packetCount, !.packetSize = h.packetSize]
    IN  /\ h = IF place = c.first THEN g
               ELSE [g EXCEPT !.integerTimestamp = h.integerTimestamp,
                              !.fractionalTimestamp = h.fractionalTimestamp]
        /\ Complete(h)
        /\ c.kind # "SignalData" =>
             h.packetCount = c.header.packetCount /\ h.packetSize = c.end - c.first

(* What serialize() wrote into a header is what parse() reads, whatever    *)
(* came before it in the stream; a packet that was not split keeps its     *)
(* count and covers the words of its call.                                 *)
THEOREM HeadersHold == Spec => []HeadersSurvive
  <1>1. Inv => HeadersSurvive
    <2> SUFFICES ASSUME Inv, NEW n \in DOMAIN calls, NEW i \in DOMAIN parsed,
                        Of(parsed[i], calls[n]), parsed[i].type # "Unknown"
                 PROVE  HeaderBack(parsed[i].header, calls[n], parsed[i].at)
      BY DEF HeadersSurvive, HeaderBack
    <2> DEFINE c == calls[n]
               e == parsed[i]
    <2>1. ResultOf(i, n)
      BY Results
    <2>2. PICK S, w, h : EntryIn(e, After(parsed, reader, i), S, c, stream, scale, order, w, h)
      BY <2>1 DEF ResultOf
    <2>3. e.header = h /\ c.wellFormed /\ PacketIn(stream, e.at, S, c, order, w, h)
      BY <2>2 DEF EntryIn, Found
    <2>4. /\ IsPacket(w, h, order) /\ SameHeader(h, c.header) /\ h.packetSize = Len(w)
          /\ c.kind # "SignalData" => e.at = c.first /\ e.at + Len(w) = c.end /\ h.packetCount = c.header.packetCount
      BY <2>3 DEF PacketIn
    <2>5. h \in Header /\ Len(w) \in Nat
      BY <2>4, PacketFixed DEF IsPacket
    <2>6. c.header \in Header /\ c.first \in Nat /\ c.end \in Nat
      BY Domains DEF CallsOK, CallOK
    <2> HIDE DEF c, e
    <2>7. h = [c.header EXCEPT !.packetCount = h.packetCount, !.packetSize = h.packetSize]
      BY <2>4, <2>5, <2>6 DEF Header, SameHeader
    <2>8. c.kind # "SignalData" => h.packetCount = c.header.packetCount /\ h.packetSize = c.end - c.first
      BY <2>4, <2>5, <2>6
    <2>9. h = [[c.header EXCEPT !.packetCount = h.packetCount, !.packetSize = h.packetSize]
                 EXCEPT !.integerTimestamp = h.integerTimestamp,
                        !.fractionalTimestamp = h.fractionalTimestamp]
      BY <2>5, <2>6, <2>7 DEF Header
    <2>10. Complete(h)
      BY <2>4 DEF IsPacket
    <2> QED
      BY <2>3, <2>7, <2>8, <2>9, <2>10 DEF HeaderBack, c, e
  <1> QED
    BY <1>1, Invariant, PTL

(* decode() finds in a context packet exactly the fields that encode() was *)
(* given, each within half a step of its fixed-point value.                *)
THEOREM FieldsHold == Spec => []FieldsSurvive
  <1>1. Inv => FieldsSurvive
    <2> SUFFICES ASSUME Inv, NEW n \in DOMAIN calls, NEW i \in DOMAIN parsed,
                        calls[n].kind = "Context", Of(parsed[i], calls[n])
                 PROVE  FieldsClose(parsed[i].fields, calls[n].fields)
      BY DEF FieldsSurvive, FieldsClose
    <2>1. ResultOf(i, n)
      BY Results
    <2>2. PICK S, w, h : EntryIn(parsed[i], After(parsed, reader, i), S, calls[n], stream, scale, order, w, h)
      BY <2>1 DEF ResultOf
    <2>3. Found(parsed[i], w, h, scale, order) /\ PacketIn(stream, parsed[i].at, S, calls[n], order, w, h)
      BY <2>2 DEF EntryIn
    <2>4. IsContextPacket(h.packetType) /\ FieldsClose(ContextFields(w, order), calls[n].fields)
      BY <2>3 DEF PacketIn
    <2> QED
      BY <2>3, <2>4 DEF Found
  <1> QED
    BY <1>1, Invariant, PTL

(* parseStream() returns every packet that lies wholly in its buffer up to *)
(* the first call it refuses, and takes nothing from there on.             *)
THEOREM WholePacketsHold == Spec => []ParsesEveryWholePacket
  <1>1. Inv => ParsesEveryWholePacket
    <2> SUFFICES ASSUME Inv, reader.phase = "done", NEW n \in DOMAIN calls
                 PROVE  /\ calls[n].end <= reader.length /\ (\A m \in 1 .. n : ~ Refused(calls[m], scale)) =>
                             reader.offset >= calls[n].end
                        /\ Refused(calls[n], scale) => reader.offset <= calls[n].first
      BY DEF ParsesEveryWholePacket, Refused
    <2>1. DOMAIN calls = 1 .. Len(calls) /\ CallsOK(calls, stream) /\ RefusedAhead(reader, calls, scale) /\ ~ PacketAhead
      BY Domains DEF Inv
    <2>2. Refused(calls[n], scale) => reader.offset <= calls[n].first
      BY <2>1 DEF RefusedAhead
    <2>3. PICK S : PlacesOK(S, reader, parsed, calls, stream, scale, order)
      BY DEF Inv
    <2>4. reader.offset \in Nat /\ reader.length \in Nat /\ reader.offset <= reader.length
      BY <2>3 DEF PlacesOK, ReaderOK
    <2>5. ASSUME calls[n].end <= reader.length, \A m \in 1 .. n : ~ Refused(calls[m], scale), reader.offset < calls[n].end
          PROVE  FALSE
      <3>1. calls[n].end \in Nat /\ calls[n].first \in Nat /\ calls[n].first <= calls[n].end
        BY <2>1, CallOrder
      <3>2. reader.offset < reader.length
        BY <2>4, <2>5, <3>1
      <3>3. PICK m \in 1 .. Len(calls) : \E w, h : Ahead(S, m, w, h)
        BY <2>3, <3>2, RestIsPacket
      <3>4. PICK w, h : Ahead(S, m, w, h)
        BY <3>3
      <3>5. /\ Inside(reader.offset, calls[m]) /\ PacketIn(stream, reader.offset, S, calls[m], order, w, h)
            /\ IsPacket(w, h, order) /\ Begins(Rest, w) /\ Len(Rest) = reader.length - reader.offset
            /\ (Acceptable(w) => h.packetSize = Len(w)) /\ (calls[m].wellFormed => Acceptable(w))
            /\ (Rejected(w, h) <=> Refused(calls[m], scale))
        BY <3>4 DEF Ahead
      <3>6. /\ calls[m].end \in Nat /\ calls[m].first \in Nat
            /\ (n < m => calls[n].end <= calls[m].first) /\ (m < n => calls[m].end <= calls[n].first)
            /\ (m # n => m < n \/ n < m)
        BY <2>1, CallOrder
      <3>7. calls[m].first <= reader.offset /\ reader.offset < calls[m].end
        BY <3>5 DEF Inside
      <3>8. ~ (n < m)
        BY <2>4, <2>5, <3>1, <3>6, <3>7
      <3>9. calls[m].end <= calls[n].end
        BY <3>1, <3>6, <3>8
      <3>10. m \in 1 .. n
        BY <2>1, <3>8
      <3>11. ~ Refused(calls[m], scale) /\ calls[m].wellFormed
        BY <2>5, <3>10 DEF Refused
      <3>12. h.packetSize = Len(w) /\ reader.offset + Len(w) <= calls[m].end /\ Len(w) \in Nat
        BY <3>5, <3>11, PacketFixed DEF PacketIn
      <3>13. h.packetSize <= Len(Rest)
        BY <2>4, <2>5, <3>1, <3>5, <3>6, <3>9, <3>12
      <3>14. PacketValid(Rest)
        <4>1. PacketValid(Rest) <=> ~ Rejected(w, h) /\ h.packetSize <= Len(Rest)
          BY <3>5, PacketSeen
        <4> QED
          BY <3>5, <3>11, <3>13, <4>1
      <3>15. Rest # <<>>
        BY <3>5 DEF Begins
      <3> QED
        BY <2>1, <3>14, <3>15 DEF PacketAhead
    <2> QED
      <3>1. calls[n].end \in Nat
        BY <2>1, CallOrder
      <3> QED
        BY <2>2, <2>4, <2>5, <3>1
  <1> QED
    BY <1>1, Invariant, PTL

(* The packet of the n-th call that the i-th result was found in. *)
LEMMA SignalResult ==
    ASSUME Inv, NEW n \in DOMAIN calls, calls[n].kind = "SignalData", NEW i \in DOMAIN parsed, ResultOf(i, n)
    PROVE  \E w, h :
             /\ parsed[i].header = h /\ h.packetSize = Len(w) /\ Len(w) \in Nat /\ Len(w) >= 1
             /\ parsed[i].at \in Nat /\ Inside(parsed[i].at, calls[n])
             /\ parsed[i].at + Len(w) = After(parsed, reader, i) /\ parsed[i].at + Len(w) <= calls[n].end
             /\ Fixed(stream[parsed[i].at + 1]).packetCount = h.packetCount
             /\ Numbered(stream, parsed[i].at, w, h, calls[n]) /\ SamplesIn(parsed[i].at, w, calls[n], order)
             /\ parsed[i].samples = SignalSamples(w, scale, order) /\ IsPacket(w, h, order)
             /\ SameHeader(h, calls[n].header)
  <1> DEFINE e == parsed[i]
             c == calls[n]
  <1>1. PICK S, w, h : EntryIn(e, After(parsed, reader, i), S, c, stream, scale, order, w, h)
    BY DEF ResultOf
  <1>2. Inside(e.at, c) /\ c.wellFormed /\ e.at + Len(w) = After(parsed, reader, i)
    BY <1>1 DEF EntryIn
  <1>3. Found(e, w, h, scale, order) /\ PacketIn(stream, e.at, S, c, order, w, h)
    BY <1>1 DEF EntryIn
  <1>4. /\ IsPacket(w, h, order) /\ SameHeader(h, c.header) /\ h.packetSize = Len(w) /\ Block(stream, e.at, w)
        /\ Numbered(stream, e.at, w, h, c) /\ SamplesIn(e.at, w, c, order) /\ e.at + Len(w) <= c.end
    BY <1>2, <1>3 DEF PacketIn
  <1>5. IsDataPacket(h.packetType)
    BY <1>4 DEF SamplesIn, SameHeader
  <1>6. e.header = h /\ e.samples = SignalSamples(w, scale, order)
    BY <1>3, <1>5 DEF Found
  <1>7. Len(w) \in Nat /\ Len(w) >= 1 /\ Fixed(w[1]).packetCount = h.packetCount
    BY <1>4, PacketFixed
  <1>8. stream[e.at + 1] = w[1]
    BY <1>4, <1>7 DEF Block
  <1>9. e.at \in Nat
    <2>1. c.first \in Nat /\ CallsOK(calls, stream)
      BY Domains DEF CallsOK, CallOK
    <2>2. PICK m \in Nat : e.at = c.first + m * MaxPacketSizeWords
      BY <1>4 DEF SamplesIn
    <2>3. m * MaxPacketSizeWords \in Nat
      BY MaxPacketType
    <2> QED
      BY <2>1, <2>2, <2>3
  <1> HIDE DEF e, c
  <1>10. /\ e.header = h /\ h.packetSize = Len(w) /\ Len(w) \in Nat /\ Len(w) >= 1
         /\ e.at \in Nat /\ Inside(e.at, c)
         /\ e.at + Len(w) = After(parsed, reader, i) /\ e.at + Len(w) <= c.end
         /\ Fixed(stream[e.at + 1]).packetCount = h.packetCount
         /\ Numbered(stream, e.at, w, h, c) /\ SamplesIn(e.at, w, c, order)
         /\ e.samples = SignalSamples(w, scale, order) /\ IsPacket(w, h, order)
         /\ SameHeader(h, c.header)
    BY <1>2, <1>4, <1>6, <1>7, <1>8, <1>9
  <1> QED
    BY <1>10 DEF e, c

(* The result before the i-th one, unless the i-th begins its call, is one *)
(* of the same call.                                                       *)
LEMMA ResultBefore ==
    ASSUME Inv, NEW n \in DOMAIN calls, NEW i \in DOMAIN parsed, ResultOf(i, n), parsed[i].at \in Nat,
           Inside(parsed[i].at, calls[n]), parsed[i].at # calls[n].first
    PROVE  i > 1 /\ i - 1 \in DOMAIN parsed /\ ResultOf(i - 1, n) /\ After(parsed, reader, i - 1) = parsed[i].at
  <1> DEFINE j == i - 1
  <1>1. /\ DOMAIN parsed = 1 .. Len(parsed) /\ DOMAIN calls = 1 .. Len(calls) /\ Len(parsed) \in Nat
        /\ CallsOK(calls, stream)
    BY Domains
  <1>2. /\ parsed # <<>> => parsed[1].at = 0
    BY DEF Inv, PlacesOK, ReaderOK
  <1>3. /\ calls[n].first \in Nat /\ calls[n].end \in Nat /\ calls[n].first < parsed[i].at /\ parsed[i].at < calls[n].end
    BY <1>1, CallOrder DEF Inside
  <1>4. i > 1
    <2>1. i = 1 => parsed[i].at = 0
      <3>1. parsed # <<>>
        BY <1>1
      <3> QED
        BY <1>2, <3>1
    <2> QED
      BY <1>1, <1>3, <2>1
  <1>5. j \in DOMAIN parsed /\ j # Len(parsed) /\ j + 1 = i
    BY <1>1, <1>4
  <1>6. After(parsed, reader, j) = parsed[i].at
    BY <1>5 DEF After
  <1> HIDE DEF j
  <1>7. PICK m \in DOMAIN calls : ResultOf(j, m)
    BY <1>5, Results
  <1>8. PICK S, w, h : EntryIn(parsed[j], After(parsed, reader, j), S, calls[m], stream, scale, order, w, h)
    BY <1>7 DEF ResultOf
  <1>9. /\ Inside(parsed[j].at, calls[m]) /\ parsed[j].at + Len(w) = parsed[i].at
        /\ PacketIn(stream, parsed[j].at, S, calls[m], order, w, h)
    BY <1>6, <1>8 DEF EntryIn
  <1>10. parsed[i].at <= calls[m].end /\ calls[m].first <= parsed[j].at /\ parsed[j].at < calls[m].end
    BY <1>9 DEF PacketIn, Inside
  <1>11. /\ calls[m].first \in Nat /\ calls[m].end \in Nat
         /\ (m < n => calls[m].end <= calls[n].first) /\ (n < m => calls[n].end <= calls[m].first)
         /\ (m # n => m < n \/ n < m)
    BY <1>1, CallOrder
  <1>12. ~ (m < n)
    BY <1>3, <1>10, <1>11
  <1>13. ~ (n < m)
    <2> SUFFICES ASSUME n < m
                 PROVE  FALSE
      OBVIOUS
    <2>1. Len(w) \in Nat
      BY <1>9, PacketFixed DEF PacketIn
    <2>2. parsed[j].at \in Int
      <3>1. PICK U : PlacesOK(U, reader, parsed, calls, stream, scale, order)
        BY DEF Inv
      <3>2. PICK q \in 1 .. Len(calls) : Entry(parsed[j], After(parsed, reader, j), U, calls[q], stream, scale, order)
        BY <1>1, <1>5, <3>1 DEF PlacesOK, EntriesOK
      <3>3. parsed[j].at \in U /\ U \subseteq 0 .. Len(stream) /\ Len(stream) \in Nat
        BY <1>1, <3>1, <3>2 DEF Entry, EntryIn, PlacesOK, Cut, CallsOK
      <3>4. parsed[j].at \in 0 .. Len(stream)
        BY <3>3
      <3>5. \A k \in 0 .. Len(stream) : k \in Int
        BY <3>3
      <3> QED
        BY <3>4, <3>5
    <2> QED
      BY <1>3, <1>9, <1>10, <1>11, <2>1, <2>2
  <1>14. m = n
    BY <1>11, <1>12, <1>13
  <1> QED
    BY <1>4, <1>5, <1>6, <1>7, <1>14 DEF j

(* The packets of one encodeSignalData() call carry consecutive counts     *)
(* modulo 16, and all but the last of them are as long as a packet can be. *)
THEOREM NumbersHold == Spec => []PacketsNumbered
  <1>1. Inv => PacketsNumbered
    <2> SUFFICES ASSUME Inv, NEW n \in DOMAIN calls, NEW i \in DOMAIN parsed,
                        calls[n].kind = "SignalData", Of(parsed[i], calls[n])
                 PROVE  /\ IF parsed[i].at = calls[n].first
                           THEN parsed[i].header.packetCount = calls[n].header.packetCount
                           ELSE i > 1 /\ parsed[i].header.packetCount = (parsed[i - 1].header.packetCount + 1) % 16
                        /\ parsed[i].at + parsed[i].header.packetSize < calls[n].end =>
                             parsed[i].header.packetSize = MaxPacketSizeWords
      BY DEF PacketsNumbered
    <2>1. ResultOf(i, n)
      BY Results
    <2>2. PICK w, h :
            /\ parsed[i].header = h /\ h.packetSize = Len(w) /\ parsed[i].at \in Nat /\ Inside(parsed[i].at, calls[n])
            /\ Fixed(stream[parsed[i].at + 1]).packetCount = h.packetCount
            /\ Numbered(stream, parsed[i].at, w, h, calls[n])
      BY <2>1, SignalResult
    <2>3. parsed[i].at + h.packetSize < calls[n].end => h.packetSize = MaxPacketSizeWords
      BY <2>2 DEF Numbered
    <2>4. parsed[i].at = calls[n].first => h.packetCount = calls[n].header.packetCount
      BY <2>2 DEF Numbered
    <2>5. ASSUME parsed[i].at # calls[n].first
          PROVE  i > 1 /\ h.packetCount = (parsed[i - 1].header.packetCount + 1) % 16
      <3> DEFINE j == i - 1
      <3>1. i > 1 /\ j \in DOMAIN parsed /\ ResultOf(j, n) /\ After(parsed, reader, j) = parsed[i].at
        BY <2>1, <2>2, <2>5, ResultBefore
      <3> HIDE DEF j
      <3>2. PICK v, g :
              /\ parsed[j].header = g /\ parsed[j].at + Len(v) = parsed[i].at
              /\ Numbered(stream, parsed[j].at, v, g, calls[n])
        BY <3>1, SignalResult
      <3>3. parsed[i].at < calls[n].end
        BY <2>2 DEF Inside
      <3>4. Fixed(stream[parsed[i].at + 1]).packetCount = (g.packetCount + 1) % 16
        BY <3>2, <3>3 DEF Numbered
      <3> QED
        BY <2>2, <3>1, <3>2, <3>4 DEF j
    <2> QED
      BY <2>2, <2>3, <2>4, <2>5
  <1> QED
    BY <1>1, Invariant, PTL

-----------------------------------------------------------------------------
(* The samples of a call. *)

(* Multiples of the size of a packet. *)
LEMMA SameMultiple ==
    ASSUME NEW m \in Nat, NEW k \in Nat, NEW M \in Nat, M >= 1, m * M = k * M
    PROVE  m = k
  <1>1. ASSUME NEW x \in Nat, NEW y \in Nat, x < y
        PROVE  x * M < y * M
    <2>1. PICK d \in Nat : y = x + d /\ d >= 1
      <3>1. y - x \in Nat /\ y = x + (y - x) /\ y - x >= 1
        BY <1>1
      <3> QED
        BY <3>1
    <2>2. y * M = x * M + d * M
      BY <2>1
    <2>3. d * M >= 1 /\ d * M \in Int /\ x * M \in Int
      BY <2>1
    <2> QED
      BY <2>2, <2>3
  <1>2. m * M \in Int
    OBVIOUS
  <1>3. ~ (m < k)
    BY <1>1, <1>2
  <1>4. ~ (k < m)
    BY <1>1, <1>2
  <1> QED
    BY <1>3, <1>4

(* Before the place a lie s samples of the call c. *)
Taken(c, a, s) ==
    /\ s \in Nat /\ s <= Len(c.samples)
    /\ \/ a <= c.first /\ s = 0
       \/ c.first < a /\ a < c.end /\ \E m \in Nat : a = c.first + m * MaxPacketSizeWords /\ s = m * MostOf(c)
       \/ a >= c.end /\ s = Len(c.samples)

(* The samples in the packet w come next. *)
Continued(w, s, c, o) ==
    \A k \in 1 .. InPacket(w, c) : w[SizeInWords(c.header) + k] = SampleWord(c.samples[s + k], c.scale, o)

(* One more packet of the call. *)
LEMMA TakeMore ==
    ASSUME NEW c, c.first \in Nat, c.end \in Nat, c.samples \in Seq(Int \X Int), NEW a \in Nat, Inside(a, c),
           NEW s, Taken(c, a, s), NEW w, NEW words, NEW h, NEW o, Len(w) \in Nat, Len(w) >= 1, a + Len(w) <= c.end,
           SamplesIn(a, w, c, o), Numbered(words, a, w, h, c)
    PROVE  /\ InPacket(w, c) \in Nat /\ Taken(c, a + Len(w), s + InPacket(w, c)) /\ Continued(w, s, c, o)
  <1> DEFINE M == MaxPacketSizeWords
             most == MostOf(c)
             in == InPacket(w, c)
             all == Len(c.samples)
             b == a + Len(w)
  <1>1. c.first <= a /\ a < c.end
    BY DEF Inside
  <1>2. in \in Nat /\ most \in Nat /\ all \in Nat
    BY DEF SamplesIn
  <1>3. PICK m \in Nat :
          /\ a = c.first + m * M
          /\ m * most + in <= all
          /\ b = c.end => m * most + in = all
          /\ \A k \in 1 .. in : w[SizeInWords(c.header) + k] = SampleWord(c.samples[m * most + k], c.scale, o)
    BY DEF SamplesIn
  <1>4. M \in Nat /\ M >= 1
    BY MaxPacketType
  <1>5. b < c.end => Len(w) = M /\ in = most
    BY DEF Numbered, InPacket, MostOf
  <1>6. s \in Nat /\ \/ a <= c.first /\ s = 0
                     \/ \E k \in Nat : a = c.first + k * M /\ s = k * most
    BY <1>1 DEF Taken
  <1> HIDE DEF M, most, in, all, b
  <1>7. s = m * most
    <2>1. CASE a <= c.first /\ s = 0
      <3>1. m * M = 0 * M /\ 0 * most = 0
        <4>1. m * M \in Nat
          BY <1>4
        <4> QED
          BY <1>1, <1>2, <1>3, <1>4, <2>1, <4>1
      <3>2. m = 0
        BY <1>4, <3>1, SameMultiple
      <3> QED
        BY <2>1, <3>1, <3>2
    <2>2. CASE \E k \in Nat : a = c.first + k * M /\ s = k * most
      <3>1. PICK k \in Nat : a = c.first + k * M /\ s = k * most
        BY <2>2
      <3>2. m * M = k * M
        <4>1. m * M \in Nat /\ k * M \in Nat
          BY <1>4
        <4> QED
          BY <1>3, <3>1, <4>1
      <3>3. m = k
        BY <1>4, <3>2, SameMultiple
      <3> QED
        BY <3>1, <3>3
    <2> QED
      BY <1>6, <2>1, <2>2
  <1>8. b \in Nat /\ b > c.first /\ b <= c.end
    BY <1>1 DEF b
  <1>9. Taken(c, b, s + in)
    <2>1. s + in \in Nat /\ s + in <= all
      BY <1>2, <1>3, <1>6, <1>7
    <2>2. CASE b = c.end
      BY <1>3, <1>7, <1>8, <2>1, <2>2 DEF Taken, all
    <2>3. CASE b < c.end
      <3>1. (m + 1) * M = m * M + M /\ (m + 1) * most = m * most + most /\ m * M \in Nat /\ m * most \in Nat /\ m + 1 \in Nat
        BY <1>2, <1>4
      <3>2. b = c.first + (m + 1) * M
        BY <1>3, <1>4, <1>5, <2>3, <3>1 DEF b
      <3>3. s + in = (m + 1) * most
        BY <1>5, <1>7, <2>3, <3>1
      <3>4. \E k \in Nat : b = c.first + k * M /\ s + in = k * most
        BY <3>1, <3>2, <3>3
      <3> QED
        BY <1>8, <2>1, <2>3, <3>4 DEF Taken, all, M, most
    <2> QED
      BY <1>8, <2>2, <2>3
  <1>10. Continued(w, s, c, o)
    BY <1>3, <1>7 DEF Continued, in
  <1> QED
    BY <1>2, <1>9, <1>10 DEF in, b

(* What decode() makes of the samples of a packet. *)
LEMMA PacketSamples ==
    ASSUME NEW w, NEW h, NEW o, IsPacket(w, h, o), h.packetSize = Len(w), NEW c, SameHeader(h, c.header), NEW factor
    PROVE  SignalSamples(w, factor, o) =
             [k \in 1 .. InPacket(w, c) |-> ReadSample(w[SizeInWords(c.header) + k], factor, o)]
  <1> DEFINE f == Fixed(w[1])
  <1>1. f.trailerPresent = h.trailerPresent /\ f.packetSize = h.packetSize /\ SizeInWords(f) = SizeInWords(h)
    BY PacketFixed
  <1>2. h.trailerPresent = c.header.trailerPresent /\ SizeInWords(h) = SizeInWords(c.header)
    BY DEF SameHeader, SizeInWords
  <1>3. SignalSamples(w, factor, o) =
          [k \in 1 .. f.packetSize - SizeInWords(f) - f.trailerPresent |-> ReadSample(w[SizeInWords(f) + k], factor, o)]
    BY DEF SignalSamples
  <1> HIDE DEF f
  <1> QED
    BY <1>1, <1>2, <1>3 DEF InPacket

(* The samples of the results that are packets of the n-th call. *)
SamplesOf(n) == [i \in DOMAIN parsed |-> IF Of(parsed[i], calls[n]) THEN parsed[i].samples ELSE <<>>]

(* They are sequences. *)
LEMMA SamplesSeq ==
    ASSUME Inv, NEW n \in DOMAIN calls, calls[n].kind = "SignalData"
    PROVE  /\ \E W : SamplesOf(n) \in Seq(Seq(W))
           /\ Len(SamplesOf(n)) = Len(parsed)
  <1> DEFINE W == {parsed[i].samples[k] : i \in DOMAIN parsed, k \in Nat}
             f == SamplesOf(n)
  <1>1. DOMAIN parsed = 1 .. Len(parsed) /\ Len(parsed) \in Nat
    BY Domains
  <1>2. ASSUME NEW i \in DOMAIN parsed
        PROVE  f[i] \in Seq(W)
    <2>1. CASE ~ Of(parsed[i], calls[n])
      <3>1. f[i] = <<>>
        BY <2>1 DEF SamplesOf
      <3> QED
        BY <3>1
    <2>2. CASE Of(parsed[i], calls[n])
      <3>1. f[i] = parsed[i].samples
        BY <2>2 DEF SamplesOf
      <3>2. ResultOf(i, n)
        BY <2>2, Results
      <3>3. PICK w, h : /\ h.packetSize = Len(w) /\ SamplesIn(parsed[i].at, w, calls[n], order)
                        /\ parsed[i].samples = SignalSamples(w, scale, order) /\ IsPacket(w, h, order)
                        /\ SameHeader(h, calls[n].header)
        BY <3>2, SignalResult
      <3> DEFINE N == InPacket(w, calls[n])
                 G(k) == ReadSample(w[SizeInWords(calls[n].header) + k], scale, order)
      <3>4. N \in Nat
        BY <3>3 DEF SamplesIn
      <3>5. parsed[i].samples = [k \in 1 .. N |-> G(k)]
        BY <3>3, PacketSamples
      <3> HIDE DEF N, G
      <3>6. \A k \in 1 .. N : parsed[i].samples[k] \in W
        BY <3>4
      <3>7. parsed[i].samples \in [1 .. N -> W]
        <4>1. DOMAIN parsed[i].samples = 1 .. N /\ parsed[i].samples = [k \in 1 .. N |-> parsed[i].samples[k]]
          BY <3>5
        <4> HIDE DEF W
        <4> QED
          BY <3>6, <4>1
      <3> HIDE DEF W
      <3> QED
        BY <3>1, <3>4, <3>7
    <2> QED
      BY <2>1, <2>2
  <1> HIDE DEF W
  <1>3. f = [i \in 1 .. Len(parsed) |-> f[i]] /\ DOMAIN f = 1 .. Len(parsed)
    BY <1>1 DEF SamplesOf
  <1> HIDE DEF f
  <1>4. f \in [1 .. Len(parsed) -> Seq(W)]
    BY <1>1, <1>2, <1>3
  <1>5. f \in Seq(Seq(W)) /\ Len(f) = Len(parsed)
    BY <1>1, <1>4
  <1> QED
    BY <1>5 DEF f

(* y is x, read back. *)
Restored(x, y, factor) ==
    \A part \in 1 .. 2 : FitsInt(x[part] * factor) =>
        Closest(x[part] * factor, y[part] * factor, - 2 ^ HalfBits, 2 ^ HalfBits - 2)

(* Where the i-th result begins, or the last one ends. *)
Place(i) == IF i = Len(parsed) + 1 THEN reader.offset ELSE parsed[i].at

(* The first i - 1 results hold the first st[i] samples of the n-th call. *)
Upto(n, got, st, i) ==
    /\ Taken(calls[n], Place(i), st[i])
    /\ \A j \in 1 .. st[i] : Restored(calls[n].samples[j], got[j], scale)

(* A result of another call. *)
LEMMA PastOther ==
    ASSUME NEW c, c.first \in Nat, c.end \in Nat, c.first < c.end, NEW a \in Nat, NEW b \in Nat, a < b, NEW s, Taken(c, a, s),
           b <= c.first \/ c.end <= a
    PROVE  Taken(c, b, s)
  <1>1. CASE b <= c.first
    BY <1>1 DEF Taken
  <1>2. CASE c.end <= a
    BY <1>2 DEF Taken
  <1> QED
    BY <1>1, <1>2

(* One more result. *)
LEMMA OneMore ==
    ASSUME Inv, NEW n \in DOMAIN calls, calls[n].kind = "SignalData", calls[n].scale = scale, scale # 0,
           NEW got, NEW st, Parts(got, SamplesOf(n), st), NEW i \in DOMAIN parsed, Upto(n, got, st, i)
    PROVE  Upto(n, got, st, i + 1)
  <1> DEFINE c == calls[n]
             a == parsed[i].at
             b == Place(i + 1)
             s == st[i]
  <1>1. /\ DOMAIN parsed = 1 .. Len(parsed) /\ DOMAIN calls = 1 .. Len(calls) /\ Len(parsed) \in Nat /\ CallsOK(calls, stream)
    BY Domains
  <1>2. Place(i) = a /\ b = After(parsed, reader, i)
    BY <1>1 DEF Place, After
  <1>3. /\ c.first \in Nat /\ c.end \in Nat /\ c.first < c.end /\ c.samples \in Seq(Int \X Int) /\ Len(c.samples) \in Nat
    BY <1>1 DEF CallsOK, CallOK
  <1>4. Taken(c, a, s) /\ \A j \in 1 .. s : Restored(c.samples[j], got[j], scale)
    BY <1>2 DEF Upto
  <1>5. s \in Nat
    BY <1>4 DEF Taken
  <1>6. Len(SamplesOf(n)) = Len(parsed)
    BY SamplesSeq
  <1>7. /\ st[i + 1] = s + Len(SamplesOf(n)[i]) /\ \A k \in 1 .. Len(SamplesOf(n)[i]) : got[s + k] = SamplesOf(n)[i][k]
    BY <1>1, <1>6 DEF Parts
  <1>8. SamplesOf(n)[i] = IF Of(parsed[i], c) THEN parsed[i].samples ELSE <<>>
    BY DEF SamplesOf
  <1> HIDE DEF c, a, b, s
  <1>9. CASE Of(parsed[i], calls[n])
    <2>1. ResultOf(i, n)
      BY <1>9, Results
    <2>2. PICK w, h :
            /\ h.packetSize = Len(w) /\ Len(w) \in Nat /\ Len(w) >= 1
            /\ a \in Nat /\ Inside(a, c) /\ a + Len(w) = b /\ a + Len(w) <= c.end
            /\ Numbered(stream, a, w, h, c) /\ SamplesIn(a, w, c, order)
            /\ parsed[i].samples = SignalSamples(w, scale, order) /\ IsPacket(w, h, order)
            /\ SameHeader(h, c.header)
      BY <1>2, <2>1, SignalResult DEF a, c
    <2> DEFINE in == InPacket(w, c)
               z == SizeInWords(c.header)
    <2>3. in \in Nat /\ Taken(c, b, s + in) /\ Continued(w, s, c, order)
      BY <1>3, <1>4, <2>2, TakeMore
    <2>4. parsed[i].samples = [k \in 1 .. in |-> ReadSample(w[z + k], scale, order)]
      BY <2>2, PacketSamples
    <2>5. \A k \in 1 .. in : w[z + k] = SampleWord(c.samples[s + k], scale, order)
      BY <2>3 DEF Continued, c
    <2> HIDE DEF in, z
    <2>6. SamplesOf(n)[i] = parsed[i].samples
      BY <1>8, <1>9 DEF c
    <2>7. Len(parsed[i].samples) = in
      <3>1. \A f : f = [k \in 1 .. in |-> ReadSample(w[z + k], scale, order)] => Len(f) = in
        BY <2>3
      <3> QED
        BY <2>4, <3>1
    <2>8. st[i + 1] = s + in
      BY <1>7, <2>6, <2>7
    <2>9. \A k \in 1 .. in : got[s + k] = ReadSample(SampleWord(c.samples[s + k], scale, order), scale, order)
      <3>1. \A k \in 1 .. in : got[s + k] = parsed[i].samples[k]
        BY <1>7, <2>6, <2>7
      <3>2. \A k \in 1 .. in : parsed[i].samples[k] = ReadSample(w[z + k], scale, order)
        BY <2>4
      <3> QED
        BY <2>5, <3>1, <3>2
    <2>10. s + in <= Len(c.samples)
      BY <2>3 DEF Taken
    <2>11. ASSUME NEW k \in 1 .. in
           PROVE  Restored(c.samples[s + k], got[s + k], scale)
      <3> DEFINE x == c.samples[s + k]
      <3>1. s + k \in 1 .. Len(c.samples)
        <4>1. \A all \in Nat : s + in <= all => s + k \in 1 .. all
          BY <1>5, <2>3
        <4> QED
          BY <1>3, <2>10, <4>1
      <3>2. x \in Int \X Int
        BY <1>3, <3>1
      <3>3. scale \in 1 .. 2 /\ order \in ByteOrder
        BY CodecAssumption DEF Inv
      <3> HIDE DEF x
      <3>4. Restored(x, ReadSample(SampleWord(x, scale, order), scale, order), scale)
        BY <3>2, <3>3, SampleRoundTrip DEF Restored
      <3> QED
        BY <2>9, <3>4 DEF x
    <2>12. ASSUME NEW j \in 1 .. st[i + 1]
           PROVE  Restored(c.samples[j], got[j], scale)
      <3>1. CASE j <= s
        <4>1. j \in 1 .. s
          BY <1>5, <2>3, <2>8, <3>1
        <4> QED
          BY <1>4, <4>1
      <3>2. CASE j > s
        <4>1. j - s \in 1 .. in /\ s + (j - s) = j
          BY <1>5, <2>3, <2>8, <3>2
        <4> QED
          BY <2>11, <4>1
      <3> QED
        BY <1>5, <2>3, <2>8, <3>1, <3>2
    <2> QED
      BY <2>3, <2>8, <2>12 DEF Upto, b, c
  <1>10. CASE ~ Of(parsed[i], calls[n])
    <2>1. st[i + 1] = s
      <3>1. SamplesOf(n)[i] = <<>>
        BY <1>8, <1>10 DEF c
      <3> QED
        BY <1>5, <1>7, <3>1
    <2>2. PICK m \in DOMAIN calls : ResultOf(i, m)
      BY Results
    <2>3. PICK S, w, h : EntryIn(parsed[i], b, S, calls[m], stream, scale, order, w, h)
      BY <1>2, <2>2 DEF ResultOf
    <2>4. Inside(a, calls[m]) /\ a + Len(w) = b /\ PacketIn(stream, a, S, calls[m], order, w, h)
      BY <2>3 DEF EntryIn, a
    <2>5. b <= calls[m].end /\ calls[m].first <= a /\ a < calls[m].end /\ Len(w) \in Nat /\ Len(w) >= 1
      BY <2>4, PacketFixed DEF PacketIn, Inside
    <2>6. m # n
      BY <1>10, <2>4 DEF Of, Inside, a
    <2>7. /\ calls[m].first \in Nat /\ calls[m].end \in Nat
          /\ (m < n => calls[m].end <= c.first) /\ (n < m => c.end <= calls[m].first)
          /\ (m < n \/ n < m)
      BY <1>1, <2>6, CallOrder DEF c
    <2>8. a \in Nat /\ b \in Nat /\ a < b
      <3>1. PICK U : PlacesOK(U, reader, parsed, calls, stream, scale, order)
        BY DEF Inv
      <3>2. PICK q \in 1 .. Len(calls) : Entry(parsed[i], After(parsed, reader, i), U, calls[q], stream, scale, order)
        BY <1>1, <3>1 DEF PlacesOK, EntriesOK
      <3>3. a \in U /\ U \subseteq 0 .. Len(stream) /\ Len(stream) \in Nat
        BY <1>1, <3>1, <3>2 DEF Entry, EntryIn, PlacesOK, Cut, CallsOK, a
      <3>4. a \in 0 .. Len(stream)
        BY <3>3
      <3>5. \A k \in 0 .. Len(stream) : k \in Nat
        BY <3>3
      <3>6. a \in Nat
        BY <3>4, <3>5
      <3> QED
        BY <2>4, <2>5, <3>6
    <2>9. b <= c.first \/ c.end <= a
      BY <1>3, <2>5, <2>7, <2>8
    <2>10. Taken(c, b, s)
      BY <1>3, <1>4, <2>8, <2>9, PastOther
    <2> QED
      BY <1>4, <2>1, <2>10 DEF Upto, b, c
  <1> QED
    BY <1>9, <1>10

(* All results. *)
LEMMA AllTaken ==
    ASSUME Inv, NEW n \in DOMAIN calls, calls[n].kind = "SignalData", calls[n].scale = scale, scale # 0,
           NEW got, NEW st, Parts(got, SamplesOf(n), st)
    PROVE  Upto(n, got, st, Len(parsed) + 1) /\ st[Len(parsed) + 1] = Len(got)
  <1> DEFINE N == Len(parsed)
             T == {k \in Nat : k <= N => Upto(n, got, st, k + 1)}
  <1>1. /\ DOMAIN parsed = 1 .. N /\ N \in Nat /\ CallsOK(calls, stream) /\ DOMAIN calls = 1 .. Len(calls)
    BY Domains
  <1>2. Len(SamplesOf(n)) = N
    BY SamplesSeq
  <1>3. st[1] = 0 /\ st[N + 1] = Len(got)
    BY <1>2 DEF Parts
  <1>4. 0 \in T
    <2>1. Place(1) = 0
      <3>1. (parsed = <<>> => reader.offset = 0) /\ (parsed # <<>> => parsed[1].at = 0) /\ IsSeq(parsed)
        BY DEF Inv, PlacesOK, ReaderOK
      <3>2. parsed = <<>> <=> N = 0
        BY <3>1 DEF IsSeq
      <3> QED
        BY <1>1, <3>1, <3>2 DEF Place
    <2>2. calls[n].first \in Nat /\ Len(calls[n].samples) \in Nat
      BY <1>1 DEF CallsOK, CallOK
    <2>3. Taken(calls[n], Place(1), st[1])
      BY <1>3, <2>1, <2>2 DEF Taken
    <2>4. Upto(n, got, st, 1)
      BY <1>3, <2>3 DEF Upto
    <2> QED
      BY <2>4
  <1>5. ASSUME NEW k \in Nat, k \in T
        PROVE  k + 1 \in T
    <2> SUFFICES ASSUME k + 1 <= N
                 PROVE  Upto(n, got, st, (k + 1) + 1)
      OBVIOUS
    <2>1. k + 1 \in DOMAIN parsed /\ Upto(n, got, st, k + 1)
      BY <1>1, <1>5
    <2> QED
      BY <2>1, OneMore
  <1> HIDE DEF T
  <1>6. Nat \subseteq T
    BY <1>4, <1>5, SetInduction
  <1>7. N \in T
    BY <1>1, <1>6
  <1> QED
    BY <1>1, <1>3, <1>7 DEF T

(* The samples of a call are restored. *)
SamplesBack(n) ==
    LET got == FlattenSeq(SamplesOf(n))
    IN  /\ Len(got) <= Len(calls[n].samples)
        /\ reader.offset >= calls[n].end => Len(got) = Len(calls[n].samples)
        /\ \A i \in DOMAIN got : Restored(calls[n].samples[i], got[i], scale)

(* The samples of a call, none lost, doubled or out of order. *)
LEMMA SamplesInv ==
    ASSUME Inv, NEW n \in DOMAIN calls, calls[n].kind = "SignalData", calls[n].scale = scale, scale # 0
    PROVE  SamplesBack(n)
  <1> DEFINE got == FlattenSeq(SamplesOf(n))
             c == calls[n]
             N == Len(parsed)
  <1>1. /\ DOMAIN parsed = 1 .. N /\ N \in Nat /\ CallsOK(calls, stream) /\ DOMAIN calls = 1 .. Len(calls)
    BY Domains
  <1>2. PICK W : SamplesOf(n) \in Seq(Seq(W))
    BY SamplesSeq
  <1>3. Len(SamplesOf(n)) = N
    BY SamplesSeq
  <1>4. /\ c.first \in Nat /\ c.end \in Nat /\ c.first < c.end /\ Len(c.samples) \in Nat
    BY <1>1 DEF CallsOK, CallOK
  <1>5. reader.offset \in Nat
    BY DEF Inv, PlacesOK, ReaderOK
  <1>6. CASE N = 0
    <2>1. SamplesOf(n) = <<>> /\ got = <<>>
      <3>1. SamplesOf(n) = <<>>
        BY <1>2, <1>3, <1>6
      <3> QED
        BY <3>1 DEF FlattenSeq
    <2>2. reader.offset = 0
      <3>1. (parsed = <<>> => reader.offset = 0) /\ IsSeq(parsed)
        BY DEF Inv, PlacesOK, ReaderOK
      <3> QED
        BY <1>6, <3>1 DEF IsSeq
    <2> HIDE DEF got
    <2>3. Len(got) = 0 /\ DOMAIN got = {} /\ ~ (reader.offset >= c.end)
      BY <1>4, <2>1, <2>2
    <2> QED
      BY <1>4, <2>3 DEF SamplesBack, got
  <1>7. CASE N # 0
    <2>1. got \in Seq(W) /\ \E st : Parts(got, SamplesOf(n), st)
      BY <1>2, <1>3, <1>7, FlattenParts
    <2>2. PICK st : Parts(got, SamplesOf(n), st)
      BY <2>1
    <2> HIDE DEF got
    <2>3. Upto(n, got, st, N + 1) /\ st[N + 1] = Len(got)
      BY <2>2, AllTaken
    <2>4. Taken(c, reader.offset, Len(got)) /\ \A j \in 1 .. Len(got) : Restored(c.samples[j], got[j], scale)
      BY <2>3 DEF Upto, Place
    <2>5. Len(got) <= Len(c.samples) /\ (reader.offset >= c.end => Len(got) = Len(c.samples))
      BY <1>4, <1>5, <2>4 DEF Taken
    <2>6. DOMAIN got = 1 .. Len(got)
      BY <2>1
    <2> QED
      BY <2>4, <2>5, <2>6 DEF SamplesBack, got
  <1> QED
    BY <1>6, <1>7

(* encodeSignalData() splits samples over packets and parseStream() puts   *)
(* them together: those of the packets parsed so far are the first of what *)
(* was given, all of them once the call is passed, each the closest value  *)
(* of its width, full scale if it is beyond, if it fits an int.            *)
THEOREM SamplesHold == Spec => []SamplesSurvive
  <1>1. Inv => SamplesSurvive
    <2>1. ASSUME \A n \in DOMAIN calls :
                   calls[n].kind = "SignalData" /\ calls[n].scale = scale /\ scale # 0 => SamplesBack(n)
          PROVE  SamplesSurvive
      BY <2>1 DEF SamplesSurvive, Recovered, SameValue, SamplesBack, SamplesOf, Restored
    <2> QED
      BY <2>1, SamplesInv
  <1> QED
    BY <1>1, Invariant, PTL
-----------------------------------------------------------------------------
(* Values that were read need no rounding when they are encoded again. *)

(* FlattenSeq with one more sequence at the end. *)
LEMMA FlattenMore ==
    ASSUME NEW W, NEW seqs \in Seq(Seq(W)), NEW x \in Seq(W)
    PROVE  FlattenSeq(Append(seqs, x)) = FlattenSeq(seqs) \o x /\ FlattenSeq(seqs) \in Seq(W)
  <1> DEFINE n == Len(seqs)
             more == Append(seqs, x)
  <1>1. n \in Nat /\ Len(more) = n + 1 /\ more[n + 1] = x /\ \A i \in 1 .. n : more[i] = seqs[i]
    OBVIOUS
  <1>2. PICK g : Flat(g, more, n + 1) /\ FlattenSeq(more) = g[n + 1]
    <2> HIDE DEF more
    <2>1. Len(more) \in Nat /\ Len(more) # 0
      BY <1>1
    <2> QED
      BY <1>1, <2>1, FlattenIsFlat
  <1> HIDE DEF more
  <1>3. CASE n = 0
    <2>1. seqs = <<>>
      BY <1>3
    <2>2. FlattenSeq(seqs) = <<>>
      BY <2>1 DEF FlattenSeq
    <2>3. g[n + 1] = x
      <3>1. n + 1 \in 1 .. n + 1 /\ n + 1 = 1 /\ n + 1 \in Nat
        BY <1>3
      <3>2. g[n + 1] = more[n + 1]
        BY <1>2, <3>1, FlatAt
      <3> QED
        BY <1>1, <3>2
    <2> QED
      BY <1>2, <2>2, <2>3 DEF more
  <1>4. CASE n # 0
    <2>1. PICK f : Flat(f, seqs, n) /\ FlattenSeq(seqs) = f[n]
      BY <1>1, <1>4, FlattenIsFlat
    <2> DEFINE T == {k \in Nat : k + 1 <= n => g[k + 1] = f[k + 1]}
    <2>2. 0 \in T
      <3>1. 1 \in 1 .. n /\ 1 \in 1 .. n + 1 /\ n + 1 \in Nat
        BY <1>1, <1>4
      <3>2. f[1] = seqs[1] /\ g[1] = more[1]
        BY <1>1, <1>2, <2>1, <3>1, FlatAt
      <3> QED
        BY <1>1, <3>1, <3>2
    <2>3. ASSUME NEW k \in Nat, k \in T
          PROVE  k + 1 \in T
      <3> SUFFICES ASSUME (k + 1) + 1 <= n
                   PROVE  g[(k + 1) + 1] = f[(k + 1) + 1]
        OBVIOUS
      <3> DEFINE i == k + 2
      <3>1. i \in 1 .. n /\ i \in 1 .. n + 1 /\ i # 1 /\ i - 1 = k + 1 /\ n + 1 \in Nat /\ k + 1 <= n /\ i = (k + 1) + 1
        BY <1>1
      <3> HIDE DEF i
      <3>2. f[i] = f[i - 1] \o seqs[i] /\ g[i] = g[i - 1] \o more[i]
        <4>1. f[i] = IF i = 1 THEN seqs[i] ELSE f[i - 1] \o seqs[i]
          <5>1. n \in Nat /\ Flat(f, seqs, n) /\ i \in 1 .. n
            BY <1>1, <2>1, <3>1
          <5> HIDE DEF n
          <5> QED
            BY <5>1, FlatAt
        <4>2. g[i] = IF i = 1 THEN more[i] ELSE g[i - 1] \o more[i]
          BY <1>2, <3>1, FlatAt
        <4> QED
          BY <3>1, <4>1, <4>2
      <3>3. g[i - 1] = f[i - 1]
        BY <2>3, <3>1
      <3> QED
        BY <1>1, <3>1, <3>2, <3>3
    <2> HIDE DEF T
    <2>4. n - 1 \in T
      <3>1. n - 1 \in Nat
        BY <1>1, <1>4
      <3> QED
        BY <2>2, <2>3, <3>1, SetInduction
    <2>5. g[n] = f[n]
      <3>1. (n - 1) + 1 = n /\ n <= n
        BY <1>1
      <3> QED
        BY <2>4, <3>1 DEF T
    <2>6. g[n + 1] = g[n] \o x
      <3>1. n + 1 \in 1 .. n + 1 /\ n + 1 # 1 /\ (n + 1) - 1 = n /\ n + 1 \in Nat
        BY <1>1, <1>4
      <3>2. g[n + 1] = g[(n + 1) - 1] \o more[n + 1]
        BY <1>2, <3>1, FlatAt
      <3> QED
        BY <1>1, <3>1, <3>2
    <2>7. FlattenSeq(seqs) \in Seq(W)
      BY <1>4, FlattenParts
    <2> QED
      BY <1>2, <2>1, <2>5, <2>6, <2>7 DEF more
  <1> QED
    BY <1>1, <1>3, <1>4

(* Twice a whole number: a value that needs no rounding. *)
Even(v) == \E k \in Int : v = 2 * k

(* A value of two words, in either byte order. *)
LEMMA DWordType ==
    ASSUME NEW a \in Word, NEW c \in Word, NEW o
    PROVE  \E hi \in Word, lo \in Word : DWord(<<a, c>>, o) = <<hi, lo>>
  <1>1. Reverse(<<a, c>>) = <<c, a>>
    BY DEF Reverse
  <1> QED
    BY <1>1 DEF DWord

(* A quotient. *)
LEMMA DivExact ==
    ASSUME NEW q \in Int, NEW W \in Nat, W > 0, NEW r \in 0 .. W - 1
    PROVE  (q * W + r) \div W = q
  <1> DEFINE n == q * W + r
             d == n \div W
             m == n % W
  <1>1. n \in Int /\ r \in Int /\ 0 <= r /\ r < W /\ q * W \in Int
    OBVIOUS
  <1>2. d \in Int /\ m \in 0 .. W - 1 /\ n = d * W + m
    BY <1>1, DivMod
  <1> HIDE DEF d, m
  <1>3. (d - q) * W = r - m /\ r - m < W /\ r - m > - W
    <2>1. q * W + r = d * W + m
      BY <1>2
    <2>2. (d - q) * W = d * W - q * W
      BY <1>2
    <2> HIDE DEF n
    <2> QED
      BY <1>1, <1>2, <2>1, <2>2
  <1> HIDE DEF n
  <1>4. ~ (d - q >= 1)
    <2> SUFFICES ASSUME d - q >= 1
                 PROVE  FALSE
      OBVIOUS
    <2>1. PICK e \in Nat : d - q = 1 + e
      <3>1. (d - q) - 1 \in Nat /\ d - q = 1 + ((d - q) - 1)
        BY <1>2
      <3> QED
        BY <3>1
    <2>2. (1 + e) * W = W + e * W /\ e * W \in Nat
      BY <2>1
    <2> QED
      BY <1>1, <1>2, <1>3, <2>1, <2>2
  <1>5. ~ (d - q <= -1)
    <2> SUFFICES ASSUME d - q <= -1
                 PROVE  FALSE
      OBVIOUS
    <2>1. PICK e \in Nat : d - q = -1 - e
      <3>1. (-1) - (d - q) \in Nat /\ d - q = -1 - ((-1) - (d - q))
        BY <1>2
      <3> QED
        BY <3>1
    <2>2. (-1 - e) * W = (- W) - e * W /\ e * W \in Nat
      BY <2>1
    <2> QED
      BY <1>1, <1>2, <1>3, <2>1, <2>2
  <1> QED
    BY <1>2, <1>4, <1>5 DEF d, n

(* Twice a whole number is rounded to it. *)
LEMMA RoundEven ==
    ASSUME NEW k \in Int
    PROVE  Round(2 * k) = k
  BY DEF Round

(* A number of the given width, with its sign. *)
LEMMA SignedRange ==
    ASSUME NEW width \in 1 .. WordBits, NEW n \in 0 .. 2 ^ width - 1
    PROVE  Signed(n, width) \in - 2 ^ (width - 1) .. 2 ^ (width - 1) - 1 /\ Signed(n, width) \in Int
  <1> DEFINE t == 2 ^ (width - 1)
             M == 2 ^ width
  <1>1. t \in Nat /\ M = 2 * t
    <2>1. width \in Int /\ width - 1 \in 0 .. WordBits /\ (width - 1) + 1 = width /\ WordBits = SizeBits + 16
      BY WordBitsType DEF WordBits
    <2>2. 2 ^ ((width - 1) + 1) = 2 * 2 ^ (width - 1)
      BY <2>1, PowersOfTwo
    <2> QED
      BY <2>1, <2>2, PowerType
  <1>2. Signed(n, width) = IF n >= t THEN n - M ELSE n
    BY DEF Signed
  <1>3. n \in 0 .. M - 1
    OBVIOUS
  <1> HIDE DEF t, M
  <1>4. Signed(n, width) \in - t .. t - 1
    BY <1>1, <1>2, <1>3
  <1>5. Signed(n, width) \in Int
    BY <1>1, <1>4
  <1> QED
    BY <1>4, <1>5 DEF t

(* The bits of a half of a word. *)
LEMMA HalfRange ==
    ASSUME NEW word \in Word, NEW low \in {0, HalfBits}
    PROVE  Bits(word, low, HalfBits) \in 0 .. 2 ^ HalfBits - 1
  <1> DEFINE M == 2 ^ HalfBits
             L == 2 ^ low
  <1>1. word \in Nat /\ M \in Nat /\ M > 0 /\ L \in Nat /\ L > 0
    <2>1. HalfBits \in 0 .. WordBits /\ low \in 0 .. WordBits
      BY WordBitsType
    <2>2. word \in Nat
      BY WordPowers DEF Word
    <2> QED
      BY <2>1, <2>2, PowerType
  <1> HIDE DEF M, L
  <1>2. word \div L \in Nat
    BY <1>1
  <1>3. (word \div L) % M \in 0 .. M - 1
    BY <1>1, <1>2
  <1> QED
    BY <1>3 DEF Bits, M, L

(* The samples that decode() reads: they are stored as they were. *)
LEMMA SampleAgain ==
    ASSUME NEW word \in Word, NEW factor \in 1 .. 2, NEW o, NEW s, s = ReadSample(word, factor, o)
    PROVE  s \in Int \X Int /\ ReadSample(SampleWord(s, factor, o), factor, o) = s
  <1> DEFINE t == 2 ^ (HalfBits - 1)
             u == Signed(Bits(word, HalfBits, HalfBits), HalfBits)
             l == Signed(Bits(word, 0, HalfBits), HalfBits)
             Value(k) == (2 * k) \div factor
  <1>1. t \in Nat /\ t > 0 /\ 2 ^ HalfBits = 2 * t
    BY HalfPowers
  <1>2. u \in - t .. t - 1 /\ l \in - t .. t - 1
    <2>1. HalfBits \in 1 .. WordBits
      BY WordBitsType
    <2>2. /\ Bits(word, HalfBits, HalfBits) \in 0 .. 2 ^ HalfBits - 1
          /\ Bits(word, 0, HalfBits) \in 0 .. 2 ^ HalfBits - 1
      BY HalfRange
    <2> QED
      BY <2>1, <2>2, SignedRange
  <1>3. s = IF o = "BigEndian" THEN <<Value(u), Value(l)>> ELSE <<Value(l), Value(u)>>
    BY DEF ReadSample
  <1> HIDE DEF u, l
  <1>4. ASSUME NEW k \in - t .. t - 1
        PROVE  Value(k) \in Int /\ Value(k) * factor = 2 * k /\ Quantise(2 * k) = k
    <2>1. factor = 1 \/ factor = 2
      OBVIOUS
    <2>2. k \in Int /\ - t <= k /\ k <= t - 1
      BY <1>1, <1>4
    <2>3. Value(k) \in Int /\ Value(k) * factor = 2 * k
      BY <2>1, <2>2
    <2>4. Round(2 * k) = k
      BY <2>2 DEF Round
    <2>5. FitsInt(2 * k)
      BY <1>1, <2>2, <2>4, IntPowers DEF FitsInt
    <2>6. Signed(Round(2 * k) % 2 ^ IntBits, IntBits) = k
      <3>1. 2 * k \in Int
        BY <2>2
      <3> QED
        BY <2>4, <2>5, <3>1, CutToInt
    <2>7. Quantise(2 * k) = k
      BY <1>1, <2>2, <2>6 DEF Quantise
    <2> QED
      BY <2>3, <2>7
  <1> HIDE DEF Value
  <1>5. PICK x \in - t .. t - 1, y \in - t .. t - 1 : s = <<Value(x), Value(y)>>
    BY <1>2, <1>3
  <1>6. /\ s \in Int \X Int /\ s[1] = Value(x) /\ s[2] = Value(y)
        /\ Quantise(s[1] * factor) = x /\ Quantise(s[2] * factor) = y
    BY <1>4, <1>5
  <1>7. factor \in Nat
    OBVIOUS
  <1>8. ReadSample(SampleWord(s, factor, o), factor, o)
          = <<(2 * Quantise(s[1] * factor)) \div factor, (2 * Quantise(s[2] * factor)) \div factor>>
    BY <1>6, <1>7, SampleStored
  <1> QED
    BY <1>5, <1>6, <1>8 DEF Value

(* A field that decode() reads has a value that encode() takes, and one    *)
(* that needs no rounding.                                                 *)
LEMMA FieldRead ==
    ASSUME NEW b \in Field, NEW words, NEW at, NEW o, NEW v, v = ReadField(b, words, at, o),
           b # ChangeIndicator => words[at] \in Word,
           Cif0FieldSizeWords(b) = 2 => words[at + 1] \in Word
    PROVE  FieldValue(b, v) /\ (b \notin PlainField => Even(v))
  <1>0. b \in 21 .. 31
    BY FieldRange
  <1>1. CASE b \in PlainField
    BY <1>1 DEF FieldValue, ReadField, PlainField, ChangeIndicator
  <1>2. CASE b \in {RefLevel, Gain}
    <2>1. b \notin PlainField /\ b # ChangeIndicator /\ words[at] \in Word
      BY <1>2 DEF RefLevel, Gain, PlainField, ChangeIndicator
    <2>2. PICK low \in {0, HalfBits} : v = 2 * Signed(Bits(words[at], low, HalfBits), HalfBits)
      BY <1>2, <2>1 DEF ReadField
    <2> DEFINE n == Bits(words[at], low, HalfBits)
               s == Signed(n, HalfBits)
    <2>3. HalfBits \in 1 .. WordBits
      BY WordBitsType
    <2>4. n \in 0 .. 2 ^ HalfBits - 1
      BY <2>1, HalfRange
    <2> HIDE DEF n
    <2>5. s \in - 2 ^ (HalfBits - 1) .. 2 ^ (HalfBits - 1) - 1 /\ s \in Int
      BY <2>3, <2>4, SignedRange
    <2>6. v = 2 * s
      BY <2>2 DEF n
    <2> HIDE DEF s
    <2>7. v \in Int /\ Round(v) = s /\ Even(v)
      BY <2>5, <2>6, RoundEven DEF Even
    <2> QED
      BY <1>2, <2>1, <2>5, <2>7 DEF FieldValue
  <1>3. CASE b \notin PlainField /\ b \notin {RefLevel, Gain}
    <2>1. b # ChangeIndicator /\ words[at] \in Word /\ words[at + 1] \in Word
      BY <1>0, <1>3 DEF PlainField, ChangeIndicator, RefLevel, Gain, Cif0FieldSizeWords
    <2>2. PICK hi \in Word, lo \in Word : DWord(<<words[at], words[at + 1]>>, o) = <<hi, lo>>
      BY <2>1, DWordType
    <2> DEFINE W == 2 ^ WordBits
               s == Signed(hi, WordBits)
               n == s * W + lo
    <2>3. v = 2 * n
      BY <1>3, <2>1, <2>2 DEF ReadField, FreqFromFixed
    <2>4. WordBits \in 1 .. WordBits /\ hi \in 0 .. 2 ^ WordBits - 1 /\ lo \in 0 .. W - 1 /\ W \in Nat /\ W > 0
      BY WordBitsType, WordPowers DEF Word
    <2>5. s \in - 2 ^ (WordBits - 1) .. 2 ^ (WordBits - 1) - 1 /\ s \in Int
      BY <2>4, SignedRange
    <2> HIDE DEF s, W
    <2>6. n \in Int /\ n \div W = s
      <3>1. s * W \in Int /\ lo \in Int
        BY <2>4, <2>5
      <3> QED
        BY <2>4, <2>5, <3>1, DivExact
    <2> HIDE DEF n
    <2>7. v \in Int /\ Round(v) = n /\ Even(v)
      BY <2>3, <2>6, RoundEven DEF Even
    <2> QED
      BY <1>3, <2>1, <2>5, <2>6, <2>7 DEF FieldValue, W
  <1> QED
    BY <1>1, <1>2, <1>3

(* Fields that encode() takes, of values that need no rounding. *)
Exact(fields) ==
    /\ FieldsOK(fields) /\ fields = [b \in Field |-> fields[b]]
    /\ \A b \in Field : fields[b] # <<>> /\ b \notin PlainField => Even(fields[b][1])

(* In the packet w the field b, if it is there, begins at a place from     *)
(* which it does not go beyond the packet.                                 *)
FieldInside(w, z, cif0, b) ==
    LET at == FieldFrom(z + 1, cif0, b)
    IN  at \in Nat /\ at >= 1 /\ at + Cif0FieldSizeWords(b) - 1 <= Len(w)

(* What decode() tells of a context packet that it accepts. *)
ContextRead(w, h, fields) ==
    LET z == SizeInWords(h)
    IN  /\ IsContextPacket(h.packetType) /\ z + 1 <= Len(w)
        /\ \A b \in Field : fields[b] # <<>> <=> Cif0Has(w[z + 1], b)
        /\ \A b \in 21 .. 30 : Cif0Has(w[z + 1], b) => FieldInside(w, z, w[z + 1], b)

(* The fields that decode() finds can be encoded, and without rounding. *)
LEMMA ContextFound ==
    ASSUME NEW w, NEW h, NEW o, IsPacket(w, h, o), h.packetSize = Len(w), ContextValid(w),
           NEW fields, fields = ContextFields(w, o)
    PROVE  Exact(fields) /\ ContextRead(w, h, fields)
  <1> DEFINE f == Fixed(w[1])
             z == SizeInWords(h)
             cif0 == w[z + 1]
             At(b) == FieldFrom(z + 1, cif0, b)
  <1>1. /\ w \in Seq(Word) /\ Len(w) \in Nat /\ f.packetSize = Len(w) /\ f.packetType = h.packetType
        /\ SizeInWords(f) = z /\ z \in Nat
    BY PacketFixed, SizeRange
  <1>2. f = Fixed(w[1])
    OBVIOUS
  <1> HIDE DEF f
  <1>3. /\ IsContextPacket(f.packetType) /\ SizeInWords(f) + 1 <= f.packetSize
        /\ \A b \in 15 .. 30 : FieldFits(w, w[SizeInWords(f) + 1], f.packetSize, b)
    BY <1>2, ContextValidParts
  <1>4. IsContextPacket(h.packetType) /\ z + 1 <= Len(w) /\ \A b \in 15 .. 30 : FieldFits(w, cif0, Len(w), b)
    BY <1>1, <1>3
  <1>5. \A b : FieldAt(w, b) = At(b)
    BY <1>1, <1>2, FieldAtFrom
  <1>6. fields = [b \in Field |-> IF Cif0Has(cif0, b) THEN <<ReadField(b, w, At(b), o)>> ELSE <<>>]
    BY <1>1, <1>2, <1>5 DEF ContextFields
  <1> HIDE DEF cif0
  <1>7. \A b \in 0 .. 31 : At(b) \in Nat /\ At(b) >= 1
    <2>1. z + 1 \in Nat
      BY <1>1
    <2> QED
      BY <2>1, FieldFromType
  <1> HIDE DEF z, At
  <1>8. ASSUME NEW b \in 21 .. 30, Cif0Has(cif0, b)
        PROVE  At(b) \in Nat /\ At(b) >= 1 /\ At(b) + Cif0FieldSizeWords(b) - 1 <= Len(w)
    <2>1. b \in 15 .. 30 /\ b \in 0 .. 31
      OBVIOUS
    <2> QED
      BY <1>4, <1>5, <1>7, <1>8, <2>1 DEF FieldFits
  <1>9. ASSUME NEW b \in Field, Cif0Has(cif0, b), NEW v, v = ReadField(b, w, At(b), o)
        PROVE  FieldValue(b, v) /\ (b \notin PlainField => Even(v))
    <2> DEFINE at == At(b)
    <2>1. b \in 21 .. 31 /\ (b # ChangeIndicator => b \in 21 .. 30)
      BY FieldRange DEF ChangeIndicator
    <2>2. b # ChangeIndicator => at \in Nat /\ at >= 1 /\ at + Cif0FieldSizeWords(b) - 1 <= Len(w)
      BY <1>8, <1>9, <2>1
    <2> HIDE DEF at
    <2>3. b # ChangeIndicator => Cif0FieldSizeWords(b) \in 1 .. 2
      BY DEF Cif0FieldSizeWords
    <2>4. Cif0FieldSizeWords(b) = 2 => b # ChangeIndicator
      BY DEF Cif0FieldSizeWords
    <2>5. b # ChangeIndicator => at \in 1 .. Len(w)
      BY <1>1, <2>2, <2>3
    <2>6. Cif0FieldSizeWords(b) = 2 => at + 1 \in 1 .. Len(w)
      BY <1>1, <2>2, <2>4
    <2>7. b # ChangeIndicator => w[at] \in Word
      BY <1>1, <2>5
    <2>8. Cif0FieldSizeWords(b) = 2 => w[at + 1] \in Word
      BY <1>1, <2>6
    <2>9. v = ReadField(b, w, at, o)
      BY <1>9 DEF at
    <2> QED
      BY <2>7, <2>8, <2>9, FieldRead
  <1>10. ASSUME NEW b \in Field
         PROVE  /\ fields[b] # <<>> <=> Cif0Has(cif0, b)
                /\ fields[b] # <<>> => /\ fields[b] = <<fields[b][1]>> /\ FieldValue(b, fields[b][1])
                                       /\ b \notin PlainField => Even(fields[b][1])
    <2> DEFINE v == ReadField(b, w, At(b), o)
    <2>1. fields[b] = IF Cif0Has(cif0, b) THEN <<v>> ELSE <<>>
      BY <1>6
    <2>2. Cif0Has(cif0, b) => FieldValue(b, v) /\ (b \notin PlainField => Even(v))
      BY <1>9
    <2> HIDE DEF v
    <2>3. <<v>> # <<>> /\ <<v>>[1] = v
      OBVIOUS
    <2> QED
      BY <2>1, <2>2, <2>3
  <1>11. DOMAIN fields = Field /\ fields = [b \in Field |-> fields[b]]
    BY <1>6
  <1>12. Exact(fields)
    BY <1>10, <1>11 DEF Exact, FieldsOK
  <1>13. ContextRead(w, h, fields)
    <2>1. \A b \in 21 .. 30 : Cif0Has(cif0, b) => FieldInside(w, z, cif0, b)
      BY <1>8 DEF FieldInside, At
    <2> QED
      BY <1>4, <1>10, <2>1 DEF ContextRead, cif0, z
  <1> QED
    BY <1>12, <1>13

(* Values that need no rounding are the same if they are close. *)
LEMMA CloseIsSame ==
    ASSUME NEW found, NEW fields, Exact(found), Exact(fields), FieldsClose(found, fields)
    PROVE  found = fields
  <1>1. ASSUME NEW b \in Field
        PROVE  found[b] = fields[b]
    <2>1. /\ Len(found[b]) = Len(fields[b])
          /\ \A k \in DOMAIN found[b] : IF b \in PlainField THEN found[b][k] = fields[b][k]
                                        ELSE found[b][k] - fields[b][k] \in -1 .. 1
      BY DEF FieldsClose
    <2>2. CASE found[b] = <<>>
      <3>1. fields[b] = <<>>
        <4>1. ASSUME fields[b] # <<>>
              PROVE  FALSE
          <5>1. fields[b] = <<fields[b][1]>>
            BY <4>1 DEF Exact, FieldsOK
          <5>2. Len(fields[b]) = 1 /\ Len(<<>>) = 0
            BY <5>1
          <5> QED
            BY <2>1, <2>2, <5>2
        <4> QED
          BY <4>1
      <3> QED
        BY <2>2, <3>1
    <2>3. CASE found[b] # <<>>
      <3> DEFINE x == found[b][1]
                 y == fields[b][1]
      <3>1. found[b] = <<x>>
        BY <2>3 DEF Exact, FieldsOK
      <3>2. Len(found[b]) = 1 /\ 1 \in DOMAIN found[b]
        <4> HIDE DEF x
        <4> QED
          BY <3>1
      <3>3. fields[b] # <<>>
        <4>1. Len(fields[b]) = 1 /\ Len(<<>>) = 0
          BY <2>1, <3>2
        <4> QED
          BY <4>1
      <3>4. fields[b] = <<y>>
        BY <3>3 DEF Exact, FieldsOK
      <3>5. IF b \in PlainField THEN x = y ELSE x - y \in -1 .. 1
        BY <2>1, <3>2
      <3>6. b \notin PlainField => Even(x) /\ Even(y)
        BY <2>3, <3>3 DEF Exact
      <3> HIDE DEF x, y
      <3>7. x = y
        <4>1. CASE b \in PlainField
          BY <3>5, <4>1
        <4>2. CASE b \notin PlainField
          <5>1. PICK i \in Int : x = 2 * i
            BY <3>6, <4>2 DEF Even
          <5>2. PICK j \in Int : y = 2 * j
            BY <3>6, <4>2 DEF Even
          <5>3. 2 * i - 2 * j \in -1 .. 1
            BY <3>5, <4>2, <5>1, <5>2
          <5>4. i = j
            BY <5>3
          <5> QED
            BY <5>1, <5>2, <5>4
        <4> QED
          BY <4>1, <4>2
      <3> QED
        BY <3>1, <3>4, <3>7
    <2> QED
      BY <2>2, <2>3
  <1>2. found = [b \in Field |-> found[b]] /\ fields = [b \in Field |-> fields[b]]
    BY DEF Exact
  <1> QED
    BY <1>1, <1>2

(* The fields take no more words than they had. *)
LEMMA FieldsFit ==
    ASSUME NEW o \in ByteOrder, NEW w, NEW h, IsPacket(w, h, o), NEW fields, Exact(fields), ContextRead(w, h, fields),
           NEW data, data = FieldData(fields, o)
    PROVE  data \in Seq(Word) /\ SizeInWords(h) + 1 + Len(data) <= Len(w)
  <1> DEFINE first == SizeInWords(h) + 1
             cif0 == w[first]
             old == Cif0Of(fields)
  <1>1. first \in Nat /\ first <= Len(w) /\ Len(w) \in Nat
    BY SizeRange, PacketFixed DEF ContextRead
  <1>2. data \in Seq(Word) /\ \E st : FieldPlaces(data, fields, old, o, st)
    <2>1. FieldsOK(fields)
      BY DEF Exact
    <2> QED
      BY <2>1, FieldDataParts
  <1>3. PICK st : FieldPlaces(data, fields, old, o, st)
    BY <1>2
  <1>4. \A b \in 21 .. 31 : Cif0Has(old, b) <=> fields[b] # <<>>
    BY Cif0Back
  <1>5. \A b \in 21 .. 31 : fields[b] # <<>> <=> Cif0Has(cif0, b)
    BY FieldRange DEF ContextRead
  <1> HIDE DEF old, cif0
  <1>6. \A b \in 21 .. 31 : Gap(old, b) = Gap(cif0, b)
    BY <1>4, <1>5 DEF Gap
  <1>7. FieldPlaces(data, fields, cif0, o, st)
    <2>1. \A i \in 1 .. 11 : 32 - i \in 21 .. 31
      OBVIOUS
    <2>2. \A i \in 1 .. 11 : Gap(old, 32 - i) = Gap(cif0, 32 - i)
      BY <1>6, <2>1
    <2> QED
      BY <1>3, <2>2 DEF FieldPlaces
  <1>8. PlacedFrom(first, cif0, st)
    BY <1>1, <1>7, FieldPlaced
  <1>9. \A i \in 1 .. 11 : FieldFrom(first, cif0, 32 - i) = first + 1 + st[i]
    BY <1>8 DEF PlacedFrom
  <1>10. st \in [1 .. 12 -> Nat] /\ st[1] = 0 /\ st[12] = Len(data) /\ \A i \in 1 .. 11 : st[i + 1] = st[i] + Gap(cif0, 32 - i)
    BY <1>7 DEF FieldPlaces
  <1>11. \A b \in 21 .. 30 : Cif0Has(cif0, b) => FieldFrom(first, cif0, b) + Cif0FieldSizeWords(b) - 1 <= Len(w)
    BY DEF ContextRead, FieldInside, cif0
  <1> HIDE DEF first
  <1>12. ASSUME NEW i \in 1 .. 11, first + st[i] <= Len(w)
         PROVE  first + st[i + 1] <= Len(w)
    <2> DEFINE b == 32 - i
    <2>1. b \in 21 .. 31 /\ st[i] \in Nat /\ st[i + 1] = st[i] + Gap(cif0, b) /\ FieldFrom(first, cif0, b) = first + 1 + st[i]
      <3>1. b \in 21 .. 31 /\ i \in 1 .. 12
        OBVIOUS
      <3>2. st[i] \in Nat
        BY <1>10, <3>1
      <3>3. FieldFrom(first, cif0, b) = first + 1 + st[i]
        BY <1>9
      <3>4. st[i + 1] = st[i] + Gap(cif0, b)
        BY <1>10
      <3> QED
        BY <3>1, <3>2, <3>3, <3>4
    <2> HIDE DEF b
    <2>2. CASE ~ Cif0Has(cif0, b) \/ b = ChangeIndicator
      <3>1. Gap(cif0, b) = 0
        BY <2>2 DEF Gap, Cif0FieldSizeWords
      <3> QED
        BY <1>1, <1>12, <2>1, <3>1
    <2>3. CASE Cif0Has(cif0, b) /\ b # ChangeIndicator
      <3>1. Gap(cif0, b) = Cif0FieldSizeWords(b) /\ Cif0FieldSizeWords(b) \in Nat
        BY <2>3 DEF Gap, Cif0FieldSizeWords
      <3>2. b \in 21 .. 30
        BY <2>1, <2>3 DEF ChangeIndicator
      <3>3. (first + 1 + st[i]) + Cif0FieldSizeWords(b) - 1 <= Len(w)
        BY <1>11, <2>1, <2>3, <3>2
      <3> QED
        BY <1>1, <2>1, <3>1, <3>3
    <2> QED
      BY <2>2, <2>3
  <1>13. first + st[12] <= Len(w)
    <2> DEFINE T == {n \in Nat : n <= 11 => first + st[n + 1] <= Len(w)}
    <2>1. 0 \in T
      BY <1>1, <1>10
    <2>2. ASSUME NEW n \in Nat, n \in T
          PROVE  n + 1 \in T
      <3> SUFFICES ASSUME n + 1 <= 11
                   PROVE  first + st[(n + 1) + 1] <= Len(w)
        OBVIOUS
      <3>1. n + 1 \in 1 .. 11 /\ first + st[n + 1] <= Len(w)
        BY <2>2
      <3> QED
        BY <1>12, <3>1
    <2> HIDE DEF T
    <2>3. 11 \in T
      BY <2>1, <2>2, SetInduction
    <2>4. 11 + 1 = 12
      OBVIOUS
    <2> QED
      BY <2>3, <2>4 DEF T
  <1> QED
    BY <1>2, <1>10, <1>13 DEF first

(* What the encoders are given when a packet is encoded again. *)
Arguments(h) ==
    /\ ValueOr(h.streamId, 0) \in Word /\ StampOf(h) \in TheStamps
    /\ h.packetCount \in Nat /\ h.trailerPresent \in 0 .. 1
    /\ StampOf(h).tsi = h.tsiType /\ StampOf(h).tsf = h.tsfType

(* They have their types. *)
LEMMA ArgumentsOK ==
    ASSUME NEW h \in Header, Complete(h)
    PROVE  Arguments(h)
  <1>1. 0 \in Word
    BY WordPowers DEF Word
  <1>2. /\ h.tsiType \in 0 .. 3 /\ h.tsfType \in 0 .. 3 /\ h.packetCount \in 0 .. 15 /\ h.trailerPresent \in 0 .. 1
        /\ h.streamId \in Seq(Word) /\ h.integerTimestamp \in Seq(Word) /\ h.fractionalTimestamp \in Seq(Word)
    BY DEF Header
  <1>3. Len(h.fractionalTimestamp) = 0 \/ Len(h.fractionalTimestamp) = 2
    BY DEF Complete
  <1>4. ASSUME NEW s \in Seq(Word)
        PROVE  ValueOr(s, 0) \in Word
    BY <1>1 DEF ValueOr
  <1> DEFINE frac == IF h.fractionalTimestamp = <<>> THEN <<0, 0>> ELSE h.fractionalTimestamp
  <1>5. frac \in Word \X Word
    <2>1. CASE h.fractionalTimestamp = <<>>
      BY <1>1, <2>1
    <2>2. CASE h.fractionalTimestamp # <<>>
      <3> DEFINE s == h.fractionalTimestamp
      <3>1. s \in Seq(Word) /\ s # <<>> /\ (Len(s) = 0 \/ Len(s) = 2)
        BY <1>2, <1>3, <2>2
      <3> HIDE DEF s
      <3>2. s = <<s[1], s[2]>> /\ s[1] \in Word /\ s[2] \in Word
        BY <3>1
      <3>3. s \in Word \X Word
        BY <3>2
      <3> QED
        BY <2>2, <3>3 DEF s
    <2> QED
      BY <2>1, <2>2
  <1>6. StampOf(h) = [tsi |-> h.tsiType, tsf |-> h.tsfType, int |-> ValueOr(h.integerTimestamp, 0), frac |-> frac]
    BY DEF StampOf
  <1> HIDE DEF frac
  <1>7. ValueOr(h.integerTimestamp, 0) \in Word /\ ValueOr(h.streamId, 0) \in Word
    BY <1>2, <1>4
  <1>8. StampOf(h) \in TheStamps /\ StampOf(h).tsi = h.tsiType /\ StampOf(h).tsf = h.tsfType
    BY <1>2, <1>5, <1>6, <1>7 DEF TheStamps
  <1> QED
    BY <1>2, <1>7, <1>8 DEF Arguments

(* The packet v says what the packet w said. *)
ContextAgain(v, fields) ==
    \E k : /\ IsPacket(v, k, order) /\ k.packetSize = Len(v) /\ Acceptable(v)
           /\ IsContextPacket(k.packetType) /\ ContextFields(v, order) = fields

(* A context packet that was read fits when it is encoded again, and has   *)
(* the same fields.                                                        *)
LEMMA ContextReEncoded ==
    ASSUME order \in ByteOrder, NEW w, NEW h, IsPacket(w, h, order), h.packetSize = Len(w), ContextValid(w),
           NEW v, v = ContextEncode(NewHeader(4, ValueOr(h.streamId, 0), h.packetCount, 0, StampOf(h)),
                                    ContextFields(w, order), order)
    PROVE  ContextAgain(v, ContextFields(w, order))
  <1> DEFINE fields == ContextFields(w, order)
             g == NewHeader(4, ValueOr(h.streamId, 0), h.packetCount, 0, StampOf(h))
             data == FieldData(fields, order)
             total == SizeInWords(g) + 1 + Len(data)
  <1>1. Exact(fields) /\ ContextRead(w, h, fields)
    BY ContextFound
  <1>2. h \in Header /\ Complete(h) /\ h.packetSize \in 0 .. MaxPacketSizeWords
    BY DEF IsPacket, Header
  <1>3. Arguments(h)
    BY <1>2, ArgumentsOK
  <1>4. Built(g, 4, h.packetCount, 0, StampOf(h))
    <2>1. /\ 4 \in {1, 4} /\ 0 \in 0 .. 1 /\ (0 = 1 => 4 = 1) /\ ValueOr(h.streamId, 0) \in Word /\ h.packetCount \in Nat
          /\ StampOf(h) \in [tsi : 0 .. 3, tsf : 0 .. 3, int : Word, frac : Word \X Word]
      BY <1>3 DEF Arguments, TheStamps
    <2> QED
      BY <2>1, NewHeaderOK
  <1>5. /\ g \in Header /\ Complete(g) /\ g.packetType = 4 /\ IsContextPacket(g.packetType)
        /\ SizeInWords(g) = 2 + (IF h.tsiType # 0 THEN 1 ELSE 0) + (IF h.tsfType # 0 THEN 2 ELSE 0)
    BY <1>3, <1>4 DEF Built, Arguments, IsContextPacket
  <1>6. data \in Seq(Word) /\ SizeInWords(h) + 1 + Len(data) <= Len(w)
    <2> HIDE DEF fields
    <2> QED
      BY <1>1, FieldsFit
  <1>7. SizeInWords(g) <= SizeInWords(h) /\ SizeInWords(g) \in Nat /\ SizeInWords(h) \in Nat
    <2>1. HasStreamId(h.packetType)
      BY <1>1 DEF ContextRead, IsContextPacket, HasStreamId
    <2> QED
      BY <1>5, <2>1, SizeRange DEF SizeInWords
  <1>8. ~ (total > MaxPacketSizeWords)
    <2>1. Len(w) <= MaxPacketSizeWords /\ Len(w) \in Nat /\ MaxPacketSizeWords \in Nat
      BY <1>2, MaxPacketType
    <2>2. Len(data) \in Nat
      BY <1>6
    <2> HIDE DEF data, g
    <2> QED
      BY <1>6, <1>7, <2>1, <2>2
  <1>9. v # <<>>
    <2>1. v = Serialize([g EXCEPT !.packetSize = total], order) \o <<Cif0Of(fields)>> \o data
      BY <1>8 DEF ContextEncode
    <2>2. SizeInWords(g) \in Nat /\ Len(data) \in Nat /\ total \in 0 .. MaxPacketSizeWords
      <3>1. Len(data) \in Nat
        BY <1>6
      <3> HIDE DEF data, g
      <3> QED
        BY <1>7, <1>8, <3>1, MaxPacketType
    <2> DEFINE k == [g EXCEPT !.packetSize = total]
    <2>3. k \in Header /\ Complete(k)
      <3> HIDE DEF g, total
      <3> QED
        BY <1>5, <2>2, SizedHeader
    <2> HIDE DEF k
    <2>4. Serialize(k, order) \in Seq(Word) /\ Len(Serialize(k, order)) = SizeInWords(k)
      BY <2>3, SerializeShape
    <2>5. Cif0Of(fields) \in Word
      BY Cif0Back
    <2> DEFINE s == Serialize(k, order)
               c == Cif0Of(fields)
    <2> HIDE DEF s, c, data
    <2>6. s \in Seq(Word) /\ <<c>> \in Seq(Word) /\ data \in Seq(Word) /\ v = s \o <<c>> \o data
      <3>1. s \in Seq(Word)
        BY <2>4 DEF s
      <3>2. c \in Word
        BY <2>5 DEF c
      <3>3. v = s \o <<c>> \o data
        BY <2>1 DEF k, s, c
      <3> QED
        BY <1>6, <3>1, <3>2, <3>3
    <2>7. Len(v) = Len(s) + 1 + Len(data) /\ Len(s) \in Nat /\ Len(data) \in Nat
      BY <2>6
    <2> QED
      BY <2>7
  <1>10. PICK k : ContextOK(v, k, g, fields, order)
    <2>1. FieldsOK(fields) /\ v = ContextEncode(g, fields, order)
      BY <1>1 DEF Exact
    <2> HIDE DEF fields, g
    <2> QED
      BY <1>5, <1>9, <2>1, ContextPacket
  <1> HIDE DEF fields, g
  <1>11. /\ IsPacket(v, k, order) /\ SameHeader(k, g) /\ k.packetSize = Len(v) /\ ContextValid(v)
         /\ FieldsClose(ContextFields(v, order), fields)
    BY <1>10 DEF ContextOK
  <1>12. Exact(ContextFields(v, order))
    BY <1>11, ContextFound
  <1>13. ContextFields(v, order) = fields
    BY <1>1, <1>11, <1>12, CloseIsSame
  <1>14. IsContextPacket(k.packetType) /\ ~ IsDataPacket(k.packetType) /\ Fixed(v[1]).packetType = k.packetType
    BY <1>5, <1>11, PacketFixed DEF SameHeader, IsDataPacket, IsContextPacket
  <1>15. Acceptable(v)
    BY <1>11, <1>14 DEF Acceptable
  <1> QED
    BY <1>11, <1>13, <1>14, <1>15 DEF ContextAgain, fields

(* Samples that are stored and read again as they are. *)
Stable(samples, factor, o) ==
    /\ samples \in Seq(Int \X Int)
    /\ \A k \in 1 .. Len(samples) : ReadSample(SampleWord(samples[k], factor, o), factor, o) = samples[k]

(* The samples that decode() reads are. *)
LEMMA SamplesStable ==
    ASSUME NEW w, NEW h, NEW o, IsPacket(w, h, o), h.packetSize = Len(w), IsDataPacket(h.packetType), Acceptable(w),
           NEW factor \in 1 .. 2
    PROVE  Stable(SignalSamples(w, factor, o), factor, o)
  <1> DEFINE f == Fixed(w[1])
             z == SizeInWords(h)
             n == Len(w) - z - h.trailerPresent
             s == SignalSamples(w, factor, o)
  <1>1. /\ w \in Seq(Word) /\ Len(w) \in Nat /\ f.packetType = h.packetType /\ f.packetSize = Len(w)
        /\ f.trailerPresent = h.trailerPresent /\ SizeInWords(f) = z /\ z \in Nat /\ z >= 1 /\ h.trailerPresent \in 0 .. 1
    BY PacketFixed, SizeRange
  <1>2. z + h.trailerPresent <= Len(w)
    BY <1>1 DEF Acceptable, SignalValid
  <1>3. s = [k \in 1 .. n |-> ReadSample(w[z + k], factor, o)]
    BY <1>1 DEF SignalSamples
  <1>4. n \in Nat /\ \A k \in 1 .. n : z + k \in 1 .. Len(w)
    <2> HIDE DEF z
    <2> QED
      BY <1>1, <1>2
  <1>5. \A k \in 1 .. n : w[z + k] \in Word
    <2>1. w \in Seq(Word)
      BY <1>1
    <2> HIDE DEF z, n
    <2> SUFFICES ASSUME NEW k \in 1 .. n
                 PROVE  w[z + k] \in Word
      OBVIOUS
    <2>2. z + k \in 1 .. Len(w)
      BY <1>4
    <2> QED
      BY <2>1, <2>2
  <1> HIDE DEF z, n, s
  <1>6. ASSUME NEW k \in 1 .. n
        PROVE  s[k] \in Int \X Int /\ ReadSample(SampleWord(s[k], factor, o), factor, o) = s[k]
    <2>1. w[z + k] \in Word /\ s[k] = ReadSample(w[z + k], factor, o)
      BY <1>3, <1>5
    <2> QED
      BY <2>1, SampleAgain
  <1>7. s = [k \in 1 .. n |-> s[k]]
    BY <1>3
  <1>8. s \in [1 .. n -> Int \X Int]
    BY <1>6, <1>7
  <1>9. s \in Seq(Int \X Int) /\ Len(s) = n
    BY <1>4, <1>8, FunctionSeq
  <1> QED
    BY <1>6, <1>9 DEF Stable, s

-----------------------------------------------------------------------------
(* The loop of parseStream() over packets that were encoded again. *)

(* The states after each of the first n turns. *)
NoTurn == [offset |-> 0, packets |-> <<>>]
Turns(f, words, n) == f = [i \in 0 .. n |-> IF i = 0 THEN NoTurn ELSE Turn(words, f[i - 1])]

(* What there is after each. *)
LEMMA TurnsAt ==
    ASSUME NEW f, NEW words, NEW n \in Nat, Turns(f, words, n), NEW i \in 0 .. n
    PROVE  f[i] = IF i = 0 THEN NoTurn ELSE Turn(words, f[i - 1])
  BY DEF Turns

(* The function exists. *)
LEMMA TurnsExist ==
    ASSUME NEW words, NEW n \in Nat
    PROVE  \E f : Turns(f, words, n)
  <1> DEFINE T == {k \in Nat : \E f : Turns(f, words, k)}
  <1>1. 0 \in T
    <2> DEFINE g == [i \in 0 .. 0 |-> NoTurn]
    <2>1. g = [i \in 0 .. 0 |-> IF i = 0 THEN NoTurn ELSE Turn(words, g[i - 1])]
      OBVIOUS
    <2> HIDE DEF g
    <2>2. Turns(g, words, 0)
      BY <2>1 DEF Turns
    <2> QED
      BY <2>2
  <1>2. ASSUME NEW k \in Nat, k \in T
        PROVE  k + 1 \in T
    <2>1. PICK f : Turns(f, words, k)
      BY <1>2
    <2> DEFINE g == [i \in 0 .. k + 1 |-> IF i <= k THEN f[i] ELSE Turn(words, f[k])]
    <2>2. \A i \in 0 .. k + 1 : g[i] = IF i = 0 THEN NoTurn ELSE Turn(words, g[i - 1])
      <3> SUFFICES ASSUME NEW i \in 0 .. k + 1
                   PROVE  g[i] = IF i = 0 THEN NoTurn ELSE Turn(words, g[i - 1])
        OBVIOUS
      <3>1. CASE i <= k
        <4>1. f[i] = IF i = 0 THEN NoTurn ELSE Turn(words, f[i - 1])
          BY <2>1, <3>1, TurnsAt
        <4>2. g[i] = f[i] /\ (i # 0 => g[i - 1] = f[i - 1])
          BY <3>1
        <4> QED
          BY <4>1, <4>2
      <3>2. CASE i = k + 1
        <4>1. g[i] = Turn(words, f[k]) /\ g[i - 1] = f[k] /\ i # 0
          BY <3>2
        <4> QED
          BY <4>1
      <3> QED
        BY <3>1, <3>2
    <2>3. Turns(g, words, k + 1)
      <3> DEFINE g2 == [i \in 0 .. k + 1 |-> IF i = 0 THEN NoTurn ELSE Turn(words, g[i - 1])]
      <3>1. g = [i \in 0 .. k + 1 |-> g[i]]
        OBVIOUS
      <3> HIDE DEF g
      <3>2. g = g2
        BY <2>2, <3>1
      <3> QED
        BY <3>2 DEF Turns
    <2> QED
      BY <2>3
  <1> HIDE DEF T
  <1>3. n \in T
    BY <1>1, <1>2, SetInduction
  <1> QED
    BY <1>3 DEF T

(* parseStream() returns what there is after the last one. *)
LEMMA ParseAllTurns ==
    ASSUME NEW words, Len(words) \in Nat
    PROVE  \E f : Turns(f, words, Len(words)) /\ ParseAll(words) = f[Len(words)].packets
  <1> DEFINE n == Len(words)
             F == CHOOSE f : f = [i \in 0 .. n |-> IF i = 0 THEN NoTurn ELSE Turn(words, f[i - 1])]
  <1>1. ParseAll(words) = F[n].packets
    BY DEF ParseAll, NoTurn
  <1>2. \E f : f = [i \in 0 .. n |-> IF i = 0 THEN NoTurn ELSE Turn(words, f[i - 1])]
    BY TurnsExist DEF Turns
  <1>3. Turns(F, words, n)
    BY <1>2 DEF Turns
  <1> QED
    BY <1>1, <1>3

(* Results of parsePacket(), and what they add. *)
FieldFunctions == [Field -> Seq(Int)]
FieldsIn(e) == IF e.type = "Context" THEN <<e.fields>> ELSE <<>>
ResultOK(e) == e.samples \in Seq(Int \X Int) /\ (e.type = "Context" => e.fields \in FieldFunctions)
ResultsOK(ps) == IsSeq(ps) /\ \A i \in 1 .. Len(ps) : ResultOK(ps[i])

(* One more result adds its samples and fields. *)
LEMMA AllMore ==
    ASSUME NEW ps, ResultsOK(ps), NEW e, ResultOK(e)
    PROVE  /\ ResultsOK(Append(ps, e))
           /\ AllSamples(Append(ps, e)) = AllSamples(ps) \o e.samples /\ AllSamples(ps) \in Seq(Int \X Int)
           /\ AllFields(Append(ps, e)) = AllFields(ps) \o FieldsIn(e) /\ AllFields(ps) \in Seq(FieldFunctions)
  <1> DEFINE n == Len(ps)
             more == Append(ps, e)
             S == [i \in 1 .. n |-> ps[i].samples]
             F == [i \in 1 .. n |-> FieldsIn(ps[i])]
  <1>1. /\ n \in Nat /\ DOMAIN ps = 1 .. n /\ Len(more) = n + 1 /\ DOMAIN more = 1 .. n + 1
        /\ more[n + 1] = e /\ \A i \in 1 .. n : more[i] = ps[i]
    BY DEF ResultsOK, IsSeq
  <1>2. IsSeq(more)
    <2>1. PICK C : ps \in Seq(C)
      BY DEF ResultsOK, IsSeq
    <2>2. more \in Seq(C \cup {e})
      BY <2>1
    <2> HIDE DEF more
    <2> QED
      BY <2>2 DEF IsSeq
  <1> HIDE DEF more
  <1>3. ASSUME NEW i \in 1 .. n
        PROVE  ps[i].samples \in Seq(Int \X Int) /\ FieldsIn(ps[i]) \in Seq(FieldFunctions)
    <2>1. ResultOK(ps[i])
      BY <1>3 DEF ResultsOK
    <2> QED
      BY <2>1 DEF ResultOK, FieldsIn
  <1>4. e.samples \in Seq(Int \X Int) /\ FieldsIn(e) \in Seq(FieldFunctions)
    BY DEF ResultOK, FieldsIn
  <1>5. S \in Seq(Seq(Int \X Int)) /\ Len(S) = n
    <2>1. S \in [1 .. n -> Seq(Int \X Int)]
      BY <1>3
    <2> QED
      BY <1>1, <2>1, FunctionSeq
  <1>6. F \in Seq(Seq(FieldFunctions)) /\ Len(F) = n
    <2>1. F \in [1 .. n -> Seq(FieldFunctions)]
      BY <1>3
    <2> QED
      BY <1>1, <2>1, FunctionSeq
  <1>7. AllSamples(ps) = FlattenSeq(S) /\ AllFields(ps) = FlattenSeq(F)
    BY <1>1 DEF AllSamples, AllFields, FieldsIn
  <1>8. AllSamples(more) = FlattenSeq(Append(S, e.samples))
    <2> DEFINE U == [i \in 1 .. n + 1 |-> more[i].samples]
    <2>1. AllSamples(more) = FlattenSeq(U)
      BY <1>1 DEF AllSamples
    <2>2. Append(S, e.samples) = [i \in 1 .. n + 1 |-> IF i = n + 1 THEN e.samples ELSE S[i]]
      BY <1>1, <1>5
    <2>3. U = Append(S, e.samples)
      BY <1>1, <2>2
    <2> QED
      BY <2>1, <2>3
  <1>9. AllFields(more) = FlattenSeq(Append(F, FieldsIn(e)))
    <2> DEFINE U == [i \in 1 .. n + 1 |-> FieldsIn(more[i])]
    <2>1. AllFields(more) = FlattenSeq(U)
      BY <1>1 DEF AllFields, FieldsIn
    <2>2. Append(F, FieldsIn(e)) = [i \in 1 .. n + 1 |-> IF i = n + 1 THEN FieldsIn(e) ELSE F[i]]
      BY <1>1, <1>6
    <2>3. U = Append(F, FieldsIn(e))
      BY <1>1, <2>2
    <2> QED
      BY <2>1, <2>3
  <1> HIDE DEF S, F
  <1>10. FlattenSeq(Append(S, e.samples)) = FlattenSeq(S) \o e.samples /\ FlattenSeq(S) \in Seq(Int \X Int)
    BY <1>4, <1>5, FlattenMore
  <1>11. FlattenSeq(Append(F, FieldsIn(e))) = FlattenSeq(F) \o FieldsIn(e) /\ FlattenSeq(F) \in Seq(FieldFunctions)
    BY <1>4, <1>6, FlattenMore
  <1>12. ResultsOK(more)
    <2>1. ASSUME NEW i \in 1 .. n + 1
          PROVE  ResultOK(more[i])
      <3>1. CASE i = n + 1
        BY <1>1, <3>1
      <3>2. CASE i # n + 1
        <4>1. i \in 1 .. n
          BY <1>1, <3>2
        <4> QED
          BY <1>1, <4>1 DEF ResultsOK
      <3> QED
        BY <3>1, <3>2
    <2> QED
      BY <1>1, <1>2, <2>1 DEF ResultsOK
  <1> QED
    BY <1>7, <1>8, <1>9, <1>10, <1>11, <1>12 DEF more

(* What the packet w with header h adds to the samples and to the fields. *)
SamplesAdded(w, h) == IF IsDataPacket(h.packetType) THEN SignalSamples(w, scale, order) ELSE <<>>
FieldsAdded(w, h) == IF IsContextPacket(h.packetType) THEN <<ContextFields(w, order)>> ELSE <<>>

(* A whole packet that parsePacket() accepts. *)
Whole(w, h) ==
    /\ IsPacket(w, h, order) /\ h.packetSize = Len(w) /\ Acceptable(w)
    /\ IsDataPacket(h.packetType) => scale # 0

(* The result for such a packet. *)
LEMMA FoundResult ==
    ASSUME scale \in 0 .. 2, NEW w, NEW h, Whole(w, h), NEW e, Found(e, w, h, scale, order)
    PROVE  ResultOK(e) /\ e.samples = SamplesAdded(w, h) /\ FieldsIn(e) = FieldsAdded(w, h)
  <1>1. /\ IsPacket(w, h, order) /\ h.packetSize = Len(w) /\ Acceptable(w) /\ Fixed(w[1]).packetType = h.packetType
    BY PacketFixed DEF Whole
  <1>2. CASE IsDataPacket(h.packetType)
    <2>1. scale \in 1 .. 2
      BY <1>2 DEF Whole
    <2>2. Stable(SignalSamples(w, scale, order), scale, order)
      BY <1>1, <1>2, <2>1, SamplesStable
    <2>3. e.samples = SignalSamples(w, scale, order) /\ e.type = "SignalData" /\ ~ IsContextPacket(h.packetType)
      BY <1>2 DEF Found, IsDataPacket, IsContextPacket
    <2> QED
      BY <1>2, <2>2, <2>3 DEF Stable, ResultOK, SamplesAdded, FieldsAdded, FieldsIn
  <1>3. CASE IsContextPacket(h.packetType)
    <2>1. ~ IsDataPacket(h.packetType)
      BY <1>3 DEF IsDataPacket, IsContextPacket
    <2>2. e.samples = <<>> /\ e.type = "Context" /\ e.fields = ContextFields(w, order)
      BY <1>3, <2>1 DEF Found
    <2>3. Exact(ContextFields(w, order))
      <3>1. ContextValid(w)
        BY <1>1, <1>3, <2>1 DEF Acceptable
      <3> QED
        BY <1>1, <3>1, ContextFound
    <2> DEFINE fields == ContextFields(w, order)
    <2> HIDE DEF fields
    <2>4. fields = [b \in Field |-> fields[b]] /\ FieldsOK(fields)
      BY <2>3 DEF Exact, fields
    <2>5. ASSUME NEW b \in Field
          PROVE  fields[b] \in Seq(Int)
      <3>1. CASE fields[b] = <<>>
        BY <3>1
      <3>2. CASE fields[b] # <<>>
        <4>1. fields[b] = <<fields[b][1]>> /\ FieldValue(b, fields[b][1])
          BY <2>4, <3>2 DEF FieldsOK
        <4>2. fields[b][1] \in Int
          <5>1. \A n \in Word : n \in Int
            BY WordPowers DEF Word
          <5> QED
            BY <4>1, <5>1 DEF FieldValue
        <4>3. <<fields[b][1]>> \in Seq(Int)
          BY <4>2
        <4> QED
          BY <4>1, <4>3
      <3> QED
        BY <3>1, <3>2
    <2>6. fields \in FieldFunctions
      BY <2>4, <2>5 DEF FieldFunctions
    <2> QED
      BY <1>3, <2>1, <2>2, <2>6 DEF ResultOK, SamplesAdded, FieldsAdded, FieldsIn, fields
  <1>4. CASE ~ IsDataPacket(h.packetType) /\ ~ IsContextPacket(h.packetType)
    <2>1. e.samples = <<>> /\ e.type = "Unknown"
      BY <1>4 DEF Found
    <2> QED
      BY <1>4, <2>1 DEF ResultOK, SamplesAdded, FieldsAdded, FieldsIn
  <1> QED
    BY <1>2, <1>3, <1>4

(* After some turns parseStream() is at a, and has found the samples X and *)
(* the fields Y.                                                           *)
Reads(f, a, X, Y) ==
    \E n, ps : /\ n \in 0 .. a /\ f[n] = [offset |-> a, packets |-> ps] /\ ResultsOK(ps)
               /\ AllSamples(ps) = X /\ AllFields(ps) = Y

(* At a packet that it accepts it takes a turn. *)
LEMMA ReadsOne ==
    ASSUME scale \in 0 .. 2, NEW words \in Seq(Word), NEW f, Turns(f, words, Len(words)),
           NEW a \in Nat, NEW X, NEW Y, Reads(f, a, X, Y),
           NEW w, NEW h, Whole(w, h), Block(words, a, w)
    PROVE  Reads(f, a + Len(w), X \o SamplesAdded(w, h), Y \o FieldsAdded(w, h))
  <1> DEFINE L == Len(words)
             rest == SubSeq(words, a + 1, L)
             e == ParsedPacket(rest)
  <1>1. PICK n, ps : /\ n \in 0 .. a /\ f[n] = [offset |-> a, packets |-> ps] /\ ResultsOK(ps)
                     /\ AllSamples(ps) = X /\ AllFields(ps) = Y
    BY DEF Reads
  <1>2. IsPacket(w, h, order) /\ h.packetSize = Len(w) /\ Acceptable(w) /\ ~ Rejected(w, h)
    BY DEF Whole, Rejected
  <1>3. Len(w) \in Nat /\ Len(w) >= 1 /\ L \in Nat
    BY <1>2, PacketFixed
  <1>4. a + Len(w) <= L /\ \A k \in 1 .. Len(w) : words[a + k] = w[k]
    BY DEF Block
  <1>5. rest \in Seq(Word) /\ Len(rest) = L - a /\ \A j \in 1 .. L - a : rest[j] = words[a + j]
    <2>1. a <= L
      BY <1>3, <1>4
    <2> QED
      BY <1>3, <2>1, Part
  <1> HIDE DEF rest, L
  <1>6. Begins(rest, w)
    <2>1. Len(rest) > 0
      BY <1>3, <1>4, <1>5
    <2>2. ASSUME NEW k \in 1 .. Len(rest), k <= Len(w)
          PROVE  rest[k] = w[k]
      <3>1. k \in 1 .. L - a /\ k \in 1 .. Len(w)
        BY <1>3, <1>5, <2>2
      <3> QED
        BY <1>4, <1>5, <3>1
    <2> QED
      BY <1>5, <2>1, <2>2 DEF Begins
  <1>7. /\ Fixed(rest[1]).packetSize = Len(w) /\ PacketValid(rest) /\ Found(e, w, h, scale, order)
    <2>1. Len(w) <= Len(rest)
      BY <1>3, <1>4, <1>5
    <2> QED
      BY <1>2, <1>6, <2>1, PacketSeen
  <1>8. rest # <<>>
    BY <1>3, <1>4, <1>5
  <1> HIDE DEF e
  <1>9. Turn(words, f[n]) = [offset |-> a + Len(w), packets |-> Append(ps, e)]
    <2> DEFINE st == f[n]
    <2>1. st.offset = a /\ st.packets = ps
      BY <1>1
    <2> HIDE DEF st
    <2>2. rest = SubSeq(words, st.offset + 1, Len(words))
      BY <2>1 DEF rest, L
    <2>3. Turn(words, st) = IF rest = <<>> \/ ~ PacketValid(rest) THEN st
                            ELSE [offset  |-> st.offset + Fixed(rest[1]).packetSize,
                                  packets |-> Append(st.packets, ParsedPacket(rest))]
      BY <2>2 DEF Turn
    <2> QED
      BY <1>7, <1>8, <2>1, <2>3 DEF e, st
  <1>10. n + 1 \in 0 .. L /\ n + 1 # 0 /\ (n + 1) - 1 = n /\ n + 1 \in 0 .. a + Len(w)
    BY <1>1, <1>3, <1>4
  <1>11. f[n + 1] = Turn(words, f[n])
    <2>1. f[n + 1] = IF n + 1 = 0 THEN NoTurn ELSE Turn(words, f[(n + 1) - 1])
      BY <1>3, <1>10, TurnsAt DEF L
    <2> QED
      BY <1>10, <2>1
  <1>12. ResultOK(e) /\ e.samples = SamplesAdded(w, h) /\ FieldsIn(e) = FieldsAdded(w, h)
    BY <1>7, FoundResult
  <1>13. /\ ResultsOK(Append(ps, e)) /\ AllSamples(Append(ps, e)) = X \o e.samples
         /\ AllFields(Append(ps, e)) = Y \o FieldsIn(e)
    BY <1>1, <1>12, AllMore
  <1> QED
    BY <1>9, <1>10, <1>11, <1>12, <1>13 DEF Reads

(* At the end there is no further turn. *)
LEMMA ReadsEnd ==
    ASSUME NEW words \in Seq(Word), NEW f, Turns(f, words, Len(words)), NEW X, NEW Y, Reads(f, Len(words), X, Y)
    PROVE  AllSamples(f[Len(words)].packets) = X /\ AllFields(f[Len(words)].packets) = Y
  <1> DEFINE L == Len(words)
  <1>1. PICK n, ps : /\ n \in 0 .. L /\ f[n] = [offset |-> L, packets |-> ps] /\ ResultsOK(ps)
                     /\ AllSamples(ps) = X /\ AllFields(ps) = Y
    BY DEF Reads
  <1>2. Turn(words, f[n]) = f[n]
    <2>1. SubSeq(words, L + 1, L) = <<>>
      OBVIOUS
    <2> QED
      BY <1>1, <2>1 DEF Turn
  <1>3. L \in Nat
    OBVIOUS
  <1> HIDE DEF L
  <1> DEFINE T == {k \in Nat : n + k <= L => f[n + k] = f[n]}
  <1>4. 0 \in T
    BY <1>1
  <1>5. ASSUME NEW k \in Nat, k \in T
        PROVE  k + 1 \in T
    <2> SUFFICES ASSUME n + (k + 1) <= L
                 PROVE  f[n + (k + 1)] = f[n]
      OBVIOUS
    <2>1. f[n + k] = f[n]
      BY <1>1, <1>3, <1>5
    <2> DEFINE i == n + (k + 1)
    <2>2. i \in 0 .. L /\ i # 0 /\ i - 1 = n + k
      BY <1>1, <1>3
    <2> HIDE DEF i
    <2>3. f[i] = IF i = 0 THEN NoTurn ELSE Turn(words, f[i - 1])
      BY <1>3, <2>2, TurnsAt DEF L
    <2>4. f[i] = f[n]
      BY <1>2, <2>1, <2>2, <2>3
    <2> QED
      BY <2>4 DEF i
  <1> HIDE DEF T
  <1>6. L - n \in Nat /\ n + (L - n) = L
    BY <1>1, <1>3
  <1>7. L - n \in T
    BY <1>4, <1>5, <1>6, SetInduction
  <1>8. f[L] = f[n]
    BY <1>3, <1>6, <1>7 DEF T
  <1> QED
    BY <1>1, <1>8 DEF L

(* The b elements of s after the first a. *)
Slice(s, a, b) == [j \in 1 .. b |-> s[a + j]]

(* The first elements of a sequence and those that follow. *)
LEMMA PrefixGrows ==
    ASSUME NEW W, NEW s \in Seq(W), NEW a \in Nat, NEW b \in Nat, a + b <= Len(s), NEW t, t = Slice(s, a, b)
    PROVE  SubSeq(s, 1, a) \o t = SubSeq(s, 1, a + b) /\ SubSeq(s, 1, a) \in Seq(W) /\ t \in Seq(W)
  <1> DEFINE p == SubSeq(s, 1, a)
             q == SubSeq(s, 1, a + b)
  <1>1. p \in Seq(W) /\ Len(p) = a /\ \A j \in 1 .. a : p[j] = s[j]
    <2>1. Len(s) \in Nat /\ 0 \in Nat /\ 0 <= a /\ a <= Len(s)
      OBVIOUS
    <2>2. SubSeq(s, 0 + 1, a) \in Seq(W) /\ Len(SubSeq(s, 0 + 1, a)) = a - 0 /\ \A j \in 1 .. a - 0 : SubSeq(s, 0 + 1, a)[j] = s[0 + j]
      BY <2>1, Part
    <2>3. 0 + 1 = 1 /\ a - 0 = a /\ \A j \in 1 .. a : 0 + j = j
      OBVIOUS
    <2> QED
      BY <2>2, <2>3
  <1>2. q \in Seq(W) /\ Len(q) = a + b /\ \A j \in 1 .. a + b : q[j] = s[j]
    <2> DEFINE c == a + b
    <2>1. Len(s) \in Nat /\ 0 \in Nat /\ c \in Nat /\ 0 <= c /\ c <= Len(s)
      OBVIOUS
    <2> HIDE DEF c
    <2>2. SubSeq(s, 0 + 1, c) \in Seq(W) /\ Len(SubSeq(s, 0 + 1, c)) = c - 0 /\ \A j \in 1 .. c - 0 : SubSeq(s, 0 + 1, c)[j] = s[0 + j]
      BY <2>1, Part
    <2>3. 0 + 1 = 1 /\ c - 0 = c /\ \A j \in 1 .. c : 0 + j = j
      BY <2>1
    <2>4. SubSeq(s, 1, c) \in Seq(W) /\ Len(SubSeq(s, 1, c)) = c /\ \A j \in 1 .. c : SubSeq(s, 1, c)[j] = s[j]
      BY <2>2, <2>3
    <2> QED
      BY <2>4 DEF c
  <1>3. t \in Seq(W) /\ Len(t) = b /\ \A j \in 1 .. b : t[j] = s[a + j]
    <2>1. \A j \in 1 .. b : s[a + j] \in W
      <3> SUFFICES ASSUME NEW j \in 1 .. b
                   PROVE  s[a + j] \in W
        OBVIOUS
      <3>1. a + j \in 1 .. Len(s)
        OBVIOUS
      <3> QED
        BY <3>1
    <2>2. t \in [1 .. b -> W] /\ \A j \in 1 .. b : t[j] = s[a + j]
      BY <2>1 DEF Slice
    <2> QED
      BY <2>2, FunctionSeq
  <1> HIDE DEF p, q
  <1>4. p \o t = q
    <2> DEFINE u == p \o t
    <2>1. /\ u \in Seq(W) /\ Len(u) = a + b /\ \A i \in 1 .. a : u[i] = p[i]
          /\ \A i \in 1 .. b : u[a + i] = t[i]
      <3>1. p \in Seq(W) /\ t \in Seq(W)
        BY <1>1, <1>3
      <3> HIDE DEF u
      <3>2. /\ p \o t \in Seq(W) /\ Len(p \o t) = Len(p) + Len(t) /\ \A i \in 1 .. Len(p) : (p \o t)[i] = p[i]
            /\ \A i \in 1 .. Len(t) : (p \o t)[Len(p) + i] = t[i]
        BY <3>1, Concat
      <3>3. Len(p) = a /\ Len(t) = b
        BY <1>1, <1>3
      <3> QED
        BY <3>2, <3>3 DEF u
    <2> HIDE DEF u
    <2>2. ASSUME NEW i \in 1 .. a + b
          PROVE  u[i] = q[i]
      <3>1. CASE i <= a
        <4>1. i \in 1 .. a
          BY <3>1
        <4> QED
          BY <1>1, <1>2, <2>1, <4>1
      <3>2. CASE i > a
        <4>1. i - a \in 1 .. b /\ a + (i - a) = i
          BY <3>2
        <4> QED
          BY <1>2, <1>3, <2>1, <4>1
      <3> QED
        BY <3>1, <3>2
    <2>3. u = [i \in 1 .. a + b |-> u[i]] /\ q = [i \in 1 .. a + b |-> q[i]]
      BY <1>2, <2>1
    <2>4. u = q
      BY <2>2, <2>3
    <2> QED
      BY <2>4 DEF u
  <1> QED
    BY <1>1, <1>3, <1>4 DEF p, q

(* The packet w gives the next samples, and no fields. *)
GivesNext(w, h, samples, m, have) ==
    /\ Whole(w, h) /\ FieldsAdded(w, h) = <<>>
    /\ have \in Nat /\ m \in Nat /\ m + have <= Len(samples)
    /\ SamplesAdded(w, h) = Slice(samples, m, have)

(* The samples that are read from the k-th packet. *)
LEMMA KthAgain ==
    ASSUME scale \in 1 .. 2, NEW samples, Stable(samples, scale, order), NEW id, NEW start, NEW stamp, NEW trailer,
           NEW number, NEW k, NEW w, NEW h, KthParts(w, h, id, samples, start, stamp, trailer, k, number),
           NEW g, g = NewHeader(1, id, start, trailer, stamp), g.trailerPresent = trailer, IsDataPacket(g.packetType),
           NEW have, have = Len(w) - SizeInWords(g) - trailer,
           NEW m, m = (k - 1) * MaxSamplesPerPacket(stamp, trailer)
    PROVE  GivesNext(w, h, samples, m, have)
  <1>1. /\ IsPacket(w, h, order) /\ SameHeader(h, g) /\ h.packetSize = Len(w) /\ Acceptable(w)
        /\ have \in Nat /\ m \in Nat /\ m + have <= Len(samples) /\ SizeInWords(g) \in Nat
        /\ \A j \in 1 .. have : w[SizeInWords(g) + j] = SampleWord(samples[m + j], scale, order)
    BY DEF KthParts
  <1>2. IsDataPacket(h.packetType) /\ ~ IsContextPacket(h.packetType)
    BY <1>1 DEF SameHeader, IsDataPacket, IsContextPacket
  <1>3. Whole(w, h) /\ FieldsAdded(w, h) = <<>> /\ SamplesAdded(w, h) = SignalSamples(w, scale, order)
    BY <1>1, <1>2 DEF Whole, FieldsAdded, SamplesAdded
  <1>4. SignalSamples(w, scale, order) = [j \in 1 .. have |-> ReadSample(w[SizeInWords(g) + j], scale, order)]
    <2> DEFINE c == [header |-> g]
    <2>1. c.header = g
      OBVIOUS
    <2>2. InPacket(w, c) = have
      BY <2>1 DEF InPacket
    <2> HIDE DEF c
    <2>3. SignalSamples(w, scale, order) = [j \in 1 .. InPacket(w, c) |-> ReadSample(w[SizeInWords(c.header) + j], scale, order)]
      BY <1>1, <2>1, PacketSamples
    <2> QED
      BY <2>1, <2>2, <2>3
  <1>5. ASSUME NEW j \in 1 .. have
        PROVE  ReadSample(w[SizeInWords(g) + j], scale, order) = samples[m + j]
    <2>1. m + j \in 1 .. Len(samples)
      <3>1. Len(samples) \in Nat
        BY DEF Stable
      <3> QED
        BY <1>1, <3>1
    <2> QED
      BY <1>1, <2>1 DEF Stable
  <1>6. SignalSamples(w, scale, order) = Slice(samples, m, have)
    BY <1>4, <1>5 DEF Slice
  <1> QED
    BY <1>1, <1>3, <1>6 DEF GivesNext

(* Sequences of samples, and one that goes on with the next ones of s. *)
SampleSeq == Seq(Int \X Int)
GoesOn(X, s, a, b) == (X \o SubSeq(s, 1, a)) \o Slice(s, a, b) = X \o SubSeq(s, 1, a + b)

(* The first samples of s, and those that follow them. *)
LEMMA SamplesGoOn ==
    ASSUME NEW X, X \in SampleSeq, NEW s, s \in SampleSeq, NEW a \in Nat, NEW b \in Nat, a + b <= Len(s)
    PROVE  GoesOn(X, s, a, b)
  <1> DEFINE W == Int \X Int
             p == SubSeq(s, 1, a)
             t == Slice(s, a, b)
  <1>1. X \in Seq(W) /\ s \in Seq(W)
    BY DEF SampleSeq
  <1> HIDE DEF W, t
  <1>2. SubSeq(s, 1, a) \o t = SubSeq(s, 1, a + b) /\ SubSeq(s, 1, a) \in Seq(W) /\ t \in Seq(W)
    BY <1>1, PrefixGrows DEF t
  <1> HIDE DEF p
  <1>3. (X \o p) \o t = X \o (p \o t)
    <2>1. p \in Seq(W) /\ t \in Seq(W)
      BY <1>2 DEF p
    <2>2. \A x, y, z \in Seq(W) : (x \o y) \o z = x \o (y \o z)
      BY ConcatAssociative
    <2> QED
      BY <1>1, <2>1, <2>2
  <1> QED
    BY <1>2, <1>3 DEF GoesOn, p, t

(* Packets made from samples that are stable give those samples again,     *)
(* however many packets there are.                                         *)
LEMMA SignalAgain ==
    ASSUME scale \in 1 .. 2, NEW samples, Stable(samples, scale, order), NEW id \in Word, NEW start \in Nat,
           NEW stamp \in TheStamps, NEW trailer \in 0 .. 1,
           NEW v, v = SignalPackets(id, samples, start, stamp, trailer),
           NEW words \in Seq(Word), NEW f, Turns(f, words, Len(words)), NEW a \in Nat, Block(words, a, v),
           NEW X, X \in SampleSeq, NEW Y, Y \in Seq(FieldFunctions), Reads(f, a, X, Y)
    PROVE  Reads(f, a + Len(v), X \o samples, Y)
  <1> DEFINE most == MaxSamplesPerPacket(stamp, trailer)
             number == NumberOf(samples, most)
             ws == [k \in 1 .. number |-> KthPacket(id, samples, start, stamp, trailer, k)]
             g == NewHeader(1, id, start, trailer, stamp)
             Have(k) == Len(ws[k]) - SizeInWords(g) - trailer
             Upto2(k) == IF k = number THEN Len(samples) ELSE k * most
  <1>1. samples \in Seq(Int \X Int) /\ Len(samples) \in Nat /\ scale \in Nat /\ scale \in 0 .. 2
    BY DEF Stable
  <1>2. /\ v = FlattenSeq(ws) /\ ws \in Seq(Seq(Word)) /\ Len(ws) = number /\ number \in Nat /\ number >= 1
    <2> HIDE DEF ws, number, most
    <2> QED
      BY <1>1, SignalFlat DEF ws, number, most
  <1>3. v \in Seq(Word) /\ \E st : Parts(v, ws, st)
    <2> HIDE DEF ws, number
    <2>1. Len(ws) # 0
      BY <1>2
    <2> QED
      BY <1>2, <2>1, FlattenParts
  <1>4. PICK st : Parts(v, ws, st)
    BY <1>3
  <1>5. most \in Nat /\ most > 0
    BY <1>1, NumberType
  <1>6. g.trailerPresent = trailer /\ IsDataPacket(g.packetType)
    <2>1. 1 \in {1, 4} /\ (trailer = 1 => 1 = 1) /\ stamp \in [tsi : 0 .. 3, tsf : 0 .. 3, int : Word, frac : Word \X Word]
      BY DEF TheStamps
    <2>2. Built(g, 1, start, trailer, stamp)
      BY <2>1, NewHeaderOK
    <2> QED
      BY <2>2 DEF Built, IsDataPacket
  <1>7. ASSUME NEW k \in 1 .. number
        PROVE  \E h : KthParts(ws[k], h, id, samples, start, stamp, trailer, k, number)
    <2>1. ws[k] = KthPacket(id, samples, start, stamp, trailer, k)
      OBVIOUS
    <2> HIDE DEF ws
    <2> QED
      BY <1>1, <2>1, KthFacts
  <1>8. /\ st[1] = 0 /\ st[number + 1] = Len(v) /\ st \in [1 .. number + 1 -> Nat]
        /\ \A k \in 1 .. number : /\ st[k + 1] = st[k] + Len(ws[k]) /\ st[k + 1] <= Len(v)
                                  /\ \A i \in 1 .. Len(ws[k]) : v[st[k] + i] = ws[k][i]
    <2> HIDE DEF ws, number
    <2> QED
      BY <1>2, <1>4 DEF Parts
  <1>9. a + Len(v) <= Len(words) /\ \A i \in 1 .. Len(v) : words[a + i] = v[i]
    BY DEF Block
  <1> HIDE DEF ws, number, most, g
  <1> DEFINE T == {k \in Nat : k < number => Reads(f, a + st[k + 1], X \o SubSeq(samples, 1, k * most), Y)}
  <1>10. ASSUME NEW k \in 1 .. number, Reads(f, a + st[k], X \o SubSeq(samples, 1, (k - 1) * most), Y)
         PROVE  Reads(f, a + st[k + 1], X \o SubSeq(samples, 1, Upto2(k)), Y)
    <2> DEFINE w == ws[k]
               m == (k - 1) * most
               have == Len(w) - SizeInWords(g) - trailer
    <2>1. PICK h : KthParts(w, h, id, samples, start, stamp, trailer, k, number)
      BY <1>7
    <2>2. /\ Whole(w, h) /\ FieldsAdded(w, h) = <<>> /\ have \in Nat /\ m \in Nat /\ m + have <= Len(samples)
          /\ SamplesAdded(w, h) = Slice(samples, m, have)
      <3>1. /\ have = Len(w) - SizeInWords(g) - trailer /\ m = (k - 1) * MaxSamplesPerPacket(stamp, trailer)
            /\ g = NewHeader(1, id, start, trailer, stamp)
        BY DEF g, most
      <3> HIDE DEF w, have, m
      <3>2. GivesNext(w, h, samples, m, have)
        BY <1>6, <2>1, <3>1, KthAgain
      <3> QED
        BY <3>2 DEF GivesNext
    <2>3. m + have = Upto2(k)
      <3>1. /\ SizeInWords(g) \in Nat /\ SizeInWords(g) + most + trailer = MaxPacketSizeWords /\ Len(w) \in Nat
            /\ (k # number => Len(w) = MaxPacketSizeWords) /\ (k = number => m + have = Len(samples))
        BY <2>1 DEF KthParts, g, most
      <3>2. CASE k = number
        BY <3>1, <3>2
      <3>3. CASE k # number
        <4>1. have = most
          BY <1>5, <3>1, <3>3
        <4>2. m + most = k * most
          BY <1>2, <1>5
        <4> HIDE DEF have, m
        <4> QED
          BY <3>3, <4>1, <4>2
      <3> QED
        BY <3>2, <3>3
    <2>4. st[k] \in Nat /\ st[k + 1] = st[k] + Len(w) /\ st[k + 1] <= Len(v) /\ Len(v) \in Nat /\ Len(w) \in Nat
      <3>1. k \in 1 .. number + 1
        BY <1>2
      <3>2. Len(w) \in Nat
        BY <2>1 DEF KthParts
      <3>3. st[k] \in Nat
        BY <1>8, <3>1
      <3>4. st[k + 1] = st[k] + Len(w) /\ st[k + 1] <= Len(v)
        BY <1>8
      <3>5. Len(v) \in Nat
        BY <1>3
      <3> QED
        BY <3>2, <3>3, <3>4, <3>5
    <2>5. Block(words, a + st[k], w)
      <3>1. (a + st[k]) + Len(w) <= Len(words)
        <4>1. Len(words) \in Nat /\ a + Len(v) <= Len(words)
          BY <1>9
        <4> HIDE DEF w
        <4> QED
          BY <2>4, <4>1
      <3>2. ASSUME NEW i \in 1 .. Len(w)
            PROVE  words[(a + st[k]) + i] = w[i]
        <4>1. st[k] + i \in 1 .. Len(v) /\ (a + st[k]) + i = a + (st[k] + i)
          <5> DEFINE d == st[k]
                     l == Len(w)
          <5>1. d \in Nat /\ l \in Nat /\ Len(v) \in Nat /\ d + l <= Len(v) /\ i \in 1 .. l
            BY <2>4
          <5> HIDE DEF d, l
          <5>2. d + i \in 1 .. Len(v) /\ (a + d) + i = a + (d + i)
            BY <5>1
          <5> QED
            BY <5>2 DEF d
        <4>2. v[st[k] + i] = w[i]
          BY <1>8
        <4> QED
          BY <1>9, <4>1, <4>2
      <3> QED
        BY <3>1, <3>2 DEF Block
    <2> DEFINE P == SubSeq(samples, 1, m)
               t == SamplesAdded(w, h)
    <2>6. (X \o P) \o t = X \o SubSeq(samples, 1, m + have)
      <3> HIDE DEF have, m, w
      <3>1. samples \in SampleSeq
        BY <1>1 DEF SampleSeq
      <3>2. GoesOn(X, samples, m, have)
        BY <2>2, <3>1, SamplesGoOn
      <3> QED
        BY <2>2, <3>2 DEF GoesOn
    <2>7. a + st[k] \in Nat
      BY <2>4
    <2>8. Reads(f, (a + st[k]) + Len(w), (X \o P) \o t, Y \o FieldsAdded(w, h))
      <3> HIDE DEF w, m
      <3> QED
        BY <1>1, <1>10, <2>2, <2>5, <2>7, ReadsOne DEF m
    <2> HIDE DEF w, m, have, t, P
    <2>9. (a + st[k]) + Len(w) = a + st[k + 1]
      BY <2>4
    <2>10. Y \o <<>> = Y
      BY ConcatEmptySeq
    <2> QED
      BY <2>2, <2>3, <2>6, <2>8, <2>9, <2>10
  <1>11. 0 \in T
    <2>1. 0 * most = 0 /\ 0 + 1 = 1 /\ a + 0 = a
      BY <1>5
    <2>2. X \o SubSeq(samples, 1, 0) = X
      <3>1. SubSeq(samples, 1, 0) = <<>>
        BY <1>1
      <3> QED
        BY <3>1, ConcatEmptySeq DEF SampleSeq
    <2> QED
      BY <1>8, <2>1, <2>2
  <1>12. ASSUME NEW k \in Nat, k \in T
         PROVE  k + 1 \in T
    <2> SUFFICES ASSUME k + 1 < number
                 PROVE  Reads(f, a + st[(k + 1) + 1], X \o SubSeq(samples, 1, (k + 1) * most), Y)
      OBVIOUS
    <2>1. k + 1 \in 1 .. number /\ (k + 1) - 1 = k /\ k + 1 # number /\ k < number
      BY <1>2
    <2>2. Reads(f, a + st[k + 1], X \o SubSeq(samples, 1, ((k + 1) - 1) * most), Y)
      BY <1>12, <2>1
    <2>3. Reads(f, a + st[(k + 1) + 1], X \o SubSeq(samples, 1, Upto2(k + 1)), Y)
      BY <1>10, <2>1, <2>2
    <2> QED
      BY <2>1, <2>3
  <1> HIDE DEF T
  <1>13. number - 1 \in T /\ number - 1 < number /\ (number - 1) + 1 = number
    <2>1. number - 1 \in Nat
      BY <1>2
    <2>2. Nat \subseteq T
      BY <1>11, <1>12, SetInduction
    <2> QED
      BY <1>2, <2>1, <2>2
  <1>14. Reads(f, a + st[number], X \o SubSeq(samples, 1, (number - 1) * most), Y)
    BY <1>13 DEF T
  <1>15. Reads(f, a + st[number + 1], X \o SubSeq(samples, 1, Len(samples)), Y)
    <2>1. number \in 1 .. number
      BY <1>2
    <2> QED
      BY <1>10, <1>14, <2>1
  <1>16. SubSeq(samples, 1, Len(samples)) = samples
    BY <1>1
  <1> QED
    BY <1>8, <1>15, <1>16

(* Each result is that of a whole packet. *)
LEMMA ResultFound ==
    ASSUME Inv, NEW i \in 1 .. Len(parsed)
    PROVE  \E w, h : Whole(w, h) /\ Found(parsed[i], w, h, scale, order)
  <1>1. i \in DOMAIN parsed
    BY Domains
  <1>2. PICK n \in DOMAIN calls : ResultOf(i, n)
    BY <1>1, Results
  <1>3. PICK S, w, h : EntryIn(parsed[i], After(parsed, reader, i), S, calls[n], stream, scale, order, w, h)
    BY <1>2 DEF ResultOf
  <1>4. /\ calls[n].wellFormed /\ PacketIn(stream, parsed[i].at, S, calls[n], order, w, h)
        /\ Found(parsed[i], w, h, scale, order)
    BY <1>3 DEF EntryIn
  <1>5. IsPacket(w, h, order) /\ Acceptable(w) /\ h.packetSize = Len(w)
    BY <1>4 DEF PacketIn
  <1>6. IsDataPacket(h.packetType) => scale # 0
    BY <1>4 DEF Found
  <1> QED
    BY <1>4, <1>5, <1>6 DEF Whole

(* The scale factor and the byte order. *)
LEMMA Settings ==
    ASSUME Inv
    PROVE  scale \in 0 .. 2 /\ order \in ByteOrder
  BY CodecAssumption DEF Inv

(* Wherever the words v are read, what is read next are the samples and    *)
(* the fields of the result e.                                             *)
Again(v, e) ==
    \A words, f, a, X, Y :
        /\ words \in Seq(Word) /\ Turns(f, words, Len(words)) /\ a \in Nat /\ Block(words, a, v)
        /\ X \in SampleSeq /\ Y \in Seq(FieldFunctions) /\ Reads(f, a, X, Y)
        => Reads(f, a + Len(v), X \o e.samples, Y \o FieldsIn(e))

(* A result that is encoded again is found again. *)
LEMMA ResultAgain ==
    ASSUME Inv, NEW e, NEW w, NEW h, Whole(w, h), Found(e, w, h, scale, order), NEW v, v = ReEncode(e)
    PROVE  v \in Seq(Word) /\ Again(v, e)
  <1>1. scale \in 0 .. 2 /\ order \in ByteOrder
    BY Settings
  <1>2. IsPacket(w, h, order) /\ h.packetSize = Len(w) /\ Acceptable(w) /\ Fixed(w[1]).packetType = h.packetType
    BY PacketFixed DEF Whole
  <1>3. Arguments(h)
    BY <1>2, ArgumentsOK DEF IsPacket
  <1>4. CASE IsDataPacket(h.packetType)
    <2> DEFINE id == ValueOr(h.streamId, 0)
               stamp == StampOf(h)
    <2>1. e.type = "SignalData" /\ e.header = h /\ e.samples = SignalSamples(w, scale, order) /\ scale \in 1 .. 2
      BY <1>1, <1>4 DEF Found
    <2>2. v = SignalPackets(id, e.samples, h.packetCount, stamp, h.trailerPresent)
      BY <2>1 DEF ReEncode
    <2>3. id \in Word /\ stamp \in TheStamps /\ h.packetCount \in Nat /\ h.trailerPresent \in 0 .. 1
      BY <1>3 DEF Arguments
    <2>4. Stable(e.samples, scale, order)
      BY <1>2, <1>4, <2>1, SamplesStable
    <2> HIDE DEF id, stamp
    <2>5. v \in Seq(Word)
      <3> DEFINE number == NumberOf(e.samples, MaxSamplesPerPacket(stamp, h.trailerPresent))
                 ws == [k \in 1 .. number |-> KthPacket(id, e.samples, h.packetCount, stamp, h.trailerPresent, k)]
      <3>1. e.samples \in Seq(Int \X Int) /\ scale \in Nat
        BY <2>1, <2>4 DEF Stable
      <3> HIDE DEF number, ws
      <3>2. v = FlattenSeq(ws) /\ ws \in Seq(Seq(Word)) /\ Len(ws) = number /\ number \in Nat /\ number >= 1
        BY <2>2, <2>3, <3>1, SignalFlat DEF ws, number
      <3>3. Len(ws) # 0
        BY <3>2
      <3> QED
        BY <3>2, <3>3, FlattenParts
    <2>6. ASSUME NEW words \in Seq(Word), NEW f, Turns(f, words, Len(words)), NEW a \in Nat, Block(words, a, v),
                 NEW X, X \in SampleSeq, NEW Y, Y \in Seq(FieldFunctions), Reads(f, a, X, Y)
          PROVE  Reads(f, a + Len(v), X \o e.samples, Y \o FieldsIn(e))
      <3>1. Reads(f, a + Len(v), X \o e.samples, Y)
        BY <2>1, <2>2, <2>3, <2>4, <2>6, SignalAgain
      <3>2. FieldsIn(e) = <<>> /\ Y \o <<>> = Y
        BY <2>1, <2>6, ConcatEmptySeq DEF FieldsIn
      <3> QED
        BY <3>1, <3>2
    <2> QED
      BY <2>5, <2>6 DEF Again
  <1>5. CASE IsContextPacket(h.packetType)
    <2>1. ~ IsDataPacket(h.packetType)
      BY <1>5 DEF IsDataPacket, IsContextPacket
    <2>2. e.type = "Context" /\ e.header = h /\ e.fields = ContextFields(w, order) /\ e.samples = <<>>
      BY <1>5, <2>1 DEF Found
    <2>3. v = ContextEncode(NewHeader(4, ValueOr(h.streamId, 0), h.packetCount, 0, StampOf(h)), e.fields, order)
      BY <2>2 DEF ReEncode
    <2>4. ContextValid(w)
      BY <1>2, <1>5, <2>1 DEF Acceptable
    <2>5. ContextAgain(v, ContextFields(w, order))
      BY <1>1, <1>2, <2>2, <2>3, <2>4, ContextReEncoded
    <2>6. PICK k : /\ IsPacket(v, k, order) /\ k.packetSize = Len(v) /\ Acceptable(v)
                   /\ IsContextPacket(k.packetType) /\ ContextFields(v, order) = e.fields
      BY <2>2, <2>5 DEF ContextAgain
    <2>7. Whole(v, k) /\ SamplesAdded(v, k) = <<>> /\ FieldsAdded(v, k) = FieldsIn(e)
      <3>1. ~ IsDataPacket(k.packetType)
        BY <2>6 DEF IsDataPacket, IsContextPacket
      <3> QED
        BY <2>2, <2>6, <3>1 DEF Whole, SamplesAdded, FieldsAdded, FieldsIn
    <2>8. ASSUME NEW words \in Seq(Word), NEW f, Turns(f, words, Len(words)), NEW a \in Nat, Block(words, a, v),
                 NEW X, X \in SampleSeq, NEW Y, Y \in Seq(FieldFunctions), Reads(f, a, X, Y)
          PROVE  Reads(f, a + Len(v), X \o e.samples, Y \o FieldsIn(e))
      <3>1. Reads(f, a + Len(v), X \o SamplesAdded(v, k), Y \o FieldsAdded(v, k))
        BY <1>1, <2>7, <2>8, ReadsOne
      <3> QED
        BY <2>2, <2>7, <3>1
    <2> QED
      BY <2>6, <2>8 DEF IsPacket, Again
  <1>6. CASE ~ IsDataPacket(h.packetType) /\ ~ IsContextPacket(h.packetType)
    <2>1. e.type = "Unknown" /\ e.samples = <<>>
      BY <1>6 DEF Found
    <2>2. v = <<>> /\ FieldsIn(e) = <<>>
      BY <2>1 DEF ReEncode, FieldsIn
    <2>3. ASSUME NEW f, NEW a \in Nat, NEW X, X \in SampleSeq, NEW Y, Y \in Seq(FieldFunctions), Reads(f, a, X, Y)
          PROVE  Reads(f, a + Len(v), X \o e.samples, Y \o FieldsIn(e))
      <3>1. X \o <<>> = X
        BY <2>3, ConcatEmptySeq DEF SampleSeq
      <3>2. Y \o <<>> = Y
        BY <2>3, ConcatEmptySeq
      <3>3. a + Len(v) = a
        BY <2>2
      <3> QED
        BY <2>1, <2>2, <2>3, <3>1, <3>2, <3>3
    <2> QED
      BY <2>2, <2>3 DEF Again
  <1> QED
    BY <1>4, <1>5, <1>6

(* One more element of a sequence. *)
LEMMA PrefixAppend ==
    ASSUME NEW C, NEW s \in Seq(C), NEW i \in Nat, i < Len(s)
    PROVE  SubSeq(s, 1, i + 1) = Append(SubSeq(s, 1, i), s[i + 1])
  OBVIOUS

(* What parseStream() found is found again in the packets made from it. *)
LEMMA RoundTripInv ==
    ASSUME Inv
    PROVE  AllSamples(DoRoundTrip) = AllSamples(parsed) /\ AllFields(DoRoundTrip) = AllFields(parsed)
  <1> DEFINE N == Len(parsed)
             vs == [i \in 1 .. N |-> ReEncode(parsed[i])]
             words == FlattenSeq(vs)
             Pre(i) == SubSeq(parsed, 1, i)
  <1>1. DOMAIN parsed = 1 .. N /\ N \in Nat
    BY Domains
  <1>2. PICK C : parsed \in Seq(C)
    BY DEF Inv, PlacesOK, ReaderOK, IsSeq
  <1>3. DoRoundTrip = ParseAll(words)
    BY <1>1 DEF DoRoundTrip
  <1>4. CASE N = 0
    <2>1. vs = <<>> /\ parsed = <<>>
      BY <1>2, <1>4
    <2>2. words = <<>>
      BY <2>1 DEF FlattenSeq
    <2> HIDE DEF words
    <2>3. Len(words) = 0
      BY <2>2
    <2>4. PICK f : Turns(f, words, Len(words)) /\ ParseAll(words) = f[Len(words)].packets
      BY <2>3, ParseAllTurns
    <2>5. f[0] = NoTurn
      <3>1. 0 \in 0 .. 0 /\ Turns(f, words, 0)
        BY <2>3, <2>4
      <3> QED
        BY <3>1, TurnsAt
    <2>6. ParseAll(words) = <<>>
      BY <2>3, <2>4, <2>5 DEF NoTurn
    <2> QED
      BY <1>3, <2>1, <2>6
  <1>5. CASE N # 0
    <2>1. ASSUME NEW i \in 1 .. N
          PROVE  ResultOK(parsed[i]) /\ ReEncode(parsed[i]) \in Seq(Word)
      <3>1. PICK w, h : Whole(w, h) /\ Found(parsed[i], w, h, scale, order)
        BY ResultFound
      <3> QED
        BY <3>1, Settings, FoundResult, ResultAgain
    <2>2. vs \in Seq(Seq(Word)) /\ Len(vs) = N
      <3>1. vs \in [1 .. N -> Seq(Word)]
        BY <2>1
      <3> QED
        BY <1>1, <3>1, FunctionSeq
    <2>3. words \in Seq(Word) /\ \E st : Parts(words, vs, st)
      <3> HIDE DEF vs
      <3> QED
        BY <1>5, <2>2, FlattenParts
    <2>4. PICK st : Parts(words, vs, st)
      BY <2>3
    <2>5. \A i \in 1 .. N : vs[i] = ReEncode(parsed[i])
      OBVIOUS
    <2> HIDE DEF vs, words
    <2>6. /\ st[1] = 0 /\ st[N + 1] = Len(words) /\ st \in [1 .. N + 1 -> Nat]
          /\ \A i \in 1 .. N : st[i + 1] = st[i] + Len(vs[i]) /\ st[i + 1] <= Len(words)
                               /\ \A j \in 1 .. Len(vs[i]) : words[st[i] + j] = vs[i][j]
      BY <2>2, <2>4 DEF Parts
    <2>7. PICK f : Turns(f, words, Len(words)) /\ ParseAll(words) = f[Len(words)].packets
      <3>1. Len(words) \in Nat
        BY <2>3
      <3> QED
        BY <3>1, ParseAllTurns
    <2>8. ASSUME NEW i \in 0 .. N
          PROVE  ResultsOK(Pre(i))
      <3>1. Pre(i) \in Seq(C) /\ Len(Pre(i)) = i /\ \A j \in 1 .. i : Pre(i)[j] = parsed[j]
        BY <1>1, <1>2
      <3>2. \A j \in 1 .. i : ResultOK(parsed[j])
        BY <1>1, <2>1
      <3> HIDE DEF Pre
      <3> QED
        BY <3>1, <3>2 DEF ResultsOK, IsSeq
    <2> DEFINE At(i) == Reads(f, st[i + 1], AllSamples(Pre(i)), AllFields(Pre(i)))
               T == {i \in Nat : i <= N => At(i)}
    <2>9. 0 \in T
      <3>1. Pre(0) = <<>>
        BY <1>2
      <3>2. f[0] = [offset |-> 0, packets |-> <<>>]
        <4>1. 0 \in 0 .. Len(words) /\ Len(words) \in Nat
          BY <2>3
        <4> QED
          BY <2>7, <4>1, TurnsAt DEF NoTurn
      <3>3. ResultsOK(<<>>)
        <4>1. 0 \in 0 .. N
          BY <1>1
        <4> QED
          BY <2>8, <3>1, <4>1
      <3>4. Reads(f, 0, AllSamples(<<>>), AllFields(<<>>))
        <4>1. 0 \in 0 .. 0
          OBVIOUS
        <4> QED
          BY <3>2, <3>3, <4>1 DEF Reads
      <3>5. st[0 + 1] = 0
        BY <2>6
      <3>6. At(0)
        BY <3>1, <3>4, <3>5
      <3> HIDE DEF At
      <3> QED
        BY <3>6
    <2>10. ASSUME NEW i \in Nat, i \in T
           PROVE  i + 1 \in T
      <3> SUFFICES ASSUME i + 1 <= N
                   PROVE  At(i + 1)
        OBVIOUS
      <3> DEFINE e == parsed[i + 1]
                 v == vs[i + 1]
                 a == st[i + 1]
                 X == AllSamples(Pre(i))
                 Y == AllFields(Pre(i))
      <3>1. i + 1 \in 1 .. N /\ i \in 0 .. N /\ i < N /\ i <= N /\ i + 1 \in 1 .. N + 1
        BY <1>1
      <3>2. Reads(f, a, X, Y)
        BY <2>10, <3>1
      <3>3. ResultsOK(Pre(i)) /\ ResultOK(e)
        BY <2>1, <2>8, <3>1
      <3>4. Pre(i + 1) = Append(Pre(i), e)
        BY <1>2, <3>1, PrefixAppend
      <3> HIDE DEF Pre
      <3>5. /\ AllSamples(Pre(i + 1)) = X \o e.samples /\ X \in SampleSeq
            /\ AllFields(Pre(i + 1)) = Y \o FieldsIn(e) /\ Y \in Seq(FieldFunctions)
        <4>1. /\ AllSamples(Append(Pre(i), e)) = X \o e.samples /\ X \in Seq(Int \X Int)
              /\ AllFields(Append(Pre(i), e)) = Y \o FieldsIn(e) /\ Y \in Seq(FieldFunctions)
          <5> HIDE DEF e
          <5> QED
            BY <3>3, AllMore
        <4> QED
          BY <3>4, <4>1 DEF SampleSeq
      <3>6. a \in Nat /\ st[(i + 1) + 1] = a + Len(v) /\ st[(i + 1) + 1] <= Len(words)
            /\ \A j \in 1 .. Len(v) : words[a + j] = v[j]
        BY <2>6, <3>1
      <3>7. Block(words, a, v)
        BY <3>6 DEF Block
      <3>8. v = ReEncode(e)
        BY <2>5, <3>1
      <3>9. PICK w, h : Whole(w, h) /\ Found(e, w, h, scale, order)
        BY <3>1, ResultFound
      <3> HIDE DEF e, v, a, X, Y
      <3>10. Again(v, e)
        BY <3>8, <3>9, ResultAgain
      <3>11. Reads(f, a + Len(v), X \o e.samples, Y \o FieldsIn(e))
        <4>1. words \in Seq(Word) /\ Turns(f, words, Len(words)) /\ a \in Nat /\ X \in SampleSeq /\ Y \in Seq(FieldFunctions)
          BY <2>3, <2>7, <3>5, <3>6
        <4> QED
          BY <3>2, <3>7, <3>10, <4>1 DEF Again
      <3> QED
        BY <3>5, <3>6, <3>11
    <2> HIDE DEF T
    <2>11. At(N)
      <3>1. Nat \subseteq T
        BY <2>9, <2>10, SetInduction
      <3> HIDE DEF At
      <3> QED
        BY <1>1, <3>1 DEF T
    <2>12. Pre(N) = parsed
      BY <1>2
    <2>13. Reads(f, Len(words), AllSamples(parsed), AllFields(parsed))
      BY <2>6, <2>11, <2>12
    <2>14. AllSamples(f[Len(words)].packets) = AllSamples(parsed) /\ AllFields(f[Len(words)].packets) = AllFields(parsed)
      BY <2>3, <2>7, <2>13, ReadsEnd
    <2> QED
      BY <1>3, <2>7, <2>14
  <1> QED
    BY <1>4, <1>5

(* The round trip of Vita49FileCodec loses nothing that parseStream() has  *)
(* found, and changes none of its values.                                  *)
THEOREM RoundTripHolds == Spec => []RoundTripExact
  <1>1. Inv => RoundTripExact
    BY RoundTripInv DEF RoundTripExact
  <1> QED
    BY <1>1, Invariant, PTL
=============================================================================
