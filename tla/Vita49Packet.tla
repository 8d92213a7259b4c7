----------------------------- MODULE Vita49Packet -----------------------------
(***************************************************************************)
(* VITA 49.2 packets: PacketHeaderCodec, SignalDataPacket, ContextPacket.  *)
(*                                                                         *)
(* A packet is a sequence of words, a word is a number, and the codec      *)
(* works on the bit fields of word 0, the two halves of a sample and the   *)
(* bits of CIF0 as the code does, with the widths as parameters: the size  *)
(* field has SizeBits bits, so a word has SizeBits + 16, and an I or Q     *)
(* value has HalfBits.  Only whole words matter: every length test of the  *)
(* code is a test on whole words.                                          *)
(*                                                                         *)
(* A float or double that is scaled to an integer is given in half steps   *)
(* of that integer, so that rounding is visible.  An optional value is the *)
(* sequence of the words it takes, empty when it is absent.                *)
(***************************************************************************)
EXTENDS Integers, SequencesExt

CONSTANTS SizeBits,      \* width of the packet size field, 16 in the code
          HalfBits       \* width of an I or Q value, a level and a gain, 16 in the code

(* A packet has room for a header and one sample, a word for two values. *)
ASSUME Vita49Assumption ==
    SizeBits \in Nat /\ SizeBits >= 3 /\ HalfBits \in Nat \ {0} /\ 2 * HalfBits <= SizeBits + 16

(* The law of powers that the proofs need, and that the prover lacks. *)
ASSUME PowersOfTwo ==
    \A n \in 0 .. SizeBits + 16 : 2 ^ n \in Nat \ {0} /\ 2 ^ (n + 1) = 2 * 2 ^ n

WordBits == SizeBits + 16
Word == 0 .. 2 ^ WordBits - 1
MaxPacketSizeWords == 2 ^ SizeBits - 1

Bits(word, low, width) == (word \div 2 ^ low) % 2 ^ width
Signed(n, width) == IF n >= 2 ^ (width - 1) THEN n - 2 ^ width ELSE n

(* lround and round: halves away from zero. *)
Round(halfSteps) ==
    IF halfSteps >= 0 THEN (halfSteps + 1) \div 2 ELSE - ((1 - halfSteps) \div 2)

ByteOrder == {"BigEndian", "LittleEndian"}

(* The two words <<high, low>> of a 64-bit value, in the order they take  *)
(* in the buffer and, because that is its own inverse, back.               *)
DWord(words, order) == IF order = "BigEndian" THEN words ELSE Reverse(words)
-----------------------------------------------------------------------------
(* PacketHeaderCodec.  The two class codes are taken as one word. *)

HasStreamId(type) == type \in {1, 3, 4, 5}
IsDataPacket(type) == type \in {0, 1, 2, 3}
IsContextPacket(type) == type \in {4, 5}

Header ==
    [packetType : 0 .. 15, classIdPresent : 0 .. 1, trailerPresent : 0 .. 1, tsiType : 0 .. 3,
     tsfType : 0 .. 3, packetCount : 0 .. 15, packetSize : 0 .. MaxPacketSizeWords,
     streamId : Seq(Word), classId : Seq(Word), integerTimestamp : Seq(Word),
     fractionalTimestamp : Seq(Word)]

DefaultHeader ==
    [packetType |-> 1, classIdPresent |-> 0, trailerPresent |-> 0, tsiType |-> 0, tsfType |-> 0,
     packetCount |-> 0, packetSize |-> 0, streamId |-> <<>>, classId |-> <<>>,
     integerTimestamp |-> <<>>, fractionalTimestamp |-> <<>>]

SizeInWords(h) ==
    1 + (IF HasStreamId(h.packetType) THEN 1 ELSE 0)
      + (IF h.classIdPresent = 1 THEN 2 ELSE 0)
      + (IF h.tsiType # 0 THEN 1 ELSE 0)
      + (IF h.tsfType # 0 THEN 2 ELSE 0)

(* The optional values are those that the type and the indicators announce, *)
(* and the OUI has 24 bits.                                                *)
Complete(h) ==
    /\ Len(h.streamId) = (IF HasStreamId(h.packetType) THEN 1 ELSE 0)
    /\ Len(h.classId) = (IF h.classIdPresent = 1 THEN 2 ELSE 0)
    /\ Len(h.integerTimestamp) = (IF h.tsiType # 0 THEN 1 ELSE 0)
    /\ Len(h.fractionalTimestamp) = (IF h.tsfType # 0 THEN 2 ELSE 0)
    /\ h.trailerPresent = 1 => IsDataPacket(h.packetType)
    /\ h.classIdPresent = 1 => h.classId[1] < 2 ^ (WordBits - 8)

Word0(h) ==
    h.packetType * 2 ^ (SizeBits + 12)
    + h.classIdPresent * 2 ^ (SizeBits + 11)
    + (IF IsDataPacket(h.packetType) THEN h.trailerPresent * 2 ^ (SizeBits + 10) ELSE 0)
    + h.tsiType * 2 ^ (SizeBits + 6)
    + h.tsfType * 2 ^ (SizeBits + 4)
    + h.packetCount * 2 ^ SizeBits
    + h.packetSize

(* The OUI has 24 bits of its word. *)
ClassIdWords(h) ==
    [k \in DOMAIN h.classId |-> IF k = 1 THEN h.classId[k] % 2 ^ (WordBits - 8) ELSE h.classId[k]]

(* Mutant: the timestamp is big-endian whatever the byte order is. *)
SerializeStampBigEndian(h, order) ==
    <<Word0(h)>>
    \o (IF HasStreamId(h.packetType) THEN h.streamId ELSE <<>>)
    \o (IF h.classIdPresent = 1 THEN ClassIdWords(h) ELSE <<>>)
    \o (IF h.tsiType # 0 THEN h.integerTimestamp ELSE <<>>)
    \o (IF h.tsfType # 0 THEN h.fractionalTimestamp ELSE <<>>)

Serialize(h, order) ==
    <<Word0(h)>>
    \o (IF HasStreamId(h.packetType) THEN h.streamId ELSE <<>>)
    \o (IF h.classIdPresent = 1 THEN ClassIdWords(h) ELSE <<>>)
    \o (IF h.tsiType # 0 THEN h.integerTimestamp ELSE <<>>)
    \o (IF h.tsfType # 0 THEN DWord(h.fractionalTimestamp, order) ELSE <<>>)

(* The header of the packet at the start of words.  It is valid if the     *)
(* packet and, in the packet, the header are complete.                     *)
Fixed(word0) ==
    LET type == Bits(word0, SizeBits + 12, 4)
    IN  [packetType     |-> type,
         classIdPresent |-> Bits(word0, SizeBits + 11, 1),
         trailerPresent |-> IF IsDataPacket(type) THEN Bits(word0, SizeBits + 10, 1) ELSE 0,
         tsiType        |-> Bits(word0, SizeBits + 6, 2),
         tsfType        |-> Bits(word0, SizeBits + 4, 2),
         packetCount    |-> Bits(word0, SizeBits, 4),
         packetSize     |-> Bits(word0, 0, SizeBits)]

HeaderValid(words) ==
    /\ words # <<>>
    /\ LET f == Fixed(words[1])
       IN  /\ f.packetSize # 0
           /\ f.packetSize <= Len(words)
           /\ SizeInWords(f) <= f.packetSize

Parse(words, order) ==
    LET f == Fixed(words[1])
        classAt == IF HasStreamId(f.packetType) THEN 3 ELSE 2
        tsiAt   == classAt + (IF f.classIdPresent = 1 THEN 2 ELSE 0)
        tsfAt   == tsiAt + (IF f.tsiType # 0 THEN 1 ELSE 0)
    IN  [packetType     |-> f.packetType,
         classIdPresent |-> f.classIdPresent,
         trailerPresent |-> f.trailerPresent,
         tsiType        |-> f.tsiType,
         tsfType        |-> f.tsfType,
         packetCount    |-> f.packetCount,
         packetSize     |-> f.packetSize,
         streamId   |-> IF HasStreamId(f.packetType) THEN <<words[2]>> ELSE <<>>,
         classId    |-> IF f.classIdPresent = 1
                        THEN <<words[classAt] % 2 ^ (WordBits - 8), words[classAt + 1]>>
                        ELSE <<>>,
         integerTimestamp    |-> IF f.tsiType # 0 THEN <<words[tsiAt]>> ELSE <<>>,
         fractionalTimestamp |-> IF f.tsfType # 0
                                 THEN DWord(<<words[tsfAt], words[tsfAt + 1]>>, order)
                                 ELSE <<>>]

(* The header that both encode() functions build. *)
NewHeader(type, streamId, count, trailer, stamp) ==
    [DefaultHeader EXCEPT
        !.packetType = type, !.trailerPresent = trailer, !.packetCount = count % 16,
        !.tsiType = stamp.tsi, !.tsfType = stamp.tsf, !.streamId = <<streamId>>,
        !.integerTimestamp    = IF stamp.tsi # 0 THEN <<stamp.int>> ELSE <<>>,
        !.fractionalTimestamp = IF stamp.tsf # 0 THEN stamp.frac ELSE <<>>]
-----------------------------------------------------------------------------
(* SignalDataPacket.  A sample is a pair <<I, Q>> in half steps of scale 1; *)
(* a scale factor is 0, 1 or 2, so that half steps stay whole.              *)

(* Mutant: a value beyond full scale is cut to its width, not clamped. *)
QuantiseWrapped(halfSteps) == Signed(Round(halfSteps) % 2 ^ HalfBits, HalfBits)

(* lround's long is cut to an int, which has as many bits as two values,    *)
(* before it is clamped.                                                    *)
IntBits == 2 * HalfBits
FitsInt(halfSteps) == Round(halfSteps) \in - 2 ^ (IntBits - 1) .. 2 ^ (IntBits - 1) - 1

Quantise(halfSteps) ==
    LET n   == Signed(Round(halfSteps) % 2 ^ IntBits, IntBits)
        top == 2 ^ (HalfBits - 1)
    IN  IF n < - top THEN - top ELSE IF n > top - 1 THEN top - 1 ELSE n

(* Two 16-bit values one after the other: as a word, the first one is the   *)
(* upper half in big-endian order and the lower half in little-endian order. *)
SampleWord(sample, scale, order) ==
    LET i == Quantise(sample[1] * scale) % 2 ^ HalfBits
        q == Quantise(sample[2] * scale) % 2 ^ HalfBits
    IN  IF order = "BigEndian" THEN i * 2 ^ HalfBits + q ELSE q * 2 ^ HalfBits + i

ReadSample(word, scale, order) ==
    LET upper == (2 * Signed(Bits(word, HalfBits, HalfBits), HalfBits)) \div scale
        lower == (2 * Signed(Bits(word, 0, HalfBits), HalfBits)) \div scale
    IN  IF order = "BigEndian" THEN <<upper, lower>> ELSE <<lower, upper>>

(* The packet, or <<>> when it would be too long. *)
SignalEncode(header, samples, scale, order) ==
    LET total == SizeInWords(header) + Len(samples) + header.trailerPresent
    IN  IF total > MaxPacketSizeWords
        THEN <<>>
        ELSE Serialize([header EXCEPT !.packetSize = total], order)
             \o [k \in 1 .. Len(samples) |-> SampleWord(samples[k], scale, order)]
             \o (IF header.trailerPresent = 1 THEN <<0>> ELSE <<>>)

SignalValid(words, scale) ==
    /\ scale # 0
    /\ HeaderValid(words)
    /\ LET f == Fixed(words[1])
       IN  /\ IsDataPacket(f.packetType)
           /\ SizeInWords(f) + f.trailerPresent <= f.packetSize

SignalSamples(words, scale, order) ==
    LET f == Fixed(words[1])
    IN  [k \in 1 .. f.packetSize - SizeInWords(f) - f.trailerPresent |->
           ReadSample(words[SizeInWords(f) + k], scale, order)]

MaxSamplesPerPacket(stamp, trailer) ==
    LET overhead == 2 + (IF stamp.tsi # 0 THEN 1 ELSE 0) + (IF stamp.tsf # 0 THEN 2 ELSE 0)
                      + trailer
    IN  IF overhead >= MaxPacketSizeWords THEN 0 ELSE MaxPacketSizeWords - overhead
-----------------------------------------------------------------------------
(* ContextPacket.  A field is named by its bit of CIF0.  fields[b] is <<>> *)
(* or <<n>>: the number of a field of one word, or the value, in half      *)
(* steps, of a field that is scaled.  The change indicator is a field of   *)
(* no words.  The conversion of a level or a gain to 16 bits is given for  *)
(* a value in their range.                                                 *)

ChangeIndicator == 31
FieldOrder == <<ChangeIndicator, 30, 29, 28, 27, 26, 25, 24, 23, 22, 21>>
Field == {FieldOrder[i] : i \in DOMAIN FieldOrder}
NoFields == [b \in Field |-> <<>>]

PlainField == {ChangeIndicator, 30, 22}
RefLevel == 24
Gain == 23

(* The values a field can hold: those of its width. *)
FieldValue(b, n) ==
    IF b = ChangeIndicator THEN n = 1
    ELSE IF b \in PlainField THEN n \in Word
    ELSE IF b \in {RefLevel, Gain}
    THEN n \in Int /\ Round(n) \in - 2 ^ (HalfBits - 1) .. 2 ^ (HalfBits - 1) - 1
    ELSE n \in Int /\ Round(n) \div 2 ^ WordBits \in - 2 ^ (WordBits - 1) .. 2 ^ (WordBits - 1) - 1

(* freqToFixed and freqFromFixed. *)
FreqToFixed(halfSteps) ==
    LET n == Round(halfSteps)
    IN  <<(n \div 2 ^ WordBits) % 2 ^ WordBits, n % 2 ^ WordBits>>
FreqFromFixed(words) == 2 * (Signed(words[1], WordBits) * 2 ^ WordBits + words[2])

Cif0Bit(b) == 2 ^ (b - 32 + WordBits)
Cif0Has(cif0, b) == (cif0 \div Cif0Bit(b)) % 2 = 1

(* The words of a field by its bit, as far as decode() looks, which is 15. *)
Cif0FieldSizeWords(b) ==
    IF b = ChangeIndicator THEN 0 ELSE IF b \in {30, 24, 23, 22, 19, 18, 16} THEN 1 ELSE 2

(* Mutant: a gain is stored where the reference level is. *)
FieldWordsGainHigh(b, n, order) ==
    IF b = ChangeIndicator THEN <<>>
    ELSE IF b \in PlainField THEN <<n>>
    ELSE IF b \in {RefLevel, Gain} THEN <<(Round(n) % 2 ^ HalfBits) * 2 ^ HalfBits>>
    ELSE DWord(FreqToFixed(n), order)

(* A level goes into the upper half of its word, a gain into the lower;    *)
(* frequencies and rates take two words.                                   *)
FieldWords(b, n, order) ==
    IF b = ChangeIndicator THEN <<>>
    ELSE IF b \in PlainField THEN <<n>>
    ELSE IF b = RefLevel THEN <<(Round(n) % 2 ^ HalfBits) * 2 ^ HalfBits>>
    ELSE IF b = Gain THEN <<Round(n) % 2 ^ HalfBits>>
    ELSE DWord(FreqToFixed(n), order)

ReadField(b, words, at, order) ==
    IF b = ChangeIndicator THEN 1
    ELSE IF b \in PlainField THEN words[at]
    ELSE IF b = RefLevel THEN 2 * Signed(Bits(words[at], HalfBits, HalfBits), HalfBits)
    ELSE IF b = Gain THEN 2 * Signed(Bits(words[at], 0, HalfBits), HalfBits)
    ELSE FreqFromFixed(DWord(<<words[at], words[at + 1]>>, order))

Cif0Of(fields) ==
    LET Bit(b) == IF fields[b] # <<>> THEN Cif0Bit(b) ELSE 0
        sum[i \in 0 .. Len(FieldOrder)] == IF i = 0 THEN 0 ELSE sum[i - 1] + Bit(FieldOrder[i])
    IN  sum[Len(FieldOrder)]

FieldData(fields, order) ==
    FlattenSeq([i \in DOMAIN FieldOrder |->
        LET b == FieldOrder[i]
        IN  IF fields[b] = <<>> THEN <<>> ELSE FieldWords(b, fields[b][1], order)])

(* The packet, or <<>> when it would be too long. *)
ContextEncode(header, fields, order) ==
    LET data  == FieldData(fields, order)
        total == SizeInWords(header) + 1 + Len(data)
    IN  IF total > MaxPacketSizeWords
        THEN <<>>
        ELSE Serialize([header EXCEPT !.packetSize = total], order)
             \o <<Cif0Of(fields)>> \o data

(* Where decode()'s offset stands when its loop comes to bit b. *)
FieldAt(words, b) ==
    LET first == SizeInWords(Fixed(words[1])) + 1
        cif0  == words[first]
        at[c \in b .. 31] ==
            IF c = 31 THEN first + 1
            ELSE at[c + 1] + (IF Cif0Has(cif0, c + 1) THEN Cif0FieldSizeWords(c + 1) ELSE 0)
    IN  at[b]

ContextValid(words) ==
    /\ HeaderValid(words)
    /\ LET f    == Fixed(words[1])
           cif0 == words[SizeInWords(f) + 1]
       IN  /\ IsContextPacket(f.packetType)
           /\ SizeInWords(f) + 1 <= f.packetSize
           /\ \A b \in 15 .. 30 : Cif0Has(cif0, b) =>
                FieldAt(words, b) + Cif0FieldSizeWords(b) - 1 <= f.packetSize

ContextFields(words, order) ==
    LET cif0 == words[SizeInWords(Fixed(words[1])) + 1]
    IN  [b \in Field |-> IF Cif0Has(cif0, b)
                         THEN <<ReadField(b, words, FieldAt(words, b), order)>>
                         ELSE <<>>]
=============================================================================
