------------------------------ MODULE MCVita49 ------------------------------
(* Constants for TLC.  With a size field of 5 bits the longest packet has   *)
(* 31 words, more than any context packet, and samples are split after 25   *)
(* to 29 of them.                                                           *)
EXTENDS Vita49FileCodec

(* A run of samples that covers full scale and beyond, and rounding; two of *)
(* them, next to each other, do not fit the int of 6 bits.                  *)
Ramp(n) == [k \in 1 .. n |-> <<((3 * k) % 23) - 11, 9 - ((5 * k) % 19)>>]
MCSampleRun == {Ramp(0), [Ramp(56) EXCEPT ![5] = <<40, -3>>, ![6] = <<31, -40>>]}

MCStamp == {[tsi |-> 0, tsf |-> 0, int |-> 7, frac |-> <<0, 0>>],
            [tsi |-> 1, tsf |-> 2, int |-> 7, frac |-> <<3, 5>>]}

Value(b) == CASE b = 31 -> 1 [] b = 30 -> 9 [] b = 29 -> -3 [] b = 24 -> -5 [] b = 23 -> 6 [] OTHER -> 2 * b + 1
MCFieldSet == {NoFields, [b \in Field |-> <<Value(b)>>],
               [NoFields EXCEPT ![23] = <<-7>>, ![21] = <<8>>]}

Other(type, classId, tsf, trailer, payload) ==
    LET h == [DefaultHeader EXCEPT
                !.packetType = type, !.packetCount = 6, !.tsfType = tsf,
                !.trailerPresent = trailer,
                !.streamId = IF HasStreamId(type) THEN <<4>> ELSE <<>>,
                !.classIdPresent = classId,
                !.classId = IF classId = 1 THEN <<11, 12>> ELSE <<>>,
                !.fractionalTimestamp = IF tsf # 0 THEN <<1, 2>> ELSE <<>>]
    IN  [header |-> [h EXCEPT !.packetSize = SizeInWords(h) + Len(payload)],
         payload |-> payload, wellFormed |-> TRUE]
Sized(other, size) ==
    [other EXCEPT !.header.packetSize = size, !.wellFormed = FALSE]

Filler(n) == [k \in 1 .. n |-> k]
Unsupported == Cif0Bit(20) + Cif0Bit(19) + Cif0Bit(18) + Cif0Bit(17) + Cif0Bit(16) + Cif0Bit(15)
               + Cif0Bit(12)
MCOtherPacket ==
    {Other(0, 1, 2, 1, Filler(2)), Other(0, 0, 0, 0, Filler(30)), Other(3, 0, 0, 0, <<>>),
     Other(5, 1, 0, 0, <<Unsupported>> \o Filler(11)), Other(7, 0, 0, 0, Filler(3)),
     Sized(Other(1, 0, 0, 0, <<>>), 0), Sized(Other(6, 0, 0, 0, <<>>), 0),
     Sized(Other(2, 0, 2, 0, <<>>), 2), Sized(Other(1, 0, 0, 1, <<0>>), 2),
     Sized(Other(4, 0, 0, 0, <<Cif0Bit(29), 0>>), 4)}
=============================================================================
