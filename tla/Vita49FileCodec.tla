--------------------------- MODULE Vita49FileCodec ---------------------------
(***************************************************************************)
(* The round trip of the tool Vita49FileCodec: a file is parsed, every     *)
(* packet that was understood is encoded again, and the result is parsed   *)
(* once more.  The file is whatever part of a stream parseStream() has     *)
(* been given; the tool always uses big-endian order and the scale factor  *)
(* that a codec starts with, here it may be any.                           *)
(***************************************************************************)
EXTENDS Vita49Codec

ValueOr(field, default) == IF field = <<>> THEN default ELSE field[1]

(* The arguments of the encoders, from the header that was parsed: a class *)
(* identifier is not among them, and there is always a stream identifier.  *)
StampOf(header) ==
    [tsi |-> header.tsiType, tsf |-> header.tsfType,
     int |-> ValueOr(header.integerTimestamp, 0),
     frac |-> IF header.fractionalTimestamp = <<>> THEN <<0, 0>> ELSE header.fractionalTimestamp]

(* Mutant: a packet without a stream identifier is left out. *)
ReEncodeWithStreamId(p) ==
    CASE p.type = "SignalData" /\ p.header.streamId # <<>> ->
           SignalPackets(p.header.streamId[1], p.samples, p.header.packetCount, StampOf(p.header),
                         p.header.trailerPresent)
      [] p.type = "Context" ->
           ContextEncode(NewHeader(4, ValueOr(p.header.streamId, 0), p.header.packetCount, 0,
                                   StampOf(p.header)), p.fields, order)
      [] OTHER -> <<>>

ReEncode(p) ==
    CASE p.type = "SignalData" ->
           SignalPackets(ValueOr(p.header.streamId, 0), p.samples, p.header.packetCount,
                         StampOf(p.header), p.header.trailerPresent)
      [] p.type = "Context" ->
           ContextEncode(NewHeader(4, ValueOr(p.header.streamId, 0), p.header.packetCount, 0,
                                   StampOf(p.header)), p.fields, order)
      [] OTHER -> <<>>

(* A turn of parseStream()'s loop on all of words, which changes nothing   *)
(* once there is no packet ahead; and all of its turns in one step.        *)
Turn(words, state) ==
    LET rest == SubSeq(words, state.offset + 1, Len(words))
    IN  IF rest = <<>> \/ ~ PacketValid(rest) THEN state
        ELSE [offset  |-> state.offset + Fixed(rest[1]).packetSize,
              packets |-> Append(state.packets, ParsedPacket(rest))]

ParseAll(words) ==
    LET after[n \in 0 .. Len(words)] ==
            IF n = 0 THEN [offset |-> 0, packets |-> <<>>] ELSE Turn(words, after[n - 1])
    IN  after[Len(words)].packets

DoRoundTrip == ParseAll(FlattenSeq([i \in DOMAIN parsed |-> ReEncode(parsed[i])]))

AllSamples(packets) == FlattenSeq([i \in DOMAIN packets |-> packets[i].samples])
AllFields(packets) ==
    FlattenSeq([i \in DOMAIN packets |->
        IF packets[i].type = "Context" THEN <<packets[i].fields>> ELSE <<>>])
-----------------------------------------------------------------------------
(* Whatever packets a file has, all that parseStream() finds in it is in   *)
(* the file made from them, and bit-exact: a value that has gone through   *)
(* the conversion to fixed point once is not changed by a second time, no  *)
(* sample is lost although packets get longer, and what the codec does not *)
(* know goes without taking its neighbours along.  (A file that ends in a  *)
(* piece of a packet is parsed like the file without that piece.)          *)
RoundTripExact ==
    reader.phase = "done" /\ reader.offset = reader.length =>
        LET again == DoRoundTrip
        IN  AllSamples(again) = AllSamples(parsed) /\ AllFields(again) = AllFields(parsed)
=============================================================================
