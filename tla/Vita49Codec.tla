----------------------------- MODULE Vita49Codec -----------------------------
(***************************************************************************)
(* Vita49Codec: what its encoders put into one stream of packets, and what *)
(* parseStream() makes of any leading part of that stream.                 *)
(*                                                                         *)
(* The stream may also hold packets the codec itself never builds (other   *)
(* types, a class identifier, fields or types it does not know, packets    *)
(* with an impossible size): PutPacket appends one, its header written by  *)
(* PacketHeaderCodec::serialize().  The packets of a stream have one byte  *)
(* order, which both ends use; the scale factor can be changed between any *)
(* two calls.                                                              *)
(***************************************************************************)
EXTENDS Vita49Packet

CONSTANTS SampleRun,     \* the sample sequences given to encodeSignalData()
          FieldSet,      \* the fields given to encodeContext()
          Stamp,         \* timestamps: [tsi, tsf, int, frac]
          Start,         \* packet counts given to the encoders
          StreamId,
          Scale,         \* scale factors
          OtherPacket,   \* [header, payload, wellFormed] for PutPacket
          MaxCalls       \* bound: calls of the encoders

(* Whole numbers of the width they have in the code; a time stamp has two  *)
(* words for its fraction.  A packet from elsewhere is wellFormed or not   *)
(* whatever follows it in the stream.                                      *)
ASSUME CodecAssumption ==
    /\ SampleRun \subseteq Seq(Int \X Int)
    /\ \A fields \in FieldSet : DOMAIN fields = Field /\ \A b \in Field :
         fields[b] # <<>> => fields[b] = <<fields[b][1]>> /\ FieldValue(b, fields[b][1])
    /\ Stamp \subseteq [tsi : 0 .. 3, tsf : 0 .. 3, int : Word, frac : Word \X Word]
    /\ Start \subseteq Nat /\ StreamId \subseteq Word /\ Scale \subseteq 0 .. 2 /\ MaxCalls \in Nat

ASSUME OtherPacketAssumption ==
    \A other \in OtherPacket :
        /\ other.header \in Header /\ Complete(other.header) /\ other.payload \in Seq(Word)
        /\ other.header.packetSize <= SizeInWords(other.header) + Len(other.payload)
        /\ other.wellFormed => other.header.packetSize = SizeInWords(other.header) + Len(other.payload)
        /\ \A o \in ByteOrder :
             LET type  == other.header.packetType
                 words == Serialize(other.header, o) \o other.payload
             IN  other.wellFormed = IF IsDataPacket(type) THEN SignalValid(words, 1)
                                    ELSE IF IsContextPacket(type) THEN ContextValid(words)
                                    ELSE other.header.packetSize # 0

VARIABLES order, scale,  \* _byteOrder, _scaleFactor
          stream,        \* the encoded words
          calls,         \* history: what each call was given, and the words it produced
          reader,        \* parseStream(): phase, length and offset
          parsed         \* its results, with the offset each was found at
vars == <<order, scale, stream, calls, reader, parsed>>

NoReader == [phase |-> "idle", length |-> 0, offset |-> 0]

Init ==
    /\ order \in ByteOrder
    /\ scale \in Scale
    /\ stream = <<>> /\ calls = <<>> /\ parsed = <<>>
    /\ reader = NoReader

SetByteOrder(newOrder) ==
    /\ reader.phase = "idle" /\ stream = <<>> /\ calls = <<>>
    /\ order' = newOrder
    /\ UNCHANGED <<scale, stream, calls, reader, parsed>>

SetScaleFactor(factor) ==
    /\ reader.phase = "idle"
    /\ scale' = factor
    /\ UNCHANGED <<order, stream, calls, reader, parsed>>
-----------------------------------------------------------------------------
(* encodeSignalData: full packets and a last one, each with the next count; *)
(* one packet without samples if there are none.                           *)

(* Mutant: the packet count is not advanced in the loop. *)
SignalPacketsSameCount(streamId, samples, start, stamp, trailer) ==
    LET most      == MaxSamplesPerPacket(stamp, trailer)
        number    == IF samples = <<>> THEN 1 ELSE (Len(samples) + most - 1) \div most
        Packet(k) == SignalEncode(
            NewHeader(1, streamId, start, trailer, stamp),
            SubSeq(samples, (k - 1) * most + 1,
                   IF k = number THEN Len(samples) ELSE k * most),
            scale, order)
    IN  IF most = 0 THEN <<>> ELSE FlattenSeq([k \in 1 .. number |-> Packet(k)])

SignalPackets(streamId, samples, start, stamp, trailer) ==
    LET most      == MaxSamplesPerPacket(stamp, trailer)
        number    == IF samples = <<>> THEN 1 ELSE (Len(samples) + most - 1) \div most
        Packet(k) == SignalEncode(
            NewHeader(1, streamId, start + k - 1, trailer, stamp),
            SubSeq(samples, (k - 1) * most + 1,
                   IF k = number THEN Len(samples) ELSE k * most),
            scale, order)
        Reached(k) == \A j \in 1 .. k : Packet(j) # <<>>
    IN  IF most = 0
        THEN <<>>
        ELSE FlattenSeq([k \in 1 .. number |-> IF Reached(k) THEN Packet(k) ELSE <<>>])

Encoded(words, kind, header, samples, fields, wellFormed) ==
    /\ reader.phase = "idle" /\ Len(calls) < MaxCalls
    /\ stream' = stream \o words
    /\ calls' = Append(calls, [kind |-> kind, header |-> header, samples |-> samples, fields |-> fields,
                               wellFormed |-> wellFormed, scale |-> scale,
                               first |-> Len(stream), end |-> Len(stream) + Len(words)])
    /\ UNCHANGED <<order, scale, reader, parsed>>

EncodeSignalData ==
    \E streamId \in StreamId, samples \in SampleRun, start \in Start,
       stamp \in Stamp, trailer \in 0 .. 1 :
        Encoded(SignalPackets(streamId, samples, start, stamp, trailer),
                "SignalData", NewHeader(1, streamId, start, trailer, stamp), samples, NoFields, TRUE)

EncodeContext ==
    \E streamId \in StreamId, fields \in FieldSet, count \in Start, stamp \in Stamp :
        LET header == NewHeader(4, streamId, count, 0, stamp)
        IN  Encoded(ContextEncode(header, fields, order), "Context", header, <<>>, fields, TRUE)

PutPacket ==
    \E other \in OtherPacket :
        Encoded(Serialize(other.header, order) \o other.payload,
                "Other", other.header, <<>>, NoFields, other.wellFormed)
-----------------------------------------------------------------------------
(* parsePacket on the words that are left. *)

(* Mutant: a packet of an unknown type may be longer than the buffer. *)
PacketValidUnknownUncut(words) ==
    LET type == Fixed(words[1]).packetType
        size == Fixed(words[1]).packetSize
    IN  IF IsDataPacket(type) THEN SignalValid(words, scale)
        ELSE IF IsContextPacket(type) THEN ContextValid(words)
        ELSE size # 0

(* Mutant: a packet of an unknown type is an error. *)
PacketValidKnownOnly(words) ==
    IF IsDataPacket(Fixed(words[1]).packetType) THEN SignalValid(words, scale)
    ELSE ContextValid(words)

PacketValid(words) ==
    LET type == Fixed(words[1]).packetType
        size == Fixed(words[1]).packetSize
    IN  IF IsDataPacket(type) THEN SignalValid(words, scale)
        ELSE IF IsContextPacket(type) THEN ContextValid(words)
        ELSE size # 0 /\ size <= Len(words)

ParsedPacket(words) ==
    LET type == Fixed(words[1]).packetType
    IN  [type    |-> IF IsDataPacket(type) THEN "SignalData"
                     ELSE IF IsContextPacket(type) THEN "Context" ELSE "Unknown",
         header  |-> IF IsDataPacket(type) \/ IsContextPacket(type)
                     THEN Parse(words, order) ELSE DefaultHeader,
         samples |-> IF IsDataPacket(type) THEN SignalSamples(words, scale, order) ELSE <<>>,
         fields  |-> IF IsContextPacket(type) THEN ContextFields(words, order) ELSE NoFields,
         at      |-> reader.offset]

Rest == SubSeq(stream, reader.offset + 1, reader.length)
PacketAhead == Rest # <<>> /\ PacketValid(Rest)

(* parseStream on the first length words of the stream. *)
ParseStream(length) ==
    /\ reader.phase = "idle"
    /\ reader' = [phase |-> "parsing", length |-> length, offset |-> 0]
    /\ UNCHANGED <<order, scale, stream, calls, parsed>>

ParsePacket ==
    /\ reader.phase = "parsing" /\ PacketAhead
    /\ parsed' = Append(parsed, ParsedPacket(Rest))
    /\ reader' = [reader EXCEPT !.offset = @ + Fixed(Rest[1]).packetSize]
    /\ UNCHANGED <<order, scale, stream, calls>>

ParseEnd ==
    /\ reader.phase = "parsing" /\ ~ PacketAhead
    /\ reader' = [reader EXCEPT !.phase = "done"]
    /\ UNCHANGED <<order, scale, stream, calls, parsed>>

(* The results go to the caller, who may then encode, or parse, more. *)
ParseReturn ==
    /\ reader.phase = "done"
    /\ reader' = NoReader /\ parsed' = <<>>
    /\ UNCHANGED <<order, scale, stream, calls>>

Next ==
    \/ \E newOrder \in ByteOrder : SetByteOrder(newOrder)
    \/ \E factor \in Scale : SetScaleFactor(factor)
    \/ EncodeSignalData
    \/ EncodeContext
    \/ PutPacket
    \/ \E length \in 0 .. Len(stream) : ParseStream(length)
    \/ ParsePacket
    \/ ParseEnd
    \/ ParseReturn

Spec == Init /\ [][Next]_vars
-----------------------------------------------------------------------------
(* The type invariant: the words fit their width, and parseStream() never  *)
(* goes past the bytes it was given.                                       *)
TypeOK ==
    /\ stream \in Seq(Word)
    /\ Len(calls) <= MaxCalls
    /\ reader.phase \in {"idle", "parsing", "done"}
    /\ 0 <= reader.offset /\ reader.offset <= reader.length /\ reader.length <= Len(stream)
    /\ \A i \in DOMAIN parsed : parsed[i].header.packetCount \in 0 .. 15

(* The parsed packets that lie in the words a call produced. *)
Of(p, call) == call.first <= p.at /\ p.at < call.end

(* y, read back, is the representable value closest to x. *)
Closest(x, y, least, greatest) ==
    /\ least <= y /\ y <= greatest
    /\ \/ x - y \in -1 .. 1
       \/ y = greatest /\ x > y
       \/ y = least /\ x < y

SameValue(x, y) == Closest(x * scale, y * scale, - 2 ^ HalfBits, 2 ^ HalfBits - 2)

(* The samples that have been read from the packets of a call. *)
Recovered(call) ==
    FlattenSeq([i \in DOMAIN parsed |-> IF Of(parsed[i], call) THEN parsed[i].samples ELSE <<>>])

(* encodeSignalData() splits samples over packets and parseStream() puts   *)
(* them together: whatever part of the stream has been parsed, its samples *)
(* are a prefix of what was given, none lost, doubled or out of order      *)
(* where one packet ends and the next begins, each the closest value of    *)
(* its width, full scale if it is beyond, provided that it fits an int     *)
(* when it is scaled.                                                      *)
SamplesSurvive ==
    \A n \in DOMAIN calls :
        LET call == calls[n]
            got  == Recovered(call)
        IN  call.kind = "SignalData" /\ call.scale = scale /\ scale # 0 =>
                /\ Len(got) <= Len(call.samples)
                /\ reader.offset >= call.end => Len(got) = Len(call.samples)
                /\ \A i \in DOMAIN got, part \in 1 .. 2 :
                       FitsInt(call.samples[i][part] * scale) =>
                           SameValue(call.samples[i][part], got[i][part])

(* The packets of one encodeSignalData() call carry consecutive counts     *)
(* modulo 16, and all but the last of them are as long as a packet can be. *)
PacketsNumbered ==
    \A n \in DOMAIN calls, i \in DOMAIN parsed :
        calls[n].kind = "SignalData" /\ Of(parsed[i], calls[n]) =>
            LET p == parsed[i]
            IN  /\ IF p.at = calls[n].first
                   THEN p.header.packetCount = calls[n].header.packetCount
                   ELSE i > 1 /\ p.header.packetCount = (parsed[i - 1].header.packetCount + 1) % 16
                /\ p.at + p.header.packetSize < calls[n].end =>
                       p.header.packetSize = MaxPacketSizeWords

(* Stream identifier, class identifier, timestamps and indicators that     *)
(* serialize() wrote are what parse() reads, in both byte orders and       *)
(* whatever packets came before; a packet that was not split keeps its     *)
(* count and covers the words of its call.  The timestamps given to        *)
(* encodeSignalData() are those of the first packet; of the others it is   *)
(* only said that they have timestamps of the same types.                  *)
HeadersSurvive ==
    \A n \in DOMAIN calls, i \in DOMAIN parsed :
        Of(parsed[i], calls[n]) /\ parsed[i].type # "Unknown" =>
            LET call == calls[n]
                h    == parsed[i].header
                g    == [call.header EXCEPT !.packetCount = h.packetCount, !.packetSize = h.packetSize]
            IN  /\ h = IF parsed[i].at = call.first THEN g
                       ELSE [g EXCEPT !.integerTimestamp = h.integerTimestamp,
                                      !.fractionalTimestamp = h.fractionalTimestamp]
                /\ Complete(h)
                /\ call.kind # "SignalData" =>
                       h.packetCount = call.header.packetCount /\ h.packetSize = call.end - call.first

(* decode() finds in a context packet exactly the fields that encode() was *)
(* given, each within half a step of its fixed-point value.                *)
FieldsSurvive ==
    \A n \in DOMAIN calls, i \in DOMAIN parsed :
        calls[n].kind = "Context" /\ Of(parsed[i], calls[n]) =>
            \A b \in Field :
                LET got   == parsed[i].fields[b]
                    given == calls[n].fields[b]
                IN  /\ Len(got) = Len(given)
                    /\ \A k \in DOMAIN got : IF b \in PlainField THEN got[k] = given[k]
                                              ELSE got[k] - given[k] \in -1 .. 1

(* parseStream() returns every packet of the calls that lie wholly in its  *)
(* buffer, up to the first one that is no packet: it passes over types and *)
(* fields it does not know, it keeps what precedes a cut or an impossible  *)
(* size, and it takes nothing from there on.  With a scale factor of 0 the *)
(* same is true of a data packet.                                          *)
ParsesEveryWholePacket ==
    LET Refused(call) == \/ ~ call.wellFormed
                         \/ scale = 0 /\ IsDataPacket(call.header.packetType)
    IN  reader.phase = "done" =>
            \A n \in DOMAIN calls :
                /\ calls[n].end <= reader.length /\ (\A m \in 1 .. n : ~ Refused(calls[m])) =>
                       reader.offset >= calls[n].end
                /\ Refused(calls[n]) => reader.offset <= calls[n].first
=============================================================================
