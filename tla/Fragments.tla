------------------------------ MODULE Fragments ------------------------------
(***************************************************************************)
(* What HighBandwidthPublisher and HighBandwidthSubscriber share: the      *)
(* datagram format (FragmentHeader), the size arithmetic that publish()    *)
(* does on size_t, and the UDP multicast group between them.  The group is *)
(* the set of all datagrams ever sent.  Nothing is removed from it and a   *)
(* receiver may take any member at any time, so datagrams are lost,        *)
(* duplicated, delayed and reordered.                                      *)
(***************************************************************************)
EXTENDS Integers

CONSTANTS Publisher,      \* HighBandwidthPublisher objects on the group
          Topic,          \* namespaced topics, "<name>/<topic>"
          TopicSize,      \* length in bytes of each namespaced topic
          PayloadSize,    \* sizes of the serialized messages that are published
          HeaderSize,     \* sizeof(FragmentHeader), 12 in the code
          Mtu,            \* constructor argument mtu, 1400 by default
          SizeMod,        \* size_t arithmetic is modulo this, 2^64 in the code
          IdMod,          \* messageId is modulo this, 2^32 in the code
          MaxFragments,   \* the largest totalFragments, 65535 in the code
          MaxPublish,     \* bound: message ids handed out by one publisher
          NoTopic         \* the empty std::string

ASSUME FragmentsAssumption ==
    /\ HeaderSize \in Nat
    /\ Mtu \in Nat
    /\ Mtu > HeaderSize
    /\ Mtu < SizeMod
    /\ SizeMod \in Nat
    /\ IdMod \in Nat \ {0}
    /\ MaxFragments \in Nat \ {0}
    /\ MaxPublish \in Nat
    /\ PayloadSize \subseteq Nat
    /\ TopicSize \in [Topic -> Nat]
    /\ \A t \in Topic : TopicSize[t] < SizeMod
    /\ NoTopic \notin Topic

VARIABLE datagrams        \* every datagram handed to the network by sendto()

-----------------------------------------------------------------------------
MinOf(a, b) == IF a <= b THEN a ELSE b

MaxPayloadPerFragment == Mtu - HeaderSize

(* A message: the seq-th one that publisher pub gave an id to.  Its payload *)
(* is the interval of bytes 0 .. size-1 of that message.                    *)
Message == [pub : Publisher, seq : 0 .. MaxPublish - 1, topic : Topic, size : PayloadSize]

(* Mutant: the counter never advances. *)
MessageIdConstant(m) == 0

(* _messageIdCounter is 32 bits wide; seq is how often it was incremented. *)
MessageId(m) == m.seq % IdMod

(* Not clamped: a topic longer than a fragment wraps around. *)
FirstFragPayloadSpace(t) == (MaxPayloadPerFragment - TopicSize[t]) % SizeMod

(* Mutant: division without rounding up. *)
NumFragmentsFloor(t, size) ==
    IF size > FirstFragPayloadSpace(t)
    THEN 1 + (size - FirstFragPayloadSpace(t)) \div MaxPayloadPerFragment
    ELSE 1

NumFragments(t, size) ==
    IF size > FirstFragPayloadSpace(t)
    THEN 1 + ((size - FirstFragPayloadSpace(t)) + MaxPayloadPerFragment - 1)
                \div MaxPayloadPerFragment
    ELSE 1

TotalFragments(m) == NumFragments(m.topic, m.size)

(* A run of payload bytes: len bytes of message msg from offset off on. *)
Chunk == [msg : Message, off : Nat, len : Nat]

(* One UDP packet: FragmentHeader, then the topic (fragment 0 only), then  *)
(* payload.  data stands for the payload bytes.                            *)
Datagram == [messageId      : 0 .. IdMod - 1,
             fragmentNum    : Nat,
             totalFragments : Nat,
             topicLen       : Nat,
             topic          : Topic \cup {NoTopic},
             data           : Chunk]

(* Bytes after the header, and bytes of the whole packet. *)
PayloadLen(d) == d.topicLen + d.data.len
PacketSize(d) == HeaderSize + PayloadLen(d)

(* The topic's bytes fit in the first fragment: the case the code is       *)
(* written for.                                                            *)
TopicsFit == \A t \in Topic : TopicSize[t] <= MaxPayloadPerFragment
=============================================================================
