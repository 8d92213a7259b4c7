----------------------- MODULE HighBandwidthPublisher -----------------------
(***************************************************************************)
(* HighBandwidthPublisher: fire-and-forget publishing over UDP multicast.  *)
(* publish() may be called from several threads at once; the only state    *)
(* the calls share is the atomic message id counter and the socket.        *)
(***************************************************************************)
EXTENDS Fragments

CONSTANTS Caller          \* threads that call publish()

VARIABLES
    ready,                \* ready[p]: _socket >= 0 && _running
    messageIdCounter,     \* messageIdCounter[p]: fetch_add calls so far
    call,                 \* call[c]: the publish() call thread c is inside
    result,               \* result[c]: what c's last publish() returned
    published             \* history: messages that were given an id

pubVars == <<ready, messageIdCounter, call, result, published>>

Idle == [pc |-> "idle"]
Sending == [pc : {"sending"}, msg : Message, fragNum : Nat, payloadOffset : Nat]

PubTypeOK ==
    /\ datagrams \subseteq Datagram
    /\ ready \in [Publisher -> BOOLEAN]
    /\ messageIdCounter \in [Publisher -> 0 .. MaxPublish]
    /\ call \in [Caller -> Sending \cup {Idle}]
    /\ result \in [Caller -> {"none", "true", "false"}]
    /\ published \subseteq Message

PubInit ==
    /\ datagrams = {}
    /\ ready \in [Publisher -> BOOLEAN]   \* the constructor worked, or not
    /\ messageIdCounter = [p \in Publisher |-> 0]
    /\ call = [c \in Caller |-> Idle]
    /\ result = [c \in Caller |-> "none"]
    /\ published = {}

(* Returns without effect: no socket, or more fragments than the header's  *)
(* 16 bits can count.  No message id is consumed.  A message that does not *)
(* serialize is refused the same way.                                      *)
PublishRefused(c, p, t, size) ==
    /\ call[c] = Idle
    /\ \/ ~ ready[p]
       \/ NumFragments(t, size) > MaxFragments
    /\ result' = [result EXCEPT ![c] = "false"]
    /\ UNCHANGED <<datagrams, ready, messageIdCounter, call, published>>

(* From the entry of publish() to the id's fetch_add. *)
PublishBegin(c, p, t, size) ==
    /\ call[c] = Idle
    /\ ready[p]
    /\ NumFragments(t, size) <= MaxFragments
    /\ messageIdCounter[p] < MaxPublish
    /\ LET m == [pub |-> p, seq |-> messageIdCounter[p], topic |-> t, size |-> size]
       IN  /\ published' = published \cup {m}
           /\ call' = [call EXCEPT ![c] = [pc |-> "sending", msg |-> m,
                                            fragNum |-> 0, payloadOffset |-> 0]]
    /\ messageIdCounter' = [messageIdCounter EXCEPT ![p] = @ + 1]
    /\ UNCHANGED <<datagrams, ready, result>>

(* Mutant: the first fragment makes no room for the topic. *)
PayloadInFragNoTopicRoom(s) ==
    IF s.fragNum = 0
    THEN MinOf(s.msg.size, MaxPayloadPerFragment)
    ELSE MinOf(s.msg.size - s.payloadOffset, MaxPayloadPerFragment)

(* The bytes of payload that go into the packet the call is building. *)
PayloadInFrag(s) ==
    IF s.fragNum = 0
    THEN MinOf(s.msg.size, FirstFragPayloadSpace(s.msg.topic))
    ELSE MinOf(s.msg.size - s.payloadOffset, MaxPayloadPerFragment)

(* The packet for one iteration of the send loop. *)
Packet(s) ==
    [messageId      |-> MessageId(s.msg),
     fragmentNum    |-> s.fragNum,
     totalFragments |-> TotalFragments(s.msg),
     topicLen       |-> IF s.fragNum = 0 THEN TopicSize[s.msg.topic] ELSE 0,
     topic          |-> IF s.fragNum = 0 THEN s.msg.topic ELSE NoTopic,
     data           |-> [msg |-> s.msg, off |-> s.payloadOffset,
                         len |-> PayloadInFrag(s)]]

(* One iteration of the send loop; the last one returns true. *)
SendFragment(c) ==
    /\ call[c] # Idle
    /\ LET s == call[c]
           last == s.fragNum + 1 = TotalFragments(s.msg)
       IN  /\ datagrams' = datagrams \cup {Packet(s)}
           /\ call' = [call EXCEPT ![c] =
                        IF last THEN Idle
                        ELSE [s EXCEPT !.fragNum = @ + 1,
                                       !.payloadOffset = @ + PayloadInFrag(s)]]
           /\ result' = IF last THEN [result EXCEPT ![c] = "true"] ELSE result
    /\ UNCHANGED <<ready, messageIdCounter, published>>

(* sendto() fails: the call returns false with the earlier fragments sent. *)
SendFails(c) ==
    /\ call[c] # Idle
    /\ call' = [call EXCEPT ![c] = Idle]
    /\ result' = [result EXCEPT ![c] = "false"]
    /\ UNCHANGED <<datagrams, ready, messageIdCounter, published>>

(* The destructor; C++ forbids it while a call is inside the object. *)
DestroyPublisher(p) ==
    /\ ready[p]
    /\ \A c \in Caller : call[c] # Idle => call[c].msg.pub # p
    /\ ready' = [ready EXCEPT ![p] = FALSE]
    /\ UNCHANGED <<datagrams, messageIdCounter, call, result, published>>

PubNext ==
    \/ \E c \in Caller, p \in Publisher, t \in Topic, size \in PayloadSize :
          \/ PublishRefused(c, p, t, size)
          \/ PublishBegin(c, p, t, size)
    \/ \E c \in Caller : SendFragment(c) \/ SendFails(c)
    \/ \E p \in Publisher : DestroyPublisher(p)

PubSpec == PubInit /\ [][PubNext]_<<datagrams, pubVars>>

(* A call that has started comes to an end: sendto() on a UDP socket does  *)
(* not block for ever.                                                     *)
PubFairness == \A c \in Caller : WF_<<datagrams, pubVars>>(SendFragment(c))
-----------------------------------------------------------------------------
(* Fragments of m that are on the network. *)
FragmentsOf(m) == {d \in datagrams : d.data.msg = m}

(* Every byte of m's payload travels in exactly one fragment. *)
CoversOnce(m) ==
    \A b \in 0 .. m.size - 1 :
        \E d \in FragmentsOf(m) :
            /\ d.data.off <= b /\ b < d.data.off + d.data.len
            /\ \A e \in FragmentsOf(m) :
                 (e.data.off <= b /\ b < e.data.off + e.data.len) => e = d

(* A message that no call is still sending, and whose last fragment is out. *)
FullySent(m) ==
    \E d \in FragmentsOf(m) : d.fragmentNum = d.totalFragments - 1

(* Once the last fragment of a message is out, its fragments partition the  *)
(* payload: the loop in publish(), which accumulates payloadOffset, agrees  *)
(* with the fragment count computed up front by a division.                 *)
FragmentsPartitionPayload ==
    \A m \in published : FullySent(m) => CoversOnce(m)

(* No packet is longer than the packet buffer, which has _mtu bytes. *)
PacketsFitMtu == \A d \in datagrams : PacketSize(d) <= Mtu

(* No two calls are ever handed the same message: fetch_add is atomic, so   *)
(* two threads inside publish() of one object never use the same sequence   *)
(* number for two payloads.                                                 *)
SeqUnique ==
    \A m, n \in published : (m.pub = n.pub /\ m.seq = n.seq) => m = n
=============================================================================
