---------------------------- MODULE HighBandwidth ----------------------------
(***************************************************************************)
(* The high-bandwidth channel: publishers and one subscriber on one UDP    *)
(* multicast group.                                                        *)
(***************************************************************************)
EXTENDS HighBandwidthPublisher, HighBandwidthSubscriber

CONSTANT Garbled          \* not a message

vars == <<datagrams, pubVars, subVars>>

Init == PubInit /\ SubInit

Next ==
    \/ PubNext /\ UNCHANGED subVars
    \/ SubNext /\ UNCHANGED pubVars

Spec == Init /\ [][Next]_vars

FairSpec == Spec /\ PubFairness /\ SubFairness

TypeOK == PubTypeOK /\ SubTypeOK

-----------------------------------------------------------------------------
(* payload, a sequence of chunks counted from 0, is the whole payload of m *)
(* in order and nothing else.                                              *)
IsWhole(payload, m) ==
    /\ DOMAIN payload = 0 .. TotalFragments(m) - 1
    /\ \A k \in DOMAIN payload : payload[k].msg = m
    /\ payload[0].off = 0
    /\ \A k \in DOMAIN payload :
         payload[k].off + payload[k].len =
           IF k + 1 \in DOMAIN payload THEN payload[k + 1].off ELSE m.size

(* No two messages ever share an id: one publisher object on the group,    *)
(* that has not yet sent as many messages as there are ids.                *)
IdsNotReused ==
    /\ \A p, q \in Publisher : p = q
    /\ MaxPublish <= IdMod

(* What a handler is called with is the topic and the whole payload of one *)
(* published message: fragments of different messages are never spliced,   *)
(* and no fragment is missing, repeated or out of place, however the       *)
(* network loses, duplicates and reorders datagrams.                       *)
DeliveredWasPublished ==
    \A d \in delivered :
        \E m \in published : d.topic = m.topic /\ IsWhole(d.payload, m)

(* The refinement of LossyChannel.  A delivery that is not one whole       *)
(* published message maps to Garbled, which no abstract step delivers.     *)
Content(d) ==
    LET m == d.payload[0].msg
    IN  IF d.topic = m.topic /\ IsWhole(d.payload, m) THEN m ELSE Garbled

Channel == INSTANCE LossyChannel WITH
              Msg      <- Message,
              Receiver <- Handler,
              sent     <- published,
              received <- {<<d.handler, Content(d)>> : d \in delivered}

(* Publishers and subscriber together implement the abstract channel, as   *)
(* long as no message id is in use twice (IdsNotReused).                   *)
ImplementsLossyChannel == Channel!Spec

-----------------------------------------------------------------------------
(* The inductive invariant.  The send loop accumulates payloadOffset; in   *)
(* closed form, fragment k of m starts at Offset(m, k).                    *)
Offset(m, k) ==
    IF k = 0 THEN 0
    ELSE MinOf(m.size, FirstFragPayloadSpace(m.topic) + (k - 1) * MaxPayloadPerFragment)

ChunkOf(m, k) == [msg |-> m, off |-> Offset(m, k), len |-> Offset(m, k + 1) - Offset(m, k)]

FragmentNums(m) == 0 .. TotalFragments(m) - 1

IsFragment(d, m, k) ==
    d = [messageId      |-> MessageId(m),
         fragmentNum    |-> k,
         totalFragments |-> TotalFragments(m),
         topicLen       |-> IF k = 0 THEN TopicSize[m.topic] ELSE 0,
         topic          |-> IF k = 0 THEN m.topic ELSE NoTopic,
         data           |-> ChunkOf(m, k)]

PublishedInv ==
    \A m \in published : m.seq < messageIdCounter[m.pub] /\ TotalFragments(m) <= MaxFragments

CallInv ==
    \A c \in Caller : call[c] # Idle =>
        /\ call[c].msg \in published
        /\ call[c].fragNum \in FragmentNums(call[c].msg)
        /\ call[c].payloadOffset = Offset(call[c].msg, call[c].fragNum)

DatagramInv ==
    \A d \in datagrams : \E m \in published : \E k \in FragmentNums(m) : IsFragment(d, m, k)

PubInv == PublishedInv /\ SeqUnique /\ CallInv /\ DatagramInv

(* The entry pm holds fragments of m, each in its place, and nothing else. *)
PartOf(pm, m) ==
    /\ pm.total = TotalFragments(m)
    /\ DOMAIN pm.fragments = FragmentNums(m)
    /\ pm.received \subseteq FragmentNums(m)
    /\ \A k \in pm.received : pm.fragments[k] = ChunkOf(m, k)
    /\ 0 \in pm.received => pm.topic = m.topic

(* The topic and all of the payload of m. *)
AllOf(topic, payload, m) ==
    /\ topic = m.topic
    /\ payload = [k \in FragmentNums(m) |-> ChunkOf(m, k)]

PartialInv ==
    \A i \in MessageIds : partials[i] # NoPartial =>
        \E m \in published : MessageId(m) = i /\ PartOf(partials[i], m)

PendingInv ==
    /\ thread \in {"lookup", "call"} =>
         \E m \in published : AllOf(pending.topic, pending.payload, m)
    /\ thread = "call" => pending.handler \in Handler

DeliveredInv ==
    \A d \in delivered : \E m \in published : AllOf(d.topic, d.payload, m)

(* The reassembly buffer never mixes fragments of two messages: every      *)
(* entry, the message being delivered and every delivered message consist  *)
(* of fragments of one published message, each in its place.               *)
ReassemblyInv == PartialInv /\ PendingInv /\ DeliveredInv
-----------------------------------------------------------------------------
(* Once stop() has returned, and until start() is called again, no handler *)
(* is called: the receive thread has been joined.                          *)
NoCallbackAfterStop ==
    [][delivered' # delivered => (running \/ app \in {"stopping", "destroying"})]_vars

(* stop() and the destructor always return: the receive thread notices     *)
(* shouldStop, or running, within one round of its loop.                   *)
StopReturns == app \in {"stopping", "destroying"} ~> app \in {"idle", "destroyed"}

(* As long as poll() keeps timing out now and then, the reassembly buffer  *)
(* is again and again free of stale entries: cleanupStaleMessages runs     *)
(* once its period has passed.                                             *)
PollTimeoutsDrain ==
    []<><<PollTimesOut>>_vars
        => []<>(\A i \in MessageIds : partials[i].age <= ReassemblyTimeout)
=============================================================================
