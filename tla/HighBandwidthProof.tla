-------------------------- MODULE HighBandwidthProof --------------------------
(***************************************************************************)
(* Proofs about the high-bandwidth channel, for every number of callers,   *)
(* every MTU, every topic and payload size and every id width.             *)
(***************************************************************************)
EXTENDS HighBandwidth, TLAPS

(* Adding b - 1 before dividing rounds up. *)
LEMMA DivRoundsUp ==
    ASSUME NEW a \in Nat, NEW b \in Nat, b > 0
    PROVE  /\ (a + b - 1) \div b \in Nat
           /\ a <= ((a + b - 1) \div b) * b
  OBVIOUS

(* The room in the first fragment is a size_t. *)
LEMMA FirstSpaceNat ==
    ASSUME NEW t \in Topic
    PROVE  FirstFragPayloadSpace(t) \in Nat
  BY FragmentsAssumption DEF FirstFragPayloadSpace, MaxPayloadPerFragment

(* It does not wrap around when the topic fits. *)
LEMMA FirstSpaceFits ==
    ASSUME NEW t \in Topic, TopicsFit
    PROVE  FirstFragPayloadSpace(t) = MaxPayloadPerFragment - TopicSize[t]
  BY FragmentsAssumption DEF FirstFragPayloadSpace, MaxPayloadPerFragment, TopicsFit

(* publish() always sends at least one fragment. *)
LEMMA NumFragmentsPositive ==
    ASSUME NEW t \in Topic, NEW size \in Nat
    PROVE  NumFragments(t, size) \in Nat \ {0}
  BY FragmentsAssumption, FirstSpaceNat DEF NumFragments, MaxPayloadPerFragment

(* Types of the fragment arithmetic of a message. *)
LEMMA MessageTypes ==
    ASSUME NEW m \in Message
    PROVE  /\ TotalFragments(m) \in Nat \ {0}
           /\ MessageId(m) \in MessageIds
           /\ m.size \in Nat /\ m.seq \in Nat /\ m.topic \in Topic /\ m.pub \in Publisher
           /\ FirstFragPayloadSpace(m.topic) \in Nat
           /\ MaxPayloadPerFragment \in Nat \ {0}
           /\ 0 \in FragmentNums(m)
  <1>a. m.size \in PayloadSize /\ m.seq \in 0 .. MaxPublish - 1 /\ m.topic \in Topic /\ m.pub \in Publisher
    BY DEF Message
  <1>1. m.size \in Nat /\ m.seq \in Nat /\ m.topic \in Topic /\ m.pub \in Publisher
    <2>1. m.size \in Nat
      BY <1>a, FragmentsAssumption
    <2>2. m.seq \in Nat
      BY <1>a, FragmentsAssumption
    <2> QED
      BY <1>a, <2>1, <2>2
  <1>2. TotalFragments(m) \in Nat \ {0}
    BY <1>1, NumFragmentsPositive DEF TotalFragments
  <1>3. MessageId(m) \in MessageIds
    BY <1>1, FragmentsAssumption DEF MessageId, MessageIds
  <1>4. MaxPayloadPerFragment \in Nat \ {0}
    BY FragmentsAssumption DEF MaxPayloadPerFragment
  <1> QED
    BY <1>1, <1>2, <1>3, <1>4, FirstSpaceNat DEF FragmentNums

(* The number of fragments is the one at which the loop has sent it all.   *)
LEMMA OffsetEnds ==
    ASSUME NEW m \in Message
    PROVE  Offset(m, TotalFragments(m)) = m.size
  <1> DEFINE F == FirstFragPayloadSpace(m.topic)
             B == MaxPayloadPerFragment
             N == TotalFragments(m)
  <1>1. m.size \in Nat /\ F \in Nat /\ B \in Nat /\ B > 0 /\ N \in Nat \ {0}
    BY MessageTypes
  <1>2. CASE m.size <= F
    <2>1. N = 1
      BY <1>1, <1>2 DEF TotalFragments, NumFragments
    <2> QED
      BY <1>1, <1>2, <2>1 DEF Offset, MinOf
  <1>3. CASE m.size > F
    <2> DEFINE R == m.size - F
    <2>1. R \in Nat
      BY <1>1, <1>3
    <2>2. N = 1 + (R + B - 1) \div B
      BY <1>3 DEF TotalFragments, NumFragments
    <2> HIDE DEF R, F, B, N
    <2>3. (R + B - 1) \div B \in Nat /\ R <= ((R + B - 1) \div B) * B
      BY <1>1, <2>1, DivRoundsUp
    <2>4. N # 0 /\ R <= (N - 1) * B /\ (N - 1) * B \in Nat
      BY <1>1, <2>1, <2>2, <2>3
    <2>5. m.size <= F + (N - 1) * B
      BY <2>4, <1>1, <2>1 DEF R
    <2> QED
      BY <2>4, <2>5, <1>1 DEF Offset, MinOf, F, B, N
  <1> QED
    BY <1>1, <1>2, <1>3

(* Offsets are naturals, start at 0, never decrease, stay inside the       *)
(* payload and advance by at most one fragment's room.                     *)
LEMMA OffsetSteps ==
    ASSUME NEW m \in Message, NEW k \in Nat
    PROVE  /\ Offset(m, k) \in Nat
           /\ Offset(m, k) <= m.size
           /\ Offset(m, k) <= Offset(m, k + 1)
           /\ k = 0 => Offset(m, k + 1) - Offset(m, k) = MinOf(m.size, FirstFragPayloadSpace(m.topic))
           /\ k # 0 => Offset(m, k + 1) - Offset(m, k) = MinOf(m.size - Offset(m, k), MaxPayloadPerFragment)
  <1> DEFINE F == FirstFragPayloadSpace(m.topic)
             B == MaxPayloadPerFragment
  <1>1. m.size \in Nat /\ F \in Nat /\ B \in Nat /\ B > 0
    BY MessageTypes
  <1>2. CASE k = 0
    BY <1>1, <1>2 DEF Offset, MinOf
  <1>3. CASE k # 0
    <2> DEFINE P == (k - 1) * B
    <2>1. P \in Nat
      BY <1>1, <1>3
    <2>2. k * B = P + B
      BY <1>1, <1>3
    <2>3. Offset(m, k) = MinOf(m.size, F + P)
      BY <1>3 DEF Offset
    <2>4. Offset(m, k + 1) = MinOf(m.size, F + (P + B))
      BY <1>3, <2>2 DEF Offset
    <2> HIDE DEF F, B, P
    <2>5. /\ Offset(m, k) \in Nat
          /\ Offset(m, k) <= m.size
          /\ Offset(m, k) <= Offset(m, k + 1)
          /\ Offset(m, k + 1) - Offset(m, k) = MinOf(m.size - Offset(m, k), B)
      BY <1>1, <2>1, <2>3, <2>4 DEF MinOf
    <2> QED
      BY <1>3, <2>5 DEF B
  <1> QED
    BY <1>2, <1>3

-----------------------------------------------------------------------------
(* The state of a call that is sending. *)
LEMMA SendingCall ==
    ASSUME PubTypeOK, CallInv, NEW c \in Caller, call[c] # Idle
    PROVE  /\ call[c] \in Sending
           /\ call[c].msg \in Message /\ call[c].msg \in published
           /\ call[c].fragNum \in Nat
           /\ call[c].fragNum \in FragmentNums(call[c].msg)
           /\ call[c].payloadOffset = Offset(call[c].msg, call[c].fragNum)
  BY DEF PubTypeOK, CallInv, Sending

(* The packet the loop builds is the fragment in closed form, and the loop *)
(* moves on to the next fragment's offset.                                 *)
LEMMA PacketIsFragment ==
    ASSUME PubTypeOK, CallInv, NEW c \in Caller, call[c] # Idle
    PROVE  /\ IsFragment(Packet(call[c]), call[c].msg, call[c].fragNum)
           /\ call[c].payloadOffset + PayloadInFrag(call[c]) = Offset(call[c].msg, call[c].fragNum + 1)
           /\ Packet(call[c]) \in Datagram
  <1> DEFINE s == call[c]
             m == s.msg
             k == s.fragNum
  <1>1. m \in Message /\ k \in Nat /\ k \in FragmentNums(m) /\ s.payloadOffset = Offset(m, k)
    BY SendingCall
  <1>2. /\ TotalFragments(m) \in Nat \ {0} /\ MessageId(m) \in MessageIds /\ m.topic \in Topic
        /\ TopicSize[m.topic] \in Nat
    BY <1>1, MessageTypes, FragmentsAssumption
  <1>3. /\ Offset(m, k) \in Nat /\ Offset(m, k + 1) \in Nat
        /\ Offset(m, k) <= Offset(m, k + 1)
    BY <1>1, OffsetSteps, k + 1 \in Nat
  <1>4. PayloadInFrag(s) = Offset(m, k + 1) - Offset(m, k)
    BY <1>1, <1>3, OffsetSteps DEF PayloadInFrag
  <1>5. s.payloadOffset + PayloadInFrag(s) = Offset(m, k + 1)
    BY <1>1, <1>3, <1>4
  <1>6. IsFragment(Packet(s), m, k)
    BY <1>1, <1>4 DEF IsFragment, Packet, ChunkOf
  <1>7. [msg |-> m, off |-> Offset(m, k), len |-> Offset(m, k + 1) - Offset(m, k)] \in Chunk
    BY <1>1, <1>3 DEF Chunk
  <1>8. Packet(s) \in Datagram
    BY <1>1, <1>2, <1>4, <1>7 DEF Packet, Datagram, MessageIds
  <1> QED
    BY <1>5, <1>6, <1>8

(* The publisher's type invariant and its part of the inductive invariant  *)
(* hold initially ...                                                      *)
LEMMA PubInitOK == PubInit => PubTypeOK /\ PubInv
  BY FragmentsAssumption DEF PubInit, PubTypeOK, PubInv, PublishedInv, SeqUnique, CallInv, DatagramInv

(* ... and are preserved by each of its actions. *)
LEMMA PublishBeginOK ==
    ASSUME PubTypeOK, PubInv, NEW c \in Caller, NEW p \in Publisher, NEW t \in Topic,
           NEW size \in PayloadSize, PublishBegin(c, p, t, size)
    PROVE  PubTypeOK' /\ PubInv'
  <1> DEFINE m == [pub |-> p, seq |-> messageIdCounter[p], topic |-> t, size |-> size]
             s == [pc |-> "sending", msg |-> m, fragNum |-> 0, payloadOffset |-> 0]
  <1>1. /\ published' = published \cup {m} /\ call' = [call EXCEPT ![c] = s]
        /\ messageIdCounter' = [messageIdCounter EXCEPT ![p] = @ + 1]
        /\ messageIdCounter[p] < MaxPublish
        /\ messageIdCounter \in [Publisher -> 0 .. MaxPublish]
        /\ datagrams' = datagrams /\ ready' = ready /\ result' = result
    BY DEF PublishBegin, PubTypeOK
  <1>2. messageIdCounter[p] \in 0 .. MaxPublish - 1 /\ messageIdCounter[p] + 1 \in 0 .. MaxPublish
    BY <1>1, FragmentsAssumption
  <1>3. m \in Message
    BY <1>2 DEF Message
  <1>4. s \in Sending
    BY <1>3 DEF Sending
  <1>5. PubTypeOK'
    <2>1. messageIdCounter' \in [Publisher -> 0 .. MaxPublish]
      BY <1>1, <1>2
    <2>2. call' \in [Caller -> Sending \cup {Idle}]
      BY <1>1, <1>4 DEF PubTypeOK
    <2>3. published' \subseteq Message
      BY <1>1, <1>3 DEF PubTypeOK
    <2> QED
      BY <1>1, <2>1, <2>2, <2>3 DEF PubTypeOK
  <1>6. m.seq < messageIdCounter'[p] /\ \A q \in Publisher : messageIdCounter[q] <= messageIdCounter'[q]
    BY <1>1, <1>2
  <1>7. PublishedInv'
    <2> SUFFICES ASSUME NEW n \in published'
                 PROVE  n.seq < messageIdCounter'[n.pub] /\ TotalFragments(n) <= MaxFragments
      BY DEF PublishedInv
    <2>1. CASE n = m
      BY <2>1, <1>6 DEF PublishBegin, TotalFragments
    <2>2. CASE n \in published
      <3>1. n \in Message /\ n.seq \in Nat /\ n.pub \in Publisher
        BY <2>2, MessageTypes DEF PubTypeOK
      <3>2. n.seq < messageIdCounter[n.pub] /\ TotalFragments(n) <= MaxFragments
        BY <2>2 DEF PubInv, PublishedInv
      <3>3. messageIdCounter[n.pub] \in Nat /\ messageIdCounter'[n.pub] \in Nat
        BY <1>1, <1>5, <3>1 DEF PubTypeOK
      <3> QED
        BY <1>6, <3>1, <3>2, <3>3
    <2> QED
      BY <2>1, <2>2, <1>1
  <1>8. SeqUnique'
    <2> SUFFICES ASSUME NEW n \in published, n.pub = p, n.seq = messageIdCounter[p]
                 PROVE  FALSE
      BY <1>1 DEF SeqUnique, PubInv
    <2> QED
      BY <1>1, <1>2 DEF PubInv, PublishedInv
  <1>9. CallInv'
    <2> SUFFICES ASSUME NEW b \in Caller, call'[b] # Idle
                 PROVE  /\ call'[b].msg \in published'
                        /\ call'[b].fragNum \in FragmentNums(call'[b].msg)
                        /\ call'[b].payloadOffset = Offset(call'[b].msg, call'[b].fragNum)
      BY DEF CallInv
    <2>1. CASE b = c
      <3>1. call'[b] = s
        BY <1>1, <2>1 DEF PubTypeOK
      <3> QED
        BY <1>1, <1>3, <3>1, MessageTypes DEF Offset
    <2>2. CASE b # c
      <3>1. call'[b] = call[b]
        BY <1>1, <2>2 DEF PubTypeOK
      <3> QED
        BY <1>1, <3>1 DEF PubInv, CallInv
    <2> QED
      BY <2>1, <2>2
  <1>10. DatagramInv'
    BY <1>1 DEF PubInv, DatagramInv
  <1> QED
    BY <1>5, <1>7, <1>8, <1>9, <1>10 DEF PubInv

LEMMA SendFragmentOK ==
    ASSUME PubTypeOK, PubInv, NEW c \in Caller, SendFragment(c)
    PROVE  PubTypeOK' /\ PubInv'
  <1> DEFINE s == call[c]
             last == s.fragNum + 1 = TotalFragments(s.msg)
             t == [s EXCEPT !.fragNum = @ + 1, !.payloadOffset = @ + PayloadInFrag(s)]
  <1>1. /\ s # Idle
        /\ datagrams' = datagrams \cup {Packet(s)}
        /\ call' = [call EXCEPT ![c] = IF last THEN Idle ELSE t]
        /\ result' = IF last THEN [result EXCEPT ![c] = "true"] ELSE result
        /\ ready' = ready /\ messageIdCounter' = messageIdCounter /\ published' = published
    BY DEF SendFragment
  <1>2. /\ s \in Sending /\ s.msg \in Message /\ s.msg \in published /\ s.fragNum \in Nat
        /\ s.fragNum \in FragmentNums(s.msg)
    BY <1>1, SendingCall DEF PubInv
  <1>3. /\ IsFragment(Packet(s), s.msg, s.fragNum)
        /\ s.payloadOffset + PayloadInFrag(s) = Offset(s.msg, s.fragNum + 1)
        /\ Packet(s) \in Datagram
    BY <1>1, PacketIsFragment DEF PubInv
  <1>4. /\ t.pc = "sending" /\ t.msg = s.msg /\ t.fragNum = s.fragNum + 1
        /\ t.payloadOffset = Offset(s.msg, s.fragNum + 1)
        /\ t \in Sending
    <2>1. Offset(s.msg, s.fragNum + 1) \in Nat /\ s.fragNum + 1 \in Nat
      BY <1>2, OffsetSteps
    <2> QED
      BY <1>2, <1>3, <2>1 DEF Sending
  <1>5. ~ last => t.fragNum \in FragmentNums(s.msg)
    BY <1>2, <1>4, MessageTypes DEF FragmentNums
  <1>6. PubTypeOK'
    <2>1. call' \in [Caller -> Sending \cup {Idle}]
      BY <1>1, <1>4 DEF PubTypeOK
    <2>2. result' \in [Caller -> {"none", "true", "false"}]
      BY <1>1 DEF PubTypeOK
    <2> QED
      BY <1>1, <1>3, <2>1, <2>2 DEF PubTypeOK
  <1>7. CallInv'
    <2> SUFFICES ASSUME NEW b \in Caller, call'[b] # Idle
                 PROVE  /\ call'[b].msg \in published'
                        /\ call'[b].fragNum \in FragmentNums(call'[b].msg)
                        /\ call'[b].payloadOffset = Offset(call'[b].msg, call'[b].fragNum)
      BY DEF CallInv
    <2>1. CASE b = c
      <3>1. call'[b] = t /\ ~ last
        BY <1>1, <2>1 DEF PubTypeOK
      <3>2. call'[b].msg = s.msg /\ call'[b].fragNum = s.fragNum + 1
            /\ call'[b].payloadOffset = Offset(s.msg, s.fragNum + 1)
        BY <1>4, <3>1
      <3>3. s.fragNum + 1 \in FragmentNums(s.msg) /\ s.msg \in published'
        BY <1>1, <1>2, <1>4, <1>5, <3>1
      <3> QED
        BY <3>2, <3>3
    <2>2. CASE b # c
      <3>1. call'[b] = call[b]
        BY <1>1, <2>2 DEF PubTypeOK
      <3>2. call[b] # Idle /\ published' = published
        BY <1>1, <3>1
      <3> QED
        BY <3>1, <3>2 DEF PubInv, CallInv
    <2> QED
      BY <2>1, <2>2
  <1>8. DatagramInv'
    BY <1>1, <1>2, <1>3 DEF PubInv, DatagramInv
  <1> QED
    BY <1>1, <1>6, <1>7, <1>8 DEF PubInv, PublishedInv, SeqUnique

LEMMA PubNextOK ==
    ASSUME PubTypeOK, PubInv, PubNext
    PROVE  PubTypeOK' /\ PubInv'
  <1>1. ASSUME NEW c \in Caller, NEW p \in Publisher, NEW t \in Topic, NEW size \in PayloadSize,
               PublishRefused(c, p, t, size)
        PROVE  PubTypeOK' /\ PubInv'
    BY <1>1 DEF PublishRefused, PubTypeOK, PubInv, PublishedInv, SeqUnique, CallInv, DatagramInv
  <1>2. ASSUME NEW c \in Caller, SendFails(c)
        PROVE  PubTypeOK' /\ PubInv'
    BY <1>2 DEF SendFails, PubTypeOK, PubInv, PublishedInv, SeqUnique, CallInv, DatagramInv
  <1>3. ASSUME NEW p \in Publisher, DestroyPublisher(p)
        PROVE  PubTypeOK' /\ PubInv'
    BY <1>3 DEF DestroyPublisher, PubTypeOK, PubInv, PublishedInv, SeqUnique, CallInv, DatagramInv
  <1> QED
    BY <1>1, <1>2, <1>3, PublishBeginOK, SendFragmentOK DEF PubNext

-----------------------------------------------------------------------------
(* Every datagram on the network is a fragment of a published message. *)
LEMMA DatagramShape ==
    ASSUME PubTypeOK, PubInv, NEW d \in datagrams
    PROVE  \E m \in published : \E k \in FragmentNums(m) :
             /\ m \in Message /\ k \in Nat
             /\ d.messageId = MessageId(m) /\ d.messageId \in MessageIds
             /\ d.fragmentNum = k
             /\ d.totalFragments = TotalFragments(m) /\ d.totalFragments \in 1 .. MaxFragments
             /\ d.topic = (IF k = 0 THEN m.topic ELSE NoTopic)
             /\ d.data = ChunkOf(m, k) /\ d.data \in Chunk
  <1>1. PICK m \in published : \E k \in FragmentNums(m) : IsFragment(d, m, k)
    BY DEF PubInv, DatagramInv
  <1>2. PICK k \in FragmentNums(m) : IsFragment(d, m, k)
    BY <1>1
  <1>3. m \in Message /\ TotalFragments(m) <= MaxFragments
    BY DEF PubTypeOK, PubInv, PublishedInv
  <1>4. TotalFragments(m) \in Nat \ {0} /\ MessageId(m) \in MessageIds
    BY <1>3, MessageTypes
  <1>5. k \in Nat /\ TotalFragments(m) \in 1 .. MaxFragments
    BY <1>2, <1>3, <1>4, FragmentsAssumption DEF FragmentNums
  <1>6. d.data \in Chunk
    BY DEF PubTypeOK, Datagram
  <1> QED
    BY <1>2, <1>3, <1>4, <1>5, <1>6 DEF IsFragment

LEMMA AgeTypes == AgeCap \in Nat /\ 0 \in 0 .. AgeCap
  BY SubscriberAssumption DEF AgeCap, LateAfter

(* GetOrCreate and Insert keep entries well formed. *)
LEMMA GetOrCreateType ==
    ASSUME PubTypeOK, PubInv, SubTypeOK, NEW d \in datagrams
    PROVE  IsPartial(GetOrCreate(partials[d.messageId], d))
  <1>1. d.messageId \in MessageIds /\ d.totalFragments \in 1 .. MaxFragments
    BY DatagramShape
  <1> DEFINE pm == partials[d.messageId]
  <1>2. CASE pm.fragments = <<>>
    <2> DEFINE new == [total |-> d.totalFragments, topic |-> NoTopic,
                       fragments |-> [k \in 0 .. d.totalFragments - 1 |-> NoChunk],
                       received |-> {}, age |-> 0]
    <2>1. GetOrCreate(pm, d) = new
      BY <1>2 DEF GetOrCreate
    <2>2. IsPartial(new)
      BY <1>1, AgeTypes DEF IsPartial
    <2> QED
      BY <2>1, <2>2
  <1>3. CASE pm.fragments # <<>>
    <2>1. pm # NoPartial
      BY <1>3 DEF NoPartial
    <2>2. IsPartial(pm)
      BY <1>1, <2>1 DEF SubTypeOK
    <2> QED
      BY <1>3, <2>2 DEF GetOrCreate
  <1> QED
    BY <1>2, <1>3

LEMMA InsertType ==
    ASSUME PubTypeOK, PubInv, NEW d \in datagrams, NEW pm, IsPartial(pm),
           pm.total = d.totalFragments
    PROVE  IsPartial(Insert(pm, d))
  <1>1. PICK m \in published : \E k \in FragmentNums(m) :
             /\ m \in Message /\ k \in Nat
             /\ d.fragmentNum = k
             /\ d.totalFragments = TotalFragments(m) /\ d.totalFragments \in 1 .. MaxFragments
             /\ d.topic = (IF k = 0 THEN m.topic ELSE NoTopic)
             /\ d.data \in Chunk
    BY DatagramShape
  <1>2. /\ d.fragmentNum \in 0 .. pm.total - 1 /\ d.data \in Chunk
        /\ d.topic \in Topic \cup {NoTopic}
    BY <1>1, MessageTypes DEF FragmentNums
  <1>3. /\ Insert(pm, d).total = pm.total
        /\ Insert(pm, d).age = pm.age
        /\ Insert(pm, d).received = pm.received \cup {d.fragmentNum}
        /\ Insert(pm, d).fragments = [pm.fragments EXCEPT ![d.fragmentNum] = d.data]
        /\ Insert(pm, d).topic \in {d.topic, pm.topic}
    BY DEF Insert
  <1> QED
    BY <1>2, <1>3 DEF IsPartial

LEMMA SubInitOK == SubInit => SubTypeOK
  <1> SUFFICES ASSUME SubInit PROVE SubTypeOK
    OBVIOUS
  <1>1. /\ DOMAIN partials = MessageIds
        /\ \A i \in MessageIds : partials[i] = NoPartial
    BY DEF SubInit
  <1>2. handlers \in [Topic -> Handler \cup {NoHandler}] /\ socket \in {-1} \cup 1 .. MaxSockets
    BY DEF SubInit
  <1>3. sinceCleanup \in 0 .. AgeCap /\ inPoll \in 0 .. PollTimeout
    BY AgeTypes, SubscriberAssumption DEF SubInit
  <1> QED
    BY <1>1, <1>2, <1>3 DEF SubInit, SubTypeOK

(* Receiving a fragment keeps the reassembly buffer well formed. *)
LEMMA ProcessFragmentType ==
    ASSUME PubTypeOK, PubInv, SubTypeOK, NEW d \in datagrams, ProcessFragment(d)
    PROVE  SubTypeOK'
  <1> DEFINE g == GetOrCreate(partials[d.messageId], d)
  <1>1. IsPartial(g)
    BY GetOrCreateType
  <1>2. Processed(d) = NoPartial \/ IsPartial(Processed(d))
    <2>1. CASE Discards(g, d)
      BY <2>1 DEF Processed
    <2>2. CASE ~ Discards(g, d) /\ d.fragmentNum \in g.received
      BY <2>2, <1>1 DEF Processed
    <2>3. CASE ~ Discards(g, d) /\ d.fragmentNum \notin g.received
      <3>1. Processed(d) = Insert(g, d) /\ g.total = d.totalFragments
        BY <2>3 DEF Processed, Discards
      <3> QED
        BY <1>1, <3>1, InsertType
    <2> QED
      BY <2>1, <2>2, <2>3
  <1>3. /\ DOMAIN partials' = MessageIds
        /\ \A i \in MessageIds : partials'[i] = NoPartial \/ IsPartial(partials'[i])
    BY <1>2 DEF ProcessFragment, SubTypeOK
  <1>4. thread' \in {"lookup", "check"}
    BY DEF ProcessFragment
  <1> QED
    BY <1>3, <1>4 DEF ProcessFragment, SubTypeOK

LEMMA PollTimesOutType ==
    ASSUME SubTypeOK, PollTimesOut
    PROVE  SubTypeOK'
  <1>1. /\ DOMAIN partials' = MessageIds
        /\ \A i \in MessageIds : partials'[i] = NoPartial \/ IsPartial(partials'[i])
    BY DEF PollTimesOut, CleanupStaleMessages, SubTypeOK
  <1>2. sinceCleanup' \in 0 .. AgeCap
    BY AgeTypes DEF PollTimesOut, SubTypeOK
  <1> QED
    BY <1>1, <1>2 DEF PollTimesOut, SubTypeOK

LEMMA TickType ==
    ASSUME SubTypeOK, Tick
    PROVE  SubTypeOK'
  <1>1. ASSUME NEW i \in MessageIds
        PROVE  partials'[i] = NoPartial \/ IsPartial(partials'[i])
    <2>1. CASE partials[i] = NoPartial
      BY <2>1 DEF Tick
    <2>2. CASE partials[i] # NoPartial
      <3>1. IsPartial(partials[i])
        BY <2>2 DEF SubTypeOK
      <3>2. partials'[i] = [partials[i] EXCEPT !.age = Older(partials[i].age, AgeCap)]
        BY <2>2 DEF Tick
      <3>3. Older(partials[i].age, AgeCap) \in 0 .. AgeCap
        BY <3>1, AgeTypes DEF IsPartial, Older
      <3> QED
        BY <3>1, <3>2, <3>3 DEF IsPartial
    <2> QED
      BY <2>1, <2>2
  <1>2. DOMAIN partials' = MessageIds
    BY DEF Tick
  <1>3. sinceCleanup' \in 0 .. AgeCap /\ inPoll' \in 0 .. PollTimeout
    BY AgeTypes, SubscriberAssumption DEF Tick, SubTypeOK, Older
  <1> QED
    BY <1>1, <1>2, <1>3 DEF Tick, SubTypeOK

LEMMA SubNextType ==
    ASSUME PubTypeOK, PubInv, SubTypeOK, SubNext
    PROVE  SubTypeOK'
  <1>1. ASSUME NEW t \in Topic, NEW h \in Handler, Subscribe(t, h)
        PROVE  SubTypeOK'
    BY <1>1 DEF Subscribe, SubTypeOK
  <1>2. CASE Start
    BY <1>2, AgeTypes DEF Start, SubTypeOK
  <1>3. CASE StartFails
    BY <1>3 DEF StartFails, SubTypeOK
  <1>4. CASE StopBegin("stopping") \/ StopBegin("destroying")
    BY <1>4 DEF StopBegin, SubTypeOK
  <1>5. CASE StopEnd
    BY <1>5 DEF StopEnd, SubTypeOK
  <1>6. CASE Destroy
    BY <1>6 DEF Destroy, SubTypeOK
  <1>7. CASE LoopCheck
    BY <1>7, SubscriberAssumption DEF LoopCheck, SubTypeOK
  <1>8. CASE ReceiveNothing
    BY <1>8 DEF ReceiveNothing, SubTypeOK
  <1>9. CASE LookUpHandler
    BY <1>9 DEF LookUpHandler, SubTypeOK
  <1>10. CASE CallHandler
    BY <1>10 DEF CallHandler, SubTypeOK
  <1> QED
    BY <1>1, <1>2, <1>3, <1>4, <1>5, <1>6, <1>7, <1>8, <1>9, <1>10,
       ProcessFragmentType, PollTimesOutType, TickType DEF SubNext, OwnerNext, ReceiveNext

(* Publisher actions leave the subscriber alone, and the other way round. *)
LEMMA Untouched ==
    /\ (TypeOK /\ UNCHANGED subVars => SubTypeOK')
    /\ (PubTypeOK /\ PubInv /\ SubNext /\ UNCHANGED pubVars => PubTypeOK' /\ PubInv')
  <1>1. TypeOK /\ UNCHANGED subVars => SubTypeOK'
    BY DEF TypeOK, SubTypeOK, subVars
  <1>2. SubNext => datagrams' = datagrams
    BY DEF SubNext, OwnerNext, ReceiveNext, Subscribe, Start, StartFails, StopBegin, StopEnd,
           Destroy, LoopCheck, ReceiveNothing, PollTimesOut, ProcessFragment, LookUpHandler,
           CallHandler, Tick
  <1>3. PubTypeOK /\ PubInv /\ datagrams' = datagrams /\ UNCHANGED pubVars => PubTypeOK' /\ PubInv'
    BY DEF PubTypeOK, PubInv, PublishedInv, SeqUnique, CallInv, DatagramInv, pubVars
  <1> QED
    BY <1>1, <1>2, <1>3

(* Type correctness of the whole channel, and the publisher's part of the  *)
(* inductive invariant: no assumption on topics, ids or publishers.        *)
THEOREM TypeCorrect == Spec => [](TypeOK /\ PubInv)
  <1>1. Init => TypeOK /\ PubInv
    BY PubInitOK, SubInitOK DEF Init, TypeOK
  <1>2. TypeOK /\ PubInv /\ [Next]_vars => (TypeOK /\ PubInv)'
    <2> SUFFICES ASSUME TypeOK, PubInv, [Next]_vars
                 PROVE  TypeOK' /\ PubInv'
      OBVIOUS
    <2>1. CASE PubNext /\ UNCHANGED subVars
      BY <2>1, PubNextOK, Untouched DEF TypeOK
    <2>2. CASE SubNext /\ UNCHANGED pubVars
      BY <2>2, SubNextType, Untouched DEF TypeOK
    <2>3. CASE UNCHANGED vars
      BY <2>3 DEF vars, pubVars, subVars, TypeOK, PubTypeOK, SubTypeOK, PubInv, PublishedInv,
                  SeqUnique, CallInv, DatagramInv
    <2> QED
      BY <2>1, <2>2, <2>3 DEF Next
  <1> QED
    BY <1>1, <1>2, PTL DEF Spec

-----------------------------------------------------------------------------
(* With one publisher whose counter has not wrapped, ids tell messages apart. *)
LEMMA IdsUnique ==
    ASSUME IdsNotReused, PubTypeOK, PubInv, NEW m \in published, NEW n \in published,
           MessageId(m) = MessageId(n)
    PROVE  m = n
  <1>1. m \in Message /\ n \in Message
    BY DEF PubTypeOK
  <1>2. m.pub = n.pub
    BY <1>1 DEF Message, IdsNotReused
  <1>3. m.seq \in 0 .. IdMod - 1 /\ n.seq \in 0 .. IdMod - 1
    BY <1>1, FragmentsAssumption DEF Message, IdsNotReused
  <1>4. m.seq = n.seq
    BY <1>3, FragmentsAssumption DEF MessageId
  <1> QED
    BY <1>2, <1>4 DEF PubInv, SeqUnique

(* The entry that processFragment looks up or creates for a fragment of m  *)
(* holds fragments of m only.                                              *)
LEMMA GetOrCreatePart ==
    ASSUME IdsNotReused, PubTypeOK, PubInv, SubTypeOK, PartialInv, NEW d \in datagrams,
           NEW m \in published, m \in Message, d.messageId = MessageId(m),
           d.totalFragments = TotalFragments(m)
    PROVE  PartOf(GetOrCreate(partials[d.messageId], d), m)
  <1> DEFINE pm == partials[d.messageId]
  <1>1. d.messageId \in MessageIds
    BY MessageTypes
  <1>2. CASE pm.fragments = <<>>
    BY <1>2 DEF GetOrCreate, PartOf, FragmentNums
  <1>3. CASE pm.fragments # <<>>
    <2>1. pm # NoPartial
      BY <1>3 DEF NoPartial
    <2>2. PICK n \in published : MessageId(n) = d.messageId /\ PartOf(pm, n)
      BY <1>1, <2>1 DEF PartialInv
    <2>3. n = m
      BY <2>2, IdsUnique
    <2> QED
      BY <1>3, <2>2, <2>3 DEF GetOrCreate
  <1> QED
    BY <1>2, <1>3

(* Storing fragment k of m in an entry for m. *)
LEMMA InsertPart ==
    ASSUME NEW d, NEW pm, NEW m, NEW k \in FragmentNums(m), PartOf(pm, m), IsPartial(pm),
           d.fragmentNum = k, d.data = ChunkOf(m, k),
           d.topic = (IF k = 0 THEN m.topic ELSE NoTopic)
    PROVE  PartOf(Insert(pm, d), m)
  <1>1. /\ Insert(pm, d).total = pm.total
        /\ Insert(pm, d).received = pm.received \cup {k}
        /\ Insert(pm, d).fragments = [pm.fragments EXCEPT ![k] = ChunkOf(m, k)]
        /\ Insert(pm, d).topic = (IF k = 0 THEN m.topic ELSE pm.topic)
    BY DEF Insert
  <1>2. DOMAIN pm.fragments = FragmentNums(m)
    BY DEF PartOf
  <1> QED
    BY <1>1, <1>2 DEF PartOf

(* A complete entry for m is all of m. *)
LEMMA CompleteIsAll ==
    ASSUME NEW pm, NEW m \in Message, PartOf(pm, m), IsPartial(pm),
           pm.received = FragmentNums(m)
    PROVE  AllOf(pm.topic, pm.fragments, m)
  <1>1. 0 \in pm.received
    BY MessageTypes
  <1>2. pm.fragments = [k \in FragmentNums(m) |-> ChunkOf(m, k)]
    BY DEF PartOf, IsPartial, FragmentNums
  <1> QED
    BY <1>1, <1>2 DEF PartOf, AllOf

LEMMA ProcessFragmentOK ==
    ASSUME IdsNotReused, PubTypeOK, PubInv, SubTypeOK, ReassemblyInv, NEW d \in datagrams,
           ProcessFragment(d), published' = published
    PROVE  ReassemblyInv'
  <1> DEFINE g == GetOrCreate(partials[d.messageId], d)
  <1>1. PICK m \in published : \E k \in FragmentNums(m) :
             /\ m \in Message /\ k \in Nat
             /\ d.messageId = MessageId(m) /\ d.messageId \in MessageIds
             /\ d.fragmentNum = k
             /\ d.totalFragments = TotalFragments(m)
             /\ d.topic = (IF k = 0 THEN m.topic ELSE NoTopic)
             /\ d.data = ChunkOf(m, k)
    BY DatagramShape
  <1>2. PICK k \in FragmentNums(m) :
             /\ m \in Message /\ k \in Nat
             /\ d.messageId = MessageId(m) /\ d.messageId \in MessageIds
             /\ d.fragmentNum = k
             /\ d.totalFragments = TotalFragments(m)
             /\ d.topic = (IF k = 0 THEN m.topic ELSE NoTopic)
             /\ d.data = ChunkOf(m, k)
    BY <1>1
  <1>3. IsPartial(g) /\ PartOf(g, m)
    BY <1>2, GetOrCreateType, GetOrCreatePart DEF ReassemblyInv
  <1>4. g.total = d.totalFragments
    BY <1>2, <1>3 DEF PartOf
  <1>5. IsPartial(Insert(g, d)) /\ PartOf(Insert(g, d), m)
    BY <1>2, <1>3, <1>4, InsertType, InsertPart
  <1>6. Processed(d) = NoPartial \/ PartOf(Processed(d), m)
    BY <1>3, <1>5 DEF Processed
  <1>7. Completes(d) => AllOf(Processed(d).topic, Processed(d).fragments, m)
    <2> SUFFICES ASSUME Completes(d)
                 PROVE  AllOf(Processed(d).topic, Processed(d).fragments, m)
      OBVIOUS
    <2>1. Processed(d) = Insert(g, d) /\ Insert(g, d).received = FragmentNums(m)
      BY <1>2 DEF Completes, Processed, FragmentNums
    <2> QED
      BY <1>2, <1>5, <2>1, CompleteIsAll
  <1>8. PartialInv'
    <2> SUFFICES ASSUME NEW i \in MessageIds, partials'[i] # NoPartial
                 PROVE  \E n \in published : MessageId(n) = i /\ PartOf(partials'[i], n)
      BY DEF PartialInv
    <2>1. CASE i = d.messageId
      <3>1. partials'[i] = Processed(d)
        BY <2>1 DEF ProcessFragment, SubTypeOK
      <3> QED
        BY <1>2, <1>6, <2>1, <3>1
    <2>2. CASE i # d.messageId
      <3>1. partials'[i] = partials[i]
        BY <2>2 DEF ProcessFragment, SubTypeOK
      <3> QED
        BY <3>1 DEF ReassemblyInv, PartialInv
    <2> QED
      BY <2>1, <2>2
  <1>9. PendingInv'
    <2>1. CASE Completes(d)
      <3>1. pending'.topic = Processed(d).topic /\ pending'.payload = Processed(d).fragments
            /\ thread' = "lookup"
        BY <2>1 DEF ProcessFragment
      <3> QED
        BY <1>7, <2>1, <3>1 DEF PendingInv
    <2>2. CASE ~ Completes(d)
      BY <2>2 DEF ProcessFragment, PendingInv
    <2> QED
      BY <2>1, <2>2
  <1>10. DeliveredInv'
    BY DEF ProcessFragment, ReassemblyInv, DeliveredInv
  <1> QED
    BY <1>8, <1>9, <1>10 DEF ReassemblyInv

(* Steps that only add to the published messages and do not touch the      *)
(* subscriber keep the reassembly invariant.                               *)
LEMMA PublishedGrows ==
    ASSUME ReassemblyInv, published \subseteq published', UNCHANGED subVars
    PROVE  ReassemblyInv'
  <1>1. PartialInv'
    BY DEF ReassemblyInv, PartialInv, subVars
  <1>2. PendingInv'
    BY DEF ReassemblyInv, PendingInv, subVars
  <1>3. DeliveredInv'
    BY DEF ReassemblyInv, DeliveredInv, subVars
  <1> QED
    BY <1>1, <1>2, <1>3 DEF ReassemblyInv

(* So does dropping entries or letting them age. *)
LEMMA TickOK ==
    ASSUME SubTypeOK, ReassemblyInv, Tick, published' = published
    PROVE  ReassemblyInv'
  <1>1. ASSUME NEW i \in MessageIds, partials'[i] # NoPartial
        PROVE  \E m \in published : MessageId(m) = i /\ PartOf(partials'[i], m)
    <2>1. partials[i] # NoPartial
          /\ partials'[i] = [partials[i] EXCEPT !.age = Older(partials[i].age, AgeCap)]
      BY <1>1 DEF Tick
    <2>2. /\ partials'[i].total = partials[i].total
          /\ partials'[i].topic = partials[i].topic
          /\ partials'[i].fragments = partials[i].fragments
          /\ partials'[i].received = partials[i].received
      BY <2>1
    <2>3. PICK m \in published : MessageId(m) = i /\ PartOf(partials[i], m)
      BY <2>1 DEF ReassemblyInv, PartialInv
    <2> QED
      BY <2>2, <2>3 DEF PartOf
  <1> QED
    BY <1>1 DEF Tick, ReassemblyInv, PartialInv, PendingInv, DeliveredInv

LEMMA PollTimesOutOK ==
    ASSUME SubTypeOK, ReassemblyInv, PollTimesOut, published' = published
    PROVE  ReassemblyInv'
  <1>1. \A i \in MessageIds : partials'[i] \in {NoPartial, partials[i]}
    BY DEF PollTimesOut, CleanupStaleMessages
  <1> QED
    BY <1>1 DEF PollTimesOut, ReassemblyInv, PartialInv, PendingInv, DeliveredInv

(* The other steps do not change the reassembly buffer. *)
LEMMA SubNextOK ==
    ASSUME IdsNotReused, PubTypeOK, PubInv, SubTypeOK, ReassemblyInv, SubNext,
           published' = published
    PROVE  ReassemblyInv'
  <1> USE DEF ReassemblyInv, PartialInv, PendingInv, DeliveredInv
  <1>1. ASSUME NEW t \in Topic, NEW h \in Handler, Subscribe(t, h)
        PROVE  ReassemblyInv'
    BY <1>1 DEF Subscribe
  <1>2. CASE Start
    BY <1>2 DEF Start
  <1>3. CASE StartFails
    BY <1>3 DEF StartFails
  <1>4. CASE StopBegin("stopping") \/ StopBegin("destroying")
    BY <1>4 DEF StopBegin
  <1>5. CASE StopEnd
    BY <1>5 DEF StopEnd
  <1>6. CASE Destroy
    BY <1>6 DEF Destroy
  <1>7. CASE LoopCheck
    BY <1>7 DEF LoopCheck
  <1>8. CASE ReceiveNothing
    BY <1>8 DEF ReceiveNothing
  <1>9. CASE LookUpHandler
    <2>1. CASE pending.topic \in Topic /\ handlers[pending.topic] # NoHandler
      <3>1. /\ pending'.topic = pending.topic /\ pending'.payload = pending.payload
            /\ pending'.handler = handlers[pending.topic] /\ thread' = "call"
        BY <1>9, <2>1 DEF LookUpHandler
      <3>2. pending'.handler \in Handler
        BY <2>1, <3>1 DEF SubTypeOK
      <3>3. PendingInv'
        BY <1>9, <3>1, <3>2 DEF LookUpHandler
      <3> QED
        BY <1>9, <3>3 DEF LookUpHandler
    <2>2. CASE ~ (pending.topic \in Topic /\ handlers[pending.topic] # NoHandler)
      BY <1>9, <2>2 DEF LookUpHandler
    <2> QED
      BY <2>1, <2>2
  <1>10. CASE CallHandler
    <2>1. PICK m \in published : AllOf(pending.topic, pending.payload, m)
      BY <1>10 DEF CallHandler
    <2>2. DeliveredInv'
      BY <1>10, <2>1 DEF CallHandler
    <2> QED
      BY <1>10, <2>2 DEF CallHandler
  <1> QED
    BY <1>1, <1>2, <1>3, <1>4, <1>5, <1>6, <1>7, <1>8, <1>9, <1>10,
       ProcessFragmentOK, PollTimesOutOK, TickOK DEF SubNext, OwnerNext, ReceiveNext

LEMMA PublishedOnlyGrows == PubNext => published \subseteq published'
  BY DEF PubNext, PublishRefused, PublishBegin, SendFragment, SendFails, DestroyPublisher

(* The reassembly buffer never mixes two messages. *)
THEOREM ReassemblySafe ==
    ASSUME IdsNotReused
    PROVE  Spec => []ReassemblyInv
  <1>1. Init => ReassemblyInv
    BY DEF Init, SubInit, ReassemblyInv, PartialInv, PendingInv, DeliveredInv
  <1>2. TypeOK /\ PubInv /\ ReassemblyInv /\ [Next]_vars => ReassemblyInv'
    <2> SUFFICES ASSUME TypeOK, PubInv, ReassemblyInv, [Next]_vars
                 PROVE  ReassemblyInv'
      OBVIOUS
    <2>1. CASE PubNext /\ UNCHANGED subVars
      BY <2>1, PublishedOnlyGrows, PublishedGrows
    <2>2. CASE SubNext /\ UNCHANGED pubVars
      BY <2>2, SubNextOK DEF pubVars, TypeOK
    <2>3. CASE UNCHANGED vars
      BY <2>3, PublishedGrows DEF vars, pubVars
    <2> QED
      BY <2>1, <2>2, <2>3 DEF Next
  <1> QED
    BY <1>1, <1>2, TypeCorrect, PTL DEF Spec

(* All fragments of m in their places are the whole payload of m. *)
LEMMA AllIsWhole ==
    ASSUME NEW m \in Message, NEW topic, NEW payload, AllOf(topic, payload, m)
    PROVE  topic = m.topic /\ IsWhole(payload, m) /\ payload[0].msg = m
  <1>1. /\ topic = m.topic
        /\ DOMAIN payload = FragmentNums(m)
        /\ \A k \in FragmentNums(m) : payload[k] = ChunkOf(m, k)
    BY DEF AllOf
  <1>2. \A k \in FragmentNums(m) : /\ payload[k].msg = m
                                   /\ payload[k].off = Offset(m, k)
                                   /\ payload[k].len = Offset(m, k + 1) - Offset(m, k)
    BY <1>1 DEF ChunkOf
  <1>3. 0 \in FragmentNums(m) /\ TotalFragments(m) \in Nat \ {0}
    BY MessageTypes
  <1>4. payload[0].off = 0
    BY <1>2, <1>3 DEF Offset
  <1>5. ASSUME NEW k \in FragmentNums(m)
        PROVE  payload[k].off + payload[k].len =
                 IF k + 1 \in DOMAIN payload THEN payload[k + 1].off ELSE m.size
    <2>1. k \in Nat /\ k + 1 \in Nat
      BY <1>3 DEF FragmentNums
    <2>2. Offset(m, k) \in Nat /\ Offset(m, k + 1) \in Nat
      BY <2>1, OffsetSteps
    <2>3. payload[k].off + payload[k].len = Offset(m, k + 1)
      BY <1>2, <2>2
    <2>4. CASE k + 1 \in FragmentNums(m)
      BY <1>1, <1>2, <2>3, <2>4
    <2>5. CASE k + 1 \notin FragmentNums(m)
      <3>1. k + 1 = TotalFragments(m)
        BY <1>3, <2>1, <2>5 DEF FragmentNums
      <3> QED
        BY <1>1, <2>3, <2>5, <3>1, OffsetEnds
    <2> QED
      BY <2>4, <2>5
  <1> QED
    BY <1>1, <1>2, <1>3, <1>4, <1>5 DEF IsWhole, FragmentNums

(* What handlers are called with was published, whole: for every loss,     *)
(* duplication, delay and reordering of datagrams and every interleaving   *)
(* of callers, receive thread and owner, as long as ids are not reused.    *)
THEOREM DeliverySafe ==
    ASSUME IdsNotReused
    PROVE  Spec => []DeliveredWasPublished
  <1>1. TypeOK /\ ReassemblyInv => DeliveredWasPublished
    <2> SUFFICES ASSUME TypeOK, ReassemblyInv, NEW d \in delivered
                 PROVE  \E m \in published : d.topic = m.topic /\ IsWhole(d.payload, m)
      BY DEF DeliveredWasPublished
    <2>1. PICK m \in published : AllOf(d.topic, d.payload, m)
      BY DEF ReassemblyInv, DeliveredInv
    <2>2. m \in Message
      BY DEF TypeOK, PubTypeOK
    <2> QED
      BY <2>1, <2>2, AllIsWhole
  <1> QED
    BY <1>1, ReassemblySafe, TypeCorrect, PTL

(* No packet exceeds the MTU when every topic fits into a fragment. *)
THEOREM PacketsFit ==
    ASSUME TopicsFit
    PROVE  Spec => []PacketsFitMtu
  <1>1. TypeOK /\ PubInv => PacketsFitMtu
    <2> SUFFICES ASSUME TypeOK, PubInv, NEW d \in datagrams
                 PROVE  PacketSize(d) <= Mtu
      BY DEF PacketsFitMtu
    <2>1. PICK m \in published : \E k \in FragmentNums(m) : IsFragment(d, m, k)
      BY DEF PubInv, DatagramInv
    <2>2. PICK k \in FragmentNums(m) : IsFragment(d, m, k)
      BY <2>1
    <2>3. m \in Message /\ m.topic \in Topic /\ m.size \in Nat
      BY MessageTypes DEF TypeOK, PubTypeOK
    <2>4. k \in Nat
      BY <2>2, <2>3, MessageTypes DEF FragmentNums
    <2>5. /\ d.topicLen = (IF k = 0 THEN TopicSize[m.topic] ELSE 0)
          /\ d.data.len = Offset(m, k + 1) - Offset(m, k)
      BY <2>2 DEF IsFragment, ChunkOf
    <2>6. /\ TopicSize[m.topic] \in Nat /\ MaxPayloadPerFragment \in Nat
          /\ Mtu = HeaderSize + MaxPayloadPerFragment /\ HeaderSize \in Nat
      BY <2>3, FragmentsAssumption DEF MaxPayloadPerFragment
    <2>7. CASE k = 0
      <3>1. d.data.len = MinOf(m.size, MaxPayloadPerFragment - TopicSize[m.topic])
        BY <2>3, <2>4, <2>5, <2>7, OffsetSteps, FirstSpaceFits
      <3>2. TopicSize[m.topic] <= MaxPayloadPerFragment
        BY <2>3 DEF TopicsFit
      <3>3. d.topicLen = TopicSize[m.topic]
        BY <2>5, <2>7
      <3>4. d.topicLen + d.data.len <= MaxPayloadPerFragment
        BY <2>3, <2>6, <3>1, <3>2, <3>3 DEF MinOf
      <3>5. d.topicLen + d.data.len \in Int
        BY <2>3, <2>6, <3>1, <3>3 DEF MinOf
      <3> QED
        BY <2>6, <3>4, <3>5 DEF PacketSize, PayloadLen
    <2>8. CASE k # 0
      <3>1. d.data.len = MinOf(m.size - Offset(m, k), MaxPayloadPerFragment) /\ d.topicLen = 0
        BY <2>3, <2>4, <2>5, <2>8, OffsetSteps
      <3>2. Offset(m, k) \in Nat
        BY <2>3, <2>4, OffsetSteps
      <3>3. d.data.len <= MaxPayloadPerFragment /\ d.data.len \in Int
        BY <2>3, <2>6, <3>1, <3>2 DEF MinOf
      <3> QED
        BY <2>6, <3>1, <3>3 DEF PacketSize, PayloadLen
    <2> QED
      BY <2>7, <2>8
  <1> QED
    BY <1>1, TypeCorrect, PTL

(* Publishers and subscriber implement the lossy channel: publish() that   *)
(* takes an id is the abstract Publish, a handler call the abstract        *)
(* Deliver, and every other step is invisible.                             *)
THEOREM Refinement ==
    ASSUME IdsNotReused
    PROVE  Spec => ImplementsLossyChannel
  <1> DEFINE recv == {<<d.handler, Content(d)>> : d \in delivered}
  <1>1. Init => Channel!Init
    BY DEF Init, PubInit, SubInit, Channel!Init
  <1>2. TypeOK /\ PubInv /\ ReassemblyInv /\ [Next]_vars => [Channel!Next]_(Channel!vars)
    <2> SUFFICES ASSUME TypeOK, PubInv, ReassemblyInv, [Next]_vars
                 PROVE  Channel!Next \/ (published' = published /\ recv' = recv)
      BY DEF Channel!vars
    <2>1. ASSUME delivered' = delivered
          PROVE  recv' = recv
      BY <2>1 DEF Content, IsWhole
    <2>2. ASSUME NEW c \in Caller, NEW p \in Publisher, NEW t \in Topic, NEW size \in PayloadSize,
                 PublishBegin(c, p, t, size), UNCHANGED subVars
          PROVE  Channel!Next
      <3> DEFINE m == [pub |-> p, seq |-> messageIdCounter[p], topic |-> t, size |-> size]
      <3>1. published' = published \cup {m}
        BY <2>2 DEF PublishBegin
      <3>2. m \in Message
        <4>1. published' \subseteq Message
          BY <2>2, PublishBeginOK DEF TypeOK, PubTypeOK
        <4> QED
          BY <3>1, <4>1
      <3>3. m \notin published
        <4>1. messageIdCounter[p] \in Nat
          BY FragmentsAssumption DEF TypeOK, PubTypeOK
        <4> QED
          BY <4>1 DEF PubInv, PublishedInv
      <3>4. recv' = recv
        BY <2>1, <2>2 DEF subVars
      <3> QED
        BY <3>1, <3>2, <3>3, <3>4 DEF Channel!Next, Channel!Publish
    <2>3. CASE CallHandler /\ UNCHANGED pubVars
      <3> DEFINE e == [handler |-> pending.handler, topic |-> pending.topic, payload |-> pending.payload]
      <3>1. /\ thread = "call" /\ delivered' = delivered \cup {e} /\ published' = published
        BY <2>3 DEF CallHandler, pubVars
      <3>2. PICK m \in published : AllOf(pending.topic, pending.payload, m)
        BY <3>1 DEF ReassemblyInv, PendingInv
      <3>3. pending.handler \in Handler /\ m \in Message
        BY <3>1 DEF ReassemblyInv, PendingInv, TypeOK, PubTypeOK
      <3>4. Content(e) = m
        BY <3>2, <3>3, AllIsWhole DEF Content
      <3>5. recv' = recv \cup {<<pending.handler, m>>}
        <4>1. recv' = {<<d.handler, Content(d)>> : d \in delivered'}
          BY DEF Content, IsWhole
        <4>2. <<e.handler, Content(e)>> = <<pending.handler, m>>
          BY <3>4
        <4> HIDE DEF e
        <4> QED
          BY <3>1, <4>1, <4>2
      <3> QED
        BY <3>1, <3>2, <3>3, <3>5 DEF Channel!Next, Channel!Deliver
    <2>4. ASSUME PubNext, UNCHANGED subVars
          PROVE  Channel!Next \/ (published' = published /\ recv' = recv)
      <3>1. recv' = recv
        BY <2>1, <2>4 DEF subVars
      <3> QED
        BY <2>2, <2>4, <3>1 DEF PubNext, PublishRefused, SendFragment, SendFails, DestroyPublisher
    <2>5. ASSUME SubNext, UNCHANGED pubVars, ~ CallHandler
          PROVE  published' = published /\ recv' = recv
      <3>1. delivered' = delivered
        BY <2>5 DEF SubNext, OwnerNext, ReceiveNext, Subscribe, Start, StartFails, StopBegin,
             StopEnd, Destroy, LoopCheck, ReceiveNothing, PollTimesOut, ProcessFragment,
             LookUpHandler, Tick
      <3> QED
        BY <2>1, <2>5, <3>1 DEF pubVars
    <2>6. CASE UNCHANGED vars
      BY <2>1, <2>6 DEF vars, pubVars, subVars
    <2> QED
      BY <2>3, <2>4, <2>5, <2>6 DEF Next
  <1> QED
    BY <1>1, <1>2, TypeCorrect, ReassemblySafe, PTL DEF Spec, ImplementsLossyChannel, Channel!Spec

-----------------------------------------------------------------------------
(* Fragment j of m is among the datagrams D. *)
IsOut(D, m, j) == \E e \in D : IsFragment(e, m, j)

(* A call has sent all the fragments before the one it is at, and with a   *)
(* fragment all those before it are on the network.                        *)
SentInv ==
    /\ \A c \in Caller : call[c] # Idle => \A j \in 0 .. call[c].fragNum - 1 : IsOut(datagrams, call[c].msg, j)
    /\ \A d \in datagrams, m \in published, k \in Nat :
         IsFragment(d, m, k) => \A j \in 0 .. k : IsOut(datagrams, m, j)

(* The send loop goes through the fragments in order.                      *)
LEMMA SentInvNext ==
    ASSUME PubTypeOK, PubInv, SentInv, PubNext
    PROVE  SentInv'
  <1>1. ASSUME NEW m, NEW j, IsOut(datagrams, m, j), datagrams \subseteq datagrams'
        PROVE  IsOut(datagrams', m, j)
    BY <1>1 DEF IsOut, IsFragment
  <1>2. ASSUME NEW c \in Caller, NEW p \in Publisher, NEW t \in Topic, NEW size \in PayloadSize,
               PublishBegin(c, p, t, size)
        PROVE  SentInv'
    <2> DEFINE n == [pub |-> p, seq |-> messageIdCounter[p], topic |-> t, size |-> size]
               s == [pc |-> "sending", msg |-> n, fragNum |-> 0, payloadOffset |-> 0]
    <2>1. /\ datagrams' = datagrams /\ published' = published \cup {n}
          /\ call' = [call EXCEPT ![c] = s]
      BY <1>2 DEF PublishBegin
    <2>2. call'[c] = s /\ \A b \in Caller : b # c => call'[b] = call[b]
      BY <2>1 DEF PubTypeOK
    <2>3. \A j \in 0 .. s.fragNum - 1 : FALSE
      OBVIOUS
    <2> HIDE DEF s
    <2>4. \A b \in Caller : call'[b] # Idle => \A j \in 0 .. call'[b].fragNum - 1 : IsOut(datagrams, call'[b].msg, j)
      BY <2>2, <2>3 DEF SentInv
    <2>5. ASSUME NEW d \in datagrams, NEW m \in published', NEW k \in Nat, IsFragment(d, m, k)
          PROVE  m \in published
      <3>1. d.data.msg = m
        BY <2>5 DEF IsFragment, ChunkOf
      <3>2. PICK m2 \in published : d.data = ChunkOf(m2, d.fragmentNum)
        BY DatagramShape
      <3> QED
        BY <3>1, <3>2 DEF ChunkOf
    <2>6. \A d \in datagrams, m \in published', k \in Nat : IsFragment(d, m, k) => \A j \in 0 .. k : IsOut(datagrams, m, j)
      BY <2>5 DEF SentInv
    <2>7. \A m, j : IsOut(datagrams, m, j) => IsOut(datagrams', m, j)
      BY <1>1, <2>1
    <2> QED
      BY <2>1, <2>4, <2>6, <2>7 DEF SentInv, IsFragment
  <1>3. ASSUME NEW c \in Caller, SendFragment(c)
        PROVE  SentInv'
    <2> DEFINE s == call[c]
               last == s.fragNum + 1 = TotalFragments(s.msg)
               u == [s EXCEPT !.fragNum = @ + 1, !.payloadOffset = @ + PayloadInFrag(s)]
    <2>1. /\ s # Idle
          /\ datagrams' = datagrams \cup {Packet(s)}
          /\ call' = [call EXCEPT ![c] = IF last THEN Idle ELSE u]
          /\ published' = published
      BY <1>3 DEF SendFragment
    <2>2. /\ s \in Sending /\ s.fragNum \in Nat /\ s.msg \in published
          /\ IsFragment(Packet(s), s.msg, s.fragNum)
      BY <2>1, SendingCall, PacketIsFragment DEF PubInv
    <2>3. u.msg = s.msg /\ u.fragNum = s.fragNum + 1
      BY <2>2 DEF Sending
    <2>4. \A m, j : IsOut(datagrams, m, j) => IsOut(datagrams', m, j)
      BY <1>1, <2>1
    <2>5. IsOut(datagrams', s.msg, s.fragNum)
      BY <2>1, <2>2 DEF IsOut, IsFragment
    <2>6. \A j \in 0 .. s.fragNum : IsOut(datagrams', s.msg, j)
      <3>1. \A j \in 0 .. s.fragNum : j = s.fragNum \/ j \in 0 .. s.fragNum - 1
        BY <2>2
      <3>2. \A j \in 0 .. s.fragNum - 1 : IsOut(datagrams, s.msg, j)
        BY <2>1 DEF SentInv
      <3> QED
        BY <2>4, <2>5, <3>1, <3>2
    <2>7. call'[c] \in {Idle, u} /\ \A b \in Caller : b # c => call'[b] = call[b]
      BY <2>1 DEF PubTypeOK
    <2>8. 0 .. (s.fragNum + 1) - 1 = 0 .. s.fragNum
      BY <2>2
    <2> HIDE DEF u
    <2>9. ASSUME NEW b \in Caller, call'[b] # Idle, NEW j \in 0 .. call'[b].fragNum - 1
          PROVE  IsOut(datagrams', call'[b].msg, j)
      <3>1. CASE b = c
        BY <2>3, <2>6, <2>7, <2>8, <2>9, <3>1
      <3>2. CASE b # c
        BY <2>4, <2>7, <2>9, <3>2 DEF SentInv
      <3> QED
        BY <3>1, <3>2
    <2>10. ASSUME NEW d \in datagrams', NEW m \in published, NEW k \in Nat, IsFragment(d, m, k),
                  NEW j \in 0 .. k
           PROVE  IsOut(datagrams', m, j)
      <3>1. CASE d \in datagrams
        BY <2>4, <2>10, <3>1 DEF SentInv
      <3>2. CASE d = Packet(s)
        <4>1. d.data.msg = m /\ d.fragmentNum = k /\ d.data.msg = s.msg /\ d.fragmentNum = s.fragNum
          BY <2>2, <2>10, <3>2 DEF IsFragment, ChunkOf
        <4> QED
          BY <2>6, <2>10, <4>1
      <3> QED
        BY <2>1, <3>1, <3>2
    <2> QED
      BY <2>1, <2>9, <2>10 DEF SentInv, IsFragment
  <1>4. ASSUME NEW c \in Caller, SendFails(c)
        PROVE  SentInv'
    <2>1. /\ UNCHANGED <<datagrams, published>>
          /\ call'[c] = Idle /\ \A b \in Caller : b # c => call'[b] = call[b]
      BY <1>4 DEF SendFails, PubTypeOK
    <2> QED
      BY <2>1 DEF SentInv, IsOut, IsFragment
  <1>5. ASSUME UNCHANGED <<datagrams, published, call>>
        PROVE  SentInv'
    BY <1>5 DEF SentInv, IsOut, IsFragment
  <1> QED
    BY <1>2, <1>3, <1>4, <1>5 DEF PubNext, PublishRefused, DestroyPublisher

(* Multiplication by a natural number is monotonic. *)
LEMMA ProductGrows ==
    ASSUME NEW i \in Nat, NEW j \in Nat, NEW b \in Nat, i <= j
    PROVE  i * b <= j * b /\ i * b \in Nat /\ j * b \in Nat
  <1>1. j = i + (j - i) /\ j - i \in Nat
    OBVIOUS
  <1>2. \A d \in Nat : (i + d) * b = i * b + d * b /\ d * b \in Nat /\ i * b \in Nat
    OBVIOUS
  <1> QED
    BY <1>1, <1>2

(* Later fragments do not start before earlier ones. *)
LEMMA OffsetGrows ==
    ASSUME NEW m \in Message, NEW i \in Nat, NEW j \in Nat, i <= j
    PROVE  Offset(m, i) <= Offset(m, j)
  <1> DEFINE F == FirstFragPayloadSpace(m.topic)
             B == MaxPayloadPerFragment
  <1>1. m.size \in Nat /\ F \in Nat /\ B \in Nat
    BY MessageTypes
  <1>2. CASE i = 0
    <2>1. Offset(m, j) \in Nat
      BY OffsetSteps
    <2>2. Offset(m, i) = 0
      BY <1>2 DEF Offset
    <2> QED
      BY <2>1, <2>2
  <1>3. CASE i # 0
    <2>1. i - 1 \in Nat /\ j - 1 \in Nat /\ i - 1 <= j - 1 /\ j # 0
      BY <1>3
    <2> DEFINE I == (i - 1) * B
               J == (j - 1) * B
    <2>2. I <= J /\ I \in Nat /\ J \in Nat
      BY <1>1, <2>1, ProductGrows
    <2>3. Offset(m, i) = MinOf(m.size, F + I) /\ Offset(m, j) = MinOf(m.size, F + J)
      BY <1>3, <2>1 DEF Offset
    <2> HIDE DEF F, B, I, J
    <2> QED
      BY <1>1, <2>2, <2>3 DEF MinOf
  <1> QED
    BY <1>2, <1>3

(* Every byte of a payload belongs to one of the fragments counted up      *)
(* front.                                                                 *)
LEMMA ByteHasFragment ==
    ASSUME NEW m \in Message, NEW b \in 0 .. m.size - 1
    PROVE  \E k \in FragmentNums(m) : Offset(m, k) <= b /\ b < Offset(m, k + 1)
  <1> DEFINE F == FirstFragPayloadSpace(m.topic)
             B == MaxPayloadPerFragment
             N == TotalFragments(m)
  <1>1. m.size \in Nat /\ F \in Nat /\ B \in Nat /\ B > 0 /\ N \in Nat \ {0} /\ b \in Nat /\ b < m.size
    BY MessageTypes
  <1>2. CASE b < F
    <2>1. Offset(m, 0) = 0 /\ Offset(m, 0 + 1) = MinOf(m.size, F)
      BY <1>1, OffsetSteps DEF Offset
    <2>2. 0 \in FragmentNums(m)
      BY MessageTypes
    <2> HIDE DEF F
    <2>3. b < MinOf(m.size, F)
      BY <1>1, <1>2 DEF MinOf
    <2> QED
      BY <1>1, <2>1, <2>2, <2>3
  <1>3. CASE b >= F
    <2> DEFINE q == (b - F) \div B
               Q == q * B
               k == q + 1
    <2> HIDE DEF F, B, N
    <2>1. q \in Nat /\ Q \in Nat /\ Q <= b - F /\ b - F < Q + B
      BY <1>1, <1>3
    <2>2. k \in Nat /\ k # 0 /\ k + 1 # 0 /\ (k - 1) * B = Q /\ (k + 1 - 1) * B = Q + B
      BY <1>1, <2>1
    <2>3. Offset(m, k) = MinOf(m.size, F + Q) /\ Offset(m, k + 1) = MinOf(m.size, F + (Q + B))
      BY <2>2 DEF Offset, F, B
    <2> HIDE DEF q, Q, k
    <2>4. Offset(m, k) <= b /\ b < Offset(m, k + 1)
      BY <1>1, <1>3, <2>1, <2>3 DEF MinOf
    <2>5. Offset(m, N) = m.size
      BY OffsetEnds DEF N
    <2>6. k < N
      <3> SUFFICES ASSUME N <= k PROVE FALSE
        BY <1>1, <2>2
      <3>1. m.size <= Offset(m, k)
        BY <1>1, <2>2, <2>5, OffsetGrows
      <3> QED
        BY <1>1, <2>2, <2>4, <3>1, OffsetSteps
    <2>7. k \in FragmentNums(m)
      BY <1>1, <2>2, <2>6 DEF FragmentNums, N
    <2> QED
      BY <2>4, <2>7
  <1> QED
    BY <1>1, <1>2, <1>3

(* No byte belongs to two fragments. *)
LEMMA ByteHasOneFragment ==
    ASSUME NEW m \in Message, NEW b \in Nat, NEW i \in Nat, NEW j \in Nat,
           Offset(m, i) <= b, b < Offset(m, i + 1), Offset(m, j) <= b, b < Offset(m, j + 1)
    PROVE  i = j
  <1>1. /\ Offset(m, i) \in Nat /\ Offset(m, i + 1) \in Nat
        /\ Offset(m, j) \in Nat /\ Offset(m, j + 1) \in Nat
    BY OffsetSteps
  <1>2. i + 1 <= j => Offset(m, i + 1) <= Offset(m, j)
    BY OffsetGrows
  <1>3. j + 1 <= i => Offset(m, j + 1) <= Offset(m, i)
    BY OffsetGrows
  <1> QED
    BY <1>1, <1>2, <1>3

(* With the last fragment of m on the network all are, and they partition  *)
(* the payload.                                                            *)
LEMMA SentIsCovered ==
    ASSUME PubTypeOK, PubInv, SentInv
    PROVE  FragmentsPartitionPayload
  <1> SUFFICES ASSUME NEW m \in published, FullySent(m), NEW b \in 0 .. m.size - 1
               PROVE  \E d \in FragmentsOf(m) :
                        /\ d.data.off <= b /\ b < d.data.off + d.data.len
                        /\ \A e \in FragmentsOf(m) :
                             (e.data.off <= b /\ b < e.data.off + e.data.len) => e = d
    BY DEF FragmentsPartitionPayload, CoversOnce
  <1>1. m \in Message /\ m.size \in Nat /\ TotalFragments(m) \in Nat \ {0} /\ b \in Nat
    BY MessageTypes DEF PubTypeOK
  <1>2. ASSUME NEW e \in FragmentsOf(m)
        PROVE  \E j \in FragmentNums(m) : IsFragment(e, m, j)
    <2>1. e \in datagrams /\ e.data.msg = m
      BY DEF FragmentsOf
    <2>2. PICK n \in published : \E j \in FragmentNums(n) : IsFragment(e, n, j)
      BY <2>1 DEF PubInv, DatagramInv
    <2>3. n = m
      BY <2>1, <2>2 DEF IsFragment, ChunkOf
    <2> QED
      BY <2>2, <2>3
  <1>3. ASSUME NEW j \in FragmentNums(m), NEW e, IsFragment(e, m, j)
        PROVE  /\ j \in Nat /\ e.data.msg = m /\ e.fragmentNum = j /\ e.totalFragments = TotalFragments(m)
               /\ e.data.off = Offset(m, j) /\ e.data.off + e.data.len = Offset(m, j + 1)
    <2>1. j \in Nat
      BY <1>1 DEF FragmentNums
    <2>2. Offset(m, j) \in Nat /\ Offset(m, j + 1) \in Nat
      BY <1>1, <2>1, OffsetSteps
    <2>3. /\ e.data = ChunkOf(m, j) /\ e.fragmentNum = j /\ e.totalFragments = TotalFragments(m)
      BY <1>3 DEF IsFragment
    <2>4. /\ e.data.msg = m /\ e.data.off = Offset(m, j)
          /\ e.data.len = Offset(m, j + 1) - Offset(m, j)
      BY <2>3 DEF ChunkOf
    <2> QED
      BY <2>1, <2>2, <2>3, <2>4
  <1>4. \A j \in FragmentNums(m) : IsOut(datagrams, m, j)
    <2>1. PICK d \in FragmentsOf(m) : d.fragmentNum = d.totalFragments - 1
      BY DEF FullySent
    <2>2. PICK k \in FragmentNums(m) : IsFragment(d, m, k)
      BY <1>2
    <2>3. k \in Nat /\ k = TotalFragments(m) - 1 /\ d \in datagrams
      BY <1>3, <2>1, <2>2 DEF FragmentsOf
    <2> QED
      BY <2>2, <2>3 DEF SentInv, FragmentNums
  <1>5. PICK k \in FragmentNums(m) : Offset(m, k) <= b /\ b < Offset(m, k + 1)
    BY <1>1, ByteHasFragment
  <1>6. PICK d \in datagrams : IsFragment(d, m, k)
    BY <1>4 DEF IsOut
  <1>7. d \in FragmentsOf(m) /\ d.data.off <= b /\ b < d.data.off + d.data.len
    BY <1>3, <1>5, <1>6 DEF FragmentsOf
  <1>8. ASSUME NEW e \in FragmentsOf(m), e.data.off <= b, b < e.data.off + e.data.len
        PROVE  e = d
    <2>1. PICK j \in FragmentNums(m) : IsFragment(e, m, j)
      BY <1>2
    <2>2. j \in Nat /\ k \in Nat /\ Offset(m, j) <= b /\ b < Offset(m, j + 1)
      BY <1>1, <1>3, <1>6, <1>8, <2>1
    <2>3. j = k
      BY <1>1, <1>5, <2>2, ByteHasOneFragment
    <2> QED
      BY <1>6, <2>1, <2>3 DEF IsFragment
  <1> QED
    BY <1>7, <1>8

(* The fragments of a sent message partition its payload, whatever the     *)
(* MTU, the topic and the size, and for calls that overlap: the publishers *)
(* alone ...                                                               *)
THEOREM PublisherPartitions == PubSpec => []FragmentsPartitionPayload
  <1>1. PubInit => PubTypeOK /\ PubInv /\ SentInv
    BY PubInitOK DEF PubInit, SentInv
  <1>2. PubTypeOK /\ PubInv /\ SentInv /\ [PubNext]_<<datagrams, pubVars>> => (PubTypeOK /\ PubInv /\ SentInv)'
    <2>1. PubTypeOK /\ PubInv /\ SentInv /\ PubNext => (PubTypeOK /\ PubInv /\ SentInv)'
      BY PubNextOK, SentInvNext
    <2>2. PubTypeOK /\ PubInv /\ SentInv /\ UNCHANGED <<datagrams, pubVars>>
            => (PubTypeOK /\ PubInv /\ SentInv)'
      BY DEF pubVars, PubTypeOK, PubInv, PublishedInv, SeqUnique, CallInv, DatagramInv, SentInv, IsOut, IsFragment
    <2> QED
      BY <2>1, <2>2
  <1>3. PubTypeOK /\ PubInv /\ SentInv => FragmentsPartitionPayload
    BY SentIsCovered
  <1> QED
    BY <1>1, <1>2, <1>3, PTL DEF PubSpec

(* ... and with the subscriber, which takes no part in it.                 *)
THEOREM ChannelPartitions == Spec => []FragmentsPartitionPayload
  <1>1. Init => SentInv
    BY DEF Init, PubInit, SentInv
  <1>2. TypeOK /\ PubInv /\ SentInv /\ [Next]_vars => SentInv'
    <2>1. TypeOK /\ PubInv /\ SentInv /\ PubNext => SentInv'
      BY SentInvNext DEF TypeOK
    <2>2. SubNext => datagrams' = datagrams
      BY DEF SubNext, OwnerNext, ReceiveNext, Subscribe, Start, StartFails, StopBegin, StopEnd,
             Destroy, LoopCheck, ReceiveNothing, PollTimesOut, ProcessFragment, LookUpHandler,
             CallHandler, Tick
    <2>3. SentInv /\ UNCHANGED <<datagrams, pubVars>> => SentInv'
      BY DEF pubVars, SentInv, IsOut, IsFragment
    <2> QED
      BY <2>1, <2>2, <2>3 DEF Next, vars
  <1>3. TypeOK /\ PubInv /\ SentInv => FragmentsPartitionPayload
    BY SentIsCovered DEF TypeOK
  <1> QED
    BY <1>1, <1>2, <1>3, TypeCorrect, PTL DEF Spec

-----------------------------------------------------------------------------
(* The receive thread is in its loop only while the object runs or its     *)
(* owner waits for the thread in stop() or in the destructor.              *)
LoopIsOwned ==
    thread \notin {"none", "exited"} => running \/ app \in {"stopping", "destroying"}

(* Each action of the owner and of the receive thread preserves it. *)
LEMMA LoopIsOwnedNext ==
    ASSUME LoopIsOwned, SubNext
    PROVE  LoopIsOwned'
  <1>1. ASSUME NEW t \in Topic, NEW h \in Handler, Subscribe(t, h)
        PROVE  LoopIsOwned'
    BY <1>1 DEF Subscribe, LoopIsOwned
  <1>2. CASE Start \/ StartFails
    BY <1>2 DEF Start, StartFails, LoopIsOwned
  <1>3. CASE StopBegin("stopping") \/ StopBegin("destroying")
    BY <1>3 DEF StopBegin, LoopIsOwned
  <1>4. CASE StopEnd \/ Destroy
    BY <1>4 DEF StopEnd, Destroy, LoopIsOwned
  <1>5. CASE LoopCheck \/ ReceiveNothing \/ PollTimesOut
    BY <1>5 DEF LoopCheck, ReceiveNothing, PollTimesOut, LoopIsOwned
  <1>6. ASSUME NEW d \in datagrams, ProcessFragment(d)
        PROVE  LoopIsOwned'
    <2>1. thread = "poll" /\ UNCHANGED <<running, app>>
      BY <1>6 DEF ProcessFragment
    <2> QED
      BY <2>1 DEF LoopIsOwned
  <1>7. CASE LookUpHandler \/ CallHandler
    <2>1. thread \in {"lookup", "call"} /\ UNCHANGED <<running, app>>
      BY <1>7 DEF LookUpHandler, CallHandler
    <2> QED
      BY <2>1 DEF LoopIsOwned
  <1>8. CASE Tick
    BY <1>8 DEF Tick, LoopIsOwned
  <1> QED
    BY <1>1, <1>2, <1>3, <1>4, <1>5, <1>6, <1>7, <1>8 DEF SubNext, OwnerNext, ReceiveNext

(* No handler is called between the return of stop() and the next start(), *)
(* for any number of publishers, topics, handlers and restarts.            *)
THEOREM StopIsFinal == Spec => NoCallbackAfterStop
  <1>1. Init => LoopIsOwned
    BY DEF Init, SubInit, LoopIsOwned
  <1>2. LoopIsOwned /\ [Next]_vars => LoopIsOwned'
    <2>1. LoopIsOwned /\ SubNext => LoopIsOwned'
      BY LoopIsOwnedNext
    <2>2. LoopIsOwned /\ UNCHANGED subVars => LoopIsOwned'
      BY DEF LoopIsOwned, subVars
    <2> QED
      BY <2>1, <2>2 DEF Next, vars
  <1>3. LoopIsOwned /\ [Next]_vars
          => [delivered' # delivered => (running \/ app \in {"stopping", "destroying"})]_vars
    <2>1. SubNext /\ delivered' # delivered => CallHandler
      BY DEF SubNext, OwnerNext, ReceiveNext, Subscribe, Start, StartFails, StopBegin, StopEnd,
             Destroy, LoopCheck, ReceiveNothing, PollTimesOut, ProcessFragment, LookUpHandler, Tick
    <2>2. LoopIsOwned /\ CallHandler => running \/ app \in {"stopping", "destroying"}
      BY DEF LoopIsOwned, CallHandler
    <2>3. UNCHANGED subVars => delivered' = delivered
      BY DEF subVars
    <2> QED
      BY <2>1, <2>2, <2>3 DEF Next, vars
  <1> QED
    BY <1>1, <1>2, <1>3, PTL DEF Spec, NoCallbackAfterStop
=============================================================================
