--------------------------- MODULE OmniscopeProof ---------------------------
(***************************************************************************)
(* Proofs about OmniscopeApp, for every set of workers and topics: the     *)
(* type invariant, what broadcastWs and recordMessage promise, the order   *)
(* of the Zyre messages, and that TransportDds implements Transport.       *)
(***************************************************************************)
EXTENDS OmniscopeApp, SequenceTheorems, TLAPS

(* The sets the variables range over. *)
CallState == [pc : {"none", "record", "lock", "send"}, inst : Instance \cup {NoTopic}, msg : Nat,
              recNo : Nat, todo : SUBSET Worker]
WorkerState == [pc : {"idle", "open", "close", "subscribe", "insert", "unsubscribe", "join", "list"},
                topic : Topic \cup {NoTopic}, todo : SUBSET Topic]
Line == [inst : Instance, msg : Nat]
PollState == [pc : {"none", "loop", "take", "call", "exited"}, within : SUBSET DdsInstance]
Shouts == [type : {"SHOUT"}, topic : ZyreTopic, msg : Nat]
Event == {Stop} \cup Shouts

DdsTypes ==
    /\ ddsActive \in SUBSET DdsTopic /\ hasReader \in SUBSET DdsTopic
    /\ running \in [DdsTopic -> BOOLEAN]
    /\ reader \in [DdsInstance -> Seq(Nat)] /\ taken \in [DdsInstance -> Seq(Nat)]
    /\ poll \in [DdsTopic -> PollState]

ZyreTypes ==
    /\ zyreActive \in SUBSET ZyreTopic /\ handlers \in SUBSET ZyreTopic
    /\ inbox \in Seq(Event)
    /\ rx \in [pc : {"none", "event", "lookup", "call", "exited"}, event : Event]
    /\ subNode \in Node /\ pubNode \in Node

AppTypes ==
    /\ sent \in [Instance -> Nat] /\ last \in [Instance -> Nat] /\ since \in [Instance -> Nat]
    /\ callback \in [Thread -> CallState]
    /\ worker \in [Worker -> WorkerState]
    /\ wsConnections \in SUBSET Worker
    /\ rec \in [on : BOOLEAN, open : BOOLEAN, no : Nat]
    /\ file \in Seq(Line)
    /\ due \in SUBSET Line

(* Who holds which mutex is seen from where the threads are. *)
WsLock ==
    /\ wsMutex \in Thread \cup {Free}
    /\ \A th \in Thread : (callback[th].pc = "send") <=> (wsMutex = th)
    /\ \A th \in Thread : callback[th].pc # "send" => callback[th].todo = {}

TransportLocks ==
    /\ ddsMutex \in Worker \cup {Free} /\ zyreMutex \in Worker \cup {Free}
    /\ \A w \in Worker :
         (ddsMutex = w) <=> (worker[w].pc \in {"insert", "join"} /\ worker[w].topic \in DdsTopic)
    /\ \A w \in Worker : (zyreMutex = w) <=> (worker[w].pc = "insert" /\ worker[w].topic \in ZyreTopic)
    /\ \A w \in Worker : worker[w].pc \in {"insert", "join"} => worker[w].topic \in Topic
    /\ main # "run" => \A w \in Worker : worker[w].pc = "idle"

Inserting(t) == \E w \in Worker : worker[w].pc = "insert" /\ worker[w].topic = t

(* A poll thread exists only for a topic whose subscribe() has been called  *)
(* and whose unsubscribe() has not returned; it has samples only where it   *)
(* passes them on; and the reader holds no more of an instance than the     *)
(* depth of its topic.                                                      *)
PollThreads ==
    /\ \A t \in DdsTopic :
         /\ poll[t].pc # "none" \/ running[t] => t \in ddsActive \/ Inserting(t)
         /\ poll[t].pc # "none" => t \in hasReader
         /\ poll[t].pc # "call" => \A i \in Of(t) : taken[i] = <<>>
         /\ \A i \in Of(t) : Len(reader[i]) <= Depth[t]
    /\ \A w \in Worker : worker[w].pc = "join" /\ worker[w].topic \in DdsTopic => ~ running[worker[w].topic]

Handlers ==
    /\ zyreActive \subseteq handlers
    /\ \A w \in Worker : worker[w].pc = "insert" /\ worker[w].topic \in ZyreTopic => worker[w].topic \in handlers

(* A thread is inside the callback only for an instance of its own, with    *)
(* the latest message of it; a poll thread is then at its handler call.     *)
Calls ==
    /\ \A th \in Thread : callback[th].pc = "none" => callback[th] = NoCall
    /\ \A t \in DdsTopic : callback[t].pc # "none" => callback[t].inst \in Of(t) /\ poll[t].pc = "call"
    /\ callback[Receiver].pc # "none" => callback[Receiver].inst \in ZyreTopic
    /\ \A th \in Thread : callback[th].pc # "none" => callback[th].msg = last[callback[th].inst]
    /\ \A i \in Instance : last[i] <= sent[i] /\ since[i] <= sent[i]

(* The samples of an instance that the poll thread has taken, and those     *)
(* still in the reader: in order, new to the callback (l), published after  *)
(* the subscription (c), and published (s).                                 *)
PendingSamples(got, cache, l, c, s) ==
    /\ \A i \in 1 .. Len(got) : l < got[i] /\ c < got[i] /\ got[i] <= s
    /\ \A i \in 1 .. Len(cache) : l < cache[i] /\ c < cache[i] /\ cache[i] <= s
    /\ \A i, j \in 1 .. Len(got) : i < j => got[i] < got[j]
    /\ \A i, j \in 1 .. Len(cache) : i < j => cache[i] < cache[j]
    /\ \A i \in 1 .. Len(got), j \in 1 .. Len(cache) : got[i] < cache[j]

DdsOrder == \A i \in DdsInstance : PendingSamples(taken[i], reader[i], last[i], since[i], sent[i])

(* The same for the events in the inbox of the Zyre node, with l and s      *)
(* functions of the topic, and for the event that is being worked on.       *)
PendingShouts(q, l, s) ==
    /\ \A i \in 1 .. Len(q) : q[i] \in Shouts => l[q[i].topic] < q[i].msg /\ q[i].msg <= s[q[i].topic]
    /\ \A i, j \in 1 .. Len(q) :
         i < j /\ q[i] \in Shouts /\ q[j] \in Shouts /\ q[i].topic = q[j].topic => q[i].msg < q[j].msg

CurrentShout(e, q, l, s) ==
    /\ e \in Shouts
    /\ l[e.topic] < e.msg /\ e.msg <= s[e.topic]
    /\ \A i \in 1 .. Len(q) : q[i] \in Shouts /\ q[i].topic = e.topic => e.msg < q[i].msg

ZyreOrder ==
    /\ PendingShouts(inbox, last, sent)
    /\ rx.pc \in {"lookup", "call"} => CurrentShout(rx.event, inbox, last, sent)

(* The lines of a file, in order within an instance and none later than l.  *)
Lines(f) == {f[k] : k \in 1 .. Len(f)}
InOrder(f, l) ==
    /\ \A j, k \in 1 .. Len(f) : j < k /\ f[j].inst = f[k].inst => f[j].msg < f[k].msg
    /\ \A k \in 1 .. Len(f) : f[k].msg <= l[f[k].inst]

(* A message that is about to be recorded is not in the file; one of this   *)
(* recording that has passed recordMessage is.                              *)
LineOf(th) == [inst |-> callback[th].inst, msg |-> callback[th].msg]
Recording ==
    /\ rec.on => rec.no > 0
    /\ InOrder(file, last)
    /\ \A th \in Thread :
         /\ callback[th].recNo <= rec.no
         /\ callback[th].pc = "record" => \A k \in 1 .. Len(file) :
               file[k].inst = callback[th].inst => file[k].msg < callback[th].msg
         /\ callback[th].pc \in {"lock", "send"} /\ callback[th].recNo = rec.no /\ rec.on /\ rec.open
               => LineOf(th) \in Lines(file)
    /\ rec.on /\ rec.open => due \subseteq Lines(file)

Inv ==
    /\ DdsTypes /\ ZyreTypes /\ AppTypes
    /\ WsLock /\ SendsToLiveConnections /\ TransportLocks
    /\ PollThreads /\ Handlers /\ Calls
    /\ DdsOrder /\ ZyreOrder /\ Recording
-----------------------------------------------------------------------------
(* The instances. *)

(* Instances of DDS and topics of Zyre are apart, and each has its topic.   *)
LEMMA Instances ==
  /\ DdsInstance \subseteq Instance /\ ZyreTopic \subseteq Instance /\ DdsInstance \cap ZyreTopic = {}
  /\ NoTopic \notin Instance
  /\ \A i \in DdsInstance : TopicOf(i) = InstanceTopic[i] /\ TopicOf(i) \in DdsTopic /\ i \in Of(TopicOf(i))
  /\ \A t \in ZyreTopic : TopicOf(t) = t
  /\ \A t : Of(t) \subseteq DdsInstance /\ \A i \in Of(t) : TopicOf(i) = t
  BY OmniscopeAssumption DEF Instance, Topic, TopicOf, Of

(* The samples of a topic are dropped; those of the others stay.            *)
LEMMA WithoutFacts ==
  ASSUME NEW f \in [DdsInstance -> Seq(Nat)], NEW t
  PROVE  /\ Without(f, t) \in [DdsInstance -> Seq(Nat)]
         /\ \A i \in Of(t) : Without(f, t)[i] = <<>>
         /\ \A i \in DdsInstance \ Of(t) : Without(f, t)[i] = f[i]
<1>1. <<>> \in Seq(Nat)
  OBVIOUS
<1> QED
  BY <1>1, Instances DEF Without
-----------------------------------------------------------------------------
(* Sequences. *)

(* What Head and Tail give of a sequence that is not empty.                 *)
LEMMA TailFacts ==
  ASSUME NEW D, NEW q \in Seq(D), q # <<>>
  PROVE  /\ Tail(q) \in Seq(D) /\ Head(q) \in D /\ Head(q) = q[1]
         /\ Len(q) \in Nat \ {0} /\ Len(Tail(q)) = Len(q) - 1
         /\ \A i \in 1 .. Len(Tail(q)) : Tail(q)[i] = q[i + 1]
  OBVIOUS

(* What Append gives.                                                       *)
LEMMA AppendFacts ==
  ASSUME NEW D, NEW q \in Seq(D), NEW x \in D
  PROVE  /\ Append(q, x) \in Seq(D) /\ Len(q) \in Nat /\ Len(Append(q, x)) = Len(q) + 1
         /\ \A i \in 1 .. Len(q) : Append(q, x)[i] = q[i]
         /\ Append(q, x)[Len(q) + 1] = x
  OBVIOUS

(* pollLoop passes on the oldest sample: the others stay in order, and later. *)
LEMMA NextSample ==
  ASSUME NEW got \in Seq(Nat), NEW cache \in Seq(Nat), NEW l \in Nat, NEW c \in Nat, NEW s \in Nat,
         got # <<>>, PendingSamples(got, cache, l, c, s)
  PROVE  /\ PendingSamples(Tail(got), cache, l, c, s)
         /\ PendingSamples(Tail(got), cache, Head(got), c, s)
         /\ l < Head(got) /\ c < Head(got) /\ Head(got) <= s
<1> DEFINE u == Tail(got)
           n == Len(u)
<1>1. /\ u \in Seq(Nat) /\ Head(got) \in Nat /\ Head(got) = got[1]
      /\ n \in Nat /\ Len(got) = n + 1 /\ \A i \in 1 .. n : u[i] = got[i + 1]
  BY TailFacts
<1>2. \A i \in 1 .. n : u[i] \in Nat
  BY <1>1
<1> HIDE DEF u
<1>3. \A i \in 1 .. n : i + 1 \in 1 .. Len(got) /\ 1 \in 1 .. Len(got) /\ 1 < i + 1
  BY <1>1
<1>4. 1 \in 1 .. Len(got)
  BY <1>1
<1>5. l < Head(got) /\ c < Head(got) /\ Head(got) <= s
  BY <1>1, <1>4 DEF PendingSamples
<1>6. \A i \in 1 .. n : Head(got) < u[i] /\ l < u[i] /\ c < u[i] /\ u[i] <= s
  BY <1>1, <1>3 DEF PendingSamples
<1>7. \A i, j \in 1 .. n : i < j => u[i] < u[j]
  <2> SUFFICES ASSUME NEW i \in 1 .. n, NEW j \in 1 .. n, i < j PROVE u[i] < u[j]
    OBVIOUS
  <2>1. i + 1 \in 1 .. Len(got) /\ j + 1 \in 1 .. Len(got) /\ i + 1 < j + 1
    BY <1>1
  <2> QED
    BY <2>1, <1>1 DEF PendingSamples
<1>8. \A i \in 1 .. n, j \in 1 .. Len(cache) : u[i] < cache[j]
  BY <1>1, <1>3 DEF PendingSamples
<1>9. \A j \in 1 .. Len(cache) : Head(got) < cache[j] /\ l < cache[j] /\ c < cache[j] /\ cache[j] <= s
  BY <1>1, <1>4 DEF PendingSamples
<1>10. \A i, j \in 1 .. Len(cache) : i < j => cache[i] < cache[j]
  BY DEF PendingSamples
<1> QED
  BY <1>5, <1>6, <1>7, <1>8, <1>9, <1>10 DEF PendingSamples, u

(* A full reader gives its oldest sample up: nothing gets out of order.     *)
LEMMA DropSample ==
  ASSUME NEW got \in Seq(Nat), NEW cache \in Seq(Nat), NEW l \in Nat, NEW c \in Nat, NEW s \in Nat,
         cache # <<>>, PendingSamples(got, cache, l, c, s)
  PROVE  PendingSamples(got, Tail(cache), l, c, s)
<1> DEFINE u == Tail(cache)
           n == Len(u)
<1>1. /\ u \in Seq(Nat) /\ n \in Nat /\ Len(cache) = n + 1 /\ \A i \in 1 .. n : u[i] = cache[i + 1]
  BY TailFacts
<1> HIDE DEF u
<1>2. \A i \in 1 .. n : i + 1 \in 1 .. Len(cache)
  BY <1>1
<1>3. \A i, j \in 1 .. n : i < j => u[i] < u[j]
  <2> SUFFICES ASSUME NEW i \in 1 .. n, NEW j \in 1 .. n, i < j PROVE u[i] < u[j]
    OBVIOUS
  <2>1. i + 1 \in 1 .. Len(cache) /\ j + 1 \in 1 .. Len(cache) /\ i + 1 < j + 1
    BY <1>1
  <2> QED
    BY <2>1, <1>1 DEF PendingSamples
<1>4. \A i \in 1 .. n : l < u[i] /\ c < u[i] /\ u[i] <= s
  BY <1>1, <1>2 DEF PendingSamples
<1>5. \A i \in 1 .. Len(got), j \in 1 .. n : got[i] < u[j]
  BY <1>1, <1>2 DEF PendingSamples
<1> QED
  BY <1>3, <1>4, <1>5 DEF PendingSamples, u

(* A new sample comes after all the others.                                 *)
LEMMA AddSample ==
  ASSUME NEW got \in Seq(Nat), NEW cache \in Seq(Nat), NEW l \in Nat, NEW c \in Nat, NEW s \in Nat,
         l <= s, c <= s, PendingSamples(got, cache, l, c, s)
  PROVE  /\ PendingSamples(got, Append(cache, s + 1), l, c, s + 1)
         /\ PendingSamples(got, cache, l, c, s + 1)
<1> DEFINE u == Append(cache, s + 1)
           n == Len(cache)
<1>1. /\ u \in Seq(Nat) /\ n \in Nat /\ Len(u) = n + 1 /\ u[n + 1] = s + 1
      /\ \A i \in 1 .. n : u[i] = cache[i]
  BY AppendFacts
<1>2. \A i \in 1 .. n : cache[i] \in Nat
  OBVIOUS
<1>3. \A i \in 1 .. Len(got) : got[i] \in Nat
  OBVIOUS
<1> HIDE DEF u
<1>4. \A i \in 1 .. n + 1 : i \in 1 .. n \/ i = n + 1
  BY <1>1
<1>13. \A i \in 1 .. n : l < cache[i] /\ c < cache[i] /\ cache[i] <= s
  BY DEF PendingSamples
<1>14. \A i \in 1 .. n : l < cache[i] /\ c < cache[i] /\ cache[i] <= s + 1 /\ cache[i] < s + 1
  BY <1>2, <1>13
<1>15. l < u[n + 1] /\ c < u[n + 1] /\ u[n + 1] <= s + 1
  BY <1>1
<1>5. \A i \in 1 .. n + 1 : l < u[i] /\ c < u[i] /\ u[i] <= s + 1
  BY <1>1, <1>15, <1>4, <1>14
<1>6. \A i, j \in 1 .. n + 1 : i < j => u[i] < u[j]
  <2> SUFFICES ASSUME NEW i \in 1 .. n + 1, NEW j \in 1 .. n + 1, i < j PROVE u[i] < u[j]
    OBVIOUS
  <2>1. i \in 1 .. n
    BY <1>1
  <2>2. CASE j \in 1 .. n
    BY <2>1, <2>2, <1>1 DEF PendingSamples
  <2>3. CASE j = n + 1
    BY <2>1, <2>3, <1>1, <1>14
  <2> QED
    BY <2>2, <2>3, <1>4
<1>7. \A i \in 1 .. Len(got) : l < got[i] /\ c < got[i] /\ got[i] <= s /\ got[i] < s + 1
  BY <1>3 DEF PendingSamples
<1>8. \A i \in 1 .. Len(got), j \in 1 .. n + 1 : got[i] < u[j]
  BY <1>1, <1>4, <1>7 DEF PendingSamples
<1>9. \A i \in 1 .. Len(got) : got[i] <= s + 1
  BY <1>3, <1>7
<1>10. \A i \in 1 .. n : l < cache[i] /\ c < cache[i] /\ cache[i] <= s + 1
  BY <1>14
<1>11. PendingSamples(got, u, l, c, s + 1)
  BY <1>1, <1>5, <1>6, <1>7, <1>8, <1>9 DEF PendingSamples
<1>12. PendingSamples(got, cache, l, c, s + 1)
  BY <1>7, <1>9, <1>10 DEF PendingSamples
<1> QED
  BY <1>11, <1>12 DEF u

(* take(): the samples move from the reader to the poll thread.             *)
LEMMA TakeSamples ==
  ASSUME NEW cache \in Seq(Nat), NEW l \in Nat, NEW c \in Nat, NEW s \in Nat,
         PendingSamples(<<>>, cache, l, c, s)
  PROVE  PendingSamples(cache, <<>>, l, c, s)
<1>1. Len(<<>>) = 0 /\ \A i \in 1 .. 0 : FALSE
  OBVIOUS
<1> QED
  BY <1>1 DEF PendingSamples

(* A new subscription begins with nothing.                                  *)
LEMMA NoSamples ==
  ASSUME NEW l, NEW c, NEW s
  PROVE  PendingSamples(<<>>, <<>>, l, c, s)
<1>1. Len(<<>>) = 0 /\ \A i \in 1 .. 0 : FALSE
  OBVIOUS
<1> QED
  BY <1>1 DEF PendingSamples

(* zyre_event_new hands over the oldest event: it comes before the others.  *)
LEMMA NextShout ==
  ASSUME NEW q \in Seq(Event), NEW l \in [Instance -> Nat], NEW s \in [Instance -> Nat],
         q # <<>>, PendingShouts(q, l, s)
  PROVE  /\ PendingShouts(Tail(q), l, s)
         /\ Head(q) \in Shouts => CurrentShout(Head(q), Tail(q), l, s)
<1> DEFINE u == Tail(q)
           n == Len(u)
<1>1. /\ u \in Seq(Event) /\ n \in Nat /\ Len(q) = n + 1 /\ \A i \in 1 .. n : u[i] = q[i + 1]
      /\ Head(q) = q[1]
  BY TailFacts
<1> HIDE DEF u
<1>2. /\ \A i \in 1 .. n : i + 1 \in 1 .. Len(q) /\ 1 < i + 1
      /\ 1 \in 1 .. Len(q)
  BY <1>1
<1>3. \A i \in 1 .. n : u[i] \in Shouts => l[u[i].topic] < u[i].msg /\ u[i].msg <= s[u[i].topic]
  BY <1>1, <1>2 DEF PendingShouts
<1>4. ASSUME NEW i \in 1 .. n, NEW j \in 1 .. n, i < j, u[i] \in Shouts, u[j] \in Shouts,
             u[i].topic = u[j].topic
      PROVE  u[i].msg < u[j].msg
  <2>1. i + 1 \in 1 .. Len(q) /\ j + 1 \in 1 .. Len(q) /\ i + 1 < j + 1
    BY <1>1, <1>4
  <2> QED
    BY <2>1, <1>1, <1>4 DEF PendingShouts
<1>5. PendingShouts(u, l, s)
  BY <1>3, <1>4 DEF PendingShouts
<1>6. ASSUME Head(q) \in Shouts
      PROVE  CurrentShout(Head(q), u, l, s)
  <2>1. l[Head(q).topic] < Head(q).msg /\ Head(q).msg <= s[Head(q).topic]
    BY <1>1, <1>2, <1>6 DEF PendingShouts
  <2>2. \A i \in 1 .. n : u[i] \in Shouts /\ u[i].topic = Head(q).topic => Head(q).msg < u[i].msg
    BY <1>1, <1>2, <1>6 DEF PendingShouts
  <2> QED
    BY <1>6, <2>1, <2>2 DEF CurrentShout
<1> QED
  BY <1>5, <1>6 DEF u

(* A STOP behind the others changes nothing of their order.                 *)
LEMMA AddStop ==
  ASSUME NEW q \in Seq(Event), NEW l \in [Instance -> Nat], NEW s \in [Instance -> Nat],
         PendingShouts(q, l, s)
  PROVE  /\ PendingShouts(Append(q, Stop), l, s)
         /\ \A e : CurrentShout(e, q, l, s) => CurrentShout(e, Append(q, Stop), l, s)
<1> DEFINE u == Append(q, Stop)
           n == Len(q)
<1>1. /\ n \in Nat /\ Len(u) = n + 1 /\ u[n + 1] = Stop /\ \A i \in 1 .. n : u[i] = q[i]
  BY AppendFacts DEF Event
<1>2. Stop \notin Shouts
  BY DEF Stop, Shouts
<1> HIDE DEF u
<1>3. \A i \in 1 .. Len(u) : u[i] \in Shouts => i \in 1 .. n /\ u[i] = q[i]
  BY <1>1, <1>2
<1>4. PendingShouts(u, l, s)
  BY <1>1, <1>3 DEF PendingShouts
<1>5. \A e : CurrentShout(e, q, l, s) => CurrentShout(e, u, l, s)
  BY <1>1, <1>3 DEF CurrentShout
<1> QED
  BY <1>4, <1>5 DEF u

(* A message that is published, and may be heard, comes after the others.   *)
LEMMA AddShout ==
  ASSUME NEW q \in Seq(Event), NEW l \in [Instance -> Nat], NEW s \in [Instance -> Nat], NEW t \in Instance,
         \A v \in Instance : l[v] <= s[v], PendingShouts(q, l, s)
  PROVE  LET s1 == [s EXCEPT ![t] = @ + 1]
             q1 == Append(q, Shout(t, s[t] + 1)) IN
         /\ PendingShouts(q, l, s1)
         /\ \A e : CurrentShout(e, q, l, s) => CurrentShout(e, q, l, s1)
         /\ t \in ZyreTopic => /\ q1 \in Seq(Event)
                               /\ PendingShouts(q1, l, s1)
                               /\ \A e : CurrentShout(e, q, l, s) => CurrentShout(e, q1, l, s1)
<1> DEFINE s1 == [s EXCEPT ![t] = @ + 1]
           x == Shout(t, s[t] + 1)
           q1 == Append(q, x)
           n == Len(q)
<1>1. s1 \in [Instance -> Nat] /\ \A v \in Instance : s[v] <= s1[v] /\ s1[t] = s[t] + 1
  OBVIOUS
<1> HIDE DEF s1
<1>2. \A e \in Shouts : e.topic \in Instance /\ e.msg \in Nat
  BY Instances DEF Shouts
<1>3. \A e \in Shouts : e.msg <= s[e.topic] => e.msg <= s1[e.topic]
  BY <1>1, <1>2
<1>4. PendingShouts(q, l, s1)
  BY <1>3 DEF PendingShouts
<1>5. \A e : CurrentShout(e, q, l, s) => CurrentShout(e, q, l, s1)
  BY <1>3 DEF CurrentShout
<1>6. ASSUME t \in ZyreTopic
      PROVE  /\ q1 \in Seq(Event)
             /\ PendingShouts(q1, l, s1)
             /\ \A e : CurrentShout(e, q, l, s) => CurrentShout(e, q1, l, s1)
  <2>1. x \in Shouts /\ x.topic = t /\ x.msg = s[t] + 1 /\ x \in Event
    BY <1>6 DEF Shout, Shouts, Event
  <2>2. /\ q1 \in Seq(Event) /\ n \in Nat /\ Len(q1) = n + 1 /\ q1[n + 1] = x
        /\ \A i \in 1 .. n : q1[i] = q[i]
    BY <2>1, AppendFacts
  <2> HIDE DEF q1, x
  <2>3. \A i \in 1 .. n + 1 : i \in 1 .. n \/ i = n + 1
    BY <2>2
  <2>4. l[t] < x.msg /\ x.msg <= s1[t]
    BY <2>1, <1>1
  <2>5. \A i \in 1 .. n + 1 : q1[i] \in Shouts => l[q1[i].topic] < q1[i].msg /\ q1[i].msg <= s1[q1[i].topic]
    BY <1>4, <2>1, <2>2, <2>3, <2>4 DEF PendingShouts
  <2>6. \A e \in Shouts : e.topic = t /\ e.msg <= s[t] => e.msg < x.msg
    BY <1>2, <2>1
  <2>7. ASSUME NEW i \in 1 .. n + 1, NEW j \in 1 .. n + 1, i < j, q1[i] \in Shouts, q1[j] \in Shouts,
               q1[i].topic = q1[j].topic
        PROVE  q1[i].msg < q1[j].msg
    <3>1. i \in 1 .. n
      BY <2>2, <2>7
    <3>2. CASE j \in 1 .. n
      BY <3>1, <3>2, <2>2, <2>7 DEF PendingShouts
    <3>3. CASE j = n + 1
      <4>1. q1[i] \in Shouts /\ q1[i].topic = t /\ q1[i].msg <= s[t]
        BY <3>1, <3>3, <2>1, <2>2, <2>7 DEF PendingShouts
      <4> QED
        BY <4>1, <3>3, <2>6, <2>2
    <3> QED
      BY <3>2, <3>3, <2>3
  <2>8. PendingShouts(q1, l, s1)
    BY <2>2, <2>5, <2>7 DEF PendingShouts
  <2>9. ASSUME NEW e, CurrentShout(e, q, l, s)
        PROVE  CurrentShout(e, q1, l, s1)
    <3>1. e \in Shouts /\ l[e.topic] < e.msg /\ e.msg <= s1[e.topic] /\ e.msg <= s[e.topic]
      BY <2>9, <1>3 DEF CurrentShout
    <3>2. ASSUME NEW i \in 1 .. n + 1, q1[i] \in Shouts, q1[i].topic = e.topic
          PROVE  e.msg < q1[i].msg
      <4>1. CASE i \in 1 .. n
        BY <4>1, <3>2, <2>2, <2>9 DEF CurrentShout
      <4>2. CASE i = n + 1
        BY <4>2, <3>1, <3>2, <2>1, <2>2, <2>6
      <4> QED
        BY <4>1, <4>2, <2>3
    <3> QED
      BY <3>1, <3>2, <2>2 DEF CurrentShout
  <2> QED
    BY <2>2, <2>8, <2>9
<1> QED
  BY <1>4, <1>5, <1>6 DEF s1

(* onTransportMessage is called with the event: the others come after it.   *)
LEMMA PassShout ==
  ASSUME NEW q \in Seq(Event), NEW l \in [Instance -> Nat], NEW s \in [Instance -> Nat], NEW e,
         PendingShouts(q, l, s), CurrentShout(e, q, l, s)
  PROVE  PendingShouts(q, [l EXCEPT ![e.topic] = e.msg], s)
<1>1. e.topic \in Instance /\ e.msg \in Nat
  BY Instances DEF CurrentShout, Shouts
<1>2. \A i \in 1 .. Len(q) : q[i] \in Shouts /\ q[i].topic = e.topic => e.msg < q[i].msg
  BY DEF CurrentShout
<1>3. \A i \in 1 .. Len(q) : q[i] \in Shouts => q[i].topic \in Instance
  BY Instances DEF Shouts
<1> QED
  BY <1>1, <1>2, <1>3 DEF PendingShouts

(* A poll thread passes a message on: no shout is of its instance.          *)
LEMMA PassSample ==
  ASSUME NEW q \in Seq(Event), NEW l \in [Instance -> Nat], NEW s \in [Instance -> Nat],
         NEW i \in DdsInstance, NEW m \in Nat, PendingShouts(q, l, s)
  PROVE  LET l1 == [l EXCEPT ![i] = m] IN
         /\ PendingShouts(q, l1, s)
         /\ \A e : CurrentShout(e, q, l, s) => CurrentShout(e, q, l1, s)
<1> DEFINE l1 == [l EXCEPT ![i] = m]
<1>1. \A v \in ZyreTopic : l1[v] = l[v]
  BY Instances
<1>2. \A e \in Shouts : e.topic \in ZyreTopic
  BY DEF Shouts
<1> HIDE DEF l1
<1>3. \A e \in Shouts : l1[e.topic] = l[e.topic]
  BY <1>1, <1>2
<1>4. PendingShouts(q, l1, s)
  BY <1>3 DEF PendingShouts
<1>5. \A e : CurrentShout(e, q, l, s) => CurrentShout(e, q, l1, s)
  BY <1>3 DEF CurrentShout
<1> QED
  BY <1>4, <1>5 DEF l1

(* A line is written with the latest message of its instance.               *)
LEMMA AddLine ==
  ASSUME NEW f \in Seq(Line), NEW l \in [Instance -> Nat], NEW x \in Line, x.msg = l[x.inst], InOrder(f, l),
         \A k \in 1 .. Len(f) : f[k].inst = x.inst => f[k].msg < x.msg
  PROVE  /\ Append(f, x) \in Seq(Line) /\ InOrder(Append(f, x), l)
         /\ Lines(Append(f, x)) = Lines(f) \cup {x}
<1> DEFINE u == Append(f, x)
           n == Len(f)
<1>1. /\ u \in Seq(Line) /\ n \in Nat /\ Len(u) = n + 1 /\ u[n + 1] = x
      /\ \A i \in 1 .. n : u[i] = f[i]
  BY AppendFacts
<1> HIDE DEF u
<1>2. \A i \in 1 .. n + 1 : i \in 1 .. n \/ i = n + 1
  BY <1>1
<1>3. n + 1 \in 1 .. n + 1 /\ \A i \in 1 .. n : i \in 1 .. n + 1
  BY <1>1
<1>4. Lines(u) = Lines(f) \cup {x}
  BY <1>1, <1>2, <1>3 DEF Lines
<1>5. x.msg <= l[x.inst]
  BY DEF Line
<1>6. \A i \in 1 .. n + 1 : u[i].msg <= l[u[i].inst]
  BY <1>1, <1>2, <1>5 DEF InOrder
<1>7. ASSUME NEW i \in 1 .. n + 1, NEW j \in 1 .. n + 1, i < j, u[i].inst = u[j].inst
      PROVE  u[i].msg < u[j].msg
  <2>1. i \in 1 .. n
    BY <1>1, <1>7
  <2>2. CASE j \in 1 .. n
    BY <2>1, <2>2, <1>1, <1>7 DEF InOrder
  <2>3. CASE j = n + 1
    BY <2>1, <2>3, <1>1, <1>7
  <2> QED
    BY <2>2, <2>3, <1>2
<1> QED
  BY <1>1, <1>4, <1>6, <1>7 DEF InOrder, u

(* A later message of an instance is passed on: no line has it yet.         *)
LEMMA LaterMessage ==
  ASSUME NEW f \in Seq(Line), NEW l \in [Instance -> Nat], NEW t \in Instance, NEW m \in Nat, l[t] < m, InOrder(f, l)
  PROVE  /\ InOrder(f, [l EXCEPT ![t] = m])
         /\ \A k \in 1 .. Len(f) : f[k].inst = t => f[k].msg < m
<1>1. \A k \in 1 .. Len(f) : f[k] \in Line
  OBVIOUS
<1>2. \A k \in 1 .. Len(f) : f[k].inst \in Instance /\ f[k].msg \in Nat /\ f[k].msg <= l[f[k].inst]
  BY <1>1 DEF Line, InOrder
<1>3. \A k \in 1 .. Len(f) : f[k].inst = t => f[k].msg < m
  BY <1>2
<1>4. \A k \in 1 .. Len(f) : f[k].msg <= [l EXCEPT ![t] = m][f[k].inst]
  BY <1>2
<1> QED
  BY <1>3, <1>4 DEF InOrder
-----------------------------------------------------------------------------
(* What a part of the invariant does not mention does not disturb it.       *)
LEMMA Frames ==
  ASSUME Inv
  PROVE  /\ UNCHANGED ddsVars => DdsTypes'
         /\ UNCHANGED zyreVars => ZyreTypes'
         /\ UNCHANGED <<callback, wsMutex>> => WsLock'
         /\ UNCHANGED <<callback, wsConnections>> => SendsToLiveConnections'
         /\ UNCHANGED <<ddsMutex, zyreMutex, worker, main>> => TransportLocks'
         /\ UNCHANGED <<ddsVars, worker>> => PollThreads'
         /\ UNCHANGED <<zyreActive, handlers, worker>> => Handlers'
         /\ UNCHANGED <<callback, poll, sent, last, since>> => Calls'
         /\ UNCHANGED <<reader, taken, sent, last, since>> => DdsOrder'
         /\ UNCHANGED <<inbox, rx, sent, last>> => ZyreOrder'
         /\ UNCHANGED <<rec, file, due, callback, last>> => Recording'
<1> USE DEF Inv
<1>1. UNCHANGED ddsVars => DdsTypes'
  BY DEF DdsTypes, ddsVars
<1>2. UNCHANGED zyreVars => ZyreTypes'
  BY DEF ZyreTypes, zyreVars
<1>3. UNCHANGED <<callback, wsMutex>> => WsLock'
  BY DEF WsLock
<1>4. UNCHANGED <<callback, wsConnections>> => SendsToLiveConnections'
  BY DEF SendsToLiveConnections
<1>5. UNCHANGED <<ddsMutex, zyreMutex, worker, main>> => TransportLocks'
  BY DEF TransportLocks
<1>6. UNCHANGED <<ddsVars, worker>> => PollThreads'
  BY DEF PollThreads, Inserting, ddsVars
<1>7. UNCHANGED <<zyreActive, handlers, worker>> => Handlers'
  BY DEF Handlers
<1>8. UNCHANGED <<callback, poll, sent, last, since>> => Calls'
  BY DEF Calls
<1>9. UNCHANGED <<reader, taken, sent, last, since>> => DdsOrder'
  BY DEF DdsOrder
<1>10. UNCHANGED <<inbox, rx, sent, last>> => ZyreOrder'
  BY DEF ZyreOrder
<1>11. UNCHANGED <<rec, file, due, callback, last>> => Recording'
  BY DEF Recording, LineOf
<1> QED
  BY <1>1, <1>2, <1>3, <1>4, <1>5, <1>6, <1>7, <1>8, <1>9, <1>10, <1>11
-----------------------------------------------------------------------------
(* The steps of the workers. *)

(* A worker moves outside of the mutexes of the transports.                 *)
LEMMA WorkerMoves ==
  ASSUME Inv, NEW w \in Worker, NEW r \in WorkerState,
         r.pc \notin {"insert", "join"}, worker[w].pc \notin {"insert", "join"}, main = "run",
         worker' = [worker EXCEPT ![w] = r], UNCHANGED <<ddsVars, zyreVars, main>>
  PROVE  DdsTypes' /\ ZyreTypes' /\ TransportLocks' /\ PollThreads' /\ Handlers'
<1> USE DEF Inv, ddsVars, zyreVars
<1>1. worker \in [Worker -> WorkerState]
  BY DEF AppTypes
<1>2. \A v \in Worker : worker'[v] = IF v = w THEN r ELSE worker[v]
  BY <1>1
<1>3. DdsTypes'
  BY DEF DdsTypes
<1>4. ZyreTypes'
  BY DEF ZyreTypes
<1>5. TransportLocks'
  BY <1>2 DEF TransportLocks
<1>6. \A t \in DdsTopic : Inserting(t) => Inserting(t)'
  BY <1>2 DEF Inserting
<1>7. PollThreads'
  BY <1>2, <1>6 DEF PollThreads
<1>8. Handlers'
  BY <1>2 DEF Handlers
<1> QED
  BY <1>3, <1>4, <1>5, <1>7, <1>8

(* The clients' commands, before the server takes them up.                  *)
LEMMA CommandOK ==
  ASSUME Inv, NEW w \in Worker, NEW t \in Topic \cup {NoTopic},
         NEW pc \in {"open", "close", "subscribe", "unsubscribe"}, Command(w, pc, t)
  PROVE  Inv'
<1> DEFINE r == [pc |-> pc, topic |-> t, todo |-> {}]
<1>1. r \in WorkerState /\ r.pc \notin {"insert", "join"}
  BY DEF WorkerState
<1>2. worker[w].pc \notin {"insert", "join"} /\ main = "run" /\ worker' = [worker EXCEPT ![w] = r]
  BY DEF Command, At
<1>3. UNCHANGED <<ddsVars, zyreVars, main>>
  BY DEF Command
<1> HIDE DEF r
<1>4. DdsTypes' /\ ZyreTypes' /\ TransportLocks' /\ PollThreads' /\ Handlers'
  BY <1>1, <1>2, <1>3, WorkerMoves
<1>5. AppTypes'
  BY <1>1, <1>2 DEF AppTypes, Command, Inv
<1>6. UNCHANGED <<callback, wsMutex, wsConnections, sent, last, since, rec, file, due>>
  BY DEF Command
<1> QED
  BY <1>3, <1>4, <1>5, <1>6, Frames DEF Inv, ddsVars, zyreVars

(* onopen and onclose wait for wsMutex, so that no broadcast is under way.  *)
LEMMA ConnectionOK ==
  ASSUME Inv, NEW w \in Worker, OnOpen(w) \/ OnClose(w)
  PROVE  Inv'
<1> DEFINE r == IF OnOpen(w) THEN [pc |-> "list", topic |-> NoTopic, todo |-> Topic] ELSE Idle
<1>1. r \in WorkerState /\ r.pc \notin {"insert", "join"}
  BY DEF WorkerState, Idle
<1>2. worker[w].pc \notin {"insert", "join", "idle"} /\ worker' = [worker EXCEPT ![w] = r]
  BY DEF OnOpen, OnClose, At, SendTopicList
<1>3. main = "run"
  BY <1>2 DEF Inv, TransportLocks
<1>4. UNCHANGED <<ddsVars, zyreVars, main, callback, wsMutex, sent, last, since, rec, file, due>>
  BY DEF OnOpen, OnClose
<1>5. wsMutex = Free /\ wsConnections' \in {wsConnections \cup {w}, wsConnections \ {w}}
  BY DEF OnOpen, OnClose
<1> HIDE DEF r
<1>6. DdsTypes' /\ ZyreTypes' /\ TransportLocks' /\ PollThreads' /\ Handlers'
  BY <1>1, <1>2, <1>3, <1>4, WorkerMoves
<1>7. AppTypes'
  BY <1>1, <1>2, <1>4, <1>5 DEF AppTypes, Inv
<1>8. \A th \in Thread : callback[th].todo = {}
  BY <1>5, OmniscopeAssumption DEF Inv, WsLock
<1>9. SendsToLiveConnections'
  BY <1>4, <1>8 DEF SendsToLiveConnections
<1> QED
  BY <1>4, <1>6, <1>7, <1>9, Frames DEF Inv, ddsVars, zyreVars

(* The steps of a command that find nothing to do, and the topic list.      *)
LEMMA ListOK ==
  ASSUME Inv, NEW w \in Worker, NEW r \in WorkerState, worker' = [worker EXCEPT ![w] = r],
         r.pc \notin {"insert", "join"}, worker[w].pc \notin {"insert", "join", "idle"},
         UNCHANGED <<ddsVars, zyreVars, since, OtherAppVars>>
  PROVE  Inv'
<1>1. main = "run"
  BY DEF Inv, TransportLocks
<1>2. UNCHANGED <<main, callback, wsMutex, wsConnections, sent, last, since, rec, file, due>>
  BY DEF OtherAppVars
<1>3. DdsTypes' /\ ZyreTypes' /\ TransportLocks' /\ PollThreads' /\ Handlers'
  BY <1>1, <1>2, WorkerMoves
<1>4. AppTypes'
  BY <1>2 DEF AppTypes, Inv
<1> QED
  BY <1>2, <1>3, <1>4, Frames DEF Inv, ddsVars, zyreVars

(* One topic of the list.                                                   *)
LEMMA ListTopicOK ==
  ASSUME Inv, NEW w \in Worker, ListTopic(w)
  PROVE  Inv'
<1>1. PICK t \in worker[w].todo : NextTopic(w, t)
  BY DEF ListTopic
<1> DEFINE r == IF worker[w].todo = {t} THEN Idle ELSE [worker[w] EXCEPT !.todo = @ \ {t}]
<1>2. worker[w] \in WorkerState /\ worker[w].pc = "list"
  BY DEF Inv, AppTypes, ListTopic, At
<1>3. r \in WorkerState /\ r.pc \in {"idle", "list"}
  BY <1>2 DEF WorkerState, Idle
<1>4. worker' = [worker EXCEPT ![w] = r]
  BY <1>1 DEF NextTopic
<1> HIDE DEF r
<1> QED
  BY <1>2, <1>3, <1>4, ListOK DEF ListTopic

(* With its mutex free, nobody is inside TransportDds, and a topic that is  *)
(* not active has no poll thread left.                                      *)
LEMMA DdsQuiet ==
  ASSUME Inv, ddsMutex = Free
  PROVE  /\ \A w \in Worker : worker[w].pc \in {"insert", "join"} => worker[w].topic \notin DdsTopic
         /\ \A t \in DdsTopic : ~ Inserting(t)
         /\ \A t \in DdsTopic \ ddsActive : ~ running[t] /\ poll[t].pc = "none"
<1>1. \A w \in Worker : worker[w].pc \in {"insert", "join"} => worker[w].topic \notin DdsTopic
  BY OmniscopeAssumption DEF Inv, TransportLocks
<1>2. \A t \in DdsTopic : ~ Inserting(t)
  BY <1>1 DEF Inserting
<1> QED
  BY <1>1, <1>2 DEF Inv, PollThreads

(* The history since of a topic's instances begins anew.                    *)
SinceNow(t) == [i \in Instance |-> IF TopicOf(i) = t THEN sent[i] ELSE since[i]]

(* What has been published before is none of the new subscription.          *)
LEMMA SinceFacts ==
  ASSUME Inv, NEW t, since' = SinceNow(t)
  PROVE  /\ since' \in [Instance -> Nat] /\ \A i \in Instance : since'[i] <= sent[i]
         /\ \A i \in Of(t) : since'[i] = sent[i]
         /\ \A i \in DdsInstance \ Of(t) : since'[i] = since[i]
<1>1. sent \in [Instance -> Nat] /\ since \in [Instance -> Nat] /\ \A i \in Instance : since[i] <= sent[i]
  BY DEF Inv, AppTypes, Calls
<1>2. \A i \in DdsInstance : i \in Instance /\ (TopicOf(i) = t <=> i \in Of(t))
  BY Instances
<1>3. \A i \in Instance : since'[i] = IF TopicOf(i) = t THEN sent[i] ELSE since[i]
  BY DEF SinceNow
<1>4. since' \in [Instance -> Nat] /\ \A i \in Instance : since'[i] <= sent[i]
  BY <1>1 DEF SinceNow
<1>5. \A i \in Of(t) : i \in DdsInstance
  BY Instances
<1> QED
  BY <1>2, <1>3, <1>4, <1>5

(* TransportDds::subscribe, up to the insertion: a new reader and thread.    *)
LEMMA DdsSubscribeOK ==
  ASSUME Inv, NEW w \in Worker, NEW t \in DdsTopic, worker[w].topic = t, At(w, "subscribe"),
         DdsSubscribe(w, t), Goto(w, "insert"), since' = SinceNow(t),
         UNCHANGED <<zyreVars, OtherAppVars>>
  PROVE  Inv'
<1>1. t \notin ddsActive /\ ddsMutex = Free /\ ddsMutex' = w
  BY DEF DdsSubscribe
<1>2. ~ running[t] /\ poll[t].pc = "none"
  BY <1>1, DdsQuiet
<1>3. /\ hasReader' = hasReader \cup {t} /\ reader' = Without(reader, t) /\ taken' = Without(taken, t)
      /\ running' = [running EXCEPT ![t] = TRUE]
      /\ poll' = [poll EXCEPT ![t] = PollAt("loop")] /\ ddsActive' = ddsActive
  BY <1>2 DEF DdsSubscribe, SubscriberSubscribe, SubscriberStart
<1>4. UNCHANGED <<zyreMutex, main, callback, wsMutex, wsConnections, sent, last, rec, file, due, inbox, rx,
                  zyreActive, handlers>>
  BY DEF OtherAppVars, zyreVars
<1>5. worker \in [Worker -> WorkerState] /\ worker' = [worker EXCEPT ![w].pc = "insert"]
  BY DEF Goto, Inv, AppTypes
<1>6. /\ worker' \in [Worker -> WorkerState] /\ worker'[w].pc = "insert" /\ worker'[w].topic = t
      /\ \A v \in Worker \ {w} : worker'[v] = worker[v]
  BY <1>5 DEF WorkerState
<1>7. t \in Topic /\ t \notin ZyreTopic
  BY OmniscopeAssumption DEF Topic
<1>8. worker[w].pc = "subscribe" /\ main = "run"
  BY DEF Inv, TransportLocks, At
<1>16. PollAt("loop") \in PollState /\ PollAt("loop").pc = "loop"
  BY DEF PollAt, PollState
<1>17. /\ reader' \in [DdsInstance -> Seq(Nat)] /\ taken' \in [DdsInstance -> Seq(Nat)]
       /\ \A i \in Of(t) : reader'[i] = <<>> /\ taken'[i] = <<>>
       /\ \A i \in DdsInstance \ Of(t) : reader'[i] = reader[i] /\ taken'[i] = taken[i]
  <2>1. reader \in [DdsInstance -> Seq(Nat)] /\ taken \in [DdsInstance -> Seq(Nat)]
    BY DEF Inv, DdsTypes
  <2>4. reader' = Without(reader, t) /\ taken' = Without(taken, t)
    BY <1>3
  <2>2. /\ reader' \in [DdsInstance -> Seq(Nat)] /\ \A i \in Of(t) : reader'[i] = <<>>
        /\ \A i \in DdsInstance \ Of(t) : reader'[i] = reader[i]
    BY <2>1, <2>4, WithoutFacts
  <2>3. /\ taken' \in [DdsInstance -> Seq(Nat)] /\ \A i \in Of(t) : taken'[i] = <<>>
        /\ \A i \in DdsInstance \ Of(t) : taken'[i] = taken[i]
    BY <2>1, <2>4, WithoutFacts
  <2> QED
    BY <2>2, <2>3
<1>18. /\ since' \in [Instance -> Nat] /\ \A i \in Instance : since'[i] <= sent[i]
       /\ \A i \in DdsInstance \ Of(t) : since'[i] = since[i]
  BY SinceFacts
<1>9. DdsTypes'
  BY <1>3, <1>16, <1>17 DEF Inv, DdsTypes
<1>10. AppTypes'
  BY <1>4, <1>6, <1>18 DEF Inv, AppTypes
<1>11. TransportLocks'
  BY <1>1, <1>4, <1>6, <1>7, <1>8, OmniscopeAssumption DEF Inv, TransportLocks
<1>12. PollThreads'
  <2>1. Inserting(t)' /\ \A u \in DdsTopic : ~ Inserting(u)
    BY <1>1, <1>6, DdsQuiet DEF Inserting
  <2>2. Len(<<>>) <= Depth[t]
    BY OmniscopeAssumption
  <2>3. \A u \in DdsTopic : u # t =>
          /\ poll'[u] = poll[u] /\ running'[u] = running[u]
          /\ (u \in hasReader => u \in hasReader')
          /\ \A i \in Of(u) : reader'[i] = reader[i] /\ taken'[i] = taken[i]
    BY <1>3, <1>17, Instances DEF Inv, DdsTypes
  <2>4. poll'[t].pc = "loop" /\ t \in hasReader'
    BY <1>3, <1>16 DEF Inv, DdsTypes
  <2>5. \A v \in Worker : worker'[v].pc # "join" \/ worker'[v].topic \notin DdsTopic
    BY <1>1, <1>6, DdsQuiet
  <2> QED
    <3>1. ASSUME NEW u \in DdsTopic, u # t
          PROVE  /\ poll'[u].pc # "none" \/ running'[u] => u \in ddsActive' \/ Inserting(u)'
                 /\ poll'[u].pc # "none" => u \in hasReader'
                 /\ poll'[u].pc # "call" => \A i \in Of(u) : taken'[i] = <<>>
                 /\ \A i \in Of(u) : Len(reader'[i]) <= Depth[u]
      BY <1>3, <2>1, <2>3, <3>1 DEF Inv, PollThreads
    <3>2. \A i \in Of(t) : taken'[i] = <<>> /\ Len(reader'[i]) <= Depth[t]
      BY <1>17, <2>2
    <3> QED
      BY <2>1, <2>4, <2>5, <3>1, <3>2 DEF PollThreads
<1>13. Handlers'
  BY <1>4, <1>6, <1>7 DEF Inv, Handlers
<1>14. Calls'
  <2>1. \A u \in DdsTopic : u # t => poll'[u] = poll[u]
    BY <1>3 DEF Inv, DdsTypes
  <2>2. callback[t].pc = "none"
    BY <1>2 DEF Inv, Calls
  <2> QED
    BY <1>4, <1>18, <2>1, <2>2 DEF Inv, Calls
<1>15. DdsOrder'
  <2>1. \A i \in Of(t) : PendingSamples(taken'[i], reader'[i], last[i], since'[i], sent[i])
    BY <1>17, NoSamples
  <2>2. \A i \in DdsInstance \ Of(t) : PendingSamples(taken'[i], reader'[i], last[i], since'[i], sent[i])
    BY <1>17, <1>18 DEF Inv, DdsOrder
  <2> QED
    BY <1>4, <2>1, <2>2 DEF DdsOrder
<1> QED
  BY <1>4, <1>9, <1>10, <1>11, <1>12, <1>13, <1>14, <1>15, Frames DEF Inv

(* TransportZyre::subscribe, up to the insertion.                           *)
LEMMA ZyreSubscribeOK ==
  ASSUME Inv, NEW w \in Worker, NEW t \in ZyreTopic, worker[w].topic = t, At(w, "subscribe"),
         ZyreSubscribe(w, t), Goto(w, "insert"), since' = SinceNow(t),
         UNCHANGED <<ddsVars, OtherAppVars>>
  PROVE  Inv'
<1>1. /\ zyreMutex = Free /\ zyreMutex' = w /\ handlers' = handlers \cup {t}
      /\ UNCHANGED <<zyreActive, inbox, rx, subNode, pubNode>>
  BY DEF ZyreSubscribe, SubscribeGroup
<1>2. UNCHANGED <<ddsMutex, main, callback, wsMutex, wsConnections, sent, last, rec, file, due, poll, reader,
                  taken, running, ddsActive, hasReader>>
  BY DEF OtherAppVars, ddsVars
<1>3. worker \in [Worker -> WorkerState] /\ worker' = [worker EXCEPT ![w].pc = "insert"]
  BY DEF Goto, Inv, AppTypes
<1>4. /\ worker' \in [Worker -> WorkerState] /\ worker'[w].pc = "insert" /\ worker'[w].topic = t
      /\ \A v \in Worker \ {w} : worker'[v] = worker[v]
  BY <1>3 DEF WorkerState
<1>5. t \in Topic /\ t \notin DdsTopic
  BY OmniscopeAssumption DEF Topic
<1>6. worker[w].pc = "subscribe" /\ main = "run"
  BY DEF Inv, TransportLocks, At
<1>7. ZyreTypes'
  BY <1>1 DEF Inv, ZyreTypes
<1>14. /\ since' \in [Instance -> Nat] /\ \A i \in Instance : since'[i] <= sent[i]
       /\ \A i \in DdsInstance \ Of(t) : since'[i] = since[i]
  BY SinceFacts
<1>15. Of(t) = {}
  BY <1>5, Instances
<1>8. AppTypes'
  BY <1>2, <1>4, <1>14 DEF Inv, AppTypes
<1>9. TransportLocks'
  BY <1>1, <1>2, <1>4, <1>5, <1>6, OmniscopeAssumption DEF Inv, TransportLocks
<1>10. PollThreads'
  <2>1. \A u \in DdsTopic : Inserting(u) => Inserting(u)'
    BY <1>4, <1>6 DEF Inserting
  <2> QED
    BY <1>2, <1>4, <1>5, <2>1 DEF Inv, PollThreads
<1>11. Handlers'
  BY <1>1, <1>4 DEF Inv, Handlers
<1>12. Calls'
  BY <1>2, <1>14 DEF Inv, Calls
<1>13. DdsOrder'
  BY <1>2, <1>14, <1>15 DEF Inv, DdsOrder
<1> QED
  BY <1>1, <1>2, <1>7, <1>8, <1>9, <1>10, <1>11, <1>12, <1>13, Frames DEF Inv

(* SendTopicList of a worker whose command is done.                         *)
LEMMA ListBegins ==
  ASSUME Inv, NEW w \in Worker, SendTopicList(w)
  PROVE  /\ worker' \in [Worker -> WorkerState] /\ worker'[w].pc = "list"
         /\ \A v \in Worker \ {w} : worker'[v] = worker[v]
<1>1. [pc |-> "list", topic |-> NoTopic, todo |-> Topic] \in WorkerState
  BY DEF WorkerState
<1> QED
  BY <1>1 DEF SendTopicList, Inv, AppTypes

(* A command for a topic no transport has, or that is already as asked.     *)
LEMMA NothingToDoOK ==
  ASSUME Inv, NEW w \in Worker, worker[w].pc \notin {"insert", "join", "idle"}, SendTopicList(w),
         UNCHANGED <<ddsVars, zyreVars, since, OtherAppVars>>
  PROVE  Inv'
<1> DEFINE r == [pc |-> "list", topic |-> NoTopic, todo |-> Topic]
<1>1. r \in WorkerState /\ r.pc = "list" /\ worker' = [worker EXCEPT ![w] = r]
  BY DEF WorkerState, SendTopicList
<1> HIDE DEF r
<1> QED
  BY <1>1, ListOK

(* subscribe, of either transport.                                          *)
LEMMA SubscribeOK ==
  ASSUME Inv, NEW w \in Worker, Subscribe(w)
  PROVE  Inv'
<1> DEFINE t == worker[w].topic
<1>1. CASE t \in DdsTopic /\ DdsSubscribe(w, t) /\ UNCHANGED zyreVars /\ Goto(w, "insert")
           /\ since' = SinceNow(t)
  BY <1>1, DdsSubscribeOK DEF Subscribe
<1>2. CASE t \in ZyreTopic /\ ZyreSubscribe(w, t) /\ UNCHANGED ddsVars /\ Goto(w, "insert")
           /\ since' = SinceNow(t)
  BY <1>2, ZyreSubscribeOK DEF Subscribe
<1>3. CASE SendTopicList(w) /\ UNCHANGED <<ddsVars, zyreVars, since>>
  BY <1>3, NothingToDoOK DEF Subscribe, At
<1> QED
  BY <1>1, <1>2, <1>3 DEF Subscribe, FindTransport, SinceNow

(* The topic becomes active, and its transport's mutex free.                *)
LEMMA InsertOK ==
  ASSUME Inv, NEW w \in Worker, Insert(w)
  PROVE  Inv'
<1> DEFINE t == worker[w].topic
<1>1. /\ worker' \in [Worker -> WorkerState] /\ worker'[w].pc = "list"
      /\ \A v \in Worker \ {w} : worker'[v] = worker[v]
  BY ListBegins DEF Insert
<1>2. UNCHANGED <<main, callback, wsMutex, wsConnections, sent, last, since, rec, file, due>>
  BY DEF Insert, OtherAppVars
<1>3. worker[w].pc = "insert" /\ main = "run"
  BY DEF Insert, At, Inv, TransportLocks
<1>4. AppTypes'
  BY <1>1, <1>2 DEF Inv, AppTypes
<1>5. CASE t \in DdsTopic /\ DdsInsert(w, t) /\ UNCHANGED zyreVars
  <2>1. /\ ddsMutex = w /\ ddsActive' = ddsActive \cup {t} /\ ddsMutex' = Free
        /\ UNCHANGED <<running, reader, hasReader, poll, taken>>
    BY <1>5 DEF DdsInsert
  <2>2. UNCHANGED <<zyreMutex, zyreActive, handlers, inbox, rx>> /\ t \notin ZyreTopic
    BY <1>5, OmniscopeAssumption DEF zyreVars
  <2>3. DdsTypes'
    BY <2>1, <1>5 DEF Inv, DdsTypes
  <2>4. TransportLocks'
    BY <1>1, <1>2, <1>3, <1>5, <2>1, <2>2, OmniscopeAssumption DEF Inv, TransportLocks
  <2>5. PollThreads'
    <3>1. \A u \in DdsTopic : Inserting(u) => Inserting(u)' \/ u \in ddsActive'
      BY <1>1, <2>1 DEF Inserting
    <3> QED
      BY <1>1, <2>1, <3>1 DEF Inv, PollThreads
  <2>6. Handlers'
    BY <1>1, <2>2 DEF Inv, Handlers
  <2> QED
    BY <1>2, <1>4, <1>5, <2>1, <2>2, <2>3, <2>4, <2>5, <2>6, Frames DEF Inv
<1>6. CASE t \in ZyreTopic /\ ZyreInsert(w, t) /\ UNCHANGED ddsVars
  <2>1. /\ zyreMutex = w /\ zyreActive' = zyreActive \cup {t} /\ zyreMutex' = Free
        /\ UNCHANGED <<handlers, inbox, rx, subNode, pubNode>>
    BY <1>6 DEF ZyreInsert
  <2>2. /\ UNCHANGED <<ddsMutex, running, reader, hasReader, poll, taken, ddsActive>>
        /\ t \notin DdsTopic
    BY <1>6, OmniscopeAssumption DEF ddsVars
  <2>3. ZyreTypes'
    BY <2>1, <1>6 DEF Inv, ZyreTypes
  <2>4. TransportLocks'
    BY <1>1, <1>2, <1>3, <1>6, <2>1, <2>2, OmniscopeAssumption DEF Inv, TransportLocks
  <2>5. PollThreads'
    <3>1. \A u \in DdsTopic : Inserting(u) => Inserting(u)'
      BY <1>1, <2>2 DEF Inserting
    <3> QED
      BY <1>1, <2>2, <3>1 DEF Inv, PollThreads
  <2>6. Handlers'
    BY <1>1, <1>3, <1>6, <2>1 DEF Inv, Handlers
  <2> QED
    BY <1>2, <1>4, <1>6, <2>1, <2>2, <2>3, <2>4, <2>5, <2>6, Frames DEF Inv
<1> QED
  BY <1>5, <1>6 DEF Insert, FindTransport

(* unsubscribe: TransportDds clears the flag and waits, with the mutex      *)
(* held; TransportZyre only forgets the topic.                              *)
LEMMA UnsubscribeOK ==
  ASSUME Inv, NEW w \in Worker, Unsubscribe(w)
  PROVE  Inv'
<1> DEFINE t == worker[w].topic
<1>1. worker[w].pc = "unsubscribe" /\ main = "run"
  BY DEF Unsubscribe, At, Inv, TransportLocks
<1>2. UNCHANGED <<main, callback, wsMutex, wsConnections, sent, last, since, rec, file, due>>
  BY DEF Unsubscribe, OtherAppVars
<1>3. CASE t \in DdsTopic /\ DdsUnsubscribe(w, t) /\ UNCHANGED zyreVars /\ Goto(w, "join")
  <2>1. /\ ddsMutex = Free /\ t \in ddsActive /\ ddsMutex' = w
        /\ running' = [running EXCEPT ![t] = FALSE]
        /\ UNCHANGED <<ddsActive, reader, hasReader, poll, taken>>
    BY <1>3 DEF DdsUnsubscribe, SubscriberStop
  <2>2. UNCHANGED <<zyreMutex, zyreActive, handlers, inbox, rx>> /\ t \notin ZyreTopic /\ t \in Topic
    BY <1>3, OmniscopeAssumption DEF zyreVars, Topic
  <2>3. worker \in [Worker -> WorkerState] /\ worker' = [worker EXCEPT ![w].pc = "join"]
    BY <1>3 DEF Goto, Inv, AppTypes
  <2>4. /\ worker' \in [Worker -> WorkerState] /\ worker'[w].pc = "join" /\ worker'[w].topic = t
        /\ \A v \in Worker \ {w} : worker'[v] = worker[v]
    BY <2>3 DEF WorkerState
  <2>5. DdsTypes'
    BY <2>1, <1>3 DEF Inv, DdsTypes
  <2>6. AppTypes'
    BY <1>2, <2>4 DEF Inv, AppTypes
  <2>7. TransportLocks'
    BY <1>1, <1>2, <1>3, <2>1, <2>2, <2>4, OmniscopeAssumption DEF Inv, TransportLocks
  <2>8. PollThreads'
    <3>1. \A u \in DdsTopic : ~ Inserting(u)
      BY <2>1, DdsQuiet
    <3>2. ~ running'[t] /\ \A u \in DdsTopic : u # t => running'[u] = running[u]
      BY <1>3, <2>1 DEF Inv, DdsTypes
    <3>3. \A v \in Worker \ {w} : worker'[v].pc = "join" => worker'[v].topic \notin DdsTopic
      BY <2>1, <2>4, DdsQuiet
    <3> QED
      BY <2>1, <2>4, <3>1, <3>2, <3>3 DEF Inv, PollThreads
  <2>9. Handlers'
    BY <2>2, <2>4 DEF Inv, Handlers
  <2> QED
    BY <1>2, <1>3, <2>1, <2>2, <2>5, <2>6, <2>7, <2>8, <2>9, Frames DEF Inv
<1>4. CASE t \in ZyreTopic /\ ZyreUnsubscribe(w, t) /\ UNCHANGED ddsVars /\ SendTopicList(w)
  <2>1. /\ worker' \in [Worker -> WorkerState] /\ worker'[w].pc = "list"
        /\ \A v \in Worker \ {w} : worker'[v] = worker[v]
    BY <1>4, ListBegins
  <2>2. zyreActive' = zyreActive \ {t} /\ UNCHANGED <<zyreMutex, handlers, inbox, rx, subNode, pubNode>>
    BY <1>4 DEF ZyreUnsubscribe
  <2>3. UNCHANGED <<ddsMutex, running, reader, hasReader, poll, taken, ddsActive>>
    BY <1>4 DEF ddsVars
  <2>4. ZyreTypes'
    BY <2>2 DEF Inv, ZyreTypes
  <2>5. AppTypes'
    BY <1>2, <2>1 DEF Inv, AppTypes
  <2>6. TransportLocks'
    BY <1>1, <1>2, <2>1, <2>2, <2>3 DEF Inv, TransportLocks
  <2>7. PollThreads'
    <3>1. \A u \in DdsTopic : Inserting(u) => Inserting(u)'
      BY <1>1, <2>1 DEF Inserting
    <3> QED
      BY <2>1, <2>3, <3>1 DEF Inv, PollThreads
  <2>8. Handlers'
    BY <2>1, <2>2 DEF Inv, Handlers
  <2> QED
    BY <1>2, <1>4, <2>2, <2>3, <2>4, <2>5, <2>6, <2>7, <2>8, Frames DEF Inv
<1>5. CASE SendTopicList(w) /\ UNCHANGED <<ddsVars, zyreVars>>
  BY <1>1, <1>5, NothingToDoOK DEF Unsubscribe
<1> QED
  BY <1>3, <1>4, <1>5 DEF Unsubscribe, FindTransport

(* The poll thread has ended and is joined; the topic is no longer active.  *)
LEMMA JoinOK ==
  ASSUME Inv, NEW w \in Worker, Join(w)
  PROVE  Inv'
<1> DEFINE t == worker[w].topic
<1>1. worker[w].pc = "join" /\ main = "run"
  BY DEF Join, At, Inv, TransportLocks
<1>2. UNCHANGED <<main, callback, wsMutex, wsConnections, sent, last, since, rec, file, due>>
  BY DEF Join, OtherAppVars
<1>3. /\ worker' \in [Worker -> WorkerState] /\ worker'[w].pc = "list"
      /\ \A v \in Worker \ {w} : worker'[v] = worker[v]
  BY ListBegins DEF Join
<1>4. /\ ddsMutex = w /\ ddsActive' = ddsActive \ {t} /\ ddsMutex' = Free
      /\ poll[t].pc = "exited" /\ poll' = [poll EXCEPT ![t] = NoPoll]
      /\ UNCHANGED <<running, reader, hasReader, taken>>
  BY DEF Join, DdsErase, SubscriberJoin
<1>5. t \in DdsTopic
  BY <1>4 DEF Inv, TransportLocks
<1>6. UNCHANGED <<zyreMutex, zyreActive, handlers, inbox, rx>> /\ t \notin ZyreTopic
  BY <1>5, OmniscopeAssumption DEF zyreVars, Join
<1>16. NoPoll \in PollState /\ NoPoll.pc = "none"
  BY DEF NoPoll, PollAt, PollState
<1>7. poll'[t] = NoPoll /\ poll' \in [DdsTopic -> PollState]
      /\ \A u \in DdsTopic : u # t => poll'[u] = poll[u]
  BY <1>4, <1>5, <1>16 DEF Inv, DdsTypes
<1>8. DdsTypes'
  BY <1>4, <1>7 DEF Inv, DdsTypes
<1>9. AppTypes'
  BY <1>2, <1>3 DEF Inv, AppTypes
<1>10. TransportLocks'
  BY <1>1, <1>2, <1>3, <1>4, <1>5, <1>6, OmniscopeAssumption DEF Inv, TransportLocks
<1>11. PollThreads'
  <2>1. ~ running[t]
    BY <1>1, <1>5 DEF Inv, PollThreads
  <2>2. \A u \in DdsTopic : Inserting(u) => Inserting(u)'
    BY <1>1, <1>3 DEF Inserting
  <2>3. \A u \in DdsTopic : u # t => (u \in ddsActive => u \in ddsActive')
    BY <1>4
  <2> QED
    BY <1>3, <1>4, <1>7, <1>16, <2>1, <2>2, <2>3 DEF Inv, PollThreads
<1>12. Handlers'
  BY <1>3, <1>6 DEF Inv, Handlers
<1>13. Calls'
  <2>1. callback[t].pc = "none"
    BY <1>4, <1>5 DEF Inv, Calls
  <2> QED
    BY <1>2, <1>7, <2>1 DEF Inv, Calls
<1>14. DdsOrder'
  BY <1>2, <1>4 DEF Inv, DdsOrder
<1>15. UNCHANGED zyreVars
  BY DEF Join
<1> QED
  BY <1>2, <1>6, <1>8, <1>9, <1>10, <1>11, <1>12, <1>13, <1>14, <1>15, Frames DEF Inv

(* record_start opens an empty file under a new number, which no callback   *)
(* that is under way has; record_stop closes it.                            *)
LEMMA RecordCommandOK ==
  ASSUME Inv, NEW w \in Worker, RecordStart(w) \/ RecordStop(w)
  PROVE  Inv'
<1>1. UNCHANGED OtherThanRec
  BY DEF RecordStart, RecordStop, RecordCommand
<1>2. UNCHANGED <<sent, last, since, callback, worker, wsConnections, wsMutex, main>>
  BY <1>1 DEF OtherThanRec
<1>3. UNCHANGED <<ddsVars, zyreVars>>
  BY <1>1 DEF OtherThanRec
<1>4. rec.on \in BOOLEAN /\ rec.open \in BOOLEAN /\ rec.no \in Nat
  BY DEF Inv, AppTypes
<1>5. CASE UNCHANGED <<rec, file, due>>
  <2>1. AppTypes'
    BY <1>2, <1>5 DEF Inv, AppTypes
  <2> QED
    BY <1>2, <1>3, <1>5, <2>1, Frames DEF Inv, ddsVars, zyreVars
<1>6. CASE OpenFile
  <2>1. PICK ok \in BOOLEAN : rec' = [on |-> TRUE, open |-> ok, no |-> rec.no + 1]
    BY <1>6 DEF OpenFile
  <2>2. file' = <<>> /\ due' = {}
    BY <1>6 DEF OpenFile
  <2>3. <<>> \in Seq(Line) /\ Len(<<>>) = 0
    OBVIOUS
  <2>4. AppTypes'
    BY <1>2, <1>4, <2>1, <2>2, <2>3 DEF Inv, AppTypes
  <2>5. \A th \in Thread : callback[th].recNo \in Nat /\ callback[th].recNo <= rec.no
    BY DEF Inv, AppTypes, CallState, Recording
  <2>6. \A th \in Thread : callback[th].recNo <= rec.no + 1 /\ callback[th].recNo # rec.no + 1
    BY <1>4, <2>5
  <2>7. \A k \in 1 .. Len(file') : FALSE
    BY <2>2, <2>3
  <2>8. rec'.no = rec.no + 1 /\ rec'.no > 0
    BY <1>4, <2>1
  <2>9. Recording'
    BY <1>2, <2>2, <2>6, <2>7, <2>8 DEF Recording, InOrder
  <2> QED
    BY <1>2, <1>3, <2>4, <2>9, Frames DEF Inv, ddsVars, zyreVars
<1>7. CASE rec.on /\ rec' = [rec EXCEPT !.on = FALSE, !.open = FALSE] /\ UNCHANGED <<file, due>>
  <2>1. rec'.on = FALSE /\ rec'.open = FALSE /\ rec'.no = rec.no /\ rec' \in [on : BOOLEAN, open : BOOLEAN, no : Nat]
    BY <1>7 DEF Inv, AppTypes
  <2>2. AppTypes'
    BY <1>2, <1>7, <2>1 DEF Inv, AppTypes
  <2>3. Recording'
    BY <1>2, <1>7, <2>1 DEF Inv, Recording
  <2> QED
    BY <1>2, <1>3, <2>2, <2>3, Frames DEF Inv, ddsVars, zyreVars
<1> QED
  BY <1>5, <1>6, <1>7 DEF RecordStart, RecordStop, StartRecording, StopRecording
-----------------------------------------------------------------------------
(* Messages. *)

(* A message is published on an instance of either transport.               *)
LEMMA PublishOK ==
  ASSUME Inv, NEW t \in Instance, Publish(t)
  PROVE  Inv'
<1>1. sent' = [sent EXCEPT ![t] = @ + 1]
      /\ UNCHANGED <<last, since, callback, worker, wsConnections, wsMutex, rec, file, due, main>>
  BY DEF Publish
<1>2. sent \in [Instance -> Nat] /\ last \in [Instance -> Nat] /\ since \in [Instance -> Nat]
  BY DEF Inv, AppTypes
<1>3. /\ sent' \in [Instance -> Nat] /\ sent'[t] = sent[t] + 1 /\ \A u \in Instance : u # t => sent'[u] = sent[u]
      /\ \A u \in Instance : sent[u] <= sent'[u]
  BY <1>1, <1>2
<1>4. AppTypes'
  BY <1>1, <1>3 DEF Inv, AppTypes
<1>5. ASSUME UNCHANGED poll PROVE Calls'
  <2>1. \A u \in Instance : last[u] <= sent'[u] /\ since[u] <= sent'[u]
    BY <1>2, <1>3 DEF Inv, Calls
  <2> QED
    BY <1>1, <1>5, <2>1 DEF Inv, Calls
<1>6. \A u \in Instance : last[u] <= sent[u] /\ since[u] <= sent[u]
  BY DEF Inv, Calls
<1>7. CASE t \in DdsInstance /\ DdsPublish(t, sent[t] + 1) /\ UNCHANGED zyreVars
  <2>1. UNCHANGED <<ddsActive, ddsMutex, running, hasReader, poll, taken>>
    BY <1>7 DEF DdsPublish
  <2>2. UNCHANGED <<zyreMutex, zyreActive, handlers, inbox, rx>>
    BY <1>7 DEF zyreVars
  <2> DEFINE d == Depth[InstanceTopic[t]]
             cache == reader[t]
             kept == IF Len(cache) = d THEN Tail(cache) ELSE cache
             more == Append(kept, sent[t] + 1)
  <2>16. InstanceTopic[t] \in DdsTopic /\ t \in Of(InstanceTopic[t])
    BY <1>7, Instances
  <2>3. reader \in [DdsInstance -> Seq(Nat)] /\ cache \in Seq(Nat) /\ taken[t] \in Seq(Nat)
    BY <1>7 DEF Inv, DdsTypes
  <2>4. reader' \in {reader, [reader EXCEPT ![t] = more]}
    BY <1>7 DEF DdsPublish, DdsWrites, DdsDeliver
  <2>5. Len(cache) \in Nat /\ d \in Nat /\ d > 0 /\ Len(cache) <= d
    BY <2>3, <2>16, OmniscopeAssumption DEF Inv, PollThreads
  <2>6. PendingSamples(taken[t], cache, last[t], since[t], sent[t])
    BY <1>7 DEF Inv, DdsOrder
  <2> HIDE DEF cache, d
  <2>7. kept \in Seq(Nat) /\ Len(kept) + 1 <= d /\ Len(kept) \in Nat
        /\ PendingSamples(taken[t], kept, last[t], since[t], sent[t])
    <3>1. CASE Len(cache) = d
      <4>1. cache # <<>>
        BY <2>5, <3>1
      <4>2. Tail(cache) \in Seq(Nat) /\ Len(Tail(cache)) = Len(cache) - 1 /\ Len(Tail(cache)) \in Nat
        BY <2>3, <4>1, TailFacts
      <4>3. PendingSamples(taken[t], Tail(cache), last[t], since[t], sent[t])
        BY <1>2, <2>3, <2>6, <4>1, DropSample
      <4> QED
        BY <2>5, <3>1, <4>2, <4>3
    <3>2. CASE Len(cache) # d
      BY <2>3, <2>5, <2>6, <3>2
    <3> QED
      BY <3>1, <3>2
  <2> HIDE DEF kept
  <2>8. sent[t] + 1 \in Nat
    BY <1>2
  <2>9. more \in Seq(Nat) /\ Len(more) = Len(kept) + 1 /\ Len(more) <= d
    BY <2>7, <2>8, AppendFacts
  <2>10. /\ PendingSamples(taken[t], more, last[t], since[t], sent[t] + 1)
         /\ PendingSamples(taken[t], cache, last[t], since[t], sent[t] + 1)
    BY <1>2, <1>6, <2>3, <2>6, <2>7, AddSample
  <2> HIDE DEF more
  <2>11. /\ reader' \in [DdsInstance -> Seq(Nat)] /\ reader'[t] \in {cache, more}
         /\ \A u \in DdsInstance : u # t => reader'[u] = reader[u]
    BY <1>7, <2>3, <2>4, <2>9 DEF cache
  <2>12. DdsTypes'
    BY <2>1, <2>11 DEF Inv, DdsTypes
  <2>13. PollThreads'
    <3>3. Len(reader'[t]) <= d
      BY <2>5, <2>9, <2>11
    <3>1. \A u \in DdsTopic : \A i \in Of(u) : Len(reader'[i]) <= Depth[u]
      BY <2>11, <3>3, Instances DEF Inv, PollThreads, d
    <3>2. \A u \in DdsTopic : Inserting(u) => Inserting(u)'
      BY <1>1 DEF Inserting
    <3> QED
      BY <1>1, <2>1, <3>1, <3>2 DEF Inv, PollThreads
  <2>14. DdsOrder'
    <3>1. \A u \in DdsInstance : u # t => sent'[u] = sent[u]
      BY <1>3, Instances
    <3>2. PendingSamples(taken[t], reader'[t], last[t], since[t], sent'[t])
      BY <1>3, <2>10, <2>11
    <3> QED
      BY <1>1, <2>1, <2>11, <3>1, <3>2 DEF Inv, DdsOrder
  <2>15. ZyreOrder'
    <3>1. \A v \in Instance : last[v] <= sent[v]
      BY <1>6
    <3>2. /\ PendingShouts(inbox, last, sent')
          /\ \A e : CurrentShout(e, inbox, last, sent) => CurrentShout(e, inbox, last, sent')
      BY <1>1, <1>2, <3>1, AddShout DEF Inv, ZyreTypes, ZyreOrder
    <3> QED
      BY <1>1, <2>2, <3>2 DEF Inv, ZyreOrder
  <2> QED
    BY <1>1, <1>4, <1>5, <1>7, <2>1, <2>2, <2>12, <2>13, <2>14, <2>15, Frames DEF Inv
<1>8. CASE t \in ZyreTopic /\ ZyrePublish(t, sent[t] + 1) /\ UNCHANGED ddsVars
  <2>1. /\ UNCHANGED <<zyreActive, zyreMutex, handlers, rx, subNode, pubNode>>
        /\ inbox' \in {inbox, Append(inbox, Shout(t, sent[t] + 1))}
    BY <1>8 DEF ZyrePublish, PublishShout
  <2>2. UNCHANGED <<ddsMutex, running, reader, hasReader, poll, taken, ddsActive>>
    BY <1>8 DEF ddsVars
  <2>3. \A v \in Instance : last[v] <= sent[v]
    BY <1>6
  <2>4. inbox' \in Seq(Event) /\ PendingShouts(inbox', last, sent')
        /\ \A e : CurrentShout(e, inbox, last, sent) => CurrentShout(e, inbox', last, sent')
    <3> DEFINE q1 == Append(inbox, Shout(t, sent[t] + 1))
    <3>1. /\ PendingShouts(inbox, last, sent')
          /\ \A e : CurrentShout(e, inbox, last, sent) => CurrentShout(e, inbox, last, sent')
          /\ q1 \in Seq(Event) /\ PendingShouts(q1, last, sent')
          /\ \A e : CurrentShout(e, inbox, last, sent) => CurrentShout(e, q1, last, sent')
      BY <1>1, <1>2, <1>8, <2>3, AddShout DEF Inv, ZyreTypes, ZyreOrder
    <3>2. inbox \in Seq(Event) /\ inbox' \in {inbox, q1}
      BY <2>1 DEF Inv, ZyreTypes
    <3> HIDE DEF q1
    <3> QED
      BY <3>1, <3>2
  <2>5. ZyreTypes'
    BY <2>1, <2>4 DEF Inv, ZyreTypes
  <2>6. ZyreOrder'
    BY <1>1, <2>1, <2>4 DEF Inv, ZyreOrder
  <2>7. DdsOrder'
    <3>1. \A u \in DdsInstance : u \in Instance /\ u # t
      BY <1>8, Instances
    <3> QED
      BY <1>1, <1>3, <2>2, <3>1 DEF Inv, DdsOrder
  <2> QED
    BY <1>1, <1>4, <1>5, <1>8, <2>1, <2>2, <2>5, <2>6, <2>7, Frames DEF Inv, ddsVars
<1> QED
  BY <1>7, <1>8, Instances, OmniscopeAssumption DEF Publish, FindTransport, Instance

(* A thread enters onTransportMessage with a later message of an instance   *)
(* that no other thread passes messages of.                                 *)
LEMMA InvokeOK ==
  ASSUME Inv, NEW th \in Thread, callback[th] = NoCall, NEW t \in Instance, NEW m \in Nat,
         last[t] < m, m <= sent[t], Invoke(th, t, m), UNCHANGED OtherThanCalls,
         th \in DdsTopic => t \in Of(th), th = Receiver => t \in ZyreTopic
  PROVE  /\ AppTypes' /\ WsLock' /\ SendsToLiveConnections' /\ Recording'
         /\ (\A u \in DdsTopic : callback'[u].pc # "none" => poll'[u].pc = "call") => Calls'
<1> DEFINE c == [pc |-> "record", inst |-> t, msg |-> m, todo |-> {},
                 recNo |-> IF rec.on /\ rec.open THEN rec.no ELSE 0]
<1>1. UNCHANGED <<sent, since, worker, wsConnections, wsMutex, rec, file, due, main>>
  BY DEF OtherThanCalls
<1>2. callback' = [callback EXCEPT ![th] = c] /\ last' = [last EXCEPT ![t] = m]
  BY DEF Invoke
<1>3. c \in CallState /\ c.recNo <= rec.no
  BY DEF CallState, Inv, AppTypes
<1> HIDE DEF c
<1> USE DEF Inv
<1>4. callback'[th] = c /\ (\A v \in Thread : v # th => callback'[v] = callback[v])
      /\ callback' \in [Thread -> CallState]
  BY <1>2, <1>3 DEF AppTypes
<1>5. c.pc = "record" /\ c.inst = t /\ c.msg = m /\ c.todo = {}
  BY DEF c
<1>6. last' \in [Instance -> Nat] /\ last'[t] = m /\ \A u \in Instance : u # t => last'[u] = last[u]
  BY <1>2 DEF AppTypes
<1>7. AppTypes'
  BY <1>1, <1>4, <1>6 DEF AppTypes
<1>8. callback[th].pc = "none"
  BY DEF NoCall
<1>9. WsLock'
  BY <1>1, <1>4, <1>5, <1>8 DEF WsLock
<1>10. SendsToLiveConnections'
  BY <1>1, <1>4, <1>5 DEF SendsToLiveConnections
<1>11. InOrder(file, last') /\ \A k \in 1 .. Len(file) : file[k].inst = t => file[k].msg < m
  BY <1>2, LaterMessage DEF AppTypes, Recording
<1>12. Recording'
  BY <1>1, <1>3, <1>4, <1>5, <1>11 DEF Recording, LineOf
<1>13. \A v \in Thread : v # th /\ callback[v].pc # "none" => callback[v].inst # t /\ callback[v].inst \in Instance
  BY OmniscopeAssumption, Instances DEF Calls, Thread
<1>14. ASSUME \A u \in DdsTopic : callback'[u].pc # "none" => poll'[u].pc = "call"
       PROVE  Calls'
  <2>1. \A v \in Thread : callback'[v].pc = "none" => callback'[v] = NoCall
    BY <1>4, <1>5 DEF Calls
  <2>2. \A u \in DdsTopic : callback'[u].pc # "none" => callback'[u].inst \in Of(u)
    BY <1>4, <1>5 DEF Calls, Thread
  <2>3. callback'[Receiver].pc # "none" => callback'[Receiver].inst \in ZyreTopic
    BY <1>4, <1>5 DEF Calls, Thread
  <2>4. \A v \in Thread : callback'[v].pc # "none" => callback'[v].msg = last'[callback'[v].inst]
    BY <1>4, <1>5, <1>6, <1>13 DEF Calls
  <2>5. \A u \in Instance : last'[u] <= sent'[u] /\ since'[u] <= sent'[u]
    BY <1>1, <1>6 DEF Calls
  <2> QED
    BY <1>14, <2>1, <2>2, <2>3, <2>4, <2>5 DEF Calls
<1> QED
  BY <1>7, <1>9, <1>10, <1>12, <1>14

(* pollLoop goes on, outside of the callback.                               *)
LEMMA PollMoves ==
  ASSUME Inv, NEW t \in DdsTopic, poll[t].pc # "none",
         NEW p \in PollState, p.pc # "none", poll' = [poll EXCEPT ![t] = p],
         reader' \in [DdsInstance -> Seq(Nat)], taken' \in [DdsInstance -> Seq(Nat)],
         \A i \in Of(t) : reader'[i] \in {reader[i], <<>>} /\ (p.pc # "call" => taken'[i] = <<>>),
         \A i \in DdsInstance \ Of(t) : reader'[i] = reader[i] /\ taken'[i] = taken[i],
         UNCHANGED <<ddsActive, ddsMutex, running, hasReader, worker>>
  PROVE  /\ DdsTypes' /\ PollThreads'
         /\ poll'[t] = p /\ \A u \in DdsTopic : u # t => poll'[u] = poll[u]
<1> USE DEF Inv
<1>1. Len(<<>>) <= Depth[t]
  BY OmniscopeAssumption
<1>2. poll'[t] = p /\ \A u \in DdsTopic : u # t => poll'[u] = poll[u]
  BY DEF DdsTypes
<1>3. DdsTypes'
  BY DEF DdsTypes
<1>4. \A u \in DdsTopic : Inserting(u) => Inserting(u)'
  BY DEF Inserting
<1>5. \A u \in DdsTopic : u # t => \A i \in Of(u) : reader'[i] = reader[i] /\ taken'[i] = taken[i]
  BY Instances
<1>6. \A u \in DdsTopic : \A i \in Of(u) : Len(reader'[i]) <= Depth[u]
  BY <1>1, <1>5 DEF PollThreads
<1>7. \A u \in DdsTopic : poll'[u].pc # "call" => \A i \in Of(u) : taken'[i] = <<>>
  BY <1>2, <1>5 DEF PollThreads
<1>8. PollThreads'
  BY <1>2, <1>4, <1>6, <1>7 DEF PollThreads
<1> QED
  BY <1>2, <1>3, <1>8

(* A step of the poll thread that makes no call.                            *)
LEMMA QuietPollOK ==
  ASSUME Inv, NEW t \in DdsTopic, callback[t] = NoCall, poll[t].pc # "none",
         NEW p \in PollState, p.pc # "none", poll' = [poll EXCEPT ![t] = p],
         reader' \in [DdsInstance -> Seq(Nat)], taken' \in [DdsInstance -> Seq(Nat)],
         \A i \in Of(t) : /\ reader'[i] \in {reader[i], <<>>} /\ (p.pc # "call" => taken'[i] = <<>>)
                          /\ PendingSamples(taken'[i], reader'[i], last[i], since[i], sent[i]),
         \A i \in DdsInstance \ Of(t) : reader'[i] = reader[i] /\ taken'[i] = taken[i],
         UNCHANGED <<ddsActive, ddsMutex, running, hasReader, callback, last, zyreVars, OtherThanCalls>>
  PROVE  Inv'
<1> USE DEF Inv
<1>1. UNCHANGED <<sent, since, worker, wsConnections, wsMutex, rec, file, due, main>>
  BY DEF OtherThanCalls
<1>2. UNCHANGED <<zyreMutex, zyreActive, handlers, inbox, rx>>
  BY DEF zyreVars
<1>3. /\ DdsTypes' /\ PollThreads'
      /\ poll'[t] = p /\ \A u \in DdsTopic : u # t => poll'[u] = poll[u]
  BY <1>1, PollMoves
<1>4. AppTypes'
  BY <1>1 DEF AppTypes
<1>5. callback[t].pc = "none"
  BY DEF NoCall
<1>6. Calls'
  BY <1>1, <1>3, <1>5 DEF Calls
<1>7. DdsOrder'
  BY <1>1 DEF DdsOrder
<1> QED
  BY <1>1, <1>2, <1>3, <1>4, <1>6, <1>7, Frames

(* A step of the poll thread; with the callback, if it makes the call.      *)
LEMMA PollOK ==
  ASSUME Inv, NEW t \in DdsTopic, Poll(t)
  PROVE  Inv'
<1> USE DEF Inv
<1>1. UNCHANGED <<zyreVars, OtherThanCalls>> /\ callback[t] = NoCall /\ callback[t].pc = "none"
  BY DEF Poll, NoCall
<1>2. /\ poll[t] \in PollState /\ t \in Thread
      /\ reader \in [DdsInstance -> Seq(Nat)] /\ taken \in [DdsInstance -> Seq(Nat)]
  BY DEF DdsTypes, Thread
<1>3. Of(t) \subseteq DdsInstance /\ DdsInstance \subseteq Instance
  BY Instances
<1>4. \A i \in DdsInstance : PendingSamples(taken[i], reader[i], last[i], since[i], sent[i])
  BY DEF DdsOrder
<1>5. \A i \in DdsInstance : /\ sent[i] \in Nat /\ last[i] \in Nat /\ since[i] \in Nat
                             /\ reader[i] \in Seq(Nat) /\ taken[i] \in Seq(Nat)
  BY <1>2, <1>3 DEF AppTypes
<1>6. \A pc \in {"loop", "take", "call", "exited"} : PollAt(pc) \in PollState /\ PollAt(pc).pc = pc
  BY DEF PollAt, PollState
<1>7. CASE PollCheck(t) /\ UNCHANGED <<callback, last>>
  <2> DEFINE p == PollAt(IF running[t] THEN "take" ELSE "exited")
  <2>1. poll[t].pc = "loop" /\ poll' = [poll EXCEPT ![t] = p]
        /\ UNCHANGED <<ddsActive, ddsMutex, running, hasReader, reader, taken>>
    BY <1>7 DEF PollCheck, PollStep
  <2>2. p \in PollState /\ p.pc # "none" /\ p.pc # "call"
    BY <1>6
  <2>3. \A i \in Of(t) : taken[i] = <<>>
    BY <2>1 DEF PollThreads
  <2> HIDE DEF p
  <2> QED
    BY <1>1, <1>2, <1>3, <1>4, <1>7, <2>1, <2>2, <2>3, QuietPollOK
<1>8. CASE PollTake(t) /\ UNCHANGED <<callback, last>>
  <2> DEFINE p == PollAt("call")
  <2>1. poll[t].pc = "take" /\ poll' = [poll EXCEPT ![t] = p]
        /\ UNCHANGED <<ddsActive, ddsMutex, running, hasReader>>
    BY <1>8 DEF PollTake, PollStep
  <2>2. reader' = Without(reader, t)
        /\ taken' = [i \in DdsInstance |-> IF i \in Of(t) THEN reader[i] ELSE taken[i]]
    BY <1>8 DEF PollTake
  <2>3. p \in PollState /\ p.pc = "call"
    BY <1>6
  <2> HIDE DEF p
  <2>4. \A i \in Of(t) : taken[i] = <<>>
    BY <2>1 DEF PollThreads
  <2>5. /\ reader' \in [DdsInstance -> Seq(Nat)] /\ \A i \in Of(t) : reader'[i] = <<>>
        /\ \A i \in DdsInstance \ Of(t) : reader'[i] = reader[i]
    BY <1>2, <2>2, WithoutFacts
  <2>6. /\ taken' \in [DdsInstance -> Seq(Nat)] /\ \A i \in Of(t) : taken'[i] = reader[i]
        /\ \A i \in DdsInstance \ Of(t) : taken'[i] = taken[i]
    BY <1>3, <1>5, <2>2
  <2>7. ASSUME NEW i \in Of(t)
        PROVE  PendingSamples(taken'[i], reader'[i], last[i], since[i], sent[i])
    <3>1. PendingSamples(<<>>, reader[i], last[i], since[i], sent[i])
      BY <1>3, <1>4, <2>4
    <3>2. PendingSamples(reader[i], <<>>, last[i], since[i], sent[i])
      BY <1>3, <1>5, <3>1, TakeSamples
    <3> QED
      BY <2>5, <2>6, <3>2
  <2> QED
    BY <1>1, <1>8, <2>1, <2>3, <2>5, <2>6, <2>7, QuietPollOK
<1>9. CASE PollSleep(t) /\ UNCHANGED <<callback, last>>
  <2> DEFINE p == PollAt("loop")
  <2>1. poll[t].pc = "call" /\ poll' = [poll EXCEPT ![t] = p]
        /\ UNCHANGED <<ddsActive, ddsMutex, running, hasReader, reader, taken>>
        /\ \A i \in Of(t) : taken[i] = <<>>
    BY <1>9 DEF PollSleep, PollStep
  <2>2. p \in PollState /\ p.pc = "loop"
    BY <1>6
  <2> HIDE DEF p
  <2> QED
    BY <1>1, <1>2, <1>3, <1>4, <1>9, <2>1, <2>2, QuietPollOK
<1>10. ASSUME NEW i \in DdsInstance, PollNextSample(t, i),
              UNCHANGED <<callback, last>> \/ Invoke(t, i, Head(taken[i]))
       PROVE  Inv'
  <2> DEFINE p == [pc |-> "call", within |-> {i}]
             m == Head(taken[i])
  <2>1. i \in Of(t) /\ taken[i] # <<>> /\ poll[t].pc = "call" /\ poll' = [poll EXCEPT ![t] = p]
        /\ taken' = [taken EXCEPT ![i] = Tail(@)]
        /\ UNCHANGED <<ddsActive, ddsMutex, running, hasReader, reader>>
    BY <1>10 DEF PollNextSample, PollStep
  <2>2. Tail(taken[i]) \in Seq(Nat) /\ m \in Nat
    BY <1>5, <2>1, TailFacts
  <2>3. p \in PollState /\ p.pc = "call"
    BY DEF PollState
  <2>4. /\ taken' \in [DdsInstance -> Seq(Nat)] /\ taken'[i] = Tail(taken[i])
        /\ \A j \in DdsInstance : j # i => taken'[j] = taken[j]
    BY <1>2, <2>1, <2>2
  <2>5. /\ PendingSamples(taken'[i], reader[i], last[i], since[i], sent[i])
        /\ PendingSamples(taken'[i], reader[i], m, since[i], sent[i])
        /\ last[i] < m /\ m <= sent[i]
    BY <1>4, <1>5, <2>1, <2>4, NextSample
  <2> HIDE DEF p, m
  <2>6. CASE UNCHANGED <<callback, last>>
    <3>1. \A j \in Of(t) : PendingSamples(taken'[j], reader[j], last[j], since[j], sent[j])
      BY <1>3, <1>4, <2>4, <2>5
    <3> QED
      BY <1>1, <1>2, <2>1, <2>3, <2>4, <2>6, <3>1, QuietPollOK
  <2>7. CASE Invoke(t, i, m)
    <3>1. t # Receiver
      BY OmniscopeAssumption
    <3>2. UNCHANGED <<sent, since, worker, wsConnections, wsMutex, rec, file, due, main>>
      BY <1>1 DEF OtherThanCalls
    <3>3. UNCHANGED <<zyreMutex, zyreActive, handlers, inbox, rx>>
      BY <1>1 DEF zyreVars
    <3>4. /\ DdsTypes' /\ PollThreads'
          /\ poll'[t] = p /\ \A u \in DdsTopic : u # t => poll'[u] = poll[u]
      <4>1. /\ reader' \in [DdsInstance -> Seq(Nat)] /\ p.pc # "none" /\ poll[t].pc # "none"
            /\ \A j \in Of(t) : reader'[j] \in {reader[j], <<>>} /\ (p.pc # "call" => taken'[j] = <<>>)
            /\ \A j \in DdsInstance \ Of(t) : reader'[j] = reader[j] /\ taken'[j] = taken[j]
        BY <1>2, <2>1, <2>3, <2>4
      <4> QED
        BY <2>1, <2>3, <2>4, <3>2, <4>1, PollMoves
    <3>5. /\ AppTypes' /\ WsLock' /\ SendsToLiveConnections' /\ Recording'
          /\ (\A u \in DdsTopic : callback'[u].pc # "none" => poll'[u].pc = "call") => Calls'
      BY <1>1, <1>2, <1>3, <2>1, <2>2, <2>5, <2>7, <3>1, InvokeOK
    <3>6. /\ last' = [last EXCEPT ![i] = m]
          /\ \A v \in Thread : v # t => callback'[v] = callback[v]
      BY <2>7 DEF Invoke, AppTypes
    <3>7. Calls'
      BY <2>3, <3>4, <3>5, <3>6 DEF Calls, Thread
    <3>8. last'[i] = m /\ \A j \in DdsInstance : j # i => last'[j] = last[j]
      BY <1>3, <3>6 DEF AppTypes
    <3>9. DdsOrder'
      BY <1>4, <2>1, <2>4, <2>5, <3>2, <3>8 DEF DdsOrder
    <3>10. /\ PendingShouts(inbox, last', sent)
           /\ \A e : CurrentShout(e, inbox, last, sent) => CurrentShout(e, inbox, last', sent)
      BY <2>2, <3>6, PassSample DEF ZyreOrder, ZyreTypes, AppTypes
    <3>11. ZyreOrder'
      BY <3>2, <3>3, <3>10 DEF ZyreOrder
    <3> QED
      BY <1>1, <2>1, <3>2, <3>3, <3>4, <3>5, <3>7, <3>9, <3>11, Frames
  <2> QED
    BY <1>10, <2>6, <2>7 DEF m
<1> QED
  BY <1>7, <1>8, <1>9, <1>10 DEF Poll

(* A step of the receive thread; with the callback, if it makes the call.   *)
LEMMA ReceiveOK ==
  ASSUME Inv, Receive \/ ReceiveInterrupted
  PROVE  Inv'
<1> USE DEF Inv
<1>1. UNCHANGED <<ddsVars, OtherThanCalls>> /\ callback[Receiver] = NoCall
  BY DEF Receive, ReceiveInterrupted
<1>2. UNCHANGED <<sent, since, worker, wsConnections, wsMutex, rec, file, due, main>>
  BY <1>1 DEF OtherThanCalls
<1>3. UNCHANGED <<ddsMutex, running, reader, hasReader, poll, taken, ddsActive>>
  BY <1>1 DEF ddsVars
<1>4. /\ rx \in [pc : {"none", "event", "lookup", "call", "exited"}, event : Event]
      /\ inbox \in Seq(Event) /\ last \in [Instance -> Nat] /\ sent \in [Instance -> Nat]
      /\ PendingShouts(inbox, last, sent)
  BY DEF ZyreTypes, ZyreOrder, AppTypes
<1>5. ASSUME NEW r \in [pc : {"none", "event", "lookup", "call", "exited"}, event : Event], rx' = r,
             inbox' \in Seq(Event), UNCHANGED <<zyreActive, zyreMutex, handlers, subNode, pubNode, callback, last>>,
             PendingShouts(inbox', last, sent),
             r.pc \in {"lookup", "call"} => CurrentShout(r.event, inbox', last, sent)
      PROVE  Inv'
  <2>1. ZyreTypes'
    BY <1>5 DEF ZyreTypes
  <2>2. ZyreOrder'
    BY <1>2, <1>5 DEF ZyreOrder
  <2>3. AppTypes'
    BY <1>2, <1>5 DEF AppTypes
  <2> QED
    BY <1>1, <1>2, <1>3, <1>5, <2>1, <2>2, <2>3, Frames
<1>6. CASE RxEvent /\ UNCHANGED <<callback, last>>
  <2> DEFINE r == IF Head(inbox) = Stop THEN [rx EXCEPT !.pc = "exited"]
                  ELSE [pc |-> "lookup", event |-> Head(inbox)]
  <2>1. /\ inbox # <<>> /\ inbox' = Tail(inbox) /\ rx' = r
        /\ UNCHANGED <<zyreActive, zyreMutex, handlers, subNode, pubNode>>
    BY <1>6 DEF RxEvent, RxStep
  <2>2. Head(inbox) \in Event /\ Tail(inbox) \in Seq(Event)
    BY <1>4, <2>1, TailFacts
  <2>3. /\ PendingShouts(Tail(inbox), last, sent)
        /\ Head(inbox) \in Shouts => CurrentShout(Head(inbox), Tail(inbox), last, sent)
    BY <1>4, <2>1, NextShout
  <2>4. /\ r \in [pc : {"none", "event", "lookup", "call", "exited"}, event : Event]
        /\ r.pc \in {"lookup", "call"} => r.event = Head(inbox) /\ r.event \in Shouts
    BY <1>4, <2>2 DEF Event
  <2> HIDE DEF r
  <2> QED
    BY <1>5, <1>6, <2>1, <2>2, <2>3, <2>4
<1>7. CASE RxLookup /\ UNCHANGED <<callback, last>>
  <2> DEFINE r == [rx EXCEPT !.pc = IF rx.event.topic \in handlers THEN "call" ELSE "event"]
  <2>1. rx.pc = "lookup" /\ rx' = r /\ UNCHANGED <<zyreActive, zyreMutex, handlers, subNode, pubNode, inbox>>
    BY <1>7 DEF RxLookup, RxStep
  <2>2. r \in [pc : {"none", "event", "lookup", "call", "exited"}, event : Event] /\ r.event = rx.event
    BY <1>4
  <2>3. CurrentShout(rx.event, inbox, last, sent)
    BY <2>1 DEF ZyreOrder
  <2> HIDE DEF r
  <2> QED
    BY <1>4, <1>5, <1>7, <2>1, <2>2, <2>3
<1>8. CASE RxHandled
  <2> DEFINE r == [rx EXCEPT !.pc = "event"]
             e == rx.event
  <2>1. rx.pc = "call" /\ rx' = r /\ UNCHANGED <<zyreActive, zyreMutex, handlers, subNode, pubNode, inbox>>
    BY <1>8 DEF RxHandled, RxStep
  <2>2. r \in [pc : {"none", "event", "lookup", "call", "exited"}, event : Event] /\ r.pc = "event"
    BY <1>4
  <2>3. CurrentShout(e, inbox, last, sent)
    BY <2>1 DEF ZyreOrder
  <2> HIDE DEF r
  <2>4. CASE UNCHANGED <<callback, last>>
    BY <1>4, <1>5, <2>1, <2>2, <2>4
  <2>5. CASE Invoke(Receiver, e.topic, e.msg)
    <3>1. /\ e.topic \in ZyreTopic /\ e.topic \in Instance /\ e.msg \in Nat
          /\ last[e.topic] < e.msg /\ e.msg <= sent[e.topic]
      BY <2>3, Instances DEF CurrentShout, Shouts
    <3>2. Receiver \in Thread /\ Receiver \notin DdsTopic
      BY OmniscopeAssumption DEF Thread
    <3>3. /\ AppTypes' /\ WsLock' /\ SendsToLiveConnections' /\ Recording'
          /\ (\A u \in DdsTopic : callback'[u].pc # "none" => poll'[u].pc = "call") => Calls'
      BY <1>1, <2>5, <3>1, <3>2, InvokeOK
    <3>4. /\ last' = [last EXCEPT ![e.topic] = e.msg]
          /\ \A v \in Thread : v # Receiver => callback'[v] = callback[v]
      BY <2>5 DEF Invoke, AppTypes
    <3>5. Calls'
      BY <1>3, <3>2, <3>3, <3>4 DEF Calls, Thread
    <3>6. PendingShouts(inbox, last', sent)
      BY <1>4, <2>3, <3>4, PassShout
    <3>7. ZyreOrder'
      BY <1>2, <2>1, <2>2, <3>6 DEF ZyreOrder
    <3>8. ZyreTypes'
      BY <1>4, <2>1, <2>2 DEF ZyreTypes
    <3>9. \A u \in DdsInstance : last'[u] = last[u]
      BY <1>4, <3>1, <3>4, Instances
    <3>10. DdsOrder'
      BY <1>2, <1>3, <3>9 DEF DdsOrder
    <3> QED
      BY <1>1, <1>2, <1>3, <2>1, <3>3, <3>5, <3>7, <3>8, <3>10, Frames
  <2> QED
    BY <1>8, <2>4, <2>5 DEF Receive, ReceiveInterrupted
<1>9. CASE RxInterrupted /\ UNCHANGED <<callback, last>>
  <2> DEFINE r == [rx EXCEPT !.pc = "exited"]
  <2>1. rx' = r /\ UNCHANGED <<zyreActive, zyreMutex, handlers, subNode, pubNode, inbox>>
    BY <1>9 DEF RxInterrupted, RxStep
  <2>2. r \in [pc : {"none", "event", "lookup", "call", "exited"}, event : Event] /\ r.pc = "exited"
    BY <1>4
  <2> HIDE DEF r
  <2> QED
    BY <1>4, <1>5, <1>9, <2>1, <2>2
<1> QED
  BY <1>6, <1>7, <1>8, <1>9 DEF Receive, ReceiveInterrupted

(* What the steps of onTransportMessage leave alone.                        *)
LEMMA MessageFrames ==
  ASSUME Inv, UNCHANGED OtherThanMessage
  PROVE  /\ DdsTypes' /\ ZyreTypes' /\ TransportLocks' /\ PollThreads' /\ Handlers' /\ DdsOrder' /\ ZyreOrder'
         /\ UNCHANGED <<sent, last, since, worker, wsConnections, rec, main, poll>>
<1>1. UNCHANGED <<ddsVars, zyreVars, sent, last, since, worker, wsConnections, rec, main>>
  BY DEF OtherThanMessage
<1>2. UNCHANGED <<poll, reader, taken, ddsMutex, zyreMutex, inbox, rx, zyreActive, handlers>>
  BY <1>1 DEF ddsVars, zyreVars
<1> QED
  BY <1>1, <1>2, Frames

(* A call uses a member that has been destroyed: nothing else changes.      *)
LEMMA CrashOK ==
  ASSUME Inv, Crash, UNCHANGED OtherThanMessage
  PROVE  Inv'
<1>1. UNCHANGED <<callback, file, due, wsMutex>>
  BY DEF Crash
<1>2. AppTypes'
  BY <1>1, MessageFrames DEF Inv, AppTypes
<1> QED
  BY <1>1, <1>2, MessageFrames, Frames DEF Inv

(* A thread inside onTransportMessage goes on with the same message.        *)
LEMMA CallMoves ==
  ASSUME Inv, NEW th \in Thread, NEW c \in CallState, callback' = [callback EXCEPT ![th] = c],
         callback[th].pc # "none", c.pc # "none", c.inst = callback[th].inst, c.msg = callback[th].msg,
         c.recNo = callback[th].recNo, UNCHANGED OtherThanMessage
  PROVE  /\ callback' \in [Thread -> CallState] /\ callback'[th] = c
         /\ \A v \in Thread : v # th => callback'[v] = callback[v]
         /\ Calls'
<1> USE DEF Inv
<1>1. /\ callback' \in [Thread -> CallState] /\ callback'[th] = c
      /\ \A v \in Thread : v # th => callback'[v] = callback[v]
  BY DEF AppTypes
<1>2. UNCHANGED <<sent, last, since, poll>>
  BY MessageFrames
<1>3. Receiver \in Thread /\ DdsTopic \subseteq Thread
  BY DEF Thread
<1>4. Calls'
  BY <1>1, <1>2, <1>3 DEF Calls
<1> QED
  BY <1>1, <1>4

(* recordMessage: the line is written if a recording is on.                 *)
LEMMA RecordOK ==
  ASSUME Inv, NEW th \in Thread, Record(th)
  PROVE  Inv'
<1>1. CASE Crash
  BY <1>1, CrashOK DEF Record
<1>2. CASE ~ Crash
  <2> USE DEF Inv
  <2> DEFINE c == [callback[th] EXCEPT !.pc = "lock"]
             x == LineOf(th)
  <2>1. /\ file' = IF rec.on /\ rec.open THEN Append(file, x) ELSE file
        /\ callback' = [callback EXCEPT ![th].pc = "lock"]
        /\ UNCHANGED <<due, wsMutex, OtherThanMessage>> /\ callback[th].pc = "record"
    BY <1>2 DEF Record, CallStep, LineOf
  <2>2. callback[th] \in CallState /\ file \in Seq(Line) /\ last \in [Instance -> Nat]
    BY DEF AppTypes
  <2>3. /\ c \in CallState /\ c.pc = "lock" /\ c.inst = callback[th].inst /\ c.msg = callback[th].msg
        /\ c.recNo = callback[th].recNo /\ c.todo = callback[th].todo
    BY <2>2 DEF CallState
  <2>4. callback' = [callback EXCEPT ![th] = c]
    BY <2>1, <2>2 DEF AppTypes, CallState
  <2> HIDE DEF c
  <2>5. /\ callback' \in [Thread -> CallState] /\ callback'[th] = c
        /\ (\A v \in Thread : v # th => callback'[v] = callback[v]) /\ Calls'
    BY <2>1, <2>3, <2>4, CallMoves
  <2>6. UNCHANGED <<sent, last, since, worker, wsConnections, rec, main, due, wsMutex>>
    BY <2>1, MessageFrames
  <2>7. callback[th].inst \in Instance /\ callback[th].msg = last[callback[th].inst]
    BY <2>1, Instances DEF Calls, Thread
  <2>8. x \in Line /\ x.msg = last[x.inst] /\ x.inst = callback[th].inst /\ x.msg = callback[th].msg
    BY <2>2, <2>7 DEF LineOf, Line, CallState
  <2>9. \A k \in 1 .. Len(file) : file[k].inst = x.inst => file[k].msg < x.msg
    BY <2>1, <2>8 DEF Recording
  <2>10. InOrder(file, last)
    BY DEF Recording
  <2>11. /\ Append(file, x) \in Seq(Line) /\ InOrder(Append(file, x), last)
         /\ Lines(Append(file, x)) = Lines(file) \cup {x}
    <3> HIDE DEF x
    <3> QED BY <2>2, <2>8, <2>9, <2>10, AddLine
  <2>12. file' \in Seq(Line) /\ InOrder(file', last) /\ Lines(file) \subseteq Lines(file')
         /\ (rec.on /\ rec.open => x \in Lines(file'))
    BY <2>1, <2>2, <2>10, <2>11
  <2>13. AppTypes'
    BY <2>5, <2>6, <2>12 DEF AppTypes
  <2>14. WsLock'
    BY <2>1, <2>3, <2>5, <2>6 DEF WsLock
  <2>15. SendsToLiveConnections'
    BY <2>3, <2>5, <2>6 DEF SendsToLiveConnections
  <2>16. Recording'
    <3>1. \A v \in Thread : callback'[v].recNo <= rec.no
      BY <2>3, <2>5 DEF Recording
    <3>2. LineOf(th)' = x /\ \A v \in Thread : v # th => LineOf(v)' = LineOf(v)
      BY <2>3, <2>5 DEF LineOf
    <3>3. ASSUME NEW v \in Thread, callback'[v].pc \in {"lock", "send"}, callback'[v].recNo = rec.no, rec.on, rec.open
          PROVE  LineOf(v)' \in Lines(file')
      BY <2>5, <2>12, <3>2, <3>3 DEF Recording
    <3>4. ASSUME NEW v \in Thread, callback'[v].pc = "record", NEW k \in 1 .. Len(file'),
                 file'[k].inst = callback'[v].inst
          PROVE  file'[k].msg < callback'[v].msg
      <4>1. v # th /\ callback'[v] = callback[v] /\ callback[v].pc = "record"
        BY <2>3, <2>5, <3>4
      <4>2. callback[v].inst # callback[th].inst
        BY <2>1, <4>1, OmniscopeAssumption, Instances DEF Calls, Thread
      <4>3. file'[k] \in Lines(file')
        BY DEF Lines
      <4>4. file'[k] \in Lines(file)
        BY <2>1, <2>8, <2>11, <3>4, <4>1, <4>2, <4>3
      <4>5. PICK j \in 1 .. Len(file) : file[j] = file'[k]
        BY <4>4 DEF Lines
      <4> QED
        BY <3>4, <4>1, <4>5 DEF Recording
    <3>5. rec.on /\ rec.open => due \subseteq Lines(file')
      BY <2>12 DEF Recording
    <3>6. rec.on => rec.no > 0
      BY DEF Recording
    <3> QED
      BY <2>6, <2>12, <3>1, <3>3, <3>4, <3>5, <3>6 DEF Recording
  <2> QED
    BY <2>1, <2>5, <2>13, <2>14, <2>15, <2>16, MessageFrames
<1> QED
  BY <1>1, <1>2

(* broadcastWs locks wsMutex; from now on its connections stay.             *)
LEMMA BroadcastLockOK ==
  ASSUME Inv, NEW th \in Thread, BroadcastLock(th)
  PROVE  Inv'
<1>1. CASE Crash
  BY <1>1, CrashOK DEF BroadcastLock
<1>2. CASE ~ Crash
  <2> USE DEF Inv
  <2> DEFINE c == [callback[th] EXCEPT !.pc = "send", !.todo = wsConnections]
  <2>1. /\ wsMutex = Free /\ wsMutex' = th /\ callback[th].pc = "lock"
        /\ callback' = [callback EXCEPT ![th].pc = "send", ![th].todo = wsConnections]
        /\ UNCHANGED <<file, due, OtherThanMessage>>
    BY <1>2 DEF BroadcastLock, CallStep
  <2>2. callback[th] \in CallState /\ wsConnections \subseteq Worker
    BY DEF AppTypes
  <2>3. /\ c \in CallState /\ c.pc = "send" /\ c.inst = callback[th].inst /\ c.msg = callback[th].msg
        /\ c.recNo = callback[th].recNo /\ c.todo = wsConnections
    BY <2>2 DEF CallState
  <2>4. callback' = [callback EXCEPT ![th] = c]
    BY <2>1, <2>2 DEF AppTypes, CallState
  <2> HIDE DEF c
  <2>5. /\ callback' \in [Thread -> CallState] /\ callback'[th] = c
        /\ (\A v \in Thread : v # th => callback'[v] = callback[v]) /\ Calls'
    BY <2>1, <2>3, <2>4, CallMoves
  <2>6. UNCHANGED <<sent, last, since, worker, wsConnections, rec, main, file, due>>
    BY <2>1, MessageFrames
  <2>7. AppTypes'
    BY <2>5, <2>6 DEF AppTypes
  <2>8. WsLock'
    BY <2>1, <2>3, <2>5, OmniscopeAssumption DEF WsLock
  <2>9. SendsToLiveConnections'
    BY <2>3, <2>5, <2>6 DEF SendsToLiveConnections
  <2>10. Recording'
    <3>1. \A v \in Thread : LineOf(v)' = LineOf(v)
      BY <2>3, <2>5 DEF LineOf
    <3> QED
      BY <2>1, <2>3, <2>5, <2>6, <3>1 DEF Recording
  <2> QED
    BY <2>1, <2>5, <2>7, <2>8, <2>9, <2>10, MessageFrames
<1> QED
  BY <1>1, <1>2

(* send_text to one of the connections that are left.                       *)
LEMMA SendTextOK ==
  ASSUME Inv, NEW th \in Thread, SendText(th)
  PROVE  Inv'
<1>1. CASE Crash
  BY <1>1, CrashOK DEF SendText
<1>2. CASE ~ Crash
  <2> USE DEF Inv
  <2>1. PICK w \in callback[th].todo : callback' = [callback EXCEPT ![th].todo = @ \ {w}]
    BY <1>2 DEF SendText
  <2>2. UNCHANGED <<file, due, wsMutex, OtherThanMessage>> /\ callback[th].pc = "send"
    BY <1>2 DEF SendText, CallStep
  <2> DEFINE c == [callback[th] EXCEPT !.todo = @ \ {w}]
  <2>3. callback[th] \in CallState
    BY DEF AppTypes
  <2>4. /\ c \in CallState /\ c.pc = "send" /\ c.inst = callback[th].inst /\ c.msg = callback[th].msg
        /\ c.recNo = callback[th].recNo /\ c.todo \subseteq callback[th].todo
    BY <2>2, <2>3 DEF CallState
  <2>5. callback' = [callback EXCEPT ![th] = c]
    BY <2>1, <2>3 DEF AppTypes, CallState
  <2> HIDE DEF c
  <2>6. /\ callback' \in [Thread -> CallState] /\ callback'[th] = c
        /\ (\A v \in Thread : v # th => callback'[v] = callback[v]) /\ Calls'
    BY <2>2, <2>4, <2>5, CallMoves
  <2>7. UNCHANGED <<sent, last, since, worker, wsConnections, rec, main, file, due, wsMutex>>
    BY <2>2, MessageFrames
  <2>8. AppTypes'
    BY <2>6, <2>7 DEF AppTypes
  <2>9. WsLock'
    BY <2>2, <2>4, <2>6, <2>7 DEF WsLock
  <2>10. SendsToLiveConnections'
    BY <2>4, <2>6, <2>7 DEF SendsToLiveConnections
  <2>11. Recording'
    <3>1. \A v \in Thread : LineOf(v)' = LineOf(v)
      BY <2>4, <2>6 DEF LineOf
    <3> QED
      BY <2>2, <2>4, <2>6, <2>7, <3>1 DEF Recording
  <2> QED
    BY <2>2, <2>6, <2>8, <2>9, <2>10, <2>11, MessageFrames
<1> QED
  BY <1>1, <1>2

(* broadcastWs unlocks wsMutex, and onTransportMessage returns.             *)
LEMMA BroadcastUnlockOK ==
  ASSUME Inv, NEW th \in Thread, BroadcastUnlock(th)
  PROVE  Inv'
<1> USE DEF Inv
<1>1. /\ callback[th].pc = "send" /\ wsMutex' = Free /\ callback' = [callback EXCEPT ![th] = NoCall]
      /\ due' = IF callback[th].recNo = rec.no THEN due \cup {LineOf(th)} ELSE due
      /\ UNCHANGED <<file, OtherThanMessage>>
  BY DEF BroadcastUnlock, CallStep, LineOf
<1>2. UNCHANGED <<sent, last, since, worker, wsConnections, rec, main, poll, file>>
  BY <1>1, MessageFrames
<1>3. NoCall \in CallState /\ NoCall.pc = "none" /\ NoCall.todo = {} /\ NoCall.recNo = 0
  BY DEF NoCall, CallState
<1>4. /\ callback' \in [Thread -> CallState] /\ callback'[th] = NoCall
      /\ (\A v \in Thread : v # th => callback'[v] = callback[v])
  BY <1>1, <1>3 DEF AppTypes
<1>5. LineOf(th) \in Line
  BY <1>1, Instances DEF LineOf, Line, AppTypes, CallState, Calls, Thread
<1>6. AppTypes'
  BY <1>1, <1>2, <1>4, <1>5 DEF AppTypes
<1>7. WsLock'
  BY <1>1, <1>3, <1>4, OmniscopeAssumption DEF WsLock
<1>8. SendsToLiveConnections'
  BY <1>2, <1>3, <1>4 DEF SendsToLiveConnections
<1>9. Calls'
  <2>1. Receiver \in Thread /\ DdsTopic \subseteq Thread
    BY DEF Thread
  <2> QED
    BY <1>2, <1>3, <1>4, <2>1 DEF Calls
<1>10. Recording'
  <2>1. \A v \in Thread : v # th => LineOf(v)' = LineOf(v)
    BY <1>4 DEF LineOf
  <2>2. rec.on /\ rec.open => due' \subseteq Lines(file)
    BY <1>1 DEF Recording
  <2>3. 0 <= rec.no
    BY DEF AppTypes
  <2> QED
    BY <1>2, <1>3, <1>4, <2>1, <2>2, <2>3 DEF Recording
<1> QED
  BY <1>1, <1>6, <1>7, <1>8, <1>9, <1>10, MessageFrames
-----------------------------------------------------------------------------
(* The end of the server. *)

(* The main thread stops and joins the poll threads, one after the other.   *)
LEMMA DestroyDdsOK ==
  ASSUME Inv, DestroyDds
  PROVE  Inv'
<1> USE DEF Inv
<1>1. UNCHANGED <<zyreVars, sent, last, since, callback, worker, wsConnections, wsMutex, rec, file, due>>
      /\ main # "run"
  BY DEF DestroyDds, MainStep
<1>2. UNCHANGED <<zyreMutex, zyreActive, handlers, inbox, rx>>
  BY <1>1 DEF zyreVars
<1>3. UNCHANGED <<ddsMutex, ddsActive, reader, hasReader, taken>>
  BY DEF DestroyDds, DdsStop, DdsJoin, SubscriberStop, SubscriberJoin, ddsVars
<1>4. AppTypes'
  BY <1>1 DEF AppTypes
<1>5. TransportLocks'
  BY <1>1, <1>2, <1>3 DEF TransportLocks
<1>6. \A u \in DdsTopic : Inserting(u) => Inserting(u)'
  BY <1>1 DEF Inserting
<1>7. CASE UNCHANGED ddsVars
  BY <1>1, <1>2, <1>4, <1>5, <1>7, Frames DEF ddsVars
<1>8. CASE \E t \in ddsActive : DdsStop(t)
  <2>1. PICK t \in ddsActive : running' = [running EXCEPT ![t] = FALSE] /\ poll' = poll
    BY <1>8 DEF DdsStop, SubscriberStop
  <2>2. \A u \in DdsTopic : running'[u] => running[u]
    BY <2>1 DEF DdsTypes
  <2>3. DdsTypes'
    BY <1>3, <2>1 DEF DdsTypes
  <2>4. PollThreads'
    BY <1>1, <1>3, <1>6, <2>1, <2>2 DEF PollThreads
  <2> QED
    BY <1>1, <1>2, <1>3, <1>4, <1>5, <2>1, <2>3, <2>4, Frames
<1>9. CASE \E t \in ddsActive : DdsJoin(t)
  <2>1. PICK t \in ddsActive : poll[t].pc = "exited" /\ poll' = [poll EXCEPT ![t] = NoPoll] /\ running' = running
    BY <1>9 DEF DdsJoin, SubscriberJoin
  <2>2. t \in DdsTopic
    BY DEF DdsTypes
  <2>8. NoPoll \in PollState /\ NoPoll.pc = "none"
    BY DEF NoPoll, PollAt, PollState
  <2>3. poll'[t] = NoPoll /\ poll' \in [DdsTopic -> PollState]
        /\ \A u \in DdsTopic : u # t => poll'[u] = poll[u]
    BY <2>1, <2>2, <2>8 DEF DdsTypes
  <2>4. DdsTypes'
    BY <1>3, <2>1, <2>3 DEF DdsTypes
  <2>5. PollThreads'
    BY <1>1, <1>3, <1>6, <2>1, <2>3, <2>8 DEF PollThreads
  <2>6. callback[t].pc = "none"
    BY <2>1, <2>2 DEF Calls
  <2>7. Calls'
    BY <1>1, <2>3, <2>6 DEF Calls
  <2>9. DdsOrder'
    BY <1>1, <1>3 DEF DdsOrder
  <2> QED
    BY <1>1, <1>2, <1>3, <1>4, <1>5, <2>4, <2>5, <2>7, <2>9, Frames
<1> QED
  BY <1>7, <1>8, <1>9 DEF DestroyDds

(* The members of Impl go, and then the nodes of TransportZyre.             *)
LEMMA DestroyOthersOK ==
  ASSUME Inv, DestroyImpl \/ DestroyZyre
  PROVE  Inv'
<1> USE DEF Inv
<1>1. UNCHANGED <<ddsVars, sent, last, since, callback, worker, wsConnections, wsMutex, rec, file, due>>
  BY DEF DestroyImpl, DestroyZyre, MainStep
<1>2. UNCHANGED <<zyreMutex, zyreActive, handlers>>
  BY DEF DestroyImpl, DestroyZyre, DestroyPublisher, StopSubscriber, JoinSubscriber, zyreVars
<1>3. UNCHANGED <<ddsMutex, ddsActive, reader, hasReader, running, poll, taken>>
  BY <1>1 DEF ddsVars
<1>4. AppTypes'
  BY <1>1 DEF AppTypes
<1>5. \A w \in Worker : worker[w].pc = "idle"
  BY DEF DestroyImpl, DestroyZyre, MainStep, At, TransportLocks
<1>6. TransportLocks'
  BY <1>1, <1>2, <1>3, <1>5 DEF TransportLocks
<1>7. Stopped \in Node
  BY DEF Stopped, Node
<1>8. Stop \in Event
  BY DEF Event
<1>9. inbox \in Seq(Event) /\ last \in [Instance -> Nat] /\ sent \in [Instance -> Nat] /\ PendingShouts(inbox, last, sent)
  BY DEF ZyreTypes, AppTypes, ZyreOrder
<1>10. CASE UNCHANGED inbox
  <2>1. rx' \in [pc : {"none", "event", "lookup", "call", "exited"}, event : Event]
        /\ (rx'.pc \in {"lookup", "call"} => rx' = rx)
        /\ subNode' \in Node /\ pubNode' \in Node
    <3>1. CASE JoinSubscriber
      BY <3>1 DEF JoinSubscriber, ZyreTypes
    <3>2. CASE ~ JoinSubscriber
      BY <1>7, <3>2 DEF DestroyImpl, DestroyZyre, DestroyPublisher, StopSubscriber, zyreVars, ZyreTypes
    <3> QED
      BY <3>1, <3>2
  <2>2. ZyreTypes'
    BY <1>2, <1>10, <2>1 DEF ZyreTypes
  <2>3. ZyreOrder'
    BY <1>1, <1>10, <2>1 DEF ZyreOrder
  <2> QED
    BY <1>1, <1>2, <1>3, <1>4, <1>6, <2>2, <2>3, Frames
<1>11. CASE StopSubscriber
  <2>1. inbox' = Append(inbox, Stop) /\ subNode' = Stopped /\ UNCHANGED <<rx, pubNode>>
    BY <1>11 DEF StopSubscriber
  <2>2. /\ PendingShouts(inbox', last, sent)
        /\ \A e : CurrentShout(e, inbox, last, sent) => CurrentShout(e, inbox', last, sent)
    BY <1>9, <2>1, AddStop
  <2>3. inbox' \in Seq(Event)
    BY <1>8, <1>9, <2>1, AppendFacts
  <2>4. ZyreTypes'
    BY <1>2, <1>7, <2>1, <2>3 DEF ZyreTypes
  <2>5. ZyreOrder'
    BY <1>1, <2>1, <2>2 DEF ZyreOrder
  <2> QED
    BY <1>1, <1>2, <1>3, <1>4, <1>6, <2>4, <2>5, Frames
<1> QED
  BY <1>10, <1>11 DEF DestroyImpl, DestroyZyre, DestroyPublisher, JoinSubscriber, zyreVars
-----------------------------------------------------------------------------
(* The invariant holds at the start.                                        *)
LEMMA InitOK == Init => Inv
<1> SUFFICES ASSUME Init PROVE Inv
  OBVIOUS
<1> USE DEF Init, DdsInit, ZyreInit
<1>1. <<>> \in Seq(Nat) /\ <<>> \in Seq(Event) /\ <<>> \in Seq(Line) /\ Len(<<>>) = 0
  OBVIOUS
<1>2. \A k \in 1 .. Len(<<>>) : FALSE
  BY <1>1
<1>3. DdsTypes
  BY <1>1 DEF DdsTypes, NoPoll, PollAt, PollState
<1>4. ZyreTypes
  <2>1. Started \in Node /\ Stop \in Event
    BY DEF Started, Node, Event
  <2>2. rx \in [pc : {"none", "event", "lookup", "call", "exited"}, event : Event]
    BY <2>1 DEF ReceiverStarts
  <2> QED
    BY <1>1, <2>1, <2>2 DEF ZyreTypes
<1>5. \A th \in Thread : /\ callback[th] = NoCall /\ NoCall.pc = "none" /\ NoCall.todo = {} /\ NoCall.recNo = 0
                         /\ NoCall \in CallState
  BY DEF NoCall, CallState
<1>6. \A w \in Worker : worker[w] = Idle /\ Idle.pc = "idle" /\ Idle \in WorkerState
  BY DEF Idle, WorkerState
<1>7. AppTypes
  BY <1>1, <1>5, <1>6 DEF AppTypes
<1>8. WsLock
  BY <1>5, OmniscopeAssumption DEF WsLock
<1>9. SendsToLiveConnections
  BY <1>5 DEF SendsToLiveConnections
<1>10. TransportLocks
  BY <1>6, OmniscopeAssumption DEF TransportLocks
<1>11. PollThreads
  <2>1. \A t \in DdsTopic : Len(<<>>) <= Depth[t]
    BY <1>1, OmniscopeAssumption
  <2> QED
    BY <1>6, <2>1, Instances DEF PollThreads, NoPoll, PollAt
<1>12. Handlers
  BY <1>6 DEF Handlers
<1>13. Calls
  <2>1. Receiver \in Thread /\ DdsTopic \subseteq Thread
    BY DEF Thread
  <2>2. \A i \in Instance : last[i] <= sent[i] /\ since[i] <= sent[i]
    OBVIOUS
  <2> QED
    BY <1>5, <2>1, <2>2 DEF Calls
<1>14. DdsOrder
  BY NoSamples DEF DdsOrder
<1>15. ZyreOrder
  BY <1>2 DEF ZyreOrder, PendingShouts, ReceiverStarts
<1>16. Recording
  BY <1>2, <1>5 DEF Recording, InOrder
<1> QED
  BY <1>3, <1>4, <1>7, <1>8, <1>9, <1>10, <1>11, <1>12, <1>13, <1>14, <1>15, <1>16 DEF Inv

(* Every step keeps the invariant.                                          *)
LEMMA NextOK == Inv /\ [Next]_vars => Inv'
<1> SUFFICES ASSUME Inv, [Next]_vars PROVE Inv'
  OBVIOUS
<1>1. CASE UNCHANGED vars
  <2>1. UNCHANGED <<ddsVars, zyreVars, sent, last, since, callback, worker, wsConnections, wsMutex, rec, file, due, main>>
    BY <1>1 DEF vars, appVars
  <2>2. UNCHANGED <<poll, reader, taken, ddsMutex, zyreMutex, inbox, rx, zyreActive, handlers>>
    BY <2>1 DEF ddsVars, zyreVars
  <2>3. AppTypes'
    BY <2>1 DEF Inv, AppTypes
  <2> QED
    BY <2>1, <2>2, <2>3, Frames DEF Inv
<1>2. ASSUME NEW w \in Worker, WorkerStep(w) PROVE Inv'
  BY <1>2, ConnectionOK, SubscribeOK, InsertOK, UnsubscribeOK, JoinOK, ListTopicOK DEF WorkerStep
<1>3. ASSUME NEW w \in Worker, RecordStart(w) \/ RecordStop(w) PROVE Inv'
  BY <1>3, RecordCommandOK
<1>4. ASSUME NEW w \in Worker, ClientOpens(w) \/ ClientCloses(w) PROVE Inv'
  BY <1>4, CommandOK DEF ClientOpens, ClientCloses
<1>5. ASSUME NEW w \in Worker, NEW t \in Topic \cup {NoTopic}, ClientSubscribes(w, t) \/ ClientUnsubscribes(w, t)
      PROVE  Inv'
  BY <1>5, CommandOK DEF ClientSubscribes, ClientUnsubscribes
<1>6. ASSUME NEW i \in Instance, Publish(i) PROVE Inv'
  BY <1>6, PublishOK
<1>7. ASSUME NEW th \in Thread, ThreadStep(th) PROVE Inv'
  BY <1>7, PollOK, ReceiveOK, RecordOK, BroadcastLockOK, SendTextOK, BroadcastUnlockOK DEF ThreadStep
<1>8. ASSUME ReceiveInterrupted \/ DestroyImpl \/ DestroyDds \/ DestroyZyre PROVE Inv'
  BY <1>8, ReceiveOK, DestroyDdsOK, DestroyOthersOK
<1> QED
  BY <1>1, <1>2, <1>3, <1>4, <1>5, <1>6, <1>7, <1>8 DEF Next

(* The invariant holds in every reachable state.                            *)
THEOREM Invariance == Spec => []Inv
  BY InitOK, NextOK, PTL DEF Spec

(* The types, and who holds a mutex is at a place in the code that holds it. *)
THEOREM TypeCorrect == Spec => []TypeOK
<1>1. Inv => TypeOK
  <2> SUFFICES ASSUME Inv PROVE TypeOK
    OBVIOUS
  <2> USE DEF Inv
  <2>1. DdsTypeOK
    <3>1. \A t \in DdsTopic : poll[t].pc \in {"none", "loop", "take", "call", "exited"}
      BY DEF DdsTypes, PollState
    <3> QED
      BY <3>1 DEF DdsTypeOK, DdsTypes, PollThreads
  <2>2. ZyreTypeOK
    BY DEF ZyreTypeOK, ZyreTypes, Handlers
  <2>3. /\ sent \in [Instance -> Nat] /\ last \in [Instance -> Nat] /\ wsConnections \subseteq Worker
        /\ \A i \in Instance : last[i] <= sent[i]
    BY DEF AppTypes, Calls
  <2>4. \A th \in Thread : callback[th].pc \in {"none", "record", "lock", "send"}
    BY DEF AppTypes, CallState
  <2>5. \A w \in Worker : worker[w].pc \in {"idle", "open", "close", "subscribe", "insert", "unsubscribe",
                                            "join", "list"}
    BY DEF AppTypes, WorkerState
  <2>6. wsMutex = Free \/ (wsMutex \in Thread /\ callback[wsMutex].pc = "send")
    BY DEF WsLock
  <2>7. /\ ddsMutex = Free \/ (ddsMutex \in Worker /\ worker[ddsMutex].pc \in {"insert", "join"})
        /\ zyreMutex = Free \/ (zyreMutex \in Worker /\ worker[zyreMutex].pc = "insert")
    BY DEF TransportLocks
  <2> QED
    BY <2>1, <2>2, <2>3, <2>4, <2>5, <2>6, <2>7 DEF TypeOK
<1> QED
  BY <1>1, Invariance, PTL

(* broadcastWs sends only to connections that Crow has not yet deleted.     *)
THEOREM LiveConnections == Spec => []SendsToLiveConnections
<1>1. Inv => SendsToLiveConnections
  BY DEF Inv
<1> QED
  BY <1>1, Invariance, PTL

(* recordMessage: what was handled within a recording is in its file, and   *)
(* the file has the messages of each data instance in their order.          *)
THEOREM RecordingSafe == Spec => []RecordingComplete
<1>1. Inv => RecordingComplete
  <2> SUFFICES ASSUME Inv PROVE RecordingComplete
    OBVIOUS
  <2>1. DOMAIN file = 1 .. Len(file)
    BY DEF Inv, AppTypes
  <2> QED
    BY <2>1 DEF Inv, Recording, RecordingComplete, InOrder, Lines
<1> QED
  BY <1>1, Invariance, PTL

(* The receive thread enters the callback only with a message later than    *)
(* the last one of its topic.                                               *)
THEOREM ZyreOrdered == Spec => ZyreInOrder
<1> DEFINE Step == callback[Receiver] = NoCall /\ callback'[Receiver] # NoCall
                     => callback'[Receiver].msg > last[callback'[Receiver].inst]
<1>1. Inv /\ [Next]_vars => [Step]_vars
  <2> SUFFICES ASSUME Inv, Next, callback[Receiver] = NoCall, callback'[Receiver] # NoCall
               PROVE  callback'[Receiver].msg > last[callback'[Receiver].inst]
    BY DEF Step
  <2> USE DEF Inv
  <2>1. Receiver \in Thread /\ Receiver \notin DdsTopic /\ NoCall.pc = "none"
    BY OmniscopeAssumption DEF Thread, NoCall
  <2>2. callback'[Receiver] # callback[Receiver]
    OBVIOUS
  <2>4. ASSUME NEW th \in Thread, Record(th) \/ BroadcastLock(th) \/ SendText(th) \/ BroadcastUnlock(th)
        PROVE  FALSE
    <3>1. callback[th].pc # "none"
      BY <2>4 DEF Record, BroadcastLock, SendText, BroadcastUnlock, CallStep
    <3>2. th # Receiver
      BY <2>1, <3>1
    <3>3. callback'[Receiver] = callback[Receiver]
      BY <2>1, <2>4, <3>2 DEF Record, BroadcastLock, SendText, BroadcastUnlock, Crash, AppTypes
    <3> QED
      BY <2>2, <3>3
  <2>5. ASSUME NEW t \in DdsTopic, Poll(t) PROVE FALSE
    <3>1. callback'[Receiver] = callback[Receiver]
      BY <2>1, <2>5 DEF Poll, Invoke, AppTypes
    <3> QED
      BY <2>2, <3>1
  <2>6. UNCHANGED callback \/ Receive
    <3>1. ASSUME NEW w \in Worker, WorkerStep(w) PROVE UNCHANGED callback
      BY <3>1 DEF WorkerStep, OnOpen, OnClose, Subscribe, Insert, Unsubscribe, Join, ListTopic, OtherAppVars
    <3>2. ASSUME NEW w \in Worker, RecordStart(w) \/ RecordStop(w) \/ ClientOpens(w) \/ ClientCloses(w)
          PROVE  UNCHANGED callback
      BY <3>2 DEF RecordStart, RecordStop, RecordCommand, OtherThanRec, ClientOpens, ClientCloses, Command
    <3>3. ASSUME NEW w \in Worker, NEW t \in Topic \cup {NoTopic}, ClientSubscribes(w, t) \/ ClientUnsubscribes(w, t)
          PROVE  UNCHANGED callback
      BY <3>3 DEF ClientSubscribes, ClientUnsubscribes, Command
    <3>4. ASSUME NEW i \in Instance, Publish(i) PROVE UNCHANGED callback
      BY <3>4 DEF Publish
    <3>5. ASSUME NEW th \in Thread, ThreadStep(th) PROVE Receive
      BY <2>4, <2>5, <3>5 DEF ThreadStep
    <3>6. ASSUME ReceiveInterrupted \/ DestroyImpl \/ DestroyDds \/ DestroyZyre PROVE UNCHANGED callback
      BY <3>6 DEF ReceiveInterrupted, DestroyImpl, DestroyDds, DestroyZyre, MainStep
    <3> QED
      BY <3>1, <3>2, <3>3, <3>4, <3>5, <3>6 DEF Next
  <2>7. RxHandled /\ Invoke(Receiver, rx.event.topic, rx.event.msg)
    BY <2>2, <2>6 DEF Receive
  <2>8. CurrentShout(rx.event, inbox, last, sent)
    BY <2>7 DEF RxHandled, RxStep, ZyreOrder
  <2>9. callback'[Receiver].msg = rx.event.msg /\ callback'[Receiver].inst = rx.event.topic
    BY <2>1, <2>7 DEF Invoke, AppTypes
  <2>10. rx.event.msg \in Nat /\ rx.event.topic \in Instance /\ last[rx.event.topic] \in Nat
    BY <2>8, Instances DEF CurrentShout, Shouts, AppTypes
  <2> QED
    BY <2>8, <2>9, <2>10 DEF CurrentShout
<1> QED
  BY <1>1, Invariance, PTL DEF Spec, ZyreInOrder, Step
=============================================================================
