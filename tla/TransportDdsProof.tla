-------------------------- MODULE TransportDdsProof -------------------------
(***************************************************************************)
(* TransportDds, as OmniscopeApp runs it, implements Transport: the        *)
(* invariant of OmniscopeProof, a simpler form of the refinement mapping,  *)
(* and for every step the step of Transport it is.                         *)
(***************************************************************************)
EXTENDS OmniscopeProof

(* The larger of two numbers.                                               *)
LEMMA MaxOfTwo ==
  ASSUME NEW a \in Nat, NEW b \in Nat
  PROVE  Max({a, b}) = IF a >= b THEN a ELSE b
<1> DEFINE m == IF a >= b THEN a ELSE b
<1>1. m \in {a, b} /\ \A y \in {a, b} : m >= y
  OBVIOUS
<1>2. \A x \in {a, b} : (\A y \in {a, b} : x >= y) => x = m
  OBVIOUS
<1> QED
  BY <1>1, <1>2 DEF Max

(* The mapped variables, said more simply.                                  *)
Active == {t \in DdsTopic : t \in ddsActive \/ Inserting(t)}
InCall == {t \in DdsTopic : callback[t].pc # "none"}
Latest(l, c) == [i \in DdsInstance |-> IF l[i] >= c[i] THEN l[i] ELSE c[i]]

(* A topic is in a call if and only if its own poll thread is.              *)
LEMMA CallsOfTopics ==
  ASSUME NEW cb, \A th \in Thread : cb[th].pc = "none" => cb[th] = NoCall,
         \A t \in DdsTopic : cb[t].pc # "none" => cb[t].inst \in Of(t),
         cb[Receiver].pc # "none" => cb[Receiver].inst \in ZyreTopic
  PROVE  {t \in DdsTopic : \E th \in Thread : cb[th] # NoCall /\ TopicOf(cb[th].inst) = t}
            = {t \in DdsTopic : cb[t].pc # "none"}
<1>1. NoCall.pc = "none"
  BY DEF NoCall
<1>2. ASSUME NEW t \in DdsTopic, NEW th \in Thread, cb[th] # NoCall, TopicOf(cb[th].inst) = t
      PROVE  cb[t].pc # "none"
  <2>1. cb[th].pc # "none"
    BY <1>2
  <2>2. CASE th = Receiver
    BY <1>2, <2>1, <2>2, Instances, OmniscopeAssumption
  <2>3. CASE th \in DdsTopic
    BY <1>2, <2>1, <2>3, Instances
  <2> QED
    BY <2>2, <2>3 DEF Thread
<1>3. ASSUME NEW t \in DdsTopic, cb[t].pc # "none"
      PROVE  \E th \in Thread : cb[th] # NoCall /\ TopicOf(cb[th].inst) = t
  BY <1>1, <1>3, Instances DEF Thread
<1> QED
  BY <1>2, <1>3

(* Done, without Max.                                                       *)
LEMMA LatestOfInstances ==
  ASSUME NEW l \in [Instance -> Nat], NEW c \in [Instance -> Nat]
  PROVE  [i \in DdsInstance |-> Max({l[i], c[i]})] = Latest(l, c)
<1>1. \A i \in DdsInstance : l[i] \in Nat /\ c[i] \in Nat
  BY Instances
<1>2. \A i \in DdsInstance : Max({l[i], c[i]}) = IF l[i] >= c[i] THEN l[i] ELSE c[i]
  BY <1>1, MaxOfTwo
<1> QED
  BY <1>2 DEF Latest

(* The mapped variables, before and after a step.                           *)
LEMMA Mapping ==
  ASSUME Inv, Inv'
  PROVE  /\ (Subscribed(ddsActive) \cap DdsTopic) = Active /\ (Subscribed(ddsActive) \cap DdsTopic)' = Active'
         /\ Calling(DdsTopic) = InCall /\ Calling(DdsTopic)' = InCall'
         /\ [i \in DdsInstance |-> Done(i)] = Latest(last, since)
         /\ [i \in DdsInstance |-> Done(i)]' = Latest(last', since')
<1>1. (Subscribed(ddsActive) \cap DdsTopic) = Active
  BY DEF Subscribed, Active, Inserting, At
<1>2. (Subscribed(ddsActive) \cap DdsTopic)' = Active'
  BY DEF Subscribed, Active, Inserting, At
<1>3. Calling(DdsTopic) = InCall
  BY CallsOfTopics DEF Calling, InCall, Inv, Calls
<1>4. Calling(DdsTopic)' = InCall'
  <2>1. /\ \A th \in Thread : callback'[th].pc = "none" => callback'[th] = NoCall
        /\ \A t \in DdsTopic : callback'[t].pc # "none" => callback'[t].inst \in Of(t)
        /\ callback'[Receiver].pc # "none" => callback'[Receiver].inst \in ZyreTopic
    BY DEF Inv, Calls
  <2> QED
    BY <2>1, CallsOfTopics DEF Calling, InCall
<1>5. [i \in DdsInstance |-> Done(i)] = Latest(last, since)
  BY LatestOfInstances DEF Inv, AppTypes, Done
<1>6. [i \in DdsInstance |-> Done(i)]' = Latest(last', since')
  <2>1. last' \in [Instance -> Nat] /\ since' \in [Instance -> Nat]
    BY DEF Inv, AppTypes
  <2> QED
    BY <2>1, LatestOfInstances DEF Done
<1> QED
  BY <1>1, <1>2, <1>3, <1>4, <1>5, <1>6

(* A step that changes none of the mapped variables.                        *)
LEMMA DdsStutter ==
  ASSUME Inv, Inv', Active' = Active, InCall' = InCall,
         \A i \in DdsInstance : sent'[i] = sent[i] /\ last'[i] = last[i] /\ since'[i] = since[i]
  PROVE  UNCHANGED Dds!vars
<1>1. Only(sent, DdsInstance)' = Only(sent, DdsInstance)
  BY DEF Only
<1>2. Latest(last', since') = Latest(last, since)
  BY DEF Latest
<1> QED
  BY <1>1, <1>2, Mapping DEF Dds!vars

(* A worker that moves outside of TransportDds.                             *)
LEMMA WorkerStutter ==
  ASSUME Inv, Inv', UNCHANGED <<ddsActive, callback, sent, last>>,
         \A t \in DdsTopic : Inserting(t)' = Inserting(t), \A i \in DdsInstance : since'[i] = since[i]
  PROVE  UNCHANGED Dds!vars
<1>1. Active' = Active
  BY DEF Active
<1>2. InCall' = InCall
  BY DEF InCall
<1> QED
  BY <1>1, <1>2, DdsStutter

(* Each step of a worker is a step of Transport, or a stutter.              *)
LEMMA WorkerStepMaps ==
  ASSUME Inv, Inv', NEW w \in Worker, WorkerStep(w)
  PROVE  [Dds!Next]_(Dds!vars)
<1> DEFINE t == worker[w].topic
<1>1. UNCHANGED <<sent, last, callback>>
  BY DEF WorkerStep, OnOpen, OnClose, Subscribe, Insert, Unsubscribe, Join, ListTopic, OtherAppVars
<1>2. worker \in [Worker -> WorkerState] /\ worker[w] \in WorkerState
  BY DEF Inv, AppTypes
<1>3. InCall' = InCall
  BY <1>1 DEF InCall
<1>4. Only(sent, DdsInstance)' = Only(sent, DdsInstance)
  BY <1>1 DEF Only
<1>5. ASSUME NEW r, worker' = [worker EXCEPT ![w] = r], worker[w].pc # "insert", r.pc # "insert",
             UNCHANGED <<ddsActive, since>>
      PROVE  UNCHANGED Dds!vars
  <2>1. \A v \in Worker : worker'[v] = IF v = w THEN r ELSE worker[v]
    BY <1>2, <1>5
  <2>2. \A u \in DdsTopic : Inserting(u)' = Inserting(u)
    BY <1>5, <2>1 DEF Inserting
  <2> QED
    BY <1>1, <1>5, <2>2, WorkerStutter
<1>6. ASSUME SendTopicList(w), worker[w].pc # "insert", UNCHANGED <<ddsActive, since>>
      PROVE  UNCHANGED Dds!vars
  <2> DEFINE r == [pc |-> "list", topic |-> NoTopic, todo |-> Topic]
  <2>1. worker' = [worker EXCEPT ![w] = r] /\ r.pc # "insert"
    BY <1>6 DEF SendTopicList
  <2> HIDE DEF r
  <2> QED
    BY <1>5, <1>6, <2>1
<1>7. CASE OnOpen(w)
  BY <1>6, <1>7 DEF OnOpen, At, ddsVars
<1>8. CASE OnClose(w)
  <2>1. Idle.pc # "insert"
    BY DEF Idle
  <2>2. worker' = [worker EXCEPT ![w] = Idle] /\ worker[w].pc = "close" /\ UNCHANGED <<ddsActive, since>>
    BY <1>8 DEF OnClose, At, ddsVars
  <2> QED
    BY <1>5, <2>1, <2>2
<1>9. CASE Subscribe(w)
  <2>1. worker[w].pc = "subscribe"
    BY <1>9 DEF Subscribe, At
  <2>2. CASE t \in DdsTopic /\ DdsSubscribe(w, t) /\ Goto(w, "insert") /\ since' = SinceNow(t)
    <3>1. t \notin ddsActive /\ ddsMutex = Free /\ ddsActive' = ddsActive
      BY <2>2 DEF DdsSubscribe
    <3>2. \A u \in DdsTopic : ~ Inserting(u)
      BY <3>1, DdsQuiet
    <3>3. /\ worker'[w].pc = "insert" /\ worker'[w].topic = t
          /\ \A v \in Worker \ {w} : worker'[v] = worker[v]
      BY <1>2, <2>2 DEF Goto, WorkerState
    <3>5. \A u \in DdsTopic : Inserting(u)' <=> u = t
      BY <3>2, <3>3 DEF Inserting
    <3>6. t \notin Active /\ Active' = Active \cup {t}
      BY <2>2, <3>1, <3>2, <3>5 DEF Active
    <3>7. \A i \in DdsInstance : last[i] \in Nat /\ since[i] \in Nat /\ sent[i] \in Nat /\ last[i] <= sent[i]
      BY Instances DEF Inv, AppTypes, Calls
    <3>8. /\ \A i \in Of(t) : since'[i] = sent[i]
          /\ \A i \in DdsInstance \ Of(t) : since'[i] = since[i]
      BY <2>2, SinceFacts
    <3>9. Latest(last', since') = [i \in DdsInstance |-> IF InstanceTopic[i] = t THEN Only(sent, DdsInstance)[i]
                                                         ELSE Latest(last, since)[i]]
      <4> DEFINE f == Latest(last, since)
                 g == Latest(last', since')
      <4>1. f = [i \in DdsInstance |-> IF last[i] >= since[i] THEN last[i] ELSE since[i]]
        BY DEF Latest
      <4>2. g = [i \in DdsInstance |-> IF last[i] >= since'[i] THEN last[i] ELSE since'[i]]
        BY <1>1 DEF Latest
      <4>3. ASSUME NEW i \in DdsInstance, InstanceTopic[i] = t
            PROVE  g[i] = Only(sent, DdsInstance)[i]
        <5>1. since'[i] = sent[i]
          BY <3>8, <4>3, Instances
        <5>2. g[i] = IF last[i] >= sent[i] THEN last[i] ELSE sent[i]
          BY <4>2, <5>1
        <5>3. last[i] \in Nat /\ sent[i] \in Nat /\ last[i] <= sent[i]
          BY <3>7
        <5>4. Only(sent, DdsInstance)[i] = sent[i]
          BY DEF Only
        <5> HIDE DEF g
        <5> QED
          BY <5>2, <5>3, <5>4
      <4>4. ASSUME NEW i \in DdsInstance, InstanceTopic[i] # t
            PROVE  g[i] = f[i]
        <5>1. since'[i] = since[i]
          BY <3>8, <4>4, Instances
        <5> QED
          BY <4>1, <4>2, <5>1
      <4> HIDE DEF f, g
      <4> QED
        BY <4>2, <4>3, <4>4 DEF f, g
    <3>10. Dds!Subscribe(t)
      BY <1>3, <1>4, <3>6, <3>9, Mapping DEF Dds!Subscribe
    <3> QED
      BY <2>2, <3>10 DEF Dds!Next
  <2>3. CASE t \in ZyreTopic /\ UNCHANGED ddsVars /\ Goto(w, "insert") /\ since' = SinceNow(t)
    <3>1. t \notin DdsTopic /\ ddsActive' = ddsActive
      BY <2>3, OmniscopeAssumption DEF ddsVars
    <3>2. /\ worker'[w].pc = "insert" /\ worker'[w].topic = t
          /\ \A v \in Worker \ {w} : worker'[v] = worker[v]
      BY <1>2, <2>3 DEF Goto, WorkerState
    <3>3. \A u \in DdsTopic : Inserting(u)' = Inserting(u)
      BY <2>1, <3>1, <3>2 DEF Inserting
    <3>4. \A i \in DdsInstance : since'[i] = since[i]
      BY <2>3, <3>1, SinceFacts, Instances
    <3> QED
      BY <1>1, <3>1, <3>3, <3>4, WorkerStutter
  <2>4. CASE SendTopicList(w) /\ UNCHANGED <<ddsVars, zyreVars, since>>
    BY <1>6, <2>1, <2>4 DEF ddsVars
  <2> QED
    BY <1>9, <2>2, <2>3, <2>4 DEF Subscribe, FindTransport, SinceNow
<1>10. CASE Insert(w)
  <2>1. worker[w].pc = "insert" /\ UNCHANGED since
    BY <1>10 DEF Insert, At
  <2>2. /\ worker'[w].pc = "list" /\ \A v \in Worker \ {w} : worker'[v] = worker[v]
    BY <1>10, ListBegins DEF Insert
  <2>3. CASE t \in DdsTopic /\ DdsInsert(w, t)
    <3>1. ddsActive' = ddsActive \cup {t}
      BY <2>3 DEF DdsInsert
    <3>2. \A u \in DdsTopic : u # t => Inserting(u)' = Inserting(u)
      BY <2>2 DEF Inserting
    <3>3. Inserting(t)
      BY <2>1 DEF Inserting
    <3>4. Active' = Active
      BY <3>1, <3>2, <3>3 DEF Active
    <3> QED
      BY <1>1, <1>3, <2>1, <3>4, DdsStutter
  <2>4. CASE t \in ZyreTopic /\ UNCHANGED ddsVars
    <3>1. t \notin DdsTopic /\ ddsActive' = ddsActive
      BY <2>4, OmniscopeAssumption DEF ddsVars
    <3>2. \A u \in DdsTopic : Inserting(u)' = Inserting(u)
      BY <2>2, <3>1 DEF Inserting
    <3> QED
      BY <1>1, <2>1, <3>1, <3>2, WorkerStutter
  <2> QED
    BY <1>10, <2>3, <2>4 DEF Insert, FindTransport
<1>11. CASE Unsubscribe(w)
  <2>1. worker[w].pc = "unsubscribe" /\ UNCHANGED since
    BY <1>11 DEF Unsubscribe, At
  <2>2. UNCHANGED ddsActive
    BY <1>11 DEF Unsubscribe, DdsUnsubscribe, ddsVars
  <2>3. CASE Goto(w, "join")
    <3>1. /\ worker'[w].pc = "join" /\ \A v \in Worker \ {w} : worker'[v] = worker[v]
      BY <1>2, <2>3 DEF Goto, WorkerState
    <3>2. \A u \in DdsTopic : Inserting(u)' = Inserting(u)
      BY <2>1, <3>1 DEF Inserting
    <3> QED
      BY <1>1, <2>1, <2>2, <3>2, WorkerStutter
  <2>4. CASE SendTopicList(w)
    BY <1>6, <2>1, <2>2, <2>4
  <2> QED
    BY <1>11, <2>3, <2>4 DEF Unsubscribe
<1>12. CASE Join(w)
  <2>1. /\ worker[w].pc = "join" /\ UNCHANGED since /\ ddsMutex = w /\ poll[t].pc = "exited"
        /\ ddsActive' = ddsActive \ {t}
    BY <1>12 DEF Join, At, DdsErase, SubscriberJoin
  <2>2. t \in DdsTopic
    BY <2>1 DEF Inv, TransportLocks
  <2>3. \A v \in Worker : v # w => worker[v].pc # "insert" \/ worker[v].topic \notin DdsTopic
    BY <2>1 DEF Inv, TransportLocks
  <2>4. /\ worker'[w].pc = "list" /\ \A v \in Worker \ {w} : worker'[v] = worker[v]
    BY <1>12, ListBegins DEF Join
  <2>5. \A u \in DdsTopic : ~ Inserting(u) /\ ~ Inserting(u)'
    BY <2>1, <2>3, <2>4 DEF Inserting
  <2>6. Active' = Active \ {t}
    BY <2>1, <2>5 DEF Active
  <2>7. t \notin InCall
    BY <2>1, <2>2 DEF InCall, Inv, Calls
  <2>8. Latest(last', since') = Latest(last, since)
    BY <1>1, <2>1
  <2>9. Dds!Unsubscribe(t)
    BY <1>3, <1>4, <2>6, <2>7, <2>8, Mapping DEF Dds!Unsubscribe
  <2> QED
    BY <2>2, <2>9 DEF Dds!Next
<1>13. CASE ListTopic(w)
  <2>1. PICK u \in worker[w].todo : NextTopic(w, u)
    BY <1>13 DEF ListTopic
  <2> DEFINE r == IF worker[w].todo = {u} THEN Idle ELSE [worker[w] EXCEPT !.todo = @ \ {u}]
  <2>2. worker[w].pc = "list" /\ UNCHANGED <<ddsActive, since>>
    BY <1>13 DEF ListTopic, At, ddsVars
  <2>3. r.pc # "insert"
    BY <1>2, <2>2 DEF Idle, WorkerState
  <2>4. worker' = [worker EXCEPT ![w] = r]
    BY <2>1 DEF NextTopic
  <2> HIDE DEF r
  <2> QED
    BY <1>5, <2>2, <2>3, <2>4
<1> QED
  BY <1>7, <1>8, <1>9, <1>10, <1>11, <1>12, <1>13 DEF WorkerStep

(* A message published on an instance of DDS is one of Transport.          *)
LEMMA PublishMaps ==
  ASSUME Inv, Inv', NEW i \in Instance, Publish(i)
  PROVE  [Dds!Next]_(Dds!vars)
<1>1. UNCHANGED <<last, since, callback, worker, ddsActive>>
  BY DEF Publish, DdsPublish, ddsVars
<1>2. Active' = Active /\ InCall' = InCall
  BY <1>1 DEF Active, InCall, Inserting
<1>3. sent \in [Instance -> Nat] /\ sent' = [sent EXCEPT ![i] = @ + 1]
  BY DEF Inv, AppTypes, Publish
<1>4. CASE i \in DdsInstance
  <2>1. Only(sent, DdsInstance)' = [Only(sent, DdsInstance) EXCEPT ![i] = @ + 1]
    BY <1>3, <1>4, Instances DEF Only
  <2>2. Latest(last', since') = Latest(last, since)
    BY <1>1
  <2>3. Dds!Publish(i)
    BY <1>2, <2>1, <2>2, Mapping DEF Dds!Publish
  <2> QED
    BY <1>4, <2>3 DEF Dds!Next
<1>5. CASE i \notin DdsInstance
  <2>1. \A u \in DdsInstance : sent'[u] = sent[u]
    BY <1>3, <1>5, Instances
  <2> QED
    BY <1>1, <1>2, <2>1, DdsStutter
<1> QED
  BY <1>4, <1>5

(* A poll thread enters the callback: a Call of Transport.                  *)
LEMMA PollMaps ==
  ASSUME Inv, Inv', NEW t \in DdsTopic, Poll(t)
  PROVE  [Dds!Next]_(Dds!vars)
<1>1. UNCHANGED <<sent, since, worker>> /\ callback[t] = NoCall /\ callback[t].pc = "none"
  BY DEF Poll, OtherThanCalls, NoCall
<1>2. UNCHANGED ddsActive
  BY DEF Poll, PollCheck, PollTake, PollSleep, PollNextSample, PollStep
<1>3. Active' = Active
  BY <1>1, <1>2 DEF Active, Inserting
<1>4. CASE UNCHANGED <<callback, last>>
  BY <1>1, <1>3, <1>4, DdsStutter DEF InCall
<1>5. ASSUME NEW i \in DdsInstance, PollNextSample(t, i), Invoke(t, i, Head(taken[i]))
      PROVE  [Dds!Next]_(Dds!vars)
  <2> DEFINE m == Head(taken[i])
  <2>1. taken[i] # <<>> /\ poll[t].pc = "call" /\ InstanceTopic[i] = t
    BY <1>5, Instances DEF PollNextSample, PollStep
  <2>2. /\ taken[i] \in Seq(Nat) /\ reader[i] \in Seq(Nat) /\ last[i] \in Nat /\ since[i] \in Nat
        /\ sent[i] \in Nat /\ PendingSamples(taken[i], reader[i], last[i], since[i], sent[i])
    BY Instances DEF Inv, DdsTypes, AppTypes, DdsOrder
  <2>3. m \in Nat /\ last[i] < m /\ since[i] < m /\ m <= sent[i]
    BY <2>1, <2>2, NextSample, TailFacts
  <2>4. last' = [last EXCEPT ![i] = m] /\ last \in [Instance -> Nat] /\ i \in Instance
    BY <1>5, Instances DEF Invoke, Inv, AppTypes
  <2>5. callback'[t].pc = "record" /\ \A v \in Thread : v # t => callback'[v] = callback[v]
    BY <1>5 DEF Invoke, Inv, AppTypes, Thread
  <2> HIDE DEF m
  <2>6. t \in Active /\ t \notin InCall
    BY <1>1, <2>1 DEF Active, InCall, Inv, PollThreads
  <2>7. InCall' = InCall \cup {t}
    BY <2>5 DEF InCall, Thread
  <2>8. Only(sent, DdsInstance)' = Only(sent, DdsInstance) /\ Only(sent, DdsInstance)[i] = sent[i]
    BY <1>1 DEF Only
  <2> DEFINE f == Latest(last, since)
             g == Latest(last', since')
  <2>9. f = [j \in DdsInstance |-> IF last[j] >= since[j] THEN last[j] ELSE since[j]]
    BY DEF Latest
  <2>10. g = [j \in DdsInstance |-> IF last'[j] >= since[j] THEN last'[j] ELSE since[j]]
    BY <1>1 DEF Latest
  <2>11. last'[i] = m /\ \A j \in DdsInstance : j # i => last'[j] = last[j]
    BY <2>4, Instances
  <2>12. g[i] = m
    <3>1. g[i] = IF m >= since[i] THEN m ELSE since[i]
      BY <2>10, <2>11
    <3> HIDE DEF g
    <3> QED
      BY <2>2, <2>3, <3>1
  <2>13. \A j \in DdsInstance : j # i => g[j] = f[j]
    BY <2>9, <2>10, <2>11
  <2>14. f[i] \in {last[i], since[i]}
    BY <2>9
  <2> HIDE DEF f, g
  <2>15. g = [f EXCEPT ![i] = m]
    BY <2>9, <2>10, <2>12, <2>13
  <2>16. m \in f[i] + 1 .. sent[i]
    BY <2>2, <2>3, <2>14
  <2>17. \E x \in f[i] + 1 .. sent[i] : g = [f EXCEPT ![i] = x]
    BY <2>15, <2>16
  <2>18. Dds!Call(i)
    BY <1>3, <2>1, <2>6, <2>7, <2>8, <2>17, Mapping DEF Dds!Call, f, g
  <2> QED
    BY <2>18 DEF Dds!Next
<1> QED
  BY <1>4, <1>5 DEF Poll

(* The receive thread does nothing that Transport of DDS sees.              *)
LEMMA ReceiveMaps ==
  ASSUME Inv, Inv', Receive \/ ReceiveInterrupted
  PROVE  UNCHANGED Dds!vars
<1>1. UNCHANGED <<sent, since, worker, ddsVars>>
  BY DEF Receive, ReceiveInterrupted, OtherThanCalls
<1>2. Active' = Active
  BY <1>1 DEF Active, Inserting, ddsVars
<1>3. CASE UNCHANGED <<callback, last>>
  BY <1>1, <1>2, <1>3, DdsStutter DEF InCall
<1>4. CASE RxHandled /\ Invoke(Receiver, rx.event.topic, rx.event.msg)
  <2>1. rx.event.topic \in ZyreTopic
    BY <1>4 DEF RxHandled, RxStep, Inv, ZyreOrder, CurrentShout, Shouts
  <2>2. \A u \in DdsTopic : u # Receiver /\ u \in Thread
    BY OmniscopeAssumption DEF Thread
  <2>3. \A u \in DdsTopic : callback'[u] = callback[u]
    BY <1>4, <2>2 DEF Invoke, Inv, AppTypes
  <2>5. \A i \in DdsInstance : last'[i] = last[i]
    BY <1>4, <2>1, Instances DEF Invoke, Inv, AppTypes
  <2>4. InCall' = InCall
    BY <2>3 DEF InCall
  <2> QED
    BY <1>1, <1>2, <2>4, <2>5, DdsStutter
<1> QED
  BY <1>3, <1>4 DEF Receive, ReceiveInterrupted

(* The last step of onTransportMessage is a Return of Transport, if a poll  *)
(* thread made the call; the others are stutters.                           *)
LEMMA MessageMaps ==
  ASSUME Inv, Inv', NEW th \in Thread,
         Record(th) \/ BroadcastLock(th) \/ SendText(th) \/ BroadcastUnlock(th)
  PROVE  [Dds!Next]_(Dds!vars)
<1>1. UNCHANGED <<sent, last, since, worker, ddsVars>>
  BY DEF Record, BroadcastLock, SendText, BroadcastUnlock, OtherThanMessage
<1>2. Active' = Active
  BY <1>1 DEF Active, Inserting, ddsVars
<1>3. callback \in [Thread -> CallState] /\ DdsTopic \subseteq Thread
  BY DEF Inv, AppTypes, Thread
<1>4. CASE Record(th) \/ BroadcastLock(th) \/ SendText(th)
  <2>1. callback[th].pc # "none"
    BY <1>4 DEF Record, BroadcastLock, SendText, CallStep
  <2>2. /\ callback'[th].pc # "none"
        /\ \A v \in Thread : v # th => callback'[v] = callback[v]
    <3>1. CASE Record(th)
      BY <1>3, <2>1, <3>1 DEF Record, Crash, CallState
    <3>2. CASE BroadcastLock(th)
      BY <1>3, <2>1, <3>2 DEF BroadcastLock, Crash, CallState
    <3>3. CASE SendText(th)
      BY <1>3, <2>1, <3>3 DEF SendText, Crash, CallState
    <3> QED
      BY <1>4, <3>1, <3>2, <3>3
  <2>3. InCall' = InCall
    BY <1>3, <2>1, <2>2 DEF InCall
  <2> QED
    BY <1>1, <1>2, <2>3, DdsStutter
<1>5. CASE BroadcastUnlock(th)
  <2>1. callback' = [callback EXCEPT ![th] = NoCall] /\ NoCall.pc = "none"
    BY <1>5 DEF BroadcastUnlock, NoCall
  <2>2. InCall' = InCall \ {th}
    BY <1>3, <2>1 DEF InCall
  <2>3. CASE th \in DdsTopic
    <3>1. Only(sent, DdsInstance)' = Only(sent, DdsInstance) /\ Latest(last', since') = Latest(last, since)
      BY <1>1 DEF Only
    <3>2. Dds!Return(th)
      BY <1>2, <2>2, <3>1, Mapping DEF Dds!Return
    <3> QED
      BY <2>3, <3>2 DEF Dds!Next
  <2>4. CASE th \notin DdsTopic
    <3>1. InCall' = InCall
      BY <2>2, <2>4 DEF InCall
    <3> QED
      BY <1>1, <1>2, <3>1, DdsStutter
  <2> QED
    BY <2>3, <2>4
<1> QED
  BY <1>4, <1>5

(* Commands that are only taken in, and the main thread, change nothing.    *)
LEMMA OthersStutter ==
  ASSUME Inv, Inv', UNCHANGED <<sent, last, since, callback, ddsActive>>,
         \A t \in DdsTopic : Inserting(t)' = Inserting(t)
  PROVE  UNCHANGED Dds!vars
  BY WorkerStutter

(* A command of a client, between the rounds of a worker, maps to no step. *)
LEMMA CommandMaps ==
  ASSUME Inv, Inv', NEW w \in Worker, NEW t \in Topic \cup {NoTopic},
         NEW pc \in {"open", "close", "subscribe", "unsubscribe"}, Command(w, pc, t)
  PROVE  UNCHANGED Dds!vars
<1>1. UNCHANGED <<sent, last, since, callback, ddsActive>> /\ worker[w].pc = "idle"
  BY DEF Command, ddsVars, At
<1>2. worker'[w].pc = pc /\ \A v \in Worker \ {w} : worker'[v] = worker[v]
  BY DEF Command, Inv, AppTypes
<1>3. \A u \in DdsTopic : Inserting(u)' = Inserting(u)
  BY <1>1, <1>2 DEF Inserting
<1> QED
  BY <1>1, <1>3, OthersStutter

(* Every step of OmniscopeApp is a step of Transport, or a stutter.         *)
LEMMA StepMaps ==
  Inv /\ Inv' /\ [Next]_vars => [Dds!Next]_(Dds!vars)
<1> SUFFICES ASSUME Inv, Inv', [Next]_vars PROVE [Dds!Next]_(Dds!vars)
  OBVIOUS
<1>1. ASSUME UNCHANGED <<sent, last, since, callback, worker, ddsActive>>
      PROVE  UNCHANGED Dds!vars
  BY <1>1, OthersStutter DEF Inserting
<1>2. CASE UNCHANGED vars
  BY <1>1, <1>2 DEF vars, appVars, ddsVars
<1>3. ASSUME NEW w \in Worker, WorkerStep(w) PROVE [Dds!Next]_(Dds!vars)
  BY <1>3, WorkerStepMaps
<1>4. ASSUME NEW w \in Worker, RecordStart(w) \/ RecordStop(w) PROVE [Dds!Next]_(Dds!vars)
  BY <1>1, <1>4 DEF RecordStart, RecordStop, RecordCommand, OtherThanRec, ddsVars
<1>5. ASSUME NEW w \in Worker, ClientOpens(w) \/ ClientCloses(w) PROVE [Dds!Next]_(Dds!vars)
  BY <1>5, CommandMaps DEF ClientOpens, ClientCloses
<1>6. ASSUME NEW w \in Worker, NEW t \in Topic \cup {NoTopic}, ClientSubscribes(w, t) \/ ClientUnsubscribes(w, t)
      PROVE  [Dds!Next]_(Dds!vars)
  BY <1>6, CommandMaps DEF ClientSubscribes, ClientUnsubscribes
<1>7. ASSUME NEW i \in Instance, Publish(i) PROVE [Dds!Next]_(Dds!vars)
  BY <1>7, PublishMaps
<1>8. ASSUME NEW th \in Thread, ThreadStep(th) PROVE [Dds!Next]_(Dds!vars)
  BY <1>8, PollMaps, ReceiveMaps, MessageMaps DEF ThreadStep
<1>9. CASE ReceiveInterrupted
  BY <1>9, ReceiveMaps
<1>10. CASE DestroyImpl \/ DestroyDds \/ DestroyZyre
  BY <1>1, <1>10 DEF DestroyImpl, DestroyDds, DestroyZyre, MainStep, DdsStop, DdsJoin, ddsVars
<1> QED
  BY <1>2, <1>3, <1>4, <1>5, <1>6, <1>7, <1>8, <1>9, <1>10 DEF Next

(* TransportDds keeps the promise of ITransport, for every set of topics    *)
(* and workers: it implements Transport.                                    *)
THEOREM DdsRefinesTransport == Spec => DdsImplementsTransport
<1>1. Init => Dds!Init
  <2> SUFFICES ASSUME Init PROVE Dds!Init
    OBVIOUS
  <2>1. Only(sent, DdsInstance) = [i \in DdsInstance |-> 0]
    BY Instances DEF Only, Init
  <2>2. (Subscribed(ddsActive) \cap DdsTopic) = {}
    BY DEF Subscribed, Init, DdsInit, At, Idle
  <2>3. Calling(DdsTopic) = {}
    BY DEF Calling, Init
  <2>4. last \in [Instance -> Nat] /\ since \in [Instance -> Nat]
        /\ \A i \in DdsInstance : last[i] = 0 /\ since[i] = 0
    BY Instances DEF Init
  <2>5. [i \in DdsInstance |-> Done(i)] = Latest(last, since)
    BY <2>4, LatestOfInstances DEF Done
  <2>6. Latest(last, since) = [i \in DdsInstance |-> 0]
    BY <2>4 DEF Latest
  <2> QED
    BY <2>1, <2>2, <2>3, <2>5, <2>6 DEF Dds!Init
<1> QED
  BY <1>1, StepMaps, Invariance, PTL DEF Spec, Dds!Spec, DdsImplementsTransport
=============================================================================
