---------------------------- MODULE OmniscopeApp ----------------------------
(***************************************************************************)
(* The Omniscope server: Crow's worker threads run the commands of the web *)
(* clients, the transports' threads run onTransportMessage, and the main   *)
(* thread destroys everything when the server ends.  Each worker serves    *)
(* one client here.  Playback is the module PlaybackEngine; what it        *)
(* publishes arrives like the messages of everybody else.                  *)
(*                                                                         *)
(* recMutex is never held from one step to the next, and so has no         *)
(* variable.  File names are left out: a recording is a new, empty file.   *)
(***************************************************************************)
EXTENDS TransportDds, TransportZyre, FiniteSetsExt, Functions

CONSTANTS
    Worker,              \* Crow's threads, and their clients' connections
    Receiver,            \* the receive thread of TransportZyre
    NoTopic,             \* a topic no transport knows
    MaxMessages,         \* bound on the messages published
    MaxCommands          \* bound on the commands of the clients

Topic == DdsTopic \cup ZyreTopic                 \* topicNames() of the transports
Instance == DdsInstance \cup ZyreTopic            \* a Zyre topic has no key
TopicOf(i) == IF i \in DdsInstance THEN InstanceTopic[i] ELSE i
FindTransport(t) == IF t \in DdsTopic THEN "DDS" ELSE IF t \in ZyreTopic THEN "Zyre" ELSE "none"
Thread == DdsTopic \cup {Receiver}

ASSUME OmniscopeAssumption ==
    /\ DdsTopic \cap ZyreTopic = {}
    /\ Receiver \notin DdsTopic /\ NoTopic \notin Topic /\ Free \notin Worker \cup Thread
    /\ Depth \in [DdsTopic -> Nat \ {0}]
    /\ InstanceTopic \in [DdsInstance -> DdsTopic]
    /\ DdsInstance \cap (Topic \cup {NoTopic}) = {}

VARIABLES
    sent,                \* sent[i]: messages published on instance i so far
    last,                \* history: last[i]: the latest message passed to a callback
    since,               \* history: since[i]: sent[i] when its topic was last subscribed
    callback,            \* callback[th]: the onTransportMessage call th is inside
    worker,              \* worker[w]: where w is in the command it runs
    wsConnections,       \* wsConnections
    wsMutex,             \* owner of wsMutex
    rec,                 \* recording, recFile.is_open(), and how many there were
    file,                \* the lines of recFile
    due,                 \* history: messages handled within this recording
    main,                \* how far the destruction of Impl has come
    crashed,             \* a destroyed member was used: the program is gone
    commands             \* commands so far

appVars == <<sent, last, since, callback, worker, wsConnections, wsMutex, rec, file, due, main,
             crashed, commands>>
vars == <<ddsVars, zyreVars, appVars>>

NoCall == [pc |-> "none", inst |-> NoTopic, msg |-> 0, recNo |-> 0, todo |-> {}]
Idle == [pc |-> "idle", topic |-> NoTopic, todo |-> {}]

(* The types; who holds a mutex is at a place in the code that holds it. *)
TypeOK ==
    /\ DdsTypeOK /\ ZyreTypeOK
    /\ sent \in [Instance -> Nat] /\ last \in [Instance -> Nat]
    /\ \A i \in Instance : last[i] <= sent[i]
    /\ \A th \in Thread : callback[th].pc \in {"none", "record", "lock", "send"}
    /\ \A w \in Worker : worker[w].pc \in {"idle", "open", "close", "subscribe", "insert",
                                           "unsubscribe", "join", "list"}
    /\ wsConnections \subseteq Worker
    /\ wsMutex = Free \/ (wsMutex \in Thread /\ callback[wsMutex].pc = "send")
    /\ ddsMutex = Free \/ (ddsMutex \in Worker /\ worker[ddsMutex].pc \in {"insert", "join"})
    /\ zyreMutex = Free \/ (zyreMutex \in Worker /\ worker[zyreMutex].pc = "insert")

Init ==
    /\ DdsInit /\ ZyreInit
    /\ sent = [i \in Instance |-> 0] /\ last = [i \in Instance |-> 0]
    /\ since = [i \in Instance |-> 0]
    /\ callback = [th \in Thread |-> NoCall]
    /\ worker = [w \in Worker |-> Idle]
    /\ wsConnections = {} /\ wsMutex = Free
    /\ rec = [on |-> FALSE, open |-> FALSE, no |-> 0]
    /\ file = <<>> /\ due = {}
    /\ main = "run" /\ crashed = FALSE /\ commands = 0
-----------------------------------------------------------------------------
(* The workers. *)

At(w, pc) == worker[w].pc = pc
Goto(w, pc) == worker' = [worker EXCEPT ![w].pc = pc]
SendTopicList(w) == worker' = [worker EXCEPT ![w] = [pc |-> "list", topic |-> NoTopic, todo |-> Topic]]
OtherAppVars == <<sent, last, callback, wsConnections, wsMutex, rec, file, due, main, crashed, commands>>

Command(w, pc, t) ==
    /\ main = "run" /\ At(w, "idle") /\ commands < MaxCommands
    /\ commands' = commands + 1
    /\ worker' = [worker EXCEPT ![w] = [pc |-> pc, topic |-> t, todo |-> {}]]
    /\ UNCHANGED <<ddsVars, zyreVars, sent, last, since, callback, wsConnections, wsMutex, rec, file, due,
                   main, crashed>>

(* The browser connects, leaves, or sends subscribe or unsubscribe. *)
ClientOpens(w) == w \notin wsConnections /\ Command(w, "open", NoTopic)
ClientCloses(w) == w \in wsConnections /\ Command(w, "close", NoTopic)
ClientSubscribes(w, t) == w \in wsConnections /\ Command(w, "subscribe", t)
ClientUnsubscribes(w, t) == w \in wsConnections /\ Command(w, "unsubscribe", t)

OnOpen(w) ==
    /\ At(w, "open")
    /\ wsMutex = Free
    /\ wsConnections' = wsConnections \cup {w}
    /\ SendTopicList(w)
    /\ UNCHANGED <<ddsVars, zyreVars, sent, last, since, callback, wsMutex, rec, file, due, main, crashed,
                   commands>>

(* Mutant: onclose does not wait for wsMutex. *)
OnCloseUnlocked(w) ==
    /\ At(w, "close")
    /\ wsConnections' = wsConnections \ {w}
    /\ worker' = [worker EXCEPT ![w] = Idle]
    /\ UNCHANGED <<ddsVars, zyreVars, sent, last, since, callback, wsMutex, rec, file, due, main, crashed,
                   commands>>

(* Crow deletes the connection when onclose returns. *)
OnClose(w) ==
    /\ At(w, "close")
    /\ wsMutex = Free
    /\ wsConnections' = wsConnections \ {w}
    /\ worker' = [worker EXCEPT ![w] = Idle]
    /\ UNCHANGED <<ddsVars, zyreVars, sent, last, since, callback, wsMutex, rec, file, due, main, crashed,
                   commands>>

(* findTransport, and subscribe() of the transport it finds. *)
Subscribe(w) ==
    LET t == worker[w].topic IN
    /\ At(w, "subscribe")
    /\ \/ /\ \/ FindTransport(t) = "DDS" /\ DdsSubscribe(w, t) /\ UNCHANGED zyreVars
             \/ FindTransport(t) = "Zyre" /\ ZyreSubscribe(w, t) /\ UNCHANGED ddsVars
          /\ Goto(w, "insert")
          /\ since' = [i \in Instance |-> IF TopicOf(i) = t THEN sent[i] ELSE since[i]]
       \/ /\ \/ FindTransport(t) = "none"
             \/ t \in ddsActive /\ ddsMutex = Free
             \/ t \in zyreActive /\ zyreMutex = Free
          /\ SendTopicList(w)
          /\ UNCHANGED <<ddsVars, zyreVars, since>>
    /\ UNCHANGED OtherAppVars

Insert(w) ==
    LET t == worker[w].topic IN
    /\ At(w, "insert")
    /\ \/ FindTransport(t) = "DDS" /\ DdsInsert(w, t) /\ UNCHANGED zyreVars
       \/ FindTransport(t) = "Zyre" /\ ZyreInsert(w, t) /\ UNCHANGED ddsVars
    /\ SendTopicList(w)
    /\ UNCHANGED <<since, OtherAppVars>>

Unsubscribe(w) ==
    LET t == worker[w].topic IN
    /\ At(w, "unsubscribe")
    /\ \/ FindTransport(t) = "DDS" /\ DdsUnsubscribe(w, t) /\ UNCHANGED zyreVars /\ Goto(w, "join")
       \/ FindTransport(t) = "Zyre" /\ ZyreUnsubscribe(w, t) /\ UNCHANGED ddsVars /\ SendTopicList(w)
       \/ /\ \/ FindTransport(t) = "none"
             \/ t \in DdsTopic \ ddsActive /\ ddsMutex = Free
             \/ t \in ZyreTopic \ zyreActive /\ zyreMutex = Free
          /\ SendTopicList(w)
          /\ UNCHANGED <<ddsVars, zyreVars>>
    /\ UNCHANGED <<since, OtherAppVars>>

Join(w) ==
    /\ At(w, "join")
    /\ DdsErase(w, worker[w].topic)
    /\ SendTopicList(w)
    /\ UNCHANGED <<zyreVars, since, OtherAppVars>>

TransportMutex(t) == IF FindTransport(t) = "DDS" THEN ddsMutex ELSE zyreMutex
NextTopic(w, t) ==
    worker' = [worker EXCEPT ![w] = IF worker[w].todo = {t} THEN Idle
                                    ELSE [worker[w] EXCEPT !.todo = @ \ {t}]]

(* Mutant: the list is made and sent with wsMutex held, against the         *)
(* deletion of the connection.                                              *)
ListTopicLocked(w) ==
    /\ At(w, "list")
    /\ \/ wsMutex = Free /\ wsMutex' = w /\ UNCHANGED worker
       \/ /\ wsMutex = w
          /\ \E t \in worker[w].todo :
               /\ TransportMutex(t) = Free /\ NextTopic(w, t)
               /\ wsMutex' = IF worker[w].todo = {t} THEN Free ELSE w
    /\ UNCHANGED <<ddsVars, zyreVars, sent, last, since, callback, wsConnections, rec, file, due,
                   main, crashed, commands>>

(* isSubscribed() of one topic after the other, each with its transport's  *)
(* mutex; with the last one the list goes to the client.                   *)
ListTopic(w) ==
    /\ At(w, "list")
    /\ \E t \in worker[w].todo : TransportMutex(t) = Free /\ NextTopic(w, t)
    /\ UNCHANGED <<ddsVars, zyreVars, since, OtherAppVars>>

OtherThanRec == <<ddsVars, zyreVars, sent, last, since, callback, worker, wsConnections, wsMutex, main, crashed>>

RecordCommand(w) ==
    /\ main = "run" /\ At(w, "idle") /\ w \in wsConnections /\ commands < MaxCommands
    /\ commands' = commands + 1
    /\ UNCHANGED OtherThanRec

(* A file that cannot be opened is not noticed. *)
OpenFile ==
    /\ \E ok \in BOOLEAN : rec' = [on |-> TRUE, open |-> ok, no |-> rec.no + 1]
    /\ file' = <<>> /\ due' = {}

(* Mutant: a second record_start opens the file again. *)
TruncateRecording ==
    IF rec.on THEN file' = <<>> /\ UNCHANGED <<rec, due>> ELSE OpenFile

StartRecording ==
    IF rec.on THEN UNCHANGED <<rec, file, due>> ELSE OpenFile

StopRecording ==
    /\ rec' = IF rec.on THEN [rec EXCEPT !.on = FALSE, !.open = FALSE] ELSE rec
    /\ UNCHANGED <<file, due>>

RecordStart(w) == RecordCommand(w) /\ StartRecording
RecordStop(w) == RecordCommand(w) /\ StopRecording
-----------------------------------------------------------------------------
(* A message is published: by another program, or by publishFromJson for   *)
(* the playback thread.                                                    *)
Publish(i) ==
    /\ main = "run" /\ SumFunction(sent) < MaxMessages
    /\ sent' = [sent EXCEPT ![i] = @ + 1]
    /\ \/ FindTransport(TopicOf(i)) = "DDS" /\ DdsPublish(i, sent[i] + 1) /\ UNCHANGED zyreVars
       \/ FindTransport(TopicOf(i)) = "Zyre" /\ ZyrePublish(i, sent[i] + 1) /\ UNCHANGED ddsVars
    /\ UNCHANGED <<last, since, callback, worker, wsConnections, wsMutex, rec, file, due, main, crashed,
                   commands>>

(* The entry of onTransportMessage. *)
Invoke(th, i, m) ==
    /\ callback' = [callback EXCEPT ![th] =
                      [pc |-> "record", inst |-> i, msg |-> m, todo |-> {},
                       recNo |-> IF rec.on /\ rec.open THEN rec.no ELSE 0]]
    /\ last' = [last EXCEPT ![i] = m]

OtherThanCalls == <<sent, since, worker, wsConnections, wsMutex, rec, file, due, main, crashed, commands>>

Poll(t) ==
    /\ callback[t] = NoCall
    /\ \/ (PollCheck(t) \/ PollTake(t) \/ PollSleep(t)) /\ UNCHANGED <<callback, last>>
       \/ \E i \in DdsInstance : PollNextSample(t, i) /\ UNCHANGED <<callback, last>>
       \/ \E i \in DdsInstance : PollNextSample(t, i) /\ Invoke(t, i, Head(taken[i]))
    /\ UNCHANGED <<zyreVars, OtherThanCalls>>

Receive ==
    /\ callback[Receiver] = NoCall
    /\ \/ (RxEvent \/ RxLookup) /\ UNCHANGED <<callback, last>>
       \/ RxHandled /\ UNCHANGED <<callback, last>>
       \/ RxHandled /\ Invoke(Receiver, rx.event.topic, rx.event.msg)
    /\ UNCHANGED <<ddsVars, OtherThanCalls>>

ReceiveInterrupted ==
    /\ callback[Receiver] = NoCall
    /\ RxInterrupted
    /\ UNCHANGED <<ddsVars, callback, last, OtherThanCalls>>

(* onTransportMessage.  Its members are gone once main has destroyed them. *)
CallStep(th, pc) == callback[th].pc = pc /\ ~ crashed
Alive == main = "run"
Crash == ~ Alive /\ crashed' = TRUE /\ UNCHANGED <<callback, file, due, wsMutex>>
OtherThanMessage ==
    <<ddsVars, zyreVars, sent, last, since, worker, wsConnections, rec, main, commands>>

Record(th) ==
    /\ CallStep(th, "record")
    /\ \/ Crash
       \/ /\ Alive
          /\ file' = IF rec.on /\ rec.open
                     THEN Append(file, [inst |-> callback[th].inst, msg |-> callback[th].msg])
                     ELSE file
          /\ callback' = [callback EXCEPT ![th].pc = "lock"]
          /\ UNCHANGED <<due, wsMutex, crashed>>
    /\ UNCHANGED OtherThanMessage

BroadcastLock(th) ==
    /\ CallStep(th, "lock")
    /\ \/ Crash
       \/ /\ Alive /\ wsMutex = Free
          /\ wsMutex' = th
          /\ callback' = [callback EXCEPT ![th].pc = "send", ![th].todo = wsConnections]
          /\ UNCHANGED <<file, due, crashed>>
    /\ UNCHANGED OtherThanMessage

SendText(th) ==
    /\ CallStep(th, "send")
    /\ \/ Crash
       \/ /\ Alive
          /\ \E c \in callback[th].todo : callback' = [callback EXCEPT ![th].todo = @ \ {c}]
          /\ UNCHANGED <<file, due, wsMutex, crashed>>
    /\ UNCHANGED OtherThanMessage

BroadcastUnlock(th) ==
    /\ CallStep(th, "send") /\ Alive
    /\ callback[th].todo = {}
    /\ wsMutex' = Free
    /\ due' = IF callback[th].recNo = rec.no
              THEN due \cup {[inst |-> callback[th].inst, msg |-> callback[th].msg]} ELSE due
    /\ callback' = [callback EXCEPT ![th] = NoCall]
    /\ UNCHANGED <<file, crashed, OtherThanMessage>>
-----------------------------------------------------------------------------
(* The main thread.  run() returns when Crow has ended its workers; the    *)
(* members of Impl are destroyed last to first, the transports at the end. *)

MainStep(from, to) ==
    /\ main = from /\ main' = to
    /\ UNCHANGED <<sent, last, since, callback, worker, wsConnections, wsMutex, rec, file, due, crashed,
                   commands>>

DestroyImpl ==
    /\ \A w \in Worker : At(w, "idle")
    /\ MainStep("run", "dds")
    /\ UNCHANGED <<ddsVars, zyreVars>>

DestroyDds ==
    /\ UNCHANGED zyreVars
    /\ \/ \E t \in ddsActive : DdsStop(t) /\ MainStep("dds", "ddsJoin")
       \/ \E t \in ddsActive : DdsJoin(t) /\ MainStep("ddsJoin", "dds")
       \/ /\ \A t \in DdsTopic : ~ running[t]
          /\ MainStep("dds", "zyre") /\ UNCHANGED ddsVars

DestroyZyre ==
    /\ UNCHANGED ddsVars
    /\ \/ DestroyPublisher /\ MainStep("zyre", "zyreSub")
       \/ StopSubscriber /\ MainStep("zyreSub", IF rx.pc = "none" THEN "done" ELSE "zyreJoin")
       \/ JoinSubscriber /\ MainStep("zyreJoin", "done")
-----------------------------------------------------------------------------
WorkerStep(w) ==
    OnOpen(w) \/ OnClose(w) \/ Subscribe(w) \/ Insert(w) \/ Unsubscribe(w) \/ Join(w) \/ ListTopic(w)

ThreadStep(th) ==
    \/ th \in DdsTopic /\ Poll(th)
    \/ th = Receiver /\ Receive
    \/ Record(th) \/ BroadcastLock(th) \/ SendText(th) \/ BroadcastUnlock(th)

Next ==
    \/ \E w \in Worker :
         \/ ClientOpens(w) \/ ClientCloses(w) \/ RecordStart(w) \/ RecordStop(w)
         \/ \E t \in Topic \cup {NoTopic} : ClientSubscribes(w, t) \/ ClientUnsubscribes(w, t)
         \/ WorkerStep(w)
    \/ \E i \in Instance : Publish(i)
    \/ \E th \in Thread : ThreadStep(th)
    \/ ReceiveInterrupted
    \/ DestroyImpl \/ DestroyDds \/ DestroyZyre

Spec == Init /\ [][Next]_vars

(* The scheduler runs every thread; clients, messages and the end of the   *)
(* server are up to the environment.                                       *)
FairSpec ==
    /\ Spec
    /\ \A w \in Worker : WF_vars(WorkerStep(w))
    /\ \A th \in Thread : WF_vars(ThreadStep(th))
    /\ WF_vars(DestroyDds \/ DestroyZyre)
-----------------------------------------------------------------------------
(* The topics of a transport that its user regards as subscribed: subscribe *)
(* has been called and unsubscribe has not returned.                        *)
Subscribed(active) ==
    active \cup {worker[w].topic : w \in {v \in Worker : At(v, "insert")}}

Calling(topics) ==
    {t \in topics : \E th \in Thread : callback[th] # NoCall /\ TopicOf(callback[th].inst) = t}
Only(f, instances) == [i \in instances |-> f[i]]
Done(i) == Max({last[i], since[i]})

Dds == INSTANCE Transport WITH
          Topic         <- DdsTopic,
          Instance      <- DdsInstance,
          InstanceTopic <- InstanceTopic,
          sent          <- Only(sent, DdsInstance),
          active        <- Subscribed(ddsActive) \cap DdsTopic,
          last          <- [i \in DdsInstance |-> Done(i)],
          inCall        <- Calling(DdsTopic)

Zyre == INSTANCE Transport WITH
          Topic         <- ZyreTopic,
          Instance      <- ZyreTopic,
          InstanceTopic <- [t \in ZyreTopic |-> t],
          sent          <- Only(sent, ZyreTopic),
          active        <- Subscribed(zyreActive) \cap ZyreTopic,
          last          <- [t \in ZyreTopic |-> Done(t)],
          inCall        <- Calling(ZyreTopic)

(* TransportDds keeps the promise of ITransport: when unsubscribe() has     *)
(* returned no callback runs or begins, a new subscription gets nothing     *)
(* published before it, and no sample comes twice or overtakes another one  *)
(* of its instance, though the cache drops samples and take() groups them.  *)
DdsImplementsTransport == Dds!Spec

(* TransportZyre keeps the promise of ITransport.                           *)
ZyreImplementsTransport == Zyre!Spec

(* Zyre messages still come in order, each at most once, however often the  *)
(* topic is subscribed again: there is one handler and one joined group.    *)
ZyreInOrder ==
    [][callback[Receiver] = NoCall /\ callback'[Receiver] # NoCall
          => callback'[Receiver].msg > last[callback'[Receiver].inst]]_vars

(* A message that was handled while one recording was on, from the entry of *)
(* onTransportMessage to its return, is in the file, once; and the file has *)
(* the messages of each data instance in their order.                       *)
RecordingComplete ==
    /\ rec.on /\ rec.open => due \subseteq {file[k] : k \in DOMAIN file}
    /\ \A j, k \in DOMAIN file :
         (j < k /\ file[j].inst = file[k].inst) => file[j].msg < file[k].msg

(* broadcastWs sends only to connections that Crow has not yet deleted:     *)
(* onclose waits for the broadcast to end.                                  *)
SendsToLiveConnections ==
    \A th \in Thread : callback[th].todo \subseteq wsConnections

(* Every command comes to its end: no cycle between wsMutex, the mutexes of *)
(* the transports and the join of a thread that is inside the callback.     *)
CommandReturns == \A w \in Worker : ~ At(w, "idle") ~> At(w, "idle")

(* The destruction comes to its end, with every thread of the transports    *)
(* joined, unless a destroyed member was used on the way.                   *)
ThreadsJoined == rx.pc = "none" /\ \A t \in DdsTopic : poll[t].pc = "none"
ShutdownEnds == main # "run" ~> ((main = "done" /\ ThreadsJoined) \/ crashed)

(* No thread uses a member of Impl after main has destroyed it.             *)
NoUseAfterDestruction == ~ crashed
=============================================================================
