----------------------- MODULE HighBandwidthSubscriber -----------------------
(***************************************************************************)
(* HighBandwidthSubscriber: the object's receive thread (receiveLoop, with *)
(* processFragment, cleanupStaleMessages and deliverMessage) and the       *)
(* application thread that owns the object (subscribe, start, stop, the    *)
(* destructor).                                                            *)
(*                                                                         *)
(* Time is kept as ages that Tick advances and that stop growing at        *)
(* AgeCap: firstFragmentTime and lastCleanup are only ever used in         *)
(* "now - t > limit", so ages beyond every limit need not be told apart.   *)
(*                                                                         *)
(* A step of the receive thread ends where it gives up a lock, blocks or   *)
(* runs the user's handler.  _reassemblyMutex is only ever taken by the    *)
(* receive thread, so it has no variable.                                  *)
(***************************************************************************)
EXTENDS Fragments

CONSTANTS Handler,            \* user callbacks
          NoHandler,
          NoMessage,
          ReassemblyTimeout,  \* _reassemblyTimeoutMs, in ticks
          CleanupPeriod,      \* the 500 ms of receiveLoop, in ticks
          PollTimeout,        \* the 100 ms of poll(), in ticks
          MaxSockets          \* bound: socket descriptors the process may hold

ASSUME SubscriberAssumption ==
    /\ ReassemblyTimeout \in Nat
    /\ CleanupPeriod \in Nat
    /\ PollTimeout \in Nat
    /\ MaxSockets \in Nat
    /\ NoHandler \notin Handler

VARIABLES
    handlers,       \* _handlers
    socket,         \* _socket, -1 or a descriptor
    openSockets,    \* descriptors the kernel holds open for this object
    running,        \* _running
    shouldStop,     \* _shouldStop
    partials,       \* _partialMessages; NoPartial where there is no entry
    thread,         \* _receiveThread: where receiveLoop is
    sinceCleanup,   \* now - lastCleanup
    inPoll,         \* how long the current poll() has been waiting
    pending,        \* the reassembled message on its way to a handler
    app,            \* where the owner of the object is
    delivered       \* history: what handlers were called with

subVars == <<handlers, socket, openSockets, running, shouldStop, partials,
             thread, sinceCleanup, inPoll, pending, app, delivered>>

MessageIds == 0 .. IdMod - 1

(* A message completed this long after its first fragment is late even     *)
(* when poll() and the cleanup period are as slow as they may be.          *)
LateAfter == ReassemblyTimeout + CleanupPeriod + PollTimeout + 1
AgeCap == LateAfter + 1

NoChunk == [msg |-> NoMessage, off |-> 0, len |-> 0]
NoPartial == [total |-> 0, topic |-> NoTopic, fragments |-> <<>>,
              received |-> {}, age |-> 0]

(* A well-formed entry: fragments is the vector, indexed from 0, received  *)
(* the set receivedFragments.                                              *)
IsPartial(pm) ==
    /\ pm.total \in 1 .. MaxFragments
    /\ pm.topic \in Topic \cup {NoTopic}
    /\ pm.fragments \in [0 .. pm.total - 1 -> Chunk \cup {NoChunk}]
    /\ pm.received \subseteq 0 .. pm.total - 1
    /\ pm.age \in 0 .. AgeCap

NoDelivery == [topic |-> NoTopic, payload |-> <<>>, handler |-> NoHandler, age |-> 0]

SubTypeOK ==
    /\ handlers \in [Topic -> Handler \cup {NoHandler}]
    /\ socket \in {-1} \cup 1 .. MaxSockets
    /\ openSockets \subseteq 1 .. MaxSockets
    /\ running \in BOOLEAN /\ shouldStop \in BOOLEAN
    /\ DOMAIN partials = MessageIds
    /\ \A i \in MessageIds : partials[i] = NoPartial \/ IsPartial(partials[i])
    /\ thread \in {"none", "check", "poll", "lookup", "call", "exited"}
    /\ sinceCleanup \in 0 .. AgeCap
    /\ inPoll \in 0 .. PollTimeout
    /\ app \in {"idle", "stopping", "destroying", "destroyed"}

SubInit ==
    /\ handlers = [t \in Topic |-> NoHandler]
    /\ socket = -1
    /\ openSockets = {}
    /\ running = FALSE
    /\ shouldStop = FALSE
    /\ partials = [i \in MessageIds |-> NoPartial]
    /\ thread = "none"
    /\ sinceCleanup = 0
    /\ inPoll = 0
    /\ pending = NoDelivery
    /\ app = "idle"
    /\ delivered = {}
-----------------------------------------------------------------------------
(* The owner of the object. *)

(* Overwrites an earlier handler; takes _handlersMutex, which is only held *)
(* for single steps of this model.                                         *)
Subscribe(t, h) ==
    /\ app # "destroyed"
    /\ handlers' = [handlers EXCEPT ![t] = h]
    /\ UNCHANGED <<datagrams, socket, openSockets, running, shouldStop, partials,
                   thread, sinceCleanup, inPoll, pending, app, delivered>>

(* start() when everything works.  The descriptor of an earlier start() is *)
(* overwritten.  start() on a running object returns at once.              *)
Start ==
    /\ app = "idle"
    /\ ~ running
    /\ \E fd \in (1 .. MaxSockets) \ openSockets :
          /\ socket' = fd
          /\ openSockets' = openSockets \cup {fd}
    /\ shouldStop' = FALSE
    /\ running' = TRUE
    /\ thread' = "check"
    /\ sinceCleanup' = 0
    /\ UNCHANGED <<datagrams, handlers, partials, inPoll, pending, app, delivered>>

(* start() when socket(), bind(), an address or the join fails: the new    *)
(* socket, if there is one, is closed again.                               *)
StartFails ==
    /\ app = "idle"
    /\ ~ running
    /\ socket' = -1
    /\ UNCHANGED <<datagrams, handlers, openSockets, running, shouldStop, partials,
                   thread, sinceCleanup, inPoll, pending, app, delivered>>

(* stop(), up to the join; the destructor begins with stop(). *)
StopBegin(next) ==
    /\ app = "idle"
    /\ running
    /\ shouldStop' = TRUE
    /\ running' = FALSE
    /\ app' = next
    /\ UNCHANGED <<datagrams, handlers, socket, openSockets, partials, thread,
                   sinceCleanup, inPoll, pending, delivered>>

(* Mutant: stop() does not wait for the receive thread. *)
StopEndNoJoin ==
    /\ app = "stopping"
    /\ app' = "idle"
    /\ UNCHANGED <<datagrams, handlers, socket, openSockets, running, shouldStop,
                   partials, thread, sinceCleanup, inPoll, pending, delivered>>

(* The join in stop() returns. *)
StopEnd ==
    /\ app = "stopping"
    /\ thread = "exited"
    /\ thread' = "none"
    /\ app' = "idle"
    /\ UNCHANGED <<datagrams, handlers, socket, openSockets, running, shouldStop,
                   partials, sinceCleanup, inPoll, pending, delivered>>

(* The rest of the destructor: after the join, or at once when the object  *)
(* is not running.                                                         *)
Destroy ==
    /\ \/ app = "destroying" /\ thread = "exited"
       \/ app = "idle" /\ ~ running
    /\ thread' = "none"
    /\ openSockets' = openSockets \ {socket}
    /\ app' = "destroyed"
    /\ UNCHANGED <<datagrams, handlers, socket, running, shouldStop, partials,
                   sinceCleanup, inPoll, pending, delivered>>
-----------------------------------------------------------------------------
(* The receive thread. *)

(* Mutant: the loop first waits for the reassembly buffer to be empty. *)
LoopCheckDrainFirst ==
    /\ thread = "check"
    /\ thread' = IF running \/ \E i \in MessageIds : partials[i] # NoPartial
                 THEN "poll" ELSE "exited"
    /\ inPoll' = 0
    /\ UNCHANGED <<datagrams, handlers, socket, openSockets, running, shouldStop,
                   partials, sinceCleanup, pending, app, delivered>>

(* The head of the loop in receiveLoop. *)
LoopCheck ==
    /\ thread = "check"
    /\ thread' = IF running /\ ~ shouldStop THEN "poll" ELSE "exited"
    /\ inPoll' = 0
    /\ UNCHANGED <<datagrams, handlers, socket, openSockets, running, shouldStop,
                   partials, sinceCleanup, pending, app, delivered>>

(* poll() or recv() fails, or the packet is shorter than a header. *)
ReceiveNothing ==
    /\ thread = "poll"
    /\ thread' = "check"
    /\ UNCHANGED <<datagrams, handlers, socket, openSockets, running, shouldStop,
                   partials, sinceCleanup, inPoll, pending, app, delivered>>

(* cleanupStaleMessages: drop every entry older than the timeout. *)
CleanupStaleMessages(pms) ==
    [i \in MessageIds |-> IF pms[i].age > ReassemblyTimeout THEN NoPartial ELSE pms[i]]

(* Mutant: lastCleanup = now outside the if. *)
PollTimesOutAlwaysResets ==
    /\ thread = "poll"
    /\ inPoll = PollTimeout
    /\ thread' = "check"
    /\ partials' = IF sinceCleanup > CleanupPeriod
                   THEN CleanupStaleMessages(partials) ELSE partials
    /\ sinceCleanup' = 0
    /\ UNCHANGED <<datagrams, handlers, socket, openSockets, running, shouldStop,
                   inPoll, pending, app, delivered>>

(* poll() times out; the only place where stale entries are cleaned up. *)
PollTimesOut ==
    /\ thread = "poll"
    /\ inPoll = PollTimeout
    /\ thread' = "check"
    /\ IF sinceCleanup > CleanupPeriod
       THEN partials' = CleanupStaleMessages(partials) /\ sinceCleanup' = 0
       ELSE UNCHANGED <<partials, sinceCleanup>>
    /\ UNCHANGED <<datagrams, handlers, socket, openSockets, running, shouldStop,
                   inPoll, pending, app, delivered>>

(* _partialMessages[messageId], initialised if its vector is empty. *)
GetOrCreate(pm, d) ==
    IF pm.fragments = <<>>
    THEN [total |-> d.totalFragments, topic |-> NoTopic,
          fragments |-> [k \in 0 .. d.totalFragments - 1 |-> NoChunk],
          received |-> {}, age |-> 0]
    ELSE pm

(* Store a fragment; fragment 0 brings the topic. *)
Insert(pm, d) ==
    [pm EXCEPT !.fragments = [@ EXCEPT ![d.fragmentNum] = d.data],
               !.topic = IF d.fragmentNum = 0 THEN d.topic ELSE @,
               !.received = @ \cup {d.fragmentNum}]

(* The early returns of processFragment that discard the whole entry. *)
Discards(pm, d) ==
    \/ pm.total # d.totalFragments
    \/ /\ d.fragmentNum \notin pm.received
       /\ d.fragmentNum = 0
       /\ d.topicLen > PayloadLen(d)

(* The entry for d's message once processFragment has looked at d. *)
Processed(d) ==
    LET pm == GetOrCreate(partials[d.messageId], d)
    IN  IF Discards(pm, d) THEN NoPartial
        ELSE IF d.fragmentNum \in pm.received THEN pm   \* a duplicate
        ELSE Insert(pm, d)

(* Mutant: receivedFragments.size() >= totalFrags - 1. *)
CompletesOneShort(d) ==
    LET pm == GetOrCreate(partials[d.messageId], d)
    IN  /\ ~ Discards(pm, d)
        /\ d.fragmentNum \notin pm.received
        /\ \E k \in 0 .. d.totalFragments - 1 :
              Insert(pm, d).received \cup {k} = 0 .. d.totalFragments - 1

(* receivedFragments.size() == totalFrags, only tested after an insertion. *)
Completes(d) ==
    LET pm == GetOrCreate(partials[d.messageId], d)
    IN  /\ ~ Discards(pm, d)
        /\ d.fragmentNum \notin pm.received
        /\ Insert(pm, d).received = 0 .. d.totalFragments - 1

(* A packet is received; processFragment up to the release of              *)
(* _reassemblyMutex.                                                       *)
ProcessFragment(d) ==
    /\ thread = "poll"
    /\ LET pm == Processed(d) IN
       IF Completes(d)
       THEN /\ partials' = [partials EXCEPT ![d.messageId] = NoPartial]
            /\ pending' = [topic |-> pm.topic, payload |-> pm.fragments,
                           handler |-> NoHandler, age |-> pm.age]
            /\ thread' = "lookup"
       ELSE /\ partials' = [partials EXCEPT ![d.messageId] = pm]
            /\ thread' = "check"
            /\ UNCHANGED pending
    /\ UNCHANGED <<datagrams, handlers, socket, openSockets, running, shouldStop,
                   sinceCleanup, inPoll, app, delivered>>

(* deliverMessage: look the topic up under _handlersMutex ... *)
LookUpHandler ==
    /\ thread = "lookup"
    /\ IF pending.topic \in Topic /\ handlers[pending.topic] # NoHandler
       THEN /\ pending' = [topic |-> pending.topic, payload |-> pending.payload,
                           handler |-> handlers[pending.topic], age |-> pending.age]
            /\ thread' = "call"
       ELSE /\ pending' = NoDelivery
            /\ thread' = "check"
    /\ UNCHANGED <<datagrams, handlers, socket, openSockets, running, shouldStop,
                   partials, sinceCleanup, inPoll, app, delivered>>

(* ... and call the copy of the handler without any lock. *)
CallHandler ==
    /\ thread = "call"
    /\ delivered' = delivered \cup
          {[handler |-> pending.handler, topic |-> pending.topic, payload |-> pending.payload]}
    /\ pending' = NoDelivery
    /\ thread' = "check"
    /\ UNCHANGED <<datagrams, handlers, socket, openSockets, running, shouldStop,
                   partials, sinceCleanup, inPoll, app>>

(* steady_clock moves on.  Threads may be slow: any number of ticks passes *)
(* between two of their steps.                                             *)
Older(age, cap) == IF age < cap THEN age + 1 ELSE cap

Tick ==
    /\ partials' = [i \in MessageIds |->
                      IF partials[i] = NoPartial THEN NoPartial
                      ELSE [partials[i] EXCEPT !.age = Older(@, AgeCap)]]
    /\ sinceCleanup' = Older(sinceCleanup, AgeCap)
    /\ inPoll' = IF thread = "poll" THEN Older(inPoll, PollTimeout) ELSE inPoll
    /\ UNCHANGED <<datagrams, handlers, socket, openSockets, running, shouldStop,
                   thread, pending, app, delivered>>

OwnerNext ==
    \/ \E t \in Topic, h \in Handler : Subscribe(t, h)
    \/ Start \/ StartFails
    \/ StopBegin("stopping") \/ StopBegin("destroying")
    \/ StopEnd \/ Destroy

ReceiveNext ==
    \/ LoopCheck \/ ReceiveNothing \/ PollTimesOut
    \/ \E d \in datagrams : ProcessFragment(d)
    \/ LookUpHandler \/ CallHandler

SubNext == OwnerNext \/ ReceiveNext \/ Tick

(* The receive thread is scheduled, and stop() returns once it has exited. *)
SubFairness ==
    /\ WF_<<datagrams, subVars>>(ReceiveNext)
    /\ WF_<<datagrams, subVars>>(StopEnd)
    /\ WF_<<datagrams, subVars>>(app = "destroying" /\ Destroy)
    /\ WF_<<datagrams, subVars>>(Tick)
=============================================================================
