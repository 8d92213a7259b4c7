---------------------------- MODULE TransportZyre ---------------------------
(***************************************************************************)
(* TransportZyre over one ZyreSubscriber and one ZyrePublisher, each a     *)
(* ZyreNode.  Zyre itself is external: a shout to a group the node has     *)
(* joined is put into its inbox, or lost; zyre_stop puts STOP there.       *)
(* A group is its topic: both nodes have the same name, the prefix that    *)
(* makes the group, and that the handler strips off again.                 *)
(***************************************************************************)
EXTENDS Naturals, Sequences, Mutex

CONSTANT ZyreTopic

VARIABLES
    zyreActive,          \* activeTopics
    zyreMutex,           \* owner of TransportZyre::Impl::mutex
    handlers,            \* topics with an entry in _handlers, whose group is joined
    inbox,               \* events the subscriber's node has for zyre_event_new
    rx,                  \* the receive thread, and the event it is working on
    subNode, pubNode     \* _isRunning and _stopRequested of the two nodes

zyreVars == <<zyreActive, zyreMutex, handlers, inbox, rx, subNode, pubNode>>

Stop == [type |-> "STOP"]
Shout(t, m) == [type |-> "SHOUT", topic |-> t, msg |-> m]
Node == [isRunning : BOOLEAN, stopRequested : BOOLEAN]
Started == [isRunning |-> TRUE, stopRequested |-> FALSE]

ZyreTypeOK ==
    /\ zyreActive \subseteq handlers /\ handlers \subseteq ZyreTopic
    /\ rx.pc \in {"none", "event", "lookup", "call", "exited"}
    /\ subNode \in Node /\ pubNode \in Node

(* The subscriber's constructor starts its node, and the receive thread if  *)
(* it could: start() sets _isRunning before zyre_start, which may fail.     *)
ReceiverStarts == {[pc |-> "event", event |-> Stop], [pc |-> "none", event |-> Stop]}

ZyreInit ==
    /\ zyreActive = {} /\ zyreMutex = Free
    /\ handlers = {} /\ inbox = <<>>
    /\ rx \in ReceiverStarts
    /\ subNode = Started /\ pubNode = Started
-----------------------------------------------------------------------------
(* ZyreSubscriber::subscribe(): the handler replaces one for the same topic, *)
(* and joining a group again changes nothing.                               *)
SubscribeGroup(t) == handlers' = handlers \cup {t}

(* subscribe(), up to the insertion into activeTopics. *)
ZyreSubscribe(w, t) ==
    /\ zyreMutex = Free
    /\ t \notin zyreActive
    /\ zyreMutex' = w
    /\ SubscribeGroup(t)
    /\ UNCHANGED <<zyreActive, inbox, rx, subNode, pubNode>>

ZyreInsert(w, t) ==
    /\ zyreMutex = w
    /\ zyreActive' = zyreActive \cup {t}
    /\ zyreMutex' = Free
    /\ UNCHANGED <<handlers, inbox, rx, subNode, pubNode>>

(* unsubscribe() leaves the handler and the group alone. *)
ZyreUnsubscribe(w, t) ==
    /\ zyreMutex = Free
    /\ t \in zyreActive
    /\ zyreActive' = zyreActive \ {t}
    /\ UNCHANGED <<zyreMutex, handlers, inbox, rx, subNode, pubNode>>

(* Mutant: one shout for the group, and one for every peer in it. *)
ShoutTwice(t, m) ==
    /\ pubNode.isRunning /\ t \in handlers
    /\ inbox' = inbox \o <<Shout(t, m), Shout(t, m)>>

(* ZyrePublisher::publish(): the shout reaches the subscriber's node if the *)
(* node has joined the group.                                               *)
PublishShout(t, m) ==
    /\ pubNode.isRunning /\ t \in handlers
    /\ inbox' = Append(inbox, Shout(t, m))

(* publishFromJson(): the JSON is bad, the shout fails or nobody is there   *)
(* to hear it, or it is heard.                                              *)
ZyrePublish(t, m) ==
    /\ PublishShout(t, m) \/ UNCHANGED inbox
    /\ UNCHANGED <<zyreActive, zyreMutex, handlers, rx, subNode, pubNode>>

(* ZyreNode::stop(), up to zyre_stop. *)
Stopped == [isRunning |-> FALSE, stopRequested |-> TRUE]

DestroyPublisher ==
    /\ pubNode.isRunning
    /\ pubNode' = Stopped
    /\ UNCHANGED <<zyreActive, zyreMutex, handlers, inbox, rx, subNode>>

(* Mutant: stop() does not call zyre_stop. *)
StopSubscriberSilently ==
    /\ ~ subNode.stopRequested
    /\ subNode' = Stopped
    /\ UNCHANGED <<zyreActive, zyreMutex, handlers, inbox, rx, pubNode>>

StopSubscriber ==
    /\ ~ subNode.stopRequested
    /\ subNode' = Stopped
    /\ inbox' = Append(inbox, Stop)
    /\ UNCHANGED <<zyreActive, zyreMutex, handlers, rx, pubNode>>

JoinSubscriber ==
    /\ subNode.stopRequested
    /\ rx.pc = "exited"
    /\ rx' = [rx EXCEPT !.pc = "none"]
    /\ UNCHANGED <<zyreActive, zyreMutex, handlers, inbox, subNode, pubNode>>
-----------------------------------------------------------------------------
(* receiveLoop.  It goes on when the callback it has made has returned.    *)
(* Events that are neither SHOUT nor STOP are only logged.                 *)

RxStep(from, next) ==
    /\ rx.pc = from
    /\ rx' = next
    /\ UNCHANGED <<zyreActive, zyreMutex, handlers, subNode, pubNode>>

RxEvent ==
    /\ inbox # <<>>
    /\ inbox' = Tail(inbox)
    /\ RxStep("event", IF Head(inbox) = Stop THEN [rx EXCEPT !.pc = "exited"]
                       ELSE [pc |-> "lookup", event |-> Head(inbox)])

(* zyre_event_new returns no event: the node is shutting down. *)
RxInterrupted ==
    /\ subNode.stopRequested
    /\ RxStep("event", [rx EXCEPT !.pc = "exited"])
    /\ UNCHANGED inbox

(* The handler is copied with _handlersMutex held, and called without. *)
RxLookup ==
    /\ RxStep("lookup", [rx EXCEPT !.pc = IF rx.event.topic \in handlers THEN "call" ELSE "event"])
    /\ UNCHANGED inbox

(* The data is converted to JSON and passed on, or cannot be converted. *)
RxHandled == RxStep("call", [rx EXCEPT !.pc = "event"]) /\ UNCHANGED inbox
=============================================================================
