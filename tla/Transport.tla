----------------------------- MODULE Transport ------------------------------
(***************************************************************************)
(* What ITransport promises its user.  The messages of a topic belong to   *)
(* data instances (the values of a DDS key; a Zyre topic is one instance). *)
(* Those of an instance that are published while its topic is subscribed   *)
(* reach the callback in their order and at most once (some may be lost);  *)
(* nothing is said about the order of two instances.  There is one call at *)
(* a time for a topic; and when unsubscribe() has returned none is under   *)
(* way and none begins.                                                    *)
(* Messages of an instance are counted; last[i] is the latest that may no  *)
(* longer be passed to the callback.                                       *)
(***************************************************************************)
EXTENDS Naturals

CONSTANTS
    Topic,
    Instance,            \* the data instances
    InstanceTopic        \* InstanceTopic[i]: the topic that i belongs to

VARIABLES
    sent,                \* sent[i]: messages published on i so far
    active,              \* topics that are subscribed
    last,                \* last[i]: passed on, or published before the subscription
    inCall               \* topics whose callback is running

vars == <<sent, active, last, inCall>>

Init ==
    /\ sent = [i \in Instance |-> 0]
    /\ active = {}
    /\ last = [i \in Instance |-> 0]
    /\ inCall = {}

Publish(i) ==
    /\ sent' = [sent EXCEPT ![i] = @ + 1]
    /\ UNCHANGED <<active, last, inCall>>

Subscribe(t) ==
    /\ t \notin active
    /\ active' = active \cup {t}
    /\ last' = [i \in Instance |-> IF InstanceTopic[i] = t THEN sent[i] ELSE last[i]]
    /\ UNCHANGED <<sent, inCall>>

Unsubscribe(t) ==
    /\ t \notin inCall
    /\ active' = active \ {t}
    /\ UNCHANGED <<sent, last, inCall>>

Call(i) ==
    /\ InstanceTopic[i] \in active \ inCall
    /\ \E m \in last[i] + 1 .. sent[i] : last' = [last EXCEPT ![i] = m]
    /\ inCall' = inCall \cup {InstanceTopic[i]}
    /\ UNCHANGED <<sent, active>>

Return(t) ==
    /\ inCall' = inCall \ {t}
    /\ UNCHANGED <<sent, active, last>>

Next ==
    \/ \E i \in Instance : Publish(i) \/ Call(i)
    \/ \E t \in Topic : Subscribe(t) \/ Unsubscribe(t) \/ Return(t)

Spec == Init /\ [][Next]_vars
=============================================================================
