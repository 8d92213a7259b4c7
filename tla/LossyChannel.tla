---------------------------- MODULE LossyChannel ----------------------------
(***************************************************************************)
(* What the high-bandwidth channel promises: a handler is only ever called *)
(* with a message that was published, whole.  Messages may be lost,        *)
(* delivered more than once and delivered in any order.                    *)
(***************************************************************************)
CONSTANTS Msg,        \* messages
          Receiver    \* handlers

VARIABLES sent,       \* messages published so far
          received    \* pairs of a handler and a message it was called with

vars == <<sent, received>>

Init == sent = {} /\ received = {}

Publish(m) ==
    /\ m \notin sent
    /\ sent' = sent \cup {m}
    /\ UNCHANGED received

Deliver(r, m) ==
    /\ m \in sent
    /\ received' = received \cup {<<r, m>>}
    /\ UNCHANGED sent

Next ==
    \/ \E m \in Msg : Publish(m)
    \/ \E r \in Receiver, m \in Msg : Deliver(r, m)

Spec == Init /\ [][Next]_vars
=============================================================================
