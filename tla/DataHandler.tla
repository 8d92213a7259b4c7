----------------------------- MODULE DataHandler -----------------------------
(***************************************************************************)
(* CommonUtils::DataHandler<T>: a queue whose worker thread (processData)  *)
(* hands every datum to every registered listener.  Client threads call    *)
(* signalData, registerListener, unregisterListener and watermarkInfo; the *)
(* owner runs the destructor.                                              *)
(*                                                                         *)
(* Every member function reads the atomic _stopFlag first and takes its    *)
(* mutex afterwards: two steps.  The condition variable wait is three: the *)
(* predicate is tested with _cvMutex held, then the worker goes to sleep   *)
(* and releases it, then something wakes it.                               *)
(***************************************************************************)
EXTENDS Naturals, Sequences, FiniteSets

CONSTANTS Client,        \* threads that use the object
          NoOne,         \* no owner of a mutex
          MaxData,       \* bound: calls of signalData
          MaxListeners   \* bound: calls of registerListener

ASSUME DataHandlerAssumption ==
    /\ MaxData \in Nat /\ MaxListeners \in Nat
    /\ IsFiniteSet(Client)
    /\ NoOne \notin Client \cup {"worker"} /\ "worker" \notin Client

VARIABLES
    stopFlag,            \* _stopFlag
    dataQueue,           \* _dataQueue; the datum n is the n-th one pushed
    listeners,           \* keys of _listeners
    lastId,              \* _nextListenerId - 123: ids handed out so far
    cvMutex,             \* who holds _cvMutex
    listenersMutex,      \* who holds _listenersMutex
    worker,              \* where processData is
    datum,               \* its local variable data; 0 before the first one
    toCall,              \* listeners notifyListeners has not called yet
    client,              \* client[c]: where thread c is
    dtor,                \* where the destructor is
    signalled,           \* history: number of data pushed
    heard,               \* history: heard[l] is what listener l was called with
    unregistered         \* history: calls of unregisterListener that have returned

vars == <<stopFlag, dataQueue, listeners, lastId, cvMutex, listenersMutex, worker,
          datum, toCall, client, dtor, signalled, heard, unregistered>>

Listener == 1 .. MaxListeners
At(pc) == [pc |-> pc, id |-> 0]
Worker == "worker"

TypeOK ==
    /\ stopFlag \in BOOLEAN
    /\ dataQueue \in Seq(1 .. MaxData)
    /\ listeners \subseteq Listener
    /\ lastId \in 0 .. MaxListeners
    /\ cvMutex \in Client \cup {NoOne, Worker}
    /\ listenersMutex \in Client \cup {NoOne, Worker}
    /\ worker \in {"check", "lock", "test", "sleep", "asleep", "pop", "lockListeners",
                   "notify", "exited"}
    /\ datum \in 0 .. MaxData
    /\ toCall \subseteq Listener
    /\ client \in [Client -> [pc : {"idle", "signal", "push", "register", "unregister",
                                    "watermark", "readSizes"},
                              id : 0 .. MaxListeners]]
    /\ dtor \in {"none", "flagged", "joining", "clearing", "done"}
    /\ signalled \in 0 .. MaxData
    /\ heard \in [Listener -> Seq(1 .. MaxData)]
    /\ unregistered \subseteq [id : Listener, stopped : BOOLEAN]

Init ==
    /\ stopFlag = FALSE
    /\ dataQueue = <<>>
    /\ listeners = {}
    /\ lastId = 0
    /\ cvMutex = NoOne
    /\ listenersMutex = NoOne
    /\ worker = "check"
    /\ datum = 0
    /\ toCall = {}
    /\ client = [c \in Client |-> At("idle")]
    /\ dtor = "none"
    /\ signalled = 0
    /\ heard = [l \in Listener |-> <<>>]
    /\ unregistered = {}
-----------------------------------------------------------------------------
(* Client threads.  A call that finds _stopFlag set returns at once, which  *)
(* matters for unregisterListener only: the listener stays registered.      *)

Call(c, pc, id) ==
    /\ client[c].pc = "idle"
    /\ ~ stopFlag
    /\ client' = [client EXCEPT ![c] = [pc |-> pc, id |-> id]]
    /\ UNCHANGED <<stopFlag, dataQueue, listeners, lastId, cvMutex, listenersMutex,
                   worker, datum, toCall, dtor, signalled, heard, unregistered>>

(* The bounds count the calls that are under way. *)
Inside(pcs) == Cardinality({c \in Client : client[c].pc \in pcs})

CallSignalData(c) ==
    /\ signalled + Inside({"signal", "push"}) < MaxData
    /\ Call(c, "signal", 0)

CallRegisterListener(c) ==
    /\ lastId + Inside({"register"}) < MaxListeners
    /\ Call(c, "register", 0)

CallUnregisterListener(c, l) == Call(c, "unregister", l)
CallWatermarkInfo(c) == Call(c, "watermark", 0)

SignalLock(c) ==
    /\ client[c].pc = "signal"
    /\ cvMutex = NoOne
    /\ cvMutex' = c
    /\ client' = [client EXCEPT ![c] = At("push")]
    /\ UNCHANGED <<stopFlag, dataQueue, listeners, lastId, listenersMutex, worker,
                   datum, toCall, dtor, signalled, heard, unregistered>>

(* Waking a worker that waits; a notification without a waiter is lost. *)
Notify == worker' = IF worker = "asleep" THEN "lock" ELSE worker

(* Mutant: notify_one is left out. *)
SignalPushSilently(c) ==
    /\ client[c].pc = "push"
    /\ dataQueue' = Append(dataQueue, signalled + 1)
    /\ signalled' = signalled + 1
    /\ cvMutex' = NoOne
    /\ client' = [client EXCEPT ![c] = At("idle")]
    /\ UNCHANGED <<stopFlag, listeners, lastId, listenersMutex, worker, datum, toCall,
                   dtor, heard, unregistered>>

(* The push and notify_one, with _cvMutex held until the function returns. *)
SignalPush(c) ==
    /\ client[c].pc = "push"
    /\ dataQueue' = Append(dataQueue, signalled + 1)
    /\ signalled' = signalled + 1
    /\ Notify
    /\ cvMutex' = NoOne
    /\ client' = [client EXCEPT ![c] = At("idle")]
    /\ UNCHANGED <<stopFlag, listeners, lastId, listenersMutex, datum, toCall, dtor,
                   heard, unregistered>>

Register(c) ==
    /\ client[c].pc = "register"
    /\ listenersMutex = NoOne
    /\ lastId' = lastId + 1
    /\ listeners' = listeners \cup {lastId + 1}
    /\ client' = [client EXCEPT ![c] = At("idle")]
    /\ UNCHANGED <<stopFlag, dataQueue, cvMutex, listenersMutex, worker, datum, toCall,
                   dtor, signalled, heard, unregistered>>

(* An id that was handed out has been given to unregisterListener. *)
UnregisterReturns(l, stopped) ==
    unregistered' = unregistered \cup {[id |-> k, stopped |-> stopped] : k \in {l} \cap 1 .. lastId}

(* It returns at once when _stopFlag is set. *)
UnregisterStopped(c, l) ==
    /\ client[c].pc = "idle"
    /\ stopFlag /\ dtor # "done"
    /\ UnregisterReturns(l, TRUE)
    /\ UNCHANGED <<stopFlag, dataQueue, listeners, lastId, cvMutex, listenersMutex,
                   worker, datum, toCall, client, dtor, signalled, heard>>

Unregister(c) ==
    /\ client[c].pc = "unregister"
    /\ listenersMutex = NoOne
    /\ listeners' = listeners \ {client[c].id}
    /\ UnregisterReturns(client[c].id, FALSE)
    /\ client' = [client EXCEPT ![c] = At("idle")]
    /\ UNCHANGED <<stopFlag, dataQueue, lastId, cvMutex, listenersMutex, worker, datum,
                   toCall, dtor, signalled, heard>>

(* watermarkInfo reads both sizes while it holds _listenersMutex only. *)
WatermarkLock(c) ==
    /\ client[c].pc = "watermark"
    /\ listenersMutex = NoOne
    /\ listenersMutex' = c
    /\ client' = [client EXCEPT ![c] = At("readSizes")]
    /\ UNCHANGED <<stopFlag, dataQueue, listeners, lastId, cvMutex, worker, datum,
                   toCall, dtor, signalled, heard, unregistered>>

WatermarkReturn(c) ==
    /\ client[c].pc = "readSizes"
    /\ listenersMutex' = NoOne
    /\ client' = [client EXCEPT ![c] = At("idle")]
    /\ UNCHANGED <<stopFlag, dataQueue, listeners, lastId, cvMutex, worker, datum,
                   toCall, dtor, signalled, heard, unregistered>>
-----------------------------------------------------------------------------
(* The worker thread. *)

WorkerCheck ==
    /\ worker = "check"
    /\ worker' = IF stopFlag THEN "exited" ELSE "lock"
    /\ UNCHANGED <<stopFlag, dataQueue, listeners, lastId, cvMutex, listenersMutex,
                   datum, toCall, client, dtor, signalled, heard, unregistered>>

(* Take _cvMutex, on the way into wait() or after waking up inside it. *)
WorkerLock ==
    /\ worker = "lock"
    /\ cvMutex = NoOne
    /\ cvMutex' = Worker
    /\ worker' = "test"
    /\ UNCHANGED <<stopFlag, dataQueue, listeners, lastId, listenersMutex, datum,
                   toCall, client, dtor, signalled, heard, unregistered>>

(* Mutant: the predicate asks for data only. *)
WorkerTestData ==
    /\ worker = "test"
    /\ worker' = IF dataQueue # <<>> THEN "pop" ELSE "sleep"
    /\ UNCHANGED <<stopFlag, dataQueue, listeners, lastId, cvMutex, listenersMutex,
                   datum, toCall, client, dtor, signalled, heard, unregistered>>

(* The predicate of wait(). *)
WorkerTest ==
    /\ worker = "test"
    /\ worker' = IF dataQueue # <<>> \/ stopFlag THEN "pop" ELSE "sleep"
    /\ UNCHANGED <<stopFlag, dataQueue, listeners, lastId, cvMutex, listenersMutex,
                   datum, toCall, client, dtor, signalled, heard, unregistered>>

(* Release _cvMutex and block, atomically. *)
WorkerSleep ==
    /\ worker = "sleep"
    /\ cvMutex' = NoOne
    /\ worker' = "asleep"
    /\ UNCHANGED <<stopFlag, dataQueue, listeners, lastId, listenersMutex, datum,
                   toCall, client, dtor, signalled, heard, unregistered>>

(* wait() may also return by itself. *)
SpuriousWakeup ==
    /\ worker = "asleep"
    /\ worker' = "lock"
    /\ UNCHANGED <<stopFlag, dataQueue, listeners, lastId, cvMutex, listenersMutex,
                   datum, toCall, client, dtor, signalled, heard, unregistered>>

(* After wait(): leave when stopped and drained, else take the first datum. *)
WorkerPop ==
    /\ worker = "pop"
    /\ cvMutex' = NoOne
    /\ IF stopFlag /\ dataQueue = <<>>
       THEN worker' = "exited" /\ UNCHANGED <<dataQueue, datum>>
       ELSE /\ worker' = "lockListeners"
            /\ datum' = Head(dataQueue)
            /\ dataQueue' = Tail(dataQueue)
    /\ UNCHANGED <<stopFlag, listeners, lastId, listenersMutex, toCall, client, dtor,
                   signalled, heard, unregistered>>

(* Mutant: the listeners are copied and _listenersMutex is not kept. *)
NotifyBeginUnlocked ==
    /\ worker = "lockListeners"
    /\ listenersMutex = NoOne
    /\ toCall' = listeners
    /\ worker' = "notify"
    /\ UNCHANGED <<stopFlag, dataQueue, listeners, lastId, cvMutex, listenersMutex,
                   datum, client, dtor, signalled, heard, unregistered>>

(* notifyListeners holds _listenersMutex through the whole loop. *)
NotifyBegin ==
    /\ worker = "lockListeners"
    /\ listenersMutex = NoOne
    /\ listenersMutex' = Worker
    /\ toCall' = listeners
    /\ worker' = "notify"
    /\ UNCHANGED <<stopFlag, dataQueue, listeners, lastId, cvMutex, datum, client, dtor,
                   signalled, heard, unregistered>>

(* Mutant: an exception thrown by a listener ends the loop. *)
CallListenerStopsOnThrow ==
    /\ worker = "notify"
    /\ toCall # {}
    /\ LET l == CHOOSE x \in toCall : \A y \in toCall : x <= y
       IN  /\ heard' = [heard EXCEPT ![l] = Append(@, datum)]
           /\ toCall' \in {toCall \ {l}, {}}
    /\ UNCHANGED <<stopFlag, dataQueue, listeners, lastId, cvMutex, listenersMutex,
                   worker, datum, client, dtor, signalled, unregistered>>

(* One listener, in the order of the ids; whatever it throws is caught. *)
CallListener ==
    /\ worker = "notify"
    /\ toCall # {}
    /\ LET l == CHOOSE x \in toCall : \A y \in toCall : x <= y
       IN  /\ heard' = [heard EXCEPT ![l] = Append(@, datum)]
           /\ toCall' = toCall \ {l}
    /\ UNCHANGED <<stopFlag, dataQueue, listeners, lastId, cvMutex, listenersMutex,
                   worker, datum, client, dtor, signalled, unregistered>>

NotifyEnd ==
    /\ worker = "notify"
    /\ toCall = {}
    /\ listenersMutex' = NoOne
    /\ worker' = "check"
    /\ UNCHANGED <<stopFlag, dataQueue, listeners, lastId, cvMutex, datum, toCall,
                   client, dtor, signalled, heard, unregistered>>
-----------------------------------------------------------------------------
(* The destructor. *)

(* _stopFlag = true, without _cvMutex. *)
DestroyBegin ==
    /\ dtor = "none"
    /\ stopFlag' = TRUE
    /\ dtor' = "flagged"
    /\ UNCHANGED <<dataQueue, listeners, lastId, cvMutex, listenersMutex, worker, datum,
                   toCall, client, signalled, heard, unregistered>>

(* notify_all, without _cvMutex. *)
DestroyNotify ==
    /\ dtor = "flagged"
    /\ Notify
    /\ dtor' = "joining"
    /\ UNCHANGED <<stopFlag, dataQueue, listeners, lastId, cvMutex, listenersMutex,
                   datum, toCall, client, signalled, heard, unregistered>>

DestroyJoined ==
    /\ dtor = "joining"
    /\ worker = "exited"
    /\ dtor' = "clearing"
    /\ UNCHANGED <<stopFlag, dataQueue, listeners, lastId, cvMutex, listenersMutex,
                   worker, datum, toCall, client, signalled, heard, unregistered>>

(* Listeners and queue are emptied.  The object may only go away once no   *)
(* call is inside it any more.                                             *)
DestroyClear ==
    /\ dtor = "clearing"
    /\ \A c \in Client : client[c].pc = "idle"
    /\ listeners' = {}
    /\ dataQueue' = <<>>
    /\ dtor' = "done"
    /\ UNCHANGED <<stopFlag, lastId, cvMutex, listenersMutex, worker, datum, toCall,
                   client, signalled, heard, unregistered>>
-----------------------------------------------------------------------------
ClientNext(c) ==
    \/ CallSignalData(c) \/ SignalLock(c) \/ SignalPush(c)
    \/ CallRegisterListener(c) \/ Register(c)
    \/ (\E l \in Listener : CallUnregisterListener(c, l) \/ UnregisterStopped(c, l))
    \/ Unregister(c)
    \/ CallWatermarkInfo(c) \/ WatermarkLock(c) \/ WatermarkReturn(c)

WorkerNext ==
    \/ WorkerCheck \/ WorkerLock \/ WorkerTest \/ WorkerSleep \/ WorkerPop
    \/ NotifyBegin \/ CallListener \/ NotifyEnd

DestroyNext == DestroyBegin \/ DestroyNotify \/ DestroyJoined \/ DestroyClear

Next ==
    \/ \E c \in Client : ClientNext(c)
    \/ WorkerNext
    \/ SpuriousWakeup
    \/ DestroyNext

Spec == Init /\ [][Next]_vars

(* Every thread that can run does; a spurious wakeup is never promised,    *)
(* and nobody has to call anything.  A mutex is handed over fairly.        *)
Fairness ==
    /\ WF_vars(WorkerCheck \/ WorkerTest \/ WorkerSleep \/ WorkerPop \/ CallListener \/ NotifyEnd)
    /\ SF_vars(WorkerLock) /\ SF_vars(NotifyBegin)
    /\ WF_vars(DestroyNotify) /\ WF_vars(DestroyJoined)
    /\ \A c \in Client : WF_vars(SignalPush(c)) /\ WF_vars(WatermarkReturn(c))

FairSpec == Spec /\ Fairness
-----------------------------------------------------------------------------
(* A listener hears consecutive data in the order they were pushed: from   *)
(* its registration to its removal none is lost, repeated or overtaken.    *)
HeardInOrder ==
    \A l \in Listener : \A i \in 1 .. Len(heard[l]) - 1 : heard[l][i + 1] = heard[l][i] + 1

(* Once unregisterListener has returned, the listener is not called again: *)
(* it waits for a round of notifications that is under way.  The exception *)
(* is a call that came after the destructor had set _stopFlag: it returns  *)
(* at once, and the worker may still be calling the listener.              *)
NoCallAfterUnregister ==
    [][\A l \in Listener : heard'[l] # heard[l] =>
          \A u \in unregistered : u.id = l => u.stopped]_vars

(* A datum does not stay in the queue unless the object is destroyed: the  *)
(* worker cannot miss the notification of signalData.                      *)
QueueDrains == dataQueue # <<>> ~> (dataQueue = <<>> \/ stopFlag)

(* The destructor comes to its end if its notification did not fall        *)
(* between the worker's test of _stopFlag and its wait, where it is lost.  *)
DestroyReturns ==
    (dtor = "joining" /\ worker \notin {"sleep", "asleep"}) ~> dtor \in {"clearing", "done"}
=============================================================================
