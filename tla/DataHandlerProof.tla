--------------------------- MODULE DataHandlerProof ---------------------------
(***************************************************************************)
(* Proofs about DataHandler, for any number of client threads, data and    *)
(* listeners: the types, that listeners hear consecutive data in order,    *)
(* and that a listener is not called once unregisterListener has returned  *)
(* (unless it found the destructor at work and returned at once).          *)
(* No fact about _cvMutex is needed: it matters only for what is promised  *)
(* to happen, since there is one worker.                                   *)
(***************************************************************************)
EXTENDS DataHandler, FiniteSetTheorems, SequenceTheorems, WellFoundedInduction, TLAPS

(* The calls that are under way keep within the bounds. *)
BoundInv ==
    /\ signalled + Inside({"signal", "push"}) <= MaxData
    /\ lastId + Inside({"register"}) <= MaxListeners

(* _listenersMutex is held through a round of notifications, and the       *)
(* listeners that are still to be called are registered all the time.      *)
RoundInv ==
    /\ worker = "notify" => listenersMutex = Worker /\ toCall \subseteq listeners
    /\ \A c \in Client : client[c].pc = "readSizes" => listenersMutex = c
    /\ listeners \subseteq 1 .. lastId

(* The worker takes a datum only if there is one, notifies only of one it  *)
(* took, and the destructor waits for the worker.                          *)
WorkerInv ==
    /\ worker \in {"lockListeners", "notify"} => datum \in 1 .. MaxData
    /\ worker = "pop" => dataQueue # <<>> \/ stopFlag
    /\ dtor \in {"clearing", "done"} => worker = "exited"

(* The queue holds the data after the one the worker took last. *)
QueueInv ==
    dtor # "done" =>
        /\ datum + Len(dataQueue) = signalled
        /\ \A i \in 1 .. Len(dataQueue) : dataQueue[i] = datum + i

(* A listener that has heard anything has heard all data up to the last    *)
(* one, or to the one before if its turn is still to come.                 *)
Consecutive(s) == \A i \in 1 .. Len(s) - 1 : s[i + 1] = s[i] + 1
Due(l) == worker = "lockListeners" \/ (worker = "notify" /\ l \in toCall)
HeardInv ==
    \A l \in Listener :
        /\ Consecutive(heard[l])
        /\ l > lastId => heard[l] = <<>>
        /\ l \in listeners /\ heard[l] # <<>> =>
             heard[l][Len(heard[l])] = IF Due(l) THEN datum - 1 ELSE datum

(* A listener is erased when unregisterListener returns, unless the call   *)
(* found _stopFlag set; its id is never handed out again.                  *)
GoneInv ==
    \A u \in unregistered : u.id \in 1 .. lastId /\ (u.id \in listeners => u.stopped)

HandlerInv == TypeOK /\ BoundInv /\ RoundInv /\ WorkerInv /\ QueueInv /\ HeardInv /\ GoneInv
-----------------------------------------------------------------------------
(* A set of ids that is not empty has a least member. *)
LEMMA LeastExists ==
    ASSUME NEW S \in SUBSET Nat, S # {}
    PROVE  \E x \in S : \A y \in S : x <= y
  <1>1. PICK x \in S : \A y \in S : ~ (<<y, x>> \in OpToRel(<, Nat))
    BY NatLessThanWellFounded, WFMin
  <1>2. ASSUME NEW y \in S PROVE x <= y
    <2>1. ~ (<<y, x>> \in OpToRel(<, Nat))
      BY <1>1
    <2>2. ~ (y < x)
      BY <2>1 DEF OpToRel
    <2> QED
      BY <2>2
  <1> QED
    BY <1>2

(* Inside counts threads: a number. *)
LEMMA InsideType ==
    ASSUME NEW pcs
    PROVE  Inside(pcs) \in Nat
  <1>1. IsFiniteSet({c \in Client : client[c].pc \in pcs})
    BY DataHandlerAssumption, FS_Subset
  <1> QED
    BY <1>1, FS_CardinalityType DEF Inside

(* What the step of one client does to Inside. *)
LEMMA InsideStep ==
    ASSUME NEW pcs, NEW c \in Client, NEW r,
           client \in [Client -> [pc : {"idle", "signal", "push", "register", "unregister",
                                        "watermark", "readSizes"},
                                  id : 0 .. MaxListeners]],
           client' = [client EXCEPT ![c] = r]
    PROVE  Inside(pcs)' = Inside(pcs) - (IF client[c].pc \in pcs THEN 1 ELSE 0)
                                      + (IF r.pc \in pcs THEN 1 ELSE 0)
  <1> DEFINE S == {b \in Client : client[b].pc \in pcs}
             T == {b \in Client : client'[b].pc \in pcs}
  <1>1. IsFiniteSet(S) /\ IsFiniteSet(S \ {c})
    BY DataHandlerAssumption, FS_Subset
  <1>2. Cardinality(S) \in Nat /\ Cardinality(S \ {c}) \in Nat
    BY <1>1, FS_CardinalityType
  <1>3. Cardinality(S \ {c}) = Cardinality(S) - (IF client[c].pc \in pcs THEN 1 ELSE 0)
    <2>1. CASE client[c].pc \in pcs
      <3>1. c \in S
        BY <2>1
      <3> HIDE DEF S
      <3>2. Cardinality(S \ {c}) = Cardinality(S) - 1
        BY <1>1, <3>1, FS_RemoveElement
      <3> QED
        BY <2>1, <3>2
    <2>2. CASE client[c].pc \notin pcs
      <3>1. S \ {c} = S
        BY <2>2
      <3> HIDE DEF S
      <3> QED
        BY <1>2, <2>2, <3>1
    <2> QED
      BY <2>1, <2>2
  <1>4. client'[c] = r /\ \A b \in Client : b # c => client'[b] = client[b]
    OBVIOUS
  <1>5. Cardinality(T) = Cardinality(S \ {c}) + (IF r.pc \in pcs THEN 1 ELSE 0)
    <2>1. CASE r.pc \in pcs
      <3>1. T = (S \ {c}) \cup {c}
        BY <1>4, <2>1
      <3>2. c \notin S \ {c}
        OBVIOUS
      <3> HIDE DEF S, T
      <3>3. Cardinality((S \ {c}) \cup {c}) = Cardinality(S \ {c}) + 1
        BY <1>1, <3>2, FS_AddElement
      <3> QED
        BY <2>1, <3>1, <3>3
    <2>2. CASE r.pc \notin pcs
      <3>1. T = S \ {c}
        BY <1>4, <2>2
      <3> HIDE DEF S, T
      <3> QED
        BY <1>2, <2>2, <3>1
    <2> QED
      BY <2>1, <2>2
  <1>6. Inside(pcs) = Cardinality(S) /\ Inside(pcs)' = Cardinality(T)
    BY DEF Inside
  <1> QED
    BY <1>2, <1>3, <1>5, <1>6
-----------------------------------------------------------------------------
(* The types and the bounds. *)

LEMMA InitOK == Init => HandlerInv
  <1> SUFFICES ASSUME Init PROVE HandlerInv
    OBVIOUS
  <1>1. ASSUME NEW pcs, "idle" \notin pcs PROVE Inside(pcs) = 0
    <2>1. {c \in Client : client[c].pc \in pcs} = {}
      BY <1>1 DEF Init, At
    <2> QED
      BY <2>1, FS_EmptySet DEF Inside
  <1>2. Inside({"signal", "push"}) = 0 /\ Inside({"register"}) = 0
    BY <1>1
  <1>3. BoundInv
    BY <1>2, DataHandlerAssumption DEF Init, BoundInv
  <1>4. \A l \in Listener : heard[l] = <<>>
    BY DEF Init
  <1>5. TypeOK
    <2>1. heard \in [Listener -> Seq(1 .. MaxData)]
      BY DEF Init
    <2>2. client \in [Client -> [pc : {"idle", "signal", "push", "register", "unregister",
                                      "watermark", "readSizes"},
                                id : 0 .. MaxListeners]]
      BY DataHandlerAssumption DEF Init, At
    <2>3. 0 \in 0 .. MaxData /\ 0 \in 0 .. MaxListeners
      BY DataHandlerAssumption
    <2>4. /\ dataQueue \in Seq(1 .. MaxData) /\ listeners \subseteq Listener /\ toCall \subseteq Listener
          /\ unregistered \subseteq [id : Listener, stopped : BOOLEAN]
      BY DEF Init
    <2> QED
      BY <2>1, <2>2, <2>3, <2>4 DEF Init, TypeOK
  <1>6. RoundInv /\ WorkerInv /\ GoneInv
    BY DEF Init, RoundInv, WorkerInv, GoneInv, At
  <1>7. QueueInv /\ HeardInv
    BY <1>4 DEF Init, QueueInv, HeardInv, Consecutive
  <1> QED
    BY <1>3, <1>5, <1>6, <1>7 DEF HandlerInv

(* Every step of a client rewrites its own entry, and stays in bounds. *)
LEMMA ClientTypes ==
    ASSUME TypeOK, BoundInv, NEW c \in Client, ClientNext(c)
    PROVE  TypeOK' /\ BoundInv'
  <1>1. /\ MaxData \in Nat /\ MaxListeners \in Nat
        /\ signalled \in Nat /\ lastId \in Nat
        /\ Inside({"signal", "push"}) \in Nat /\ Inside({"register"}) \in Nat
    BY DataHandlerAssumption, InsideType DEF TypeOK
  <1>2. ASSUME NEW pc \in {"signal", "register", "unregister", "watermark"},
               NEW id \in 0 .. MaxListeners, Call(c, pc, id),
               pc = "signal" => signalled + Inside({"signal", "push"}) < MaxData,
               pc = "register" => lastId + Inside({"register"}) < MaxListeners
        PROVE  TypeOK' /\ BoundInv'
    <2> DEFINE r == [pc |-> pc, id |-> id]
    <2>1. client' = [client EXCEPT ![c] = r] /\ client[c].pc = "idle" /\ r.pc = pc
      BY <1>2 DEF Call
    <2>2. TypeOK'
      BY <1>2, <2>1 DEF Call, TypeOK
    <2> HIDE DEF r
    <2>3. ASSUME NEW pcs, "idle" \notin pcs
          PROVE  Inside(pcs)' = Inside(pcs) + (IF pc \in pcs THEN 1 ELSE 0)
      <3>1. Inside(pcs)' = Inside(pcs) - (IF client[c].pc \in pcs THEN 1 ELSE 0)
                                       + (IF r.pc \in pcs THEN 1 ELSE 0)
        BY <2>1, InsideStep DEF TypeOK
      <3> QED
        BY <2>1, <2>3, <3>1, InsideType
    <2>4. /\ Inside({"signal", "push"})' =
               Inside({"signal", "push"}) + (IF pc \in {"signal", "push"} THEN 1 ELSE 0)
          /\ Inside({"register"})' =
               Inside({"register"}) + (IF pc \in {"register"} THEN 1 ELSE 0)
      BY <2>3
    <2>5. signalled' = signalled /\ lastId' = lastId
      BY <1>2 DEF Call
    <2>6. BoundInv'
      BY <1>1, <1>2, <2>4, <2>5 DEF BoundInv
    <2> QED
      BY <2>2, <2>6
  <1>3. ASSUME NEW pc \in {"idle", "push", "readSizes"},
               client' = [client EXCEPT ![c] = At(pc)],
               signalled' = signalled + (IF client[c].pc = "push" THEN 1 ELSE 0),
               lastId' = lastId + (IF client[c].pc = "register" THEN 1 ELSE 0),
               pc = "push" <=> client[c].pc = "signal"
        PROVE  /\ BoundInv' /\ signalled' \in 0 .. MaxData /\ lastId' \in 0 .. MaxListeners
               /\ client' \in [Client -> [pc : {"idle", "signal", "push", "register", "unregister",
                                                "watermark", "readSizes"},
                                          id : 0 .. MaxListeners]]
    <2>1. client' \in [Client -> [pc : {"idle", "signal", "push", "register", "unregister",
                                        "watermark", "readSizes"},
                                  id : 0 .. MaxListeners]]
      BY <1>1, <1>3 DEF TypeOK, At
    <2>2. At(pc).pc = pc
      BY DEF At
    <2>3. /\ Inside({"signal", "push"})' =
               Inside({"signal", "push"}) - (IF client[c].pc \in {"signal", "push"} THEN 1 ELSE 0)
                                          + (IF pc \in {"signal", "push"} THEN 1 ELSE 0)
          /\ Inside({"register"})' =
               Inside({"register"}) - (IF client[c].pc \in {"register"} THEN 1 ELSE 0)
                                    + (IF pc \in {"register"} THEN 1 ELSE 0)
      BY <1>3, <2>2, InsideStep DEF TypeOK
    <2>4. Inside({"signal", "push"})' \in Nat /\ Inside({"register"})' \in Nat
      <3>1. ASSUME NEW pcs PROVE Inside(pcs)' \in Nat
        <4>1. IsFiniteSet({b \in Client : client'[b].pc \in pcs})
          BY DataHandlerAssumption, FS_Subset
        <4> QED
          BY <4>1, FS_CardinalityType DEF Inside
      <3> QED
        BY <3>1
    <2>5. /\ signalled' + Inside({"signal", "push"})' = signalled + Inside({"signal", "push"})
          /\ lastId' + Inside({"register"})' = lastId + Inside({"register"})
      BY <1>1, <1>3, <2>3
    <2>6. BoundInv'
      BY <2>5 DEF BoundInv
    <2>7. signalled' \in 0 .. MaxData /\ lastId' \in 0 .. MaxListeners
      BY <1>1, <1>3, <2>4, <2>5 DEF BoundInv
    <2> QED
      BY <2>1, <2>6, <2>7
  <1>4. CASE CallSignalData(c) \/ CallRegisterListener(c) \/ CallWatermarkInfo(c)
    BY <1>1, <1>2, <1>4 DEF CallSignalData, CallRegisterListener, CallWatermarkInfo
  <1>5. ASSUME NEW l \in Listener, CallUnregisterListener(c, l) PROVE TypeOK' /\ BoundInv'
    BY <1>1, <1>2, <1>5 DEF CallUnregisterListener, UnregisterStopped, Listener
  <1>6. CASE SignalLock(c)
    <2>1. client[c].pc = "signal" /\ client' = [client EXCEPT ![c] = At("push")]
          /\ signalled' = signalled + 0 /\ lastId' = lastId + 0
      BY <1>1, <1>6 DEF SignalLock
    <2> QED
      BY <1>3, <1>6, <2>1 DEF SignalLock, TypeOK
  <1>7. CASE SignalPush(c)
    <2>1. /\ client[c].pc = "push" /\ client' = [client EXCEPT ![c] = At("idle")]
          /\ signalled' = signalled + 1 /\ lastId' = lastId + 0
      BY <1>1, <1>7 DEF SignalPush
    <2>2. BoundInv' /\ signalled' \in 0 .. MaxData
      BY <1>3, <2>1
    <2>3. dataQueue' \in Seq(1 .. MaxData)
      BY <1>1, <1>7, <2>1, <2>2, AppendProperties DEF SignalPush, TypeOK
    <2> QED
      BY <1>3, <1>7, <2>1, <2>3 DEF SignalPush, Notify, TypeOK
  <1>8. CASE Register(c)
    <2>1. client[c].pc = "register" /\ client' = [client EXCEPT ![c] = At("idle")]
          /\ signalled' = signalled + 0 /\ lastId' = lastId + 1
      BY <1>1, <1>8 DEF Register
    <2>2. BoundInv' /\ lastId' \in 0 .. MaxListeners
      BY <1>3, <2>1
    <2>3. listeners' \subseteq Listener
      BY <1>1, <1>8, <2>1, <2>2 DEF Register, TypeOK, Listener
    <2> QED
      BY <1>3, <1>8, <2>1, <2>3 DEF Register, TypeOK
  <1>9. ASSUME NEW l \in 0 .. MaxListeners, NEW st \in BOOLEAN, UnregisterReturns(l, st)
        PROVE  unregistered' \subseteq [id : Listener, stopped : BOOLEAN]
    <2>1. {l} \cap 1 .. lastId \subseteq Listener
      BY <1>1, <1>9 DEF TypeOK, Listener
    <2> QED
      BY <1>9, <2>1 DEF UnregisterReturns, TypeOK
  <1>10. ASSUME NEW l \in Listener, UnregisterStopped(c, l) PROVE TypeOK' /\ BoundInv'
    <2>1. l \in 0 .. MaxListeners
      BY <1>1, <1>10 DEF Listener
    <2>2. unregistered' \subseteq [id : Listener, stopped : BOOLEAN]
      BY <1>9, <1>10, <2>1 DEF UnregisterStopped
    <2> QED
      BY <1>10, <2>2 DEF UnregisterStopped, TypeOK, BoundInv, Inside
  <1>11. CASE Unregister(c) \/ WatermarkReturn(c)
    <2>1. client[c].pc \in {"unregister", "readSizes"}
          /\ client' = [client EXCEPT ![c] = At("idle")]
          /\ signalled' = signalled + 0 /\ lastId' = lastId + 0
      <3>1. CASE Unregister(c)
        BY <1>1, <3>1 DEF Unregister
      <3>2. CASE WatermarkReturn(c)
        BY <1>1, <3>2 DEF WatermarkReturn
      <3> QED
        BY <1>11, <3>1, <3>2
    <2>2. unregistered' \subseteq [id : Listener, stopped : BOOLEAN]
      <3>1. client[c].id \in 0 .. MaxListeners
        BY DEF TypeOK
      <3> QED
        BY <1>9, <1>11, <3>1 DEF Unregister, WatermarkReturn, TypeOK
    <2> QED
      BY <1>3, <1>11, <2>1, <2>2 DEF Unregister, WatermarkReturn, TypeOK
  <1>12. CASE WatermarkLock(c)
    <2>1. client[c].pc = "watermark" /\ client' = [client EXCEPT ![c] = At("readSizes")]
          /\ signalled' = signalled + 0 /\ lastId' = lastId + 0
      BY <1>1, <1>12 DEF WatermarkLock
    <2> QED
      BY <1>3, <1>12, <2>1 DEF WatermarkLock, TypeOK
  <1> QED
    BY <1>4, <1>5, <1>6, <1>7, <1>8, <1>10, <1>11, <1>12 DEF ClientNext

(* The worker and the destructor leave the clients alone. *)
LEMMA BoundsStay ==
    ASSUME BoundInv, UNCHANGED <<client, signalled, lastId>>
    PROVE  BoundInv'
  BY DEF BoundInv, Inside

(* The steps of the worker keep the types: it pops only what is there. *)
LEMMA WorkerTypes ==
    ASSUME HandlerInv, WorkerNext \/ SpuriousWakeup
    PROVE  TypeOK'
  <1> USE DEF HandlerInv
  <1>1. CASE WorkerCheck \/ WorkerLock \/ WorkerTest \/ WorkerSleep \/ SpuriousWakeup
    BY <1>1 DEF WorkerCheck, WorkerLock, WorkerTest, WorkerSleep, SpuriousWakeup, TypeOK
  <1>2. CASE WorkerPop
    <2>1. CASE stopFlag /\ dataQueue = <<>>
      BY <1>2, <2>1 DEF WorkerPop, TypeOK
    <2>2. CASE ~ (stopFlag /\ dataQueue = <<>>)
      <3>1. dataQueue # <<>> /\ dataQueue \in Seq(1 .. MaxData)
        BY <1>2, <2>2 DEF WorkerPop, WorkerInv, TypeOK
      <3>2. datum' \in 1 .. MaxData /\ dataQueue' \in Seq(1 .. MaxData)
        BY <1>2, <2>2, <3>1, HeadTailProperties DEF WorkerPop
      <3>3. datum' \in 0 .. MaxData
        BY <3>2
      <3> QED
        BY <1>2, <2>2, <3>2, <3>3 DEF WorkerPop, TypeOK
    <2> QED
      BY <2>1, <2>2
  <1>3. CASE NotifyBegin \/ NotifyEnd
    BY <1>3 DEF NotifyBegin, NotifyEnd, TypeOK
  <1>4. CASE CallListener
    <2> DEFINE l == CHOOSE x \in toCall : \A y \in toCall : x <= y
    <2>1. heard' = [heard EXCEPT ![l] = Append(heard[l], datum)] /\ toCall' = toCall \ {l}
      BY <1>4 DEF CallListener
    <2>2. datum \in 1 .. MaxData
      BY <1>4 DEF CallListener, WorkerInv
    <2> HIDE DEF l
    <2>3. heard' \in [Listener -> Seq(1 .. MaxData)]
      BY <2>1, <2>2, AppendProperties DEF TypeOK
    <2> QED
      BY <1>4, <2>1, <2>3 DEF CallListener, TypeOK
  <1> QED
    BY <1>1, <1>2, <1>3, <1>4 DEF WorkerNext

(* So do the steps of the destructor. *)
LEMMA DestroyTypes ==
    ASSUME TypeOK, DestroyNext
    PROVE  TypeOK'
  <1>1. CASE DestroyBegin \/ DestroyNotify \/ DestroyJoined
    BY <1>1 DEF DestroyBegin, DestroyNotify, DestroyJoined, Notify, TypeOK
  <1>2. CASE DestroyClear
    BY <1>2 DEF DestroyClear, TypeOK
  <1> QED
    BY <1>1, <1>2 DEF DestroyNext
-----------------------------------------------------------------------------
(* Who holds _listenersMutex, and where worker and destructor are. *)

LEMMA RoundOK ==
    ASSUME HandlerInv, Next
    PROVE  RoundInv'
  <1> USE DEF HandlerInv
  <1>1. /\ \A c \in Client : c # Worker /\ c # NoOne
        /\ Worker # NoOne
    BY DataHandlerAssumption DEF Worker
  <1>2. ASSUME NEW c \in Client, ClientNext(c) PROVE RoundInv'
    <2>1. ASSUME NEW pc \in {"signal", "register", "unregister", "watermark"}, NEW id,
                 Call(c, pc, id)
          PROVE  RoundInv'
      BY <2>1 DEF Call, RoundInv, TypeOK
    <2>2. CASE SignalLock(c)
      BY <2>2 DEF SignalLock, RoundInv, TypeOK, At
    <2>3. CASE SignalPush(c)
      BY <2>3 DEF SignalPush, Notify, RoundInv, TypeOK, At
    <2>4. CASE Register(c)
      BY <1>1, <2>4 DEF Register, RoundInv, TypeOK, At
    <2>5. CASE Unregister(c)
      BY <1>1, <2>5 DEF Unregister, RoundInv, TypeOK, At
    <2>6. CASE WatermarkLock(c)
      BY <1>1, <2>6 DEF WatermarkLock, RoundInv, TypeOK, At
    <2>7. CASE WatermarkReturn(c)
      BY <1>1, <2>7 DEF WatermarkReturn, RoundInv, TypeOK, At
    <2>8. ASSUME NEW l, UnregisterStopped(c, l) PROVE RoundInv'
      BY <2>8 DEF UnregisterStopped, RoundInv
    <2> QED
      BY <1>2, <2>1, <2>2, <2>3, <2>4, <2>5, <2>6, <2>7, <2>8
         DEF ClientNext, CallSignalData, CallRegisterListener, CallUnregisterListener,
             CallWatermarkInfo
  <1>3. CASE WorkerCheck \/ WorkerLock \/ WorkerTest \/ WorkerSleep \/ WorkerPop \/ SpuriousWakeup
    BY <1>3 DEF WorkerCheck, WorkerLock, WorkerTest, WorkerSleep, WorkerPop, SpuriousWakeup,
                RoundInv
  <1>4. CASE NotifyBegin
    BY <1>1, <1>4 DEF NotifyBegin, RoundInv
  <1>5. CASE CallListener
    BY <1>5 DEF CallListener, RoundInv
  <1>6. CASE NotifyEnd
    BY <1>1, <1>6 DEF NotifyEnd, RoundInv
  <1>7. CASE DestroyNext
    BY <1>7 DEF DestroyNext, DestroyBegin, DestroyNotify, DestroyJoined, DestroyClear, Notify,
                WorkerInv, RoundInv
  <1> QED
    BY <1>2, <1>3, <1>4, <1>5, <1>6, <1>7 DEF Next, WorkerNext

(* The worker finds what it woke up for: only it takes from the queue. *)
LEMMA WorkerOK ==
    ASSUME HandlerInv, Next
    PROVE  WorkerInv'
  <1> USE DEF HandlerInv
  <1>1. ASSUME NEW c \in Client, ClientNext(c) PROVE WorkerInv'
    <2>1. CASE SignalPush(c)
      <3>1. dataQueue' # <<>>
        BY <2>1, AppendProperties DEF SignalPush, TypeOK
      <3> QED
        BY <2>1, <3>1 DEF SignalPush, Notify, WorkerInv
    <2>2. CASE UNCHANGED <<worker, datum, dataQueue, stopFlag, dtor>>
      BY <2>2 DEF WorkerInv
    <2> QED
      BY <1>1, <2>1, <2>2
         DEF ClientNext, CallSignalData, CallRegisterListener, CallUnregisterListener, UnregisterStopped,
             CallWatermarkInfo, Call, SignalLock, Register, Unregister, WatermarkLock,
             WatermarkReturn
  <1>2. CASE WorkerCheck \/ WorkerLock \/ WorkerTest \/ WorkerSleep \/ SpuriousWakeup
    BY <1>2 DEF WorkerCheck, WorkerLock, WorkerTest, WorkerSleep, SpuriousWakeup, WorkerInv
  <1>3. CASE WorkerPop
    <2>1. CASE stopFlag /\ dataQueue = <<>>
      BY <1>3, <2>1 DEF WorkerPop, WorkerInv
    <2>2. CASE ~ (stopFlag /\ dataQueue = <<>>)
      <3>1. dataQueue # <<>> /\ dataQueue \in Seq(1 .. MaxData)
        BY <1>3, <2>2 DEF WorkerPop, WorkerInv, TypeOK
      <3>2. datum' \in 1 .. MaxData
        BY <1>3, <2>2, <3>1, HeadTailProperties DEF WorkerPop
      <3> QED
        BY <1>3, <2>2, <3>2 DEF WorkerPop, WorkerInv
    <2> QED
      BY <2>1, <2>2
  <1>4. CASE NotifyBegin \/ CallListener \/ NotifyEnd
    BY <1>4 DEF NotifyBegin, CallListener, NotifyEnd, WorkerInv
  <1>5. CASE DestroyBegin \/ DestroyNotify \/ DestroyJoined
    BY <1>5 DEF DestroyBegin, DestroyNotify, DestroyJoined, Notify, WorkerInv
  <1>6. CASE DestroyClear
    BY <1>6 DEF DestroyClear, WorkerInv
  <1> QED
    BY <1>1, <1>2, <1>3, <1>4, <1>5, <1>6 DEF Next, WorkerNext, DestroyNext
-----------------------------------------------------------------------------
(* What is in the queue, and what the listeners have heard. *)

LEMMA PopFirst ==
    ASSUME HandlerInv, WorkerPop, ~ (stopFlag /\ dataQueue = <<>>)
    PROVE  /\ datum' = datum + 1
           /\ QueueInv'
  <1> USE DEF HandlerInv
  <1>1. dataQueue # <<>> /\ dataQueue \in Seq(1 .. MaxData)
    BY DEF WorkerPop, WorkerInv, TypeOK
  <1>2. /\ datum' = dataQueue[1] /\ Len(dataQueue) \in Nat \ {0}
        /\ Len(dataQueue') = Len(dataQueue) - 1
        /\ \A i \in 1 .. Len(dataQueue') : dataQueue'[i] = dataQueue[i + 1]
    BY <1>1, HeadTailProperties DEF WorkerPop
  <1>3. /\ datum \in Nat /\ signalled \in Nat
        /\ datum + Len(dataQueue) = signalled
        /\ \A i \in 1 .. Len(dataQueue) : dataQueue[i] = datum + i
    BY DataHandlerAssumption DEF WorkerPop, WorkerInv, QueueInv, TypeOK
  <1>4. datum' = datum + 1
    BY <1>2, <1>3
  <1>5. signalled' = signalled
    BY DEF WorkerPop
  <1>6. datum' + Len(dataQueue') = signalled'
    <2>1. ASSUME NEW d \in Nat, NEW n \in Nat PROVE (d + 1) + (n - 1) = d + n
      OBVIOUS
    <2>2. (datum + 1) + (Len(dataQueue) - 1) = datum + Len(dataQueue)
      BY <1>2, <1>3, <2>1
    <2> QED
      BY <1>2, <1>3, <1>4, <1>5, <2>2
  <1>7. ASSUME NEW i \in 1 .. Len(dataQueue') PROVE dataQueue'[i] = datum' + i
    <2>1. i + 1 \in 1 .. Len(dataQueue) /\ i \in Nat
      BY <1>2
    <2>2. dataQueue[i + 1] = datum + (i + 1)
      BY <1>3, <2>1
    <2> QED
      BY <1>2, <1>3, <1>4, <2>1, <2>2
  <1> QED
    BY <1>4, <1>6, <1>7 DEF QueueInv

(* The data are numbered as they are pushed, and taken from the front. *)
LEMMA QueueOK ==
    ASSUME HandlerInv, Next
    PROVE  QueueInv'
  <1> USE DEF HandlerInv
  <1>1. CASE UNCHANGED <<dataQueue, datum, signalled, dtor>>
    BY <1>1 DEF QueueInv
  <1>2. ASSUME NEW c \in Client, SignalPush(c) PROVE QueueInv'
    <2>1. dataQueue \in Seq(1 .. MaxData) /\ datum \in Nat /\ signalled \in Nat
      BY DataHandlerAssumption DEF TypeOK
    <2>2. /\ Len(dataQueue) \in Nat
          /\ Len(dataQueue') = Len(dataQueue) + 1
          /\ \A i \in 1 .. Len(dataQueue) : dataQueue'[i] = dataQueue[i]
          /\ dataQueue'[Len(dataQueue) + 1] = signalled + 1
      BY <1>2, <2>1, AppendProperties DEF SignalPush
    <2>3. SUFFICES ASSUME dtor # "done"
                   PROVE  /\ datum' + Len(dataQueue') = signalled'
                          /\ \A i \in 1 .. Len(dataQueue') : dataQueue'[i] = datum' + i
      BY <1>2 DEF SignalPush, QueueInv
    <2>4. /\ datum + Len(dataQueue) = signalled
          /\ \A i \in 1 .. Len(dataQueue) : dataQueue[i] = datum + i
      BY <2>3 DEF QueueInv
    <2>5. datum' = datum /\ signalled' = signalled + 1
      BY <1>2 DEF SignalPush
    <2>6. datum' + Len(dataQueue') = signalled'
      BY <2>1, <2>2, <2>4, <2>5
    <2>7. ASSUME NEW i \in 1 .. Len(dataQueue') PROVE dataQueue'[i] = datum' + i
      <3>1. CASE i \in 1 .. Len(dataQueue)
        BY <2>2, <2>4, <2>5, <3>1
      <3>2. CASE i = Len(dataQueue) + 1
        BY <2>1, <2>2, <2>4, <2>5, <3>2
      <3> QED
        BY <2>2, <3>1, <3>2
    <2> QED
      BY <2>6, <2>7
  <1>3. ASSUME NEW c \in Client, ClientNext(c) PROVE QueueInv'
    BY <1>1, <1>2, <1>3
       DEF ClientNext, CallSignalData, CallRegisterListener, CallUnregisterListener, UnregisterStopped,
           CallWatermarkInfo, Call, SignalLock, Register, Unregister, WatermarkLock,
           WatermarkReturn
  <1>4. CASE WorkerNext \/ SpuriousWakeup
    BY <1>1, <1>4, PopFirst
       DEF WorkerNext, WorkerCheck, WorkerLock, WorkerTest, WorkerSleep, WorkerPop, NotifyBegin,
           CallListener, NotifyEnd, SpuriousWakeup
  <1>5. CASE DestroyNext
    BY <1>5 DEF DestroyNext, DestroyBegin, DestroyNotify, DestroyJoined, DestroyClear, QueueInv
  <1> QED
    BY <1>3, <1>4, <1>5 DEF Next

(* The step of one listener's call: it is a registered one, heard the      *)
(* datum before or nothing, and is not called again in this round.         *)
LEMMA ListenerCalled ==
    ASSUME HandlerInv, CallListener
    PROVE  \E l \in toCall : /\ l \in listeners /\ l \in Listener
                             /\ heard' = [heard EXCEPT ![l] = Append(heard[l], datum)]
                             /\ toCall' = toCall \ {l}
  <1> DEFINE l == CHOOSE x \in toCall : \A y \in toCall : x <= y
  <1>1. toCall # {} /\ toCall \subseteq listeners /\ toCall \subseteq Listener
    BY DEF CallListener, HandlerInv, RoundInv, TypeOK
  <1>2. toCall \in SUBSET Nat
    BY <1>1, DataHandlerAssumption DEF Listener
  <1>3. l \in toCall
    BY <1>1, <1>2, LeastExists
  <1>4. heard' = [heard EXCEPT ![l] = Append(heard[l], datum)] /\ toCall' = toCall \ {l}
    BY DEF CallListener
  <1> HIDE DEF l
  <1> QED
    BY <1>1, <1>3, <1>4

(* One more datum at the end of what a listener has heard. *)
LEMMA OneMore ==
    ASSUME NEW D \in SUBSET Int, NEW s \in Seq(D), NEW d \in D, Consecutive(s),
           s # <<>> => s[Len(s)] = d - 1
    PROVE  /\ Consecutive(Append(s, d)) /\ Append(s, d) # <<>>
           /\ Append(s, d)[Len(Append(s, d))] = d
  <1>1. /\ Len(s) \in Nat /\ Len(Append(s, d)) = Len(s) + 1 /\ Append(s, d) # <<>>
        /\ \A i \in 1 .. Len(s) : Append(s, d)[i] = s[i]
        /\ Append(s, d)[Len(s) + 1] = d
        /\ s = <<>> <=> Len(s) = 0
    <2>1. Len(s) \in Nat /\ (s = <<>> <=> Len(s) = 0)
      BY EmptySeq, LenProperties
    <2>2. /\ Len(Append(s, d)) = Len(s) + 1 /\ Append(s, d) # <<>>
          /\ \A i \in 1 .. Len(s) : Append(s, d)[i] = s[i]
          /\ Append(s, d)[Len(s) + 1] = d
      BY AppendProperties
    <2> QED
      BY <2>1, <2>2
  <1>2. ASSUME NEW i \in 1 .. Len(s) PROVE Append(s, d)[i + 1] = Append(s, d)[i] + 1
    <2>1. CASE i = Len(s)
      BY <1>1, <1>2, <2>1
    <2>2. CASE i \in 1 .. Len(s) - 1
      <3>1. s[i + 1] = s[i] + 1
        BY <2>2 DEF Consecutive
      <3>2. i + 1 \in 1 .. Len(s)
        BY <1>1, <2>2
      <3> QED
        BY <1>1, <3>1, <3>2
    <2> QED
      BY <1>1, <2>1, <2>2
  <1>3. Len(Append(s, d)) - 1 = Len(s)
    BY <1>1
  <1> QED
    BY <1>1, <1>2, <1>3 DEF Consecutive

(* Steps that leave what was heard, and who is registered, as it is. *)
LEMMA HeardStays ==
    ASSUME HandlerInv, UNCHANGED <<heard, datum, lastId>>, listeners' \subseteq listeners,
           \A l \in listeners' : Due(l)' <=> Due(l)
    PROVE  HeardInv'
  BY DEF HandlerInv, HeardInv

(* Each listener hears the data in order: the worker notifies of one datum *)
(* before it takes the next, and a new listener has heard nothing.         *)
LEMMA HeardOK ==
    ASSUME HandlerInv, Next
    PROVE  HeardInv'
  <1> USE DEF HandlerInv
  <1>1. ASSUME NEW c \in Client, Register(c) PROVE HeardInv'
    <2>1. /\ worker # "notify" \/ listenersMutex # NoOne
          /\ lastId \in Nat
      BY DataHandlerAssumption DEF RoundInv, Worker, TypeOK
    <2>2. /\ listeners' = listeners \cup {lastId + 1} /\ lastId' = lastId + 1
          /\ UNCHANGED <<heard, datum, worker, toCall>>
      BY <1>1 DEF Register
    <2>3. ASSUME NEW l \in Listener
          PROVE  /\ Consecutive(heard'[l])
                 /\ l > lastId' => heard'[l] = <<>>
                 /\ l \in listeners' /\ heard'[l] # <<>> =>
                      heard'[l][Len(heard'[l])] = IF Due(l)' THEN datum' - 1 ELSE datum'
      <3>1. l \in Nat
        BY DataHandlerAssumption DEF Listener
      <3>2. l = lastId + 1 => heard[l] = <<>>
        BY <2>1, <2>3, <3>1 DEF HeardInv
      <3>3. Due(l)' <=> Due(l)
        BY <2>2 DEF Due
      <3> QED
        BY <2>1, <2>2, <2>3, <3>1, <3>2, <3>3 DEF HeardInv
    <2> QED
      BY <2>3 DEF HeardInv
  <1>2. ASSUME NEW c \in Client, ClientNext(c), ~ Register(c) PROVE HeardInv'
    <2>1. UNCHANGED <<heard, datum, lastId, toCall>> /\ listeners' \subseteq listeners
      BY <1>2 DEF ClientNext, CallSignalData, CallRegisterListener, CallUnregisterListener, UnregisterStopped,
                  CallWatermarkInfo, Call, SignalLock, SignalPush, Unregister, WatermarkLock,
                  WatermarkReturn
    <2>2. worker' = worker \/ (worker = "asleep" /\ worker' = "lock")
      BY <1>2 DEF ClientNext, CallSignalData, CallRegisterListener, CallUnregisterListener, UnregisterStopped,
                  CallWatermarkInfo, Call, SignalLock, SignalPush, Notify, Unregister,
                  WatermarkLock, WatermarkReturn
    <2> QED
      BY <2>1, <2>2, HeardStays DEF Due
  <1>3. CASE WorkerCheck \/ WorkerLock \/ WorkerTest \/ WorkerSleep \/ SpuriousWakeup
    BY <1>3, HeardStays DEF WorkerCheck, WorkerLock, WorkerTest, WorkerSleep, SpuriousWakeup, Due
  <1>4. CASE WorkerPop
    <2>1. CASE stopFlag /\ dataQueue = <<>>
      BY <1>4, <2>1, HeardStays DEF WorkerPop, Due
    <2>2. CASE ~ (stopFlag /\ dataQueue = <<>>)
      <3>1. datum' = datum + 1 /\ datum \in Nat
        BY <1>4, <2>2, PopFirst, DataHandlerAssumption DEF TypeOK
      <3>2. \A l \in Listener : ~ Due(l) /\ Due(l)'
        BY <1>4, <2>2 DEF WorkerPop, Due
      <3>3. UNCHANGED <<heard, listeners, lastId>>
        BY <1>4 DEF WorkerPop
      <3>4. datum' - 1 = datum
        BY <3>1
      <3> QED
        BY <3>2, <3>3, <3>4 DEF HeardInv
    <2> QED
      BY <2>1, <2>2
  <1>5. CASE NotifyBegin
    BY <1>5, HeardStays DEF NotifyBegin, Due
  <1>6. CASE NotifyEnd
    BY <1>6, HeardStays DEF NotifyEnd, Due
  <1>7. CASE CallListener
    <2>1. PICK l \in toCall : /\ l \in listeners /\ l \in Listener
                              /\ heard' = [heard EXCEPT ![l] = Append(heard[l], datum)]
                              /\ toCall' = toCall \ {l}
      BY <1>7, ListenerCalled
    <2>2. /\ UNCHANGED <<datum, lastId, listeners, worker>> /\ worker = "notify"
          /\ heard \in [Listener -> Seq(1 .. MaxData)] /\ datum \in 1 .. MaxData
      BY <1>7 DEF CallListener, TypeOK, WorkerInv
    <2>3. ASSUME NEW k \in Listener
          PROVE  /\ Consecutive(heard'[k])
                 /\ k > lastId' => heard'[k] = <<>>
                 /\ k \in listeners' /\ heard'[k] # <<>> =>
                      heard'[k][Len(heard'[k])] = IF Due(k)' THEN datum' - 1 ELSE datum'
      <3>1. CASE k = l
        <4>1. Due(l) /\ ~ Due(l)'
          BY <2>1, <2>2 DEF Due
        <4>2. Consecutive(heard[l]) /\ (heard[l] # <<>> => heard[l][Len(heard[l])] = datum - 1)
          BY <2>1, <4>1 DEF HeardInv
        <4>3. heard'[k] = Append(heard[l], datum) /\ heard[l] \in Seq(1 .. MaxData)
          BY <2>1, <2>2, <3>1
        <4>4. /\ Consecutive(heard'[k])
              /\ heard'[k][Len(heard'[k])] = datum
          <5>1. 1 .. MaxData \in SUBSET Int
            BY DataHandlerAssumption
          <5>2. /\ Consecutive(Append(heard[l], datum))
                /\ Append(heard[l], datum)[Len(Append(heard[l], datum))] = datum
            BY <2>2, <4>2, <4>3, <5>1, OneMore
          <5> QED
            BY <4>3, <5>2
        <4>5. ~ (k > lastId')
          BY <2>1, <2>2, <3>1, DataHandlerAssumption DEF RoundInv, TypeOK, Listener
        <4> QED
          BY <2>2, <3>1, <4>1, <4>4, <4>5
      <3>2. CASE k # l
        <4>1. heard'[k] = heard[k] /\ (Due(k)' <=> Due(k))
          BY <2>1, <2>2, <3>2 DEF Due
        <4> QED
          BY <2>2, <4>1 DEF HeardInv
      <3> QED
        BY <3>1, <3>2
    <2> QED
      BY <2>3 DEF HeardInv
  <1>8. CASE DestroyNext
    BY <1>8, HeardStays DEF DestroyNext, DestroyBegin, DestroyNotify, DestroyJoined, DestroyClear,
                            Notify, Due
  <1> QED
    BY <1>1, <1>2, <1>3, <1>4, <1>5, <1>6, <1>7, <1>8 DEF Next, WorkerNext
-----------------------------------------------------------------------------
(* Only the step that erases a listener records a call that passed the test *)
(* of _stopFlag, and a new listener has a new id.                          *)
LEMMA GoneOK ==
    ASSUME HandlerInv, Next
    PROVE  GoneInv'
  <1> USE DEF HandlerInv
  <1>1. lastId \in Nat
    BY DataHandlerAssumption DEF TypeOK
  <1>2. CASE UNCHANGED <<unregistered, lastId>> /\ listeners' \subseteq listeners
    BY <1>2 DEF GoneInv
  <1>3. ASSUME NEW c \in Client, Register(c) PROVE GoneInv'
    <2>1. /\ listeners' = listeners \cup {lastId + 1} /\ lastId' = lastId + 1
          /\ unregistered' = unregistered
      BY <1>3 DEF Register
    <2> SUFFICES ASSUME NEW u \in unregistered
                 PROVE  u.id \in 1 .. lastId + 1 /\ (u.id \in listeners \cup {lastId + 1} => u.stopped)
      BY <2>1 DEF GoneInv
    <2>2. u.id \in 1 .. lastId /\ (u.id \in listeners => u.stopped)
      BY DEF GoneInv
    <2> QED
      BY <1>1, <2>2
  <1>4. ASSUME NEW l, NEW st \in BOOLEAN, UnregisterReturns(l, st), lastId' = lastId,
               listeners' = IF st THEN listeners ELSE listeners \ {l}
        PROVE  GoneInv'
    <2> SUFFICES ASSUME NEW u \in unregistered'
                 PROVE  u.id \in 1 .. lastId /\ (u.id \in listeners' => u.stopped)
      BY <1>4 DEF GoneInv
    <2>1. CASE u \in unregistered
      BY <1>4, <2>1 DEF GoneInv
    <2>2. CASE u \notin unregistered
      <3>1. l \in 1 .. lastId /\ u = [id |-> l, stopped |-> st]
        BY <1>4, <2>2 DEF UnregisterReturns
      <3> QED
        BY <1>4, <3>1
    <2> QED
      BY <2>1, <2>2
  <1>5. ASSUME NEW c \in Client, Unregister(c) PROVE GoneInv'
    BY <1>4, <1>5 DEF Unregister
  <1>6. ASSUME NEW c \in Client, NEW l \in Listener, UnregisterStopped(c, l) PROVE GoneInv'
    BY <1>4, <1>6 DEF UnregisterStopped
  <1>7. ASSUME NEW c \in Client, ClientNext(c) PROVE GoneInv'
    BY <1>2, <1>3, <1>5, <1>6, <1>7
       DEF ClientNext, CallSignalData, CallRegisterListener, CallUnregisterListener,
           CallWatermarkInfo, Call, SignalLock, SignalPush, WatermarkLock, WatermarkReturn
  <1>8. CASE WorkerNext \/ SpuriousWakeup
    BY <1>2, <1>8
       DEF WorkerNext, WorkerCheck, WorkerLock, WorkerTest, WorkerSleep, WorkerPop, NotifyBegin,
           CallListener, NotifyEnd, SpuriousWakeup
  <1>9. CASE DestroyNext
    BY <1>2, <1>9 DEF DestroyNext, DestroyBegin, DestroyNotify, DestroyJoined, DestroyClear
  <1> QED
    BY <1>7, <1>8, <1>9 DEF Next

(* HandlerInv is inductive. *)
LEMMA NextOK == HandlerInv /\ [Next]_vars => HandlerInv'
  <1> SUFFICES ASSUME HandlerInv, [Next]_vars PROVE HandlerInv'
    OBVIOUS
  <1>1. CASE Next
    <2>1. TypeOK'
      BY <1>1, ClientTypes, WorkerTypes, DestroyTypes DEF Next, HandlerInv
    <2>2. BoundInv'
      <3>1. CASE \E c \in Client : ClientNext(c)
        BY <3>1, ClientTypes DEF HandlerInv
      <3>2. CASE WorkerNext \/ SpuriousWakeup \/ DestroyNext
        BY <3>2, BoundsStay
           DEF HandlerInv, WorkerNext, WorkerCheck, WorkerLock, WorkerTest, WorkerSleep,
               WorkerPop, NotifyBegin, CallListener, NotifyEnd, SpuriousWakeup, DestroyNext,
               DestroyBegin, DestroyNotify, DestroyJoined, DestroyClear
      <3> QED
        BY <1>1, <3>1, <3>2 DEF Next
    <2> QED
      BY <1>1, <2>1, <2>2, RoundOK, WorkerOK, QueueOK, HeardOK, GoneOK DEF HandlerInv
  <1>2. CASE UNCHANGED vars
    <2>1. TypeOK' /\ RoundInv' /\ WorkerInv' /\ QueueInv' /\ GoneInv'
      BY <1>2 DEF vars, HandlerInv, TypeOK, RoundInv, WorkerInv, QueueInv, GoneInv
    <2>2. BoundInv' /\ HeardInv'
      BY <1>2, BoundsStay, HeardStays DEF vars, HandlerInv, Due
    <2> QED
      BY <2>1, <2>2 DEF HandlerInv
  <1> QED
    BY <1>1, <1>2

(* The types, for any number of clients and listeners. *)
THEOREM TypeCorrect == Spec => []TypeOK
  <1>1. HandlerInv => TypeOK
    BY DEF HandlerInv
  <1> QED
    BY <1>1, InitOK, NextOK, PTL DEF Spec

(* A listener hears consecutive data, in the order they were pushed. *)
THEOREM DeliveredInOrder == Spec => []HeardInOrder
  <1>1. HandlerInv => HeardInOrder
    BY DEF HandlerInv, HeardInv, Consecutive, HeardInOrder
  <1> QED
    BY <1>1, InitOK, NextOK, PTL DEF Spec

(* A listener is not called once unregisterListener has returned, unless   *)
(* the call came after the destructor had set _stopFlag: it waits for the  *)
(* round of notifications that is under way.                               *)
THEOREM UnregisterIsFinal == Spec => NoCallAfterUnregister
  <1>1. HandlerInv /\ [Next]_vars =>
          [\A l \in Listener : heard'[l] # heard[l] =>
             \A u \in unregistered : u.id = l => u.stopped]_vars
    <2> SUFFICES ASSUME HandlerInv, Next, NEW l \in Listener, heard'[l] # heard[l],
                        NEW u \in unregistered, u.id = l
                 PROVE  u.stopped
      OBVIOUS
    <2>1. CallListener
      BY DEF Next, ClientNext, CallSignalData, CallRegisterListener, CallUnregisterListener,
             UnregisterStopped, CallWatermarkInfo, Call, SignalLock, SignalPush, Register,
             Unregister, WatermarkLock, WatermarkReturn, WorkerNext, WorkerCheck, WorkerLock,
             WorkerTest, WorkerSleep, WorkerPop, NotifyBegin, NotifyEnd, SpuriousWakeup,
             DestroyNext, DestroyBegin, DestroyNotify, DestroyJoined, DestroyClear
    <2>2. PICK k \in toCall : /\ k \in listeners
                              /\ heard' = [heard EXCEPT ![k] = Append(heard[k], datum)]
      BY <2>1, ListenerCalled
    <2>3. l \in listeners
      BY <2>2 DEF HandlerInv, TypeOK
    <2> QED
      BY <2>3 DEF HandlerInv, GoneInv
  <1> QED
    BY <1>1, InitOK, NextOK, PTL DEF Spec, NoCallAfterUnregister
=============================================================================
