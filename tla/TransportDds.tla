---------------------------- MODULE TransportDds ----------------------------
(***************************************************************************)
(* TransportDds over one DDSSubscriber and one DDSPublisher per topic.     *)
(* A subscriber polls its reader in a thread of its own, which is called   *)
(* by the name of its topic.  DDS itself is external.  The topics have a   *)
(* key (sensor_id, track_id), whose values make the instances of a topic:  *)
(* a sample is put into the reader's cache, which keeps the last ones of   *)
(* each instance, or it is lost.                                           *)
(*                                                                         *)
(* The module has the steps of the calls; OmniscopeApp says which worker   *)
(* makes them, and adds the callback that a poll thread is inside.         *)
(***************************************************************************)
EXTENDS Naturals, Sequences, Mutex

CONSTANTS
    DdsTopic,            \* the topics, and the poll threads
    DdsInstance,         \* the instances of all topics
    InstanceTopic,       \* InstanceTopic[i]: the topic of instance i
    Depth                \* Depth[t]: History::KeepLast of t's reader

VARIABLES
    ddsActive,           \* activeTopics
    ddsMutex,            \* owner of TransportDds::Impl::mutex
    running,             \* running[t]: _running of the subscriber
    reader,              \* reader[i]: samples of i in the cache of its topic's reader
    hasReader,           \* topics whose _reader (and _handler) is set
    poll,                \* poll[t]: the poll thread, and the instance it is within
    taken                \* taken[i]: samples of i the poll thread has yet to pass on

ddsVars == <<ddsActive, ddsMutex, running, reader, hasReader, poll, taken>>

PollAt(pc) == [pc |-> pc, within |-> {}]
NoPoll == PollAt("none")
Of(t) == {i \in DdsInstance : InstanceTopic[i] = t}
Without(samples, t) == [i \in DdsInstance |-> IF i \in Of(t) THEN <<>> ELSE samples[i]]

DdsTypeOK ==
    /\ ddsActive \subseteq DdsTopic
    /\ running \in [DdsTopic -> BOOLEAN]
    /\ \A t \in DdsTopic :
         /\ \A i \in Of(t) : Len(reader[i]) <= Depth[t]
         /\ poll[t].pc \in {"none", "loop", "take", "call", "exited"}
         /\ poll[t].pc # "none" => t \in hasReader
    /\ hasReader \subseteq DdsTopic

DdsInit ==
    /\ ddsActive = {} /\ ddsMutex = Free
    /\ running = [t \in DdsTopic |-> FALSE]
    /\ reader = [i \in DdsInstance |-> <<>>]
    /\ hasReader = {}
    /\ poll = [t \in DdsTopic |-> NoPoll]
    /\ taken = [i \in DdsInstance |-> <<>>]
-----------------------------------------------------------------------------
(* DDSSubscriber. *)

(* Mutant: the reader of the previous subscription is kept. *)
SubscriberKeepsReader(t) ==
    /\ hasReader' = hasReader \cup {t}
    /\ UNCHANGED reader

(* subscribe(): a new reader.  The samples of an old one go with it. *)
SubscriberSubscribe(t) ==
    /\ hasReader' = hasReader \cup {t}
    /\ reader' = Without(reader, t)

SubscriberStart(t) ==
    /\ running' = [running EXCEPT ![t] = TRUE]
    /\ IF running[t] THEN UNCHANGED <<poll, taken>>
       ELSE poll' = [poll EXCEPT ![t] = PollAt("loop")] /\ taken' = Without(taken, t)

(* stop(), up to the join. *)
SubscriberStop(t) ==
    /\ running' = [running EXCEPT ![t] = FALSE]
    /\ UNCHANGED <<poll, taken>>

SubscriberJoin(t) ==
    /\ poll[t].pc = "exited"
    /\ poll' = [poll EXCEPT ![t] = NoPoll]
    /\ UNCHANGED taken
-----------------------------------------------------------------------------
(* TransportDds.  A worker that holds the mutex has the steps of one call.  *)

(* subscribe(), up to the insertion into activeTopics. *)
DdsSubscribe(w, t) ==
    /\ ddsMutex = Free
    /\ t \notin ddsActive
    /\ ddsMutex' = w
    /\ SubscriberSubscribe(t)
    /\ SubscriberStart(t)
    /\ UNCHANGED ddsActive

DdsInsert(w, t) ==
    /\ ddsMutex = w
    /\ ddsActive' = ddsActive \cup {t}
    /\ ddsMutex' = Free
    /\ UNCHANGED <<running, reader, hasReader, poll, taken>>

(* unsubscribe(): the flag, and then the join with the mutex held. *)
DdsUnsubscribe(w, t) ==
    /\ ddsMutex = Free
    /\ t \in ddsActive
    /\ ddsMutex' = w
    /\ SubscriberStop(t)
    /\ UNCHANGED <<ddsActive, reader, hasReader>>

DdsErase(w, t) ==
    /\ ddsMutex = w
    /\ SubscriberJoin(t)
    /\ ddsActive' = ddsActive \ {t}
    /\ ddsMutex' = Free
    /\ UNCHANGED <<running, reader, hasReader>>

(* A sample reaches the reader, which keeps the last Depth[t] of its instance. *)
DdsDeliver(i, m) ==
    LET t == InstanceTopic[i] IN
    reader' = IF t \notin hasReader THEN reader
              ELSE [reader EXCEPT ![i] =
                      Append(IF Len(@) = Depth[t] THEN Tail(@) ELSE @, m)]

(* DDSPublisher::publish(): the sample is lost while DDS has not yet         *)
(* discovered the reader, as after the first call, which makes the writer.  *)
DdsWrites(i, m) == DdsDeliver(i, m) \/ UNCHANGED reader

(* publishFromJson(), as far as it returns: the JSON does not load, or the   *)
(* sample is written.  fromJson throws when a field is missing, and the      *)
(* program ends: that is data the module PlaybackEngine cannot publish.      *)
DdsPublish(i, m) ==
    /\ DdsWrites(i, m) \/ UNCHANGED reader
    /\ UNCHANGED <<ddsActive, ddsMutex, running, hasReader, poll, taken>>

(* The destructor: stop() for every active topic, in some order. *)
DdsStop(t) ==
    /\ running[t]
    /\ SubscriberStop(t)
    /\ UNCHANGED <<ddsActive, ddsMutex, reader, hasReader>>

DdsJoin(t) ==
    /\ ~ running[t]
    /\ SubscriberJoin(t)
    /\ UNCHANGED <<ddsActive, ddsMutex, running, reader, hasReader>>
-----------------------------------------------------------------------------
(* pollLoop.  It goes on when the callback it has made has returned. *)

PollStep(t, from, next) ==
    /\ poll[t].pc = from
    /\ poll' = [poll EXCEPT ![t] = next]
    /\ UNCHANGED <<ddsActive, ddsMutex, running, hasReader>>

PollCheck(t) ==
    /\ PollStep(t, "loop", PollAt(IF running[t] THEN "take" ELSE "exited"))
    /\ UNCHANGED <<reader, taken>>

(* take() empties the cache. *)
PollTake(t) ==
    /\ PollStep(t, "take", PollAt("call"))
    /\ taken' = [i \in DdsInstance |-> IF i \in Of(t) THEN reader[i] ELSE taken[i]]
    /\ reader' = Without(reader, t)

(* The next sample is passed to the handler, or is not valid.  take() has   *)
(* put the samples of an instance one after the other, so that those of the *)
(* instance the thread is within come first; which instance comes next is   *)
(* up to DDS.                                                               *)
PollNextSample(t, i) ==
    /\ i \in Of(t) /\ taken[i] # <<>>
    /\ \A j \in poll[t].within : taken[j] # <<>> => j = i
    /\ PollStep(t, "call", [pc |-> "call", within |-> {i}])
    /\ taken' = [taken EXCEPT ![i] = Tail(@)]
    /\ UNCHANGED reader

PollSleep(t) ==
    /\ \A i \in Of(t) : taken[i] = <<>>
    /\ PollStep(t, "call", PollAt("loop"))
    /\ UNCHANGED <<reader, taken>>
=============================================================================
