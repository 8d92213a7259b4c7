---------------------------- MODULE PlaybackProof ----------------------------
(***************************************************************************)
(* Proofs about PlaybackEngine, for every set of recordings of any length. *)
(* The types hold for any number of threads that use the object; what the  *)
(* web clients and the transports see is proved for one, since the object  *)
(* does not synchronise its callers.                                       *)
(***************************************************************************)
EXTENDS PlaybackEngine, SequenceTheorems, TLAPS

Script == Recording \cup {<<>>}
CallerPc == {"idle", "flag", "notify", "joinable", "join", "unplay", "load", "snapshot",
             "reset", "play", "spawn", "announce", "destroyed", "terminated"}
Control == [pc : CallerPc, then : {"return", "load", "snapshot", "destroyed"}, body : Script]
ThreadPc == {"base", "loop", "test", "block", "asleep", "check", "publish", "progress",
             "done", "unplay", "complete", "exited", "terminated"}
ThreadState == [pc : ThreadPc, lines : Script, baseTime : Nat, i : Nat, prevOffset : Int,
                stopped : BOOLEAN]
Starting == {"reset", "play", "spawn"}

(* The program counters at which the thread is inside the loop body. *)
AtLine == {"test", "block", "asleep", "check", "publish", "progress"}

(* start() goes on only with lines to replay. *)
Loaded == \A c \in Caller : caller[c].pc \in Starting => caller[c].body # <<>>

(* The types, with what makes them inductive: the thread only works on a   *)
(* line that exists and is JSON.                                           *)
Types ==
    /\ lines \in Script
    /\ stopFlag \in BOOLEAN /\ playing \in BOOLEAN /\ joinable \in BOOLEAN
    /\ thread \in ThreadState
    /\ thread.i \in 1 .. Len(thread.lines) + 1
    /\ caller \in [Caller -> Control]
    /\ sent \in Seq(Nat) /\ events \in Seq(Event)
    /\ thread.pc # "exited" => joinable
    /\ thread.pc \in AtLine => Good(thread.i)
    /\ thread.pc = "base" => thread.lines # <<>>
    /\ Loaded

(* From the end of stop() to the creation of the next thread there is no   *)
(* thread, and from the snapshot on the histories of the playback are      *)
(* empty.                                                                  *)
Owned ==
    \A c \in Caller :
        /\ caller[c].pc \in {"unplay", "load", "snapshot", "reset", "play", "spawn"} => ~ joinable
        /\ caller[c].pc \in {"reset", "play", "spawn"} => sent = <<>> /\ events = <<>>
        /\ caller[c].pc = "spawn" => playing

IsEnd(e) == e.type \in {"playback_finished", "playback_stopped"}

(* What the thread knows: it plays until it says otherwise, it leaves the  *)
(* loop at the end of its lines or when it is told to stop, and it is      *)
(* silent once it has told the end.                                        *)
Running ==
    /\ thread.pc \notin {"complete", "exited"} => playing
    /\ thread.pc = "done" => thread.i > Len(thread.lines) \/ stopFlag
    /\ (thread.pc \in {"unplay", "complete"} /\ ~ thread.stopped) => thread.i > Len(thread.lines)
    /\ (Told("playback_finished") /\ joinable) => thread.i > Len(thread.lines)
    /\ thread.pc # "exited" => \A n \in DOMAIN events : ~ IsEnd(events[n])

(* The lines the thread has published and reported so far. *)
Replayed ==
    joinable => \A k \in Nat :
        /\ Sent(k) <=> Good(k) /\ (k < thread.i \/ (k = thread.i /\ thread.pc = "progress"))
        /\ Reported(k) <=> Good(k) /\ k < thread.i

OneCaller == \A b, c \in Caller : b = c

Inv == Types /\ Owned /\ Running /\ Replayed /\ PublishesInOrder /\ ReportsInOrder /\ EndsOnce
-----------------------------------------------------------------------------
(* A caller that moves on keeps the rest of its state. *)
LEMMA GotoFields ==
    ASSUME Types, NEW c \in Caller, NEW pc \in CallerPc, Goto(c, pc)
    PROVE  /\ caller' \in [Caller -> Control]
           /\ caller'[c].pc = pc
           /\ \A b \in Caller : b # c => caller'[b] = caller[b]
           /\ pc \notin Starting \/ caller[c].pc \in Starting => Loaded'
  <1>1. /\ caller' \in [Caller -> Control]
        /\ caller'[c].pc = pc /\ caller'[c].body = caller[c].body
        /\ \A b \in Caller : b # c => caller'[b] = caller[b]
    BY DEF Goto, Types, Control
  <1> QED
    BY <1>1 DEF Types, Loaded

(* So does one that takes up something else. *)
LEMMA LoadedKept ==
    ASSUME Types, NEW c \in Caller, NEW s \in Control, caller' = [caller EXCEPT ![c] = s],
           s.pc \in Starting => s.body # <<>>
    PROVE  caller' \in [Caller -> Control] /\ Loaded'
  BY DEF Types, Loaded

(* So does the thread. *)
LEMMA ThreadAtFields ==
    ASSUME Types, NEW pc \in ThreadPc, thread' = ThreadAt(pc)
    PROVE  /\ thread' \in ThreadState
           /\ thread'.pc = pc /\ thread'.i = thread.i /\ thread'.lines = thread.lines
           /\ thread'.stopped = thread.stopped
  BY DEF ThreadAt, Types, ThreadState

(* The lines of a script. *)
LEMMA ScriptLines ==
    ASSUME NEW s \in Script
    PROVE  /\ s \in Seq(JsonLine \cup {BadLine}) /\ Len(s) \in Nat /\ DOMAIN s = 1 .. Len(s)
           /\ \A k \in 1 .. Len(s) : s[k] # BadLine => s[k] \in JsonLine
           /\ s # <<>> => 1 \in 1 .. Len(s)
  <1>1. s \in Seq(JsonLine \cup {BadLine})
    BY PlaybackAssumption, EmptySeq DEF Script
  <1> QED
    BY <1>1

(* A step of the thread that stays on its line keeps the types. *)
LEMMA StepTypes ==
    ASSUME Types, NEW from \in AtLine, NEW pc \in AtLine \cup {"done", "terminated"},
           Step(from, ThreadAt(pc))
    PROVE  Types'
  <1>1. /\ thread.pc = from /\ thread' = ThreadAt(pc)
        /\ UNCHANGED <<lines, stopFlag, playing, joinable, caller, sent, events>>
    BY DEF Step
  <1>2. /\ thread' \in ThreadState /\ thread'.i = thread.i /\ thread'.lines = thread.lines
        /\ thread'.pc # "base"
    BY <1>1, ThreadAtFields DEF AtLine, ThreadPc
  <1>3. joinable /\ Good(thread.i)
    BY <1>1 DEF Types, AtLine
  <1> QED
    BY <1>1, <1>2, <1>3 DEF Types, Good, Loaded

(* The offset of a line that has a timestamp is a number. *)
LEMMA OffsetType ==
    ASSUME Types, Good(thread.i), Line.timestamp_ms # Missing
    PROVE  Offset \in Int
  <1>1. thread.lines \in Script /\ thread.baseTime \in Nat
    BY DEF Types, ThreadState
  <1>2. Line \in JsonLine
    BY <1>1, ScriptLines DEF Good, Line
  <1> QED
    BY <1>1, <1>2 DEF Offset, JsonLine

(* The thread reads the time of the first line, or ends the program. *)
LEMMA BaseCases ==
    ASSUME Types, BaseTime
    PROVE  /\ thread.pc = "base" /\ joinable
           /\ UNCHANGED <<lines, stopFlag, playing, joinable, caller, sent, events>>
           /\ thread' \in ThreadState
           /\ thread'.lines = thread.lines /\ thread'.i = thread.i
           /\ thread'.pc \in {"loop", "terminated"}
  <1>1. thread.pc = "base" /\ joinable /\ thread \in ThreadState
    BY DEF BaseTime, Types
  <1>2. CASE \/ Step("base", ThreadAt("loop"))
             \/ Step("base", ThreadAt("terminated"))
    BY <1>1, <1>2, ThreadAtFields DEF Step, ThreadPc
  <1>3. CASE /\ thread.lines[1] # BadLine /\ thread.lines[1].timestamp_ms # Missing
             /\ Step("base", [thread EXCEPT !.pc = "loop", !.baseTime = thread.lines[1].timestamp_ms])
    <2> DEFINE t == thread.lines[1].timestamp_ms
    <2>1. thread.lines[1] \in JsonLine
      BY <1>1, <1>3, ScriptLines DEF Types, ThreadState
    <2>2. t \in Nat
      BY <1>3, <2>1 DEF JsonLine
    <2>3. thread' = [thread EXCEPT !.pc = "loop", !.baseTime = t]
      BY <1>3 DEF Step
    <2> HIDE DEF t
    <2> QED
      BY <1>1, <1>3, <2>2, <2>3 DEF Step, ThreadState, ThreadPc
  <1> QED
    BY <1>2, <1>3 DEF BaseTime

(* The head of the loop: the thread leaves it, skips a line, takes one, or *)
(* ends the program.                                                       *)
LEMMA LoopCases ==
    ASSUME Types, Loop
    PROVE  /\ thread.pc = "loop" /\ joinable
           /\ UNCHANGED <<lines, stopFlag, playing, joinable, caller, sent, events>>
           /\ thread' \in ThreadState
           /\ thread'.lines = thread.lines
           /\ \/ /\ thread.i > Len(thread.lines) \/ stopFlag
                 /\ thread'.pc = "done" /\ thread'.i = thread.i
              \/ /\ thread.i <= Len(thread.lines) /\ ~ Good(thread.i)
                 /\ thread'.pc = "loop" /\ thread'.i = thread.i + 1
              \/ /\ Good(thread.i) /\ thread'.pc \in {"test", "check", "terminated"}
                 /\ thread'.i = thread.i
  <1>1. thread.pc = "loop" /\ joinable
    BY DEF Loop, Types
  <1>2. thread.lines \in Script /\ thread.i \in Nat /\ thread.i >= 1
    BY DEF Types, ThreadState
  <1>3. Len(thread.lines) \in Nat /\ DOMAIN thread.lines = 1 .. Len(thread.lines)
    BY <1>2, ScriptLines
  <1>4. CASE thread.i > Len(thread.lines) \/ stopFlag
    <2>1. Step("loop", ThreadAt("done"))
      BY <1>4 DEF Loop
    <2> QED
      BY <1>1, <1>4, <2>1, ThreadAtFields DEF Step, ThreadPc
  <1>5. CASE ~ (thread.i > Len(thread.lines) \/ stopFlag) /\ Line = BadLine
    <2>1. Step("loop", [thread EXCEPT !.i = @ + 1])
      BY <1>5 DEF Loop
    <2>2. /\ thread' \in ThreadState
          /\ thread'.pc = "loop" /\ thread'.i = thread.i + 1 /\ thread'.lines = thread.lines
      <3>1. thread.i + 1 \in Nat /\ thread \in ThreadState
        BY <1>2 DEF Types
      <3>2. thread' = [thread EXCEPT !.i = thread.i + 1]
        BY <2>1 DEF Step
      <3> QED
        BY <1>1, <3>1, <3>2 DEF ThreadState
    <2> QED
      BY <1>1, <1>2, <1>3, <1>5, <2>1, <2>2 DEF Step, Good, Line
  <1>6. CASE /\ ~ (thread.i > Len(thread.lines) \/ stopFlag) /\ Line # BadLine
             /\ ~ Line.topic \/ Line.timestamp_ms = Missing
    <2>1. Step("loop", ThreadAt("terminated"))
      BY <1>6 DEF Loop
    <2>2. Good(thread.i)
      BY <1>2, <1>3, <1>6 DEF Good, Line
    <2> QED
      BY <1>1, <2>1, <2>2, ThreadAtFields DEF Step, ThreadPc
  <1>7. CASE /\ ~ (thread.i > Len(thread.lines) \/ stopFlag) /\ Line # BadLine
             /\ ~ (~ Line.topic \/ Line.timestamp_ms = Missing)
    <2> DEFINE pc == IF Offset > thread.prevOffset THEN "test" ELSE "check"
    <2>1. Step("loop", [thread EXCEPT !.pc = pc, !.prevOffset = Offset])
      BY <1>7 DEF Loop
    <2>2. Good(thread.i)
      BY <1>2, <1>3, <1>7 DEF Good, Line
    <2>3. Offset \in Int /\ pc \in {"test", "check"}
      BY <1>7, <2>2, OffsetType
    <2> HIDE DEF pc
    <2>4. /\ thread' \in ThreadState
          /\ thread'.pc = pc /\ thread'.i = thread.i /\ thread'.lines = thread.lines
      BY <2>1, <2>3 DEF Step, Types, ThreadState, ThreadPc
    <2> QED
      BY <1>1, <2>1, <2>2, <2>3, <2>4 DEF Step
  <1> QED
    BY <1>4, <1>5, <1>7, <1>6

(* The thread's actions keep the types. *)
LEMMA ThreadTypes ==
    ASSUME Types, ThreadStep \/ SpuriousWakeup
    PROVE  Types'
  <1>a. thread \in ThreadState /\ thread.lines \in Script /\ Len(thread.lines) \in Nat
        /\ DOMAIN thread.lines = 1 .. Len(thread.lines)
    BY ScriptLines DEF Types, ThreadState
  <1>1. CASE Loop
    <2>1. thread'.i \in 1 .. Len(thread'.lines) + 1
      BY <1>1, <1>a, LoopCases DEF Types
    <2>2. thread'.pc \in AtLine => Good(thread.i)'
      BY <1>1, LoopCases DEF AtLine, Good
    <2>3. thread'.pc # "base"
      BY <1>1, LoopCases
    <2> QED
      BY <1>1, <2>1, <2>2, <2>3, LoopCases DEF Types, Loaded
  <1>0. CASE BaseTime
    BY <1>0, BaseCases DEF Types, AtLine, Loaded
  <1>2. CASE Test
    <2>1. Step("test", ThreadAt("check")) \/ Step("test", ThreadAt("block"))
      BY <1>2 DEF Test
    <2> QED
      BY <2>1, StepTypes DEF AtLine
  <1>3. CASE Block \/ TimesOut \/ SpuriousWakeup
    BY <1>3, StepTypes DEF Block, TimesOut, SpuriousWakeup, AtLine
  <1>4. CASE CheckFlag
    <2>1. Step("check", ThreadAt("done")) \/ Step("check", ThreadAt("publish"))
      BY <1>4 DEF CheckFlag
    <2> QED
      BY <2>1, StepTypes DEF AtLine
  <1>5. CASE Publish
    <2>1. CASE ~ Line.data
      <3>1. Step("publish", ThreadAt("terminated"))
        BY <1>5, <2>1 DEF Publish, Step
      <3> QED
        BY <3>1, StepTypes DEF AtLine
    <2>2. CASE Line.data
      <3>1. /\ thread.pc = "publish" /\ thread' = ThreadAt("progress") /\ sent' = Append(sent, thread.i)
            /\ UNCHANGED <<lines, stopFlag, playing, joinable, caller, events>>
        BY <1>5, <2>2 DEF Publish
      <3>2. /\ thread' \in ThreadState /\ thread'.pc = "progress"
            /\ thread'.i = thread.i /\ thread'.lines = thread.lines
        BY <3>1, ThreadAtFields DEF ThreadPc
      <3>3. thread.i \in Nat /\ sent' \in Seq(Nat)
        BY <3>1, AppendProperties DEF Types, ThreadState
      <3>4. joinable /\ Good(thread.i)
        BY <3>1 DEF Types, AtLine
      <3> QED
        BY <3>1, <3>2, <3>3, <3>4 DEF Types, Good, Loaded
    <2> QED
      BY <2>1, <2>2
  <1>6. CASE Progress
    <2>1. /\ thread.pc = "progress" /\ thread' = [thread EXCEPT !.pc = "loop", !.i = @ + 1]
          /\ events' = Append(events, [type |-> "progress", current |-> thread.i])
          /\ UNCHANGED <<lines, stopFlag, playing, joinable, caller, sent>>
      BY <1>6 DEF Progress
    <2>2. thread.i \in Nat /\ thread.i + 1 \in Nat /\ joinable /\ Good(thread.i)
      BY <2>1 DEF Types, AtLine, ThreadState
    <2>3. /\ thread' \in ThreadState /\ thread'.pc = "loop"
          /\ thread'.i = thread.i + 1 /\ thread'.lines = thread.lines
      <3>1. thread' = [thread EXCEPT !.pc = "loop", !.i = thread.i + 1]
        BY <2>1
      <3> QED
        BY <1>a, <2>2, <3>1 DEF ThreadState, ThreadPc
    <2>4. events' \in Seq(Event)
      <3>1. [type |-> "progress", current |-> thread.i] \in Event
        BY <2>2 DEF Event
      <3> QED
        BY <2>1, <3>1, AppendProperties DEF Types
    <2>5. thread'.i \in 1 .. Len(thread'.lines) + 1
      BY <1>a, <2>2, <2>3 DEF Good
    <2> QED
      BY <2>1, <2>2, <2>3, <2>4, <2>5 DEF Types, AtLine, Loaded
  <1>7. CASE ReadStopped
    <2>1. /\ thread.pc = "done" /\ thread' = [thread EXCEPT !.pc = "unplay", !.stopped = stopFlag]
          /\ UNCHANGED <<lines, stopFlag, playing, joinable, caller, sent, events>>
      BY <1>7 DEF ReadStopped, Step
    <2>2. /\ thread' \in ThreadState /\ thread'.pc = "unplay"
          /\ thread'.i = thread.i /\ thread'.lines = thread.lines
      BY <1>a, <2>1 DEF ThreadState, ThreadPc, Types
    <2> QED
      BY <2>1, <2>2 DEF Types, AtLine, Loaded
  <1>8. CASE Unplay
    <2>1. /\ thread.pc = "unplay" /\ thread' = ThreadAt("complete") /\ playing' = FALSE
          /\ UNCHANGED <<lines, stopFlag, joinable, caller, sent, events>>
      BY <1>8 DEF Unplay
    <2>2. /\ thread' \in ThreadState /\ thread'.pc = "complete"
          /\ thread'.i = thread.i /\ thread'.lines = thread.lines
      BY <2>1, ThreadAtFields DEF ThreadPc
    <2> QED
      BY <2>1, <2>2 DEF Types, AtLine, Loaded
  <1>9. CASE Complete
    <2> DEFINE e == [type |-> IF thread.stopped THEN "playback_stopped" ELSE "playback_finished"]
    <2>1. /\ thread.pc = "complete" /\ thread' = ThreadAt("exited") /\ events' = Append(events, e)
          /\ UNCHANGED <<lines, stopFlag, playing, joinable, caller, sent>>
      BY <1>9 DEF Complete, ThreadAt
    <2>2. /\ thread' \in ThreadState /\ thread'.pc = "exited"
          /\ thread'.i = thread.i /\ thread'.lines = thread.lines
      BY <2>1, ThreadAtFields DEF ThreadPc
    <2>3. e \in Event
      BY DEF Event
    <2>4. events' \in Seq(Event)
      BY <2>1, <2>3, AppendProperties DEF Types
    <2> QED
      BY <2>1, <2>2, <2>4 DEF Types, AtLine, Loaded
  <1> QED
    BY <1>0, <1>1, <1>2, <1>3, <1>4, <1>5, <1>6, <1>7, <1>8, <1>9 DEF ThreadStep

(* A step of a caller that leaves the thread and the histories alone keeps *)
(* the types.                                                              *)
LEMMA CallerFrame ==
    ASSUME Types, UNCHANGED <<thread, sent>>,
           lines' \in Script, stopFlag' \in BOOLEAN, playing' \in BOOLEAN, joinable' \in BOOLEAN,
           caller' \in [Caller -> Control], events' \in Seq(Event), thread.pc # "exited" => joinable',
           Loaded'
    PROVE  Types'
  BY DEF Types, Good

(* The callers' actions keep the types. *)
LEMMA CallerTypes ==
    ASSUME Types, NEW c \in Caller,
           \/ \E r \in Recording : CallLoad(c, r)
           \/ CallStart(c) \/ CallStop(c) \/ Destroy(c) \/ CallerStep(c)
    PROVE  Types'
  <1>a. /\ lines \in Script /\ stopFlag \in BOOLEAN /\ playing \in BOOLEAN /\ joinable \in BOOLEAN
        /\ events \in Seq(Event) /\ caller \in [Caller -> Control] /\ thread \in ThreadState
        /\ thread.pc # "exited" => joinable
        /\ caller[c].body \in Script /\ caller[c].then \in {"return", "load", "snapshot", "destroyed"}
    BY DEF Types, Control
  <1>1. ASSUME NEW then \in {"return", "load", "snapshot", "destroyed"}, NEW body \in Script,
               Enter(c, then, body)
        PROVE  Types'
    <2>1. caller' \in [Caller -> Control] /\ Loaded'
      <3> DEFINE s == [pc |-> "flag", then |-> then, body |-> body]
      <3>1. s \in Control /\ s.pc \notin Starting
        BY <1>1 DEF Control, CallerPc, Starting
      <3>2. caller' = [caller EXCEPT ![c] = s]
        BY <1>1 DEF Enter
      <3> HIDE DEF s
      <3> QED
        BY <3>1, <3>2, LoadedKept
    <2> QED
      BY <1>1, <1>a, <2>1, CallerFrame DEF Enter
  <1>2. CASE (\E r \in Recording : CallLoad(c, r)) \/ CallStart(c) \/ CallStop(c) \/ Destroy(c)
    BY <1>1, <1>2 DEF CallLoad, CallStart, CallStop, Destroy, Script
  <1>3. CASE StopFlag(c)
    BY <1>3, <1>a, GotoFields, CallerFrame DEF StopFlag, CallerPc, Starting
  <1>4. CASE StopNotify(c)
    <2>1. /\ caller' \in [Caller -> Control] /\ Loaded'
          /\ UNCHANGED <<lines, stopFlag, playing, joinable, sent, events>>
      BY <1>4, GotoFields DEF StopNotify, CallerPc, Starting
    <2>2. CASE thread.pc = "asleep"
      <3>1. thread' = ThreadAt("test")
        BY <1>4, <2>2 DEF StopNotify, ThreadAt
      <3>2. /\ thread' \in ThreadState /\ thread'.pc = "test"
            /\ thread'.i = thread.i /\ thread'.lines = thread.lines
        BY <3>1, ThreadAtFields DEF ThreadPc
      <3>3. joinable /\ Good(thread.i)
        BY <2>2 DEF Types, AtLine
      <3> QED
        BY <2>1, <3>2, <3>3 DEF Types, Good
    <2>3. CASE thread.pc # "asleep"
      <3>1. thread' = thread
        BY <1>4, <2>3 DEF StopNotify
      <3> QED
        BY <1>a, <2>1, <3>1, CallerFrame
    <2> QED
      BY <2>2, <2>3
  <1>5. CASE StopTestsJoinable(c)
    <2>1. (IF joinable THEN "join" ELSE "unplay") \in CallerPc \ Starting
      BY DEF CallerPc, Starting
    <2> QED
      BY <1>5, <1>a, <2>1, GotoFields, CallerFrame DEF StopTestsJoinable
  <1>6. CASE StopJoin(c)
    <2>1. (IF joinable THEN "unplay" ELSE "terminated") \in CallerPc \ Starting
      BY DEF CallerPc, Starting
    <2> QED
      BY <1>6, <1>a, <2>1, GotoFields, CallerFrame DEF StopJoin
  <1>7. CASE StopUnplay(c)
    <2> DEFINE pc == IF caller[c].then = "return" THEN "idle" ELSE caller[c].then
    <2>1. pc \in CallerPc \ Starting
      BY <1>a DEF CallerPc, Starting
    <2>2. Goto(c, pc)
      BY <1>7 DEF StopUnplay, Goto
    <2> HIDE DEF pc
    <2> QED
      BY <1>7, <1>a, <2>1, <2>2, GotoFields, CallerFrame DEF StopUnplay
  <1>8. CASE Load(c)
    <2>1. Idle \in Control /\ Idle.pc \notin Starting
      BY DEF Idle, Control, CallerPc, Script, Starting
    <2>2. caller' \in [Caller -> Control] /\ Loaded' /\ lines' \in Script
      BY <1>8, <1>a, <2>1, LoadedKept DEF Load
    <2> QED
      BY <1>8, <1>a, <2>2, CallerFrame DEF Load
  <1>9. CASE Snapshot(c)
    <2>1. caller' \in [Caller -> Control] /\ Loaded'
      <3>1. CASE lines = <<>>
        BY <1>9, <3>1, GotoFields DEF Snapshot, CallerPc, Starting
      <3>2. CASE lines # <<>>
        <4> DEFINE s == [caller[c] EXCEPT !.pc = "reset", !.body = lines]
        <4>1. caller' = [caller EXCEPT ![c] = s]
          BY <1>9, <3>2 DEF Snapshot
        <4>2. s \in Control /\ s.body # <<>>
          BY <1>a, <3>2 DEF Control, CallerPc
        <4> HIDE DEF s
        <4> QED
          BY <4>1, <4>2, LoadedKept
      <3> QED
        BY <3>1, <3>2
    <2>2. [type |-> "playback_finished"] \in Event
      BY DEF Event
    <2>3. events' \in Seq(Event) /\ sent' \in Seq(Nat)
      <3>1. events' \in {<<>>, <<[type |-> "playback_finished"]>>} /\ sent' = <<>>
        BY <1>9 DEF Snapshot
      <3>2. <<[type |-> "playback_finished"]>> \in Seq(Event)
        BY <2>2
      <3> QED
        BY <3>1, <3>2, EmptySeq
    <2> QED
      BY <1>9, <2>1, <2>3 DEF Snapshot, Types, Good
  <1>10. CASE StartReset(c)
    BY <1>10, <1>a, GotoFields, CallerFrame DEF StartReset, CallerPc, At, Starting
  <1>11. CASE StartPlay(c)
    BY <1>11, <1>a, GotoFields, CallerFrame DEF StartPlay, CallerPc, At, Starting
  <1>12. CASE Spawn(c)
    <2>1. CASE joinable
      BY <1>12, <1>a, <2>1, GotoFields, CallerFrame DEF Spawn, CallerPc, Starting
    <2>2. CASE ~ joinable
      <3>1. /\ joinable' = TRUE /\ Goto(c, "announce")
            /\ thread' = [NoThread EXCEPT !.pc = "base", !.lines = caller[c].body]
            /\ UNCHANGED <<lines, stopFlag, playing, sent, events>>
        BY <1>12, <2>2 DEF Spawn
      <3>2. caller' \in [Caller -> Control] /\ Loaded'
        BY <3>1, GotoFields DEF CallerPc, Starting
      <3>3. /\ thread' \in ThreadState
            /\ thread'.pc = "base" /\ thread'.i = 1 /\ thread'.lines = caller[c].body
        <4>1. thread' = [pc |-> "base", lines |-> caller[c].body, baseTime |-> 0, i |-> 1,
                         prevOffset |-> 0, stopped |-> FALSE]
          BY <3>1 DEF NoThread
        <4> QED
          BY <1>a, <4>1 DEF ThreadState, ThreadPc
      <3>4. thread'.i \in 1 .. Len(thread'.lines) + 1
        BY <1>a, <3>3, ScriptLines
      <3>5. caller[c].body # <<>>
        BY <1>12 DEF Spawn, At, Types, Loaded, Starting
      <3> QED
        BY <3>1, <3>2, <3>3, <3>4, <3>5 DEF Types, AtLine
    <2> QED
      BY <2>1, <2>2
  <1>13. CASE Announce(c)
    <2>1. Idle \in Control /\ Idle.pc \notin Starting /\ [type |-> "playback_started"] \in Event
      BY DEF Idle, Control, CallerPc, Script, Event, Starting
    <2>2. caller' \in [Caller -> Control] /\ Loaded' /\ events' \in Seq(Event)
      BY <1>13, <1>a, <2>1, LoadedKept, AppendProperties DEF Announce
    <2> QED
      BY <1>13, <1>a, <2>2, CallerFrame DEF Announce
  <1> QED
    BY <1>2, <1>3, <1>4, <1>5, <1>6, <1>7, <1>8, <1>9, <1>10, <1>11, <1>12, <1>13 DEF CallerStep

(* The types hold initially ... *)
LEMMA TypesInit == Init => Types
  <1> SUFFICES ASSUME Init
               PROVE  Types
    OBVIOUS
  <1>1. thread \in ThreadState /\ thread.i \in 1 .. Len(thread.lines) + 1 /\ thread.pc = "exited"
    BY DEF Init, NoThread, ThreadState, ThreadPc, Script
  <1>2. Idle \in Control /\ Idle.pc \notin Starting
    BY DEF Idle, Control, CallerPc, Script, Starting
  <1> QED
    BY <1>1, <1>2, EmptySeq DEF Init, Types, Script, AtLine, Loaded

(* ... and are kept by every step. *)
LEMMA TypesNext == Types /\ [Next]_vars => Types'
  <1> SUFFICES ASSUME Types, [Next]_vars
               PROVE  Types'
    OBVIOUS
  <1>1. CASE Next
    BY <1>1, ThreadTypes, CallerTypes DEF Next
  <1>2. CASE UNCHANGED vars
    BY <1>2 DEF vars, Types, Good, Loaded
  <1> QED
    BY <1>1, <1>2

(* The types of PlaybackEngine, and that no thread runs that nobody can    *)
(* join, for any number of callers at the same time.                       *)
THEOREM TypeCorrect == Spec => []TypeOK
  <1>1. Types => TypeOK
    BY DEF Types, TypeOK, Script, ThreadState, ThreadPc, Control, CallerPc
  <1> QED
    BY <1>1, TypesInit, TypesNext, PTL DEF Spec

-----------------------------------------------------------------------------
(* What Append does, element by element. *)
LEMMA Appended ==
    ASSUME NEW S, NEW s \in Seq(S), NEW e \in S, NEW a, a = Append(s, e)
    PROVE  /\ Len(s) \in Nat /\ DOMAIN s = 1 .. Len(s)
           /\ Len(a) = Len(s) + 1 /\ DOMAIN a = 1 .. Len(s) + 1
           /\ \A n \in 1 .. Len(s) : a[n] = s[n]
           /\ a[Len(s) + 1] = e
  BY AppendProperties, LenProperties

(* Without a thread to join no thread runs. *)
LEMMA NotJoinable ==
    ASSUME Types, ~ joinable
    PROVE  thread.pc = "exited"
  BY DEF Types

(* Everything but the types. *)
Rest == Owned /\ Running /\ Replayed /\ PublishesInOrder /\ ReportsInOrder /\ EndsOnce

(* A step that changes neither the histories nor the thread's lines.       *)
LEMMA HistoriesKept ==
    ASSUME thread'.lines = thread.lines, UNCHANGED <<sent, events>>
    PROVE  /\ PublishesInOrder /\ ReportsInOrder /\ EndsOnce
                => PublishesInOrder' /\ ReportsInOrder' /\ EndsOnce'
           /\ \A k : (Sent(k)' <=> Sent(k)) /\ (Reported(k)' <=> Reported(k)) /\ (Good(k)' <=> Good(k))
           /\ Told("playback_finished")' <=> Told("playback_finished")
  BY DEF PublishesInOrder, ReportsInOrder, EndsOnce, Sent, Reported, Good, Told

(* While a thread can be joined no caller is between stop() and the        *)
(* creation of the next thread, so that no thread step disturbs Owned.     *)
LEMMA OwnedKept ==
    ASSUME Owned, joinable, UNCHANGED <<caller, joinable>>
    PROVE  Owned'
  BY DEF Owned

(* A step of the thread that publishes and reports nothing. *)
LEMMA QuietStep ==
    ASSUME Types, Types', Rest, thread.pc \notin {"exited", "progress"},
           UNCHANGED <<stopFlag, joinable, caller, sent, events>>,
           thread'.lines = thread.lines, thread'.pc \notin {"exited", "progress"},
           \/ thread'.i = thread.i
           \/ thread'.i = thread.i + 1 /\ ~ Good(thread.i),
           thread'.pc # "complete" => playing',
           thread'.pc = "done" => thread.i > Len(thread.lines) \/ stopFlag,
           (thread'.pc \in {"unplay", "complete"} /\ ~ thread'.stopped) => thread.i > Len(thread.lines)
    PROVE  Rest'
  <1>1. joinable
    BY DEF Types
  <1>2. Owned'
    BY <1>1, OwnedKept DEF Rest
  <1>3. /\ PublishesInOrder' /\ ReportsInOrder' /\ EndsOnce'
        /\ \A k : (Sent(k)' <=> Sent(k)) /\ (Reported(k)' <=> Reported(k)) /\ (Good(k)' <=> Good(k))
        /\ Told("playback_finished")' <=> Told("playback_finished")
    BY HistoriesKept DEF Rest
  <1>4. thread.i \in Nat /\ thread'.i \in Nat /\ Len(thread.lines) \in Nat
    BY ScriptLines DEF Types, ThreadState
  <1>5. Replayed'
    <2> SUFFICES ASSUME NEW k \in Nat
                 PROVE  /\ Sent(k)' <=> Good(k)' /\ (k < thread'.i \/ (k = thread'.i /\ thread'.pc = "progress"))
                        /\ Reported(k)' <=> Good(k)' /\ k < thread'.i
      BY DEF Replayed
    <2>1. /\ Sent(k) <=> Good(k) /\ k < thread.i
          /\ Reported(k) <=> Good(k) /\ k < thread.i
      BY <1>1 DEF Rest, Replayed
    <2>2. Good(k) => (k < thread'.i <=> k < thread.i)
      BY <1>4
    <2> QED
      BY <1>3, <2>1, <2>2
  <1>6. Running'
    <2>1. thread'.i > Len(thread'.lines) \/ ~ (thread.i > Len(thread.lines))
      BY <1>4
    <2> QED
      BY <1>1, <1>3, <2>1 DEF Rest, Running
  <1> QED
    BY <1>2, <1>3, <1>5, <1>6 DEF Rest

(* The thread publishes its line: the lines before it are all out. *)
LEMMA PublishKeeps ==
    ASSUME Types, Types', Rest, Publish, Line.data
    PROVE  Rest'
  <1>1. /\ thread.pc = "publish" /\ thread' = ThreadAt("progress") /\ sent' = Append(sent, thread.i)
        /\ UNCHANGED <<lines, stopFlag, playing, joinable, caller, events>>
    BY DEF Publish
  <1>2. /\ thread'.pc = "progress" /\ thread'.i = thread.i /\ thread'.lines = thread.lines
        /\ thread'.stopped = thread.stopped
    BY <1>1, ThreadAtFields DEF ThreadPc
  <1>3. joinable /\ Good(thread.i) /\ thread.i \in Nat /\ sent \in Seq(Nat)
    BY <1>1 DEF Types, AtLine, ThreadState
  <1> DEFINE L == Len(sent)
  <1>4. /\ L \in Nat /\ DOMAIN sent = 1 .. L /\ DOMAIN sent' = 1 .. L + 1 /\ Len(sent') = L + 1
        /\ \A n \in 1 .. L : sent'[n] = sent[n] /\ sent[n] \in Nat
        /\ sent'[L + 1] = thread.i
    <2>1. \A n \in DOMAIN sent : sent[n] \in Nat
      BY <1>3
    <2> QED
      BY <1>1, <1>3, <2>1, Appended
  <1>5. \A n \in DOMAIN sent' : n \in DOMAIN sent \/ n = L + 1
    BY <1>4
  <1> HIDE DEF L
  <1>6. \A k \in Nat : /\ Sent(k) <=> Good(k) /\ k < thread.i
                       /\ Reported(k) <=> Good(k) /\ k < thread.i
    BY <1>1, <1>3 DEF Rest, Replayed
  <1>7. \A k : Sent(k)' <=> (Sent(k) \/ k = thread.i)
    <2>1. ASSUME NEW k, Sent(k)' PROVE Sent(k) \/ k = thread.i
      BY <1>4, <1>5, <2>1 DEF Sent
    <2>2. ASSUME NEW k, Sent(k) PROVE Sent(k)'
      <3>1. PICK n \in 1 .. L : sent[n] = k
        BY <1>4, <2>2 DEF Sent
      <3>2. n \in DOMAIN sent' /\ sent'[n] = k
        BY <1>4, <3>1
      <3> QED
        BY <3>2 DEF Sent
    <2>3. L + 1 \in DOMAIN sent'
      BY <1>4
    <2>4. \A k : k = thread.i => Sent(k)'
      BY <1>4, <2>3 DEF Sent
    <2> QED
      BY <2>1, <2>2, <2>4
  <1>8. \A k : (Good(k)' <=> Good(k)) /\ (Reported(k)' <=> Reported(k))
    BY <1>1, <1>2 DEF Good, Reported
  <1>9. Owned'
    BY <1>1, <1>3, OwnedKept DEF Rest
  <1>10. Running'
    <2>1. Told("playback_finished")' <=> Told("playback_finished")
      BY <1>1 DEF Told
    <2> QED
      BY <1>1, <1>2, <2>1 DEF Rest, Running
  <1>11. Replayed'
    <2> SUFFICES ASSUME NEW k \in Nat
                 PROVE  /\ Sent(k)' <=> Good(k)' /\ (k < thread'.i \/ (k = thread'.i /\ thread'.pc = "progress"))
                        /\ Reported(k)' <=> Good(k)' /\ k < thread'.i
      BY DEF Replayed
    <2> QED
      BY <1>2, <1>3, <1>6, <1>7, <1>8
  <1>12. \A n \in DOMAIN sent : Sent(sent[n]) /\ sent[n] \in Nat /\ sent[n] < thread.i /\ Good(sent[n])
    <2>1. \A n \in DOMAIN sent : Sent(sent[n]) /\ sent[n] \in Nat
      BY <1>4 DEF Sent
    <2> QED
      BY <1>6, <2>1
  <1>13. PublishesInOrder'
    <2>1. ASSUME NEW m \in DOMAIN sent', NEW n \in DOMAIN sent', m < n
          PROVE  sent'[m] < sent'[n]
      <3>1. m \in DOMAIN sent
        BY <1>4, <2>1
      <3>2. CASE n \in DOMAIN sent
        BY <1>4, <2>1, <3>1, <3>2 DEF Rest, PublishesInOrder
      <3>3. CASE n = L + 1
        BY <1>4, <1>12, <3>1, <3>3
      <3> QED
        BY <1>5, <3>2, <3>3
    <2>2. ASSUME NEW n \in DOMAIN sent'
          PROVE  Good(sent'[n]) /\ \A k \in 1 .. sent'[n] - 1 : Good(k) => (Sent(k) \/ k = thread.i)
      <3>1. CASE n \in DOMAIN sent
        BY <1>4, <3>1 DEF Rest, PublishesInOrder
      <3>2. CASE n = L + 1
        <4>1. \A k \in 1 .. thread.i - 1 : k \in Nat /\ k < thread.i
          BY <1>3
        <4> QED
          BY <1>3, <1>4, <1>6, <3>2, <4>1
      <3> QED
        BY <1>5, <3>1, <3>2
    <2>3. ASSUME NEW n \in DOMAIN sent'
          PROVE  Good(sent[n])' /\ \A k \in 1 .. sent'[n] - 1 : Good(k)' => Sent(k)'
      BY <1>2, <1>7, <1>8, <2>2 DEF Good
    <2> QED
      BY <2>1, <2>3 DEF PublishesInOrder
  <1>14. ReportsInOrder'
    <2>1. \A n \in DOMAIN sent' : n < Len(sent') => Reported(sent'[n])
      <3> SUFFICES ASSUME NEW n \in DOMAIN sent', n < Len(sent')
                   PROVE  Reported(sent'[n])
        OBVIOUS
      <3>1. n \in DOMAIN sent /\ sent'[n] = sent[n]
        BY <1>4
      <3> QED
        BY <1>6, <1>12, <3>1
    <2>2. \A n \in DOMAIN events : events[n].type = "progress" => Sent(events[n].current)
      BY DEF Rest, ReportsInOrder
    <2>3. \A n \in DOMAIN events' : events'[n].type = "progress" => Sent(events[n].current)'
      BY <1>1, <1>7, <2>2 DEF Sent
    <2> QED
      BY <1>1, <2>1, <2>3 DEF Rest, ReportsInOrder, Reported
  <1>15. EndsOnce'
    BY <1>1 DEF Rest, EndsOnce
  <1> QED
    BY <1>9, <1>10, <1>11, <1>13, <1>14, <1>15 DEF Rest

(* What the clients know after one more event. *)
LEMMA EventsAppended ==
    ASSUME Types, NEW e \in Event, events' = Append(events, e)
    PROVE  /\ Len(events) \in Nat /\ DOMAIN events = 1 .. Len(events)
           /\ Len(events') = Len(events) + 1 /\ DOMAIN events' = 1 .. Len(events) + 1
           /\ \A n \in DOMAIN events : n \in DOMAIN events' /\ events'[n] = events[n]
           /\ Len(events) + 1 \in DOMAIN events' /\ events'[Len(events) + 1] = e
           /\ \A n \in DOMAIN events' : n \in DOMAIN events \/ n = Len(events) + 1
           /\ \A k : Reported(k)' <=> (Reported(k) \/ e = [type |-> "progress", current |-> k])
           /\ \A t : Told(t)' <=> (Told(t) \/ e.type = t)
  <1> DEFINE L == Len(events)
  <1>1. /\ L \in Nat /\ DOMAIN events = 1 .. L
        /\ Len(events') = L + 1 /\ DOMAIN events' = 1 .. L + 1
        /\ \A n \in 1 .. L : events'[n] = events[n]
        /\ events'[L + 1] = e
    BY Appended DEF Types
  <1>2. /\ \A n \in DOMAIN events : n \in DOMAIN events' /\ events'[n] = events[n]
        /\ L + 1 \in DOMAIN events' /\ events'[L + 1] = e
        /\ \A n \in DOMAIN events' : n \in DOMAIN events \/ n = L + 1
    BY <1>1
  <1> HIDE DEF L
  <1>3. \A k : Reported(k)' <=> (Reported(k) \/ e = [type |-> "progress", current |-> k])
    <2>1. ASSUME NEW k, Reported(k)' PROVE Reported(k) \/ e = [type |-> "progress", current |-> k]
      BY <1>2, <2>1 DEF Reported
    <2>2. ASSUME NEW k, Reported(k) \/ e = [type |-> "progress", current |-> k] PROVE Reported(k)'
      BY <1>2, <2>2 DEF Reported
    <2> QED
      BY <2>1, <2>2
  <1>4. \A t : Told(t)' <=> (Told(t) \/ e.type = t)
    <2>1. ASSUME NEW t, Told(t)' PROVE Told(t) \/ e.type = t
      BY <1>2, <2>1 DEF Told
    <2>2. ASSUME NEW t, Told(t) \/ e.type = t PROVE Told(t)'
      BY <1>2, <2>2 DEF Told
    <2> QED
      BY <2>1, <2>2
  <1> QED
    BY <1>1, <1>2, <1>3, <1>4 DEF L

(* A progress event is a report. *)
LEMMA ProgressIsReport ==
    ASSUME Types, NEW n \in DOMAIN events, events[n].type = "progress"
    PROVE  events[n].current \in Nat /\ Reported(events[n].current)
  <1>1. events[n] \in Event
    BY DEF Types
  <1>2. events[n] \in [type : {"progress"}, current : Nat]
    BY <1>1 DEF Event
  <1>3. events[n] = [type |-> "progress", current |-> events[n].current] /\ events[n].current \in Nat
    BY <1>2
  <1> QED
    BY <1>3 DEF Reported

(* One more event after an end breaks EndsOnce only if it is not the start. *)
LEMMA EndsOnceKept ==
    ASSUME Types, NEW e \in Event, events' = Append(events, e), EndsOnce,
           \/ e.type = "playback_started"
           \/ \A n \in DOMAIN events : ~ IsEnd(events[n])
    PROVE  EndsOnce'
  <1> DEFINE L == Len(events)
  <1>1. /\ L \in Nat /\ DOMAIN events = 1 .. L /\ Len(events') = L + 1
        /\ \A n \in DOMAIN events : events'[n] = events[n]
        /\ events'[L + 1] = e
        /\ \A n \in DOMAIN events' : n \in DOMAIN events \/ n = L + 1
    BY EventsAppended
  <1> HIDE DEF L
  <1> SUFFICES ASSUME NEW k \in DOMAIN events', IsEnd(events'[k]), NEW j \in k + 1 .. L + 1
               PROVE  events'[j].type = "playback_started"
    BY <1>1 DEF EndsOnce, IsEnd
  <1>2. k \in DOMAIN events /\ IsEnd(events[k])
    BY <1>1
  <1>3. CASE j = L + 1
    BY <1>1, <1>2, <1>3
  <1>4. CASE j # L + 1
    <2>1. j \in k + 1 .. Len(events) /\ j \in DOMAIN events
      BY <1>1, <1>2, <1>4 DEF L
    <2> QED
      BY <1>1, <1>2, <2>1 DEF EndsOnce, IsEnd
  <1> QED
    BY <1>3, <1>4

(* The thread reports the line it has published and goes on to the next.   *)
LEMMA ProgressKeeps ==
    ASSUME Types, Types', Rest, Progress
    PROVE  Rest'
  <1> DEFINE e == [type |-> "progress", current |-> thread.i]
  <1>1. /\ thread.pc = "progress" /\ thread' = [thread EXCEPT !.pc = "loop", !.i = thread.i + 1]
        /\ events' = Append(events, e)
        /\ UNCHANGED <<lines, stopFlag, playing, joinable, caller, sent>>
    BY DEF Progress
  <1>2. joinable /\ Good(thread.i) /\ thread.i \in Nat /\ thread \in ThreadState
    BY <1>1 DEF Types, AtLine, ThreadState
  <1>3. /\ thread'.pc = "loop" /\ thread'.i = thread.i + 1 /\ thread'.lines = thread.lines
    BY <1>1, <1>2 DEF ThreadState
  <1>4. e \in Event /\ e.type = "progress" /\ e.current = thread.i
    BY <1>2 DEF Event
  <1>5. \A k : e = [type |-> "progress", current |-> k] <=> k = thread.i
    OBVIOUS
  <1> HIDE DEF e
  <1>6. \A k \in Nat : /\ Sent(k) <=> Good(k) /\ k <= thread.i
                       /\ Reported(k) <=> Good(k) /\ k < thread.i
    BY <1>1, <1>2 DEF Rest, Replayed
  <1>7. \A k : Reported(k)' <=> (Reported(k) \/ k = thread.i)
    BY <1>1, <1>4, <1>5, EventsAppended
  <1>8. \A k : (Good(k)' <=> Good(k)) /\ (Sent(k)' <=> Sent(k))
    BY <1>1, <1>3 DEF Good, Sent
  <1>9. Owned'
    BY <1>1, <1>2, OwnedKept DEF Rest
  <1>10. \A n \in DOMAIN events : ~ IsEnd(events[n])
    BY <1>1 DEF Rest, Running
  <1>11. Running'
    <2>1. ~ Told("playback_finished")'
      <3>1. ~ Told("playback_finished")
        BY <1>10 DEF Told, IsEnd
      <3> QED
        BY <1>1, <1>4, <3>1, EventsAppended
    <2>2. \A n \in DOMAIN events' : ~ IsEnd(events'[n])
      BY <1>1, <1>4, <1>10, EventsAppended DEF IsEnd
    <2> QED
      BY <1>1, <1>3, <2>1, <2>2 DEF Rest, Running, IsEnd
  <1>12. Replayed'
    <2> SUFFICES ASSUME NEW k \in Nat
                 PROVE  /\ Sent(k)' <=> Good(k)' /\ (k < thread'.i \/ (k = thread'.i /\ thread'.pc = "progress"))
                        /\ Reported(k)' <=> Good(k)' /\ k < thread'.i
      BY DEF Replayed
    <2> QED
      BY <1>2, <1>3, <1>6, <1>7, <1>8
  <1>13. PublishesInOrder'
    BY <1>1, <1>3 DEF Rest, PublishesInOrder, Good, Sent
  <1>14. ReportsInOrder'
    <2>1. \A n \in DOMAIN events : events[n].type = "progress" =>
             events[n].current \in Nat /\ events[n].current < thread.i
      BY <1>6, ProgressIsReport
    <2>2. ASSUME NEW m \in DOMAIN events', NEW n \in DOMAIN events', m < n,
                 events'[m].type = "progress", events'[n].type = "progress"
          PROVE  events'[m].current < events'[n].current
      <3>1. m \in DOMAIN events /\ events'[m] = events[m]
        BY <1>1, <1>4, <2>2, EventsAppended
      <3>2. CASE n \in DOMAIN events
        <4>1. events'[n] = events[n]
          BY <1>1, <1>4, <3>2, EventsAppended
        <4> QED
          BY <2>2, <3>1, <3>2, <4>1 DEF Rest, ReportsInOrder
      <3>3. CASE n \notin DOMAIN events
        <4>1. events'[n] = e
          BY <1>1, <1>4, <3>3, EventsAppended
        <4> QED
          BY <1>4, <2>1, <2>2, <3>1, <4>1
      <3> QED
        BY <3>2, <3>3
    <2>3. ASSUME NEW n \in DOMAIN events', events'[n].type = "progress"
          PROVE  Sent(events'[n].current)
      <3>1. CASE n \in DOMAIN events
        <4>1. events'[n] = events[n]
          BY <1>1, <1>4, <3>1, EventsAppended
        <4> QED
          BY <2>3, <3>1, <4>1 DEF Rest, ReportsInOrder
      <3>2. CASE n \notin DOMAIN events
        <4>1. events'[n] = e
          BY <1>1, <1>4, <3>2, EventsAppended
        <4> QED
          BY <1>2, <1>4, <1>6, <4>1
      <3> QED
        BY <3>1, <3>2
    <2>4. \A n \in DOMAIN sent : n < Len(sent) => Reported(sent[n])
      BY DEF Rest, ReportsInOrder
    <2>5. \A n \in DOMAIN sent' : n < Len(sent') => Reported(sent[n])'
      BY <1>1, <1>7, <2>4 DEF Reported
    <2>6. \A n \in DOMAIN events' : events'[n].type = "progress" => Sent(events[n].current)'
      BY <1>1, <2>3 DEF Sent
    <2> QED
      BY <2>2, <2>5, <2>6 DEF ReportsInOrder
  <1>15. EndsOnce'
    BY <1>1, <1>4, <1>10, EndsOnceKept DEF Rest
  <1> QED
    BY <1>9, <1>11, <1>12, <1>13, <1>14, <1>15 DEF Rest

(* An event that is no report changes nothing about the lines. *)
LEMMA OtherEvent ==
    ASSUME Types, NEW e \in Event, e.type # "progress", events' = Append(events, e),
           sent' = sent, thread'.lines = thread.lines, PublishesInOrder, ReportsInOrder
    PROVE  /\ PublishesInOrder' /\ ReportsInOrder'
           /\ \A k : (Sent(k)' <=> Sent(k)) /\ (Reported(k)' <=> Reported(k)) /\ (Good(k)' <=> Good(k))
  <1>1. \A k : (Sent(k)' <=> Sent(k)) /\ (Good(k)' <=> Good(k))
    BY DEF Sent, Good
  <1>2. \A k : Reported(k)' <=> Reported(k)
    <2>1. \A k : e # [type |-> "progress", current |-> k]
      OBVIOUS
    <2> QED
      BY <2>1, EventsAppended
  <1>3. PublishesInOrder'
    BY DEF PublishesInOrder, Good, Sent
  <1>4. \A n \in DOMAIN events' : events'[n].type = "progress" =>
           n \in DOMAIN events /\ events'[n] = events[n]
    BY EventsAppended
  <1>5. /\ \A m, n \in DOMAIN events' :
             (m < n /\ events'[m].type = "progress" /\ events'[n].type = "progress")
                => events'[m].current < events'[n].current
        /\ \A n \in DOMAIN events' : events'[n].type = "progress" => Sent(events'[n].current)
    BY <1>4 DEF ReportsInOrder
  <1>6. \A n \in DOMAIN sent' : n < Len(sent') => Reported(sent[n])'
    <2>1. \A n \in DOMAIN sent : n < Len(sent) => Reported(sent[n])
      BY DEF ReportsInOrder
    <2> QED
      BY <1>2, <2>1 DEF Reported
  <1>7. \A n \in DOMAIN events' : events'[n].type = "progress" => Sent(events[n].current)'
    BY <1>5 DEF Sent
  <1>8. ReportsInOrder'
    BY <1>5, <1>6, <1>7 DEF ReportsInOrder
  <1> QED
    BY <1>1, <1>2, <1>3, <1>8

(* The thread tells the end, once, and is no more. *)
LEMMA CompleteKeeps ==
    ASSUME Types, Types', Rest, Complete
    PROVE  Rest'
  <1> DEFINE e == [type |-> IF thread.stopped THEN "playback_stopped" ELSE "playback_finished"]
  <1>1. /\ thread.pc = "complete" /\ thread' = ThreadAt("exited") /\ events' = Append(events, e)
        /\ UNCHANGED <<lines, stopFlag, playing, joinable, caller, sent>>
    BY DEF Complete, ThreadAt
  <1>2. /\ thread'.pc = "exited" /\ thread'.i = thread.i /\ thread'.lines = thread.lines
        /\ thread'.stopped = thread.stopped
    BY <1>1, ThreadAtFields DEF ThreadPc
  <1>3. e \in Event /\ e.type # "progress"
    BY DEF Event
  <1>4. e.type = "playback_finished" => ~ thread.stopped
    OBVIOUS
  <1>5. joinable
    BY <1>1 DEF Types
  <1> HIDE DEF e
  <1>6. /\ PublishesInOrder' /\ ReportsInOrder'
        /\ \A k : (Sent(k)' <=> Sent(k)) /\ (Reported(k)' <=> Reported(k)) /\ (Good(k)' <=> Good(k))
    BY <1>1, <1>2, <1>3, OtherEvent DEF Rest
  <1>7. Owned'
    BY <1>1, <1>5, OwnedKept DEF Rest
  <1>8. Running'
    <2>1. Told("playback_finished")' => Told("playback_finished") \/ ~ thread.stopped
      BY <1>1, <1>3, <1>4, EventsAppended
    <2>2. Told("playback_finished")' => thread.i > Len(thread.lines)
      BY <1>1, <1>5, <2>1 DEF Rest, Running
    <2> QED
      BY <1>2, <2>2 DEF Running
  <1>9. Replayed'
    BY <1>1, <1>2, <1>6 DEF Rest, Replayed
  <1>10. EndsOnce'
    <2>1. \A n \in DOMAIN events : ~ IsEnd(events[n])
      BY <1>1 DEF Rest, Running
    <2> QED
      BY <1>1, <1>3, <2>1, EndsOnceKept DEF Rest
  <1> QED
    BY <1>6, <1>7, <1>8, <1>9, <1>10 DEF Rest

(* Every action of the thread keeps the rest of the invariant. *)
LEMMA ThreadKeeps ==
    ASSUME Types, Types', Rest, ThreadStep \/ SpuriousWakeup
    PROVE  Rest'
  <1>1. CASE Loop
    <2>1. playing
      BY <1>1, LoopCases DEF Rest, Running
    <2> QED
      BY <1>1, <2>1, LoopCases, QuietStep
  <1>0. CASE BaseTime
    <2>1. playing
      BY <1>0, BaseCases DEF Rest, Running
    <2> QED
      BY <1>0, <2>1, BaseCases, QuietStep
  <1>2. ASSUME NEW from \in AtLine \ {"progress"},
               NEW pc \in (AtLine \cup {"done", "terminated"}) \ {"progress"},
               Step(from, ThreadAt(pc)), pc = "done" => stopFlag
        PROVE  Rest'
    <2>1. /\ thread.pc = from /\ thread' = ThreadAt(pc)
          /\ UNCHANGED <<lines, stopFlag, playing, joinable, caller, sent, events>>
      BY <1>2 DEF Step
    <2>2. thread'.pc = pc /\ thread'.i = thread.i /\ thread'.lines = thread.lines
      BY <2>1, ThreadAtFields DEF AtLine, ThreadPc
    <2>3. playing
      BY <2>1 DEF Rest, Running, AtLine
    <2> QED
      BY <1>2, <2>1, <2>2, <2>3, QuietStep DEF AtLine
  <1>3. CASE Test
    <2>1. Step("test", ThreadAt("check")) \/ Step("test", ThreadAt("block"))
      BY <1>3 DEF Test
    <2> QED
      BY <1>2, <2>1 DEF AtLine
  <1>4. CASE Block \/ TimesOut \/ SpuriousWakeup
    BY <1>2, <1>4 DEF Block, TimesOut, SpuriousWakeup, AtLine
  <1>5. CASE CheckFlag
    <2>1. (stopFlag /\ Step("check", ThreadAt("done"))) \/ Step("check", ThreadAt("publish"))
      BY <1>5 DEF CheckFlag
    <2> QED
      BY <1>2, <2>1 DEF AtLine
  <1>8. CASE Publish
    <2>1. Line.data \/ Step("publish", ThreadAt("terminated"))
      BY <1>8 DEF Publish, Step
    <2> QED
      BY <1>2, <1>8, <2>1, PublishKeeps DEF AtLine
  <1>6. CASE ReadStopped
    <2>1. /\ thread.pc = "done" /\ thread' = [thread EXCEPT !.pc = "unplay", !.stopped = stopFlag]
          /\ UNCHANGED <<lines, stopFlag, playing, joinable, caller, sent, events>>
      BY <1>6 DEF ReadStopped, Step
    <2>2. /\ thread'.pc = "unplay" /\ thread'.i = thread.i /\ thread'.lines = thread.lines
          /\ thread'.stopped = stopFlag
      BY <2>1 DEF ThreadState, Types
    <2>3. playing /\ (thread.i > Len(thread.lines) \/ stopFlag)
      BY <2>1 DEF Rest, Running
    <2> QED
      BY <2>1, <2>2, <2>3, QuietStep
  <1>7. CASE Unplay
    <2>1. /\ thread.pc = "unplay" /\ thread' = ThreadAt("complete")
          /\ UNCHANGED <<lines, stopFlag, joinable, caller, sent, events>>
      BY <1>7 DEF Unplay
    <2>2. /\ thread'.pc = "complete" /\ thread'.i = thread.i /\ thread'.lines = thread.lines
          /\ thread'.stopped = thread.stopped
      BY <2>1, ThreadAtFields DEF ThreadPc
    <2>3. ~ thread.stopped => thread.i > Len(thread.lines)
      BY <2>1 DEF Rest, Running
    <2> QED
      BY <2>1, <2>2, <2>3, QuietStep
  <1> QED
    BY <1>0, <1>1, <1>3, <1>4, <1>5, <1>6, <1>7, <1>8, ProgressKeeps, CompleteKeeps DEF ThreadStep

(* A step of a caller that leaves the histories alone. *)
LEMMA QuietCall ==
    ASSUME Types, Types', Rest, Owned', UNCHANGED <<sent, events>>,
           thread'.lines = thread.lines, thread'.i = thread.i, thread'.stopped = thread.stopped,
           thread'.pc = thread.pc \/ (thread.pc = "asleep" /\ thread'.pc = "test"),
           joinable' => joinable,
           thread.pc = "exited" \/ ((playing => playing') /\ (stopFlag => stopFlag'))
    PROVE  Rest'
  <1>1. /\ PublishesInOrder' /\ ReportsInOrder' /\ EndsOnce'
        /\ \A k : (Sent(k)' <=> Sent(k)) /\ (Reported(k)' <=> Reported(k)) /\ (Good(k)' <=> Good(k))
        /\ Told("playback_finished")' <=> Told("playback_finished")
    BY HistoriesKept DEF Rest
  <1>2. Running'
    BY <1>1 DEF Rest, Running
  <1>3. Replayed'
    BY <1>1 DEF Rest, Replayed
  <1> QED
    BY <1>1, <1>2, <1>3 DEF Rest

(* Every action of the one caller keeps the rest of the invariant. *)
LEMMA CallerKeeps ==
    ASSUME OneCaller, Types, Types', Rest, NEW c \in Caller,
           \/ \E r \in Recording : CallLoad(c, r)
           \/ CallStart(c) \/ CallStop(c) \/ Destroy(c) \/ CallerStep(c)
    PROVE  Rest'
  <1>a. \A b \in Caller : b = c
    BY DEF OneCaller
  <1>b. caller \in [Caller -> Control] /\ thread \in ThreadState
    BY DEF Types
  <1>1. ASSUME NEW then, NEW body, Enter(c, then, body)
        PROVE  Rest'
    <2>1. caller'[c].pc = "flag" /\ UNCHANGED <<lines, stopFlag, playing, joinable, thread, sent, events>>
      BY <1>1, <1>b DEF Enter
    <2>2. Owned'
      BY <1>a, <2>1 DEF Owned
    <2> QED
      BY <2>1, <2>2, QuietCall
  <1>2. CASE (\E r \in Recording : CallLoad(c, r)) \/ CallStart(c) \/ CallStop(c) \/ Destroy(c)
    BY <1>1, <1>2 DEF CallLoad, CallStart, CallStop, Destroy
  <1>3. CASE StopFlag(c)
    <2>1. /\ caller'[c].pc = "notify" /\ stopFlag' = TRUE
          /\ UNCHANGED <<lines, playing, joinable, thread, sent, events>>
      BY <1>3, GotoFields DEF StopFlag, CallerPc
    <2>2. Owned'
      BY <1>a, <2>1 DEF Owned
    <2> QED
      BY <2>1, <2>2, QuietCall
  <1>4. CASE StopNotify(c)
    <2>1. /\ caller'[c].pc = "joinable"
          /\ UNCHANGED <<lines, stopFlag, playing, joinable, sent, events>>
      BY <1>4, GotoFields DEF StopNotify, CallerPc
    <2>2. Owned'
      BY <1>a, <2>1 DEF Owned
    <2>3. thread' = thread \/ (thread.pc = "asleep" /\ thread' = ThreadAt("test"))
      BY <1>4 DEF StopNotify, ThreadAt
    <2>4. /\ thread'.lines = thread.lines /\ thread'.i = thread.i /\ thread'.stopped = thread.stopped
          /\ thread'.pc = thread.pc \/ (thread.pc = "asleep" /\ thread'.pc = "test")
      BY <2>3, ThreadAtFields DEF ThreadPc
    <2> QED
      BY <2>1, <2>2, <2>4, QuietCall
  <1>5. CASE StopTestsJoinable(c)
    <2>1. /\ caller'[c].pc = (IF joinable THEN "join" ELSE "unplay")
          /\ UNCHANGED <<lines, stopFlag, playing, joinable, thread, sent, events>>
      <3>1. (IF joinable THEN "join" ELSE "unplay") \in CallerPc
        BY DEF CallerPc
      <3> QED
        BY <1>5, <3>1, GotoFields DEF StopTestsJoinable
    <2>2. Owned'
      BY <1>a, <2>1 DEF Owned
    <2> QED
      BY <2>1, <2>2, QuietCall
  <1>6. CASE StopJoin(c)
    <2>1. /\ caller'[c].pc \in {"unplay", "terminated"} /\ joinable' = FALSE
          /\ UNCHANGED <<lines, stopFlag, playing, thread, sent, events>>
      <3>1. (IF joinable THEN "unplay" ELSE "terminated") \in CallerPc \cap {"unplay", "terminated"}
        BY DEF CallerPc
      <3> QED
        BY <1>6, <3>1, GotoFields DEF StopJoin
    <2>2. Owned'
      BY <1>a, <2>1 DEF Owned
    <2> QED
      BY <2>1, <2>2, QuietCall
  <1>7. CASE StopUnplay(c)
    <2> DEFINE pc == IF caller[c].then = "return" THEN "idle" ELSE caller[c].then
    <2>1. pc \in {"idle", "load", "snapshot", "destroyed"}
      BY <1>b DEF Control
    <2>2. Goto(c, pc) /\ caller[c].pc = "unplay" /\ UNCHANGED <<lines, stopFlag, joinable, thread, sent, events>>
      BY <1>7 DEF StopUnplay, Goto, At
    <2> HIDE DEF pc
    <2>3. caller'[c].pc \in {"idle", "load", "snapshot", "destroyed"}
      BY <2>1, <2>2, GotoFields DEF CallerPc
    <2>4. ~ joinable /\ thread.pc = "exited"
      BY <2>2, NotJoinable DEF Rest, Owned
    <2>5. Owned'
      BY <1>a, <2>2, <2>3, <2>4 DEF Owned
    <2> QED
      BY <2>2, <2>4, <2>5, QuietCall
  <1>8. CASE Load(c)
    <2>1. caller'[c].pc = "idle" /\ UNCHANGED <<stopFlag, playing, joinable, thread, sent, events>>
      BY <1>8, <1>b DEF Load, Idle
    <2>2. Owned'
      BY <1>a, <2>1 DEF Owned
    <2> QED
      BY <2>1, <2>2, QuietCall
  <1>9. CASE Snapshot(c)
    <2>1. /\ caller[c].pc = "snapshot" /\ sent' = <<>>
          /\ UNCHANGED <<lines, stopFlag, playing, joinable, thread>>
          /\ \/ events' = <<>> /\ caller'[c].pc = "reset"
             \/ events' = <<[type |-> "playback_finished"]>> /\ caller'[c].pc = "announce"
      <3>1. CASE lines = <<>>
        BY <1>9, <3>1, GotoFields DEF Snapshot, CallerPc, At
      <3>2. CASE lines # <<>>
        <4> DEFINE s == [caller[c] EXCEPT !.pc = "reset", !.body = lines]
        <4>1. caller'[c].pc = "reset"
          <5>1. s.pc = "reset"
            BY <1>b DEF Control
          <5>2. caller' = [caller EXCEPT ![c] = s]
            BY <1>9, <3>2 DEF Snapshot
          <5> HIDE DEF s
          <5> QED
            BY <1>b, <5>1, <5>2
        <4> QED
          BY <1>9, <3>2, <4>1 DEF Snapshot, At
      <3> QED
        BY <3>1, <3>2
    <2>2. ~ joinable /\ thread.pc = "exited"
      BY <2>1, NotJoinable DEF Rest, Owned
    <2>3. Owned'
      BY <1>a, <2>1, <2>2 DEF Owned
    <2>4. DOMAIN sent' = {} /\ \A n \in DOMAIN events' : n = 1 /\ events'[n].type # "progress"
      BY <2>1
    <2>5. PublishesInOrder' /\ ReportsInOrder'
      BY <2>4 DEF PublishesInOrder, ReportsInOrder
    <2>6. EndsOnce'
      <3>1. CASE events' = <<>>
        BY <3>1 DEF EndsOnce
      <3>2. CASE events' = <<[type |-> "playback_finished"]>>
        <4>1. Len(events') = 1 /\ DOMAIN events' = {1}
          BY <3>2
        <4> QED
          BY <4>1 DEF EndsOnce
      <3> QED
        BY <2>1, <3>1, <3>2
    <2>7. Running' /\ Replayed'
      BY <2>1, <2>2 DEF Running, Replayed
    <2> QED
      BY <2>3, <2>5, <2>6, <2>7 DEF Rest
  <1>10. CASE StartReset(c)
    <2>1. /\ caller[c].pc = "reset" /\ caller'[c].pc = "play"
          /\ UNCHANGED <<lines, playing, joinable, thread, sent, events>>
      BY <1>10, GotoFields DEF StartReset, CallerPc, At
    <2>2. ~ joinable /\ thread.pc = "exited"
      BY <2>1, NotJoinable DEF Rest, Owned
    <2>3. Owned'
      BY <1>a, <2>1, <2>2 DEF Rest, Owned
    <2> QED
      BY <2>1, <2>2, <2>3, QuietCall
  <1>11. CASE StartPlay(c)
    <2>1. /\ caller[c].pc = "play" /\ caller'[c].pc = "spawn" /\ playing' = TRUE
          /\ UNCHANGED <<lines, stopFlag, joinable, thread, sent, events>>
      BY <1>11, GotoFields DEF StartPlay, CallerPc, At
    <2>2. Owned'
      BY <1>a, <2>1 DEF Rest, Owned
    <2> QED
      BY <2>1, <2>2, QuietCall
  <1>12. CASE Spawn(c)
    <2>1. /\ caller[c].pc = "spawn" /\ ~ joinable /\ playing /\ sent = <<>> /\ events = <<>>
      BY <1>12 DEF Spawn, At, Rest, Owned
    <2>2. /\ joinable' = TRUE /\ Goto(c, "announce")
          /\ thread' = [NoThread EXCEPT !.pc = "base", !.lines = caller[c].body]
          /\ UNCHANGED <<lines, stopFlag, playing, sent, events>>
      BY <1>12, <2>1 DEF Spawn
    <2>3. caller'[c].pc = "announce" /\ thread'.pc = "base" /\ thread'.i = 1
      BY <2>2, GotoFields DEF CallerPc, NoThread
    <2>4. DOMAIN sent' = {} /\ DOMAIN events' = {}
      BY <2>1, <2>2
    <2>5. Owned'
      BY <1>a, <2>3 DEF Owned
    <2>6. PublishesInOrder' /\ ReportsInOrder' /\ EndsOnce'
      BY <2>4 DEF PublishesInOrder, ReportsInOrder, EndsOnce
    <2>7. Running'
      BY <2>1, <2>2, <2>3, <2>4 DEF Running, Told
    <2>8. Replayed'
      <3>1. \A k : ~ Sent(k)' /\ ~ Reported(k)'
        BY <2>4 DEF Sent, Reported
      <3>2. \A k \in Nat : Good(k)' => k >= 1
        <4>1. thread'.lines \in Script
          BY DEF Types, ThreadState
        <4> QED
          BY <4>1, ScriptLines DEF Good
      <3>3. \A k \in Nat : k >= 1 => ~ (k < 1)
        OBVIOUS
      <3> QED
        BY <2>3, <3>1, <3>2, <3>3 DEF Replayed
    <2> QED
      BY <2>5, <2>6, <2>7, <2>8 DEF Rest
  <1>13. CASE Announce(c)
    <2> DEFINE e == [type |-> "playback_started"]
    <2>1. /\ events' = Append(events, e) /\ caller'[c].pc = "idle"
          /\ UNCHANGED <<lines, stopFlag, playing, joinable, thread, sent>>
      BY <1>13, <1>b DEF Announce, Idle
    <2>2. e \in Event /\ e.type = "playback_started" /\ e.type # "progress" /\ ~ IsEnd(e)
      BY DEF Event, IsEnd
    <2> HIDE DEF e
    <2>3. Owned'
      BY <1>a, <2>1 DEF Owned
    <2>4. /\ PublishesInOrder' /\ ReportsInOrder'
          /\ \A k : (Sent(k)' <=> Sent(k)) /\ (Reported(k)' <=> Reported(k)) /\ (Good(k)' <=> Good(k))
      BY <2>1, <2>2, OtherEvent DEF Rest
    <2>5. EndsOnce'
      BY <2>1, <2>2, EndsOnceKept DEF Rest
    <2>6. Replayed'
      BY <2>1, <2>4 DEF Rest, Replayed
    <2>7. Running'
      <3>1. Told("playback_finished")' <=> Told("playback_finished")
        BY <2>1, <2>2, EventsAppended
      <3>2. (\A n \in DOMAIN events : ~ IsEnd(events[n])) => \A n \in DOMAIN events' : ~ IsEnd(events'[n])
        BY <2>1, <2>2, EventsAppended
      <3> QED
        BY <2>1, <3>1, <3>2 DEF Rest, Running, IsEnd
    <2> QED
      BY <2>3, <2>4, <2>5, <2>6, <2>7 DEF Rest
  <1> QED
    BY <1>2, <1>3, <1>4, <1>5, <1>6, <1>7, <1>8, <1>9, <1>10, <1>11, <1>12, <1>13 DEF CallerStep

-----------------------------------------------------------------------------
(* The inductive invariant holds for one caller. *)
THEOREM Invariance ==
    ASSUME OneCaller
    PROVE  Spec => []Inv
  <1>1. Init => Rest
    <2> SUFFICES ASSUME Init
                 PROVE  Rest
      OBVIOUS
    <2>1. DOMAIN sent = {} /\ DOMAIN events = {} /\ joinable = FALSE /\ thread.pc = "exited"
      BY DEF Init, NoThread
    <2>2. \A c \in Caller : caller[c].pc = "idle"
      BY DEF Init, Idle
    <2>3. Owned
      BY <2>2 DEF Owned
    <2> QED
      BY <2>1, <2>3 DEF Rest, Running, Replayed, PublishesInOrder, ReportsInOrder, EndsOnce
  <1>2. Types /\ Rest /\ [Next]_vars => (Types /\ Rest)'
    <2> SUFFICES ASSUME Types, Rest, [Next]_vars
                 PROVE  Types' /\ Rest'
      OBVIOUS
    <2>1. Types'
      BY TypesNext
    <2>2. CASE Next
      BY <2>1, <2>2, ThreadKeeps, CallerKeeps DEF Next
    <2>3. CASE UNCHANGED vars
      <3>1. Owned'
        BY <2>3 DEF vars, Rest, Owned
      <3> QED
        BY <2>1, <2>3, <3>1, QuietCall DEF vars
    <2> QED
      BY <2>1, <2>2, <2>3
  <1>3. Inv <=> Types /\ Rest
    BY DEF Inv, Rest
  <1> QED
    BY <1>1, <1>2, <1>3, TypesInit, PTL DEF Spec

(* With one caller the snapshot is replayed line by line, in order and     *)
(* without a gap, each line is reported once after it was published, and a *)
(* playback that reports to have finished has published and reported every *)
(* line that is JSON, whatever the recording, and wherever start(), stop() *)
(* and loadRecording() hit the thread.                                     *)
THEOREM ReplayIsExact ==
    ASSUME OneCaller
    PROVE  Spec => []ReplaysRecording
  <1>1. Inv => ReplaysRecording
    <2> SUFFICES ASSUME Inv, Told("playback_finished"), joinable, NEW k \in 1 .. Len(thread.lines), Good(k)
                 PROVE  Sent(k) /\ Reported(k)
      BY DEF Inv, ReplaysRecording
    <2>1. thread.i > Len(thread.lines) /\ thread.i \in Nat /\ Len(thread.lines) \in Nat
      BY ScriptLines DEF Inv, Running, Types, ThreadState
    <2>2. k \in Nat /\ k < thread.i
      BY <2>1
    <2> QED
      BY <2>2 DEF Inv, Replayed
  <1> QED
    BY <1>1, Invariance, PTL

(* With one caller the clients hear the end of a playback once, and then   *)
(* nothing more of it but that it was started.                             *)
THEOREM EndIsToldOnce ==
    ASSUME OneCaller
    PROVE  Spec => []EndsOnce
  <1>1. Inv => EndsOnce
    BY DEF Inv
  <1> QED
    BY <1>1, Invariance, PTL

(* With one caller nothing is published between the return of stop() and   *)
(* the next start().                                                       *)
THEOREM StopIsFinal ==
    ASSUME OneCaller
    PROVE  Spec => NothingPublishedAfterStop
  <1>1. Inv /\ [Next]_vars => [sent' # sent => sent' = <<>> \/ playing]_vars
    <2> SUFFICES ASSUME Inv, Next, sent' # sent
                 PROVE  sent' = <<>> \/ playing
      BY DEF vars
    <2>1. ASSUME NEW c \in Caller, NEW then, NEW body, Enter(c, then, body)
          PROVE  FALSE
      BY <2>1 DEF Enter
    <2>2. ASSUME NEW c \in Caller, CallerStep(c)
          PROVE  sent' = <<>>
      BY <2>2 DEF CallerStep, StopFlag, StopNotify, StopTestsJoinable, StopJoin, StopUnplay, Load,
                  Snapshot, StartReset, StartPlay, Spawn, Announce
    <2>3. Publish => playing
      BY DEF Publish, Inv, Running
    <2>4. SpuriousWakeup \/ ThreadStep => Publish
      BY DEF SpuriousWakeup, ThreadStep, BaseTime, Loop, Test, Block, TimesOut, CheckFlag, Progress,
             ReadStopped, Unplay, Complete, Step
    <2> QED
      BY <2>1, <2>2, <2>3, <2>4 DEF Next, CallLoad, CallStart, CallStop, Destroy
  <1> QED
    BY <1>1, Invariance, PTL DEF Spec, NothingPublishedAfterStop
=============================================================================
