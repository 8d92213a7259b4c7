--------------------------- MODULE PlaybackEngine ---------------------------
(***************************************************************************)
(* Omniscope's PlaybackEngine: a recording is loaded line by line and      *)
(* replayed by a thread, which waits between two lines as long as their    *)
(* timestamps are apart.  The callbacks are the ones OmniscopeApp passes:  *)
(* publish a line, and tell the web clients about progress and the end.    *)
(*                                                                         *)
(* Only the thread ever takes _stopMutex, so the mutex needs no variable.  *)
(* A wait may time out at any moment: its length, and the cap of 5 s on    *)
(* it, are abstracted.                                                     *)
(*                                                                         *)
(* A line that is no JSON is skipped.  A line that is JSON but lacks a     *)
(* field throws where the field is read, and data the transport cannot     *)
(* convert throws in _publish.  Nothing catches what is thrown in a        *)
(* std::thread: the program ends.                                          *)
(***************************************************************************)
EXTENDS Integers, Sequences

CONSTANTS
    Caller,              \* threads that use the object: Crow's workers, main
    Recording,           \* uploaded recordings: sequences of lines
    BadLine,             \* a line that is not JSON
    Missing              \* the timestamp of a line that has none

(* A line that is JSON: whether it has a topic, its timestamp, and whether *)
(* it has data of which _publish can make a message.                       *)
JsonLine == [topic : BOOLEAN, timestamp_ms : Nat \cup {Missing}, data : BOOLEAN]
Lacking(line) ==
    line # BadLine /\ (~ line.topic \/ line.timestamp_ms = Missing \/ ~ line.data)

ASSUME PlaybackAssumption ==
    /\ Caller # {}
    /\ BadLine \notin JsonLine /\ Missing \notin Nat
    /\ Recording \subseteq Seq(JsonLine \cup {BadLine})

VARIABLES
    lines,               \* _lines
    stopFlag,            \* _stopFlag
    playing,             \* _playing
    joinable,            \* _thread.joinable()
    thread,              \* the playback thread and its local variables
    caller,              \* caller[c]: where c is, and what it does after stop()
    sent,                \* history: indices of the lines this playback published
    events               \* history: what the web clients were told about it

vars == <<lines, stopFlag, playing, joinable, thread, caller, sent, events>>

NoThread == [pc |-> "exited", lines |-> <<>>, baseTime |-> 0, i |-> 1, prevOffset |-> 0,
             stopped |-> FALSE]
Idle == [pc |-> "idle", then |-> "return", body |-> <<>>]
Event == [type : {"progress"}, current : Nat]
           \cup [type : {"playback_started", "playback_finished", "playback_stopped"}]

(* The types; and no thread runs that nobody can join. *)
TypeOK ==
    /\ lines \in Recording \cup {<<>>}
    /\ stopFlag \in BOOLEAN /\ playing \in BOOLEAN /\ joinable \in BOOLEAN
    /\ thread.pc \in {"base", "loop", "test", "block", "asleep", "check", "publish", "progress",
                      "done", "unplay", "complete", "exited", "terminated"}
    /\ thread.i \in 1 .. Len(thread.lines) + 1
    /\ \A c \in Caller :
         /\ caller[c].pc \in {"idle", "flag", "notify", "joinable", "join", "unplay", "load",
                              "snapshot", "reset", "play", "spawn", "announce", "destroyed",
                              "terminated"}
         /\ caller[c].then \in {"return", "load", "snapshot", "destroyed"}
    /\ \A k \in DOMAIN events : events[k] \in Event
    /\ thread.pc # "exited" => joinable

Init ==
    /\ lines = <<>>
    /\ stopFlag = FALSE /\ playing = FALSE /\ joinable = FALSE
    /\ thread = NoThread
    /\ caller = [c \in Caller |-> Idle]
    /\ sent = <<>> /\ events = <<>>
-----------------------------------------------------------------------------
(* The callers.  loadRecording, start, stop and the destructor all begin   *)
(* with stop().                                                            *)

At(c, pc) == caller[c].pc = pc
Goto(c, pc) == caller' = [caller EXCEPT ![c].pc = pc]
Usable == \A c \in Caller : caller[c].pc # "destroyed" /\ caller[c].then # "destroyed"
Terminated == thread.pc = "terminated" \/ \E c \in Caller : At(c, "terminated")

Enter(c, then, body) ==
    /\ At(c, "idle") /\ Usable
    /\ caller' = [caller EXCEPT ![c] = [pc |-> "flag", then |-> then, body |-> body]]
    /\ UNCHANGED <<lines, stopFlag, playing, joinable, thread, sent, events>>

CallLoad(c, r) == Enter(c, "load", r)
CallStart(c) == Enter(c, "snapshot", <<>>)
CallStop(c) == Enter(c, "return", <<>>)
(* Only when no other thread uses the object. *)
Destroy(c) == (\A b \in Caller : At(b, "idle")) /\ Enter(c, "destroyed", <<>>)

StopFlag(c) ==
    /\ At(c, "flag")
    /\ stopFlag' = TRUE
    /\ Goto(c, "notify")
    /\ UNCHANGED <<lines, playing, joinable, thread, sent, events>>

(* notify_all, which the thread hears only if it is blocked. *)
StopNotify(c) ==
    /\ At(c, "notify")
    /\ thread' = IF thread.pc = "asleep" THEN [thread EXCEPT !.pc = "test"] ELSE thread
    /\ Goto(c, "joinable")
    /\ UNCHANGED <<lines, stopFlag, playing, joinable, sent, events>>

StopTestsJoinable(c) ==
    /\ At(c, "joinable")
    /\ Goto(c, IF joinable THEN "join" ELSE "unplay")
    /\ UNCHANGED <<lines, stopFlag, playing, joinable, thread, sent, events>>

(* Mutant: stop() detaches the thread instead of joining it. *)
StopDetaches(c) ==
    /\ At(c, "join")
    /\ joinable' = FALSE
    /\ Goto(c, "unplay")
    /\ UNCHANGED <<lines, stopFlag, playing, thread, sent, events>>

(* join() of a thread that another caller has joined meanwhile throws.     *)
StopJoin(c) ==
    /\ At(c, "join")
    /\ thread.pc = "exited"
    /\ joinable' = FALSE
    /\ Goto(c, IF joinable THEN "unplay" ELSE "terminated")
    /\ UNCHANGED <<lines, stopFlag, playing, thread, sent, events>>

StopUnplay(c) ==
    /\ At(c, "unplay")
    /\ playing' = FALSE
    /\ caller' = [caller EXCEPT ![c].pc =
                    IF caller[c].then = "return" THEN "idle" ELSE caller[c].then]
    /\ UNCHANGED <<lines, stopFlag, joinable, thread, sent, events>>

Load(c) ==
    /\ At(c, "load")
    /\ lines' = caller[c].body
    /\ caller' = [caller EXCEPT ![c] = Idle]
    /\ UNCHANGED <<stopFlag, playing, joinable, thread, sent, events>>

(* An empty recording completes at once, without a thread. *)
Snapshot(c) ==
    /\ At(c, "snapshot")
    /\ sent' = <<>>
    /\ IF lines = <<>>
       THEN events' = <<[type |-> "playback_finished"]>> /\ Goto(c, "announce")
       ELSE /\ events' = <<>>
            /\ caller' = [caller EXCEPT ![c] = [caller[c] EXCEPT !.pc = "reset", !.body = lines]]
    /\ UNCHANGED <<lines, stopFlag, playing, joinable, thread>>

StartReset(c) ==
    /\ At(c, "reset")
    /\ stopFlag' = FALSE
    /\ Goto(c, "play")
    /\ UNCHANGED <<lines, playing, joinable, thread, sent, events>>

StartPlay(c) ==
    /\ At(c, "play")
    /\ playing' = TRUE
    /\ Goto(c, "spawn")
    /\ UNCHANGED <<lines, stopFlag, joinable, thread, sent, events>>

(* Assigning to a joinable thread terminates the program. *)
Spawn(c) ==
    /\ At(c, "spawn")
    /\ IF joinable
       THEN Goto(c, "terminated") /\ UNCHANGED <<joinable, thread>>
       ELSE /\ joinable' = TRUE
            /\ thread' = [NoThread EXCEPT !.pc = "base", !.lines = caller[c].body]
            /\ Goto(c, "announce")
    /\ UNCHANGED <<lines, stopFlag, playing, sent, events>>

(* start() has returned; the handler tells the clients. *)
Announce(c) ==
    /\ At(c, "announce")
    /\ events' = Append(events, [type |-> "playback_started"])
    /\ caller' = [caller EXCEPT ![c] = Idle]
    /\ UNCHANGED <<lines, stopFlag, playing, joinable, thread, sent>>
-----------------------------------------------------------------------------
(* The playback thread. *)

Step(from, next) ==
    /\ thread.pc = from
    /\ thread' = next
    /\ UNCHANGED <<lines, stopFlag, playing, joinable, caller, sent, events>>

ThreadAt(pc) == [thread EXCEPT !.pc = pc]

Line == thread.lines[thread.i]
Offset == Line.timestamp_ms - thread.baseTime

(* The time of the first line, read before the flag is looked at. *)
BaseTime ==
    /\ thread.pc = "base"
    /\ IF thread.lines[1] = BadLine THEN Step("base", ThreadAt("loop"))
       ELSE IF thread.lines[1].timestamp_ms = Missing THEN Step("base", ThreadAt("terminated"))
       ELSE Step("base", [thread EXCEPT !.pc = "loop",
                                        !.baseTime = thread.lines[1].timestamp_ms])

(* Mutant: a line that is no JSON ends the playback. *)
LoopBreaks ==
    /\ thread.pc = "loop"
    /\ IF thread.i > Len(thread.lines) \/ stopFlag \/ Line = BadLine
       THEN Step("loop", ThreadAt("done"))
       ELSE IF ~ Line.topic \/ Line.timestamp_ms = Missing
       THEN Step("loop", ThreadAt("terminated"))
       ELSE Step("loop", [thread EXCEPT !.pc = "check", !.prevOffset = Offset])

(* Mutant: the index is not advanced past a line that is no JSON. *)
LoopStays ==
    /\ thread.pc = "loop"
    /\ IF thread.i > Len(thread.lines) \/ stopFlag THEN Step("loop", ThreadAt("done"))
       ELSE IF Line = BadLine THEN Step("loop", thread)
       ELSE IF ~ Line.topic \/ Line.timestamp_ms = Missing
       THEN Step("loop", ThreadAt("terminated"))
       ELSE Step("loop", [thread EXCEPT !.pc = "check", !.prevOffset = Offset])

(* The head of the loop, up to the wait: a line that is no JSON is skipped, *)
(* one without a topic or a timestamp throws.                               *)
Loop ==
    /\ thread.pc = "loop"
    /\ IF thread.i > Len(thread.lines) \/ stopFlag THEN Step("loop", ThreadAt("done"))
       ELSE IF Line = BadLine THEN Step("loop", [thread EXCEPT !.i = @ + 1])
       ELSE IF ~ Line.topic \/ Line.timestamp_ms = Missing
       THEN Step("loop", ThreadAt("terminated"))
       ELSE Step("loop", [thread EXCEPT !.pc = IF Offset > thread.prevOffset THEN "test" ELSE "check",
                                        !.prevOffset = Offset])

(* Mutant: wait() in place of wait_for(). *)
NeverTimesOut == FALSE /\ Step("asleep", ThreadAt("check"))

(* wait_for: the predicate, the wait, and the three ways out of it. *)
Test == Step("test", ThreadAt(IF stopFlag THEN "check" ELSE "block"))
Block == Step("block", ThreadAt("asleep"))
TimesOut == Step("asleep", ThreadAt("check"))
SpuriousWakeup == Step("asleep", ThreadAt("test"))

(* Mutant: the break out of the loop reports the end as well. *)
CheckFlagCompletes ==
    /\ thread.pc = "check"
    /\ thread' = ThreadAt(IF stopFlag THEN "done" ELSE "publish")
    /\ events' = IF stopFlag THEN Append(events, [type |-> "playback_stopped"]) ELSE events
    /\ UNCHANGED <<lines, stopFlag, playing, joinable, caller, sent>>

CheckFlag == Step("check", ThreadAt(IF stopFlag THEN "done" ELSE "publish"))

(* The data is read, and _publish gives it to the transport that knows its  *)
(* topic: either may throw.                                                 *)
Publish ==
    /\ thread.pc = "publish"
    /\ sent' = IF Line.data THEN Append(sent, thread.i) ELSE sent
    /\ thread' = ThreadAt(IF Line.data THEN "progress" ELSE "terminated")
    /\ UNCHANGED <<lines, stopFlag, playing, joinable, caller, events>>

Progress ==
    /\ thread.pc = "progress"
    /\ events' = Append(events, [type |-> "progress", current |-> thread.i])
    /\ thread' = [thread EXCEPT !.pc = "loop", !.i = @ + 1]
    /\ UNCHANGED <<lines, stopFlag, playing, joinable, caller, sent>>

ReadStopped == Step("done", [thread EXCEPT !.pc = "unplay", !.stopped = stopFlag])

Unplay ==
    /\ thread.pc = "unplay"
    /\ playing' = FALSE
    /\ thread' = ThreadAt("complete")
    /\ UNCHANGED <<lines, stopFlag, joinable, caller, sent, events>>

Complete ==
    /\ thread.pc = "complete"
    /\ events' = Append(events,
                   [type |-> IF thread.stopped THEN "playback_stopped" ELSE "playback_finished"])
    /\ thread' = [thread EXCEPT !.pc = "exited"]
    /\ UNCHANGED <<lines, stopFlag, playing, joinable, caller, sent>>
-----------------------------------------------------------------------------
CallerStep(c) ==
    \/ StopFlag(c) \/ StopNotify(c) \/ StopTestsJoinable(c) \/ StopJoin(c) \/ StopUnplay(c)
    \/ Load(c) \/ Snapshot(c) \/ StartReset(c) \/ StartPlay(c) \/ Spawn(c) \/ Announce(c)

ThreadStep ==
    \/ BaseTime \/ Loop \/ Test \/ Block \/ TimesOut \/ CheckFlag \/ Publish \/ Progress
    \/ ReadStopped \/ Unplay \/ Complete

(* Nothing runs in a program that was terminated. *)
Next ==
    /\ ~ Terminated
    /\ \/ \E c \in Caller :
            \/ \E r \in Recording : CallLoad(c, r)
            \/ CallStart(c) \/ CallStop(c) \/ Destroy(c)
            \/ CallerStep(c)
       \/ ThreadStep
       \/ SpuriousWakeup

Spec == Init /\ [][Next]_vars

(* The scheduler runs every thread; and a wait of at most 5 s ends, however *)
(* often it is woken up for nothing, since wait_for keeps its deadline.     *)
FairSpec ==
    /\ Spec
    /\ \A c \in Caller : WF_vars(~ Terminated /\ CallerStep(c))
    /\ WF_vars(~ Terminated /\ ThreadStep) /\ SF_vars(~ Terminated /\ TimesOut)
-----------------------------------------------------------------------------
Told(type) == \E n \in DOMAIN events : events[n].type = type
Good(k) == k \in DOMAIN thread.lines /\ thread.lines[k] # BadLine
Sent(k) == \E n \in DOMAIN sent : sent[n] = k
Reported(k) == \E n \in DOMAIN events : events[n] = [type |-> "progress", current |-> k]

(* What was published is a prefix of the lines that are JSON, in order. *)
PublishesInOrder ==
    /\ \A m, n \in DOMAIN sent : m < n => sent[m] < sent[n]
    /\ \A n \in DOMAIN sent : Good(sent[n]) /\ \A k \in 1 .. sent[n] - 1 : Good(k) => Sent(k)

(* What was reported is what was published, but for the last line. *)
ReportsInOrder ==
    /\ \A m, n \in DOMAIN events :
         (m < n /\ events[m].type = "progress" /\ events[n].type = "progress")
            => events[m].current < events[n].current
    /\ \A n \in DOMAIN events : events[n].type = "progress" => Sent(events[n].current)
    /\ \A n \in DOMAIN sent : n < Len(sent) => Reported(sent[n])

(* The thread replays the snapshot it started with, line by line: what it  *)
(* has published is a prefix of the lines that are JSON, in their order;   *)
(* every line is reported once; and a playback that reports to have        *)
(* finished has published and reported them all.                           *)
ReplaysRecording ==
    /\ PublishesInOrder /\ ReportsInOrder
    /\ (Told("playback_finished") /\ joinable) => \A k \in 1 .. Len(thread.lines) : Good(k) => Sent(k) /\ Reported(k)

(* A playback ends once: after the clients were told that it finished or   *)
(* was stopped they hear nothing more of it, except that it was started.   *)
EndsOnce ==
    \A k \in DOMAIN events :
        events[k].type \in {"playback_finished", "playback_stopped"} =>
            \A j \in k + 1 .. Len(events) : events[j].type = "playback_started"

(* Between the return of stop() and the next start() nothing is published: *)
(* stop() returns only when the thread has ended, whatever it was doing.   *)
NothingPublishedAfterStop ==
    [][sent' # sent => sent' = <<>> \/ playing]_vars

(* A line that lacks a field or has data that cannot be published has      *)
(* ended the program.                                                      *)
EndedByLine ==
    thread.pc = "terminated" /\ \E k \in DOMAIN thread.lines : Lacking(thread.lines[k])

(* stop() returns, also when its notification comes after the thread has   *)
(* tested the flag and before it waits: the wait is bounded.  It does not  *)
(* when the thread it joins meets a line that ends the program.            *)
StopReturns == \A c \in Caller : At(c, "join") ~> (At(c, "unplay") \/ EndedByLine)

(* A playback that was started comes to an end, and the clients are told;  *)
(* only a recording with a line that lacks a field, or with data that      *)
(* cannot be published, can end the program instead.                       *)
PlaybackEnds ==
    playing ~> (Told("playback_finished") \/ Told("playback_stopped") \/ EndedByLine)
=============================================================================
