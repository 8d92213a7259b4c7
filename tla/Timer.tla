-------------------------------- MODULE Timer --------------------------------
(***************************************************************************)
(* CommonUtils::Timer: a thread that waits for an interval and then calls  *)
(* a function, once (startOneShot) or again and again (startPeriodic).     *)
(*                                                                         *)
(* The thread holds _mutex except while it is blocked in wait_for, and so  *)
(* also while the function runs.  A caller holds it only for the one       *)
(* assignment of stop(), so its owner needs no variable: see Locked.       *)
(* Intervals are abstracted: a wait may time out at any moment.            *)
(***************************************************************************)
EXTENDS FiniteSets

CONSTANT Caller          \* threads that use the object

ASSUME TimerAssumption == IsFiniteSet(Caller) /\ Caller # {}

VARIABLES
    isRunning,           \* _isRunning
    joinable,            \* _thread.joinable()
    thread,              \* where the timer's thread is
    kind,                \* which of the two functions started it
    caller,              \* caller[c]: where thread c is, and what it does after stop()
    fired                \* history: has the function been called since the start

vars == <<isRunning, joinable, thread, kind, caller, fired>>

Kind == {"oneShot", "periodic"}
Idle == [pc |-> "idle", then |-> "return"]
Locked == thread \in {"test", "sleep", "expired", "func"}

(* The types; and no thread runs that nobody can join. *)
TypeOK ==
    /\ isRunning \in BOOLEAN
    /\ joinable \in BOOLEAN
    /\ thread \in {"loop", "lock", "test", "sleep", "asleep", "timedOut", "expired",
                   "func", "exited"}
    /\ kind \in Kind
    /\ caller \in [Caller -> [pc : {"idle", "flag", "notify", "join", "run", "assign",
                                    "terminated"},
                              then : Kind \cup {"return", "destroyed"}]]
    /\ fired \in BOOLEAN
    /\ thread # "exited" => joinable

Init ==
    /\ isRunning = FALSE
    /\ joinable = FALSE
    /\ thread = "exited"
    /\ kind = "oneShot"
    /\ caller = [c \in Caller |-> Idle]
    /\ fired = FALSE
-----------------------------------------------------------------------------
(* The callers. *)

At(c, pc) == caller[c].pc = pc
Goto(c, pc) == caller' = [caller EXCEPT ![c].pc = pc]
Usable == \A c \in Caller : caller[c].then # "destroyed" /\ ~ At(c, "terminated")

(* Mutant: a start does not stop the timer first. *)
CallStartNoStop(c, k) ==
    /\ At(c, "idle") /\ Usable
    /\ caller' = [caller EXCEPT ![c] = [pc |-> "run", then |-> k]]
    /\ UNCHANGED <<isRunning, joinable, thread, kind, fired>>

(* A start reads _isRunning and goes through stop() when it is set. *)
CallStart(c, k) ==
    /\ At(c, "idle") /\ Usable
    /\ caller' = [caller EXCEPT ![c] = [pc |-> IF isRunning THEN "flag" ELSE "run",
                                        then |-> k]]
    /\ UNCHANGED <<isRunning, joinable, thread, kind, fired>>

CallStop(c) ==
    /\ At(c, "idle") /\ Usable
    /\ caller' = [caller EXCEPT ![c] = [pc |-> "flag", then |-> "return"]]
    /\ UNCHANGED <<isRunning, joinable, thread, kind, fired>>

(* The destructor, which the owner runs when nobody uses the object. *)
Destroy(c) ==
    /\ \A b \in Caller : At(b, "idle")
    /\ Usable
    /\ caller' = [caller EXCEPT ![c] = [pc |-> "flag", then |-> "destroyed"]]
    /\ UNCHANGED <<isRunning, joinable, thread, kind, fired>>

(* Mutant: stop() clears _isRunning without _mutex. *)
StopFlagUnlocked(c) ==
    /\ At(c, "flag")
    /\ isRunning' = FALSE
    /\ Goto(c, "notify")
    /\ UNCHANGED <<joinable, thread, kind, fired>>

StopFlag(c) ==
    /\ At(c, "flag")
    /\ ~ Locked
    /\ isRunning' = FALSE
    /\ Goto(c, "notify")
    /\ UNCHANGED <<joinable, thread, kind, fired>>

(* notify_all wakes the thread if it is blocked. *)
StopNotify(c) ==
    /\ At(c, "notify")
    /\ thread' = IF thread = "asleep" THEN "lock" ELSE thread
    /\ Goto(c, "join")
    /\ UNCHANGED <<isRunning, joinable, kind, fired>>

AfterStop(c) ==
    caller' = IF caller[c].then \in Kind
              THEN [caller EXCEPT ![c].pc = "run"]
              ELSE [caller EXCEPT ![c].pc = "idle"]

StopJoin(c) ==
    /\ At(c, "join")
    /\ joinable => thread = "exited"
    /\ joinable' = FALSE
    /\ AfterStop(c)
    /\ UNCHANGED <<isRunning, thread, kind, fired>>

StartRun(c) ==
    /\ At(c, "run")
    /\ isRunning' = TRUE
    /\ Goto(c, "assign")
    /\ UNCHANGED <<joinable, thread, kind, fired>>

(* _thread = std::thread(...): assigning to a joinable thread terminates   *)
(* the program.                                                            *)
StartAssign(c) ==
    /\ At(c, "assign")
    /\ IF joinable
       THEN Goto(c, "terminated") /\ UNCHANGED <<joinable, thread, kind, fired>>
       ELSE /\ joinable' = TRUE
            /\ caller' = [caller EXCEPT ![c] = Idle]
            /\ kind' = caller[c].then
            /\ thread' = IF caller[c].then = "oneShot" THEN "lock" ELSE "loop"
            /\ fired' = FALSE
    /\ UNCHANGED isRunning
-----------------------------------------------------------------------------
(* The timer's thread. *)

Step(from, to) ==
    /\ thread = from
    /\ thread' = to
    /\ UNCHANGED <<isRunning, joinable, kind, caller, fired>>

(* while (_isRunning) of the periodic thread *)
LoopCheck == Step("loop", IF isRunning THEN "lock" ELSE "exited")

(* Taking _mutex, on the way into wait_for or after waking up inside it. *)
Lock == ~ Locked /\ Step("lock", "test")

(* The predicate of wait_for; it holds the lock until it blocks. *)
Test == Step("test", IF isRunning THEN "sleep" ELSE "exited")
Sleep == Step("sleep", "asleep")

SpuriousWakeup == Step("asleep", "lock")
TimeOut == Step("asleep", "timedOut")
LockAfterTimeOut == ~ Locked /\ Step("timedOut", "expired")

(* Mutant: the function is called whatever happened during the wait. *)
ExpireUnchecked ==
    /\ thread = "expired"
    /\ thread' = "func"
    /\ fired' = TRUE
    /\ UNCHANGED <<isRunning, joinable, kind, caller>>

(* Mutant: the result of wait_for is read the wrong way round. *)
ExpireInverted ==
    /\ thread = "expired"
    /\ IF isRunning
       THEN thread' = "exited" /\ UNCHANGED fired
       ELSE thread' = "func" /\ fired' = TRUE
    /\ UNCHANGED <<isRunning, joinable, kind, caller>>

(* The predicate once more, which ends the thread when it was stopped, and *)
(* the call of the function.                                               *)
Expire ==
    /\ thread = "expired"
    /\ IF isRunning
       THEN thread' = "func" /\ fired' = TRUE
       ELSE thread' = "exited" /\ UNCHANGED fired
    /\ UNCHANGED <<isRunning, joinable, kind, caller>>

(* Mutant: the one-shot thread goes on like the periodic one. *)
FuncReturnsToLoop ==
    /\ thread = "func"
    /\ thread' = "loop"
    /\ UNCHANGED <<isRunning, joinable, kind, caller, fired>>

(* The function returns; a one-shot timer is no longer running then. *)
FuncReturns ==
    /\ thread = "func"
    /\ IF kind = "oneShot"
       THEN thread' = "exited" /\ isRunning' = FALSE
       ELSE thread' = "loop" /\ UNCHANGED isRunning
    /\ UNCHANGED <<joinable, kind, caller, fired>>
-----------------------------------------------------------------------------
CallerStep(c) ==
    StopFlag(c) \/ StopNotify(c) \/ StopJoin(c) \/ StartRun(c) \/ StartAssign(c)

CallerNext(c) ==
    \/ \E k \in Kind : CallStart(c, k)
    \/ CallStop(c)
    \/ Destroy(c)
    \/ CallerStep(c)

ThreadStep ==
    LoopCheck \/ Lock \/ Test \/ Sleep \/ LockAfterTimeOut \/ Expire \/ FuncReturns

Next ==
    \/ \E c \in Caller : CallerNext(c)
    \/ ThreadStep
    \/ TimeOut
    \/ SpuriousWakeup

Spec == Init /\ [][Next]_vars

(* Threads are scheduled, the function returns, and a thread that waits    *)
(* for _mutex gets it in the end.  That a wait times out is not assumed.   *)
FairSpec ==
    /\ Spec
    /\ WF_vars(ThreadStep)
    /\ \A c \in Caller : SF_vars(CallerStep(c))

-----------------------------------------------------------------------------
(* No call of the function begins between the moment stop() has cleared    *)
(* _isRunning and the next start, even if the wait timed out first.        *)
NoCallAfterStop ==
    [][thread # "func" /\ thread' = "func" =>
          joinable /\ \A c \in Caller : caller[c].pc \notin {"notify", "join"}]_vars

(* One startOneShot calls the function at most once. *)
OneShotFiresOnce ==
    [][thread # "func" /\ thread' = "func" => kind = "periodic" \/ ~ fired]_vars

(* stop() and the destructor return without waiting for the interval to    *)
(* run out: the notification cannot be lost.                               *)
StopReturns ==
    \A c \in Caller : At(c, "flag") ~> caller[c].pc \notin {"flag", "notify", "join"}

(* A timer that nobody stops calls its function, if a wait times out in    *)
(* the end (its deadline is fixed before the first of its wakeups).        *)
TimerFires ==
    SF_vars(TimeOut) => ((thread = "lock" /\ ~ fired) ~> (fired \/ ~ isRunning))

(* A timer that is running may be started again in either way: assigning   *)
(* the new thread ends the program only when a one-shot timer has already  *)
(* called its function, after which nobody has joined the old thread.      *)
RestartSafe == \A c \in Caller : At(c, "terminated") => kind = "oneShot" /\ fired
=============================================================================
