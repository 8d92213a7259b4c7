---------------------------- MODULE SnoozableTimer ----------------------------
(***************************************************************************)
(* SnoozableTimer: a thread that calls _function when _executionTime has   *)
(* come, and a snooze() that moves that time to now plus the period.       *)
(*                                                                         *)
(* Times are kept as the time that is left.  The owner runs start, stop    *)
(* and the destructor; users call snooze and updateSnoozePeriod.  The      *)
(* thread holds _mutex from a wakeup to the next wait, except while it     *)
(* runs _function; everyone else holds it for one step only (see Locked).  *)
(*                                                                         *)
(* wait_until hands the deadline of the moment to the kernel (wakeAt), but *)
(* takes _executionTime by reference: whether a wakeup counts as a timeout *)
(* is decided after _mutex is taken again, by the deadline of that moment. *)
(***************************************************************************)
EXTENDS Naturals

CONSTANTS User,          \* threads that snooze
          Period,        \* values of _snoozePeriodMs, in ticks
          MaxPeriod      \* bound: the longest period

ASSUME SnoozableTimerAssumption ==
    MaxPeriod \in Nat /\ Period # {} /\ Period \subseteq 0 .. MaxPeriod

VARIABLES
    isRunning,           \* _isRunning
    snoozePeriod,        \* _snoozePeriodMs
    left,                \* time until _executionTime
    wakeAt,              \* time until the deadline of the kernel's wait
    thread,              \* where the timer's thread is
    owner,               \* where the owner is
    user,                \* user[u]: where thread u is
    armed,               \* history: no call of _function since the last snooze or start
    age,                 \* history: time since then, up to MaxPeriod
    due                  \* history: the period that was used then

vars == <<isRunning, snoozePeriod, left, wakeAt, thread, owner, user, armed, age, due>>

(* 87600 hours: out of sight. *)
Far == MaxPeriod + 1
Locked == thread \in {"test", "sleep"}

(* The types; and start() never overwrites a thread that was not joined. *)
TypeOK ==
    /\ isRunning \in BOOLEAN
    /\ snoozePeriod \in Period
    /\ left \in 0 .. Far
    /\ wakeAt \in 0 .. Far
    /\ thread \in {"lock", "test", "sleep", "asleep", "woken", "func", "relock", "exited"}
    /\ owner \in {"idle", "arm", "run", "flag", "notify", "join", "destroyed"}
    /\ user \in [User -> {"idle", "snooze"}]
    /\ armed \in BOOLEAN
    /\ age \in 0 .. MaxPeriod
    /\ due \in Period
    /\ owner \in {"arm", "run"} => thread = "exited"

Init ==
    /\ isRunning = FALSE
    /\ snoozePeriod \in Period
    /\ left = 0
    /\ wakeAt = 0
    /\ thread = "exited"
    /\ owner = "idle"
    /\ user = [u \in User |-> "idle"]
    /\ armed = FALSE
    /\ age = 0
    /\ due = snoozePeriod

(* _executionTime = now() + _snoozePeriodMs *)
Arm ==
    /\ left' = snoozePeriod
    /\ armed' = TRUE
    /\ age' = 0
    /\ due' = snoozePeriod
-----------------------------------------------------------------------------
(* The owner. *)

StartCheck ==
    /\ owner = "idle"
    /\ ~ isRunning
    /\ owner' = "arm"
    /\ UNCHANGED <<isRunning, snoozePeriod, left, wakeAt, thread, user, armed, age, due>>

(* start() writes _executionTime without _mutex. *)
StartArm ==
    /\ owner = "arm"
    /\ Arm
    /\ owner' = "run"
    /\ UNCHANGED <<isRunning, snoozePeriod, wakeAt, thread, user>>

StartThread ==
    /\ owner = "run"
    /\ isRunning' = TRUE
    /\ thread' = "lock"
    /\ owner' = "idle"
    /\ UNCHANGED <<snoozePeriod, left, wakeAt, user, armed, age, due>>

StopCall ==
    /\ owner = "idle"
    /\ owner' = "flag"
    /\ UNCHANGED <<isRunning, snoozePeriod, left, wakeAt, thread, user, armed, age, due>>

(* Mutant: stop() clears _isRunning without _mutex. *)
StopFlagUnlocked ==
    /\ owner = "flag"
    /\ isRunning' = FALSE
    /\ owner' = "notify"
    /\ UNCHANGED <<snoozePeriod, left, wakeAt, thread, user, armed, age, due>>

StopFlag ==
    /\ owner = "flag"
    /\ ~ Locked
    /\ isRunning' = FALSE
    /\ owner' = "notify"
    /\ UNCHANGED <<snoozePeriod, left, wakeAt, thread, user, armed, age, due>>

(* notify_all wakes the thread if it is blocked. *)
Notify == thread' = IF thread = "asleep" THEN "woken" ELSE thread

StopNotify ==
    /\ owner = "notify"
    /\ Notify
    /\ owner' = "join"
    /\ UNCHANGED <<isRunning, snoozePeriod, left, wakeAt, user, armed, age, due>>

(* stop() is called by itself or by the destructor, which the owner runs   *)
(* when no user is inside the object.                                      *)
StopJoin ==
    /\ owner = "join"
    /\ thread = "exited"
    /\ \/ owner' = "idle"
       \/ owner' = "destroyed" /\ \A u \in User : user[u] = "idle"
    /\ UNCHANGED <<isRunning, snoozePeriod, left, wakeAt, thread, user, armed, age, due>>
-----------------------------------------------------------------------------
(* The users. *)

CallSnooze(u) ==
    /\ user[u] = "idle"
    /\ owner # "destroyed"
    /\ user' = [user EXCEPT ![u] = "snooze"]
    /\ UNCHANGED <<isRunning, snoozePeriod, left, wakeAt, thread, owner, armed, age, due>>

(* updateSnoozePeriod takes _mutex for the new period, lets go of it, and  *)
(* then calls snooze().                                                    *)
UpdateSnoozePeriod(u, p) ==
    /\ user[u] = "idle"
    /\ owner # "destroyed"
    /\ ~ Locked
    /\ snoozePeriod' = p
    /\ user' = [user EXCEPT ![u] = "snooze"]
    /\ UNCHANGED <<isRunning, left, wakeAt, thread, owner, armed, age, due>>

(* Mutant: nobody is notified of the new time. *)
SnoozeSilently(u) ==
    /\ user[u] = "snooze"
    /\ ~ Locked
    /\ Arm
    /\ user' = [user EXCEPT ![u] = "idle"]
    /\ UNCHANGED <<isRunning, snoozePeriod, wakeAt, thread, owner>>

Snooze(u) ==
    /\ user[u] = "snooze"
    /\ ~ Locked
    /\ Arm
    /\ Notify
    /\ user' = [user EXCEPT ![u] = "idle"]
    /\ UNCHANGED <<isRunning, snoozePeriod, wakeAt, owner>>
-----------------------------------------------------------------------------
(* The timer's thread. *)

Lock ==
    /\ thread = "lock"
    /\ ~ Locked
    /\ thread' = "test"
    /\ UNCHANGED <<isRunning, snoozePeriod, left, wakeAt, owner, user, armed, age, due>>

(* while (_isRunning) *)
Test ==
    /\ thread = "test"
    /\ thread' = IF isRunning THEN "sleep" ELSE "exited"
    /\ UNCHANGED <<isRunning, snoozePeriod, left, wakeAt, owner, user, armed, age, due>>

(* wait_until gives up _mutex and blocks, atomically. *)
Sleep ==
    /\ thread = "sleep"
    /\ wakeAt' = left
    /\ thread' = "asleep"
    /\ UNCHANGED <<isRunning, snoozePeriod, left, owner, user, armed, age, due>>

TimeOut ==
    /\ thread = "asleep"
    /\ wakeAt = 0
    /\ thread' = "woken"
    /\ UNCHANGED <<isRunning, snoozePeriod, left, wakeAt, owner, user, armed, age, due>>

SpuriousWakeup ==
    /\ thread = "asleep"
    /\ thread' = "woken"
    /\ UNCHANGED <<isRunning, snoozePeriod, left, wakeAt, owner, user, armed, age, due>>

(* Mutant: the deadline of the moment the wait began decides. *)
WakeByOldDeadline ==
    /\ thread = "woken"
    /\ ~ Locked
    /\ IF wakeAt = 0 /\ isRunning
       THEN thread' = "func" /\ armed' = FALSE
       ELSE thread' = "test" /\ UNCHANGED armed
    /\ UNCHANGED <<isRunning, snoozePeriod, left, wakeAt, owner, user, age, due>>

(* wait_until takes _mutex again and returns; on a timeout of a running    *)
(* timer the thread gives _mutex up and calls _function.                   *)
Wake ==
    /\ thread = "woken"
    /\ ~ Locked
    /\ IF left = 0 /\ isRunning
       THEN thread' = "func" /\ armed' = FALSE
       ELSE thread' = "test" /\ UNCHANGED armed
    /\ UNCHANGED <<isRunning, snoozePeriod, left, wakeAt, owner, user, age, due>>

FuncReturns ==
    /\ thread = "func"
    /\ thread' = "relock"
    /\ UNCHANGED <<isRunning, snoozePeriod, left, wakeAt, owner, user, armed, age, due>>

(* Mutant: the time of the next call is left as it is. *)
RelockOnly ==
    /\ thread = "relock"
    /\ ~ Locked
    /\ thread' = "test"
    /\ UNCHANGED <<isRunning, snoozePeriod, left, wakeAt, owner, user, armed, age, due>>

(* _executionTime = now() + 87600 hours, whatever it is by now. *)
Relock ==
    /\ thread = "relock"
    /\ ~ Locked
    /\ left' = Far
    /\ thread' = "test"
    /\ UNCHANGED <<isRunning, snoozePeriod, wakeAt, owner, user, armed, age, due>>
-----------------------------------------------------------------------------
Sooner(t) == IF t \in {0, Far} THEN t ELSE t - 1

(* Time passes. *)
Tick ==
    /\ left' = Sooner(left)
    /\ wakeAt' = Sooner(wakeAt)
    /\ age' = IF age < MaxPeriod THEN age + 1 ELSE age
    /\ UNCHANGED <<isRunning, snoozePeriod, thread, owner, user, armed, due>>

OwnerStep == StartArm \/ StartThread \/ StopFlag \/ StopNotify \/ StopJoin
ThreadStep == Lock \/ Test \/ Sleep \/ Wake \/ FuncReturns \/ Relock

Next ==
    \/ StartCheck \/ StopCall \/ OwnerStep
    \/ \E u \in User : CallSnooze(u) \/ Snooze(u) \/ \E p \in Period : UpdateSnoozePeriod(u, p)
    \/ ThreadStep
    \/ TimeOut
    \/ SpuriousWakeup
    \/ Tick

Spec == Init /\ [][Next]_vars

(* Threads are scheduled, _function returns, and a thread that waits for   *)
(* _mutex gets it in the end.  Nothing is assumed about time.              *)
FairSpec ==
    /\ Spec
    /\ WF_vars(ThreadStep)
    /\ SF_vars(OwnerStep)
    /\ \A u \in User : SF_vars(Snooze(u))
-----------------------------------------------------------------------------
Fires == thread # "func" /\ thread' = "func"

(* _function is not called before the whole period has passed since the    *)
(* last snooze() or start(), even if the wait timed out before the snooze. *)
NoEarlyCall == [][Fires => age >= due]_vars

(* _function is called at most once after each snooze() or start(), and    *)
(* never after stop() has cleared _isRunning.                              *)
NoStrayCall ==
    [][Fires => armed /\ owner \notin {"notify", "join", "destroyed"}]_vars

(* stop() and the destructor return, however far the deadline is: the      *)
(* thread cannot miss the notification.                                    *)
StopReturns == (owner = "flag") ~> (owner \in {"idle", "destroyed"})

(* When the snoozing ends, a timer that is armed while its thread waits    *)
(* calls _function, unless it is stopped: as long as time passes and a     *)
(* wait ends at its deadline, the thread does not sleep on an old one.     *)
SnoozeFires ==
    (WF_vars(Tick) /\ WF_vars(TimeOut) /\ <>[](\A u \in User : user[u] = "idle")) =>
        ((armed /\ thread = "asleep" /\ left # Far) ~> (~ armed \/ ~ isRunning))
=============================================================================
