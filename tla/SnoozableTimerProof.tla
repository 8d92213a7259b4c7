-------------------------- MODULE SnoozableTimerProof --------------------------
(***************************************************************************)
(* Proofs about SnoozableTimer, for any number of threads that snooze and  *)
(* any periods: the types, and that no call of _function is early, comes a *)
(* second time or comes after stop().                                      *)
(***************************************************************************)
EXTENDS SnoozableTimer, TLAPS

(* stop() and start() know whether the timer runs; one that does not, and  *)
(* that nobody is stopping, has no thread.                                 *)
OwnerInv ==
    /\ owner \in {"arm", "run", "notify", "join", "destroyed"} => ~ isRunning
    /\ owner = "idle" /\ ~ isRunning => thread = "exited"

(* After a call and until the next snooze or start _executionTime is out   *)
(* of sight, as soon as the thread has taken _mutex again.                 *)
SpentInv ==
    /\ ~ armed => left = Far \/ thread \in {"func", "relock", "exited"}
    /\ owner = "run" => armed

(* What is left and what has passed make up at least the period. *)
DeadlineInv == armed => age + left >= due

TimerInv == TypeOK /\ OwnerInv /\ SpentInv /\ DeadlineInv
-----------------------------------------------------------------------------
(* The periods are numbers, and Far is beyond them. *)
LEMMA Numbers ==
    /\ MaxPeriod \in Nat /\ Far \in Nat /\ Far > MaxPeriod
    /\ \A p \in Period : p \in Nat /\ p <= MaxPeriod
  BY SnoozableTimerAssumption DEF Far

(* Before the first start there is no thread and nothing is armed. *)
LEMMA InitOK == Init => TimerInv
  <1> SUFFICES ASSUME Init PROVE TimerInv
    OBVIOUS
  <1>1. 0 \in 0 .. Far /\ 0 \in 0 .. MaxPeriod
    BY Numbers
  <1>2. TypeOK
    BY <1>1 DEF Init, TypeOK
  <1>3. OwnerInv /\ SpentInv /\ DeadlineInv
    BY DEF Init, OwnerInv, SpentInv, DeadlineInv
  <1> QED
    BY <1>2, <1>3 DEF TimerInv

(* Moving _executionTime, by snooze() or by start(). *)
LEMMA ArmOK ==
    ASSUME TypeOK, Arm
    PROVE  /\ left' \in 0 .. Far /\ armed' = TRUE /\ age' \in 0 .. MaxPeriod /\ due' \in Period
           /\ DeadlineInv'
  BY Numbers DEF Arm, TypeOK, DeadlineInv

(* start(), stop() and the destructor. *)
LEMMA OwnerOK ==
    ASSUME TimerInv, StartCheck \/ StopCall \/ OwnerStep
    PROVE  TimerInv'
  <1> USE DEF TimerInv
  <1>1. CASE StartCheck
    BY <1>1 DEF StartCheck, TypeOK, OwnerInv, SpentInv, DeadlineInv
  <1>2. CASE StartArm
    BY <1>2, ArmOK DEF StartArm, TypeOK, OwnerInv, SpentInv
  <1>3. CASE StartThread
    BY <1>3 DEF StartThread, TypeOK, OwnerInv, SpentInv, DeadlineInv
  <1>4. CASE StopCall
    BY <1>4 DEF StopCall, TypeOK, OwnerInv, SpentInv, DeadlineInv
  <1>5. CASE StopFlag
    BY <1>5 DEF StopFlag, TypeOK, OwnerInv, SpentInv, DeadlineInv
  <1>6. CASE StopNotify
    BY <1>6 DEF StopNotify, Notify, TypeOK, OwnerInv, SpentInv, DeadlineInv
  <1>7. CASE StopJoin
    BY <1>7 DEF StopJoin, TypeOK, OwnerInv, SpentInv, DeadlineInv
  <1> QED
    BY <1>1, <1>2, <1>3, <1>4, <1>5, <1>6, <1>7 DEF OwnerStep

(* snooze() and updateSnoozePeriod(). *)
LEMMA UserOK ==
    ASSUME TimerInv, NEW u \in User,
           CallSnooze(u) \/ Snooze(u) \/ \E p \in Period : UpdateSnoozePeriod(u, p)
    PROVE  TimerInv'
  <1> USE DEF TimerInv
  <1>1. CASE CallSnooze(u)
    BY <1>1 DEF CallSnooze, TypeOK, OwnerInv, SpentInv, DeadlineInv
  <1>2. CASE Snooze(u)
    <2>1. TypeOK'
      BY <1>2, ArmOK DEF Snooze, Notify, TypeOK
    <2>2. OwnerInv' /\ SpentInv' /\ DeadlineInv'
      BY <1>2, ArmOK DEF Snooze, Notify, OwnerInv, SpentInv
    <2> QED
      BY <2>1, <2>2
  <1>3. ASSUME NEW p \in Period, UpdateSnoozePeriod(u, p) PROVE TimerInv'
    BY <1>3 DEF UpdateSnoozePeriod, TypeOK, OwnerInv, SpentInv, DeadlineInv
  <1> QED
    BY <1>1, <1>2, <1>3

(* The timer's thread: Wake disarms, Relock puts the time out of sight. *)
LEMMA ThreadOK ==
    ASSUME TimerInv, ThreadStep \/ TimeOut \/ SpuriousWakeup
    PROVE  TimerInv'
  <1> USE DEF TimerInv
  <1>1. CASE Lock \/ Test
    BY <1>1 DEF Lock, Test, TypeOK, OwnerInv, SpentInv, DeadlineInv
  <1>2. CASE Sleep \/ TimeOut \/ SpuriousWakeup
    BY <1>2 DEF Sleep, TimeOut, SpuriousWakeup, TypeOK, OwnerInv, SpentInv, DeadlineInv
  <1>3. CASE Wake
    BY <1>3 DEF Wake, TypeOK, OwnerInv, SpentInv, DeadlineInv
  <1>4. CASE FuncReturns
    BY <1>4 DEF FuncReturns, TypeOK, OwnerInv, SpentInv, DeadlineInv
  <1>5. CASE Relock
    <2>1. TypeOK'
      BY <1>5, Numbers DEF Relock, TypeOK
    <2>2. DeadlineInv'
      BY <1>5, Numbers DEF Relock, TypeOK, DeadlineInv
    <2>3. OwnerInv' /\ SpentInv'
      BY <1>5 DEF Relock, OwnerInv, SpentInv, Far
    <2> QED
      BY <2>1, <2>2, <2>3
  <1> QED
    BY <1>1, <1>2, <1>3, <1>4, <1>5 DEF ThreadStep

(* Time that passes is taken from what is left and added to the age. *)
LEMMA TickOK ==
    ASSUME TimerInv, Tick
    PROVE  TimerInv'
  <1>1. /\ left \in Nat /\ left <= Far /\ wakeAt \in Nat /\ wakeAt <= Far
        /\ age \in Nat /\ age <= MaxPeriod /\ due \in Nat /\ due <= MaxPeriod
    BY Numbers DEF TimerInv, TypeOK
  <1>2. ASSUME NEW t \in Nat, t <= Far
        PROVE  Sooner(t) \in 0 .. Far /\ Sooner(t) + 1 >= t /\ (t = Far => Sooner(t) = Far)
    BY <1>2, Numbers DEF Sooner
  <1>3. left' = Sooner(left) /\ wakeAt' = Sooner(wakeAt)
    BY DEF Tick
  <1>4. left' \in Nat /\ left' + 1 >= left
    BY <1>1, <1>2, <1>3, Numbers
  <1>5. TypeOK'
    BY <1>1, <1>2, <1>3, Numbers DEF Tick, TimerInv, TypeOK
  <1>6. OwnerInv'
    BY DEF Tick, TimerInv, OwnerInv
  <1>7. SpentInv'
    BY <1>1, <1>2, <1>3 DEF Tick, TimerInv, SpentInv, Far
  <1>8. DeadlineInv'
    <2>1. SUFFICES ASSUME armed' PROVE age' + left' >= due'
      BY DEF DeadlineInv
    <2>2. age + left >= due /\ due' = due
      BY <2>1 DEF Tick, TimerInv, DeadlineInv
    <2>3. age' = IF age < MaxPeriod THEN age + 1 ELSE age
      BY DEF Tick
    <2>4. ASSUME NEW a \in Nat, NEW l \in Nat, a + l >= due, due <= MaxPeriod,
                 NEW l2 \in Nat, l2 + 1 >= l
          PROVE  (IF a < MaxPeriod THEN a + 1 ELSE a) + l2 >= due
      BY <1>1, <2>4, Numbers
    <2> QED
      BY <1>1, <1>4, <2>2, <2>3, <2>4
  <1> QED
    BY <1>5, <1>6, <1>7, <1>8 DEF TimerInv

(* TimerInv is inductive. *)
LEMMA NextOK == TimerInv /\ [Next]_vars => TimerInv'
  <1> SUFFICES ASSUME TimerInv, [Next]_vars PROVE TimerInv'
    OBVIOUS
  <1>1. CASE UNCHANGED vars
    BY <1>1 DEF vars, TimerInv, TypeOK, OwnerInv, SpentInv, DeadlineInv, Far
  <1> QED
    BY <1>1, OwnerOK, UserOK, ThreadOK, TickOK DEF Next

(* Only Wake calls _function. *)
LEMMA OnlyWakeFires ==
    ASSUME TimerInv, Next, Fires
    PROVE  Wake /\ left = 0 /\ isRunning /\ thread = "woken"
  <1>1. ~ (StartCheck \/ StopCall \/ OwnerStep)
    BY DEF Fires, StartCheck, StopCall, OwnerStep, StartArm, StartThread, StopFlag, StopNotify,
           Notify, StopJoin
  <1>2. ~ \E u \in User : CallSnooze(u) \/ Snooze(u) \/ \E p \in Period : UpdateSnoozePeriod(u, p)
    BY DEF Fires, CallSnooze, Snooze, Notify, UpdateSnoozePeriod
  <1>3. ~ (TimeOut \/ SpuriousWakeup \/ Tick \/ Lock \/ Test \/ Sleep \/ FuncReturns \/ Relock)
    BY DEF Fires, TimeOut, SpuriousWakeup, Tick, Lock, Test, Sleep, FuncReturns, Relock
  <1>4. Wake
    BY <1>1, <1>2, <1>3 DEF Next, ThreadStep
  <1> QED
    BY <1>4 DEF Wake, Fires

(* The types; and start() never overwrites a thread that was not joined. *)
THEOREM TypeCorrect == Spec => []TypeOK
  <1>1. TimerInv => TypeOK
    BY DEF TimerInv
  <1> QED
    BY <1>1, InitOK, NextOK, PTL DEF Spec

(* No call of _function is early: the whole period that the last snooze()  *)
(* or start() has used lies before it.                                     *)
THEOREM NeverEarly == Spec => NoEarlyCall
  <1>1. TimerInv /\ [Next]_vars => [Fires => age >= due]_vars
    <2> SUFFICES ASSUME TimerInv, Next, Fires PROVE age >= due
      OBVIOUS
    <2>1. left = 0 /\ thread = "woken"
      BY OnlyWakeFires
    <2>2. armed
      BY <2>1, Numbers DEF TimerInv, SpentInv
    <2> QED
      BY <2>1, <2>2, Numbers DEF TimerInv, TypeOK, DeadlineInv
  <1> QED
    BY <1>1, InitOK, NextOK, PTL DEF Spec, NoEarlyCall

(* _function is called at most once per snooze() or start(), and not after *)
(* stop() has cleared _isRunning.                                          *)
THEOREM NeverStray == Spec => NoStrayCall
  <1>1. TimerInv /\ [Next]_vars =>
          [Fires => armed /\ owner \notin {"notify", "join", "destroyed"}]_vars
    <2> SUFFICES ASSUME TimerInv, Next, Fires
                 PROVE  armed /\ owner \notin {"notify", "join", "destroyed"}
      OBVIOUS
    <2>1. left = 0 /\ thread = "woken" /\ isRunning
      BY OnlyWakeFires
    <2> QED
      BY <2>1, Numbers DEF TimerInv, SpentInv, OwnerInv
  <1> QED
    BY <1>1, InitOK, NextOK, PTL DEF Spec, NoStrayCall
=============================================================================
