------------------------------ MODULE TimerProof ------------------------------
(***************************************************************************)
(* Proofs about Timer.  Two facts hold for any number of threads that use  *)
(* the object: the types, and that a one-shot timer calls its function at  *)
(* most once.  The others need what the class silently asks for, one       *)
(* caller at a time (OneCaller): with two, a start may set _isRunning      *)
(* again after another caller's stop() has cleared it.                     *)
(***************************************************************************)
EXTENDS Timer, TLAPS

(* A caller that will start the timer knows which way, and a one-shot      *)
(* timer whose function was called never comes back to its wait.           *)
StartsAKind == \A c \in Caller : caller[c].pc \in {"run", "assign"} => caller[c].then \in Kind
Spent == kind = "oneShot" /\ fired
SpentEnds ==
    /\ Spent => thread \in {"func", "exited"}
    /\ thread = "func" => fired
TimerInv == TypeOK /\ StartsAKind /\ SpentEnds

(* One thread uses the object. *)
OneCaller == \A b, c \in Caller : b = c

(* From the moment stop() has cleared _isRunning to its return the timer is *)
(* not running; outside of stop() a thread that was not joined belongs to a *)
(* running timer or to a one-shot timer that has called its function; and a *)
(* start that is about to create the thread has set _isRunning.             *)
StoppedInv == \A c \in Caller : caller[c].pc \in {"notify", "join"} => ~ isRunning
UnjoinedInv ==
    \A c \in Caller :
        /\ caller[c].pc = "idle" /\ joinable /\ ~ isRunning => Spent
        /\ caller[c].pc \in {"run", "assign"} /\ joinable => Spent
        /\ caller[c].pc = "assign" => joinable \/ isRunning
        /\ caller[c].pc = "terminated" => Spent
CallerInv == StoppedInv /\ UnjoinedInv
-----------------------------------------------------------------------------
(* Before the first start there is no thread and nothing to join. *)
LEMMA InitOK == Init => TimerInv /\ CallerInv
  <1> SUFFICES ASSUME Init PROVE TimerInv /\ CallerInv
    OBVIOUS
  <1>1. \A c \in Caller : caller[c] = Idle
    BY DEF Init
  <1>2. TypeOK
    BY DEF Init, Idle, TypeOK, Kind
  <1>3. StartsAKind /\ StoppedInv
    BY <1>1 DEF Idle, StartsAKind, StoppedInv
  <1>4. SpentEnds
    BY DEF Init, SpentEnds, Spent
  <1>5. UnjoinedInv
    BY <1>1 DEF Init, Idle, UnjoinedInv
  <1> QED
    BY <1>2, <1>3, <1>4, <1>5 DEF TimerInv, CallerInv

(* What a caller's step does to the other callers: nothing. *)
LEMMA OthersStay ==
    ASSUME TypeOK, NEW c \in Caller, CallerNext(c)
    PROVE  /\ caller' \in [Caller -> [pc : {"idle", "flag", "notify", "join", "run", "assign",
                                            "terminated"},
                                      then : Kind \cup {"return", "destroyed"}]]
           /\ \A b \in Caller : b # c => caller'[b] = caller[b]
  <1>1. CASE \E k \in Kind : CallStart(c, k)
    BY <1>1 DEF CallStart, TypeOK, Kind
  <1>2. CASE CallStop(c) \/ Destroy(c)
    BY <1>2 DEF CallStop, Destroy, TypeOK
  <1>3. CASE StopFlag(c) \/ StopNotify(c) \/ StartRun(c)
    BY <1>3 DEF StopFlag, StopNotify, StartRun, Goto, TypeOK
  <1>4. CASE StopJoin(c)
    BY <1>4 DEF StopJoin, AfterStop, TypeOK
  <1>5. CASE StartAssign(c)
    BY <1>5 DEF StartAssign, Goto, Idle, TypeOK
  <1> QED
    BY <1>1, <1>2, <1>3, <1>4, <1>5 DEF CallerNext, CallerStep

(* The callers' steps, for any number of callers. *)
LEMMA CallerNextOK ==
    ASSUME TimerInv, NEW c \in Caller, CallerNext(c)
    PROVE  TimerInv'
  <1> USE DEF TimerInv
  <1>0. /\ caller' \in [Caller -> [pc : {"idle", "flag", "notify", "join", "run", "assign",
                                         "terminated"},
                                   then : Kind \cup {"return", "destroyed"}]]
        /\ \A b \in Caller : b # c => caller'[b] = caller[b]
    BY OthersStay
  <1>1. ASSUME NEW k \in Kind, CallStart(c, k) PROVE TimerInv'
    BY <1>0, <1>1 DEF CallStart, TypeOK, StartsAKind, SpentEnds, Spent
  <1>2. CASE CallStop(c)
    BY <1>0, <1>2 DEF CallStop, TypeOK, StartsAKind, SpentEnds, Spent
  <1>3. CASE Destroy(c)
    BY <1>0, <1>3 DEF Destroy, TypeOK, StartsAKind, SpentEnds, Spent
  <1>4. CASE StopFlag(c)
    BY <1>0, <1>4 DEF StopFlag, Goto, TypeOK, StartsAKind, SpentEnds, Spent
  <1>5. CASE StopNotify(c)
    BY <1>0, <1>5 DEF StopNotify, Goto, TypeOK, StartsAKind, SpentEnds, Spent
  <1>6. CASE StopJoin(c)
    <2>1. caller'[c].pc \in {"run", "assign"} => caller'[c].then \in Kind
      BY <1>6 DEF StopJoin, AfterStop, TypeOK
    <2>2. StartsAKind'
      BY <1>0, <2>1 DEF StartsAKind
    <2>3. TypeOK' /\ SpentEnds'
      BY <1>0, <1>6 DEF StopJoin, TypeOK, SpentEnds, Spent
    <2> QED
      BY <2>2, <2>3
  <1>7. CASE StartRun(c)
    BY <1>0, <1>7 DEF StartRun, At, Goto, TypeOK, StartsAKind, SpentEnds, Spent
  <1>8. CASE StartAssign(c)
    <2>1. caller'[c].pc \in {"idle", "terminated"}
      BY <1>8 DEF StartAssign, Goto, Idle, TypeOK
    <2>2. StartsAKind'
      BY <1>0, <2>1 DEF StartsAKind
    <2>3. caller[c].then \in Kind
      BY <1>8 DEF StartAssign, At, StartsAKind
    <2>4. CASE joinable
      BY <1>0, <1>8, <2>2, <2>4 DEF StartAssign, TypeOK, SpentEnds, Spent
    <2>5. CASE ~ joinable
      BY <1>0, <1>8, <2>2, <2>3, <2>5 DEF StartAssign, TypeOK, SpentEnds, Spent
    <2> QED
      BY <2>4, <2>5
  <1> QED
    BY <1>1, <1>2, <1>3, <1>4, <1>5, <1>6, <1>7, <1>8 DEF CallerNext, CallerStep

(* The steps of the timer's thread. *)
LEMMA ThreadNextOK ==
    ASSUME TimerInv, ThreadStep \/ TimeOut \/ SpuriousWakeup
    PROVE  TimerInv'
  <1> USE DEF TimerInv, TypeOK, StartsAKind, SpentEnds, Spent
  <1>1. CASE LoopCheck \/ Test
    BY <1>1 DEF LoopCheck, Test, Step
  <1>2. CASE Lock \/ Sleep \/ LockAfterTimeOut \/ TimeOut \/ SpuriousWakeup
    BY <1>2 DEF Lock, Sleep, LockAfterTimeOut, TimeOut, SpuriousWakeup, Step
  <1>3. CASE Expire
    BY <1>3 DEF Expire
  <1>4. CASE FuncReturns
    BY <1>4 DEF FuncReturns
  <1> QED
    BY <1>1, <1>2, <1>3, <1>4 DEF ThreadStep

(* TimerInv is inductive. *)
LEMMA TimerNextOK == TimerInv /\ [Next]_vars => TimerInv'
  <1> SUFFICES ASSUME TimerInv, [Next]_vars PROVE TimerInv'
    OBVIOUS
  <1>1. CASE UNCHANGED vars
    BY <1>1 DEF vars, TimerInv, TypeOK, StartsAKind, SpentEnds, Spent
  <1> QED
    BY <1>1, CallerNextOK, ThreadNextOK DEF Next

(* The types, for any number of callers. *)
THEOREM TypeCorrect == Spec => []TypeOK
  <1>1. TimerInv => TypeOK
    BY DEF TimerInv
  <1> QED
    BY <1>1, InitOK, TimerNextOK, PTL DEF Spec

(* A one-shot timer calls its function at most once, for any number of     *)
(* callers that start, restart and stop it at the same time.               *)
THEOREM FiresOnce == Spec => OneShotFiresOnce
  <1>1. TimerInv /\ [Next]_vars =>
          [thread # "func" /\ thread' = "func" => kind = "periodic" \/ ~ fired]_vars
    BY DEF TimerInv, TypeOK, Kind, SpentEnds, Spent, Next, ThreadStep, TimeOut, SpuriousWakeup,
           LoopCheck, Lock, Test, Sleep, LockAfterTimeOut, Expire, FuncReturns, Step,
           CallerNext, CallerStep, CallStart, CallStop, Destroy, StopFlag, StopNotify,
           StopJoin, StartRun, StartAssign, vars
  <1> QED
    BY <1>1, InitOK, TimerNextOK, PTL DEF Spec, OneShotFiresOnce
-----------------------------------------------------------------------------
(* The rest: one caller.  CallerInv is inductive relative to TimerInv. *)
LEMMA CallerInvNextOK ==
    ASSUME OneCaller, TimerInv, CallerInv, [Next]_vars
    PROVE  CallerInv'
  <1> USE DEF CallerInv
  <1>1. CASE UNCHANGED vars
    BY <1>1 DEF vars, StoppedInv, UnjoinedInv, Spent
  <1>2. CASE ThreadStep \/ TimeOut \/ SpuriousWakeup
    BY <1>2 DEF TimerInv, TypeOK, Kind, SpentEnds, StoppedInv, UnjoinedInv, Spent, ThreadStep,
                TimeOut, SpuriousWakeup, LoopCheck, Lock, Test, Sleep, LockAfterTimeOut,
                Expire, FuncReturns, Step
  <1>3. ASSUME NEW c \in Caller, CallerNext(c) PROVE CallerInv'
    <2>1. /\ caller \in [Caller -> [pc : {"idle", "flag", "notify", "join", "run", "assign",
                                          "terminated"},
                                    then : Kind \cup {"return", "destroyed"}]]
          /\ \A b \in Caller : b = c
      BY DEF OneCaller, TimerInv, TypeOK
    <2>2. ASSUME NEW k \in Kind, CallStart(c, k) PROVE CallerInv'
      BY <2>1, <2>2 DEF CallStart, At, StoppedInv, UnjoinedInv, Spent
    <2>3. CASE CallStop(c) \/ Destroy(c)
      BY <2>1, <2>3 DEF CallStop, Destroy, StoppedInv, UnjoinedInv, Spent
    <2>4. CASE StopFlag(c) \/ StopNotify(c)
      BY <2>1, <2>4 DEF StopFlag, StopNotify, At, Goto, StoppedInv, UnjoinedInv, Spent
    <2>5. CASE StopJoin(c)
      BY <2>1, <2>5 DEF StopJoin, AfterStop, StoppedInv, UnjoinedInv, Spent
    <2>6. CASE StartRun(c)
      BY <2>1, <2>6 DEF StartRun, At, Goto, StoppedInv, UnjoinedInv, Spent
    <2>7. CASE StartAssign(c)
      BY <2>1, <2>7 DEF StartAssign, At, Goto, Idle, StoppedInv, UnjoinedInv, Spent
    <2> QED
      BY <1>3, <2>2, <2>3, <2>4, <2>5, <2>6, <2>7 DEF CallerNext, CallerStep
  <1> QED
    BY <1>1, <1>2, <1>3 DEF Next

(* Both invariants, along every behaviour. *)
LEMMA OneCallerSafe ==
    ASSUME OneCaller
    PROVE  Spec => [](TimerInv /\ CallerInv)
  <1>1. TimerInv /\ CallerInv /\ [Next]_vars => CallerInv'
    BY CallerInvNextOK
  <1> QED
    BY <1>1, InitOK, TimerNextOK, PTL DEF Spec

(* With one caller the program is terminated by an assignment to a thread  *)
(* that was not joined only after a one-shot timer has called its function. *)
THEOREM RestartIsSafe ==
    ASSUME OneCaller
    PROVE  Spec => []RestartSafe
  <1>1. TimerInv /\ CallerInv => RestartSafe
    BY DEF CallerInv, UnjoinedInv, Spent, RestartSafe, At
  <1> QED
    BY <1>1, OneCallerSafe, PTL

(* With one caller no call of the function begins after stop() has cleared *)
(* _isRunning, however the wait, its timeout and the stop interleave.      *)
THEOREM StopIsFinal ==
    ASSUME OneCaller
    PROVE  Spec => NoCallAfterStop
  <1>1. TimerInv /\ CallerInv /\ [Next]_vars =>
          [thread # "func" /\ thread' = "func" =>
             joinable /\ \A c \in Caller : caller[c].pc \notin {"notify", "join"}]_vars
    BY DEF TimerInv, TypeOK, CallerInv, StoppedInv, Next, ThreadStep, TimeOut, SpuriousWakeup,
           LoopCheck, Lock, Test, Sleep, LockAfterTimeOut, Expire, FuncReturns, Step,
           CallerNext, CallerStep, CallStart, CallStop, Destroy, StopFlag, StopNotify,
           StopJoin, StartRun, StartAssign, vars
  <1> QED
    BY <1>1, OneCallerSafe, PTL DEF Spec, NoCallAfterStop
=============================================================================
