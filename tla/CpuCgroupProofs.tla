-------------------------- MODULE CpuCgroupProofs --------------------------
(***************************************************************************)
(* Theorems about the CPU cgroup, for every set of threads, quota and      *)
(* period.                                                                 *)
(***************************************************************************)
EXTENDS CpuCgroup, TLAPS

-----------------------------------------------------------------------------
(* Types *)

\* The scheduler's operations keep the types of what they change.
LEMMA BlockTypes ==
  ASSUME TypeOK, NEW S \in SUBSET Thread, Block(S) \/ Unblock(S)
  PROVE  /\ blocked' \subseteq Thread
         /\ heir' \in Thread \cup {IdleThread}
         /\ necessary' \in BOOLEAN
<1>1. CASE Block(S)
  BY <1>1 DEF TypeOK, Block, Ready
<1>2. CASE Unblock(S)
  BY <1>2 DEF TypeOK, Unblock
<1> QED BY <1>1, <1>2

\* So do _CORE_cgroup_Suspend() and _CORE_cgroup_Resume().
LEMMA SuspendTypes ==
  ASSUME TypeOK, Suspend \/ Resume
  PROVE  /\ suspended' \in BOOLEAN
         /\ blocked' \subseteq Thread
         /\ heir' \in Thread \cup {IdleThread}
         /\ necessary' \in BOOLEAN
<1>1. members \in SUBSET Thread
  BY DEF TypeOK
<1>2. CASE UNCHANGED <<suspended, sched>>
  BY <1>2 DEF TypeOK, sched
<1>3. CASE Block(members) \/ Unblock(members)
  <2>1. suspended' \in BOOLEAN
    BY DEF Suspend, Resume, TypeOK, sched
  <2> QED BY <1>1, <1>3, <2>1, BlockTypes
<1> QED BY <1>2, <1>3 DEF Suspend, Resume

\* A watchdog that is decremented keeps its range.
LEMMA DecrementType ==
  ASSUME NEW n \in Nat, NEW timer \in 0 .. n \cup {NoTimer}
  PROVE  Decrement(timer) \in 0 .. n \cup {NoTimer}
BY TimerAssumption DEF Decrement

\* Every step of the clock interrupt is well typed.
LEMMA ClockTypes ==
  ASSUME TypeOK, Clock
  PROVE  TypeOK'
<1>1. CASE Tick
  <2>1. since' \in [Thread -> 0 .. Quota]
    BY <1>1, QuotaAssumption DEF TypeOK, Tick, Capped
  <2>2. /\ suspendT' \in 0 .. Quota \cup {NoTimer}
        /\ orphan' \in 0 .. Quota \cup {NoTimer}
        /\ resumeT' \in 0 .. Period \cup {NoTimer}
    BY <1>1, QuotaAssumption, DecrementType DEF TypeOK, Tick
  <2>3. used' \in Nat /\ stint' \in Nat /\ missed' \in Nat
    BY <1>1 DEF TypeOK, Tick, usage
  <2> QED BY <1>1, <2>1, <2>2, <2>3 DEF TypeOK, Tick, group, sched, api
<1>2. CASE FireResume
  <2>1. avail' \in 0 .. Quota /\ resumeT' \in 0 .. Period \cup {NoTimer}
    BY <1>2, QuotaAssumption DEF FireResume
  <2>2. used' \in Nat /\ stint' \in Nat /\ missed' \in Nat
    BY <1>2 DEF FireResume
  <2>3. Resume
    BY <1>2 DEF FireResume
  <2> QED BY <1>2, <2>1, <2>2, <2>3, SuspendTypes DEF TypeOK, FireResume, cpu, api
<1>3. CASE FireSuspend
  <2>1. Suspend
    BY <1>3 DEF FireSuspend
  <2> QED BY <1>3, <2>1, SuspendTypes DEF TypeOK, FireSuspend, cpu, api, history, usage
<1>4. CASE FireOrphan
  <2>1. Suspend
    BY <1>4 DEF FireOrphan
  <2> QED BY <1>4, <2>1, SuspendTypes DEF TypeOK, FireOrphan, cpu, api, history, usage
<1>5. CASE TickEnd
  BY <1>5 DEF TypeOK, TickEnd, group, timers, sched, api, history, usage
<1> QED BY <1>1, <1>2, <1>3, <1>4, <1>5 DEF Clock

\* Every step of the dispatcher is well typed: no charge takes the quota below
\* zero.
LEMMA DispatchTypes ==
  ASSUME TypeOK, Dispatch
  PROVE  TypeOK'
<1>1. CASE DispatchBegin
  <2>1. /\ avail' \in 0 .. Quota
        /\ suspendT' \in 0 .. Quota \cup {NoTimer}
    <3>1. CASE executing \in added
      <4>1. since[executing] \in 0 .. Quota
        BY <3>1 DEF TypeOK
      <4> QED BY <1>1, <3>1, <4>1, QuotaAssumption DEF TypeOK, DispatchBegin, Charge
    <3>2. CASE executing \notin added
      BY <1>1, <3>2 DEF TypeOK, DispatchBegin, Charge
    <3> QED BY <3>1, <3>2
  <2>2. /\ suspended' \in BOOLEAN
        /\ blocked' \subseteq Thread
        /\ heir' \in Thread \cup {IdleThread}
        /\ necessary' \in BOOLEAN
    <3>1. CASE Suspend
      BY <3>1, SuspendTypes
    <3>2. CASE UNCHANGED <<suspended, sched>>
      BY <3>2 DEF TypeOK, sched
    <3> QED BY <1>1, <3>1, <3>2 DEF DispatchBegin, Charge
  <2> QED BY <1>1, <2>1, <2>2 DEF TypeOK, DispatchBegin, api, history, usage
<1>2. CASE DispatchRefuse
  <2>1. /\ blocked' \subseteq Thread
        /\ heir' \in Thread \cup {IdleThread}
        /\ necessary' \in BOOLEAN
        /\ phase' \in {"run", "loop", "switched"}
        /\ executing' \in Thread \cup {IdleThread}
    BY <1>2 DEF TypeOK, DispatchRefuse, Ready
  <2> QED BY <1>2, <2>1 DEF TypeOK, DispatchRefuse, timers, api, history, usage
<1>3. CASE DispatchSwitch
  <2>1. suspendT' \in 0 .. Quota \cup {NoTimer} /\ since' \in [Thread -> 0 .. Quota]
    BY <1>3, QuotaAssumption DEF TypeOK, DispatchSwitch
  <2> QED BY <1>3, <2>1 DEF TypeOK, DispatchSwitch, group, api
<1>4. CASE DispatchEnd
  BY <1>4 DEF TypeOK, DispatchEnd, group, timers, sched, api, history, usage
<1> QED BY <1>1, <1>2, <1>3, <1>4 DEF Dispatch

\* Every step of a pause or resume call is well typed.
LEMMA CallTypes ==
  ASSUME TypeOK, NEW p \in Thread, CallStep(p)
  PROVE  TypeOK'
<1>1. CASE CallDisable(p)
  BY <1>1 DEF TypeOK, CallDisable, group, timers, sched, cpu, history, usage
<1>2. CASE CallEnd(p)
  BY <1>2 DEF TypeOK, CallEnd, group, timers, sched, cpu, history, usage
<1>3. CASE \E t \in Thread : CallVisit(p, t)
  <2>1. PICK t \in Thread : CallVisit(p, t)
    BY <1>3
  <2>2. Block({t}) \/ Unblock({t})
    BY <2>1 DEF CallVisit
  <2> QED BY <2>1, <2>2, BlockTypes DEF TypeOK, CallVisit, group, timers, cpu, history, usage
<1> QED BY <1>1, <1>2, <1>3 DEF CallStep

\* Every directive is well typed.
LEMMA DirectiveTypes ==
  ASSUME TypeOK, NEW p \in Thread, Directive(p)
  PROVE  TypeOK'
<1>1. CASE Create(p)
  <2>1. avail' \in 0 .. Quota /\ resumeT' \in 0 .. Period \cup {NoTimer}
    BY <1>1, QuotaAssumption DEF Create
  <2>2. used' \in Nat /\ stint' \in Nat /\ missed' \in Nat
    BY <1>1 DEF Create
  <2> QED BY <1>1, <2>1, <2>2 DEF TypeOK, Create, sched, cpu, api
<1>2. CASE Delete(p)
  BY <1>2 DEF TypeOK, Delete, sched, cpu, api, usage
<1>3. ASSUME NEW t \in Thread, Add(p, t) PROVE TypeOK'
  BY <1>3 DEF TypeOK, Add, timers, sched, cpu, api, usage
<1>4. ASSUME NEW t \in Thread, RawRemove(p, t) \/ LeaveRemove(p, t) PROVE TypeOK'
  <2>1. Remove(p, t)
    BY <1>4 DEF RawRemove, LeaveRemove
  <2>2. stint' \in Nat /\ missed' \in Nat
    BY <2>1 DEF TypeOK, Remove
  <2>3. leaving' \in [Thread -> Thread \cup {NoThread}]
    BY <1>4 DEF TypeOK, RawRemove, LeaveRemove
  <2> QED BY <2>1, <2>2, <2>3 DEF TypeOK, Remove, timers, sched, cpu
<1>5. CASE LeaveClear(p)
  BY <1>5 DEF TypeOK, LeaveClear, timers, sched, cpu, history, usage
<1>6. ASSUME NEW op \in {"suspend", "resume"}, CallBegin(p, op) PROVE TypeOK'
  BY <1>6 DEF TypeOK, CallBegin, timers, sched, cpu, usage
<1> QED BY <1>1, <1>2, <1>3, <1>4, <1>5, <1>6 DEF Directive

\* Types are kept by every step.
LEMMA TypesKept == TypeOK /\ [Next]_vars => TypeOK'
<1> SUFFICES ASSUME TypeOK, [Next]_vars PROVE TypeOK'
  OBVIOUS
<1>1. CASE Reschedule
  BY <1>1 DEF TypeOK, Reschedule, Ready, group, timers, cpu, api, history, usage
<1>2. CASE UNCHANGED vars
  BY <1>2 DEF TypeOK, vars, group, timers, sched, cpu, api, history, usage
<1>3. CASE Stray
  BY <1>2, <1>3 DEF Stray
<1> QED BY <1>1, <1>2, <1>3, ClockTypes, DispatchTypes, CallTypes, DirectiveTypes DEF Next

\* The initial state is well typed.
LEMMA InitTypes == Init => TypeOK
<1> SUFFICES ASSUME Init PROVE TypeOK
  OBVIOUS
<1>1. avail \in 0 .. Quota /\ since \in [Thread -> 0 .. Quota]
  BY QuotaAssumption DEF Init
<1>2. used \in Nat /\ stint \in Nat /\ missed \in Nat
  BY DEF Init
<1> QED BY <1>1, <1>2 DEF Init, TypeOK

\* The counters and timers of the group keep their ranges whatever calls are
\* allowed: in particular the quota left never falls below zero, and neither
\* watchdog is armed for longer than the quota or the period.
THEOREM CpuTypeCorrect == Spec => []TypeOK
BY InitTypes, TypesKept, PTL DEF Spec

-----------------------------------------------------------------------------
(* A pause stops the members *)

\* A thread that disabled dispatching is in a call, and a resume call in
\* progress has been recorded.
CallsRecorded ==
  /\ holder \in Thread => call[holder] # "none"
  /\ ~irregular => \A p \in Thread : call[p] # "resume"

\* In a suspended group the members are blocked, or a pause call has yet to
\* disable dispatching, or its loop has yet to visit those that are not.
PauseProgress ==
  exists /\ suspended /\ ~irregular =>
    \/ members \subseteq blocked
    \/ \E p \in Thread : call[p] = "suspend" /\ holder # p
    \/ /\ holder \in Thread /\ call[holder] = "suspend"
       /\ members \subseteq blocked \cup todo

PauseInv == TypeOK /\ CallsRecorded /\ PauseProgress

\* Suspend() leaves a group suspended with all its members blocked, unless it
\* was suspended before, and then it changes nothing.
LEMMA SuspendStops ==
  ASSUME TypeOK, Suspend
  PROVE  /\ suspended'
         /\ ~suspended => blocked' = blocked \cup members
         /\ suspended => UNCHANGED <<suspended, sched>>
BY DEF Suspend, Block, TypeOK

\* PauseProgress is kept by a step that suspends the group or changes none of
\* what it is about.
LEMMA PauseProgressKept ==
  ASSUME PauseProgress,
         UNCHANGED <<exists, members, call, holder, todo, irregular>>,
         \/ UNCHANGED <<suspended, blocked>>
         \/ suspended' = FALSE
         \/ members \subseteq blocked'
  PROVE  PauseProgress'
BY DEF PauseProgress

\* The clock interrupt blocks all members or none.
LEMMA ClockPauses ==
  ASSUME PauseInv, Clock
  PROVE  CallsRecorded' /\ PauseProgress'
<1> USE DEF PauseInv
<1>1. UNCHANGED <<exists, members, call, holder, todo, irregular>>
  BY DEF Clock, Tick, FireResume, FireSuspend, FireOrphan, TickEnd, group, api, history
<1>2. CallsRecorded'
  BY <1>1 DEF CallsRecorded
<1>3. CASE Tick \/ TickEnd
  BY <1>1, <1>2, <1>3, PauseProgressKept DEF Tick, TickEnd, group, sched
<1>4. CASE FireResume
  <2>1. Resume
    BY <1>4 DEF FireResume
  <2>2. UNCHANGED <<suspended, blocked>> \/ suspended' = FALSE
    BY <2>1 DEF Resume, sched
  <2> QED BY <1>1, <1>2, <2>2, PauseProgressKept
<1>5. CASE FireSuspend \/ FireOrphan
  <2>1. Suspend
    BY <1>5 DEF FireSuspend, FireOrphan
  <2>2. UNCHANGED <<suspended, blocked>> \/ members \subseteq blocked'
    BY <2>1, SuspendStops DEF sched, TypeOK
  <2> QED BY <1>1, <1>2, <2>2, PauseProgressKept
<1> QED BY <1>3, <1>4, <1>5 DEF Clock

\* So does the dispatcher.
LEMMA DispatchPauses ==
  ASSUME PauseInv, Dispatch
  PROVE  CallsRecorded' /\ PauseProgress'
<1> USE DEF PauseInv
<1>1. UNCHANGED <<exists, members, call, holder, todo, irregular>>
  BY DEF Dispatch, DispatchBegin, DispatchRefuse, DispatchSwitch, DispatchEnd,
         group, api, history
<1>2. CallsRecorded'
  BY <1>1 DEF CallsRecorded
<1>3. CASE DispatchBegin
  <2>1. CASE Suspend
    <3>1. UNCHANGED <<suspended, blocked>> \/ members \subseteq blocked'
      BY <2>1, SuspendStops DEF sched, TypeOK
    <3> QED BY <1>1, <1>2, <3>1, PauseProgressKept
  <2>2. CASE UNCHANGED <<suspended, sched>>
    BY <1>1, <1>2, <2>2, PauseProgressKept DEF sched
  <2> QED BY <1>3, <2>1, <2>2 DEF DispatchBegin, Charge
<1>4. CASE DispatchRefuse
  <2>1. UNCHANGED <<suspended, blocked>> \/ members \subseteq blocked'
    BY <1>4 DEF DispatchRefuse, TypeOK
  <2> QED BY <1>1, <1>2, <2>1, PauseProgressKept
<1>5. CASE DispatchSwitch \/ DispatchEnd
  BY <1>1, <1>2, <1>5, PauseProgressKept
     DEF DispatchSwitch, DispatchEnd, group, sched
<1> QED BY <1>3, <1>4, <1>5 DEF Dispatch

\* The steps of a call move the members from the loop's list to the blocked
\* threads before the call returns.
LEMMA CallPauses ==
  ASSUME PauseInv, NEW p \in Thread, CallStep(p)
  PROVE  CallsRecorded' /\ PauseProgress'
<1> USE DEF PauseInv
<1>1. CASE CallDisable(p)
  <2>1. /\ UNCHANGED <<exists, suspended, members, blocked, call, irregular>>
        /\ holder' = p /\ todo' = members /\ call[p] # "none"
    BY <1>1 DEF CallDisable, group, sched, history
  <2>2. CallsRecorded'
    BY <2>1 DEF CallsRecorded
  <2>3. call[p] = "suspend" \/ irregular
    BY <2>1 DEF CallsRecorded, TypeOK
  <2> QED BY <2>1, <2>2, <2>3 DEF PauseProgress
<1>2. CASE CallEnd(p)
  <2>1. /\ UNCHANGED <<exists, suspended, members, blocked, irregular>>
        /\ holder = p /\ todo = {} /\ holder' = NoThread
        /\ call' = [call EXCEPT ![p] = "none"]
    BY <1>2 DEF CallEnd, group, sched, history
  <2>2. \A q \in Thread : call'[q] = IF q = p THEN "none" ELSE call[q]
    BY <2>1 DEF TypeOK
  <2>3. CallsRecorded'
    BY <2>1, <2>2, ThreadAssumption DEF CallsRecorded
  <2>4. ASSUME NEW q \in Thread, call[q] = "suspend", holder # q
        PROVE  call'[q] = "suspend" /\ holder' # q
    BY <2>1, <2>2, <2>4, ThreadAssumption
  <2> QED BY <2>1, <2>3, <2>4 DEF PauseProgress
<1>3. ASSUME NEW t \in Thread, CallVisit(p, t)
      PROVE  CallsRecorded' /\ PauseProgress'
  <2>1. /\ UNCHANGED <<exists, suspended, members, call, holder, irregular>>
        /\ holder = p /\ todo' = todo \ {t}
    BY <1>3 DEF CallVisit, group, history
  <2>2. CallsRecorded'
    BY <2>1 DEF CallsRecorded
  <2>3. CASE irregular
    BY <2>1, <2>2, <2>3 DEF PauseProgress
  <2>4. CASE ~irregular
    <3>1. call[p] = "suspend"
      BY <2>1, <2>4 DEF CallsRecorded, TypeOK
    <3>2. blocked' = blocked \cup {t}
      BY <1>3, <3>1 DEF CallVisit, Block
    <3> QED BY <2>1, <2>2, <3>2 DEF PauseProgress
  <2> QED BY <2>3, <2>4 DEF TypeOK
<1> QED BY <1>1, <1>2, <1>3 DEF CallStep

\* A directive leaves a suspended group alone, is recorded as irregular, or
\* begins a pause call.
LEMMA DirectivePauses ==
  ASSUME PauseInv, NEW p \in Thread, Directive(p)
  PROVE  CallsRecorded' /\ PauseProgress'
<1> USE DEF PauseInv
<1>1. CASE Create(p)
  BY <1>1 DEF Create, api, CallsRecorded, PauseProgress
<1>2. CASE Delete(p)
  BY <1>2 DEF Delete, api, CallsRecorded, PauseProgress, TypeOK
<1>3. ASSUME NEW t \in Thread, Add(p, t) PROVE CallsRecorded' /\ PauseProgress'
  BY <1>3 DEF Add, api, CallsRecorded, PauseProgress, TypeOK
<1>4. ASSUME NEW t \in Thread, RawRemove(p, t) \/ LeaveRemove(p, t)
      PROVE  CallsRecorded' /\ PauseProgress'
  <2>1. Remove(p, t)
    BY <1>4 DEF RawRemove, LeaveRemove
  <2> QED BY <2>1 DEF Remove, sched, CallsRecorded, PauseProgress, TypeOK
<1>5. ASSUME NEW op \in {"suspend", "resume"}, CallBegin(p, op)
      PROVE  CallsRecorded' /\ PauseProgress'
  <2>1. /\ holder = NoThread /\ holder' = NoThread
        /\ call' = [call EXCEPT ![p] = op]
        /\ irregular' = (irregular \/ op = "resume")
        /\ suspended' = (op = "suspend")
    BY <1>5 DEF CallBegin, Free, AtTaskLevel
  <2>2. CallsRecorded'
    BY <2>1, ThreadAssumption DEF CallsRecorded, TypeOK
  <2>3. CASE op = "resume"
    BY <2>1, <2>2, <2>3 DEF PauseProgress
  <2>4. CASE op = "suspend"
    <3>1. call'[p] = "suspend" /\ holder' # p
      BY <2>1, <2>4, ThreadAssumption DEF TypeOK
    <3> QED BY <2>2, <3>1 DEF PauseProgress
  <2> QED BY <2>3, <2>4
<1>6. CASE LeaveClear(p)
  BY <1>6 DEF LeaveClear, sched, history, CallsRecorded, PauseProgress
<1> QED BY <1>1, <1>2, <1>3, <1>4, <1>5, <1>6 DEF Directive

\* PauseInv is inductive.
LEMMA PauseInvKept == PauseInv /\ [Next]_vars => PauseInv'
<1> SUFFICES ASSUME PauseInv, [Next]_vars PROVE PauseInv'
  OBVIOUS
<1>1. TypeOK'
  BY TypesKept DEF PauseInv
<1>2. CASE Reschedule
  <2>1. UNCHANGED <<exists, members, call, holder, todo, irregular,
                    suspended, blocked>>
    BY <1>2 DEF Reschedule, group, api, history
  <2> QED BY <1>1, <2>1 DEF PauseInv, CallsRecorded, PauseProgress
<1>3. CASE UNCHANGED vars
  BY <1>1, <1>3 DEF PauseInv, CallsRecorded, PauseProgress, vars, group, sched,
                    api, history
<1>4. CASE Stray
  BY <1>3, <1>4 DEF Stray
<1> QED BY <1>1, <1>2, <1>3, <1>4, ClockPauses, DispatchPauses, CallPauses,
           DirectivePauses DEF Next, PauseInv

\* Outside a pause call no member of a suspended group can run, whatever calls
\* are allowed and wherever the clock interrupts them.
THEOREM CpuSuspendedStops == Spec => []SuspendedStops
<1>1. Init => PauseInv
  BY InitTypes, ThreadAssumption
     DEF Init, PauseInv, CallsRecorded, PauseProgress
<1>2. PauseInv => SuspendedStops
  BY ThreadAssumption DEF PauseInv, PauseProgress, CallsRecorded, SuspendedStops, TypeOK
<1> QED BY <1>1, <1>2, PauseInvKept, PTL DEF Spec

-----------------------------------------------------------------------------
(* The watchdogs of a pooled control block *)

\* As long as no group was deleted under threads that name it, none names a block
\* in the pool, and the watchdogs of such a block are not scheduled.
PoolInv ==
  ~abandoned =>
    /\ orphan = NoTimer
    /\ ~exists => added = {} /\ suspendT = NoTimer /\ resumeT = NoTimer

\* The clock interrupt schedules no watchdog but the one that was due.
LEMMA ClockPool ==
  ASSUME TypeOK, PoolInv, Clock
  PROVE  PoolInv'
<1>1. UNCHANGED <<exists, added, abandoned>>
  BY DEF Clock, Tick, FireResume, FireSuspend, FireOrphan, TickEnd, group, history
<1>2. CASE Tick
  BY <1>1, <1>2 DEF Tick, Decrement, PoolInv
<1>3. CASE FireResume
  <2>1. resumeT # NoTimer /\ UNCHANGED <<suspendT, orphan>>
    BY <1>3, TimerAssumption DEF FireResume
  <2> QED BY <1>1, <2>1 DEF PoolInv, TypeOK
<1>4. CASE FireSuspend \/ FireOrphan
  BY <1>1, <1>4 DEF FireSuspend, FireOrphan, PoolInv
<1>5. CASE TickEnd
  BY <1>1, <1>5 DEF TickEnd, timers, PoolInv
<1> QED BY <1>2, <1>3, <1>4, <1>5 DEF Clock

\* The dispatcher arms the watchdog of a group that some thread names.
LEMMA DispatchPool ==
  ASSUME TypeOK, PoolInv, Dispatch
  PROVE  PoolInv'
<1>1. UNCHANGED <<exists, added, abandoned, resumeT, orphan>>
  BY DEF Dispatch, DispatchBegin, DispatchRefuse, DispatchSwitch, DispatchEnd,
         group, timers, history
<1>2. CASE DispatchBegin
  BY <1>1, <1>2 DEF DispatchBegin, Charge, PoolInv
<1>3. CASE DispatchSwitch
  BY <1>1, <1>3 DEF DispatchSwitch, PoolInv
<1>4. CASE DispatchRefuse \/ DispatchEnd
  BY <1>1, <1>4 DEF DispatchRefuse, DispatchEnd, timers, PoolInv
<1> QED BY <1>2, <1>3, <1>4 DEF Dispatch

\* Delete unschedules both watchdogs, and is recorded under threads that name the
\* group; create finds none scheduled.
LEMMA DirectivePool ==
  ASSUME TypeOK, PoolInv, NEW p \in Thread, Directive(p)
  PROVE  PoolInv'
<1>1. CASE Create(p)
  BY <1>1 DEF Create, PoolInv, TypeOK
<1>2. CASE Delete(p)
  BY <1>2 DEF Delete, PoolInv, TypeOK
<1>3. ASSUME NEW t \in Thread, Add(p, t) PROVE PoolInv'
  BY <1>3 DEF Add, timers, PoolInv, TypeOK
<1>4. ASSUME NEW t \in Thread, RawRemove(p, t) \/ LeaveRemove(p, t) PROVE PoolInv'
  BY <1>4 DEF RawRemove, LeaveRemove, Remove, timers, PoolInv, TypeOK
<1>5. CASE LeaveClear(p)
  BY <1>5 DEF LeaveClear, timers, history, PoolInv, TypeOK
<1>6. ASSUME NEW op \in {"suspend", "resume"}, CallBegin(p, op) PROVE PoolInv'
  BY <1>6 DEF CallBegin, timers, PoolInv, TypeOK
<1> QED BY <1>1, <1>2, <1>3, <1>4, <1>5, <1>6 DEF Directive

\* PoolInv is inductive, whatever calls are allowed.
LEMMA PoolInvKept == TypeOK /\ PoolInv /\ [Next]_vars => PoolInv'
<1> SUFFICES ASSUME TypeOK, PoolInv, [Next]_vars PROVE PoolInv'
  OBVIOUS
<1>1. ASSUME UNCHANGED <<group, timers, abandoned>> PROVE PoolInv'
  BY <1>1 DEF group, timers, PoolInv
<1>2. CASE Reschedule
  BY <1>1, <1>2 DEF Reschedule, history
<1>3. CASE UNCHANGED vars
  BY <1>1, <1>3 DEF vars, history
<1>4. CASE Stray
  BY <1>3, <1>4 DEF Stray
<1>5. ASSUME NEW p \in Thread, CallStep(p) PROVE PoolInv'
  BY <1>1, <1>5 DEF CallStep, CallDisable, CallEnd, CallVisit, history
<1> QED BY <1>2, <1>3, <1>4, <1>5, ClockPool, DispatchPool, DirectivePool DEF Next

\* No watchdog of a control block in the object pool is scheduled unless a group
\* was deleted while threads named it: the comment in _CORE_cgroup_Destroy().
THEOREM CpuPooledUnarmed == Spec => []PooledUnarmed
<1>1. Init => TypeOK /\ PoolInv
  BY InitTypes DEF Init, PoolInv
<1>2. TypeOK /\ PoolInv /\ [Next]_vars => (TypeOK /\ PoolInv)'
  BY TypesKept, PoolInvKept
<1>3. PoolInv => PooledUnarmed
  BY DEF PoolInv, PooledUnarmed
<1> QED BY <1>1, <1>2, <1>3, PTL DEF Spec

-----------------------------------------------------------------------------
(* The quota, when nobody pauses or resumes the group and threads join and  *)
(* leave it while the group is not suspended                                 *)

\* No thread is in a pause or resume call.
NoCall == holder = NoThread /\ \A p \in Thread : call[p] = "none"

\* The threads that name the group are those on its chain, and those a leave()
\* under way has taken off it.
SameMembers ==
  /\ members \subseteq added /\ (~exists => added = {})
  /\ \A t \in added \ members : \E p \in Thread : leaving[p] = t
  /\ \A p \in Thread : leaving[p] \notin members

\* Exactly the members of a suspended group are blocked, and the heir is ready.
Blocking ==
  /\ blocked = (IF suspended THEN members ELSE {})
  /\ heir \notin blocked

\* Outside the dispatch loop the executing thread is the loaded one, and a
\* different heir is announced; or the loop was left with a leaving thread.
Loaded ==
  /\ \/ phase = "loop"
     \/ executing = context /\ (heir # context => necessary)
     \/ /\ phase = "run" /\ ~isr
        /\ executing # context /\ executing \in added \ members
  /\ phase = "loop" => ~isr

\* The suspend watchdog never runs longer than the quota lasts, and is taken off
\* its header before the clock interrupt returns.
Left == IF suspendT = NoTimer THEN 0 ELSE suspendT
WatchdogInTime == Left <= avail /\ (suspendT = 0 => isr)

\* While a member runs the watchdog is armed for what its stint leaves of the
\* quota, or the dispatcher is about to run; its timestamp covers the stint.
StintTimed ==
  /\ phase # "loop" /\ executing = context /\ context \in members =>
       /\ suspendT = NoTimer => necessary
       /\ stint + Left <= avail
       /\ stint <= since[context]
  /\ context \notin members => stint = 0
  /\ phase = "switched" => stint = 0

\* What was used in this period is charged, missed or part of the stint.
Account ==
  IF phase = "loop" \/ executing # context
  THEN used + avail <= Quota + missed
  ELSE used + avail <= Quota + missed + stint

QuotaInv ==
  /\ TypeOK /\ NoCall /\ SameMembers /\ Blocking /\ Loaded
  /\ WatchdogInTime /\ StintTimed /\ Account
\* Only the clock interrupt in the middle of a context switch is allowed.
QuietCalls == Calls \subseteq {"tick_in_switch"}

\* The parts of the invariant that the accounts do not touch.
ControlInv == TypeOK /\ NoCall /\ SameMembers /\ Blocking /\ Loaded

\* Suspend() and Resume() keep the blocked threads, the heir and the announcement
\* of a new heir in step, whoever is loaded.
LEMMA SuspendControl ==
  ASSUME ControlInv, Suspend \/ Resume, members' = members
  PROVE  /\ Blocking'
         /\ (heir # context => necessary) => (heir' # context => necessary')
         /\ Suspend => suspended'
<1>1. CASE UNCHANGED <<suspended, sched>>
  BY <1>1 DEF ControlInv, Blocking, Suspend, Resume, Block, Unblock, sched
<1>2. CASE ~suspended /\ suspended' = TRUE /\ Block(members)
  <2>1. IdleThread \notin blocked \cup members
    BY ThreadAssumption DEF ControlInv, TypeOK
  <2> QED BY <1>2, <2>1 DEF ControlInv, Blocking, Block, Ready, TypeOK
<1>3. CASE suspended /\ suspended' = FALSE /\ Unblock(members)
  BY <1>3 DEF ControlInv, Blocking, Unblock, TypeOK, Suspend, Block
<1> QED BY <1>1, <1>2, <1>3 DEF Suspend, Resume, ControlInv, TypeOK

\* The dispatch loop goes on when it refuses a member: an heir of a group without
\* quota is ready, so its group is not suspended and another heir is looked for.
LEMMA RefuseLoops ==
  ASSUME ControlInv, DispatchRefuse, heir \in members
  PROVE  /\ ~suspended
         /\ phase' = "loop" /\ suspended' = TRUE
         /\ blocked' = blocked \cup members
         /\ heir' \in Ready(blocked')
<1>1. ~suspended
  BY DEF ControlInv, Blocking
<1> QED BY <1>1 DEF DispatchRefuse

\* It ends when it refuses a thread that is off the chain.
LEMMA RefuseEnds ==
  ASSUME ControlInv, DispatchRefuse, heir \notin members
  PROVE  /\ heir \in added \ members
         /\ phase' = "run" /\ suspended' = TRUE
         /\ blocked' = members /\ heir' = heir
<1>1. heir \in added \ members
  BY DEF DispatchRefuse
<1>2. blocked' = IF suspended THEN blocked ELSE blocked \cup members
  BY DEF DispatchRefuse
<1> QED BY <1>1, <1>2 DEF DispatchRefuse, ControlInv, Blocking

\* The clock interrupt keeps the control part.
LEMMA ClockControl ==
  ASSUME ControlInv, Clock
  PROVE  ControlInv'
<1>1. TypeOK'
  BY ClockTypes DEF ControlInv
<1>2. NoCall' /\ SameMembers'
  BY DEF Clock, Tick, FireResume, FireSuspend, FireOrphan, TickEnd, group, api,
         ControlInv, NoCall, SameMembers
<1>3. CASE Tick
  <2>1. phase # "loop" /\ executing = context
    BY <1>3 DEF Tick, InterruptsEnabled, Confused
  <2> QED BY <1>1, <1>2, <1>3, <2>1 DEF Tick, ControlInv, Blocking, Loaded, group, sched
<1>4. CASE TickEnd
  BY <1>1, <1>2, <1>4 DEF TickEnd, ControlInv, Blocking, Loaded, group, sched
<1>5. CASE FireResume \/ FireSuspend \/ FireOrphan
  <2>1. Suspend \/ Resume
    BY <1>5 DEF FireResume, FireSuspend, FireOrphan
  <2>2. /\ UNCHANGED <<members, added, executing, context, phase, isr>>
        /\ isr
    BY <1>5 DEF FireResume, FireSuspend, FireOrphan, cpu
  <2>3. Loaded'
    BY <2>1, <2>2, SuspendControl DEF ControlInv, Loaded
  <2> QED BY <1>1, <1>2, <2>1, <2>2, <2>3, SuspendControl DEF ControlInv
<1> QED BY <1>3, <1>4, <1>5 DEF Clock

\* The dispatcher keeps the control part.
LEMMA DispatchControl ==
  ASSUME ControlInv, Dispatch
  PROVE  ControlInv'
<1>1. TypeOK'
  BY DispatchTypes DEF ControlInv
<1>2. NoCall' /\ SameMembers'
  BY DEF Dispatch, DispatchBegin, DispatchRefuse, DispatchSwitch, DispatchEnd,
         group, api, ControlInv, NoCall, SameMembers
<1>3. CASE DispatchBegin
  <2>1. phase' = "loop" /\ ~isr' /\ members' = members
    BY <1>3 DEF DispatchBegin
  <2>2. CASE Suspend
    BY <1>1, <1>2, <2>1, <2>2, SuspendControl DEF ControlInv, Loaded
  <2>3. CASE UNCHANGED <<suspended, sched>>
    BY <1>1, <1>2, <2>1, <2>3 DEF ControlInv, Loaded, Blocking, sched
  <2> QED BY <1>3, <2>2, <2>3 DEF DispatchBegin, Charge
<1>4. CASE DispatchRefuse
  <2>1. ~isr' /\ members' = members /\ added' = added /\ executing' = heir
    BY <1>4 DEF DispatchRefuse, InLoop
  <2>2. CASE heir \in members
    <3>1. Blocking'
      BY <1>4, <2>1, <2>2, RefuseLoops, ThreadAssumption
         DEF ControlInv, Blocking, Ready, TypeOK
    <3>2. Loaded'
      BY <1>4, <2>1, <2>2, RefuseLoops DEF Loaded
    <3> QED BY <1>1, <1>2, <3>1, <3>2 DEF ControlInv
  <2>3. CASE heir \notin members
    <3>1. Blocking'
      BY <1>4, <2>1, <2>3, RefuseEnds DEF Blocking
    <3>2. Loaded'
      BY <1>4, <2>1, <2>3, RefuseEnds DEF Loaded
    <3> QED BY <1>1, <1>2, <3>1, <3>2 DEF ControlInv
  <2> QED BY <2>2, <2>3
<1>5. CASE DispatchSwitch
  BY <1>1, <1>2, <1>5 DEF DispatchSwitch, ControlInv, Blocking, Loaded, group
<1>6. CASE DispatchEnd
  BY <1>1, <1>2, <1>6 DEF DispatchEnd, ControlInv, Blocking, Loaded, group, sched
<1> QED BY <1>3, <1>4, <1>5, <1>6 DEF Dispatch

\* The directives keep the control part: threads join and leave a group that is
\* not suspended, and only a group that no thread names is deleted.
LEMMA DirectiveControl ==
  ASSUME QuietCalls, ControlInv, NEW p \in Thread, Directive(p)
  PROVE  ControlInv'
<1> USE DEF ControlInv
<1>1. TypeOK'
  BY DirectiveTypes
<1>2. /\ phase = "run" /\ ~isr /\ executing = context
      /\ UNCHANGED <<blocked, heir, necessary, executing, context, phase, isr>>
  BY DEF Directive, Create, Delete, Add, RawRemove, LeaveRemove, Remove, LeaveClear,
         CallBegin, Free, AtTaskLevel, Confused, sched, cpu
<1>3. Loaded'
  BY <1>2 DEF Loaded
<1>4. ASSUME NEW op \in {"suspend", "resume"}, CallBegin(p, op) PROVE FALSE
  BY <1>4 DEF CallBegin, Allowed, QuietCalls
<1>5. ASSUME NEW t \in Thread, RawRemove(p, t) PROVE FALSE
  BY <1>5 DEF RawRemove, Allowed, QuietCalls
<1>6. NoCall'
  BY <1>4, <1>5 DEF Directive, Create, Delete, Add, LeaveRemove, Remove, LeaveClear,
                    api, NoCall
<1>7. CASE Create(p)
  <2>1. /\ members' = {} /\ added' = added /\ exists' /\ ~exists /\ ~suspended'
        /\ leaving' = leaving
    BY <1>7 DEF Create, api
  <2>2. added = {} /\ members = {} /\ blocked = {}
    BY <2>1 DEF SameMembers, Blocking
  <2>3. SameMembers' /\ Blocking'
    BY <1>2, <2>1, <2>2 DEF SameMembers, Blocking
  <2> QED BY <1>1, <1>3, <1>6, <2>3
<1>8. CASE Delete(p)
  <2>1. added = {}
    BY <1>8 DEF Delete, Allowed, QuietCalls
  <2>2. UNCHANGED <<members, added, suspended, leaving>>
    BY <1>8 DEF Delete, api
  <2>3. SameMembers' /\ Blocking'
    BY <1>2, <2>1, <2>2 DEF SameMembers, Blocking
  <2> QED BY <1>1, <1>3, <1>6, <2>3
<1>9. ASSUME NEW t \in Thread, Add(p, t) PROVE ControlInv'
  <2>1. ~suspended /\ \A q \in Thread : leaving[q] # t
    BY <1>9 DEF Add, Allowed, QuietCalls
  <2>2. /\ members' = members \cup {t} /\ added' = added \cup {t}
        /\ exists /\ UNCHANGED <<exists, suspended, leaving>>
    BY <1>9 DEF Add, api
  <2>3. SameMembers' /\ Blocking'
    BY <1>2, <2>1, <2>2 DEF SameMembers, Blocking
  <2> QED BY <1>1, <1>3, <1>6, <2>3
<1>10. ASSUME NEW t \in Thread, LeaveRemove(p, t) PROVE ControlInv'
  <2>1. ~suspended /\ leaving[p] = NoThread
    BY <1>10 DEF LeaveRemove, Free, Allowed, QuietCalls
  <2>2. /\ members' = members \ {t} /\ exists
        /\ UNCHANGED <<exists, suspended, added>>
        /\ leaving' = [leaving EXCEPT ![p] = t]
    BY <1>10 DEF LeaveRemove, Remove
  <2>3. \A q \in Thread : leaving'[q] = IF q = p THEN t ELSE leaving[q]
    BY <2>2 DEF TypeOK
  <2>4. ASSUME NEW u \in added' \ members' PROVE \E q \in Thread : leaving'[q] = u
    <3>1. CASE u = t
      BY <2>3, <3>1
    <3>2. CASE u # t
      <4>1. u \in added \ members
        BY <2>2, <2>4, <3>2
      <4>2. PICK q \in Thread : leaving[q] = u
        BY <4>1 DEF SameMembers
      <4>3. q # p
        BY <2>1, <4>1, <4>2, ThreadAssumption DEF TypeOK
      <4> QED BY <2>3, <4>2, <4>3
    <3> QED BY <3>1, <3>2
  <2>5. SameMembers'
    BY <2>2, <2>3, <2>4 DEF SameMembers
  <2>6. Blocking'
    BY <1>2, <2>1, <2>2 DEF Blocking
  <2> QED BY <1>1, <1>3, <1>6, <2>5, <2>6
<1>11. CASE LeaveClear(p)
  <2>1. /\ added' = added \ {leaving[p]}
        /\ leaving' = [leaving EXCEPT ![p] = NoThread]
        /\ UNCHANGED <<exists, suspended, members>>
    BY <1>11 DEF LeaveClear
  <2>2. \A q \in Thread : leaving'[q] = IF q = p THEN NoThread ELSE leaving[q]
    BY <2>1 DEF TypeOK
  <2>3. ASSUME NEW u \in added' \ members' PROVE \E q \in Thread : leaving'[q] = u
    <3>1. u \in added \ members /\ u # leaving[p]
      BY <2>1
    <3>2. PICK q \in Thread : leaving[q] = u
      BY <3>1 DEF SameMembers
    <3> QED BY <2>2, <3>1, <3>2
  <2>4. members' \subseteq added' /\ (~exists' => added' = {})
    BY <2>1 DEF SameMembers
  <2>5. \A q \in Thread : leaving'[q] \notin members'
    BY <2>1, <2>2, ThreadAssumption DEF SameMembers, TypeOK
  <2>6. SameMembers'
    BY <2>3, <2>4, <2>5 DEF SameMembers
  <2>7. Blocking'
    BY <1>2, <2>1 DEF Blocking
  <2> QED BY <1>1, <1>3, <1>6, <2>6, <2>7
<1> QED BY <1>4, <1>5, <1>7, <1>8, <1>9, <1>10, <1>11 DEF Directive

\* No thread takes a step of a call.
LEMMA NoCallStep ==
  ASSUME ControlInv, NEW p \in Thread
  PROVE  ~CallStep(p)
BY ThreadAssumption DEF ControlInv, NoCall, CallStep, CallDisable, CallEnd, CallVisit

\* A change of the heir by a task keeps the control part.
LEMMA RescheduleControl ==
  ASSUME ControlInv, Reschedule
  PROVE  ControlInv'
<1>1. TypeOK'
  BY TypesKept DEF ControlInv, Next
<1>2. heir' \notin blocked
  BY ThreadAssumption DEF Reschedule, Ready, ControlInv, TypeOK
<1> QED BY <1>1, <1>2 DEF Reschedule, ControlInv, NoCall, SameMembers, Blocking,
                          Loaded, group, cpu, api

\* The accounts.
AccountInv == WatchdogInTime /\ StintTimed /\ Account
\* What is left on the suspend watchdog is a number of ticks.
LEMMA LeftType ==
  ASSUME TypeOK
  PROVE  /\ Left \in Nat
         /\ suspendT # NoTimer => Left = suspendT
         /\ suspendT = NoTimer => Left = 0
BY QuotaAssumption DEF TypeOK, Left

\* A tick that finds a member running shortens what the watchdog has left by
\* one, so that the stint it lengthens stays within the quota; in the middle of
\* a context switch the tick is missed.
LEMMA TickAccount ==
  ASSUME ControlInv, AccountInv, Tick
  PROVE  AccountInv'
<1> USE DEF ControlInv, AccountInv
<1>1. /\ UNCHANGED <<exists, members, avail, executing, context, phase, necessary>>
      /\ ~isr /\ isr' = TRUE /\ phase # "loop" /\ executing = context
      /\ TypeOK /\ TypeOK'
  BY ClockTypes DEF Tick, group, sched, InterruptsEnabled, Confused, Clock
<1>2. suspendT # 0
  BY <1>1 DEF WatchdogInTime
<1>3. CASE suspendT = NoTimer
  <2>1. Left = 0 /\ Left' = 0 /\ suspendT' = NoTimer
    BY <1>3 DEF Tick, Decrement, Left
  <2>2. WatchdogInTime'
    BY <1>1, <2>1 DEF WatchdogInTime
  <2>3. CASE context \in members
    <3>1. phase = "switched"
      BY <1>1, <1>3, <2>3, ThreadAssumption
         DEF StintTimed, Tick, InterruptsEnabled, NoCall
    <3>2. exists
      BY <2>3 DEF SameMembers
    <3>3. used' = used + 1 /\ missed' = missed + 1 /\ stint' = stint
      BY <2>3, <3>1, <3>2 DEF Tick
    <3>4. stint = 0
      BY <3>1 DEF StintTimed
    <3>5. since'[context] \in Nat
      BY <1>1, <2>3, QuotaAssumption DEF TypeOK
    <3>6. StintTimed'
      BY <1>1, <2>1, <3>1, <3>3, <3>4, <3>5, <2>3, <1>3 DEF StintTimed
    <3>7. Account'
      BY <1>1, <3>3, <3>1, QuotaAssumption DEF Account, TypeOK
    <3> QED BY <2>2, <3>6, <3>7
  <2>4. CASE context \notin members
    <3>1. UNCHANGED <<used, stint, missed>>
      BY <2>4 DEF Tick, usage
    <3> QED BY <1>1, <2>2, <2>4, <3>1 DEF StintTimed, Account
  <2> QED BY <2>3, <2>4
<1>4. CASE suspendT # NoTimer
  <2>1. Left = suspendT /\ Left' = suspendT - 1 /\ suspendT' = suspendT - 1
    BY <1>1, <1>2, <1>4, QuotaAssumption, TimerAssumption DEF Tick, Decrement, Left, TypeOK
  <2>2. Left \in Nat /\ Left' \in Nat /\ Left' = Left - 1
    BY <1>1, <2>1, <1>4, LeftType, QuotaAssumption, TimerAssumption DEF TypeOK
  <2>3. avail \in Nat /\ used \in Nat /\ missed \in Nat /\ stint \in Nat
    BY <1>1, QuotaAssumption DEF TypeOK
  <2>4. WatchdogInTime'
    BY <1>1, <2>2, <2>3 DEF WatchdogInTime
  <2>5. CASE context \notin members
    <3>1. UNCHANGED <<used, stint, missed>>
      BY <2>5 DEF Tick, usage
    <3> QED BY <1>1, <2>4, <2>5, <3>1 DEF StintTimed, Account
  <2>6. CASE context \in members
    <3>1. exists /\ context \in Thread
      BY <1>1, <2>6 DEF SameMembers, TypeOK
    <3>2. stint + Left <= avail /\ stint <= since[context]
      BY <1>1, <2>6 DEF StintTimed
    <3>3. /\ since[context] \in 0 .. Quota
          /\ since'[context] = Capped(since[context] + 1)
      BY <3>1 DEF Tick, TypeOK
    <3>4. avail <= Quota
      BY <1>1 DEF TypeOK
    <3>5. suspendT' # NoTimer
      BY <1>1, <2>1, <2>2, TimerAssumption
    <3>6. CASE phase = "run"
      <4>1. used' = used + 1 /\ stint' = stint + 1 /\ missed' = missed
        BY <2>6, <3>1, <3>6 DEF Tick
      <4>2. stint' <= since'[context]
        BY <2>2, <2>3, <3>2, <3>3, <3>4, <4>1, QuotaAssumption DEF Capped
      <4>3. stint' + Left' <= avail'
        BY <1>1, <2>2, <2>3, <3>2, <4>1
      <4>4. StintTimed'
        BY <1>1, <2>6, <3>5, <3>6, <4>2, <4>3 DEF StintTimed
      <4>5. Account'
        BY <1>1, <2>3, <3>6, <4>1, QuotaAssumption DEF Account
      <4> QED BY <2>4, <4>4, <4>5
    <3>7. CASE phase = "switched"
      <4>1. used' = used + 1 /\ stint' = stint /\ missed' = missed + 1 /\ stint = 0
        BY <2>6, <3>1, <3>7 DEF Tick, StintTimed
      <4>2. stint' <= since'[context]
        BY <3>3, <4>1, QuotaAssumption DEF Capped
      <4>3. stint' + Left' <= avail'
        BY <1>1, <2>2, <2>3, <3>2, <4>1
      <4>4. StintTimed'
        BY <1>1, <2>6, <3>5, <3>7, <4>1, <4>2, <4>3 DEF StintTimed
      <4>5. Account'
        BY <1>1, <2>3, <3>7, <4>1, QuotaAssumption DEF Account
      <4> QED BY <2>4, <4>4, <4>5
    <3> QED BY <1>1, <3>6, <3>7 DEF TypeOK
  <2> QED BY <2>5, <2>6
<1> QED BY <1>3, <1>4

\* A new period forgives what was used and refills the quota; a suspension leaves
\* the watchdog unarmed only with a dispatch announced.
LEMMA ClockAccount ==
  ASSUME ControlInv, AccountInv, Clock
  PROVE  AccountInv'
<1> USE DEF ControlInv, AccountInv
<1>1. TypeOK /\ TypeOK' /\ ControlInv'
  BY ClockTypes, ClockControl
<1>2. CASE FireResume
  <2>1. /\ UNCHANGED <<members, suspendT, executing, context, phase, since, isr>>
        /\ avail' = Quota /\ used' = 0 /\ stint' = 0 /\ missed' = 0 /\ isr
    BY <1>2 DEF FireResume, cpu
  <2>2. Left' = Left /\ Left \in Nat /\ Left <= avail /\ avail <= Quota /\ avail \in Nat
    BY <1>1, <2>1, LeftType, QuotaAssumption DEF Left, WatchdogInTime, TypeOK
  <2>3. WatchdogInTime'
    BY <2>1, <2>2, QuotaAssumption DEF WatchdogInTime
  <2>4. necessary => necessary'
    BY <1>2 DEF FireResume, Resume, Unblock, sched
  <2>5. context \in members => since[context] \in Nat
    BY <1>1, QuotaAssumption DEF TypeOK
  <2>6. StintTimed'
    BY <2>1, <2>2, <2>4, <2>5, QuotaAssumption DEF StintTimed
  <2>7. Account'
    BY <2>1, QuotaAssumption DEF Account
  <2> QED BY <2>3, <2>6, <2>7
<1>3. CASE FireSuspend
  <2>1. /\ UNCHANGED <<members, avail, executing, context, phase, since, isr,
                       used, stint, missed>>
        /\ suspendT' = NoTimer /\ isr
    BY <1>3 DEF FireSuspend, cpu, history, usage
  <2>2. Left' = 0 /\ Left \in Nat /\ avail \in Nat /\ stint \in Nat
    BY <1>1, <2>1, LeftType, QuotaAssumption DEF Left, TypeOK
  <2>3. suspended'
    BY <1>3, SuspendControl, <2>1 DEF FireSuspend
  <2>4. context \in members /\ phase # "loop" => necessary'
    BY <1>1, <2>1, <2>3 DEF Blocking, Loaded
  <2>5. WatchdogInTime' /\ StintTimed' /\ Account'
    BY <2>1, <2>2, <2>4 DEF WatchdogInTime, StintTimed, Account
  <2> QED BY <2>5
<1>4. CASE TickEnd
  BY <1>4 DEF TickEnd, group, timers, sched, history, usage, WatchdogInTime,
              StintTimed, Account, Left
<1>5. CASE FireOrphan
  <2>1. UNCHANGED <<members, avail, suspendT, executing, context, phase, since, isr,
                    used, stint, missed>>
    BY <1>5 DEF FireOrphan, cpu, history, usage
  <2>2. necessary => necessary'
    BY <1>5 DEF FireOrphan, Suspend, Block, sched
  <2> QED BY <2>1, <2>2 DEF WatchdogInTime, StintTimed, Account, Left
<1> QED BY <1>2, <1>3, <1>4, <1>5, TickAccount DEF Clock

\* The arithmetic of a charge: a stint s within the quota a that is left and
\* within the time d that is charged.
LEMMA ChargeArithmetic ==
  ASSUME NEW u \in Nat, NEW a \in Nat, NEW b \in Nat, NEW q \in Nat, NEW m \in Nat,
         NEW s \in Nat, NEW d \in Nat,
         u + a <= q + m + s, s <= a, s <= d,
         b = 0 \/ b = a - d
  PROVE  u + b <= q + m
<1>1. CASE b = 0
  BY <1>1
<1>2. CASE b = a - d
  BY <1>2
<1> QED BY <1>1, <1>2

\* An empty stint leaves the watchdog all of the quota.
LEMMA EmptyStint ==
  ASSUME NEW s, s = 0, NEW l \in Nat, NEW a \in Nat, l <= a
  PROVE  s + l <= a
OBVIOUS

\* The dispatcher charges the whole stint before the next thread runs: the stint
\* is within the quota left and within the time since the thread was started.
LEMMA ChargeAccount ==
  ASSUME ControlInv, AccountInv, DispatchBegin
  PROVE  AccountInv'
<1> USE DEF ControlInv, AccountInv
<1>1. /\ UNCHANGED <<members, context, isr, used, stint, missed>>
      /\ phase = "run" /\ phase' = "loop" /\ ~isr
      /\ executing = context /\ members \subseteq added
      /\ TypeOK /\ TypeOK'
  BY DispatchTypes DEF DispatchBegin, history, usage, Confused, SameMembers, Dispatch
<1>2. /\ avail \in Nat /\ avail' \in Nat /\ Quota \in Nat
      /\ used \in Nat /\ stint \in Nat /\ missed \in Nat
      /\ Left \in Nat
  BY <1>1, QuotaAssumption, LeftType DEF TypeOK
<1>3. StintTimed'
  BY <1>1 DEF StintTimed
<1>4. used + avail <= Quota + missed + stint
  BY <1>1 DEF Account
<1>5. CASE context \in added
  <2>1. since[context] \in Nat
    BY <1>1, <1>5, QuotaAssumption DEF TypeOK
  <2>2. stint <= avail /\ stint <= since[context]
    <3>1. CASE context \in members
      BY <1>1, <1>2, <3>1 DEF StintTimed
    <3>2. CASE context \notin members
      BY <1>2, <2>1, <3>2 DEF StintTimed
    <3> QED BY <3>1, <3>2
  <2>3. suspendT' = NoTimer /\ Left' = 0
    BY <1>1, <1>5 DEF DispatchBegin, Charge, Left
  <2>4. WatchdogInTime'
    BY <1>2, <2>3, TimerAssumption DEF WatchdogInTime
  <2>5. \/ avail' = 0
        \/ avail' = avail - since[context]
    BY <1>1, <1>5 DEF DispatchBegin, Charge
  <2>6. used + avail' <= Quota + missed
    BY <1>2, <1>4, <2>1, <2>2, <2>5, ChargeArithmetic
  <2>7. used' = used /\ missed' = missed
    BY <1>1
  <2>8. Account'
    BY <1>1, <2>6, <2>7 DEF Account
  <2> QED BY <1>3, <2>4, <2>8
<1>6. CASE context \notin added
  <2>1. UNCHANGED <<suspendT, avail>> /\ stint = 0
    BY <1>1, <1>6 DEF DispatchBegin, Charge, StintTimed
  <2>2. WatchdogInTime'
    BY <1>1, <2>1 DEF WatchdogInTime, Left
  <2>3. Account'
    BY <1>1, <1>2, <1>4, <2>1 DEF Account
  <2> QED BY <1>3, <2>2, <2>3
<1> QED BY <1>5, <1>6

\* A member starts with no stint, a fresh timestamp and the watchdog armed for
\* the quota left, or earlier; the loop is left for a refused heir with the stint
\* charged.
LEMMA DispatchAccount ==
  ASSUME ControlInv, AccountInv, Dispatch
  PROVE  AccountInv'
<1> USE DEF ControlInv, AccountInv
<1>1. TypeOK /\ TypeOK'
  BY DispatchTypes
<1>2. /\ avail \in Nat /\ Quota \in Nat
      /\ used \in Nat /\ stint \in Nat /\ missed \in Nat
      /\ Left \in Nat
  BY <1>1, QuotaAssumption, LeftType DEF TypeOK
<1>3. CASE DispatchRefuse
  <2>1. /\ UNCHANGED <<members, avail, suspendT, isr, context, used, stint, missed>>
        /\ executing' = heir
        /\ phase \in {"loop", "switched"}
    BY <1>3 DEF DispatchRefuse, timers, history, usage, InLoop
  <2>2. used + avail <= Quota + missed
    BY <1>2, <2>1 DEF Account, StintTimed
  <2>3. phase' = "loop" \/ (phase' = "run" /\ heir \notin members)
    BY <1>3, RefuseLoops, RefuseEnds
  <2>4. WatchdogInTime'
    BY <2>1 DEF WatchdogInTime, Left
  <2>5. StintTimed'
    BY <2>1, <2>3 DEF StintTimed
  <2>6. Account'
    BY <1>2, <2>1, <2>2 DEF Account
  <2> QED BY <2>4, <2>5, <2>6
<1>4. CASE DispatchSwitch
  <2>1. /\ UNCHANGED <<members, avail, isr, used, missed>>
        /\ executing' = heir
        /\ context' = heir /\ stint' = 0 /\ phase' # "loop"
        /\ phase \in {"loop", "switched"}
    BY <1>4 DEF DispatchSwitch, group, InLoop
  <2>2. used + avail <= Quota + missed
    BY <1>2, <2>1 DEF Account, StintTimed
  <2>3. Account'
    BY <1>2, <2>1, <2>2 DEF Account
  <2>4. CASE heir \in members
    <3>1. /\ avail # 0 /\ since' = [since EXCEPT ![heir] = 0]
          /\ suspendT' = IF suspendT = NoTimer THEN avail ELSE suspendT
      BY <1>4, <2>4 DEF DispatchSwitch, SameMembers
    <3>2. since'[heir] = 0
      BY <1>1, <2>4, <3>1 DEF TypeOK
    <3>3. suspendT' # NoTimer /\ Left' = suspendT'
      <4>1. avail # NoTimer
        BY <1>2, TimerAssumption
      <4>2. suspendT' # NoTimer
        BY <3>1, <4>1
      <4> QED BY <4>2 DEF Left
    <3>4. Left' <= avail /\ Left' \in Nat
      BY <1>1, <1>2, <3>1, <3>3, LeftType, TimerAssumption DEF WatchdogInTime, Left
    <3>5. WatchdogInTime'
      BY <2>1, <3>1, <3>4 DEF WatchdogInTime
    <3>6. stint' + Left' <= avail' /\ stint' <= since'[context']
      <4>1. stint' = 0 /\ avail' = avail /\ since'[context'] = 0
        BY <2>1, <3>2
      <4>2. stint' + Left' <= avail
        BY <1>2, <3>4, <4>1, EmptyStint
      <4>3. stint' <= since'[context']
        BY <4>1
      <4> QED BY <4>1, <4>2, <4>3
    <3>7. StintTimed'
      BY <2>1, <3>3, <3>6 DEF StintTimed
    <3> QED BY <2>3, <3>5, <3>7
  <2>5. CASE heir \notin members
    <3>1. StintTimed'
      BY <2>1, <2>5 DEF StintTimed
    <3>2. WatchdogInTime'
      <4>1. CASE suspendT' = suspendT
        BY <2>1, <4>1 DEF WatchdogInTime, Left
      <4>2. CASE suspendT' = avail /\ avail # 0
        BY <1>2, <2>1, <4>2, TimerAssumption DEF WatchdogInTime, Left
      <4> QED BY <1>4, <4>1, <4>2 DEF DispatchSwitch
    <3> QED BY <2>3, <3>1, <3>2
  <2> QED BY <2>4, <2>5
<1>5. CASE DispatchEnd
  BY <1>5 DEF DispatchEnd, group, timers, sched, history, usage, WatchdogInTime,
              StintTimed, Account, Left
<1> QED BY <1>3, <1>4, <1>5, ChargeAccount DEF Dispatch

\* A directive moves the stint of a running thread that leaves to the missed
\* ticks, and starts a new group with a full quota.
LEMMA DirectiveAccount ==
  ASSUME QuietCalls, ControlInv, AccountInv, NEW p \in Thread, Directive(p)
  PROVE  AccountInv'
<1> USE DEF ControlInv, AccountInv
<1>1. TypeOK /\ TypeOK'
  BY DirectiveTypes
<1>2. /\ avail \in Nat /\ Quota \in Nat
      /\ used \in Nat /\ stint \in Nat /\ missed \in Nat
      /\ Left \in Nat
  BY <1>1, QuotaAssumption, LeftType DEF TypeOK
<1>3. AtTaskLevel /\ context = p
  BY DEF Directive, Create, Delete, Add, RawRemove, LeaveRemove, LeaveClear, CallBegin,
         Free
<1>4. phase = "run" /\ context = p /\ executing = context
  BY <1>3 DEF AtTaskLevel, Confused
<1>5. CASE Create(p)
  <2>1. /\ members' = {} /\ avail' = Quota /\ suspendT' = NoTimer
        /\ used' = 0 /\ stint' = 0 /\ missed' = 0
        /\ UNCHANGED <<executing, context, phase>>
    BY <1>5 DEF Create, cpu
  <2>2. WatchdogInTime'
    BY <1>2, <2>1, TimerAssumption DEF WatchdogInTime, Left
  <2> QED BY <1>2, <1>4, <2>1, <2>2 DEF StintTimed, Account
<1>6. CASE Delete(p)
  <2>1. members = {}
    BY <1>6 DEF Delete, Allowed, QuietCalls, SameMembers
  <2>2. /\ suspendT' = NoTimer
        /\ UNCHANGED <<members, avail, executing, context, phase, used, stint, missed>>
    BY <1>6 DEF Delete, cpu, usage
  <2>3. WatchdogInTime'
    BY <1>2, <2>2, TimerAssumption DEF WatchdogInTime, Left
  <2> QED BY <2>1, <2>2, <2>3 DEF StintTimed, Account
<1>7. ASSUME NEW t \in Thread, Add(p, t) PROVE AccountInv'
  <2>1. t # p
    BY <1>7 DEF Add, Allowed, QuietCalls
  <2>2. /\ UNCHANGED <<suspendT, avail, executing, context, phase, isr, since,
                       necessary, used, stint, missed>>
        /\ members' = members \cup {t}
    BY <1>7 DEF Add, timers, sched, cpu, usage
  <2>3. context' \in members' <=> context \in members
    BY <1>4, <2>1, <2>2
  <2> QED BY <2>2, <2>3 DEF WatchdogInTime, StintTimed, Account, Left
<1>8. ASSUME NEW t \in Thread, RawRemove(p, t) \/ LeaveRemove(p, t)
      PROVE  AccountInv'
  <2>1. Remove(p, t)
    BY <1>8 DEF RawRemove, LeaveRemove
  <2>2. /\ UNCHANGED <<suspendT, avail, executing, context, phase, isr, since,
                       necessary, used>>
        /\ members' = members \ {t}
    BY <2>1 DEF Remove, timers, sched, cpu
  <2>3. WatchdogInTime'
    BY <2>2 DEF WatchdogInTime, Left
  <2>4. CASE t = p
    <3>1. missed' = missed + stint /\ stint' = 0
      BY <2>1, <2>4 DEF Remove
    <3>2. Account'
      BY <1>2, <1>4, <2>2, <3>1 DEF Account
    <3> QED BY <1>4, <2>2, <2>3, <2>4, <3>1, <3>2 DEF StintTimed
  <2>5. CASE t # p
    <3>1. UNCHANGED <<stint, missed>>
      BY <2>1, <2>5 DEF Remove
    <3>2. context' \in members' <=> context \in members
      BY <1>4, <2>2, <2>5
    <3> QED BY <2>2, <2>3, <3>1, <3>2 DEF StintTimed, Account, Left
  <2> QED BY <2>4, <2>5
<1>9. ASSUME NEW op \in {"suspend", "resume"}, CallBegin(p, op) PROVE FALSE
  BY <1>9 DEF CallBegin, Allowed, QuietCalls
<1>10. CASE LeaveClear(p)
  BY <1>10 DEF LeaveClear, timers, sched, cpu, history, usage, WatchdogInTime,
               StintTimed, Account, Left
<1> QED BY <1>5, <1>6, <1>7, <1>8, <1>9, <1>10 DEF Directive

\* QuotaInv holds initially.
LEMMA InitQuota == Init => QuotaInv
<1> SUFFICES ASSUME Init PROVE QuotaInv
  OBVIOUS
<1>1. WatchdogInTime /\ StintTimed /\ Account
  BY QuotaAssumption, TimerAssumption DEF Init, WatchdogInTime, StintTimed, Account, Left
<1> QED BY <1>1, InitTypes DEF Init, QuotaInv, NoCall, SameMembers, Blocking, Loaded

\* QuotaInv is inductive when nobody pauses or resumes the group and threads join
\* and leave it while it is not suspended.
LEMMA QuotaInvKept ==
  ASSUME QuietCalls
  PROVE  QuotaInv /\ [Next]_vars => QuotaInv'
<1> SUFFICES ASSUME QuotaInv, [Next]_vars PROVE QuotaInv'
  OBVIOUS
<1>1. ControlInv /\ AccountInv
  BY DEF QuotaInv, ControlInv, AccountInv
<1>2. ControlInv' /\ AccountInv' => QuotaInv'
  BY DEF QuotaInv, ControlInv, AccountInv
<1>3. CASE Reschedule
  <2>1. AccountInv'
    BY <1>1, <1>3 DEF Reschedule, AccountInv, WatchdogInTime, StintTimed, Account,
                      Left, group, timers, cpu, history, usage
  <2> QED BY <1>1, <1>2, <1>3, <2>1, RescheduleControl
<1>4. CASE UNCHANGED vars
  <2>1. TypeOK'
    BY <1>4, TypesKept DEF QuotaInv
  <2> QED BY <1>4, <2>1 DEF QuotaInv, NoCall, SameMembers, Blocking, Loaded,
        WatchdogInTime, StintTimed, Account, Left, vars, group, timers, sched, cpu,
        api, history, usage
<1>5. CASE Stray
  BY <1>4, <1>5 DEF Stray
<1> QED BY <1>1, <1>2, <1>3, <1>4, <1>5, ClockControl, ClockAccount,
           DispatchControl, DispatchAccount, DirectiveControl, DirectiveAccount,
           NoCallStep DEF Next

\* Within one period the members of the group run no longer than its quota, plus
\* the ticks that fall into a context switch or belong to a thread that left
\* while it ran, for every quota and period and any number of threads.
THEOREM CpuQuotaRespected ==
  ASSUME QuietCalls
  PROVE  Spec => []QuotaRespected
<1>1. QuotaInv => QuotaRespected
  <2> SUFFICES ASSUME QuotaInv PROVE used <= Quota + missed
    BY DEF QuotaRespected
  <2>1. /\ avail \in Nat /\ Quota \in Nat
        /\ used \in Nat /\ stint \in Nat /\ missed \in Nat
        /\ Left \in Nat
    BY QuotaAssumption, LeftType DEF TypeOK, QuotaInv
  <2>2. phase # "loop" /\ executing = context => stint <= avail
    BY <2>1 DEF QuotaInv, StintTimed
  <2> QED BY <2>1, <2>2 DEF QuotaInv, Account
<1> QED BY <1>1, InitQuota, QuotaInvKept, PTL DEF Spec

\* A member is blocked exactly when its group is suspended: neither the watchdogs
\* nor the dispatcher lose a thread, or leave one blocked.
THEOREM CpuBlockedWithGroup ==
  ASSUME QuietCalls
  PROVE  Spec => []BlockedWithGroup
<1>1. QuotaInv => BlockedWithGroup
  BY DEF QuotaInv, Blocking, BlockedWithGroup, TypeOK
<1> QED BY <1>1, InitQuota, QuotaInvKept, PTL DEF Spec

\* The executing thread is the loaded one whenever tasks or interrupts run, unless
\* the dispatch loop was left with a thread that a leave() under way has taken off
\* the chain and not yet detached from the group.
THEOREM CpuExecutingIsContext ==
  ASSUME QuietCalls
  PROVE  Spec => []ExecutingIsContext
<1>1. QuotaInv => ExecutingIsContext
  BY DEF QuotaInv, Loaded, SameMembers, ExecutingIsContext, Confused
<1> QED BY <1>1, InitQuota, QuotaInvKept, PTL DEF Spec
=============================================================================
