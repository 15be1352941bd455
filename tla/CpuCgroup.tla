----------------------------- MODULE CpuCgroup -----------------------------
(***************************************************************************)
(* The CPU quota of a cgroup: cpukit/score/src/corecgroup.c,               *)
(* corecgroupimpl.h, the rtems_cgroup_*() directives and the hooks in the  *)
(* dispatcher (threaddispatch.c).                                          *)
(*                                                                         *)
(* One cgroup on the one processor of the supported configuration.  Its    *)
(* members may run Quota ticks in every period of Period ticks.  Three     *)
(* parties change the same state: the clock interrupt, whose watchdogs     *)
(* suspend and resume the group; the dispatcher, which charges the thread  *)
(* that stops running and times the one that starts; and threads that      *)
(* call the API, which the clock interrupt may interrupt anywhere.         *)
(*                                                                         *)
(* Abstractions.  Scheduling is arbitrary: the heir may be any ready       *)
(* thread, which covers every assignment of priorities and threads that    *)
(* wait for something else.  A watchdog is the number of ticks it has      *)
(* left.  A timestamp is the number of ticks since it was taken, capped at *)
(* Quota: Consume_cpu_quota() treats all larger values alike.  The clock   *)
(* interrupt does not fall between a change of the heir by a task and the  *)
(* dispatch that ends that call.  A thread is added to the group once.     *)
(* leave() clears thread->cgroup and is_added_to_cgroup in one step.       *)
(***************************************************************************)
EXTENDS Integers, FiniteSets

CONSTANTS
  Thread,       \* tasks
  IdleThread,   \* the idle thread: always ready, never a member
  Quota,        \* config->cpu_quota, in ticks
  Period,       \* config->cpu_period, in ticks
  NoTimer,      \* a watchdog that is not scheduled
  NoThread,     \* no thread holds the dispatch disable level
  Calls         \* optional behaviours: see Allowed

ASSUME QuotaAssumption == Quota \in Nat /\ Period \in Nat /\ Quota <= Period
ASSUME ThreadAssumption == IdleThread \notin Thread /\ NoThread \notin Thread
ASSUME TimerAssumption == NoTimer \notin Int

\* "suspend", "resume": tasks call pause or resume (container.c, cpuctl);
\* "add_running": a task adds itself, as a task that enters a container does;
\* "add_suspended": a thread is added while the group is suspended;
\* "remove_suspended": a thread is removed while the group is suspended;
\* "raw_remove": rtems_cgroup_remove_task() alone, without the unified leave;
\* "add_leaving": a thread is added while a leave() for it is under way;
\* "delete_members": the group is deleted while threads name it;
\* "tick_in_switch": a clock interrupt falls into the context switch.
Allowed(call) == call \in Calls

VARIABLES
  exists,     \* the control block is in use, not in the object pool
  suspended,  \* STATES_WAITING_FOR_CGROUP_CPU_QUOTA in the_cgroup->state
  members,    \* the chain the_cgroup->threads
  added,      \* threads with is_added_to_cgroup (and cgroup set)
  avail,      \* cpu_quota_available
  suspendT, resumeT,       \* the two watchdogs
  orphan,     \* a suspend watchdog still linked under an initialised control block
  blocked,    \* threads with the quota bit in current_state
  heir, executing,         \* cpu_self->heir, cpu_self->executing
  necessary,  \* cpu_self->dispatch_necessary
  context,    \* the thread whose registers are loaded
  phase,      \* "run", "loop" (interrupts off) or "switched": _Thread_Do_dispatch
  isr,        \* the clock interrupt is being serviced
  since,      \* ticks since last_cpu_start_timestamp, capped
  call,       \* progress of a thread's Suspend() or Resume() call
  holder,     \* the thread that disabled dispatching in such a call
  todo,       \* chain nodes its loop has yet to visit
  leaving,    \* the thread whose fields a thread's leave() has yet to clear
  used,       \* history: ticks the members ran in this period
  stint,      \* history: those of the running member since its dispatch
  missed,     \* history: those no dispatch is sure to charge
  irregular,  \* history: a call other than a pause met a suspended group, or
              \* one that threads named was deleted
  abandoned   \* history: a group was deleted while threads named it

group == <<exists, suspended, members, added, avail>>
timers == <<suspendT, resumeT, orphan>>
sched == <<blocked, heir, necessary>>
cpu == <<executing, context, phase, isr>>
api == <<call, holder, todo, leaving>>
usage == <<used, stint, missed>>
history == <<usage, irregular, abandoned>>
vars == <<group, timers, sched, cpu, since, api, history>>

Ready(S) == (Thread \ S) \cup {IdleThread}
Capped(n) == IF n < Quota THEN n ELSE Quota

\* Once cpu->executing and the loaded registers name different threads, the
\* next switch saves one thread's registers as another's; once a watchdog is
\* inserted that is still linked, its header is no tree any more.  What the
\* program does from there on is not modelled.
Confused == executing # context /\ phase # "loop"
Tangled == suspendT # NoTimer /\ orphan # NoTimer
Stray == (Confused \/ Tangled) /\ UNCHANGED vars

Init ==
  /\ exists = FALSE /\ suspended = FALSE
  /\ members = {} /\ added = {}
  /\ avail = 0
  /\ suspendT = NoTimer /\ resumeT = NoTimer /\ orphan = NoTimer
  /\ blocked = {} /\ heir = IdleThread /\ necessary = FALSE
  /\ executing = IdleThread /\ context = IdleThread
  /\ phase = "run" /\ isr = FALSE
  /\ since = [t \in Thread |-> Quota]
  /\ call = [t \in Thread |-> "none"] /\ holder = NoThread /\ todo = {}
  /\ leaving = [t \in Thread |-> NoThread]
  /\ used = 0 /\ stint = 0 /\ missed = 0
  /\ irregular = FALSE /\ abandoned = FALSE

-----------------------------------------------------------------------------
(* The scheduler, as the cgroup code uses it *)

\* _Thread_Set_state() for every thread of S.
Block(S) ==
  /\ blocked' = blocked \cup S
  /\ heir' \in IF heir \in S THEN Ready(blocked \cup S) ELSE {heir}
  /\ necessary' = (necessary \/ heir' # heir)

\* _Thread_Clear_state() for every thread of S.
Unblock(S) ==
  /\ blocked' = blocked \ S
  /\ heir' \in {heir} \cup (S \cap blocked)
  /\ necessary' = (necessary \/ heir' # heir)

\* Mutant of Suspend: the members are not blocked.
SuspendFlagOnly == suspended' = TRUE /\ UNCHANGED sched

\* _CORE_cgroup_Suspend() where nothing interrupts it.
Suspend ==
  IF suspended THEN UNCHANGED <<suspended, sched>>
  ELSE suspended' = TRUE /\ Block(members)

\* Mutant of Resume: the members are not unblocked.
ResumeFlagOnly == suspended' = FALSE /\ UNCHANGED sched

\* _CORE_cgroup_Resume() where nothing interrupts it.
Resume ==
  IF suspended THEN suspended' = FALSE /\ Unblock(members)
  ELSE UNCHANGED <<suspended, sched>>

-----------------------------------------------------------------------------
(* The clock interrupt: _Watchdog_Tick() and the two watchdog routines *)

InterruptsEnabled ==
  /\ ~isr /\ ~Confused /\ ~Tangled
  /\ \/ phase = "run" /\ (~necessary \/ holder # NoThread)
     \/ phase = "switched" /\ Allowed("tick_in_switch")

Decrement(timer) == IF timer \in {NoTimer, 0} THEN timer ELSE timer - 1

Tick ==
  /\ InterruptsEnabled
  /\ isr' = TRUE
  /\ since' = [t \in Thread |-> Capped(since[t] + 1)]
  /\ suspendT' = Decrement(suspendT) /\ resumeT' = Decrement(resumeT)
  /\ orphan' = Decrement(orphan)
  /\ IF exists /\ context \in members
     THEN /\ used' = used + 1
          /\ IF phase = "run" THEN stint' = stint + 1 /\ UNCHANGED missed
                              ELSE missed' = missed + 1 /\ UNCHANGED stint
     ELSE UNCHANGED usage
  /\ UNCHANGED <<irregular, abandoned, group, sched, executing, context, phase,
                 api>>

\* Mutant of FireResume: the watchdog is not inserted again.
FireResumeOnce ==
  /\ isr /\ resumeT = 0
  /\ Resume
  /\ avail' = Quota
  /\ resumeT' = NoTimer
  /\ used' = 0 /\ stint' = 0 /\ missed' = 0
  /\ UNCHANGED <<exists, members, added, suspendT, orphan, cpu, since, api,
                 irregular, abandoned>>

\* cpu_resume_routine(): resume the group, start the next period.
FireResume ==
  /\ isr /\ resumeT = 0
  /\ Resume
  /\ avail' = Quota
  /\ resumeT' = Period
  /\ used' = 0 /\ stint' = 0 /\ missed' = 0
  /\ UNCHANGED <<exists, members, added, suspendT, orphan, cpu, since, api,
                 irregular, abandoned>>

\* cpu_suspend_routine(); of two watchdogs due at one tick the resume
\* watchdog was inserted first.
FireSuspend ==
  /\ isr /\ suspendT = 0 /\ resumeT # 0
  /\ suspendT' = NoTimer
  /\ Suspend
  /\ UNCHANGED <<exists, members, added, avail, resumeT, orphan, cpu, since,
                 api, history>>

\* The same routine, for a watchdog linked by the former user of the block.
FireOrphan ==
  /\ isr /\ orphan = 0
  /\ orphan' = NoTimer
  /\ Suspend
  /\ UNCHANGED <<exists, members, added, avail, suspendT, resumeT, cpu, since,
                 api, history>>

TickEnd ==
  /\ isr /\ suspendT # 0 /\ resumeT # 0 /\ orphan # 0
  /\ isr' = FALSE
  /\ UNCHANGED <<group, timers, sched, executing, context, phase, since, api,
                 history>>

-----------------------------------------------------------------------------
(* _Thread_Do_dispatch() *)

\* Mutant of Charge: the quota is not exhausted at zero.
ChargeBelowZero ==
  IF executing \in added
  THEN /\ suspendT' = NoTimer
       /\ avail' = avail - since[executing]
       /\ UNCHANGED <<suspended, sched>>
  ELSE UNCHANGED <<suspendT, avail, suspended, sched>>

\* Mutant of Charge: only the watchdog is cancelled.
ChargeNothing ==
  /\ suspendT' = IF executing \in added THEN NoTimer ELSE suspendT
  /\ UNCHANGED <<avail, suspended, sched>>

\* Before the loop: _CORE_cgroup_Consume_cpu_quota() for the thread that ran
\* and cancel_cpu_suspend_watchdog().
Charge ==
  IF executing \in added
  THEN /\ suspendT' = NoTimer
       /\ IF avail <= since[executing]
          THEN avail' = 0 /\ Suspend
          ELSE /\ avail' = avail - since[executing]
               /\ UNCHANGED <<suspended, sched>>
  ELSE UNCHANGED <<suspendT, avail, suspended, sched>>

DispatchBegin ==
  /\ phase = "run" /\ ~isr /\ ~Confused /\ ~Tangled
  /\ necessary /\ holder = NoThread
  /\ Charge
  /\ phase' = "loop"
  /\ UNCHANGED <<exists, members, added, resumeT, orphan, executing, context,
                 isr, since, api, history>>

InLoop ==
  /\ ~isr
  /\ phase = "loop" \/ (phase = "switched" /\ necessary)

\* An iteration whose heir is a member of a group without quota: suspend the
\* group and look for another heir, if there is one to look for.
DispatchRefuse ==
  /\ InLoop
  /\ heir \in added /\ avail = 0
  /\ executing' = heir
  /\ IF suspended \/ heir \notin members
     THEN /\ necessary' = FALSE
          /\ phase' = "run"
          /\ blocked' = IF suspended THEN blocked ELSE blocked \cup members
          /\ heir' = heir
     ELSE /\ blocked' = blocked \cup members
          /\ heir' \in Ready(blocked')
          /\ necessary' = TRUE
          /\ phase' = "loop"
  /\ suspended' = TRUE
  /\ UNCHANGED <<exists, members, added, avail, timers, context, isr,
                 since, api, history>>

\* An iteration that lets the heir run: take its start timestamp, arm the
\* suspend watchdog, switch the context if the heir is another thread.
DispatchSwitch ==
  /\ InLoop
  /\ ~(heir \in added /\ avail = 0)
  /\ executing' = heir
  /\ necessary' = FALSE
  /\ IF heir \in added
     THEN /\ since' = [since EXCEPT ![heir] = 0]
          /\ suspendT' = IF suspendT = NoTimer THEN avail ELSE suspendT
     ELSE UNCHANGED <<since, suspendT>>
  /\ context' = heir
  /\ phase' = IF heir = context THEN "run" ELSE "switched"
  /\ stint' = 0
  /\ UNCHANGED <<group, resumeT, orphan, blocked, heir, isr, api, used, missed,
                 irregular, abandoned>>

DispatchEnd ==
  /\ phase = "switched" /\ ~isr /\ ~necessary
  /\ phase' = "run"
  /\ UNCHANGED <<group, timers, sched, executing, context, isr, since, api,
                 history>>

-----------------------------------------------------------------------------
(* Tasks *)

\* The loaded context is at task level and may take a step of its own.
AtTaskLevel ==
  /\ phase = "run" /\ ~isr /\ ~Confused /\ ~Tangled
  /\ ~necessary /\ holder = NoThread

\* p is between API calls.
Free(p) ==
  AtTaskLevel /\ context = p /\ call[p] = "none" /\ leaving[p] = NoThread

\* A task waits or another one becomes ready; a task inside a call does not
\* wait, but may be preempted.
Reschedule ==
  /\ AtTaskLevel
  /\ heir' \in Ready(blocked) \ {heir}
  /\ heir' = IdleThread => context \in Thread /\ Free(context)
  /\ necessary' = TRUE
  /\ UNCHANGED <<group, timers, blocked, cpu, since, api, history>>

\* rtems_cgroup_create(): _CORE_cgroup_Initialize() marks both watchdogs as not
\* scheduled without a look at their header.
Create(p) ==
  /\ Free(p) /\ ~exists
  /\ exists' = TRUE /\ suspended' = FALSE
  /\ members' = {}
  /\ avail' = Quota
  /\ suspendT' = NoTimer /\ resumeT' = Period
  /\ orphan' = IF suspendT = NoTimer THEN orphan ELSE suspendT
  /\ used' = 0 /\ stint' = 0 /\ missed' = 0
  /\ UNCHANGED <<added, sched, cpu, since, api, irregular, abandoned>>

\* rtems_cgroup_add_task(): _CORE_cgroup_Add_thread().
Add(p, t) ==
  /\ Free(p) /\ exists /\ t \notin members
  /\ t = p => Allowed("add_running")
  /\ suspended => Allowed("add_suspended")
  /\ (\E q \in Thread : leaving[q] = t) => Allowed("add_leaving")
  /\ members' = members \cup {t}
  /\ added' = added \cup {t}
  /\ irregular' = (irregular \/ suspended)
  /\ UNCHANGED <<exists, suspended, avail, timers, sched, cpu, since, api,
                 usage, abandoned>>

\* rtems_cgroup_remove_task(): _CORE_cgroup_Remove_thread().
Remove(p, t) ==
  /\ members' = members \ {t}
  /\ IF t = p THEN missed' = missed + stint /\ stint' = 0
              ELSE UNCHANGED <<stint, missed>>
  /\ irregular' = (irregular \/ suspended)
  /\ UNCHANGED <<exists, suspended, added, avail, timers, sched, cpu, since,
                 call, holder, todo, used, abandoned>>

\* Called as such, it leaves the thread's fields alone.
RawRemove(p, t) ==
  /\ Allowed("raw_remove")
  /\ Free(p) /\ exists /\ t \in members
  /\ suspended => Allowed("remove_suspended")
  /\ Remove(p, t)
  /\ UNCHANGED leaving

\* The cgroup part of rtems_unified_container_leave(): a thread that names the
\* group is taken off its chain, and then its fields are cleared; p may be
\* preempted in between.
LeaveRemove(p, t) ==
  /\ Free(p) /\ exists /\ t \in added
  /\ suspended => Allowed("remove_suspended")
  /\ Remove(p, t)
  /\ leaving' = [leaving EXCEPT ![p] = t]

LeaveClear(p) ==
  /\ AtTaskLevel /\ context = p /\ leaving[p] # NoThread
  /\ added' = added \ {leaving[p]}
  /\ leaving' = [leaving EXCEPT ![p] = NoThread]
  /\ UNCHANGED <<exists, suspended, members, avail, timers, sched, cpu, since,
                 call, holder, todo, history>>

\* Mutant of Delete: the suspend watchdog is not removed.
DeleteArmed(p) ==
  /\ Free(p) /\ exists
  /\ added # {} => Allowed("delete_members")
  /\ exists' = FALSE
  /\ resumeT' = NoTimer
  /\ irregular' = (irregular \/ added # {})
  /\ abandoned' = (abandoned \/ added # {})
  /\ UNCHANGED <<suspended, members, added, avail, suspendT, orphan, sched, cpu,
                 since, api, usage>>

\* rtems_cgroup_delete(): _CORE_cgroup_Destroy(), then back to the object pool.
Delete(p) ==
  /\ Free(p) /\ exists
  /\ added # {} => Allowed("delete_members")
  /\ exists' = FALSE
  /\ suspendT' = NoTimer /\ resumeT' = NoTimer
  /\ irregular' = (irregular \/ added # {})
  /\ abandoned' = (abandoned \/ added # {})
  /\ UNCHANGED <<suspended, members, added, avail, orphan, sched, cpu, since,
                 api, usage>>

-----------------------------------------------------------------------------
(* rtems_unified_container_pause() and resume(), cpuctl pause and resume:   *)
(* Suspend() and Resume() at task level, open to the clock interrupt.       *)

CallBegin(p, op) ==
  /\ Allowed(op)
  /\ Free(p) /\ exists
  /\ suspended = (op = "resume")
  /\ suspended' = (op = "suspend")
  /\ call' = [call EXCEPT ![p] = op]
  /\ irregular' = (irregular \/ op = "resume")
  /\ UNCHANGED <<exists, members, added, avail, timers, sched, cpu, since,
                 holder, todo, leaving, usage, abandoned>>

\* Mutant of CallDisable: the caller is not suspended.
CallDisableSkipsCaller(p) ==
  /\ AtTaskLevel /\ context = p /\ call[p] # "none"
  /\ holder' = p
  /\ todo' = members \ {p}
  /\ UNCHANGED <<group, timers, sched, cpu, since, call, leaving, history>>

\* _Thread_Dispatch_disable() and the first node of the chain.
CallDisable(p) ==
  /\ AtTaskLevel /\ context = p /\ call[p] # "none"
  /\ holder' = p
  /\ todo' = members
  /\ UNCHANGED <<group, timers, sched, cpu, since, call, leaving, history>>

\* One iteration of the loop over the chain.
CallVisit(p, t) ==
  /\ ~isr /\ holder = p /\ t \in todo
  /\ todo' = todo \ {t}
  /\ IF call[p] = "suspend" THEN Block({t}) ELSE Unblock({t})
  /\ UNCHANGED <<group, timers, cpu, since, call, holder, leaving, history>>

\* _Thread_Dispatch_enable().
CallEnd(p) ==
  /\ ~isr /\ holder = p /\ todo = {}
  /\ holder' = NoThread
  /\ call' = [call EXCEPT ![p] = "none"]
  /\ UNCHANGED <<group, timers, sched, cpu, since, todo, leaving, history>>

-----------------------------------------------------------------------------
Clock == Tick \/ FireResume \/ FireSuspend \/ FireOrphan \/ TickEnd
Dispatch == DispatchBegin \/ DispatchRefuse \/ DispatchSwitch \/ DispatchEnd
CallStep(p) == CallDisable(p) \/ CallEnd(p) \/ \E t \in Thread : CallVisit(p, t)
Directive(p) ==
  \/ Create(p) \/ Delete(p) \/ LeaveClear(p)
  \/ \E t \in Thread : Add(p, t) \/ RawRemove(p, t) \/ LeaveRemove(p, t)
  \/ \E op \in {"suspend", "resume"} : CallBegin(p, op)

Next ==
  \/ Clock \/ Dispatch \/ Reschedule
  \/ \E p \in Thread : CallStep(p) \/ Directive(p)
  \/ Stray

\* The clock interrupt is periodic and stays pending while interrupts are off;
\* interrupt service and dispatcher run to their end, and so does the body of a
\* call between the interrupts, as long as its thread is given the processor.
Fairness ==
  /\ SF_vars(Tick)
  /\ WF_vars(FireResume \/ FireSuspend \/ FireOrphan \/ TickEnd)
  /\ WF_vars(Dispatch)
  /\ \A p \in Thread : SF_vars(CallStep(p))

Spec == Init /\ [][Next]_vars /\ Fairness

-----------------------------------------------------------------------------
(* Properties *)

\* Every variable keeps the type its C declaration and use give it.
TypeOK ==
  /\ exists \in BOOLEAN /\ suspended \in BOOLEAN
  /\ members \subseteq Thread /\ added \subseteq Thread
  /\ avail \in 0 .. Quota
  /\ suspendT \in 0 .. Quota \cup {NoTimer} /\ orphan \in 0 .. Quota \cup {NoTimer}
  /\ resumeT \in 0 .. Period \cup {NoTimer}
  /\ blocked \subseteq Thread
  /\ {heir, executing, context} \subseteq Thread \cup {IdleThread}
  /\ necessary \in BOOLEAN /\ isr \in BOOLEAN
  /\ phase \in {"run", "loop", "switched"}
  /\ since \in [Thread -> 0 .. Quota]
  /\ call \in [Thread -> {"none", "suspend", "resume"}]
  /\ holder \in Thread \cup {NoThread} /\ todo \subseteq Thread
  /\ leaving \in [Thread -> Thread \cup {NoThread}]
  /\ used \in Nat /\ stint \in Nat /\ missed \in Nat
  /\ irregular \in BOOLEAN /\ abandoned \in BOOLEAN

\* Within one period the members run no longer than the quota, plus the ticks
\* the dispatcher has no chance to charge: those that fall into a context
\* switch and those of a member that leaves while it runs.
QuotaRespected == exists => used <= Quota + missed

\* Outside a pause or resume call a member is blocked exactly when its group is
\* suspended: neither the watchdogs nor the dispatcher lose a thread.
BlockedWithGroup ==
  exists /\ (\A p \in Thread : call[p] = "none")
    => \A t \in members : t \in blocked <=> suspended

\* Outside a pause call no member of a suspended group can run, although the
\* call may be interrupted, preempted or overtaken by a new period; threads that
\* join or leave a suspended group, and resume calls, are left out.
SuspendedStops ==
  exists /\ suspended /\ ~irregular /\ (\A p \in Thread : call[p] = "none")
    => members \subseteq blocked

\* cpu->executing is the thread whose registers are loaded (percpu.h), with one
\* exception: a thread that leave() has taken off the chain and that still names
\* the group is made executing but not switched to when the group has no quota.
ExecutingIsContext == Confused => \E p \in Thread : leaving[p] = executing

\* A member blocked for lack of quota is released again, unless a leave() under
\* way got the processor into the state above, of which nothing is claimed.
Replenished ==
  \A t \in Thread :
    (exists /\ t \in members /\ t \in blocked) ~> (t \notin blocked \/ Confused)

\* No watchdog of a control block in the object pool is scheduled (the comment in
\* _CORE_cgroup_Destroy()), unless the group was deleted while threads named it:
\* the dispatcher arms the suspend watchdog of whatever block a thread names.
PooledUnarmed ==
  ~exists /\ ~abandoned => suspendT = NoTimer /\ resumeT = NoTimer /\ orphan = NoTimer
=============================================================================
