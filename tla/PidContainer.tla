---------------------------- MODULE PidContainer ----------------------------
(***************************************************************************)
(* The PID namespace of RTContainer: cpukit/score/src/pidContainer.c, with *)
(* the places that create tasks (taskconstruct.c) and the idle thread      *)
(* (threadcreateidle.c), and the writes of a thread's PID pointer in       *)
(* enter() and leave() (container.c).                                      *)
(*                                                                         *)
(* A PID container hands every member thread a small virtual id (vid).     *)
(* Freed vids go to a list kept in ascending order, of which the smallest  *)
(* is reused first; pidCount is the highest vid ever handed out.           *)
(*                                                                         *)
(* Abstractions.  The ascending free list is the set of its elements       *)
(* (its head is the minimum).  The thread list is a bag, since a thread    *)
(* whose control block was recycled may be linked twice; the order of the  *)
(* list only decides the order in which delete migrates the threads, which *)
(* is left open here.  The calls are serialised by their callers: the code *)
(* takes no lock, and delete() is a loop whose iterations are steps that   *)
(* no other call interleaves with.                                         *)
(***************************************************************************)
EXTENDS Integers, FiniteSets

CONSTANTS
  Thread,        \* thread control blocks; a deleted task's block is reused
  Child,         \* addresses of the PID containers created at run time
  Root,          \* the root PID container
  Limit,         \* RTEMS_MAX_PROCESS_LIMIT (1024 in the code)
  NoThread,      \* an empty entry of pidArray
  NoContainer,   \* no delete in progress; thread without a container
  MaxNodes,      \* bound: times one thread may be linked into one container
  Calls          \* optional behaviours of the environment: see Allowed

ASSUME LimitAssumption == Limit \in Nat /\ Limit >= 2
ASSUME NameAssumption ==
  /\ Root \notin Child
  /\ NoContainer \notin Child \cup {Root}
  /\ NoThread \notin Thread
ASSUME BoundAssumption == MaxNodes \in Nat

\* "task_delete": tasks end and their control blocks are reused;
\* "remove_task": the exported rtems_pid_container_remove_task() is used;
\* "malloc": malloc() may fail;
\* "enter": threads are moved by the unified container's enter() and leave().
Allowed(call) == call \in Calls

Container == Child \cup {Root}
Vid == 1 .. (Limit - 1)

VARIABLES
  alive,      \* threads that are existing tasks
  life,       \* container memory: "none", "live" or "freed"
  listed,     \* containers on root's pidContainerList
  held,       \* containers whose creator took a reference with inc_rc()
  rc, pidCount, freeVid, pidArray,
  threadList, \* how often a thread is linked into a container's list
  ptr,        \* thread->container->pidContainer
  astray,     \* history: tasks whose enter() or leave() move_task() refused
  deleting,   \* the container a running delete() works on
  pending     \* the detached thread list delete() walks

vars == <<alive, life, listed, held, rc, pidCount, freeVid, pidArray,
          threadList, ptr, astray, deleting, pending>>

Live == {c \in Child : life[c] = "live"} \cup {Root}
Idle == deleting = NoContainer
NoNodes == [t \in Thread |-> 0]

UsedVid(c) == {v \in Vid : pidArray[c][v] # NoThread}
VidsOf(c, t) == {v \in Vid : pidArray[c][v] = t}
Smallest(S) == CHOOSE v \in S : \A w \in S : v <= w

-----------------------------------------------------------------------------
\* rtems_pid_container_initialize_root(), then the idle thread's inc_rc().
Init ==
  /\ alive = {}
  /\ life = [c \in Child |-> "none"]
  /\ listed = {}
  /\ held = {Root}
  /\ rc = [c \in Container |-> IF c = Root THEN 1 ELSE 0]
  /\ pidCount = [c \in Container |-> 0]
  /\ freeVid = [c \in Container |-> {}]
  /\ pidArray = [c \in Container |-> [v \in Vid |-> NoThread]]
  /\ threadList = [c \in Container |-> NoNodes]
  /\ ptr = [t \in Thread |-> NoContainer]
  /\ astray = {}
  /\ deleting = NoContainer
  /\ pending = NoNodes

\* Mutant of Full: one vid too many.
FullOffByOne(c) == pidCount[c] >= Limit

Full(c) == pidCount[c] >= Limit - 1

\* Mutant of NextVid: the tail of the free list is taken.
NextVidLargest(c) ==
  IF freeVid[c] = {} THEN pidCount[c] + 1
  ELSE CHOOSE v \in freeVid[c] : \A w \in freeVid[c] : w <= v

\* The vid the next member of c gets: the head of the free list, or a new one.
NextVid(c) == IF freeVid[c] # {} THEN Smallest(freeVid[c]) ELSE pidCount[c] + 1

\* Mutant of NextPidCount: a recycled vid counts as a new one.
NextPidCountAlways(c) == pidCount[c] + 1

\* The high-water mark after NextVid(c) was handed out.
NextPidCount(c) == IF freeVid[c] # {} THEN pidCount[c] ELSE pidCount[c] + 1

\* Mutant of AddTask: the free node stays on the list.
AddTaskKeepsFree(c, t, nodeOk) ==
  IF Full(c)
  THEN UNCHANGED <<rc, pidCount, freeVid, pidArray, threadList>>
  ELSE /\ pidCount' = [pidCount EXCEPT ![c] = NextPidCount(c)]
       /\ pidArray' = [pidArray EXCEPT ![c][NextVid(c)] = t]
       /\ rc' = [rc EXCEPT ![c] = @ + 1]
       /\ threadList' = [threadList EXCEPT ![c][t] = @ + 1]
       /\ UNCHANGED freeVid

\* Mutant of AddTask: the reference is taken only with the node.
AddTaskLateReference(c, t, nodeOk) ==
  IF Full(c)
  THEN UNCHANGED <<rc, pidCount, freeVid, pidArray, threadList>>
  ELSE /\ freeVid' = [freeVid EXCEPT ![c] = @ \ {NextVid(c)}]
       /\ pidCount' = [pidCount EXCEPT ![c] = NextPidCount(c)]
       /\ pidArray' = [pidArray EXCEPT ![c][NextVid(c)] = t]
       /\ IF nodeOk
          THEN /\ rc' = [rc EXCEPT ![c] = @ + 1]
               /\ threadList' = [threadList EXCEPT ![c][t] = @ + 1]
          ELSE UNCHANGED <<rc, threadList>>

\* rtems_pid_container_add_task().  nodeOk: the thread node's malloc() succeeds;
\* when it fails the vid and the reference stay taken.
AddTask(c, t, nodeOk) ==
  IF Full(c)
  THEN UNCHANGED <<rc, pidCount, freeVid, pidArray, threadList>>
  ELSE /\ freeVid' = [freeVid EXCEPT ![c] = @ \ {NextVid(c)}]
       /\ pidCount' = [pidCount EXCEPT ![c] = NextPidCount(c)]
       /\ pidArray' = [pidArray EXCEPT ![c][NextVid(c)] = t]
       /\ rc' = [rc EXCEPT ![c] = @ + 1]
       /\ threadList' = IF nodeOk THEN [threadList EXCEPT ![c][t] = @ + 1]
                                  ELSE threadList

MallocResult == IF Allowed("malloc") THEN BOOLEAN ELSE {TRUE}

-----------------------------------------------------------------------------
\* rtems_task_construct(): the new task becomes a member of the root container.
TaskCreate(t) ==
  /\ Idle /\ t \notin alive
  /\ threadList[Root][t] < MaxNodes
  /\ alive' = alive \cup {t}
  /\ ptr' = [ptr EXCEPT ![t] = Root]
  /\ astray' = astray \ {t}
  /\ \E ok \in MallocResult : AddTask(Root, t, ok)
  /\ UNCHANGED <<life, listed, held, deleting, pending>>

\* Deleting a task touches no container: its nodes, vids and references stay.
TaskDelete(t) ==
  /\ Allowed("task_delete")
  /\ Idle /\ t \in alive
  /\ alive' = alive \ {t}
  /\ UNCHANGED <<life, listed, held, rc, pidCount, freeVid, pidArray,
                 threadList, ptr, astray, deleting, pending>>

\* rtems_pid_container_create(); hold: followed by inc_rc(), as the unified
\* container does.  The list node's malloc() may fail on its own.  The
\* address of a freed container may be handed out again.
Create(c, hold) ==
  /\ Idle /\ life[c] # "live"
  /\ life' = [life EXCEPT ![c] = "live"]
  /\ rc' = [rc EXCEPT ![c] = IF hold THEN 1 ELSE 0]
  /\ pidCount' = [pidCount EXCEPT ![c] = 0]
  /\ threadList' = [threadList EXCEPT ![c] = NoNodes]
  /\ freeVid' = [freeVid EXCEPT ![c] = {}]
  /\ pidArray' = [pidArray EXCEPT ![c] = [v \in Vid |-> NoThread]]
  /\ held' = IF hold THEN held \cup {c} ELSE held
  /\ \E ok \in MallocResult : listed' = IF ok THEN listed \cup {c} ELSE listed
  /\ UNCHANGED <<alive, ptr, astray, deleting, pending>>

\* The conditions under which move_task() does not return early.
CanMove(src, dst, t) ==
  /\ src # dst /\ rc[src] > 0
  /\ threadList[src][t] > 0
  /\ VidsOf(src, t) # {}
  /\ threadList[dst][t] = 0
  /\ freeVid[dst] # {} \/ ~Full(dst)

\* rtems_pid_container_move_task(); a call it refuses changes nothing.  The
\* destination's free node is recycled, so only the other case can run out of
\* memory, before anything was changed.  A source without references is deleted.
MoveTask(src, dst, t) ==
  /\ Idle /\ t \in alive
  /\ CanMove(src, dst, t)
  /\ LET vid == Smallest(VidsOf(src, t)) IN
       /\ freeVid' = [freeVid EXCEPT ![src] = @ \cup {vid},
                                     ![dst] = @ \ {NextVid(dst)}]
       /\ pidCount' = [pidCount EXCEPT ![dst] = NextPidCount(dst)]
       /\ pidArray' = [pidArray EXCEPT ![src][vid] = NoThread,
                                       ![dst][NextVid(dst)] = t]
  /\ threadList' = [threadList EXCEPT ![src][t] = @ - 1, ![dst][t] = @ + 1]
  /\ rc' = [rc EXCEPT ![src] = @ - 1, ![dst] = @ + 1]
  /\ ptr' = IF ptr[t] = src THEN [ptr EXCEPT ![t] = dst] ELSE ptr
  /\ deleting' = IF rc[src] = 1 /\ src # Root THEN src ELSE NoContainer
  /\ UNCHANGED <<alive, life, listed, held, astray, pending>>

\* move_task() returns early, or for want of memory.
Refuses(src, dst, t) ==
  ~CanMove(src, dst, t) \/ (Allowed("malloc") /\ freeVid[dst] = {})

\* The PID part of rtems_unified_container_enter() and leave(): after the call
\* of move_task() both set the thread's pointer, also when the move was refused.
\* When it was not, MoveTask has set it.  A pointer to freed memory, which an
\* earlier refused move may have left, is not followed.
MoveRefused(dst, t) ==
  /\ Allowed("enter")
  /\ Idle /\ t \in alive
  /\ ptr[t] \in Live \ {dst}
  /\ Refuses(ptr[t], dst, t)
  /\ ptr' = [ptr EXCEPT ![t] = dst]
  /\ astray' = astray \cup {t}
  /\ UNCHANGED <<alive, life, listed, held, rc, pidCount, freeVid, pidArray,
                 threadList, deleting, pending>>

\* Mutant of RemoveTask: the node stays linked.
RemoveTaskKeepsNode(c, t) ==
  /\ Allowed("remove_task")
  /\ Idle /\ t \in alive
  /\ rc[c] > 0 /\ VidsOf(c, t) # {}
  /\ LET vid == Smallest(VidsOf(c, t)) IN
       /\ freeVid' = [freeVid EXCEPT ![c] = @ \cup {vid}]
       /\ pidArray' = [pidArray EXCEPT ![c][vid] = NoThread]
  /\ rc' = [rc EXCEPT ![c] = @ - 1]
  /\ deleting' = IF rc[c] = 1 /\ c # Root THEN c ELSE NoContainer
  /\ UNCHANGED <<alive, life, listed, held, pidCount, threadList, ptr, astray,
                 pending>>

\* rtems_pid_container_remove_task(): the vid, if there is one, is recycled,
\* the node, if there is one, unlinked; the reference is dropped in any case.
RemoveTask(c, t) ==
  /\ Allowed("remove_task")
  /\ Idle /\ t \in alive
  /\ rc[c] > 0
  /\ IF VidsOf(c, t) = {}
     THEN UNCHANGED <<freeVid, pidArray>>
     ELSE LET vid == Smallest(VidsOf(c, t)) IN
            /\ freeVid' = [freeVid EXCEPT ![c] = @ \cup {vid}]
            /\ pidArray' = [pidArray EXCEPT ![c][vid] = NoThread]
  /\ threadList' = [threadList EXCEPT ![c][t] = IF @ > 0 THEN @ - 1 ELSE 0]
  /\ rc' = [rc EXCEPT ![c] = @ - 1]
  /\ deleting' = IF rc[c] = 1 /\ c # Root THEN c ELSE NoContainer
  /\ UNCHANGED <<alive, life, listed, held, pidCount, ptr, astray, pending>>

-----------------------------------------------------------------------------
\* rtems_pid_container_delete(): a call, then the steps of its body.
DeleteCall(c) ==
  /\ Idle /\ life[c] = "live"
  /\ deleting' = c
  /\ UNCHANGED <<alive, life, listed, held, rc, pidCount, freeVid, pidArray,
                 threadList, ptr, astray, pending>>

\* Unlink the container and detach its thread list; rc = -1 marks it.
DeleteBegin(c) ==
  /\ deleting = c /\ rc[c] # -1
  /\ listed' = listed \ {c}
  /\ held' = held \ {c}
  /\ rc' = [rc EXCEPT ![c] = -1]
  /\ pending' = threadList[c]
  /\ threadList' = [threadList EXCEPT ![c] = NoNodes]
  /\ UNCHANGED <<alive, life, pidCount, freeVid, pidArray, ptr, astray, deleting>>

\* Mutant of DeleteMigrate: the thread's own pointer is forgotten.
DeleteMigrateKeepsPtr(c, t) ==
  /\ deleting = c /\ rc[c] = -1
  /\ pending[t] > 0
  /\ pending' = [pending EXCEPT ![t] = @ - 1]
  /\ \E ok \in MallocResult : AddTask(Root, t, ok)
  /\ UNCHANGED <<alive, life, listed, held, ptr, astray, deleting>>

\* One iteration of the loop: the thread joins root.
DeleteMigrate(c, t) ==
  /\ deleting = c /\ rc[c] = -1
  /\ pending[t] > 0
  /\ pending' = [pending EXCEPT ![t] = @ - 1]
  /\ \E ok \in MallocResult : AddTask(Root, t, ok)
  /\ ptr' = IF ptr[t] = c THEN [ptr EXCEPT ![t] = Root] ELSE ptr
  /\ UNCHANGED <<alive, life, listed, held, astray, deleting>>

\* The free vids and the container itself are released.
DeleteEnd(c) ==
  /\ deleting = c /\ rc[c] = -1
  /\ pending = NoNodes
  /\ life' = [life EXCEPT ![c] = "freed"]
  /\ freeVid' = [freeVid EXCEPT ![c] = {}]
  /\ deleting' = NoContainer
  /\ UNCHANGED <<alive, listed, held, rc, pidCount, pidArray, threadList, ptr,
                 astray, pending>>

Next ==
  \/ \E t \in Thread : TaskCreate(t) \/ TaskDelete(t)
  \/ \E c \in Child, hold \in BOOLEAN : Create(c, hold)
  \/ \E t \in Thread, src, dst \in Live : MoveTask(src, dst, t)
  \/ \E t \in Thread, c \in Live : RemoveTask(c, t) \/ MoveRefused(c, t)
  \/ \E c \in Child : DeleteCall(c) \/ DeleteBegin(c) \/ DeleteEnd(c)
  \/ \E c \in Child, t \in Thread : DeleteMigrate(c, t)

Spec == Init /\ [][Next]_vars

-----------------------------------------------------------------------------
(* Queries *)

\* The containers rtems_pid_container_find_by_thread() may answer with: root is
\* searched first, then the listed containers.
FindByThread(t) ==
  IF threadList[Root][t] > 0 THEN {Root}
  ELSE {c \in listed : threadList[c][t] > 0}

-----------------------------------------------------------------------------
(* Properties *)

\* Every variable keeps the type its C declaration and use give it; vids stay
\* inside pidArray.
TypeOK ==
  /\ alive \subseteq Thread
  /\ life \in [Child -> {"none", "live", "freed"}]
  /\ listed \subseteq Child
  /\ held \subseteq Container
  /\ rc \in [Container -> Int]
  /\ pidCount \in [Container -> 0 .. (Limit - 1)]
  /\ freeVid \in [Container -> SUBSET Vid]
  /\ pidArray \in [Container -> [Vid -> Thread \cup {NoThread}]]
  /\ threadList \in [Container -> [Thread -> Nat]]
  /\ ptr \in [Thread -> Container \cup {NoContainer}]
  /\ astray \subseteq Thread
  /\ deleting \in Child \cup {NoContainer}
  /\ pending \in [Thread -> Nat]

\* In every container the vids up to the high-water mark are either in use or
\* on the free list, never both and never lost: recycling by remove_task(),
\* move_task() (which carries a free node from one container to the other) and
\* add_task() neither leaks a vid nor frees one twice.
VidPartition ==
  \A c \in Live : /\ UsedVid(c) \cap freeVid[c] = {}
                  /\ UsedVid(c) \cup freeVid[c] = 1 .. pidCount[c]

\* A vid in use is never given to another thread: add_task() and move_task()
\* only overwrite empty entries of pidArray, unless the container is new.
VidNeverStolen ==
  [][\A c \in Live : life' = life =>
       \A v \in UsedVid(c) : pidArray'[c][v] \in {pidArray[c][v], NoThread}]_vars

\* A thread linked into a container has at least as many vids there: a lookup
\* through the list (get_thread_info) always finds a vid.
LinkedHasVid ==
  \A c \in Live, t \in Thread :
    rc[c] # -1 => threadList[c][t] <= Cardinality(VidsOf(c, t))

\* rc is the creator's reference plus one per vid in use, so a container is
\* deleted exactly when its last reference goes.
RcCountsMembers ==
  \A c \in Live : rc[c] # -1 =>
    rc[c] = (IF c \in held THEN 1 ELSE 0) + Cardinality(UsedVid(c))

\* No task is left pointing at a freed container, although delete() redirects
\* only the threads on its list; and between calls find_by_thread(), which goes
\* by the lists, answers with no other container than the task's own pointer.
\* Tasks that enter() or leave() pointed somewhere although move_task() refused
\* are excepted: neither holds for them, but they disturb no other task.
PointersAgree ==
  \A t \in alive \ astray :
    ptr[t] \in Live /\ (Idle => FindByThread(t) \subseteq {ptr[t]})

-----------------------------------------------------------------------------
(* Refinement *)

\* The numbering a caller can observe: pidArray of the allocated containers.
Numbering ==
  [c \in Container |->
     IF c \in Live THEN pidArray[c] ELSE [v \in Vid |-> NoThread]]

Allocator == INSTANCE VidAllocator WITH owner <- Numbering

\* Free list, high-water mark and the recycling of free nodes between two
\* containers implement an allocator of the smallest unused number: whatever
\* add_task(), move_task(), remove_task() and delete() do, a thread gets the
\* smallest vid nobody in its container has, and no vid in use is reassigned.
ImplementsAllocator == Allocator!Spec
=============================================================================
