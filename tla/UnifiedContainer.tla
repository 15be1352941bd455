-------------------------- MODULE UnifiedContainer --------------------------
(***************************************************************************)
(* The unified container of RTContainer: cpukit/score/src/container.c, with *)
(* what its calls do to the five namespaces (utsContainer.c,               *)
(* mntContainer.c, netContainer.c, ipcContainer.c, pidContainer.c), to the *)
(* cgroup (corecgroup.c) and to the IO cgroup (io_cgroup.c).               *)
(*                                                                         *)
(* create(), enter(), leave() and delete() walk over the parts of a        *)
(* container one after the other, without a lock: a call is a frame with   *)
(* the parts it has yet to visit, one part a step, and the calls of        *)
(* different threads interleave between the parts.                         *)
(*                                                                         *)
(* Abstractions.  A namespace object is named by its kind and the unified  *)
(* container that owns it; both may be allocated again at the same         *)
(* address.  The vids of a PID container are those of PidContainer: here   *)
(* its move_task() and add_task() may refuse for reasons that module       *)
(* explains.  rtems_net_container_delete() points the deleting thread at   *)
(* the namespace while it removes its routes, and back, under the network  *)
(* semaphore: the model shows the pointer it leaves behind.  An object     *)
(* whose reference count reaches zero is released; the redirection of      *)
(* threads that still point at it is left out there, since the count is    *)
(* the number of pointers (RcExact).  A thread enters and leaves for       *)
(* itself, as the callers in the repository do; anyone may delete.         *)
(***************************************************************************)
EXTENDS Integers, FiniteSets, Sequences

CONSTANTS
  Thread,       \* tasks, the callers as well
  Container,    \* addresses of unified containers
  Root,         \* the root container and its namespaces
  None,         \* NULL
  FlagSets,     \* the values of config->flags
  Share         \* whether two calls may work on one container at the same time

Kind == {"pid", "uts", "mnt", "net", "ipc"}
Part == Kind \cup {"cgroup", "io"}

ASSUME NameAssumption == Root \notin Container /\ None \notin Container \cup Thread
ASSUME ThreadAssumption == IsFiniteSet(Thread)
ASSUME FlagAssumption == FlagSets \subseteq SUBSET Part /\ Share \in BOOLEAN

VARIABLES
  given,      \* containers create() returned and delete() was not called for
  flags,      \* container->flags
  built,      \* parts whose pointer or id in the container is set
  live,       \* allocated parts, as pairs of part and owner
  rc,         \* reference counts of the namespace objects
  numbered,   \* the threads with a vid in a PID namespace, on its thread list
              \* unless they are
  nodeless,   \* threads with a vid of the root namespace and no list node
  refused,    \* history: threads whose last PID move was refused
  ptr,        \* thread->container->...Container
  cgroup,     \* thread->cgroup, with is_added_to_cgroup
  chain,      \* the threads of a cgroup
  weights,    \* the threads of an IO cgroup
  attached,   \* attached and attached_thread
  frame,      \* the call a thread is in
  inside,     \* history: threads whose enter() succeeded and that did not leave
  astray      \* history: threads that entered from inside another container or
              \* whose enter() failed

objects == <<given, flags, built, live>>
pids == <<numbered, nodeless, refused>>
members == <<pids, ptr, cgroup, chain, weights>>
vars == <<objects, rc, members, attached, frame, inside, astray>>

Namespace == Container \cup {Root}
Enters == <<"pid", "uts", "mnt", "net", "ipc", "cgroup", "io">>
Deletes == <<"cgroup", "io", "pid", "uts", "mnt", "net", "ipc">>

Idle == [op |-> "idle", c |-> None, t |-> None, todo |-> {}, delete |-> FALSE]
Frame(op, c, t, todo) ==
  [op |-> op, c |-> c, t |-> t, todo |-> todo, delete |-> FALSE]

\* The references the root namespaces start with, the idle thread's included.
RootRc == [pid |-> 1, uts |-> 1, mnt |-> 2, net |-> 4, ipc |-> 4]

\* rtems_container_initialize_root() and the threads as rtems_task_construct()
\* leaves them.
Init ==
  /\ given = {} /\ live = {}
  /\ flags = [c \in Container |-> {}] /\ built = [c \in Container |-> {}]
  /\ rc = [k \in Kind |-> [c \in Namespace |->
             IF c = Root THEN RootRc[k] + Cardinality(Thread) ELSE 0]]
  /\ numbered = [c \in Namespace |-> IF c = Root THEN Thread ELSE {}]
  /\ nodeless = {} /\ refused = {}
  /\ ptr = [k \in Kind |-> [t \in Thread |-> Root]]
  /\ cgroup = [t \in Thread |-> None]
  /\ chain = [c \in Container |-> {}] /\ weights = [c \in Container |-> {}]
  /\ attached = [c \in Container |-> None]
  /\ frame = [t \in Thread |-> Idle]
  /\ inside = {} /\ astray = {}

\* p may start a call on c.
MayCall(p, c) ==
  /\ frame[p].op = "idle"
  /\ \A q \in Thread : frame[q].c = c => Share

\* The parts come in the order of the code, those the call does not visit left out.
Order(op) == IF op = "delete" THEN Deletes ELSE Enters
First(op, parts, part) ==
  \E i \in 1 .. Len(Order(op)) :
    /\ Order(op)[i] = part
    /\ \A j \in 1 .. (i - 1) : Order(op)[j] \notin parts

\* The call of p does op and comes to this part next.
At(p, op, part) ==
  /\ frame[p].op = op /\ part \in frame[p].todo
  /\ First(op, frame[p].todo, part)
AtEnd(p, op) == frame[p].op = op /\ frame[p].todo = {}
Advance(p, part) == frame' = [frame EXCEPT ![p].todo = @ \ {part}]
Return(p) == frame' = [frame EXCEPT ![p] = Idle]

-----------------------------------------------------------------------------
(* The namespaces *)

\* Mutant of Move: the destination is not counted.
MoveUncounted(k, t, src, dst) ==
  /\ ptr' = [ptr EXCEPT ![k][t] = dst]
  /\ rc' = [rc EXCEPT ![k][src] = @ - 1]
  /\ live' = IF src # Root /\ rc[k][src] <= 1 THEN live \ {<<k, src>>} ELSE live
  /\ UNCHANGED pids

\* rtems_uts_container_move_task() and its mnt, net and ipc counterparts.
Move(k, t, src, dst) ==
  /\ ptr' = [ptr EXCEPT ![k][t] = dst]
  /\ rc' = [rc EXCEPT ![k][src] = @ - 1, ![k][dst] = @ + 1]
  /\ live' = IF src # Root /\ rc[k][src] <= 1 THEN live \ {<<k, src>>} ELSE live
  /\ UNCHANGED pids

CanMovePid(t, src, dst) ==
  t \in numbered[src] /\ t \notin nodeless /\ t \notin numbered[dst]

\* rtems_pid_container_move_task(), then the assignment with which enter() and
\* leave() set the pointer whatever came of it.
MovePid(t, src, dst) ==
  /\ ptr' = [ptr EXCEPT !["pid"][t] = dst]
  /\ \/ /\ CanMovePid(t, src, dst)
        /\ numbered' = [numbered EXCEPT ![src] = @ \ {t}, ![dst] = @ \cup {t}]
        /\ rc' = [rc EXCEPT !["pid"][src] = @ - 1, !["pid"][dst] = @ + 1]
        /\ live' = IF src # Root /\ rc["pid"][src] <= 1
                   THEN live \ {<<"pid", src>>} ELSE live
        /\ refused' = refused \ {t}
     \/ refused' = refused \cup {t} /\ UNCHANGED <<numbered, rc, live>>
  /\ UNCHANGED nodeless

MoveKind(k, t, src, dst) ==
  IF src = dst THEN UNCHANGED <<ptr, pids, rc, live>>
  ELSE IF k = "pid" THEN MovePid(t, src, dst) ELSE Move(k, t, src, dst)

\* Mutant of Redirected: only the PID namespace redirects its threads.
RedirectedListed(k, c) == IF k = "pid" THEN numbered[c] ELSE {}

\* The threads that deleting a namespace object sends to root: delete() of the
\* IPC namespace sends none, that of the PID namespace those on its list.
Redirected(k, c) ==
  CASE k = "ipc" -> {}
    [] k = "pid" -> numbered[c]
    [] OTHER -> {t \in Thread : ptr[k][t] = c}

\* Mutant of DeleteKind: the pointers are cleared.
DeleteKindClears(k, c) ==
  /\ ptr' = [ptr EXCEPT ![k] = [t \in Thread |->
               IF t \in Redirected(k, c) /\ @[t] = c THEN None ELSE @[t]]]
  /\ rc' = [rc EXCEPT ![k][c] = 0]
  /\ UNCHANGED <<numbered, nodeless>>

\* The threads that get a reference of root when they are redirected.  For the
\* PID namespace add_task() gives it with a vid, and none once root has given all.
Taken(k, c) == IF k = "pid" THEN SUBSET numbered[c] ELSE {Redirected(k, c)}

\* rtems_pid_container_delete() and its counterparts.  Without memory for the
\* node add_task() leaves a thread with a vid that is on no list.
DeleteKind(k, c) ==
  /\ ptr' = [ptr EXCEPT ![k] = [t \in Thread |->
               IF t \in Redirected(k, c) /\ @[t] = c THEN Root ELSE @[t]]]
  /\ \E taken \in Taken(k, c) :
       /\ rc' = [rc EXCEPT ![k][Root] = @ + Cardinality(taken), ![k][c] = 0]
       /\ IF k = "pid"
          THEN /\ numbered' = [numbered EXCEPT ![Root] = @ \cup taken, ![c] = {}]
               /\ \E lost \in SUBSET taken : nodeless' = nodeless \cup lost
          ELSE UNCHANGED <<numbered, nodeless>>

-----------------------------------------------------------------------------
(* rtems_unified_container_create() *)

CreateBegin(p, c, parts) ==
  /\ MayCall(p, c)
  /\ c \notin given /\ \A q \in Thread : frame[q].c # c
  /\ flags' = [flags EXCEPT ![c] = parts]
  /\ built' = [built EXCEPT ![c] = {}]
  /\ attached' = [attached EXCEPT ![c] = None]
  /\ frame' = [frame EXCEPT ![p] = Frame("create", c, None, parts)]
  /\ UNCHANGED <<given, live, rc, members, inside, astray>>

\* Mutant of CreatePart: the owner takes no reference.
CreatePartUnowned(p, part) ==
  /\ At(p, "create", part)
  /\ LET c == frame[p].c IN
       /\ built' = [built EXCEPT ![c] = @ \cup {part}]
       /\ live' = live \cup {<<part, c>>}
       /\ rc' = IF part \in Kind THEN [rc EXCEPT ![part][c] = 0] ELSE rc
       /\ numbered' = IF part = "pid" THEN [numbered EXCEPT ![c] = {}] ELSE numbered
  /\ Advance(p, part)
  /\ UNCHANGED <<given, flags, nodeless, refused, ptr, cgroup, chain, weights,
                 attached, inside, astray>>

\* One part is created, with the reference of its owner.
CreatePart(p, part) ==
  /\ At(p, "create", part)
  /\ LET c == frame[p].c IN
       /\ built' = [built EXCEPT ![c] = @ \cup {part}]
       /\ live' = live \cup {<<part, c>>}
       /\ rc' = IF part \in Kind THEN [rc EXCEPT ![part][c] = 1] ELSE rc
       /\ numbered' = IF part = "pid" THEN [numbered EXCEPT ![c] = {}] ELSE numbered
       /\ chain' = IF part = "cgroup" THEN [chain EXCEPT ![c] = {}] ELSE chain
       /\ weights' = IF part = "io" THEN [weights EXCEPT ![c] = {}] ELSE weights
  /\ Advance(p, part)
  /\ UNCHANGED <<given, flags, nodeless, refused, ptr, cgroup, attached, inside, astray>>

\* Mutant of CreateFail: nothing is rolled back.
CreateFailReturns(p) ==
  /\ frame[p].op = "create" /\ frame[p].todo # {}
  /\ Return(p)
  /\ UNCHANGED <<objects, rc, members, attached, inside, astray>>

\* A part cannot be created: the container is deleted.
CreateFail(p) ==
  /\ frame[p].op = "create" /\ frame[p].todo # {}
  /\ LET c == frame[p].c IN
       frame' = [frame EXCEPT ![p] =
                   Frame("delete", c, None, built[c])]
  /\ UNCHANGED <<objects, rc, members, attached, inside, astray>>

CreateEnd(p) ==
  /\ AtEnd(p, "create")
  /\ given' = given \cup {frame[p].c}
  /\ Return(p)
  /\ UNCHANGED <<flags, built, live, rc, members, attached, inside, astray>>

-----------------------------------------------------------------------------
(* rtems_unified_container_enter(); an error return undoes nothing *)

\* Mutant of EnterBegin: the attached thread is not looked at.
EnterBeginUnchecked(p, c) ==
  /\ c \in given /\ MayCall(p, c)
  /\ astray' = IF \E d \in Container \ {c} : attached[d] = p
               THEN astray \cup {p} ELSE astray
  /\ frame' = [frame EXCEPT ![p] = Frame("enter", c, p, flags[c])]
  /\ UNCHANGED <<objects, rc, members, attached, inside>>

EnterBegin(p, c) ==
  /\ c \in given /\ MayCall(p, c)
  /\ attached[c] \in {None, p}
  /\ astray' = IF \E d \in Container \ {c} : attached[d] = p
               THEN astray \cup {p} ELSE astray
  /\ frame' = [frame EXCEPT ![p] = Frame("enter", c, p, flags[c])]
  /\ UNCHANGED <<objects, rc, members, attached, inside>>

EnterKind(p, k) ==
  /\ At(p, "enter", k)
  /\ MoveKind(k, p, ptr[k][p], frame[p].c)
  /\ Advance(p, k)
  /\ UNCHANGED <<given, flags, built, cgroup, chain, weights, attached, inside, astray>>

EnterCgroup(p) ==
  /\ At(p, "enter", "cgroup")
  /\ cgroup[p] \in {None, frame[p].c}
  /\ LET c == frame[p].c IN
       /\ cgroup' = [cgroup EXCEPT ![p] = c]
       /\ chain' = IF cgroup[p] = c THEN chain
                                    ELSE [chain EXCEPT ![c] = @ \cup {p}]
  /\ Advance(p, "cgroup")
  /\ UNCHANGED <<objects, rc, pids, ptr, weights, attached, inside, astray>>

EnterIo(p) ==
  /\ At(p, "enter", "io")
  /\ weights' = [weights EXCEPT ![frame[p].c] = @ \cup {p}]
  /\ Advance(p, "io")
  /\ UNCHANGED <<objects, rc, pids, ptr, cgroup, chain, attached, inside, astray>>

\* The thread is in another cgroup, or there is no memory or weight for it.
EnterFail(p) ==
  /\ \/ At(p, "enter", "cgroup") /\ cgroup[p] \notin {None, frame[p].c}
     \/ At(p, "enter", "cgroup") /\ cgroup[p] = None
     \/ At(p, "enter", "io")
  /\ astray' = astray \cup {p}
  /\ Return(p)
  /\ UNCHANGED <<objects, rc, members, attached, inside>>

EnterEnd(p) ==
  /\ AtEnd(p, "enter")
  /\ attached' = [attached EXCEPT ![frame[p].c] = p]
  /\ inside' = inside \cup {<<p, frame[p].c>>}
  /\ Return(p)
  /\ UNCHANGED <<objects, rc, members, astray>>

-----------------------------------------------------------------------------
(* rtems_unified_container_leave(), called as such or by delete() *)

LeaveBegin(p, c) ==
  /\ c \in given /\ MayCall(p, c)
  /\ frame' = [frame EXCEPT ![p] = Frame("leave", c, p, flags[c])]
  /\ inside' = inside \ {<<p, c>>}
  /\ UNCHANGED <<objects, rc, members, attached, astray>>

LeaveKind(p, k) ==
  /\ At(p, "leave", k)
  /\ LET t == frame[p].t IN
       MoveKind(k, t, ptr[k][t], IF ptr[k][t] = frame[p].c THEN Root ELSE ptr[k][t])
  /\ Advance(p, k)
  /\ UNCHANGED <<given, flags, built, cgroup, chain, weights, attached, inside, astray>>

\* Mutant of LeaveCgroup: the thread keeps its pointer.
LeaveCgroupKeepsPointer(p) ==
  /\ At(p, "leave", "cgroup")
  /\ chain' = [chain EXCEPT ![frame[p].c] = @ \ {frame[p].t}]
  /\ Advance(p, "cgroup")
  /\ UNCHANGED <<objects, rc, pids, ptr, cgroup, weights, attached, inside, astray>>

LeaveCgroup(p) ==
  /\ At(p, "leave", "cgroup")
  /\ LET c == frame[p].c
         t == frame[p].t IN
       IF cgroup[t] = c
       THEN /\ chain' = [chain EXCEPT ![c] = @ \ {t}]
            /\ cgroup' = [cgroup EXCEPT ![t] = None]
       ELSE UNCHANGED <<chain, cgroup>>
  /\ Advance(p, "cgroup")
  /\ UNCHANGED <<objects, rc, pids, ptr, weights, attached, inside, astray>>

LeaveIo(p) ==
  /\ At(p, "leave", "io")
  /\ weights' = [weights EXCEPT ![frame[p].c] = @ \ {frame[p].t}]
  /\ Advance(p, "io")
  /\ UNCHANGED <<objects, rc, pids, ptr, cgroup, chain, attached, inside, astray>>

LeaveEnd(p) ==
  /\ AtEnd(p, "leave")
  /\ LET c == frame[p].c IN
       /\ attached' = IF attached[c] = frame[p].t
                      THEN [attached EXCEPT ![c] = None] ELSE attached
       /\ IF frame[p].delete
          THEN frame' = [frame EXCEPT ![p] =
                           Frame("delete", c, None, built[c])]
          ELSE Return(p)
  /\ UNCHANGED <<objects, rc, members, inside, astray>>

-----------------------------------------------------------------------------
(* rtems_unified_container_delete() *)

\* Mutant of DeleteBegin: the attached thread is not made to leave.
DeleteBeginNoLeave(p, c) ==
  /\ c \in given /\ MayCall(p, c)
  /\ given' = given \ {c}
  /\ frame' = [frame EXCEPT ![p] = Frame("delete", c, None, built[c])]
  /\ inside' = {i \in inside : i[2] # c}
  /\ UNCHANGED <<flags, built, live, rc, members, attached, astray>>

DeleteBegin(p, c) ==
  /\ c \in given /\ MayCall(p, c)
  /\ given' = given \ {c}
  /\ frame' = [frame EXCEPT ![p] =
       IF attached[c] # None
       THEN [Frame("leave", c, attached[c], flags[c])
               EXCEPT !.delete = TRUE]
       ELSE Frame("delete", c, None, built[c])]
  /\ inside' = {i \in inside : i[2] # c}
  /\ UNCHANGED <<flags, built, live, rc, members, attached, astray>>

DeletePart(p, part) ==
  /\ At(p, "delete", part)
  /\ LET c == frame[p].c IN
       /\ built' = [built EXCEPT ![c] = @ \ {part}]
       /\ live' = live \ {<<part, c>>}
       /\ IF part \in Kind THEN DeleteKind(part, c)
                           ELSE UNCHANGED <<ptr, rc, numbered, nodeless>>
       /\ weights' = IF part = "io" THEN [weights EXCEPT ![c] = {}] ELSE weights
  /\ Advance(p, part)
  /\ UNCHANGED <<given, flags, refused, cgroup, chain, attached, inside, astray>>

DeleteEnd(p) ==
  /\ AtEnd(p, "delete")
  /\ Return(p)
  /\ UNCHANGED <<objects, rc, members, attached, inside, astray>>

-----------------------------------------------------------------------------
Begin(p, c) ==
  \/ \E parts \in FlagSets : CreateBegin(p, c, parts)
  \/ EnterBegin(p, c) \/ LeaveBegin(p, c) \/ DeleteBegin(p, c)

Step(p) ==
  \/ \E part \in Part : CreatePart(p, part) \/ DeletePart(p, part)
  \/ \E k \in Kind : EnterKind(p, k) \/ LeaveKind(p, k)
  \/ EnterCgroup(p) \/ EnterIo(p) \/ LeaveCgroup(p) \/ LeaveIo(p)
  \/ CreateFail(p) \/ EnterFail(p)
  \/ CreateEnd(p) \/ EnterEnd(p) \/ LeaveEnd(p) \/ DeleteEnd(p)

Next == \E p \in Thread : Step(p) \/ \E c \in Container : Begin(p, c)

Spec == Init /\ [][Next]_vars

-----------------------------------------------------------------------------
(* Properties *)

\* Every variable keeps the type its C declaration gives it.
TypeOK ==
  /\ given \subseteq Container
  /\ flags \in [Container -> SUBSET Part] /\ built \in [Container -> SUBSET Part]
  /\ live \subseteq Part \X Container
  /\ rc \in [Kind -> [Namespace -> Int]]
  /\ numbered \in [Namespace -> SUBSET Thread]
  /\ nodeless \subseteq Thread /\ refused \subseteq Thread
  /\ ptr \in [Kind -> [Thread -> Namespace]]
  /\ cgroup \in [Thread -> Container \cup {None}]
  /\ chain \in [Container -> SUBSET Thread]
  /\ weights \in [Container -> SUBSET Thread]
  /\ attached \in [Container -> Thread \cup {None}]
  /\ frame \in [Thread -> [op : {"idle", "create", "enter", "leave", "delete"},
                           c : Container \cup {None}, t : Thread \cup {None},
                           todo : SUBSET Part, delete : BOOLEAN]]
  /\ inside \subseteq Thread \X Container /\ astray \subseteq Thread

Pointing(k, c) ==
  IF k = "pid" THEN numbered[c] ELSE {t \in Thread : ptr[k][t] = c}

\* A namespace is referenced by its owner and by its member threads, whatever
\* mixture of failed, nested and overlapping calls moved them.
RcExact ==
  \A k \in Kind \ {"ipc"} :
    /\ rc[k][Root] = RootRc[k] + Cardinality(Pointing(k, Root))
    /\ \A c \in Container : <<k, c>> \in live =>
         rc[k][c] = 1 + Cardinality(Pointing(k, c))

\* No part is released while its container still names it: a leaving thread
\* never takes the last reference.
OwnerKeepsParts ==
  \A c \in Container : \A part \in built[c] \ {"ipc"} : <<part, c>> \in live

\* Every allocated part belongs to a container the user can delete or a call is
\* working on: a failed create() gives everything back (container_abnormal01).
NothingLeaks ==
  \A part \in Part, c \in Container : <<part, c>> \in live =>
    /\ part \in built[c]
    /\ c \in given \/ \E p \in Thread : frame[p].c = c

\* No thread points at a deleted UTS, MNT or NET namespace, also when it is in
\* one although its enter() failed: their delete() looks at every thread.
NamespacesAlive ==
  \A k \in {"uts", "mnt", "net"}, t \in Thread :
    ptr[k][t] # Root => <<k, ptr[k][t]>> \in live

\* After leave() the thread is out of all parts of the container (the assertions
\* of container01/init.c:231), whichever of them its enter() reached, with one
\* exception: leave() sets the PID pointer although move_task() refused, and a
\* thread whose last move was refused may keep its vid and node in the namespace.
LeftForGood ==
  [][\A p \in Thread : AtEnd(p, "leave") /\ frame'[p] # frame[p] =>
       LET c == frame[p].c
           t == frame[p].t IN
         /\ \A k \in flags[c] \cap Kind : ptr'[k][t] # c
         /\ "pid" \in flags[c] /\ t \notin refused' => t \notin numbered'[c]
         /\ "cgroup" \in flags[c] => cgroup'[t] # c
         /\ t \notin weights'[c] /\ attached'[c] # t]_vars

\* As long as every enter() succeeds and comes from outside all containers, no
\* thread points at a deleted namespace or cgroup, the IPC namespace included,
\* whose delete() looks for no thread.
PointersAlive ==
  astray = {} => \A t \in Thread :
    /\ \A k \in Kind : ptr[k][t] # Root => <<k, ptr[k][t]>> \in live
    /\ cgroup[t] # None => <<"cgroup", cgroup[t]>> \in live

\* Between a successful enter() and leave() the container is attached to the
\* thread and the thread is in all its parts (container07/init.c:224), unless it
\* went to another container as well.
EnteredStays ==
  \A i \in inside :
    LET t == i[1]
        c == i[2] IN
      t \notin astray =>
      /\ attached[c] = t
      /\ \A k \in flags[c] \cap Kind : ptr[k][t] = c
      /\ "cgroup" \in flags[c] => cgroup[t] = c
=============================================================================
