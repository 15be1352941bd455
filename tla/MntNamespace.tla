---------------------------- MODULE MntNamespace ----------------------------
(***************************************************************************)
(* Mount namespaces: cpukit/score/src/mntContainer.c, the path evaluation  *)
(* that asks it where to start (sup_fs_eval_path.c), the references to     *)
(* file system instances (sup_fs_location.c), mount.c and unmount.c.       *)
(*                                                                         *)
(* A path is a sequence of names; all paths are absolute.  A file system   *)
(* instance is named by its target, the root file system by <<>>; each     *)
(* target is mounted at most once, since unmount() in a namespace leaves   *)
(* the mount point occupied.                                               *)
(*                                                                         *)
(* Abstractions.  Directories exist; permissions, symbolic links and other *)
(* failures of the walk are left out.  Evaluations overlap more than the   *)
(* instance locks allow.  References to the root file system, which is     *)
(* never unmounted, are not counted.  Counts of members are the business   *)
(* of UnifiedContainer: the creator's reference keeps move_task() from     *)
(* deleting.  The mount point of a destroyed file system keeps a dangling  *)
(* pointer; here a walk ends there, which only a stray unmount() reaches.  *)
(* The code that looks a mount up and increments its count holds no lock:  *)
(* a lost increment, and an entry freed between lookup and increment, are  *)
(* undefined behaviour that is not modelled.  Of failing calls, malloc()   *)
(* in mount() and in clones is left out.                                   *)
(***************************************************************************)
EXTENDS Integers, FiniteSets, SequencesExt

CONSTANTS
  Thread,
  Private,   \* threads with rtems_libio_set_private_env(), which stay in "/"
  Child,     \* addresses of the namespaces created at run time
  Root,      \* the root namespace
  Target,    \* where file systems may be mounted
  Path,      \* paths that are evaluated
  NoPath, Nowhere,     \* NULL and the null location
  MaxEvals,  \* bound: number of evaluations
  Calls      \* optional behaviours of the environment: see Allowed

RootFs == <<>>
Name == UNION {Range(p) : p \in Path \cup Target}

ASSUME PrivateAssumption == Private \subseteq Thread
ASSUME TargetAssumption == RootFs \notin Target /\ Root \notin Child
ASSUME BoundAssumption == MaxEvals \in Nat
ASSUME FiniteAssumption == IsFiniteSet(Thread) /\ IsFiniteSet(Child)
ASSUME PathAssumption ==
  /\ Path \cup Target \subseteq Seq(Name)
  /\ NoPath \notin Seq(Name) /\ Nowhere \notin Seq(Name)

\* "stray_unmount": unmount() of a file system the namespace does not list, or
\* one that another evaluation or a move of its thread overlaps with;
\* "move_inside": a thread is moved in the middle of an evaluation.
Allowed(call) == call \in Calls

Fs == Target \cup {RootFs}
Namespace == Child \cup {Root}

VARIABLES
  live,        \* allocated namespaces
  list,        \* mountList: the targets of its entries
  nulled,      \* entries that were cloned without mt_fs_root
  home,        \* the namespace whose list was given the original entry
  state,       \* absent, mounted, unmounted (marked so) or gone (destroyed)
  parent,      \* the file system that has the mount point
  ref,         \* reference_count of mt_fs_root
  deferred,    \* its deferred_released_count
  where,       \* thread->container->mntContainer
  pc,          \* where a thread is inside a path evaluation
  ev,          \* its evaluation
  evals,       \* evaluations so far
  currentPath, adjusted   \* current_eval_path, adjusted_eval_path

spaces == <<live, list, nulled, where>>
systems == <<home, state, parent, ref, deferred>>
statics == <<currentPath, adjusted>>
vars == <<spaces, systems, pc, ev, evals, statics>>

\* An evaluation: path is its argument; root and current the results of the two
\* get_container functions; rootloc and at the file systems of rootloc and
\* startloc, spot the place reached.  Two histories: clean says that no other thread
\* changed the static variables or the lists since it began, nor moved this one,
\* moved that another thread put it into another namespace.
NoEval == [op |-> "none", path |-> NoPath, root |-> Nowhere, current |-> Nowhere,
           rootloc |-> Nowhere, at |-> Nowhere, spot |-> NoPath, clean |-> FALSE,
           moved |-> FALSE]

Init ==
  /\ live = {Root}
  /\ list = [n \in Namespace |-> IF n = Root THEN <<RootFs>> ELSE <<>>]
  /\ nulled = {}
  /\ home = [f \in Target |-> Root]
  /\ state = [f \in Fs |-> IF f = RootFs THEN "mounted" ELSE "absent"]
  /\ parent = [f \in Target |-> Nowhere]
  /\ ref = [f \in Target |-> 0]
  /\ deferred = [f \in Target |-> 0]
  /\ where = [t \in Thread |-> Root]
  /\ pc = [t \in Thread |-> "out"]
  /\ ev = [t \in Thread |-> NoEval] /\ evals = 0
  /\ currentPath = NoPath /\ adjusted = NoPath

\* The evaluations of the other threads are no longer undisturbed.
Disturbed(t) ==
  [u \in Thread |-> IF u = t THEN ev[u] ELSE [ev[u] EXCEPT !.clean = FALSE]]

-----------------------------------------------------------------------------
(* References *)

Is(f, g) == IF f = g THEN 1 ELSE 0

Late == {f \in Target : deferred[f] > 0}

\* deferred_release(), which every obtain begins with.
Flushed == [count |-> [f \in Target |-> ref[f] - deferred[f]],
            pending |-> [f \in Target |-> 0]]

\* Mutant of Obtained: the mounted flag is not looked at.
ObtainedAnyway(f) == f

\* rtems_filesystem_global_location_obtain(): the null location for a file
\* system that is marked as unmounted.
Obtained(f) == IF f \in Fs /\ state[f] = "mounted" THEN f ELSE Nowhere

\* rtems_filesystem_is_ready_for_unmount(): one reference left and no location
\* inside, such as the mount point of another file system.
Ready(f, count, gone) ==
  /\ f \in Target /\ state[f] = "unmounted" /\ count[f] = 1
  /\ \A g \in Target : parent[g] = f => state[g] = "gone" \/ g \in gone

\* The file systems rtems_filesystem_do_unmount() destroys when those in S were
\* released: releasing the mount point may finish the one that has it.
Destroyed(S, count) ==
  LET first == {f \in S : Ready(f, count, {})}
  IN first \cup {f \in Target : /\ \E g \in first : parent[g] = f
                                /\ Ready(f, count, first)}

\* New counts, after the file systems in S were released.
Survivors(S, count) ==
  [f \in Fs |-> IF f \in Destroyed(S, count) THEN "gone" ELSE state[f]]
Settle(S, count, pending) ==
  /\ ref' = count /\ deferred' = pending
  /\ state' = Survivors(S, count)

\* The wait in unmount() ends with the transient event of do_unmount().
Woken == [t \in Thread |-> IF pc[t] = "wait" /\ state'[ev[t].at] = "gone"
                           THEN "out" ELSE pc[t]]

-----------------------------------------------------------------------------
(* Namespaces *)

Entries(n) == {list[n][i] : i \in DOMAIN list[n]}

\* is_mount_entry_valid(): a listed original is mounted and a clone has a copy
\* of the flag, so that only an entry without mt_fs_root is not valid.
Valid(n, f) == <<n, f>> \notin nulled
Usable(n) == {f \in Entries(n) : Valid(n, f)}

\* Mutant of Cloned: the clones share mt_fs_root without a reference of their own.
ClonedShares(p) == [f \in Target |-> 0]

\* References clone_mount_entry() obtains for the entries of namespace p.
Cloned(p) == [f \in Target |-> IF /\ f \in Entries(p) /\ Valid(p, f)
                                  /\ Obtained(f) = f THEN 1 ELSE 0]

\* rtems_mnt_container_create(), and with inheritance from p: an entry whose
\* original was unmounted is cloned without mt_fs_root.
NsCreate(n) ==
  /\ n \notin live
  /\ live' = live \cup {n}
  /\ list' = [list EXCEPT ![n] = <<>>]
  /\ UNCHANGED <<nulled, where, systems, pc, ev, statics, evals>>

NsInherit(n, p) ==
  /\ n \notin live /\ p \in live
  /\ live' = live \cup {n}
  /\ list' = [list EXCEPT ![n] = list[p]]
  /\ nulled' = nulled \cup
       {<<n, f>> : f \in {g \in Entries(p) : ~Valid(p, g) \/ Obtained(g) = Nowhere}}
  /\ IF \A f \in Entries(p) : ~Valid(p, f)
     THEN UNCHANGED <<ref, deferred, state, pc>>
     ELSE /\ Settle(Late, [f \in Target |-> Flushed.count[f] + Cloned(p)[f]],
                    Flushed.pending)
          /\ pc' = Woken
  /\ UNCHANGED <<where, home, parent, ev, statics, evals>>

\* Mutant of Redirected: the threads keep their pointer.
RedirectedNone(n) == where

\* switch_to_root() for every thread of a namespace.
Redirected(n) == [t \in Thread |-> IF where[t] = n THEN Root ELSE where[t]]

\* rtems_mnt_container_delete() of a namespace in which nothing is mounted by its
\* own threads (see the hazards): they fall back to the root namespace, and the
\* clones' references are released later.
NsDelete(n) ==
  /\ n \in live \ {Root}
  /\ \A f \in Entries(n) \ {RootFs} : home[f] # n \/ state[f] # "mounted"
  /\ live' = live \ {n}
  /\ where' = Redirected(n)
  /\ list' = [list EXCEPT ![n] = <<>>]
  /\ nulled' = {e \in nulled : e[1] # n}
  /\ deferred' = [f \in Target |->
       deferred[f] + IF f \in Entries(n) /\ Valid(n, f) THEN 1 ELSE 0]
  /\ ev' = [t \in Thread |-> IF where[t] = n THEN [ev[t] EXCEPT !.clean = FALSE]
                                             ELSE ev[t]]
  /\ UNCHANGED <<home, state, parent, ref, pc, statics, evals>>

\* The thread has to look its namespace up again before its evaluation is over.
Looks(t) == \/ pc[t] \in {"root", "current"}
            \/ pc[t] \in {"start", "walk"} /\ ev[t].op = "unmount"

\* rtems_mnt_container_move_task(), by the thread itself or, when it is inside an
\* evaluation, by another one that calls enter() or leave() for it.  After the
\* last lookup such a move is no other than one after the evaluation.
Move(t, n) ==
  /\ pc[t] = "out" \/ (Looks(t) /\ Allowed("move_inside"))
  /\ n \in live \ {where[t]}
  /\ where' = [where EXCEPT ![t] = n]
  /\ ev' = [ev EXCEPT ![t].clean = FALSE, ![t].moved = Looks(t)]
  /\ UNCHANGED <<live, list, nulled, systems, pc, statics, evals>>

-----------------------------------------------------------------------------
(* Where an evaluation starts *)

\* A target ends where the path ends or at a delimiter: "/" is a prefix of no
\* path but itself.
Matches(f, path) == IF f = RootFs THEN path = RootFs ELSE IsPrefix(f, path)

\* Mutant of FindBest: the last match wins.
FindBestLast(n, path) ==
  FoldLeft(LAMBDA b, f : IF Matches(f, path) /\ Valid(n, f)
                         THEN [fs |-> f, len |-> 1 + Len(f), invalid |-> FALSE]
                         ELSE b,
           [fs |-> Nowhere, len |-> 0, invalid |-> FALSE], list[n])

\* find_best_mount_for_path() over the entries of a list: the longest match that
\* is usable.  Another one counts only when nothing matched before it.
BestOf(entries, usable, path) ==
  FoldLeft(LAMBDA b, f :
             IF ~Matches(f, path) \/ 1 + Len(f) <= b.len THEN b
             ELSE IF f \in usable
             THEN [fs |-> f, len |-> 1 + Len(f), invalid |-> FALSE]
             ELSE IF b.len = 0 THEN [b EXCEPT !.len = 1 + Len(f), !.invalid = TRUE]
             ELSE b,
           [fs |-> Nowhere, len |-> 0, invalid |-> FALSE], entries)
FindBest(n, path) == BestOf(list[n], Usable(n), path)

\* Mutant of Fallback: without an entry for "/" the system's root is used.
FallbackGlobal(n) == RootFs

\* The entry for "/", the last resort of get_container_root_location().
Fallback(n) == IF RootFs \in Entries(n) /\ Valid(n, RootFs) THEN RootFs ELSE Nowhere

\* get_container_root_location() in namespace n: the location and the path left.
RootLocation(n) ==
  LET best == FindBest(n, currentPath)
      other == [fs |-> Fallback(n), rest |-> adjusted]
  IN IF currentPath = NoPath THEN other
     ELSE IF best.fs # Nowhere
     THEN [fs |-> best.fs,
           rest |-> SubSeq(currentPath, Len(best.fs) + 1, Len(currentPath))]
     ELSE IF best.invalid THEN [fs |-> Nowhere, rest |-> adjusted]
     ELSE other

\* get_container_current_location(): of a thread without an environment of its
\* own it is the root location, looked up again.
CurrentLocation(t) ==
  IF t \in Private THEN [fs |-> RootFs, rest |-> adjusted]
                   ELSE RootLocation(where[t])

\* The walk over the names of a path in file system f.  A mount point is crossed,
\* whatever namespace mounted there; its file system may be unmounted.
Walk(f, path) ==
  FoldLeft(LAMBDA w, name :
             LET spot == Append(w.spot, name) IN
               IF w.fs = Nowhere THEN w
               ELSE IF spot \in Target /\ parent[spot] = w.fs
               THEN [fs |-> Obtained(spot), spot |-> spot, left |-> w.fs]
               ELSE [w EXCEPT !.spot = spot],
           [fs |-> f, spot |-> f, left |-> Nowhere], path)

-----------------------------------------------------------------------------
(* rtems_filesystem_eval_path_start() and its variant with a parent *)

\* An evaluation begins; the variant with a parent does not announce its path.
EvalBegin(t, path, op) ==
  /\ pc[t] = "out" /\ evals < MaxEvals
  /\ evals' = evals + 1
  /\ pc' = [pc EXCEPT ![t] = "root"]
  /\ LET begun == [NoEval EXCEPT !.op = op, !.path = path,
                             !.clean = (op # "parent")] IN
       IF op = "parent"
       THEN /\ ev' = [ev EXCEPT ![t] = begun]
            /\ UNCHANGED statics
       ELSE /\ ev' = [Disturbed(t) EXCEPT ![t] = begun]
            /\ currentPath' = path /\ adjusted' = NoPath
  /\ UNCHANGED <<spaces, systems>>

\* The location's count is incremented, without a lock and for good.
EvalRoot(t) ==
  /\ pc[t] = "root"
  /\ LET loc == RootLocation(where[t]) IN
       /\ ev' = [Disturbed(t) EXCEPT ![t].root = loc.fs]
       /\ adjusted' = loc.rest
       /\ ref' = [f \in Target |-> ref[f] + Is(f, loc.fs)]
  /\ pc' = [pc EXCEPT ![t] = "current"]
  /\ UNCHANGED <<spaces, home, state, parent, deferred, currentPath, evals>>

EvalCurrent(t) ==
  /\ pc[t] = "current"
  /\ LET loc == CurrentLocation(t) IN
       /\ ev' = [Disturbed(t) EXCEPT ![t].current = loc.fs]
       /\ adjusted' = loc.rest
       /\ ref' = [f \in Target |-> ref[f] + Is(f, loc.fs)]
  /\ pc' = [pc EXCEPT ![t] = "start"]
  /\ UNCHANGED <<spaces, home, state, parent, deferred, currentPath, evals>>

\* The path that is walked.
Effective(t) ==
  IF ev[t].op # "parent" /\ adjusted # NoPath THEN adjusted ELSE ev[t].path

\* No location: rtems_filesystem_eval_path_start() reports ENOENT.
EvalNowhere(t) ==
  /\ pc[t] = "start" /\ ev[t].op # "parent"
  /\ Nowhere \in {ev[t].root, ev[t].current}
  /\ pc' = [pc EXCEPT ![t] = "walk"]
  /\ ev' = [ev EXCEPT ![t].root = Nowhere, ![t].current = Nowhere]
  /\ UNCHANGED <<spaces, systems, statics, evals>>

\* set_startloc() obtains root and start, then the path is walked.  The variant
\* with a parent starts in the system's root where the namespace has none.
EvalStart(t) ==
  /\ pc[t] = "start"
  /\ ev[t].op # "parent" => Nowhere \notin {ev[t].root, ev[t].current}
  /\ LET root == Obtained(IF ev[t].root = Nowhere THEN RootFs ELSE ev[t].root)
         w == IF root # Nowhere THEN Walk(root, Effective(t))
              ELSE [fs |-> Nowhere, spot |-> NoPath, left |-> Nowhere]
     IN /\ ev' = [ev EXCEPT ![t].rootloc = root, ![t].at = w.fs, ![t].spot = w.spot,
                            ![t].root = Nowhere, ![t].current = Nowhere]
        /\ Settle(Late,
                  [f \in Target |-> Flushed.count[f] + Is(f, root) + Is(f, w.fs)
                                                     + Is(f, w.left)],
                  [f \in Target |-> Flushed.pending[f] + Is(f, w.left)])
  /\ pc' = [Woken EXCEPT ![t] = "walk"]
  /\ UNCHANGED <<spaces, home, parent, statics, evals>>

-----------------------------------------------------------------------------
(* mount() and unmount() *)

\* mount(): the target is looked up from the system's root, and the entry goes
\* into the list of the thread's namespace.  The evaluation's cleanup clears the
\* static variables.
Mount(t, f) ==
  /\ pc[t] = "out" /\ state[f] = "absent"
  /\ LET w == Walk(RootFs, f)
         n == where[t]
         count == [g \in Target |-> Flushed.count[g] + Is(g, w.left)]
     IN /\ w.fs # Nowhere
        /\ parent' = [parent EXCEPT ![f] = w.fs]
        /\ home' = [home EXCEPT ![f] = n]
        /\ list' = [list EXCEPT ![n] = Append(@, f)]
        /\ ref' = [count EXCEPT ![f] = 1]
        /\ deferred' = [g \in Target |-> Flushed.pending[g] + Is(g, w.left)]
        /\ state' = [Survivors(Late, count) EXCEPT ![f] = "mounted"]
  /\ pc' = Woken
  /\ ev' = Disturbed(t)
  /\ currentPath' = NoPath /\ adjusted' = NoPath
  /\ UNCHANGED <<live, nulled, where, evals>>

\* A mount() whose target is a mount point (EBUSY) or leads into an unmounted file
\* system: the evaluation of the target and its cleanup have happened all the same.
MountFails(t, f) ==
  /\ pc[t] = "out" /\ evals < MaxEvals
  /\ evals' = evals + 1
  /\ LET w == Walk(RootFs, f) IN
       /\ w.fs \in {Nowhere, f}
       /\ Settle(Late, [g \in Target |-> Flushed.count[g] + Is(g, w.left)],
                 [g \in Target |-> Flushed.pending[g] + Is(g, w.left)])
  /\ pc' = Woken
  /\ ev' = Disturbed(t)
  /\ currentPath' = NoPath /\ adjusted' = NoPath
  /\ UNCHANGED <<spaces, home, parent>>

\* contains_root_or_current_directory() looks both locations up again.
Busy(t) == \/ ev[t].at = CurrentLocation(t).fs
           \/ ev[t].at = RootFs /\ RootLocation(where[t]).fs = RootFs
LocatedRef(t) ==
  [f \in Target |-> ref[f] + Is(f, RootLocation(where[t]).fs)
                           + Is(f, CurrentLocation(t).fs)]

AtInstanceRoot(t) == ev[t].at # Nowhere /\ ev[t].spot = ev[t].at
Regular(t) == ev[t].clean /\ ev[t].at \in Entries(where[t])

\* A list after rtems_chain_extract_unprotected() of the entry for f.
Without(entries, f) ==
  FoldLeft(LAMBDA s, g : IF g = f THEN s ELSE Append(s, g), <<>>, entries)

\* unmount() marks the file system and takes the original entry off the list it
\* is on, which may be another namespace's.  The mount point is not told.
Unmount(t) ==
  /\ pc[t] = "walk" /\ ev[t].op = "unmount"
  /\ AtInstanceRoot(t) /\ ~Busy(t)
  /\ Regular(t) \/ Allowed("stray_unmount")
  /\ LET f == ev[t].at
         count == LocatedRef(t)
     IN /\ f \in Target
        /\ list' = [list EXCEPT ![home[f]] = Without(@, f)]
        /\ state' = [state EXCEPT ![f] = "unmounted"]
        /\ ref' = IF count[f] >= 2 THEN [count EXCEPT ![f] = @ - 1] ELSE count
  /\ pc' = [pc EXCEPT ![t] = "marked"]
  /\ ev' = Disturbed(t)
  /\ adjusted' = RootLocation(where[t]).rest
  /\ UNCHANGED <<live, nulled, where, home, parent, deferred, currentPath, evals>>

\* unmount() reports EBUSY, or EACCES for a path that names no file system.
UnmountRefused(t) ==
  /\ pc[t] = "walk" /\ ev[t].op = "unmount"
  /\ \/ /\ AtInstanceRoot(t) /\ Busy(t)
        /\ ref' = LocatedRef(t)
        /\ ev' = Disturbed(t)
        /\ adjusted' = RootLocation(where[t]).rest
     \/ /\ ~AtInstanceRoot(t)
        /\ UNCHANGED <<ref, ev, adjusted>>
  /\ pc' = [pc EXCEPT ![t] = "refused"]
  /\ UNCHANGED <<spaces, home, state, parent, deferred, currentPath, evals>>

\* rtems_filesystem_eval_path_cleanup(), and the wait at the end of unmount().
EvalEnd(t) ==
  /\ pc[t] \in {"marked", "refused"} \/ (pc[t] = "walk" /\ ev[t].op # "unmount")
  /\ Settle({ev[t].at, ev[t].rootloc},
            [f \in Target |-> ref[f] - Is(f, ev[t].at) - Is(f, ev[t].rootloc)],
            deferred)
  /\ pc' = [Woken EXCEPT ![t] =
       IF pc[t] = "marked" /\ state'[ev[t].at] # "gone" THEN "wait" ELSE "out"]
  /\ ev' = [Disturbed(t) EXCEPT ![t] =
       IF pc[t] = "marked" THEN [NoEval EXCEPT !.at = ev[t].at] ELSE NoEval]
  /\ currentPath' = NoPath /\ adjusted' = NoPath
  /\ UNCHANGED <<spaces, home, parent, evals>>

Next ==
  \/ \E n \in Child : NsCreate(n) \/ NsDelete(n)
  \/ \E n \in Child, p \in Namespace : NsInherit(n, p)
  \/ \E t \in Thread, n \in Namespace : Move(t, n)
  \/ \E t \in Thread, f \in Target : Mount(t, f) \/ MountFails(t, f)
  \/ \E t \in Thread, path \in Path, op \in {"open", "parent", "unmount"} :
       EvalBegin(t, path, op)
  \/ \E t \in Thread : \/ EvalRoot(t) \/ EvalCurrent(t)
                       \/ EvalNowhere(t) \/ EvalStart(t) \/ EvalEnd(t)
                       \/ Unmount(t) \/ UnmountRefused(t)

Spec == Init /\ [][Next]_vars

-----------------------------------------------------------------------------
(* Properties *)

Place == Fs \cup {Nowhere}

Stage == {"out", "root", "current", "start", "walk", "refused", "marked", "wait"}
Eval == [op : {"none", "open", "parent", "unmount"}, path : Path \cup {NoPath},
         root : Place, current : Place, rootloc : Place, at : Place,
         spot : Seq(Name) \cup {NoPath}, clean : BOOLEAN, moved : BOOLEAN]

\* Every variable keeps the type its C declaration and use give it: counts never
\* become negative, and a thread waits for an existing file system.
TypeOK ==
  /\ Root \in live /\ live \subseteq Namespace
  /\ list \in [Namespace -> Seq(Fs)]
  /\ nulled \subseteq live \X Target
  /\ home \in [Target -> Namespace] /\ parent \in [Target -> Place]
  /\ state \in [Fs -> {"absent", "mounted", "unmounted", "gone"}]
  /\ ref \in [Target -> Nat] /\ deferred \in [Target -> Nat]
  /\ where \in [Thread -> live]
  /\ pc \in [Thread -> Stage] /\ ev \in [Thread -> Eval]
  /\ \A t \in Thread : pc[t] \in {"marked", "wait"} => ev[t].at \in Target
  /\ {currentPath, adjusted} \subseteq Seq(Name) \cup {NoPath}

\* Who relies on a file system: clones of its entry, root and start locations.
Clones(f) == {n \in live : f \in Entries(n) /\ home[f] # n /\ Valid(n, f)}
Inside(t) == pc[t] \in {"walk", "refused", "marked"}
Users(f) ==
  (Clones(f) \X {"clone"})
  \cup ({t \in Thread : Inside(t) /\ ev[t].rootloc = f} \X {"root"})
  \cup ({t \in Thread : Inside(t) /\ ev[t].at = f} \X {"start"})

\* The reference count of a file system covers the mount itself, every clone of
\* its entry and every evaluation inside it, whatever was released late or is
\* still to be released: it is never destroyed under a user.
RefCovers ==
  \A f \in Target : state[f] \in {"mounted", "unmounted"} =>
    ref[f] - deferred[f] >= 1 + Cardinality(Users(f))

\* A file system that was marked as unmounted gets no new user, neither by an
\* evaluation that was under way nor by a namespace that inherits its entry.
NoNewUsers ==
  [][\A f \in Target : state[f] = "unmounted" => Users(f)' \subseteq Users(f)]_vars

Deepest(n, path) ==
  LET fit == {f \in Entries(n) : Matches(f, path)}
  IN IF fit # {} THEN CHOOSE f \in fit : \A g \in fit : Len(g) <= Len(f)
     ELSE IF RootFs \in Entries(n) THEN RootFs ELSE Nowhere

\* An evaluation that no other one disturbed, in a namespace without entries that
\* lost their file system, starts in the deepest mount of its own list and arrives
\* at the place its path names, although path and rest pass through static
\* variables.
OwnSelection ==
  \A t \in Thread :
    /\ pc[t] = "walk" /\ ev[t].clean /\ ev[t].op = "open"
    /\ \A f \in Entries(where[t]) : Valid(where[t], f) /\ state[f] = "mounted"
    => /\ ev[t].rootloc = Deepest(where[t], ev[t].path)
       /\ ev[t].at # Nowhere => ev[t].spot = ev[t].path

\* Evaluations of a thread that is not moved meanwhile stay below the mounts of its
\* namespace, even when they disturb each other: one without an entry for "/" does
\* not reach what others mounted elsewhere ("期望: 不可访问",
\* test_access_open.c:141).  With an inherited "/" everything is below it and the
\* property says nothing; nor does it speak of the variant with a parent, which
\* starts in the system's root where the namespace has none.
Confined ==
  \A t \in Thread :
    /\ pc[t] = "walk" /\ ev[t].op # "parent" /\ ev[t].at # Nowhere
    /\ ~ev[t].moved
    => \E f \in Entries(where[t]) \cup {g \in Target : state[g] = "unmounted"} :
         IsPrefix(f, ev[t].at)

\* "The file system instance will be destroyed when the last reference to it
\* vanishes" (libio.h:305), which is what unmount() waits for.
DestroyedWhenUnused ==
  \A f \in Target :
    state[f] = "unmounted" =>
      \/ Users(f) # {} \/ deferred[f] > 0
      \/ \E g \in Target : parent[g] = f /\ state[g] # "gone"
=============================================================================
