----------------------- MODULE UnifiedContainerProofs -----------------------
(***************************************************************************)
(* Theorems about the unified container, for every set of threads and      *)
(* containers and all values of the flags.                                 *)
(***************************************************************************)
EXTENDS UnifiedContainer, FiniteSetTheorems, TLAPS

-----------------------------------------------------------------------------
(* The inductive invariant, part by part *)

\* A thread in a call works on a container, and moves a thread.
Shape ==
  \A p \in Thread :
    /\ frame[p].op = "idle" <=> frame[p].c = None
    /\ frame[p].op \in {"enter", "leave"} => frame[p].t \in Thread
    /\ frame[p].delete => frame[p].op = "leave"

\* The call of p makes or takes apart the container.
Owns(p) == frame[p].op \in {"create", "delete"} \/ frame[p].delete

\* A container that is given to the user has all its parts and no call makes or
\* takes it apart; otherwise one call does, and knows what is built, or it is
\* empty.
Ownership ==
  /\ \A c \in given : built[c] = flags[c]
  /\ \A p \in Thread : Owns(p) =>
       /\ frame[p].c \notin given
       /\ \A q \in Thread : Owns(q) /\ frame[q].c = frame[p].c => q = p
       /\ frame[p].op = "create" =>
            /\ built[frame[p].c] \subseteq flags[frame[p].c]
            /\ frame[p].todo = flags[frame[p].c] \ built[frame[p].c]
       /\ frame[p].op = "delete" => frame[p].todo = built[frame[p].c]
       /\ frame[p].op = "leave" => built[frame[p].c] = flags[frame[p].c]
  /\ \A c \in Container \ given :
       (\A p \in Thread : Owns(p) => frame[p].c # c) => built[c] = {}

\* Only what is built is allocated.
LiveIsBuilt == \A part \in Part, c \in Container : <<part, c>> \in live => part \in built[c]

AllocInv == TypeOK /\ Shape /\ Ownership /\ LiveIsBuilt

-----------------------------------------------------------------------------
(* Frames *)

FrameRecord ==
  [op : {"idle", "create", "enter", "leave", "delete"},
   c : Container \cup {None}, t : Thread \cup {None},
   todo : SUBSET Part, delete : BOOLEAN]

\* The frame of a thread in a well-typed state.
LEMMA FrameTyped ==
  ASSUME TypeOK, NEW p \in Thread
  PROVE  frame[p] \in FrameRecord
BY DEF TypeOK, FrameRecord

\* A frame is a record of the right type.
LEMMA FrameMade ==
  ASSUME NEW op \in {"create", "enter", "leave", "delete"}, NEW c \in Container,
         NEW t \in Thread \cup {None}, NEW todo \in SUBSET Part
  PROVE  /\ Frame(op, c, t, todo) \in FrameRecord
         /\ Frame(op, c, t, todo).op = op
         /\ Frame(op, c, t, todo).c = c
         /\ Frame(op, c, t, todo).t = t
         /\ Frame(op, c, t, todo).todo = todo
         /\ Frame(op, c, t, todo).delete = FALSE
BY DEF Frame, FrameRecord

\* So is the frame of a thread outside of all calls.
LEMMA IdleMade ==
  /\ Idle \in FrameRecord
  /\ Idle.op = "idle" /\ Idle.c = None /\ Idle.t = None /\ Idle.todo = {}
  /\ Idle.delete = FALSE
BY DEF Idle, FrameRecord

\* Replacing the frame of one thread leaves the others alone.
LEMMA FrameReplaced ==
  ASSUME TypeOK, NEW p \in Thread, NEW f \in FrameRecord,
         frame' = [frame EXCEPT ![p] = f]
  PROVE  /\ frame' \in [Thread -> FrameRecord]
         /\ frame'[p] = f
         /\ \A q \in Thread \ {p} : frame'[q] = frame[q]
BY DEF TypeOK, FrameRecord

\* A frame with other parts left to visit.
LEMMA TodoReplaced ==
  ASSUME NEW f \in FrameRecord, NEW S \in SUBSET Part,
         NEW g, g = [f EXCEPT !.todo = S]
  PROVE  /\ g \in FrameRecord /\ g.todo = S
         /\ g.op = f.op /\ g.c = f.c /\ g.t = f.t /\ g.delete = f.delete
BY DEF FrameRecord

\* A call that goes on to its next part.
LEMMA Advanced ==
  ASSUME TypeOK, NEW p \in Thread, NEW part \in Part, Advance(p, part)
  PROVE  /\ frame' \in [Thread -> FrameRecord]
         /\ frame'[p].op = frame[p].op /\ frame'[p].c = frame[p].c
         /\ frame'[p].t = frame[p].t /\ frame'[p].delete = frame[p].delete
         /\ frame'[p].todo = frame[p].todo \ {part}
         /\ \A q \in Thread \ {p} : frame'[q] = frame[q]
<1>1. frame \in [Thread -> FrameRecord] /\ frame[p] \in FrameRecord
  BY FrameTyped DEF TypeOK, FrameRecord
<1>2. frame' = [frame EXCEPT ![p] = [frame[p] EXCEPT !.todo = frame[p].todo \ {part}]]
  BY <1>1 DEF Advance
<1>3. frame[p].todo \ {part} \in SUBSET Part
  BY <1>1 DEF FrameRecord
<1>4. /\ frame' \in [Thread -> FrameRecord]
      /\ frame'[p] = [frame[p] EXCEPT !.todo = frame[p].todo \ {part}]
      /\ \A q \in Thread \ {p} : frame'[q] = frame[q]
  BY <1>1, <1>2, <1>3, TodoReplaced, FrameReplaced
<1> QED BY <1>1, <1>3, <1>4, TodoReplaced

\* A call that returns.
LEMMA Returned ==
  ASSUME TypeOK, NEW p \in Thread, Return(p)
  PROVE  /\ frame' \in [Thread -> FrameRecord]
         /\ frame'[p] = Idle
         /\ \A q \in Thread \ {p} : frame'[q] = frame[q]
BY FrameReplaced, IdleMade DEF Return

-----------------------------------------------------------------------------
(* Reference counts *)

\* Taking a reference from one namespace to another.
LEMMA Transferred ==
  ASSUME NEW f \in [Kind -> [Namespace -> Int]], NEW k \in Kind,
         NEW a \in Namespace, NEW b \in Namespace, a # b,
         NEW g, g = [f EXCEPT ![k][a] = @ - 1, ![k][b] = @ + 1]
  PROVE  /\ g \in [Kind -> [Namespace -> Int]]
         /\ g[k][a] = f[k][a] - 1 /\ g[k][b] = f[k][b] + 1
         /\ \A j \in Kind, n \in Namespace :
              j # k \/ n \notin {a, b} => g[j][n] = f[j][n]
<1>1. f[k] \in [Namespace -> Int]
  OBVIOUS
<1>2. g = [f EXCEPT ![k] = [f[k] EXCEPT ![a] = @ - 1, ![b] = @ + 1]]
  OBVIOUS
<1>3. g[k] = [f[k] EXCEPT ![a] = @ - 1, ![b] = @ + 1]
  BY <1>2
<1>4. g[k] \in [Namespace -> Int]
  BY <1>1, <1>3
<1>5. g[k][a] = f[k][a] - 1 /\ g[k][b] = f[k][b] + 1
  BY <1>1, <1>3
<1>6. \A n \in Namespace \ {a, b} : g[k][n] = f[k][n]
  BY <1>1, <1>3
<1>7. \A j \in Kind \ {k} : g[j] = f[j]
  BY <1>2
<1>8. g \in [Kind -> [Namespace -> Int]]
  BY <1>2, <1>3, <1>4
<1> QED BY <1>5, <1>6, <1>7, <1>8

\* Giving the references of a deleted namespace to root.
LEMMA Released ==
  ASSUME NEW f \in [Kind -> [Namespace -> Int]], NEW k \in Kind,
         NEW a \in Namespace, NEW b \in Namespace, a # b, NEW n \in Int,
         NEW g, g = [f EXCEPT ![k][a] = @ + n, ![k][b] = 0]
  PROVE  /\ g \in [Kind -> [Namespace -> Int]]
         /\ g[k][a] = f[k][a] + n /\ g[k][b] = 0
         /\ \A j \in Kind, m \in Namespace :
              j # k \/ m \notin {a, b} => g[j][m] = f[j][m]
<1>1. f[k] \in [Namespace -> Int]
  OBVIOUS
<1>2. g = [f EXCEPT ![k] = [f[k] EXCEPT ![a] = @ + n, ![b] = 0]]
  OBVIOUS
<1>3. g[k] = [f[k] EXCEPT ![a] = @ + n, ![b] = 0]
  BY <1>2
<1>4. g[k] \in [Namespace -> Int]
  BY <1>1, <1>3
<1>5. g[k][a] = f[k][a] + n /\ g[k][b] = 0
  BY <1>1, <1>3
<1>6. \A m \in Namespace \ {a, b} : g[k][m] = f[k][m]
  BY <1>1, <1>3
<1>7. \A j \in Kind \ {k} : g[j] = f[j]
  BY <1>2
<1>8. g \in [Kind -> [Namespace -> Int]]
  BY <1>2, <1>3, <1>4
<1> QED BY <1>5, <1>6, <1>7, <1>8

\* Every set of threads has a cardinality.
LEMMA ThreadSets ==
  ASSUME NEW S \in SUBSET Thread
  PROVE  IsFiniteSet(S) /\ Cardinality(S) \in Nat
BY ThreadAssumption, FS_Subset, FS_CardinalityType
-----------------------------------------------------------------------------
(* Namespaces *)

\* What moving a thread changes: its own pointer, and at most a reference, a list
\* node and an object.
LEMMA MoveKindStep ==
  ASSUME TypeOK, NEW k \in Kind, NEW t \in Thread, NEW dst \in Namespace,
         MoveKind(k, t, ptr[k][t], dst)
  PROVE  /\ ptr' \in [Kind -> [Thread -> Namespace]]
         /\ numbered' \in [Namespace -> SUBSET Thread]
         /\ nodeless' \subseteq Thread /\ refused' \subseteq Thread
         /\ rc' \in [Kind -> [Namespace -> Int]]
         /\ live' \subseteq live
         /\ ptr'[k][t] = dst
         /\ \A j \in Kind, u \in Thread : j # k \/ u # t => ptr'[j][u] = ptr[j][u]
<1> DEFINE src == ptr[k][t]
<1>1. src \in Namespace /\ "pid" \in Kind
  BY DEF TypeOK, Kind
<1>2. CASE src = dst
  BY <1>1, <1>2 DEF MoveKind, TypeOK, pids
<1>3. CASE src # dst
  <2>1. ptr' = [ptr EXCEPT ![k][t] = dst]
    BY <1>3 DEF MoveKind, MovePid, Move
  <2>2. /\ ptr' \in [Kind -> [Thread -> Namespace]]
        /\ ptr'[k][t] = dst
        /\ \A j \in Kind, u \in Thread : j # k \/ u # t => ptr'[j][u] = ptr[j][u]
    BY <2>1 DEF TypeOK
  <2>3. live' \subseteq live
    BY <1>3 DEF MoveKind, MovePid, Move
  <2>4. numbered' \in [Namespace -> SUBSET Thread]
    BY <1>1, <1>3 DEF MoveKind, MovePid, Move, TypeOK, pids
  <2>8. nodeless' \subseteq Thread /\ refused' \subseteq Thread
    BY <1>3 DEF MoveKind, MovePid, Move, TypeOK, pids
  <2>5. rc' = rc \/ rc' = [rc EXCEPT ![k][src] = @ - 1, ![k][dst] = @ + 1]
    BY <1>3 DEF MoveKind, MovePid, Move
  <2>6. rc \in [Kind -> [Namespace -> Int]]
    BY DEF TypeOK
  <2> HIDE DEF src
  <2>7. rc' \in [Kind -> [Namespace -> Int]]
    BY <1>1, <1>3, <2>5, <2>6, Transferred
  <2> QED BY <2>2, <2>3, <2>4, <2>7, <2>8
<1> QED BY <1>2, <1>3

\* Only threads are redirected when a namespace is deleted.
LEMMA RedirectedType ==
  ASSUME TypeOK, NEW k \in Kind, NEW c \in Container
  PROVE  Redirected(k, c) \in SUBSET Thread
BY DEF TypeOK, Redirected, Namespace

\* Only they take a reference of root.
LEMMA TakenType ==
  ASSUME TypeOK, NEW k \in Kind, NEW c \in Container, NEW taken \in Taken(k, c)
  PROVE  /\ taken \in SUBSET Thread /\ taken \subseteq Redirected(k, c)
         /\ k # "pid" => taken = Redirected(k, c)
         /\ Cardinality(taken) \in Int
<1>1. /\ taken \subseteq Redirected(k, c)
      /\ k # "pid" => taken = Redirected(k, c)
  BY DEF Taken, Redirected
<1>2. taken \in SUBSET Thread
  BY <1>1, RedirectedType
<1>3. Cardinality(taken) \in Int
  BY <1>2, ThreadSets
<1> QED BY <1>1, <1>2, <1>3

\* What deleting a namespace does to the lists and the references of root.
Takes(k, c, taken) ==
  /\ rc'[k][Root] = rc[k][Root] + Cardinality(taken)
  /\ k # "pid" => numbered' = numbered
  /\ k = "pid" => /\ numbered'[Root] = numbered[Root] \cup taken /\ numbered'[c] = {}
                  /\ \A n \in Namespace \ {Root, c} : numbered'[n] = numbered[n]

\* What deleting a namespace changes: the pointers and references of the threads
\* it redirects, and its own count.
LEMMA DeleteKindStep ==
  ASSUME TypeOK, NEW k \in Kind, NEW c \in Container, DeleteKind(k, c)
  PROVE  /\ ptr' \in [Kind -> [Thread -> Namespace]]
         /\ numbered' \in [Namespace -> SUBSET Thread] /\ nodeless' \subseteq Thread
         /\ rc' \in [Kind -> [Namespace -> Int]]
         /\ \E taken \in Taken(k, c) : Takes(k, c, taken)
         /\ \A j \in Kind, n \in Namespace :
              j # k \/ n \notin {Root, c} => rc'[j][n] = rc[j][n]
         /\ \A u \in Thread :
              ptr'[k][u] = IF u \in Redirected(k, c) /\ ptr[k][u] = c
                           THEN Root ELSE ptr[k][u]
         /\ \A j \in Kind \ {k} : ptr'[j] = ptr[j]
<1>1. c \in Namespace /\ Root \in Namespace /\ Root # c
  BY NameAssumption DEF Namespace
<1>2. /\ ptr' \in [Kind -> [Thread -> Namespace]]
      /\ \A u \in Thread :
           ptr'[k][u] = IF u \in Redirected(k, c) /\ ptr[k][u] = c
                        THEN Root ELSE ptr[k][u]
      /\ \A j \in Kind \ {k} : ptr'[j] = ptr[j]
  <2>1. ptr' = [ptr EXCEPT ![k] = [u \in Thread |->
                  IF u \in Redirected(k, c) /\ ptr[k][u] = c THEN Root ELSE ptr[k][u]]]
    BY DEF DeleteKind, TypeOK
  <2> QED BY <1>1, <2>1 DEF TypeOK
<1>3. PICK taken \in Taken(k, c) :
        /\ rc' = [rc EXCEPT ![k][Root] = @ + Cardinality(taken), ![k][c] = 0]
        /\ k = "pid" =>
             /\ numbered' = [numbered EXCEPT ![Root] = @ \cup taken, ![c] = {}]
             /\ nodeless' \subseteq nodeless \cup taken
        /\ k # "pid" => UNCHANGED <<numbered, nodeless>>
  BY DEF DeleteKind
<1>4. taken \in SUBSET Thread /\ Cardinality(taken) \in Int
  BY TakenType
<1>6. /\ rc \in [Kind -> [Namespace -> Int]] /\ numbered \in [Namespace -> SUBSET Thread]
      /\ nodeless \subseteq Thread
  BY DEF TypeOK
<1>5. numbered' \in [Namespace -> SUBSET Thread] /\ nodeless' \subseteq Thread
  <2>1. CASE k = "pid"
    <3>1. numbered' = [numbered EXCEPT ![Root] = @ \cup taken, ![c] = {}]
      BY <1>3, <2>1
    <3>2. numbered' \in [Namespace -> SUBSET Thread]
      BY <1>4, <1>6, <3>1
    <3> QED BY <1>3, <1>4, <1>6, <2>1, <3>2
  <2>2. CASE k # "pid"
    BY <1>3, <1>6, <2>2
  <2> QED BY <2>1, <2>2
<1>7. /\ rc' \in [Kind -> [Namespace -> Int]]
      /\ rc'[k][Root] = rc[k][Root] + Cardinality(taken)
      /\ \A j \in Kind, n \in Namespace :
           j # k \/ n \notin {Root, c} => rc'[j][n] = rc[j][n]
  BY <1>1, <1>3, <1>4, <1>6, Released
<1>8. Takes(k, c, taken)
  BY <1>1, <1>3, <1>6, <1>7 DEF Takes
<1> QED BY <1>2, <1>5, <1>7, <1>8
-----------------------------------------------------------------------------
(* Types and allocation, whether calls share containers or not *)

\* A thread in a call works on a container.
LEMMA AtWork ==
  ASSUME TypeOK, Shape, NEW p \in Thread, frame[p].op # "idle"
  PROVE  /\ frame[p].c \in Container /\ frame[p].c \in Namespace
         /\ frame[p].todo \in SUBSET Part
         /\ frame[p].op \in {"enter", "leave"} => frame[p].t \in Thread
<1>1. frame[p] \in FrameRecord
  BY FrameTyped
<1> QED BY <1>1 DEF Shape, FrameRecord, Namespace

\* A step that neither builds nor releases anything, and that no owning call
\* takes except to go on, keeps the ownership.
LEMMA OwnershipKept ==
  ASSUME TypeOK, Ownership, LiveIsBuilt,
         UNCHANGED <<given, flags, built>>, live' \subseteq live,
         \A q \in Thread :
           /\ Owns(q)' <=> Owns(q)
           /\ Owns(q) => /\ frame'[q].op = frame[q].op /\ frame'[q].c = frame[q].c
                         /\ frame[q].op # "leave" => frame'[q].todo = frame[q].todo
  PROVE  Ownership' /\ LiveIsBuilt'
<1>1. LiveIsBuilt'
  BY DEF LiveIsBuilt
<1>2. \A c \in given' : built'[c] = flags'[c]
  BY DEF Ownership
<1>3. ASSUME NEW q \in Thread, Owns(q)'
      PROVE  /\ frame'[q].c \notin given'
             /\ \A r \in Thread : Owns(r)' /\ frame'[r].c = frame'[q].c => r = q
             /\ frame'[q].op = "create" =>
                  /\ built'[frame'[q].c] \subseteq flags'[frame'[q].c]
                  /\ frame'[q].todo = flags'[frame'[q].c] \ built'[frame'[q].c]
             /\ frame'[q].op = "delete" => frame'[q].todo = built'[frame'[q].c]
             /\ frame'[q].op = "leave" => built'[frame'[q].c] = flags'[frame'[q].c]
  <2>1. Owns(q) /\ frame'[q].op = frame[q].op /\ frame'[q].c = frame[q].c
    BY <1>3
  <2>2. frame[q].op # "leave" => frame'[q].todo = frame[q].todo
    BY <2>1
  <2>3. \A r \in Thread : Owns(r)' /\ frame'[r].c = frame'[q].c => r = q
    BY <2>1 DEF Ownership
  <2> QED BY <2>1, <2>2, <2>3 DEF Ownership
<1>4. ASSUME NEW c \in Container \ given',
             \A q \in Thread : Owns(q)' => frame'[q].c # c
      PROVE  built'[c] = {}
  BY <1>4 DEF Ownership
<1> QED BY <1>1, <1>2, <1>3, <1>4 DEF Ownership

\* The part of the invariant that does not depend on who else is calling.
LEMMA AllocFrom ==
  ASSUME AllocInv, TypeOK', Shape',
         UNCHANGED <<given, flags, built>>, live' \subseteq live,
         \A q \in Thread :
           /\ Owns(q)' <=> Owns(q)
           /\ Owns(q) => /\ frame'[q].op = frame[q].op /\ frame'[q].c = frame[q].c
                         /\ frame[q].op # "leave" => frame'[q].todo = frame[q].todo
  PROVE  AllocInv'
BY OwnershipKept DEF AllocInv

\* A step of an enter() or leave() call that goes on to its next part.
LEMMA MoveStepAlloc ==
  ASSUME AllocInv, NEW p \in Thread, NEW part \in Part, Advance(p, part),
         frame[p].op \in {"enter", "leave"}, TypeOK',
         UNCHANGED <<given, flags, built>>, live' \subseteq live
  PROVE  AllocInv'
<1>1. TypeOK /\ Shape
  BY DEF AllocInv
<1>2. /\ frame'[p].op = frame[p].op /\ frame'[p].c = frame[p].c
      /\ frame'[p].t = frame[p].t /\ frame'[p].delete = frame[p].delete
      /\ \A q \in Thread \ {p} : frame'[q] = frame[q]
  BY <1>1, Advanced
<1>3. Shape'
  BY <1>1, <1>2 DEF Shape
<1>4. \A q \in Thread :
        /\ Owns(q)' <=> Owns(q)
        /\ Owns(q) => /\ frame'[q].op = frame[q].op /\ frame'[q].c = frame[q].c
                      /\ frame[q].op # "leave" => frame'[q].todo = frame[q].todo
  BY <1>1, <1>2 DEF Owns, Shape
<1> QED BY <1>3, <1>4, AllocFrom

\* An enter() or leave() that begins or returns.
LEMMA MoveCallAlloc ==
  ASSUME AllocInv, NEW p \in Thread, NEW f \in FrameRecord,
         frame' = [frame EXCEPT ![p] = f], ~Owns(p), TypeOK',
         \/ f = Idle
         \/ /\ f.op \in {"enter", "leave"} /\ f.c \in Container
            /\ f.t \in Thread /\ ~f.delete,
         UNCHANGED <<given, flags, built, live>>
  PROVE  AllocInv'
<1>1. TypeOK /\ Shape
  BY DEF AllocInv
<1>2. frame'[p] = f /\ \A q \in Thread \ {p} : frame'[q] = frame[q]
  BY <1>1, FrameReplaced
<1>3. Shape'
  BY <1>1, <1>2, IdleMade, NameAssumption DEF Shape
<1>4. ~Owns(p)'
  BY <1>2, IdleMade DEF Owns
<1>5. \A q \in Thread :
        /\ Owns(q)' <=> Owns(q)
        /\ Owns(q) => /\ frame'[q].op = frame[q].op /\ frame'[q].c = frame[q].c
                      /\ frame[q].op # "leave" => frame'[q].todo = frame[q].todo
  BY <1>2, <1>4 DEF Owns
<1> QED BY <1>3, <1>5, AllocFrom
\* enter() and leave() move a thread between namespaces.
LEMMA KindAlloc ==
  ASSUME AllocInv, NEW p \in Thread, NEW k \in Kind, EnterKind(p, k) \/ LeaveKind(p, k)
  PROVE  AllocInv'
<1>1. TypeOK /\ Shape /\ k \in Part
  BY DEF AllocInv, Part
<1>2. frame[p].op \in {"enter", "leave"} /\ Advance(p, k)
  BY DEF EnterKind, LeaveKind, At
<1>3. frame[p].c \in Namespace /\ frame[p].t \in Thread
  BY <1>1, <1>2, AtWork
<1>4. PICK t \in Thread, dst \in Namespace : MoveKind(k, t, ptr[k][t], dst)
  <2>1. CASE EnterKind(p, k)
    BY <1>3, <2>1 DEF EnterKind
  <2>2. CASE LeaveKind(p, k)
    <3>1. ptr[k][frame[p].t] \in Namespace /\ Root \in Namespace
      BY <1>1, <1>3 DEF TypeOK, Namespace
    <3> QED BY <1>3, <2>2, <3>1 DEF LeaveKind
  <2> QED BY <2>1, <2>2
<1>5. /\ ptr' \in [Kind -> [Thread -> Namespace]]
      /\ numbered' \in [Namespace -> SUBSET Thread]
      /\ nodeless' \subseteq Thread /\ refused' \subseteq Thread
      /\ rc' \in [Kind -> [Namespace -> Int]]
      /\ live' \subseteq live
  BY <1>1, <1>4, MoveKindStep
<1>6. UNCHANGED <<given, flags, built, cgroup, chain, weights, attached, inside, astray>>
  BY DEF EnterKind, LeaveKind
<1>7. TypeOK'
  BY <1>1, <1>2, <1>5, <1>6, Advanced DEF TypeOK, FrameRecord
<1> QED BY <1>1, <1>2, <1>5, <1>6, <1>7, MoveStepAlloc

\* enter() and leave() put a thread into the cgroup and the IO cgroup and take it
\* out.
LEMMA GroupAlloc ==
  ASSUME AllocInv, NEW p \in Thread,
         EnterCgroup(p) \/ EnterIo(p) \/ LeaveCgroup(p) \/ LeaveIo(p)
  PROVE  AllocInv'
<1>1. TypeOK /\ Shape /\ "cgroup" \in Part /\ "io" \in Part
  BY DEF AllocInv, Part
<1>2. PICK part \in Part : Advance(p, part)
  BY <1>1 DEF EnterCgroup, EnterIo, LeaveCgroup, LeaveIo
<1>3. frame[p].op \in {"enter", "leave"}
  BY DEF EnterCgroup, EnterIo, LeaveCgroup, LeaveIo, At
<1>4. frame[p].c \in Container /\ frame[p].t \in Thread
  BY <1>1, <1>3, AtWork
<1>5. UNCHANGED <<given, flags, built, live, rc, numbered,
                  nodeless, refused, ptr, attached, inside, astray>>
  BY DEF EnterCgroup, EnterIo, LeaveCgroup, LeaveIo, objects, pids
<1>6. cgroup' \in [Thread -> Container \cup {None}]
  <2>1. cgroup \in [Thread -> Container \cup {None}]
    BY <1>1 DEF TypeOK
  <2>2. \/ cgroup' = cgroup \/ cgroup' = [cgroup EXCEPT ![p] = frame[p].c]
        \/ cgroup' = [cgroup EXCEPT ![frame[p].t] = None]
    BY DEF EnterCgroup, EnterIo, LeaveCgroup, LeaveIo
  <2> QED BY <1>4, <2>1, <2>2
<1>7. chain' \in [Container -> SUBSET Thread]
  BY <1>1, <1>4 DEF EnterCgroup, EnterIo, LeaveCgroup, LeaveIo, TypeOK
<1>8. weights' \in [Container -> SUBSET Thread]
  BY <1>1, <1>4 DEF EnterCgroup, EnterIo, LeaveCgroup, LeaveIo, TypeOK
<1>9. TypeOK'
  BY <1>1, <1>2, <1>5, <1>6, <1>7, <1>8, Advanced DEF TypeOK, FrameRecord
<1> QED BY <1>2, <1>3, <1>5, <1>9, MoveStepAlloc

\* enter() and leave() begin.
LEMMA MoveBeginAlloc ==
  ASSUME AllocInv, NEW p \in Thread, NEW c \in Container,
         EnterBegin(p, c) \/ LeaveBegin(p, c)
  PROVE  AllocInv'
<1>1. TypeOK /\ Shape /\ frame[p].op = "idle"
  BY DEF AllocInv, EnterBegin, LeaveBegin, MayCall
<1>2. flags[c] \in SUBSET Part
  BY <1>1 DEF TypeOK
<1>3. PICK op \in {"enter", "leave"} : frame' = [frame EXCEPT ![p] = Frame(op, c, p, flags[c])]
  BY DEF EnterBegin, LeaveBegin
<1> DEFINE f == Frame(op, c, p, flags[c])
<1>4. f \in FrameRecord /\ f.op = op /\ f.c = c /\ f.t = p /\ f.delete = FALSE
  BY <1>2 DEF Frame, FrameRecord
<1> HIDE DEF f
<1>5. frame' = [frame EXCEPT ![p] = f]
  BY <1>3 DEF f
<1>6. frame' \in [Thread -> FrameRecord]
  BY <1>1, <1>4, <1>5, FrameReplaced
<1>7. /\ UNCHANGED <<given, flags, built, live, rc, numbered,
                     nodeless, refused, ptr, cgroup, chain,
                     weights, attached>>
      /\ inside' \subseteq inside /\ astray' \subseteq Thread
  BY <1>1 DEF EnterBegin, LeaveBegin, objects, members, pids, TypeOK
<1>8. TypeOK'
  BY <1>1, <1>6, <1>7 DEF TypeOK, FrameRecord
<1>9. ~Owns(p)
  BY <1>1 DEF Owns, Shape
<1> QED BY <1>4, <1>5, <1>7, <1>8, <1>9, MoveCallAlloc

\* enter() fails or succeeds.
LEMMA EnterReturnAlloc ==
  ASSUME AllocInv, NEW p \in Thread, EnterFail(p) \/ EnterEnd(p)
  PROVE  AllocInv'
<1>1. TypeOK /\ Shape /\ frame[p].op = "enter" /\ Return(p)
  BY DEF AllocInv, EnterFail, EnterEnd, At, AtEnd
<1>2. frame[p].c \in Container /\ ~Owns(p)
  BY <1>1, AtWork DEF Owns, Shape
<1>3. UNCHANGED <<given, flags, built, live, rc, numbered,
                  nodeless, refused, ptr, cgroup, chain, weights>>
  BY DEF EnterFail, EnterEnd, objects, members, pids
<1>4. attached' \in [Container -> Thread \cup {None}]
  BY <1>1, <1>2 DEF EnterFail, EnterEnd, TypeOK
<1>5. inside' \subseteq Thread \X Container /\ astray' \subseteq Thread
  BY <1>1, <1>2 DEF EnterFail, EnterEnd, TypeOK
<1>6. frame' \in [Thread -> FrameRecord]
  BY <1>1, Returned
<1>7. TypeOK'
  BY <1>1, <1>3, <1>4, <1>5, <1>6 DEF TypeOK, FrameRecord
<1>8. frame' = [frame EXCEPT ![p] = Idle] /\ UNCHANGED <<given, flags, built, live>>
  BY <1>1, <1>3 DEF Return
<1> QED BY <1>2, <1>7, <1>8, IdleMade, MoveCallAlloc
\* What the owner of a container knows of it.
Knows(p) ==
  /\ frame[p].c \notin given
  /\ frame[p].op = "create" =>
       /\ built[frame[p].c] \subseteq flags[frame[p].c]
       /\ frame[p].todo = flags[frame[p].c] \ built[frame[p].c]
  /\ frame[p].op = "delete" => frame[p].todo = built[frame[p].c]
  /\ frame[p].op = "leave" => built[frame[p].c] = flags[frame[p].c]

\* A step of p on the container c, which no other call owns, keeps the ownership
\* of all other containers.
LEMMA OwnershipOfOne ==
  ASSUME TypeOK, Shape, Ownership, TypeOK', NEW p \in Thread, NEW c \in Container,
         \A q \in Thread \ {p} : frame'[q] = frame[q],
         \A d \in Container \ {c} : /\ d \in given' <=> d \in given
                                    /\ built'[d] = built[d] /\ flags'[d] = flags[d],
         \A q \in Thread \ {p} : Owns(q) => frame[q].c # c,
         Owns(p) => frame[p].c = c,
         Owns(p)' => frame'[p].c = c /\ Knows(p)',
         c \in given' => built'[c] = flags'[c],
         c \notin given' /\ ~Owns(p)' => built'[c] = {}
  PROVE  Ownership'
<1>1. \A q \in Thread \ {p} : (Owns(q)' <=> Owns(q)) /\ frame'[q].c = frame[q].c
  BY DEF Owns
<1>2. ASSUME NEW q \in Thread \ {p}, Owns(q)
      PROVE  frame[q].c \in Container \ {c} /\ Knows(q)'
  <2>1. frame[q].op # "idle"
    BY <1>2 DEF Owns, Shape
  <2>2. frame[q].c \in Container \ {c}
    BY <1>2, <2>1, AtWork
  <2>3. frame'[q] = frame[q]
    OBVIOUS
  <2> QED BY <1>2, <2>2, <2>3 DEF Knows, Ownership
<1>3. given' \subseteq Container /\ given \subseteq Container
  BY DEF TypeOK
<1>4. \A d \in given' : built'[d] = flags'[d]
  BY <1>3 DEF Ownership
<1>5. ASSUME NEW q \in Thread, Owns(q)'
      PROVE  Knows(q)' /\ \A r \in Thread : Owns(r)' /\ frame'[r].c = frame'[q].c => r = q
  <2>1. CASE q = p
    BY <1>1, <1>2, <1>5, <2>1
  <2>2. CASE q # p
    <3>1. Owns(q) /\ Knows(q)' /\ frame'[q].c = frame[q].c /\ frame[q].c # c
      BY <1>1, <1>2, <1>5, <2>2
    <3>2. \A r \in Thread \ {p} : Owns(r)' /\ frame'[r].c = frame'[q].c => r = q
      BY <1>1, <2>2, <3>1 DEF Ownership
    <3> QED BY <3>1, <3>2
  <2> QED BY <2>1, <2>2
<1>6. ASSUME NEW d \in Container \ given',
             \A q \in Thread : Owns(q)' => frame'[q].c # d
      PROVE  built'[d] = {}
  <2>1. CASE d = c
    <3>1. CASE Owns(p)'
      BY <1>6, <2>1, <3>1
    <3>2. CASE ~Owns(p)'
      BY <1>6, <2>1, <3>2
    <3> QED BY <3>1, <3>2
  <2>2. CASE d # c
    <3>1. \A q \in Thread : Owns(q) => frame[q].c # d
      BY <1>1, <1>6, <2>2
    <3> QED BY <1>6, <2>2, <3>1 DEF Ownership
  <2> QED BY <2>1, <2>2
<1>7. \A q \in Thread : Owns(q)' =>
        /\ Knows(q)'
        /\ \A r \in Thread : Owns(r)' /\ frame'[r].c = frame'[q].c => r = q
  BY <1>5
<1>8. \A d \in Container \ given' :
        (\A q \in Thread : Owns(q)' => frame'[q].c # d) => built'[d] = {}
  BY <1>6
<1> QED BY <1>4, <1>7, <1>8 DEF Ownership, Knows

\* The call that makes or takes apart a container is the only one to own it.
LEMMA OwnsAlone ==
  ASSUME AllocInv, NEW p \in Thread, Owns(p)
  PROVE  /\ Knows(p) /\ frame[p].c \in Container
         /\ \A q \in Thread \ {p} : Owns(q) => frame[q].c # frame[p].c
<1>1. frame[p].op # "idle"
  BY DEF Owns, AllocInv, Shape
<1> QED BY <1>1, AtWork DEF AllocInv, Ownership, Knows
\* create() begins.
LEMMA CreateBeginAlloc ==
  ASSUME AllocInv, NEW p \in Thread, NEW c \in Container, NEW parts \in FlagSets,
         CreateBegin(p, c, parts)
  PROVE  AllocInv'
<1> DEFINE f == Frame("create", c, None, parts)
<1>1. TypeOK /\ Shape /\ Ownership /\ LiveIsBuilt
  BY DEF AllocInv
<1>2. parts \in SUBSET Part
  BY FlagAssumption
<1>3. /\ f \in FrameRecord /\ f.op = "create" /\ f.c = c /\ f.todo = parts
      /\ f.delete = FALSE
  BY <1>2 DEF Frame, FrameRecord
<1>4. /\ frame' = [frame EXCEPT ![p] = f]
      /\ flags' = [flags EXCEPT ![c] = parts] /\ built' = [built EXCEPT ![c] = {}]
      /\ attached' = [attached EXCEPT ![c] = None]
      /\ c \notin given /\ (\A q \in Thread : frame[q].c # c) /\ frame[p].op = "idle"
      /\ UNCHANGED <<given, live, rc, numbered,
                     nodeless, refused, ptr, cgroup, chain, weights, inside, astray>>
  BY DEF CreateBegin, MayCall, members, pids
<1> HIDE DEF f
<1>5. /\ frame' \in [Thread -> FrameRecord] /\ frame'[p] = f
      /\ \A q \in Thread \ {p} : frame'[q] = frame[q]
  BY <1>1, <1>3, <1>4, FrameReplaced
<1>6. TypeOK'
  BY <1>1, <1>2, <1>4, <1>5 DEF TypeOK, FrameRecord
<1>7. Shape'
  BY <1>1, <1>3, <1>5, NameAssumption DEF Shape
<1>8. flags'[c] = parts /\ built'[c] = {}
  BY <1>1, <1>4 DEF TypeOK
<1>9. \A d \in Container \ {c} : built'[d] = built[d] /\ flags'[d] = flags[d]
  BY <1>1, <1>4 DEF TypeOK
<1>10. ~Owns(p)
  BY <1>1, <1>4 DEF Owns, Shape
<1>11. Owns(p)' /\ frame'[p].c = c /\ Knows(p)'
  BY <1>3, <1>4, <1>5, <1>8 DEF Owns, Knows
<1>12. Ownership'
  BY <1>1, <1>4, <1>5, <1>6, <1>9, <1>10, <1>11, OwnershipOfOne
<1>13. \A part \in Part : <<part, c>> \notin live
  BY <1>1, <1>4 DEF LiveIsBuilt, Ownership
<1>14. LiveIsBuilt'
  BY <1>1, <1>4, <1>9, <1>13 DEF LiveIsBuilt
<1> QED BY <1>6, <1>7, <1>12, <1>14 DEF AllocInv

\* create() makes one part.
LEMMA CreatePartAlloc ==
  ASSUME AllocInv, NEW p \in Thread, NEW part \in Part, CreatePart(p, part)
  PROVE  AllocInv'
<1> DEFINE c == frame[p].c
<1>1. TypeOK /\ Shape /\ Ownership /\ LiveIsBuilt
  BY DEF AllocInv
<1>2. frame[p].op = "create" /\ part \in frame[p].todo /\ Advance(p, part)
  BY DEF CreatePart, At
<1>3. Owns(p)
  BY <1>2 DEF Owns
<1>4. /\ Knows(p) /\ c \in Container
      /\ \A q \in Thread \ {p} : Owns(q) => frame[q].c # c
  BY <1>3, OwnsAlone
<1>5. /\ frame' \in [Thread -> FrameRecord]
      /\ frame'[p].op = "create" /\ frame'[p].c = c
      /\ frame'[p].t = frame[p].t /\ frame'[p].delete = frame[p].delete
      /\ frame'[p].todo = frame[p].todo \ {part}
      /\ \A q \in Thread \ {p} : frame'[q] = frame[q]
  BY <1>1, <1>2, Advanced
<1>6. /\ built' = [built EXCEPT ![c] = @ \cup {part}]
      /\ live' = live \cup {<<part, c>>}
      /\ rc' = IF part \in Kind THEN [rc EXCEPT ![part][c] = 1] ELSE rc
      /\ numbered' = IF part = "pid" THEN [numbered EXCEPT ![c] = {}] ELSE numbered
      /\ chain' = IF part = "cgroup" THEN [chain EXCEPT ![c] = {}] ELSE chain
      /\ weights' = IF part = "io" THEN [weights EXCEPT ![c] = {}] ELSE weights
      /\ UNCHANGED <<given, flags,
                     nodeless, refused, ptr, cgroup, attached, inside, astray>>
  BY DEF CreatePart
<1> HIDE DEF c
<1>7. c \in Namespace
  BY <1>4 DEF Namespace
<1>8. rc' \in [Kind -> [Namespace -> Int]]
  BY <1>1, <1>6, <1>7 DEF TypeOK
<1>9. numbered' \in [Namespace -> SUBSET Thread]
  BY <1>1, <1>6, <1>7 DEF TypeOK
<1>10. chain' \in [Container -> SUBSET Thread] /\ weights' \in [Container -> SUBSET Thread]
  BY <1>1, <1>4, <1>6 DEF TypeOK
<1>11. live' \subseteq Part \X Container /\ built' \in [Container -> SUBSET Part]
  BY <1>1, <1>4, <1>6 DEF TypeOK
<1>12. TypeOK'
  BY <1>1, <1>5, <1>6, <1>8, <1>9, <1>10, <1>11 DEF TypeOK, FrameRecord
<1>13. Shape'
  BY <1>1, <1>2, <1>5 DEF Shape, c
<1>14. built'[c] = built[c] \cup {part} /\ \A d \in Container \ {c} : built'[d] = built[d]
  BY <1>1, <1>4, <1>6 DEF TypeOK
<1>15. part \in flags[c] /\ frame[p].todo = flags[c] \ built[c] /\ c \notin given
         /\ built[c] \subseteq flags[c]
  BY <1>2, <1>4 DEF Knows, c
<1>16. Owns(p)' /\ Knows(p)'
  BY <1>5, <1>6, <1>14, <1>15 DEF Owns, Knows
<1>17. Ownership'
  BY <1>1, <1>3, <1>4, <1>5, <1>6, <1>12, <1>14, <1>15, <1>16, OwnershipOfOne DEF c
<1>18. LiveIsBuilt'
  BY <1>1, <1>6, <1>14 DEF LiveIsBuilt
<1> QED BY <1>12, <1>13, <1>17, <1>18 DEF AllocInv

\* create() fails or succeeds, leave() returns to delete(), delete() returns.
LEMMA OwnerReturnAlloc ==
  ASSUME AllocInv, NEW p \in Thread,
         \/ CreateFail(p) \/ CreateEnd(p) \/ DeleteEnd(p)
         \/ LeaveEnd(p) /\ frame[p].delete
  PROVE  AllocInv'
<1> DEFINE c == frame[p].c
           f == Frame("delete", c, None, built[c])
<1>1. TypeOK /\ Shape /\ Ownership /\ LiveIsBuilt
  BY DEF AllocInv
<1>2. Owns(p)
  BY DEF CreateFail, CreateEnd, DeleteEnd, AtEnd, Owns
<1>3. /\ Knows(p) /\ c \in Container
      /\ \A q \in Thread \ {p} : Owns(q) => frame[q].c # c
  BY <1>2, OwnsAlone
<1>4. UNCHANGED <<flags, built, live, rc, numbered,
                  nodeless, refused, ptr, cgroup, chain, weights,
                  inside, astray>>
  BY DEF CreateFail, CreateEnd, DeleteEnd, LeaveEnd, objects, members, pids
<1>5. built[c] \in SUBSET Part
  BY <1>1, <1>3 DEF TypeOK
<1>6. /\ f \in FrameRecord /\ f.op = "delete" /\ f.c = c /\ f.todo = built[c]
      /\ f.delete = FALSE
  BY <1>3, <1>5 DEF Frame, FrameRecord
<1>7. c \notin given
  BY <1>3 DEF Knows
<1>8. attached' \in [Container -> Thread \cup {None}]
  <2>1. attached' = attached \/ attached' = [attached EXCEPT ![c] = None]
    <3>1. CASE LeaveEnd(p)
      BY <3>1 DEF LeaveEnd
    <3>2. CASE ~LeaveEnd(p)
      BY <3>2 DEF CreateFail, CreateEnd, DeleteEnd
    <3> QED BY <3>1, <3>2
  <2> HIDE DEF c
  <2> QED BY <1>1, <1>3, <2>1 DEF TypeOK
<1>9. LiveIsBuilt'
  BY <1>1, <1>4 DEF LiveIsBuilt
<1>10. CASE CreateFail(p) \/ (LeaveEnd(p) /\ frame[p].delete)
  <2>1. frame' = [frame EXCEPT ![p] = f] /\ given' = given
    BY <1>10 DEF CreateFail, LeaveEnd, objects
  <2> HIDE DEF f, c
  <2>2. /\ frame' \in [Thread -> FrameRecord] /\ frame'[p] = f
        /\ \A q \in Thread \ {p} : frame'[q] = frame[q]
    BY <1>1, <1>6, <2>1, FrameReplaced
  <2>3. TypeOK'
    BY <1>1, <1>4, <1>8, <2>1, <2>2 DEF TypeOK, FrameRecord
  <2>4. Shape'
    BY <1>1, <1>3, <1>6, <2>2, NameAssumption DEF Shape
  <2>5. Owns(p)' /\ frame'[p].c = c /\ Knows(p)'
    BY <1>4, <1>6, <1>7, <2>1, <2>2 DEF Owns, Knows
  <2>6. Ownership'
    BY <1>1, <1>3, <1>4, <1>7, <2>1, <2>2, <2>3, <2>5, OwnershipOfOne DEF c
  <2> QED BY <1>9, <2>3, <2>4, <2>6 DEF AllocInv
<1>11. CASE CreateEnd(p) \/ DeleteEnd(p)
  <2>1. Return(p) /\ (given' = IF frame[p].op = "create" THEN given \cup {c} ELSE given)
    BY <1>11 DEF CreateEnd, DeleteEnd, AtEnd, objects
  <2>2. frame[p].todo = {} /\ frame[p].op \in {"create", "delete"}
    BY <1>11 DEF CreateEnd, DeleteEnd, AtEnd
  <2> HIDE DEF f, c
  <2>3. /\ frame' \in [Thread -> FrameRecord] /\ frame'[p] = Idle
        /\ \A q \in Thread \ {p} : frame'[q] = frame[q]
    BY <1>1, <2>1, Returned
  <2>4. TypeOK'
    BY <1>1, <1>3, <1>4, <1>8, <2>1, <2>3 DEF TypeOK, FrameRecord
  <2>5. Shape'
    BY <1>1, <2>3, IdleMade DEF Shape
  <2>6. ~Owns(p)'
    BY <2>3, IdleMade DEF Owns
  <2>7. frame[p].op = "create" => built[c] = flags[c]
    BY <1>3, <2>2 DEF Knows, c
  <2>8. frame[p].op = "delete" => built[c] = {}
    BY <1>3, <2>2 DEF Knows, c
  <2>9. Ownership'
    BY <1>1, <1>3, <1>4, <1>7, <2>1, <2>2, <2>3, <2>4, <2>6, <2>7, <2>8, OwnershipOfOne DEF c
  <2> QED BY <1>9, <2>4, <2>5, <2>9 DEF AllocInv
<1> QED BY <1>10, <1>11
\* leave() returns to its caller.
LEMMA LeaveReturnAlloc ==
  ASSUME AllocInv, NEW p \in Thread, LeaveEnd(p), ~frame[p].delete
  PROVE  AllocInv'
<1>1. TypeOK /\ Shape /\ frame[p].op = "leave" /\ Return(p)
  BY DEF AllocInv, LeaveEnd, AtEnd
<1>2. frame[p].c \in Container /\ ~Owns(p)
  BY <1>1, AtWork DEF Owns
<1>3. UNCHANGED <<given, flags, built, live, rc, numbered,
                  nodeless, refused, ptr, cgroup, chain, weights,
                  inside, astray>>
  BY DEF LeaveEnd, objects, members, pids
<1>4. attached' \in [Container -> Thread \cup {None}]
  BY <1>1, <1>2 DEF LeaveEnd, TypeOK
<1>5. frame' \in [Thread -> FrameRecord]
  BY <1>1, Returned
<1>6. TypeOK'
  BY <1>1, <1>3, <1>4, <1>5 DEF TypeOK, FrameRecord
<1>7. frame' = [frame EXCEPT ![p] = Idle] /\ UNCHANGED <<given, flags, built, live>>
  BY <1>1, <1>3 DEF Return
<1> QED BY <1>2, <1>6, <1>7, IdleMade, MoveCallAlloc

\* delete() begins.
LEMMA DeleteBeginFrame ==
  ASSUME TypeOK, NEW p \in Thread, NEW c \in Container, DeleteBegin(p, c)
  PROVE  \E f \in FrameRecord :
           /\ frame' = [frame EXCEPT ![p] = f] /\ f.c = c
           /\ \/ /\ attached[c] \in Thread
                 /\ f.op = "leave" /\ f.t = attached[c] /\ f.todo = flags[c] /\ f.delete
              \/ /\ attached[c] = None
                 /\ f.op = "delete" /\ f.todo = built[c] /\ ~f.delete
<1>1. flags[c] \in SUBSET Part /\ built[c] \in SUBSET Part
        /\ attached[c] \in Thread \cup {None}
  BY DEF TypeOK
<1>2. CASE attached[c] # None
  <2> DEFINE f == [Frame("leave", c, attached[c], flags[c]) EXCEPT !.delete = TRUE]
  <2>1. /\ f \in FrameRecord /\ f.op = "leave" /\ f.c = c /\ f.t = attached[c]
        /\ f.todo = flags[c] /\ f.delete = TRUE
    <3>1. attached[c] \in Thread
      BY <1>1, <1>2
    <3> QED BY <1>1, <3>1 DEF Frame, FrameRecord
  <2>2. frame' = [frame EXCEPT ![p] = f]
    BY <1>2 DEF DeleteBegin
  <2> HIDE DEF f
  <2> QED BY <1>1, <1>2, <2>1, <2>2
<1>3. CASE attached[c] = None
  <2> DEFINE f == Frame("delete", c, None, built[c])
  <2>1. /\ f \in FrameRecord /\ f.op = "delete" /\ f.c = c
        /\ f.todo = built[c] /\ f.delete = FALSE
    BY <1>1 DEF Frame, FrameRecord
  <2>2. frame' = [frame EXCEPT ![p] = f]
    BY <1>3 DEF DeleteBegin
  <2> HIDE DEF f
  <2> QED BY <1>3, <2>1, <2>2
<1> QED BY <1>2, <1>3

\* delete() takes the container from the user.
LEMMA DeleteBeginAlloc ==
  ASSUME AllocInv, NEW p \in Thread, NEW c \in Container, DeleteBegin(p, c)
  PROVE  AllocInv'
<1>1. TypeOK /\ Shape /\ Ownership /\ LiveIsBuilt
  BY DEF AllocInv
<1>2. /\ c \in given /\ frame[p].op = "idle" /\ given' = given \ {c}
      /\ inside' \subseteq inside
      /\ UNCHANGED <<flags, built, live, rc, numbered,
                     nodeless, refused, ptr, cgroup, chain, weights,
                     attached, astray>>
  BY DEF DeleteBegin, MayCall, members, pids
<1>3. PICK f \in FrameRecord :
           /\ frame' = [frame EXCEPT ![p] = f] /\ f.c = c
           /\ \/ /\ attached[c] \in Thread
                 /\ f.op = "leave" /\ f.t = attached[c] /\ f.todo = flags[c] /\ f.delete
              \/ /\ attached[c] = None
                 /\ f.op = "delete" /\ f.todo = built[c] /\ ~f.delete
  BY <1>1, DeleteBeginFrame
<1>4. /\ frame' \in [Thread -> FrameRecord] /\ frame'[p] = f
      /\ \A q \in Thread \ {p} : frame'[q] = frame[q]
  BY <1>1, <1>3, FrameReplaced
<1>5. TypeOK'
  BY <1>1, <1>2, <1>4 DEF TypeOK, FrameRecord
<1>6. Shape'
  BY <1>1, <1>3, <1>4, NameAssumption DEF Shape
<1>7. ~Owns(p) /\ built[c] = flags[c]
  BY <1>1, <1>2 DEF Owns, Shape, Ownership
<1>8. Owns(p)' /\ frame'[p].c = c /\ Knows(p)'
  BY <1>2, <1>3, <1>4, <1>7 DEF Owns, Knows
<1>9. \A q \in Thread \ {p} : Owns(q) => frame[q].c # c
  BY <1>1, <1>2 DEF Ownership
<1>10. Ownership'
  BY <1>1, <1>2, <1>4, <1>5, <1>7, <1>8, <1>9, OwnershipOfOne
<1>11. LiveIsBuilt'
  BY <1>1, <1>2 DEF LiveIsBuilt
<1> QED BY <1>5, <1>6, <1>10, <1>11 DEF AllocInv

\* delete() releases one part.
LEMMA DeletePartAlloc ==
  ASSUME AllocInv, NEW p \in Thread, NEW part \in Part, DeletePart(p, part)
  PROVE  AllocInv'
<1> DEFINE c == frame[p].c
<1>1. TypeOK /\ Shape /\ Ownership /\ LiveIsBuilt
  BY DEF AllocInv
<1>2. frame[p].op = "delete" /\ part \in frame[p].todo /\ Advance(p, part)
  BY DEF DeletePart, At
<1>3. Owns(p)
  BY <1>2 DEF Owns
<1>4. /\ Knows(p) /\ c \in Container
      /\ \A q \in Thread \ {p} : Owns(q) => frame[q].c # c
  BY <1>3, OwnsAlone
<1>5. /\ frame' \in [Thread -> FrameRecord]
      /\ frame'[p].op = "delete" /\ frame'[p].c = c
      /\ frame'[p].t = frame[p].t /\ frame'[p].delete = frame[p].delete
      /\ frame'[p].todo = frame[p].todo \ {part}
      /\ \A q \in Thread \ {p} : frame'[q] = frame[q]
  BY <1>1, <1>2, Advanced
<1>6. /\ built' = [built EXCEPT ![c] = @ \ {part}]
      /\ live' = live \ {<<part, c>>}
      /\ IF part \in Kind THEN DeleteKind(part, c)
                          ELSE UNCHANGED <<ptr, rc, numbered, nodeless>>
      /\ weights' = IF part = "io" THEN [weights EXCEPT ![c] = {}] ELSE weights
      /\ UNCHANGED <<given, flags, refused, cgroup, chain, attached, inside, astray>>
  BY DEF DeletePart
<1> HIDE DEF c
<1>7. /\ ptr' \in [Kind -> [Thread -> Namespace]]
      /\ numbered' \in [Namespace -> SUBSET Thread] /\ nodeless' \subseteq Thread
      /\ rc' \in [Kind -> [Namespace -> Int]]
  <2>1. CASE part \in Kind
    BY <1>1, <1>4, <1>6, <2>1, DeleteKindStep
  <2>2. CASE part \notin Kind
    BY <1>1, <1>6, <2>2 DEF TypeOK
  <2> QED BY <2>1, <2>2
<1>8. weights' \in [Container -> SUBSET Thread]
  BY <1>1, <1>4, <1>6 DEF TypeOK
<1>9. live' \subseteq Part \X Container /\ built' \in [Container -> SUBSET Part]
  BY <1>1, <1>4, <1>6 DEF TypeOK
<1>10. TypeOK'
  BY <1>1, <1>5, <1>6, <1>7, <1>8, <1>9 DEF TypeOK, FrameRecord
<1>11. Shape'
  BY <1>1, <1>2, <1>5 DEF Shape, c
<1>12. built'[c] = built[c] \ {part} /\ \A d \in Container \ {c} : built'[d] = built[d]
  BY <1>1, <1>4, <1>6 DEF TypeOK
<1>13. frame[p].todo = built[c] /\ c \notin given
  BY <1>2, <1>4 DEF Knows, c
<1>14. Owns(p)' /\ Knows(p)'
  BY <1>5, <1>6, <1>12, <1>13 DEF Owns, Knows
<1>15. Ownership'
  BY <1>1, <1>3, <1>4, <1>5, <1>6, <1>10, <1>12, <1>13, <1>14, OwnershipOfOne DEF c
<1>16. LiveIsBuilt'
  BY <1>1, <1>6, <1>12 DEF LiveIsBuilt
<1> QED BY <1>10, <1>11, <1>15, <1>16 DEF AllocInv

\* The initial state satisfies the allocation invariant.
LEMMA InitAlloc == Init => AllocInv
<1> SUFFICES ASSUME Init PROVE AllocInv
  OBVIOUS
<1>1. Cardinality(Thread) \in Nat
  BY ThreadSets
<1>2. \A k \in Kind : RootRc[k] \in Nat
  BY DEF RootRc, Kind
<1>3. rc \in [Kind -> [Namespace -> Int]]
  BY <1>1, <1>2 DEF Init
<1>4. frame \in [Thread -> FrameRecord] /\ \A p \in Thread : frame[p] = Idle
  BY IdleMade DEF Init
<1>5. TypeOK
  BY <1>3, <1>4 DEF Init, TypeOK, FrameRecord, Namespace
<1>6. Shape /\ Ownership /\ LiveIsBuilt
  BY <1>4, IdleMade DEF Init, Shape, Ownership, LiveIsBuilt, Owns
<1> QED BY <1>5, <1>6 DEF AllocInv

\* The allocation invariant is inductive.
LEMMA AllocKept == AllocInv /\ [Next]_vars => AllocInv'
<1> SUFFICES ASSUME AllocInv, [Next]_vars PROVE AllocInv'
  OBVIOUS
<1>1. CASE UNCHANGED vars
  BY <1>1 DEF AllocInv, TypeOK, Shape, Ownership, LiveIsBuilt, Owns, vars, objects, members, pids
<1>2. ASSUME NEW p \in Thread, Step(p) PROVE AllocInv'
  BY <1>2, KindAlloc, GroupAlloc, EnterReturnAlloc, CreatePartAlloc, OwnerReturnAlloc,
     LeaveReturnAlloc, DeletePartAlloc DEF Step
<1>3. ASSUME NEW p \in Thread, NEW c \in Container, Begin(p, c) PROVE AllocInv'
  BY <1>3, MoveBeginAlloc, CreateBeginAlloc, DeleteBeginAlloc DEF Begin
<1> QED BY <1>1, <1>2, <1>3 DEF Next

\* The types hold whether or not two calls work on one container at a time.
THEOREM UniTypeCorrect == Spec => []TypeOK
<1>1. AllocInv => TypeOK
  BY DEF AllocInv
<1> QED BY <1>1, InitAlloc, AllocKept, PTL DEF Spec

\* Every allocated part belongs to a container the user can delete or that a call
\* is working on, whatever call fails and whoever else works on the container.
THEOREM UniNothingLeaks == Spec => []NothingLeaks
<1>1. AllocInv => NothingLeaks
  <2> SUFFICES ASSUME AllocInv, NEW part \in Part, NEW c \in Container,
                      <<part, c>> \in live
               PROVE  part \in built[c] /\ (c \in given \/ \E p \in Thread : frame[p].c = c)
    BY DEF NothingLeaks
  <2>1. part \in built[c]
    BY DEF AllocInv, LiveIsBuilt
  <2> QED BY <2>1 DEF AllocInv, Ownership
<1> QED BY <1>1, InitAlloc, AllocKept, PTL DEF Spec

-----------------------------------------------------------------------------
(***************************************************************************)
(* Theorems about the references and members of the unified container when *)
(* no two calls work on one container at the same time.                    *)
(***************************************************************************)

-----------------------------------------------------------------------------
(* The inductive invariant, part by part *)

\* A call that moves a thread works on a container that is there, and on its
\* parts; attached_thread is settled while a call works on the container.
CallOK(p) ==
  LET f == frame[p] IN
    /\ f.op = "enter" =>
         /\ f.c \in given /\ f.t = p /\ attached[f.c] \in {None, p}
    /\ f.op = "leave" /\ ~f.delete => f.c \in given
    /\ f.op \in {"enter", "leave"} => f.todo \subseteq flags[f.c]
    /\ f.op \in {"create", "delete"} => attached[f.c] = None
    /\ f.delete => attached[f.c] = f.t

\* No two calls work on one container.
Exclusive ==
  /\ \A p, q \in Thread : frame[p].c = frame[q].c /\ frame[p].c # None => p = q
  /\ \A p \in Thread : CallOK(p)

\* The kinds whose counts can be relied on: an IPC namespace may be deleted under
\* a thread that went astray.
Counted(k) == k # "ipc" \/ astray = {}

\* A counted namespace lives as long as it is built and while a thread is in it.
Alive ==
  \A c \in Container :
    /\ \A part \in built[c] : Counted(part) => <<part, c>> \in live
    /\ \A k \in Kind : Counted(k) /\ Pointing(k, c) # {} => <<k, c>> \in live

\* A thread has a vid in one PID namespace at most.
OneList == \A c, d \in Namespace : c # d => numbered[c] \cap numbered[d] = {}

\* The reference counts, IPC included where it is counted.
Counts ==
  \A k \in Kind : Counted(k) =>
    /\ k # "ipc" => rc[k][Root] = RootRc[k] + Cardinality(Pointing(k, Root))
    /\ \A c \in Container : <<k, c>> \in live =>
         rc[k][c] = 1 + Cardinality(Pointing(k, c))

References == Alive /\ OneList /\ Counts

\* A thread has its vid where its PID pointer says, unless its last move was
\* refused.
Vids ==
  \A t \in Thread \ refused, n \in Namespace :
    t \in numbered[n] => ptr["pid"][t] = n

\* The parts a thread is in by a pointer, and where it points.
Joined == Kind \cup {"cgroup"}
Place(part, t) == IF part = "cgroup" THEN cgroup[t] ELSE ptr[part][t]

\* As long as no thread went astray, a thread is only in parts of a container
\* that is attached to it or that it is entering.
Home(t, c, part) ==
  /\ part \in built[c]
  /\ attached[c] = t \/ (frame[t].op = "enter" /\ frame[t].c = c)
Homes ==
  astray = {} => \A t \in Thread, c \in Container, part \in Joined :
                   Place(part, t) = c => Home(t, c, part)

\* What a leaving thread has left.
Left(p) ==
  frame[p].op = "leave" =>
    \A part \in flags[frame[p].c] \ frame[p].todo :
      /\ part \in Joined => Place(part, frame[p].t) # frame[p].c
      /\ part = "io" => frame[p].t \notin weights[frame[p].c]
Leaving ==
  /\ \A c \in Container : weights[c] # {} => "io" \in built[c]
  /\ \A p \in Thread : Left(p)

\* What an entering thread has entered.
Entered(p) ==
  frame[p].op = "enter" =>
    \A part \in Joined \cap (flags[frame[p].c] \ frame[p].todo) :
      Place(part, p) = frame[p].c

\* Where a thread that entered is.
Settled(t, c) ==
  /\ c \in given
  /\ \A p \in Thread : frame[p].op = "leave" /\ frame[p].c = c => frame[p].t # t
  /\ t \notin astray =>
       /\ frame[t].op = "enter" => frame[t].c = c
       /\ attached[c] = t
       /\ \A part \in Joined \cap flags[c] : Place(part, t) = c
Staying ==
  /\ \A p \in Thread : Entered(p)
  /\ \A t \in Thread, c \in Container : <<t, c>> \in inside => Settled(t, c)

UniInv ==
  /\ AllocInv /\ Exclusive
  /\ References /\ Vids
  /\ Homes /\ Leaving /\ Staying
-----------------------------------------------------------------------------
(* A step changes the frame of one thread and the fields of one container *)

Others(p) == \A q \in Thread \ {p} : frame'[q] = frame[q]

\* The call of p goes on, returns, or turns into the body of a delete().
GoesOn(p, part) ==
  /\ part \in frame[p].todo
  /\ frame'[p].op = frame[p].op /\ frame'[p].c = frame[p].c
  /\ frame'[p].t = frame[p].t /\ frame'[p].delete = frame[p].delete
  /\ frame'[p].todo = frame[p].todo \ {part}
TurnsToDelete(p) ==
  /\ frame'[p].op = "delete" /\ frame'[p].c = frame[p].c /\ ~frame'[p].delete
  /\ frame'[p].todo = built[frame[p].c]

\* The steps that visit a part.
Visit(p, part) ==
  \/ CreatePart(p, part) \/ DeletePart(p, part)
  \/ part \in Kind /\ (EnterKind(p, part) \/ LeaveKind(p, part))
  \/ part = "cgroup" /\ (EnterCgroup(p) \/ LeaveCgroup(p))
  \/ part = "io" /\ (EnterIo(p) \/ LeaveIo(p))

\* A visit of a part takes it off the list of the call.
LEMMA VisitFrame ==
  ASSUME TypeOK, NEW p \in Thread, NEW part \in Part, Visit(p, part)
  PROVE  Others(p) /\ GoesOn(p, part)
<1>1. Advance(p, part) /\ part \in frame[p].todo
  BY DEF Visit, CreatePart, DeletePart, EnterKind, LeaveKind, EnterCgroup,
         LeaveCgroup, EnterIo, LeaveIo, At
<1> QED BY <1>1, Advanced DEF Others, GoesOn

\* A call that returns leaves its thread idle.
LEMMA ReturnFrame ==
  ASSUME TypeOK, NEW p \in Thread,
         \/ CreateEnd(p) \/ EnterFail(p) \/ EnterEnd(p) \/ DeleteEnd(p)
         \/ LeaveEnd(p) /\ ~frame[p].delete
  PROVE  Others(p) /\ frame'[p] = Idle /\ frame[p].op # "idle"
<1>1. Return(p) /\ frame[p].op # "idle"
  BY DEF CreateEnd, EnterFail, EnterEnd, DeleteEnd, LeaveEnd, AtEnd, At
<1> QED BY <1>1, Returned DEF Others

\* A create() that fails and a delete() whose thread has left go on to delete.
LEMMA DeleteFrame ==
  ASSUME AllocInv, NEW p \in Thread,
         CreateFail(p) \/ (LeaveEnd(p) /\ frame[p].delete)
  PROVE  Others(p) /\ TurnsToDelete(p) /\ frame[p].op # "idle"
<1> DEFINE f == Frame("delete", frame[p].c, None, built[frame[p].c])
<1>1. TypeOK /\ Owns(p) /\ frame[p].op # "idle"
  BY DEF AllocInv, Owns, Shape, CreateFail, LeaveEnd, AtEnd
<1>2. frame[p].c \in Container /\ built[frame[p].c] \in SUBSET Part
  BY <1>1, OwnsAlone DEF TypeOK
<1>3. /\ f \in FrameRecord /\ f.op = "delete" /\ f.c = frame[p].c
      /\ f.todo = built[frame[p].c] /\ f.delete = FALSE
  BY <1>2 DEF Frame, FrameRecord
<1>4. frame' = [frame EXCEPT ![p] = f]
  BY DEF CreateFail, LeaveEnd
<1> HIDE DEF f
<1> QED BY <1>1, <1>3, <1>4, FrameReplaced DEF Others, TurnsToDelete

\* A create() that begins.
LEMMA BeginFrame ==
  ASSUME TypeOK, NEW p \in Thread, NEW c \in Container, NEW parts \in FlagSets,
         CreateBegin(p, c, parts)
  PROVE  Others(p) /\ frame'[p].c = c /\ ~frame'[p].delete /\ frame'[p].op = "create"
<1> DEFINE f == Frame("create", c, None, parts)
<1>1. parts \in SUBSET Part
  BY FlagAssumption
<1>2. f \in FrameRecord /\ f.op = "create" /\ f.c = c /\ f.delete = FALSE
  BY <1>1 DEF Frame, FrameRecord
<1>3. frame' = [frame EXCEPT ![p] = f]
  BY DEF CreateBegin
<1> HIDE DEF f
<1> QED BY <1>2, <1>3, FrameReplaced DEF Others

\* An enter() or leave() that begins.
LEMMA MoveCallFrame ==
  ASSUME TypeOK, NEW p \in Thread, NEW c \in Container,
         EnterBegin(p, c) \/ LeaveBegin(p, c)
  PROVE  /\ Others(p) /\ frame'[p].c = c /\ ~frame'[p].delete
         /\ frame'[p].t = p /\ frame'[p].todo = flags[c]
         /\ \/ EnterBegin(p, c) /\ frame'[p].op = "enter"
            \/ LeaveBegin(p, c) /\ frame'[p].op = "leave"
<1>1. flags[c] \in SUBSET Part
  BY DEF TypeOK
<1>2. ASSUME NEW op \in {"enter", "leave"},
             frame' = [frame EXCEPT ![p] = Frame(op, c, p, flags[c])]
      PROVE  /\ Others(p) /\ frame'[p].c = c /\ ~frame'[p].delete
             /\ frame'[p].t = p /\ frame'[p].todo = flags[c] /\ frame'[p].op = op
  <2> DEFINE f == Frame(op, c, p, flags[c])
  <2>1. /\ f \in FrameRecord /\ f.op = op /\ f.c = c /\ f.t = p
        /\ f.todo = flags[c] /\ f.delete = FALSE
    BY <1>1, <1>2 DEF Frame, FrameRecord
  <2>2. frame' = [frame EXCEPT ![p] = f]
    BY <1>2
  <2> HIDE DEF f
  <2> QED BY <2>1, <2>2, FrameReplaced DEF Others
<1> QED BY <1>2 DEF EnterBegin, LeaveBegin

\* A delete() that begins makes the attached thread leave first.
LEMMA DeleteCallFrame ==
  ASSUME TypeOK, NEW p \in Thread, NEW c \in Container, DeleteBegin(p, c)
  PROVE  /\ Others(p) /\ frame'[p].c = c
         /\ \/ /\ attached[c] \in Thread /\ frame'[p].delete
               /\ frame'[p].op = "leave" /\ frame'[p].t = attached[c]
               /\ frame'[p].todo = flags[c]
            \/ /\ attached[c] = None /\ ~frame'[p].delete
               /\ frame'[p].op = "delete" /\ frame'[p].todo = built[c]
<1>1. PICK f \in FrameRecord :
           /\ frame' = [frame EXCEPT ![p] = f] /\ f.c = c
           /\ \/ /\ attached[c] \in Thread
                 /\ f.op = "leave" /\ f.t = attached[c] /\ f.todo = flags[c] /\ f.delete
              \/ /\ attached[c] = None
                 /\ f.op = "delete" /\ f.todo = built[c] /\ ~f.delete
  BY DeleteBeginFrame
<1>2. frame'[p] = f /\ Others(p)
  BY <1>1, FrameReplaced DEF Others
<1> QED BY <1>1, <1>2

\* The steps that end a call, or the part of a delete() in which a thread leaves.
Ending(p) ==
  \/ CreateEnd(p) \/ EnterFail(p) \/ EnterEnd(p) \/ DeleteEnd(p)
  \/ LeaveEnd(p) \/ CreateFail(p)

\* The step of a thread in a call visits a part or ends the call.
LEMMA StepSplit ==
  ASSUME NEW p \in Thread, Step(p)
  PROVE  (\E part \in Part : Visit(p, part)) \/ Ending(p)
<1>1. Kind \subseteq Part /\ "cgroup" \in Part /\ "io" \in Part
  BY DEF Part
<1> QED BY <1>1 DEF Step, Visit, Ending

\* Only p's frame changes, no other call works on c, and no other container's
\* fields change.
Local(p, c) ==
  /\ c \in Container /\ Others(p) /\ frame'[p].c \in {c, None}
  /\ \A q \in Thread \ {p} : frame[q].c # c
  /\ \A d \in Container \ {c} :
       /\ d \in given' <=> d \in given
       /\ flags'[d] = flags[d] /\ built'[d] = built[d]
       /\ attached'[d] = attached[d] /\ weights'[d] = weights[d]
  /\ astray \subseteq astray'

\* A visit leaves these fields alone.
LEMMA VisitKeeps ==
  ASSUME NEW p \in Thread, NEW part \in Part, Visit(p, part)
  PROVE  UNCHANGED <<given, flags, attached, inside, astray>>
BY DEF Visit, CreatePart, DeletePart, EnterKind, LeaveKind, EnterCgroup,
       LeaveCgroup, EnterIo, LeaveIo, objects

\* A call has its container to itself.
LEMMA Alone ==
  ASSUME AllocInv, Exclusive, NEW p \in Thread, frame[p].op # "idle"
  PROVE  /\ frame[p].c \in Container
         /\ \A q \in Thread \ {p} : frame[q].c # frame[p].c
<1>1. frame[p].c \in Container
  BY AtWork DEF AllocInv
<1>2. frame[p].c # None
  BY <1>1, NameAssumption
<1> QED BY <1>1, <1>2 DEF Exclusive

\* The steps of a call are local to its container.
LEMMA VisitLocal ==
  ASSUME AllocInv, Exclusive, NEW p \in Thread, NEW part \in Part, Visit(p, part)
  PROVE  Local(p, frame[p].c)
<1> DEFINE c == frame[p].c
<1>1. TypeOK /\ frame[p].op # "idle"
  BY DEF AllocInv, Visit, CreatePart, DeletePart, EnterKind, LeaveKind, EnterCgroup,
         LeaveCgroup, EnterIo, LeaveIo, At
<1>2. c \in Container /\ \A q \in Thread \ {p} : frame[q].c # c
  BY <1>1, Alone
<1>3. Others(p) /\ frame'[p].c = c
  BY <1>1, VisitFrame DEF GoesOn
<1>4. UNCHANGED <<given, flags, attached, astray>>
  BY VisitKeeps
<1>5. \/ UNCHANGED built \/ built' = [built EXCEPT ![c] = @ \cup {part}]
      \/ built' = [built EXCEPT ![c] = @ \ {part}]
  BY DEF Visit, CreatePart, DeletePart, EnterKind, LeaveKind, EnterCgroup,
         LeaveCgroup, EnterIo, LeaveIo, objects
<1>6. \/ UNCHANGED weights \/ weights' = [weights EXCEPT ![c] = {}]
      \/ weights' = [weights EXCEPT ![c] = @ \cup {p}]
      \/ weights' = [weights EXCEPT ![c] = @ \ {frame[p].t}]
  BY DEF Visit, CreatePart, DeletePart, EnterKind, LeaveKind, EnterCgroup,
         LeaveCgroup, EnterIo, LeaveIo, members, pids
<1> HIDE DEF c
<1>7. \A d \in Container \ {c} : built'[d] = built[d] /\ weights'[d] = weights[d]
  BY <1>1, <1>2, <1>5, <1>6 DEF TypeOK
<1> QED BY <1>2, <1>3, <1>4, <1>7 DEF Local, c

\* The end of a call changes its frame, and attached_thread or given.
LEMMA EndingKeeps ==
  ASSUME AllocInv, NEW p \in Thread, Ending(p)
  PROVE  /\ UNCHANGED <<flags, built, live, rc, numbered,
                        nodeless, refused, ptr, cgroup, chain, weights>>
         /\ astray \subseteq astray' /\ Others(p) /\ frame[p].op # "idle"
         /\ \/ TurnsToDelete(p) /\ (CreateFail(p) \/ (LeaveEnd(p) /\ frame[p].delete))
            \/ frame'[p] = Idle /\ ~(LeaveEnd(p) /\ frame[p].delete) /\ ~CreateFail(p)
<1>1. TypeOK
  BY DEF AllocInv
<1>2. UNCHANGED <<flags, built, live, rc, numbered,
                  nodeless, refused, ptr, cgroup, chain, weights>>
  BY DEF Ending, CreateEnd, EnterFail, EnterEnd, DeleteEnd, LeaveEnd, CreateFail,
         objects, members, pids
<1>3. astray \subseteq astray'
  BY DEF Ending, CreateEnd, EnterFail, EnterEnd, DeleteEnd, LeaveEnd, CreateFail
<1>4. CASE CreateFail(p) \/ (LeaveEnd(p) /\ frame[p].delete)
  BY <1>2, <1>3, <1>4, DeleteFrame
<1>5. CASE ~CreateFail(p) /\ ~(LeaveEnd(p) /\ frame[p].delete)
  <2>1. \/ CreateEnd(p) \/ EnterFail(p) \/ EnterEnd(p) \/ DeleteEnd(p)
        \/ LeaveEnd(p) /\ ~frame[p].delete
    BY <1>5 DEF Ending
  <2> QED BY <1>1, <1>2, <1>3, <1>5, <2>1, ReturnFrame
<1> QED BY <1>4, <1>5

\* The end of a call is local to its container, too.
LEMMA EndingLocal ==
  ASSUME AllocInv, Exclusive, NEW p \in Thread, Ending(p)
  PROVE  Local(p, frame[p].c)
<1> DEFINE c == frame[p].c
<1>1. /\ TypeOK /\ Others(p) /\ frame[p].op # "idle"
      /\ UNCHANGED <<flags, built, weights>> /\ astray \subseteq astray'
  BY EndingKeeps DEF AllocInv
<1>2. frame'[p].c \in {c, None}
  BY EndingKeeps, IdleMade DEF TurnsToDelete
<1>3. c \in Container /\ \A q \in Thread \ {p} : frame[q].c # c
  BY <1>1, Alone
<1>4. given' = given \/ given' = given \cup {c}
  BY DEF Ending, CreateEnd, EnterFail, EnterEnd, DeleteEnd, LeaveEnd, CreateFail, objects
<1>5. \/ UNCHANGED attached \/ attached' = [attached EXCEPT ![c] = p]
      \/ attached' = [attached EXCEPT ![c] = None]
  BY DEF Ending, CreateEnd, EnterFail, EnterEnd, DeleteEnd, LeaveEnd, CreateFail
<1> HIDE DEF c
<1>6. \A d \in Container \ {c} : attached'[d] = attached[d]
  BY <1>1, <1>3, <1>5 DEF TypeOK
<1> QED BY <1>1, <1>2, <1>3, <1>4, <1>6 DEF Local, c

\* So is the beginning of a call, as calls do not share containers.
LEMMA BeginLocal ==
  ASSUME Share = FALSE, AllocInv, NEW p \in Thread, NEW c \in Container, Begin(p, c)
  PROVE  Local(p, c) /\ frame[p].op = "idle"
<1>2. TypeOK
  BY DEF AllocInv
<1>3. MayCall(p, c)
  BY DEF Begin, CreateBegin, EnterBegin, LeaveBegin, DeleteBegin
<1>4. frame[p].op = "idle" /\ \A q \in Thread : frame[q].c # c
  BY <1>3 DEF MayCall
<1>5. ASSUME NEW parts \in FlagSets, CreateBegin(p, c, parts)
      PROVE  Local(p, c)
  <2>1. Others(p) /\ frame'[p].c = c
    BY <1>2, <1>5, BeginFrame
  <2>2. /\ flags' = [flags EXCEPT ![c] = parts] /\ built' = [built EXCEPT ![c] = {}]
        /\ attached' = [attached EXCEPT ![c] = None]
        /\ UNCHANGED <<given, weights, astray>>
    BY <1>5 DEF CreateBegin, members, pids
  <2>3. \A d \in Container \ {c} :
          flags'[d] = flags[d] /\ built'[d] = built[d] /\ attached'[d] = attached[d]
    BY <1>2, <2>2 DEF TypeOK
  <2> QED BY <1>4, <2>1, <2>2, <2>3 DEF Local
<1>6. CASE EnterBegin(p, c) \/ LeaveBegin(p, c)
  <2>1. Others(p) /\ frame'[p].c = c
    BY <1>2, <1>6, MoveCallFrame
  <2>2. UNCHANGED <<given, flags, built, attached, weights>> /\ astray \subseteq astray'
    BY <1>6 DEF EnterBegin, LeaveBegin, objects, members, pids
  <2> QED BY <1>4, <2>1, <2>2 DEF Local
<1>7. CASE DeleteBegin(p, c)
  <2>1. Others(p) /\ frame'[p].c = c
    BY <1>2, <1>7, DeleteCallFrame
  <2>2. given' = given \ {c} /\ UNCHANGED <<flags, built, attached, weights, astray>>
    BY <1>7 DEF DeleteBegin, members, pids
  <2> QED BY <1>4, <2>1, <2>2 DEF Local
<1> QED BY <1>4, <1>5, <1>6, <1>7 DEF Begin
-----------------------------------------------------------------------------
(* Calls that have their container to themselves *)

\* A local step keeps the calls apart and disturbs no other call.
LEMMA ExclusiveOf ==
  ASSUME AllocInv, Exclusive, NEW p \in Thread, NEW c, Local(p, c), CallOK(p)'
  PROVE  Exclusive'
<1>1. TypeOK /\ Shape /\ c # None
  BY NameAssumption DEF AllocInv, Local
<1>2. \A q, r \in Thread : frame'[q].c = frame'[r].c /\ frame'[q].c # None => q = r
  BY DEF Local, Others, Exclusive
<1>3. ASSUME NEW q \in Thread \ {p} PROVE CallOK(q)'
  <2>1. frame'[q] = frame[q] /\ CallOK(q) /\ frame[q].c # c
    BY <1>3 DEF Local, Others, Exclusive
  <2>2. CASE frame[q].op = "idle"
    BY <1>1, <2>1, <2>2 DEF CallOK, Shape
  <2>3. CASE frame[q].op # "idle"
    <3>1. frame[q].c \in Container \ {c}
      BY <1>1, <2>1, <2>3, AtWork
    <3>2. /\ frame[q].c \in given' <=> frame[q].c \in given
          /\ flags'[frame[q].c] = flags[frame[q].c]
          /\ attached'[frame[q].c] = attached[frame[q].c]
      BY <3>1 DEF Local
    <3> QED BY <2>1, <3>2 DEF CallOK
  <2> QED BY <2>2, <2>3
<1> QED BY <1>2, <1>3 DEF Exclusive

\* The step of a call keeps the calls apart.
LEMMA StepExclusive ==
  ASSUME AllocInv, Exclusive, NEW p \in Thread, Step(p)
  PROVE  Local(p, frame[p].c) /\ Exclusive'
<1>1. TypeOK /\ Shape /\ CallOK(p)
  BY DEF AllocInv, Exclusive
<1>2. ASSUME NEW part \in Part, Visit(p, part)
      PROVE  Local(p, frame[p].c) /\ Exclusive'
  <2>1. GoesOn(p, part) /\ UNCHANGED <<given, flags, attached>>
    BY <1>1, <1>2, VisitFrame, VisitKeeps
  <2>2. CallOK(p)'
    BY <1>1, <2>1 DEF CallOK, GoesOn
  <2> QED BY <1>2, <2>2, VisitLocal, ExclusiveOf
<1>3. ASSUME Ending(p)
      PROVE  Local(p, frame[p].c) /\ Exclusive'
  <2>1. Local(p, frame[p].c) /\ frame[p].op # "idle"
    BY <1>3, EndingLocal, EndingKeeps
  <2>2. frame[p].c \in Container
    BY <2>1 DEF Local
  <2>3. CASE frame'[p] = Idle
    BY <1>3, <2>1, <2>3, IdleMade, ExclusiveOf DEF CallOK
  <2>4. CASE TurnsToDelete(p) /\ CreateFail(p)
    <3>1. attached'[frame[p].c] = None
      BY <1>1, <2>4 DEF CreateFail, CallOK
    <3> QED BY <2>1, <2>4, <3>1, ExclusiveOf DEF CallOK, TurnsToDelete
  <2>5. CASE TurnsToDelete(p) /\ LeaveEnd(p) /\ frame[p].delete
    <3>1. attached'[frame[p].c] = None
      BY <1>1, <2>2, <2>5 DEF LeaveEnd, CallOK, TypeOK
    <3> QED BY <2>1, <2>5, <3>1, ExclusiveOf DEF CallOK, TurnsToDelete
  <2> QED BY <1>3, <2>3, <2>4, <2>5, EndingKeeps
<1> QED BY <1>2, <1>3, StepSplit

\* So does a call that begins.
LEMMA BeginExclusive ==
  ASSUME Share = FALSE, AllocInv, Exclusive, NEW p \in Thread, NEW c \in Container,
         Begin(p, c)
  PROVE  Exclusive'
<1>1. TypeOK /\ Shape /\ Local(p, c)
  BY BeginLocal DEF AllocInv
<1>2. ASSUME NEW parts \in FlagSets, CreateBegin(p, c, parts) PROVE CallOK(p)'
  <2>1. attached'[c] = None
    BY <1>1, <1>2 DEF CreateBegin, TypeOK
  <2> QED BY <1>1, <1>2, <2>1, BeginFrame DEF CallOK
<1>3. CASE EnterBegin(p, c) \/ LeaveBegin(p, c)
  <2>1. c \in given' /\ UNCHANGED <<flags, attached>>
    BY <1>3 DEF EnterBegin, LeaveBegin, objects
  <2>2. EnterBegin(p, c) => attached[c] \in {None, p}
    BY DEF EnterBegin
  <2>3. /\ frame'[p].c = c /\ ~frame'[p].delete
        /\ frame'[p].t = p /\ frame'[p].todo = flags[c]
        /\ \/ EnterBegin(p, c) /\ frame'[p].op = "enter"
           \/ LeaveBegin(p, c) /\ frame'[p].op = "leave"
    BY <1>1, <1>3, MoveCallFrame
  <2>4. CallOK(p)'
    BY <2>1, <2>2, <2>3 DEF CallOK
  <2> QED BY <1>1, <2>4, ExclusiveOf
<1>4. CASE DeleteBegin(p, c)
  <2>1. UNCHANGED <<flags, attached>>
    BY <1>4 DEF DeleteBegin
  <2>2. CallOK(p)'
    BY <1>1, <1>4, <2>1, DeleteCallFrame DEF CallOK
  <2> QED BY <1>1, <2>2, ExclusiveOf
<1> QED BY <1>1, <1>2, <1>3, <1>4, ExclusiveOf DEF Begin
-----------------------------------------------------------------------------
(* References *)

\* A namespace is pointed at by threads.
LEMMA PointingType ==
  ASSUME TypeOK, NEW k \in Kind, NEW n \in Namespace
  PROVE  /\ Pointing(k, n) \in SUBSET Thread
         /\ IsFiniteSet(Pointing(k, n)) /\ Cardinality(Pointing(k, n)) \in Nat
<1>1. Pointing(k, n) \in SUBSET Thread
  BY DEF TypeOK, Pointing
<1> QED BY <1>1, ThreadSets

\* One thread more, one thread less.
LEMMA OneMore ==
  ASSUME NEW S \in SUBSET Thread, NEW t \in Thread
  PROVE  /\ t \notin S => Cardinality(S \cup {t}) = Cardinality(S) + 1
         /\ t \in S => /\ Cardinality(S \ {t}) = Cardinality(S) - 1
                       /\ Cardinality(S) >= 1
<1>1. IsFiniteSet(S) /\ Cardinality(S) \in Nat
  BY ThreadSets
<1>2. t \notin S => Cardinality(S \cup {t}) = Cardinality(S) + 1
  BY <1>1, FS_AddElement
<1>3. ASSUME t \in S
      PROVE  Cardinality(S \ {t}) = Cardinality(S) - 1 /\ Cardinality(S) >= 1
  <2>1. Cardinality(S \ {t}) = Cardinality(S) - 1
    BY <1>1, <1>3, FS_RemoveElement
  <2>2. Cardinality(S \ {t}) \in Nat
    BY ThreadSets
  <2> QED BY <1>1, <2>1, <2>2
<1> QED BY <1>2, <1>3

\* A count that follows the threads it counts.
LEMMA Follows ==
  ASSUME NEW n \in Int, NEW r \in Int, NEW m \in Nat, r = n + m
  PROVE  r + 1 = n + (m + 1) /\ r - 1 = n + (m - 1)
OBVIOUS

\* Nothing is taken off when nothing is shared.
LEMMA Undiminished ==
  ASSUME NEW m \in Nat, NEW n \in Nat, NEW z, z = 0
  PROVE  m + n - z = m + n
OBVIOUS

\* A step that moves nobody keeps the references.
LEMMA ReferencesKept ==
  ASSUME TypeOK, References, UNCHANGED <<live, rc, numbered, ptr>>,
         \A c \in Container : built'[c] \subseteq built[c], astray \subseteq astray'
  PROVE  References'
<1>1. \A k : Counted(k)' => Counted(k)
  BY DEF Counted
<1>2. \A k, c : Pointing(k, c)' = Pointing(k, c)
  BY DEF Pointing
<1>3. Alive'
  BY <1>1, <1>2 DEF Alive, References
<1>4. OneList' /\ Counts'
  BY <1>1, <1>2 DEF OneList, Counts, References
<1> QED BY <1>3, <1>4 DEF References

\* A thread and its reference go from one namespace to another.
Transfer(k, t, src, dst) ==
  /\ t \in Pointing(k, src) /\ t \notin Pointing(k, dst)
  /\ Pointing(k, src)' = Pointing(k, src) \ {t}
  /\ Pointing(k, dst)' = Pointing(k, dst) \cup {t}
  /\ \A j \in Kind, n \in Namespace :
       j # k \/ n \notin {src, dst} => Pointing(j, n)' = Pointing(j, n)
  /\ rc' = [rc EXCEPT ![k][src] = @ - 1, ![k][dst] = @ + 1]
  /\ live' = IF src # Root /\ rc[k][src] <= 1 THEN live \ {<<k, src>>} ELSE live
  /\ Counted(k) /\ dst # Root => <<k, dst>> \in live
  /\ UNCHANGED <<built, astray>>

\* A reference that goes along with the thread keeps the counts, and is never the
\* last one of the namespace the thread comes from.
LEMMA Rebalanced ==
  ASSUME TypeOK, Alive, Counts, NEW k \in Kind, NEW t \in Thread,
         NEW src \in Namespace, NEW dst \in Namespace, src # dst,
         Transfer(k, t, src, dst)
  PROVE  Alive' /\ Counts'
<1> USE DEF Transfer
<1>1. \A j : Counted(j)' <=> Counted(j)
  BY DEF Counted
<1>2. /\ rc'[k][src] = rc[k][src] - 1 /\ rc'[k][dst] = rc[k][dst] + 1
      /\ \A j \in Kind, n \in Namespace :
           j # k \/ n \notin {src, dst} => rc'[j][n] = rc[j][n]
  <2>1. rc \in [Kind -> [Namespace -> Int]]
    BY DEF TypeOK
  <2> QED BY <2>1, Transferred
<1>3. /\ Cardinality(Pointing(k, src)') = Cardinality(Pointing(k, src)) - 1
      /\ Cardinality(Pointing(k, src)) >= 1
      /\ Cardinality(Pointing(k, dst)') = Cardinality(Pointing(k, dst)) + 1
  BY PointingType, OneMore
<1>4. /\ Cardinality(Pointing(k, src)) \in Nat /\ Cardinality(Pointing(k, dst)) \in Nat
      /\ rc[k][src] \in Int /\ rc[k][dst] \in Int
  BY PointingType DEF TypeOK
<1>5. Counted(k) => live' = live
  <2> SUFFICES ASSUME Counted(k), src # Root PROVE rc[k][src] > 1
    BY <1>4
  <2>1. src \in Container /\ <<k, src>> \in live
    BY DEF Alive, Namespace
  <2>2. rc[k][src] = 1 + Cardinality(Pointing(k, src))
    BY <2>1 DEF Counts
  <2> QED BY <1>3, <1>4, <2>2
<1>6. \A j, c : j # k => (<<j, c>> \in live' <=> <<j, c>> \in live)
  OBVIOUS
<1>7. ASSUME NEW c \in Container
      PROVE  /\ \A part \in built'[c] : Counted(part)' => <<part, c>> \in live'
             /\ \A j \in Kind : Counted(j)' /\ Pointing(j, c)' # {} => <<j, c>> \in live'
  <2>1. ASSUME NEW part \in built'[c], Counted(part)' PROVE <<part, c>> \in live'
    BY <1>1, <1>5, <1>6, <2>1 DEF Alive
  <2>2. ASSUME NEW j \in Kind, Counted(j)', Pointing(j, c)' # {} PROVE <<j, c>> \in live'
    <3>1. CASE j = k
      <4>1. c = dst \/ Pointing(k, c) # {}
        BY <1>7, <2>2, <3>1 DEF Namespace
      <4>2. c # Root
        BY NameAssumption
      <4> QED BY <1>1, <1>5, <2>2, <3>1, <4>1, <4>2 DEF Alive
    <3>2. CASE j # k
      BY <1>1, <1>6, <2>2, <3>2 DEF Alive, Namespace
    <3> QED BY <3>1, <3>2
  <2> QED BY <2>1, <2>2
<1>8. Root \in Namespace /\ RootRc[k] \in Int
  BY DEF Namespace, RootRc, Kind
<1>9. ASSUME NEW j \in Kind, Counted(j)'
      PROVE  /\ j # "ipc" => rc'[j][Root] = RootRc[j] + Cardinality(Pointing(j, Root)')
             /\ \A c \in Container : <<j, c>> \in live' =>
                  rc'[j][c] = 1 + Cardinality(Pointing(j, c)')
  <2>1. CASE j # k
    <3>1. /\ rc'[j][Root] = rc[j][Root] /\ Pointing(j, Root)' = Pointing(j, Root)
          /\ \A c \in Container :
               rc'[j][c] = rc[j][c] /\ Pointing(j, c)' = Pointing(j, c)
      BY <1>2, <1>8, <2>1 DEF Namespace
    <3>2. /\ j # "ipc" => rc[j][Root] = RootRc[j] + Cardinality(Pointing(j, Root))
          /\ \A c \in Container : <<j, c>> \in live' =>
               rc[j][c] = 1 + Cardinality(Pointing(j, c))
      BY <1>1, <1>6, <1>9, <2>1 DEF Counts
    <3> HIDE DEF Pointing
    <3> QED BY <3>1, <3>2
  <2>2. CASE j = k
    <3>1. /\ k # "ipc" => rc[k][Root] = RootRc[k] + Cardinality(Pointing(k, Root))
          /\ \A c \in Container : <<k, c>> \in live' =>
               rc[k][c] = 1 + Cardinality(Pointing(k, c))
      BY <1>1, <1>5, <1>9, <2>2 DEF Counts
    <3>2. ASSUME NEW n \in Namespace, NEW b \in Int,
                 rc[k][n] = b + Cardinality(Pointing(k, n))
          PROVE  rc'[k][n] = b + Cardinality(Pointing(k, n)')
      <4>1. CASE n \notin {src, dst}
        <5>1. rc'[k][n] = rc[k][n] /\ Pointing(k, n)' = Pointing(k, n)
          BY <1>2, <4>1
        <5> QED BY <3>2, <5>1
      <4>2. CASE n = src
        <5>1. rc[k][n] - 1 = b + (Cardinality(Pointing(k, n)) - 1)
          BY <1>4, <3>2, <4>2, Follows
        <5> QED BY <1>2, <1>3, <4>2, <5>1
      <4>3. CASE n = dst
        <5>1. rc[k][n] + 1 = b + (Cardinality(Pointing(k, n)) + 1)
          BY <1>4, <3>2, <4>3, Follows
        <5> QED BY <1>2, <1>3, <4>3, <5>1
      <4> QED BY <4>1, <4>2, <4>3
    <3>3. Container \subseteq Namespace
      BY DEF Namespace
    <3>4. k # "ipc" => rc'[k][Root] = RootRc[k] + Cardinality(Pointing(k, Root)')
      BY <1>8, <3>1, <3>2
    <3>5. ASSUME NEW c \in Container, <<k, c>> \in live'
          PROVE  rc'[k][c] = 1 + Cardinality(Pointing(k, c)')
      <4>1. rc[k][c] = 1 + Cardinality(Pointing(k, c)) /\ c \in Namespace /\ 1 \in Int
        BY <3>1, <3>3, <3>5
      <4> QED BY <3>2, <4>1
    <3> QED BY <2>2, <3>4, <3>5
  <2> QED BY <2>1, <2>2
<1> QED BY <1>7, <1>9 DEF Alive, Counts

\* Moving a thread to a namespace that is there keeps the references.
LEMMA MoveReferences ==
  ASSUME TypeOK, References, NEW k \in Kind, NEW t \in Thread, NEW dst \in Namespace,
         MoveKind(k, t, ptr[k][t], dst),
         Counted(k) /\ dst # Root => <<k, dst>> \in live,
         UNCHANGED <<built, astray>>
  PROVE  References'
<1>1. ptr[k][t] \in Namespace /\ "pid" \in Kind
  BY DEF TypeOK, Kind
<1> SUFFICES ASSUME NEW src \in Namespace, src = ptr[k][t] PROVE References'
  BY <1>1
<1>2. Alive /\ OneList /\ Counts
  BY DEF References
<1>3. \A c \in Container : built'[c] \subseteq built[c]
  OBVIOUS
<1>4. CASE src = dst
  BY <1>3, <1>4, ReferencesKept DEF MoveKind, pids
<1>5. CASE src # dst /\ k # "pid"
  <2>1. Move(k, t, src, dst)
    BY <1>5 DEF MoveKind
  <2>2. /\ ptr' = [ptr EXCEPT ![k][t] = dst] /\ numbered' = numbered
        /\ rc' = [rc EXCEPT ![k][src] = @ - 1, ![k][dst] = @ + 1]
        /\ live' = IF src # Root /\ rc[k][src] <= 1 THEN live \ {<<k, src>>} ELSE live
    BY <2>1 DEF Move, pids
  <2>3. /\ \A u \in Thread : ptr'[k][u] = IF u = t THEN dst ELSE ptr[k][u]
        /\ \A j \in Kind \ {k} : ptr'[j] = ptr[j]
    BY <2>2 DEF TypeOK
  <2>4. t \in Pointing(k, src) /\ t \notin Pointing(k, dst)
    BY <1>5 DEF Pointing
  <2>5. Pointing(k, src)' = Pointing(k, src) \ {t}
    BY <1>5, <2>3 DEF Pointing
  <2>6. Pointing(k, dst)' = Pointing(k, dst) \cup {t}
    BY <1>5, <2>3 DEF Pointing
  <2>7. \A j \in Kind, n \in Namespace :
          j # k \/ n \notin {src, dst} => Pointing(j, n)' = Pointing(j, n)
    <3>1. ASSUME NEW j \in Kind, NEW n \in Namespace, j # k
          PROVE  Pointing(j, n)' = Pointing(j, n)
      <4>1. ptr'[j] = ptr[j]
        BY <2>3, <3>1
      <4> QED BY <2>2, <4>1 DEF Pointing
    <3>2. ASSUME NEW n \in Namespace, n \notin {src, dst}
          PROVE  Pointing(k, n)' = Pointing(k, n)
      <4>1. \A u \in Thread : ptr'[k][u] = n <=> ptr[k][u] = n
        BY <2>3, <3>2
      <4> QED BY <2>2, <4>1 DEF Pointing
    <3>3. ASSUME NEW j \in Kind, NEW n \in Namespace, j # k \/ n \notin {src, dst}
          PROVE  Pointing(j, n)' = Pointing(j, n)
      <4>1. CASE j # k
        BY <3>1, <4>1
      <4>2. CASE j = k
        BY <3>2, <3>3, <4>2
      <4> QED BY <4>1, <4>2
    <3> QED BY <3>3
  <2>8. Transfer(k, t, src, dst)
    BY <2>2, <2>4, <2>5, <2>6, <2>7 DEF Transfer
  <2>10. Alive' /\ Counts'
    BY <1>2, <1>5, <2>8, Rebalanced
  <2>9. OneList'
    BY <1>2, <2>2 DEF OneList
  <2> QED BY <2>9, <2>10 DEF References
<1>6. CASE src # dst /\ k = "pid"
  <2>1. MovePid(t, src, dst)
    BY <1>6 DEF MoveKind
  <2>2. /\ ptr' = [ptr EXCEPT ![k][t] = dst]
        /\ \/ /\ CanMovePid(t, src, dst)
              /\ numbered' = [numbered EXCEPT ![src] = @ \ {t}, ![dst] = @ \cup {t}]
              /\ rc' = [rc EXCEPT ![k][src] = @ - 1, ![k][dst] = @ + 1]
              /\ live' = IF src # Root /\ rc[k][src] <= 1
                         THEN live \ {<<k, src>>} ELSE live
           \/ UNCHANGED <<numbered, rc, live>>
    BY <1>6, <2>1 DEF MovePid
  <2>3. \A j \in Kind \ {k} : ptr'[j] = ptr[j]
    BY <2>2 DEF TypeOK
  <2>4. CASE UNCHANGED <<numbered, rc, live>>
    <3>1. \A j \in Kind : \A n : Pointing(j, n)' = Pointing(j, n)
      BY <1>6, <2>3, <2>4 DEF Pointing
    <3>2. \A j : Counted(j)' <=> Counted(j)
      BY DEF Counted
    <3>3. Alive'
      BY <1>2, <2>4, <3>1, <3>2 DEF Alive
    <3>4. Counts' /\ OneList'
      BY <1>2, <2>4, <3>1, <3>2 DEF Counts, OneList
    <3> QED BY <3>3, <3>4 DEF References
  <2>5. CASE ~UNCHANGED <<numbered, rc, live>>
    <3>1. /\ CanMovePid(t, src, dst)
          /\ numbered' = [numbered EXCEPT ![src] = @ \ {t}, ![dst] = @ \cup {t}]
          /\ rc' = [rc EXCEPT ![k][src] = @ - 1, ![k][dst] = @ + 1]
          /\ live' = IF src # Root /\ rc[k][src] <= 1
                     THEN live \ {<<k, src>>} ELSE live
      BY <2>2, <2>5
    <3>2. /\ numbered'[src] = numbered[src] \ {t} /\ numbered'[dst] = numbered[dst] \cup {t}
          /\ \A n \in Namespace \ {src, dst} : numbered'[n] = numbered[n]
      BY <1>1, <1>6, <3>1 DEF TypeOK
    <3>3. t \in Pointing(k, src) /\ t \notin Pointing(k, dst)
      BY <1>6, <3>1 DEF Pointing, CanMovePid
    <3>4. /\ Pointing(k, src)' = Pointing(k, src) \ {t}
          /\ Pointing(k, dst)' = Pointing(k, dst) \cup {t}
      BY <1>6, <3>2 DEF Pointing
    <3>5. \A j \in Kind, n \in Namespace :
            j # k \/ n \notin {src, dst} => Pointing(j, n)' = Pointing(j, n)
      <4>1. ASSUME NEW j \in Kind, NEW n \in Namespace, j # k
            PROVE  Pointing(j, n)' = Pointing(j, n)
        BY <1>6, <2>3, <4>1 DEF Pointing
      <4>2. ASSUME NEW n \in Namespace, n \notin {src, dst}
            PROVE  Pointing(k, n)' = Pointing(k, n)
        BY <1>6, <3>2, <4>2 DEF Pointing
      <4> QED BY <4>1, <4>2
    <3>6. Transfer(k, t, src, dst)
      BY <3>1, <3>3, <3>4, <3>5 DEF Transfer
    <3>7. t \in numbered[src]
      BY <3>1 DEF CanMovePid
    <3>8. OneList'
      BY <1>1, <1>2, <1>6, <3>2, <3>7 DEF OneList
    <3>9. Alive' /\ Counts'
      BY <1>2, <1>6, <3>6, Rebalanced
    <3> QED BY <3>8, <3>9 DEF References
  <2> QED BY <2>4, <2>5
<1> QED BY <1>4, <1>5, <1>6

\* enter() moves a thread to a namespace of a container that is there, leave()
\* moves it to root.
LEMMA MoveVisitReferences ==
  ASSUME AllocInv, Exclusive, References, NEW p \in Thread, NEW k \in Kind,
         EnterKind(p, k) \/ LeaveKind(p, k)
  PROVE  References'
<1>1. TypeOK /\ Shape /\ CallOK(p)
  BY DEF AllocInv, Exclusive
<1>2. UNCHANGED <<built, astray>>
  BY DEF EnterKind, LeaveKind
<1>3. CASE EnterKind(p, k)
  <2>1. frame[p].op = "enter" /\ k \in frame[p].todo
          /\ MoveKind(k, p, ptr[k][p], frame[p].c)
    BY <1>3 DEF EnterKind, At
  <2>2. frame[p].c \in Container /\ frame[p].c \in Namespace
    BY <1>1, <2>1, AtWork
  <2>3. k \in built[frame[p].c]
    BY <1>1, <2>1 DEF CallOK, AllocInv, Ownership
  <2>4. Counted(k) => <<k, frame[p].c>> \in live
    BY <2>2, <2>3 DEF References, Alive
  <2> QED BY <1>1, <1>2, <2>1, <2>2, <2>4, MoveReferences
<1>4. CASE LeaveKind(p, k)
  <2> DEFINE t == frame[p].t
             dst == IF ptr[k][t] = frame[p].c THEN Root ELSE ptr[k][t]
  <2>1. frame[p].op = "leave" /\ MoveKind(k, t, ptr[k][t], dst)
    BY <1>4 DEF LeaveKind, At
  <2>2. t \in Thread
    BY <1>1, <2>1, AtWork
  <2>3. dst \in Namespace /\ ptr[k][t] \in Namespace
    BY <1>1, <2>2 DEF TypeOK, Namespace
  <2>4. CASE dst = Root
    <3> HIDE DEF t, dst
    <3> QED BY <1>1, <1>2, <2>1, <2>2, <2>3, <2>4, MoveReferences
  <2>5. CASE dst # Root
    <3>1. dst = ptr[k][t]
      BY <2>5
    <3>2. UNCHANGED <<ptr, numbered, rc, live>>
      BY <2>1, <3>1 DEF MoveKind, pids
    <3> QED BY <1>1, <1>2, <3>2, ReferencesKept
  <2> QED BY <2>4, <2>5
<1> QED BY <1>3, <1>4

\* A namespace that is created has the reference of its owner and no threads.
LEMMA CreatePartReferences ==
  ASSUME AllocInv, References, NEW p \in Thread, NEW part \in Part, CreatePart(p, part)
  PROVE  References'
<1>1. TypeOK /\ Ownership /\ LiveIsBuilt /\ Alive /\ OneList /\ Counts
  BY DEF AllocInv, References
<1>2. frame[p].op = "create" /\ part \in frame[p].todo
  BY DEF CreatePart, At
<1>3. Owns(p)
  BY <1>2 DEF Owns
<1>4. frame[p].c \in Container /\ part \notin built[frame[p].c]
  BY <1>2, <1>3, OwnsAlone DEF Knows
<1> SUFFICES ASSUME NEW c \in Container, c = frame[p].c PROVE References'
  BY <1>4
<1>5. /\ built' = [built EXCEPT ![c] = @ \cup {part}]
      /\ live' = live \cup {<<part, c>>}
      /\ rc' = IF part \in Kind THEN [rc EXCEPT ![part][c] = 1] ELSE rc
      /\ numbered' = IF part = "pid" THEN [numbered EXCEPT ![c] = {}] ELSE numbered
      /\ UNCHANGED <<ptr, astray>>
  BY DEF CreatePart
<1>6. \A j : Counted(j)' <=> Counted(j)
  BY <1>5 DEF Counted
<1>7. c \in Namespace /\ Root \in Namespace /\ Root # c /\ Container \subseteq Namespace
  BY NameAssumption DEF Namespace
<1>8. <<part, c>> \notin live
  BY <1>1, <1>4 DEF LiveIsBuilt
<1>9. part \in Kind /\ Counted(part) => Pointing(part, c) = {}
  BY <1>1, <1>8 DEF Alive
<1>10. numbered' = numbered
  <2>1. CASE part = "pid"
    <3>1. numbered[c] = {}
      BY <1>9, <2>1 DEF Pointing, Kind, Counted
    <3> QED BY <1>1, <1>5, <1>7, <2>1, <3>1 DEF TypeOK
  <2> QED BY <1>5, <2>1
<1>11. \A j, n : Pointing(j, n)' = Pointing(j, n)
  BY <1>5, <1>10 DEF Pointing
<1>12. built'[c] = built[c] \cup {part} /\ \A d \in Container \ {c} : built'[d] = built[d]
  BY <1>1, <1>5 DEF TypeOK
<1>13. Alive'
  BY <1>1, <1>5, <1>6, <1>11, <1>12 DEF Alive
<1>14. /\ part \in Kind => rc'[part][c] = 1
       /\ \A j \in Kind, n \in Namespace : j # part \/ n # c => rc'[j][n] = rc[j][n]
  BY <1>1, <1>5, <1>7 DEF TypeOK
<1>15. ASSUME NEW j \in Kind, Counted(j)'
       PROVE  /\ j # "ipc" => rc'[j][Root] = RootRc[j] + Cardinality(Pointing(j, Root)')
              /\ \A d \in Container : <<j, d>> \in live' =>
                   rc'[j][d] = 1 + Cardinality(Pointing(j, d)')
  <2>1. rc'[j][Root] = rc[j][Root] /\ Pointing(j, Root)' = Pointing(j, Root)
    BY <1>7, <1>11, <1>14
  <2>2. j # "ipc" => rc[j][Root] = RootRc[j] + Cardinality(Pointing(j, Root))
    BY <1>1, <1>6, <1>15 DEF Counts
  <2>3. ASSUME NEW d \in Container, <<j, d>> \in live'
        PROVE  rc'[j][d] = 1 + Cardinality(Pointing(j, d)')
    <3>1. Pointing(j, d)' = Pointing(j, d)
      BY <1>11
    <3>2. CASE j = part /\ d = c
      <4>1. Pointing(j, d) = {} /\ rc'[j][d] = 1
        BY <1>6, <1>9, <1>14, <1>15, <3>2
      <4>2. Cardinality(Pointing(j, d)') = 0
        BY <3>1, <4>1, FS_EmptySet
      <4> QED BY <4>1, <4>2
    <3>3. CASE ~(j = part /\ d = c)
      <4>1. <<j, d>> \in live /\ rc'[j][d] = rc[j][d]
        BY <1>5, <1>7, <1>14, <2>3, <3>3
      <4>2. rc[j][d] = 1 + Cardinality(Pointing(j, d))
        BY <1>1, <1>6, <1>15, <4>1 DEF Counts
      <4> QED BY <3>1, <4>1, <4>2
    <3> QED BY <3>2, <3>3
  <2> QED BY <2>1, <2>2, <2>3
<1>16. OneList'
  BY <1>1, <1>10 DEF OneList
<1>17. Counts'
  BY <1>15 DEF Counts
<1> QED BY <1>13, <1>16, <1>17 DEF References

\* Deleting a namespace sends its threads and their references to root.
LEMMA DeleteKindReferences ==
  ASSUME TypeOK, References, NEW k \in Kind, NEW c \in Container, DeleteKind(k, c),
         live' = live \ {<<k, c>>}, built' = [built EXCEPT ![c] = @ \ {k}],
         UNCHANGED astray,
         k = "ipc" /\ Counted(k) => Pointing(k, c) = {}
  PROVE  References'
<1>1. Alive /\ OneList /\ Counts
  BY DEF References
<1>2. c \in Namespace /\ Root \in Namespace /\ Root # c /\ Container \subseteq Namespace
  BY NameAssumption DEF Namespace
<1>15. PICK taken \in Taken(k, c) : Takes(k, c, taken)
  BY DeleteKindStep
<1>16. /\ taken \in SUBSET Thread /\ taken \subseteq Redirected(k, c)
       /\ k # "pid" => taken = Redirected(k, c)
  BY TakenType
<1>3. /\ rc'[k][Root] = rc[k][Root] + Cardinality(taken)
      /\ \A j \in Kind, n \in Namespace :
           j # k \/ n \notin {Root, c} => rc'[j][n] = rc[j][n]
      /\ \A u \in Thread :
           ptr'[k][u] = IF u \in Redirected(k, c) /\ ptr[k][u] = c
                        THEN Root ELSE ptr[k][u]
      /\ \A j \in Kind \ {k} : ptr'[j] = ptr[j]
  <2>1. rc'[k][Root] = rc[k][Root] + Cardinality(taken)
    BY <1>15, Zenon DEF Takes
  <2>2. /\ \A j \in Kind, n \in Namespace :
             j # k \/ n \notin {Root, c} => rc'[j][n] = rc[j][n]
        /\ \A u \in Thread :
             ptr'[k][u] = IF u \in Redirected(k, c) /\ ptr[k][u] = c
                          THEN Root ELSE ptr[k][u]
        /\ \A j \in Kind \ {k} : ptr'[j] = ptr[j]
    BY DeleteKindStep
  <2> QED BY <2>1, <2>2
<1>4. /\ k # "pid" => numbered' = numbered
      /\ k = "pid" => /\ numbered'[Root] = numbered[Root] \cup taken /\ numbered'[c] = {}
                      /\ \A n \in Namespace \ {Root, c} : numbered'[n] = numbered[n]
  BY <1>15, Zenon DEF Takes
<1>5. \A j \in Kind, n \in Namespace :
        j # k \/ n \notin {Root, c} => Pointing(j, n)' = Pointing(j, n)
  <2>1. ASSUME NEW j \in Kind \ {k}, NEW n \in Namespace
        PROVE  Pointing(j, n)' = Pointing(j, n)
    BY <1>3, <1>4, <2>1 DEF Pointing
  <2>2. ASSUME NEW n \in Namespace \ {Root, c} PROVE Pointing(k, n)' = Pointing(k, n)
    BY <1>3, <1>4, <2>2 DEF Pointing
  <2> QED BY <2>1, <2>2
<1>6. k # "ipc" => /\ Pointing(k, c)' = {}
                   /\ Pointing(k, Root)' = Pointing(k, Root) \cup taken
                   /\ Pointing(k, Root) \cap taken = {}
  <2>1. CASE k = "pid"
    BY <1>1, <1>2, <1>4, <1>16, <2>1 DEF Pointing, Redirected, OneList
  <2>2. CASE k \notin {"pid", "ipc"}
    <3>1. Redirected(k, c) = {u \in Thread : ptr[k][u] = c}
      BY <2>2 DEF Redirected
    <3> QED BY <1>2, <1>3, <1>16, <2>2, <3>1 DEF Pointing
  <2> QED BY <2>1, <2>2
<1>7. Counted(k) => Pointing(k, c)' = {}
  <2>1. ASSUME k = "ipc", Counted(k) PROVE Pointing(k, c)' = {}
    <3>1. \A u \in Thread : ptr[k][u] # c
      BY <2>1 DEF Pointing
    <3> QED BY <1>2, <1>3, <2>1, <3>1 DEF Pointing
  <2> QED BY <1>6, <2>1
<1>8. \A j : Counted(j)' <=> Counted(j)
  BY DEF Counted
<1>9. built'[c] = built[c] \ {k} /\ \A d \in Container \ {c} : built'[d] = built[d]
  BY DEF TypeOK
<1>10. Alive'
  <2> SUFFICES ASSUME NEW d \in Container
               PROVE  /\ \A part \in built'[d] : Counted(part)' => <<part, d>> \in live'
                      /\ \A j \in Kind : Counted(j)' /\ Pointing(j, d)' # {} =>
                           <<j, d>> \in live'
    BY DEF Alive
  <2>1. ASSUME NEW part \in built'[d], Counted(part)' PROVE <<part, d>> \in live'
    BY <1>1, <1>8, <1>9, <2>1 DEF Alive
  <2>2. ASSUME NEW j \in Kind, Counted(j)', Pointing(j, d)' # {} PROVE <<j, d>> \in live'
    <3>1. j # k \/ d # c
      BY <1>7, <1>8, <2>2
    <3>2. d \in Namespace /\ d # Root
      BY <1>2, NameAssumption
    <3>3. Pointing(j, d) # {}
      BY <1>5, <2>2, <3>1, <3>2
    <3> QED BY <1>1, <1>8, <2>2, <3>1, <3>3 DEF Alive
  <2> QED BY <2>1, <2>2
<1>11. k # "ipc" => rc'[k][Root] = RootRc[k] + Cardinality(Pointing(k, Root)')
  <2> SUFFICES ASSUME k # "ipc"
               PROVE  rc'[k][Root] = RootRc[k] + Cardinality(Pointing(k, Root)')
    OBVIOUS
  <2> DEFINE S == Pointing(k, Root)
             T == taken
  <2>1. rc[k][Root] = RootRc[k] + Cardinality(S)
    BY <1>1 DEF Counts, Counted
  <2>2. IsFiniteSet(S) /\ IsFiniteSet(T) /\ Cardinality(S) \in Nat /\ Cardinality(T) \in Nat
    BY <1>2, <1>16, PointingType, ThreadSets
  <2>3. S \cap T = {}
    BY <1>6
  <2>4. RootRc[k] \in Int
    BY DEF RootRc, Kind
  <2>5. rc'[k][Root] = rc[k][Root] + Cardinality(T)
    BY <1>3
  <2>6. Pointing(k, Root)' = S \cup T
    BY <1>6
  <2> HIDE DEF S, T
  <2>7. Cardinality(S \cup T) = Cardinality(S) + Cardinality(T)
    <3>1. Cardinality(S \cup T) = Cardinality(S) + Cardinality(T) - Cardinality({})
      BY <2>2, <2>3, FS_Union
    <3>2. Cardinality({}) = 0
      BY FS_EmptySet
    <3> QED BY <2>2, <3>1, <3>2, Undiminished
  <2>8. rc[k][Root] + Cardinality(T) = RootRc[k] + Cardinality(S \cup T)
    BY <2>1, <2>2, <2>4, <2>7
  <2> QED BY <2>5, <2>6, <2>8
<1>12. ASSUME NEW j \in Kind, Counted(j)'
       PROVE  /\ j # "ipc" => rc'[j][Root] = RootRc[j] + Cardinality(Pointing(j, Root)')
              /\ \A d \in Container : <<j, d>> \in live' =>
                   rc'[j][d] = 1 + Cardinality(Pointing(j, d)')
  <2>1. ASSUME j # "ipc"
        PROVE  rc'[j][Root] = RootRc[j] + Cardinality(Pointing(j, Root)')
    <3>1. CASE j = k
      BY <1>11, <2>1, <3>1
    <3>2. CASE j # k
      <4>1. rc'[j][Root] = rc[j][Root] /\ Pointing(j, Root)' = Pointing(j, Root)
        BY <1>2, <1>3, <1>5, <3>2
      <4>2. rc[j][Root] = RootRc[j] + Cardinality(Pointing(j, Root))
        BY <1>1, <1>8, <1>12, <2>1 DEF Counts
      <4> QED BY <4>1, <4>2
    <3> QED BY <3>1, <3>2
  <2>2. ASSUME NEW d \in Container, <<j, d>> \in live'
        PROVE  rc'[j][d] = 1 + Cardinality(Pointing(j, d)')
    <3>1. <<j, d>> \in live /\ (j # k \/ d # c) /\ d # Root /\ d \in Namespace
      BY <1>2, <2>2, NameAssumption
    <3>2. rc'[j][d] = rc[j][d] /\ Pointing(j, d)' = Pointing(j, d)
      BY <1>3, <1>5, <3>1
    <3>3. rc[j][d] = 1 + Cardinality(Pointing(j, d))
      BY <1>1, <1>8, <1>12, <3>1 DEF Counts
    <3> QED BY <3>2, <3>3
  <2> QED BY <2>1, <2>2
<1>13. Counts'
  BY <1>12 DEF Counts
<1>14. OneList'
  <2>1. CASE k = "pid"
    <3>1. taken \subseteq numbered[c]
      BY <1>16, <2>1 DEF Redirected
    <3>2. ASSUME NEW d \in Namespace, NEW e \in Namespace, d # e
          PROVE  numbered'[d] \cap numbered'[e] = {}
      <4>1. \A m, n \in Namespace : m # n => numbered[m] \cap numbered[n] = {}
        BY <1>1 DEF OneList
      <4>2. CASE d = c \/ e = c
        BY <1>4, <2>1, <4>2
      <4>3. CASE d # c /\ e # c
        BY <1>2, <1>4, <2>1, <3>1, <3>2, <4>1, <4>3
      <4> QED BY <4>2, <4>3
    <3> QED BY <3>2 DEF OneList
  <2>2. CASE k # "pid"
    BY <1>1, <1>4, <2>2 DEF OneList
  <2> QED BY <2>1, <2>2
<1> QED BY <1>10, <1>13, <1>14 DEF References

\* Nobody is at home in a container that is being taken apart.
LEMMA NobodyHome ==
  ASSUME AllocInv, Exclusive, Homes, NEW p \in Thread, frame[p].op = "delete",
         astray = {}, NEW t \in Thread
  PROVE  \A part \in Joined : Place(part, t) # frame[p].c
<1>1. /\ frame[p].c \in Container
      /\ \A q \in Thread \ {p} : frame[q].c # frame[p].c
  BY Alone
<1>2. attached[frame[p].c] = None /\ t # None
  BY NameAssumption DEF Exclusive, CallOK
<1>3. \A part : ~Home(t, frame[p].c, part)
  BY <1>1, <1>2 DEF Home
<1> QED BY <1>1, <1>3 DEF Homes

\* Deleting a part keeps the references.
LEMMA DeletePartReferences ==
  ASSUME AllocInv, Exclusive, References, Homes, NEW p \in Thread, NEW part \in Part,
         DeletePart(p, part)
  PROVE  References'
<1>1. TypeOK /\ frame[p].op = "delete" /\ frame[p].c \in Container
  <2>1. TypeOK /\ frame[p].op = "delete"
    BY DEF AllocInv, DeletePart, At
  <2> QED BY <2>1, Alone
<1> SUFFICES ASSUME NEW c \in Container, c = frame[p].c PROVE References'
  BY <1>1
<1>2. /\ built' = [built EXCEPT ![c] = @ \ {part}]
      /\ live' = live \ {<<part, c>>} /\ UNCHANGED astray
      /\ IF part \in Kind THEN DeleteKind(part, c)
                          ELSE UNCHANGED <<ptr, rc, numbered, nodeless>>
  BY DEF DeletePart
<1>3. CASE part \in Kind
  <2>1. part = "ipc" /\ Counted(part) => Pointing(part, c) = {}
    BY <1>1, <1>3, NobodyHome DEF Counted, Pointing, Joined, Place
  <2> QED BY <1>1, <1>2, <1>3, <2>1, DeleteKindReferences
<1>4. CASE part \notin Kind
  <2>1. UNCHANGED <<ptr, rc, numbered, nodeless>>
    BY <1>2, <1>4
  <2>2. Alive /\ OneList /\ Counts
    BY DEF References
  <2>3. \A j, n : Pointing(j, n)' = Pointing(j, n)
    BY <2>1 DEF Pointing
  <2>4. \A j : Counted(j)' <=> Counted(j)
    BY <1>2 DEF Counted
  <2>5. built'[c] = built[c] \ {part} /\ \A d \in Container \ {c} : built'[d] = built[d]
    BY <1>1, <1>2 DEF TypeOK
  <2>6. Alive'
    BY <1>2, <1>4, <2>2, <2>3, <2>4, <2>5 DEF Alive
  <2>7. Counts' /\ OneList'
    BY <1>2, <2>1, <2>2, <2>3, <2>4 DEF Counts, OneList
  <2> QED BY <2>6, <2>7 DEF References
<1> QED BY <1>3, <1>4

\* The steps of a call keep the references.
LEMMA StepReferences ==
  ASSUME AllocInv, Exclusive, References, Homes, NEW p \in Thread, Step(p)
  PROVE  References'
<1>1. TypeOK
  BY DEF AllocInv
<1>2. ASSUME NEW part \in Part, Visit(p, part) PROVE References'
  <2>1. CASE EnterCgroup(p) \/ LeaveCgroup(p) \/ EnterIo(p) \/ LeaveIo(p)
    <3>1. UNCHANGED <<built, live, rc, numbered, ptr, astray>>
      BY <2>1 DEF EnterCgroup, LeaveCgroup, EnterIo, LeaveIo, objects, pids
    <3> QED BY <1>1, <3>1, ReferencesKept
  <2> QED BY <1>2, <2>1, CreatePartReferences, DeletePartReferences, MoveVisitReferences
          DEF Visit
<1>3. ASSUME Ending(p) PROVE References'
  <2>1. UNCHANGED <<built, live, rc, numbered, ptr>> /\ astray \subseteq astray'
    BY <1>3, EndingKeeps
  <2> QED BY <1>1, <2>1, ReferencesKept
<1> QED BY <1>2, <1>3, StepSplit

\* So does a call that begins.
LEMMA BeginReferences ==
  ASSUME AllocInv, References, NEW p \in Thread, NEW c \in Container, Begin(p, c)
  PROVE  References'
<1>1. TypeOK
  BY DEF AllocInv
<1>2. UNCHANGED <<live, rc, numbered, ptr>> /\ astray \subseteq astray'
  BY DEF Begin, CreateBegin, EnterBegin, LeaveBegin, DeleteBegin, objects, members, pids
<1>3. built' = built \/ built' = [built EXCEPT ![c] = {}]
  BY DEF Begin, CreateBegin, EnterBegin, LeaveBegin, DeleteBegin, objects
<1>4. \A d \in Container : built'[d] \subseteq built[d]
  BY <1>1, <1>3 DEF TypeOK
<1> QED BY <1>1, <1>2, <1>4, ReferencesKept
-----------------------------------------------------------------------------
(* Vids and PID pointers *)

\* A thread whose move is not refused takes its vid along.
LEMMA MoveVids ==
  ASSUME TypeOK, OneList, Vids, NEW k \in Kind, NEW t \in Thread,
         NEW dst \in Namespace, MoveKind(k, t, ptr[k][t], dst)
  PROVE  Vids'
<1>1. ptr[k][t] \in Namespace
  BY DEF TypeOK
<1> SUFFICES ASSUME NEW src \in Namespace, src = ptr[k][t],
                    NEW u \in Thread \ refused', NEW n \in Namespace, u \in numbered'[n]
             PROVE  ptr'["pid"][u] = n
  BY <1>1 DEF Vids
<1>2. CASE src = dst
  BY <1>2 DEF MoveKind, pids, Vids
<1>3. CASE src # dst /\ k # "pid"
  <2>1. ptr' = [ptr EXCEPT ![k][t] = dst] /\ UNCHANGED <<numbered, refused>>
    BY <1>3 DEF MoveKind, Move, pids
  <2>2. ptr'["pid"] = ptr["pid"]
    BY <1>3, <2>1 DEF TypeOK, Kind
  <2> QED BY <2>1, <2>2 DEF Vids
<1>4. CASE src # dst /\ k = "pid"
  <2>1. MovePid(t, src, dst)
    BY <1>4 DEF MoveKind
  <2>2. ptr'["pid"][t] = dst /\ \A v \in Thread \ {t} : ptr'["pid"][v] = ptr["pid"][v]
    BY <1>4, <2>1 DEF MovePid, TypeOK
  <2>3. CASE refused' = refused \cup {t} /\ UNCHANGED numbered
    BY <2>2, <2>3 DEF Vids
  <2>4. CASE /\ CanMovePid(t, src, dst) /\ refused' = refused \ {t}
             /\ numbered' = [numbered EXCEPT ![src] = @ \ {t}, ![dst] = @ \cup {t}]
    <3>1. /\ numbered'[src] = numbered[src] \ {t} /\ numbered'[dst] = numbered[dst] \cup {t}
          /\ \A m \in Namespace \ {src, dst} : numbered'[m] = numbered[m]
      BY <1>4, <2>4 DEF TypeOK
    <3>2. t \in numbered[src]
      BY <2>4 DEF CanMovePid
    <3>3. CASE u = t
      <4>1. n = dst
        BY <3>1, <3>2, <3>3 DEF OneList
      <4> QED BY <2>2, <3>3, <4>1
    <3>4. CASE u # t
      <4>1. u \in numbered[n] /\ u \notin refused
        BY <2>4, <3>1, <3>4
      <4> QED BY <2>2, <3>4, <4>1 DEF Vids
    <3> QED BY <3>3, <3>4
  <2> QED BY <2>1, <2>3, <2>4 DEF MovePid
<1> QED BY <1>2, <1>3, <1>4

\* A thread that is redirected and gets a vid of root points there.
LEMMA DeleteKindVids ==
  ASSUME TypeOK, Vids, NEW k \in Kind, NEW c \in Container, DeleteKind(k, c),
         UNCHANGED refused
  PROVE  Vids'
<1>1. PICK taken \in Taken(k, c) : Takes(k, c, taken)
  BY DeleteKindStep
<1>2. /\ \A u \in Thread :
           ptr'[k][u] = IF u \in Redirected(k, c) /\ ptr[k][u] = c
                        THEN Root ELSE ptr[k][u]
      /\ \A j \in Kind \ {k} : ptr'[j] = ptr[j]
  BY DeleteKindStep
<1> SUFFICES ASSUME NEW u \in Thread \ refused, NEW n \in Namespace, u \in numbered'[n]
             PROVE  ptr'["pid"][u] = n
  BY DEF Vids
<1>3. c \in Namespace /\ Root \in Namespace /\ Root # c
  BY NameAssumption DEF Namespace
<1>4. CASE k # "pid"
  <2>1. numbered' = numbered /\ ptr'["pid"] = ptr["pid"]
    BY <1>1, <1>2, <1>4 DEF Takes, Kind
  <2> QED BY <2>1 DEF Vids
<1>5. CASE k = "pid"
  <2>1. /\ numbered'[Root] = numbered[Root] \cup taken /\ numbered'[c] = {}
        /\ \A m \in Namespace \ {Root, c} : numbered'[m] = numbered[m]
    BY <1>1, <1>5 DEF Takes
  <2>2. taken \subseteq numbered[c] /\ Redirected(k, c) = numbered[c]
    BY <1>5 DEF Taken, Redirected
  <2>3. CASE u \in numbered[n]
    <3>1. ptr["pid"][u] = n
      BY <2>3 DEF Vids
    <3>2. n # c
      BY <2>1
    <3> QED BY <1>2, <1>5, <3>1, <3>2
  <2>4. CASE u \notin numbered[n]
    <3>1. n = Root /\ u \in taken
      BY <2>1, <2>4
    <3>2. ptr["pid"][u] = c
      BY <1>3, <2>2, <3>1 DEF Vids
    <3> QED BY <1>2, <1>5, <2>2, <3>1, <3>2
  <2> QED BY <2>3, <2>4
<1> QED BY <1>4, <1>5

\* The steps of a call keep vids and pointers together.
LEMMA StepVids ==
  ASSUME AllocInv, References, Vids, NEW p \in Thread, Step(p)
  PROVE  Vids'
<1>1. TypeOK /\ Shape /\ OneList
  BY DEF AllocInv, References
<1>2. ASSUME NEW part \in Part, Visit(p, part) PROVE Vids'
  <2>1. CASE EnterCgroup(p) \/ LeaveCgroup(p) \/ EnterIo(p) \/ LeaveIo(p)
    <3>1. UNCHANGED <<numbered, refused, ptr>>
      BY <2>1 DEF EnterCgroup, LeaveCgroup, EnterIo, LeaveIo, pids
    <3> QED BY <3>1 DEF Vids
  <2>2. CASE CreatePart(p, part)
    <3>1. /\ UNCHANGED <<refused, ptr>>
          /\ numbered' = numbered \/ numbered' = [numbered EXCEPT ![frame[p].c] = {}]
      BY <2>2 DEF CreatePart
    <3>2. \A n \in Namespace : numbered'[n] \subseteq numbered[n]
      BY <1>1, <3>1 DEF TypeOK
    <3> QED BY <3>1, <3>2 DEF Vids
  <2>3. CASE DeletePart(p, part)
    <3>1. /\ frame[p].op = "delete" /\ UNCHANGED refused
          /\ IF part \in Kind THEN DeleteKind(part, frame[p].c)
                              ELSE UNCHANGED <<ptr, rc, numbered, nodeless>>
      BY <2>3 DEF DeletePart, At
    <3>2. frame[p].c \in Container
      BY <1>1, <3>1, AtWork
    <3>3. CASE part \in Kind
      BY <1>1, <3>1, <3>2, <3>3, DeleteKindVids
    <3>4. CASE part \notin Kind
      BY <3>1, <3>4 DEF Vids
    <3> QED BY <3>3, <3>4
  <2>4. CASE part \in Kind /\ EnterKind(p, part)
    <3>1. frame[p].op = "enter" /\ MoveKind(part, p, ptr[part][p], frame[p].c)
      BY <2>4 DEF EnterKind, At
    <3>2. frame[p].c \in Namespace
      BY <1>1, <3>1, AtWork
    <3> QED BY <1>1, <2>4, <3>1, <3>2, MoveVids
  <2>5. CASE part \in Kind /\ LeaveKind(p, part)
    <3> DEFINE t == frame[p].t
               dst == IF ptr[part][t] = frame[p].c THEN Root ELSE ptr[part][t]
    <3>1. frame[p].op = "leave" /\ MoveKind(part, t, ptr[part][t], dst)
      BY <2>5 DEF LeaveKind, At
    <3>2. t \in Thread
      BY <1>1, <3>1, AtWork
    <3>3. dst \in Namespace
      BY <1>1, <2>5, <3>2 DEF TypeOK, Namespace
    <3> HIDE DEF t, dst
    <3> QED BY <1>1, <2>5, <3>1, <3>2, <3>3, MoveVids
  <2> QED BY <1>2, <2>1, <2>2, <2>3, <2>4, <2>5 DEF Visit
<1>3. ASSUME Ending(p) PROVE Vids'
  <2>1. UNCHANGED <<numbered, refused, ptr>>
    BY <1>3, EndingKeeps
  <2> QED BY <2>1 DEF Vids
<1> QED BY <1>2, <1>3, StepSplit

\* A call that begins moves nobody.
LEMMA BeginVids ==
  ASSUME Vids, NEW p \in Thread, NEW c \in Container, Begin(p, c)
  PROVE  Vids'
<1>1. UNCHANGED <<numbered, refused, ptr>>
  BY DEF Begin, CreateBegin, EnterBegin, LeaveBegin, DeleteBegin, members, pids
<1> QED BY <1>1 DEF Vids
-----------------------------------------------------------------------------
(* Threads and the containers they are in *)

\* A step takes a thread into the container it enters, or out of the container a
\* call makes it leave or takes apart, part by part.
Shifts(p, part, u) ==
  /\ part \in frame[p].todo
  /\ \/ frame[p].op = "enter" /\ u = p /\ Place(part, u)' = frame[p].c
     \/ /\ Place(part, u) = frame[p].c /\ Place(part, u)' \notin Container
        /\ \/ frame[p].op = "leave" /\ u = frame[p].t
           \/ frame[p].op = "delete"
Moves(p) ==
  \A u \in Thread, part \in Joined :
    Place(part, u)' = Place(part, u) \/ Shifts(p, part, u)

\* A visit moves threads in this way only.
LEMMA VisitMoves ==
  ASSUME AllocInv, NEW p \in Thread, NEW part \in Part, Visit(p, part)
  PROVE  Moves(p)
<1>1. TypeOK /\ Shape /\ Root \notin Container /\ None \notin Container
  BY NameAssumption DEF AllocInv
<1>2. part \in frame[p].todo /\ "cgroup" \notin Kind
  BY VisitFrame DEF GoesOn, AllocInv, Kind
<1>3. CASE CreatePart(p, part) \/ EnterIo(p) \/ LeaveIo(p)
  BY <1>3 DEF CreatePart, EnterIo, LeaveIo, Moves, Place
<1>4. CASE DeletePart(p, part)
  <2>1. frame[p].op = "delete" /\ UNCHANGED cgroup
          /\ IF part \in Kind THEN DeleteKind(part, frame[p].c)
                              ELSE UNCHANGED <<ptr, rc, numbered, nodeless>>
    BY <1>4 DEF DeletePart, At
  <2>2. CASE part \in Kind
    <3>1. frame[p].c \in Container
      BY <1>1, <2>1, AtWork
    <3>2. /\ \A u \in Thread :
               \/ ptr'[part][u] = ptr[part][u]
               \/ ptr[part][u] = frame[p].c /\ ptr'[part][u] = Root
          /\ \A j \in Kind \ {part} : ptr'[j] = ptr[j]
      BY <1>1, <2>1, <2>2, <3>1, DeleteKindStep
    <3> QED BY <1>1, <1>2, <2>1, <2>2, <3>2 DEF Moves, Shifts, Place, Joined
  <2> QED BY <2>1, <2>2 DEF Moves, Place
<1>5. ASSUME part \in Kind, EnterKind(p, part) PROVE Moves(p)
  <2>1. frame[p].op = "enter" /\ MoveKind(part, p, ptr[part][p], frame[p].c)
          /\ UNCHANGED cgroup
    BY <1>5 DEF EnterKind, At
  <2>2. frame[p].c \in Namespace
    BY <1>1, <2>1, AtWork
  <2>3. /\ ptr'[part][p] = frame[p].c
        /\ \A j \in Kind, u \in Thread : j # part \/ u # p => ptr'[j][u] = ptr[j][u]
    BY <1>1, <1>5, <2>1, <2>2, MoveKindStep
  <2> QED BY <1>2, <1>5, <2>1, <2>3 DEF Moves, Shifts, Place, Joined
<1>6. ASSUME part \in Kind, LeaveKind(p, part) PROVE Moves(p)
  <2> DEFINE t == frame[p].t
             dst == IF ptr[part][t] = frame[p].c THEN Root ELSE ptr[part][t]
  <2>1. frame[p].op = "leave" /\ MoveKind(part, t, ptr[part][t], dst) /\ UNCHANGED cgroup
    BY <1>6 DEF LeaveKind, At
  <2>2. t \in Thread
    BY <1>1, <2>1, AtWork
  <2>3. dst \in Namespace
    BY <1>1, <1>6, <2>2 DEF TypeOK, Namespace
  <2>4. \/ dst = ptr[part][t]
        \/ ptr[part][t] = frame[p].c /\ dst = Root
    OBVIOUS
  <2>5. t = frame[p].t
    OBVIOUS
  <2> HIDE DEF t, dst
  <2>6. /\ ptr'[part][t] = dst
        /\ \A j \in Kind, u \in Thread : j # part \/ u # t => ptr'[j][u] = ptr[j][u]
    BY <1>1, <1>6, <2>1, <2>2, <2>3, MoveKindStep
  <2> QED BY <1>1, <1>2, <1>6, <2>1, <2>4, <2>5, <2>6 DEF Moves, Shifts, Place, Joined
<1>7. ASSUME part = "cgroup", EnterCgroup(p) PROVE Moves(p)
  <2>1. /\ frame[p].op = "enter" /\ cgroup' = [cgroup EXCEPT ![p] = frame[p].c]
        /\ UNCHANGED ptr
    BY <1>7 DEF EnterCgroup, At
  <2> QED BY <1>1, <1>2, <1>7, <2>1 DEF Moves, Shifts, Place, Joined, TypeOK
<1>8. ASSUME part = "cgroup", LeaveCgroup(p) PROVE Moves(p)
  <2>1. /\ frame[p].op = "leave" /\ UNCHANGED ptr
        /\ \/ UNCHANGED cgroup
           \/ /\ cgroup[frame[p].t] = frame[p].c
              /\ cgroup' = [cgroup EXCEPT ![frame[p].t] = None]
    BY <1>8 DEF LeaveCgroup, At
  <2>2. frame[p].t \in Thread
    BY <1>1, <2>1, AtWork
  <2> QED BY <1>1, <1>2, <1>8, <2>1, <2>2 DEF Moves, Shifts, Place, Joined, TypeOK
<1> QED BY <1>3, <1>4, <1>5, <1>6, <1>7, <1>8 DEF Visit

\* The steps of a call move threads in this way only.
LEMMA StepMoves ==
  ASSUME AllocInv, NEW p \in Thread, Step(p)
  PROVE  Moves(p)
<1>1. Ending(p) => UNCHANGED <<ptr, cgroup>>
  BY EndingKeeps
<1>2. UNCHANGED <<ptr, cgroup>> => Moves(p)
  BY DEF Moves, Place
<1> QED BY <1>1, <1>2, VisitMoves, StepSplit

\* Only delete() takes a part out of its container.
LEMMA VisitBuilt ==
  ASSUME AllocInv, NEW p \in Thread, NEW part \in Part, Visit(p, part)
  PROVE  frame[p].op = "delete" \/ \A c \in Container : built[c] \subseteq built'[c]
<1>1. DeletePart(p, part) => frame[p].op = "delete"
  BY DEF DeletePart, At
<1>2. CreatePart(p, part) => built' = [built EXCEPT ![frame[p].c] = @ \cup {part}]
  BY DEF CreatePart
<1>3. ~DeletePart(p, part) /\ ~CreatePart(p, part) => built' = built
  BY DEF Visit, EnterKind, LeaveKind, EnterCgroup, LeaveCgroup, EnterIo, LeaveIo, objects
<1>4. CASE CreatePart(p, part)
  <2>1. built \in [Container -> SUBSET Part]
    BY DEF AllocInv, TypeOK
  <2> QED BY <1>2, <1>4, <2>1
<1> QED BY <1>1, <1>3, <1>4

\* A call that has something to visit in a container other than its own making or
\* taking apart finds it built.
LEMMA TodoBuilt ==
  ASSUME AllocInv, Exclusive, NEW p \in Thread, frame[p].op \in {"enter", "leave"}
  PROVE  flags[frame[p].c] = built[frame[p].c] /\ frame[p].todo \subseteq built[frame[p].c]
<1>1. frame[p].todo \subseteq flags[frame[p].c] /\ (frame[p].c \in given \/ frame[p].delete)
  BY DEF Exclusive, CallOK
<1>2. frame[p].delete => Owns(p) /\ frame[p].op = "leave"
  BY DEF Owns, AllocInv, Shape
<1> QED BY <1>1, <1>2 DEF AllocInv, Ownership

\* A leave() that is at its end has left nothing behind.
LEMMA LeftAll ==
  ASSUME AllocInv, Exclusive, Leaving, NEW p \in Thread, AtEnd(p, "leave")
  PROVE  /\ \A part \in Joined \cap built[frame[p].c] :
              Place(part, frame[p].t) # frame[p].c
         /\ frame[p].t \notin weights[frame[p].c]
         /\ flags[frame[p].c] = built[frame[p].c]
<1>1. frame[p].op = "leave" /\ frame[p].todo = {} /\ frame[p].c \in Container
  <2>1. frame[p].op = "leave" /\ frame[p].todo = {}
    BY DEF AtEnd
  <2> QED BY <2>1, Alone
<1>2. flags[frame[p].c] = built[frame[p].c]
  BY <1>1, TodoBuilt
<1>3. Left(p) /\ (weights[frame[p].c] # {} => "io" \in built[frame[p].c])
  BY <1>1 DEF Leaving
<1> QED BY <1>1, <1>2, <1>3 DEF Left

\* A local step leaves homes in other containers alone.
LEMMA HomeElsewhere ==
  ASSUME NEW p \in Thread, NEW c, Local(p, c), frame[p].c \in {c, None},
         NEW t \in Thread, NEW d \in Container, d # c, NEW part, Home(t, d, part)
  PROVE  Home(t, d, part)'
<1>1. d # None
  BY NameAssumption
<1>2. built'[d] = built[d] /\ attached'[d] = attached[d]
  BY DEF Local
<1>3. CASE attached[d] = t
  BY <1>2, <1>3 DEF Home
<1>4. CASE frame[t].op = "enter" /\ frame[t].c = d
  <2>1. t # p
    BY <1>1, <1>4
  <2>2. frame'[t] = frame[t]
    BY <2>1 DEF Local, Others
  <2> QED BY <1>2, <1>4, <2>2 DEF Home
<1> QED BY <1>3, <1>4 DEF Home

\* The steps of a call keep the threads in containers that are theirs.
LEMMA StepHomes ==
  ASSUME AllocInv, Exclusive, Homes, Leaving, NEW p \in Thread, Step(p)
  PROVE  Homes'
<1>1. Local(p, frame[p].c) /\ Moves(p)
  BY StepExclusive, StepMoves
<1>2. frame[p].op # "idle"
  BY EndingKeeps, StepSplit DEF Visit, CreatePart, DeletePart, EnterKind, LeaveKind,
     EnterCgroup, LeaveCgroup, EnterIo, LeaveIo, At
<1> SUFFICES ASSUME NEW e \in Container, e = frame[p].c, astray' = {}, NEW t \in Thread,
                    NEW d \in Container, NEW part \in Joined, Place(part, t)' = d
             PROVE  Home(t, d, part)'
  BY <1>1 DEF Homes, Local
<1>3. astray = {} /\ TypeOK /\ Shape /\ CallOK(p) /\ e # None /\ t # None
  BY <1>1, NameAssumption DEF Local, AllocInv, Exclusive
<1>4. \A q \in Thread \ {p} : frame[q].c # e
  BY <1>1 DEF Local
<1>5. Place(part, t) = d => Home(t, d, part)
  BY <1>3 DEF Homes
<1>6. CASE d # e
  <2>1. Place(part, t) = d
    BY <1>1, <1>6 DEF Moves, Shifts
  <2> QED BY <1>1, <1>5, <1>6, <2>1, HomeElsewhere
<1>7. CASE d = e
  <2>1. ASSUME frame[p].op = "delete" PROVE FALSE
    <3>1. Place(part, t) # d
      BY <1>3, <1>7, <2>1, NobodyHome
    <3> QED BY <1>1, <1>7, <2>1, <3>1 DEF Moves, Shifts
  <2>2. ASSUME NEW a \in Part, Visit(p, a) PROVE Home(t, d, part)'
    <3>1. /\ frame'[p].op = frame[p].op /\ frame'[p].c = e /\ attached' = attached
          /\ frame'[t].op = frame[t].op /\ frame'[t].c = frame[t].c
      <4>1. GoesOn(p, a) /\ Others(p) /\ attached' = attached
        BY <1>3, <2>2, VisitFrame, VisitKeeps
      <4> QED BY <4>1 DEF GoesOn, Others
    <3>2. built[d] \subseteq built'[d]
      BY <2>1, <2>2, VisitBuilt
    <3>3. CASE Place(part, t) = d
      BY <1>5, <3>1, <3>2, <3>3 DEF Home
    <3>4. CASE Place(part, t) # d
      <4>1. frame[p].op = "enter" /\ t = p /\ part \in frame[p].todo
        BY <1>1, <3>4 DEF Moves, Shifts
      <4>2. part \in built[d]
        BY <1>7, <4>1, TodoBuilt
      <4> QED BY <1>7, <3>1, <3>2, <4>1, <4>2 DEF Home
    <3> QED BY <3>3, <3>4
  <2>3. ASSUME Ending(p) PROVE Home(t, d, part)'
    <3>1. UNCHANGED <<ptr, cgroup, built>> /\ Others(p)
      BY <2>3, EndingKeeps
    <3>2. Home(t, d, part)
      BY <1>5, <3>1 DEF Place
    <3>3. part \in built'[d]
      BY <3>1, <3>2 DEF Home
    <3>4. CASE CreateEnd(p) \/ CreateFail(p) \/ DeleteEnd(p)
      <4>1. attached[d] = t
        BY <1>4, <1>7, <3>2, <3>4 DEF Home, CreateEnd, CreateFail, DeleteEnd, AtEnd
      <4>2. attached' = attached
        BY <3>4 DEF CreateEnd, CreateFail, DeleteEnd
      <4> QED BY <3>3, <4>1, <4>2 DEF Home
    <3>5. CASE EnterFail(p)
      BY <3>5 DEF EnterFail
    <3>6. CASE EnterEnd(p)
      <4>1. frame[p].op = "enter" /\ attached' = [attached EXCEPT ![d] = p]
        BY <1>7, <3>6 DEF EnterEnd, AtEnd
      <4>2. attached[d] \in {None, p}
        BY <1>3, <1>7, <4>1 DEF CallOK
      <4>3. t = p
        BY <1>3, <1>4, <1>7, <3>2, <4>2 DEF Home
      <4>4. attached'[d] = t
        BY <1>3, <4>1, <4>3 DEF TypeOK
      <4> QED BY <3>3, <4>4 DEF Home
    <3>7. CASE LeaveEnd(p)
      <4>1. AtEnd(p, "leave") /\ frame[p].op = "leave"
        BY <3>7 DEF LeaveEnd, AtEnd
      <4>2. attached[d] = t
        BY <1>4, <1>7, <3>2, <4>1 DEF Home
      <4>3. part \in Joined \cap built[frame[p].c] /\ Place(part, t) = frame[p].c
        BY <1>7, <3>1, <3>2 DEF Home, Place
      <4>4. frame[p].t # t
        BY <4>1, <4>3, LeftAll
      <4>5. attached' = attached
        BY <1>7, <3>7, <4>2, <4>4 DEF LeaveEnd
      <4> QED BY <3>3, <4>2, <4>5 DEF Home
    <3> QED BY <2>3, <3>4, <3>5, <3>6, <3>7 DEF Ending
  <2> QED BY <2>2, <2>3, StepSplit
<1> QED BY <1>6, <1>7

\* So does a call that begins.
LEMMA BeginHomes ==
  ASSUME Share = FALSE, AllocInv, Homes, NEW p \in Thread, NEW c \in Container,
         Begin(p, c)
  PROVE  Homes'
<1>1. Local(p, c) /\ frame[p].op = "idle" /\ TypeOK
  BY BeginLocal DEF AllocInv
<1>2. UNCHANGED <<ptr, cgroup>>
  BY DEF Begin, CreateBegin, EnterBegin, LeaveBegin, DeleteBegin, members, pids
<1>3. frame[p].c = None /\ \A q \in Thread : frame[q].c # c
  <2>1. frame[p].c = None /\ None # c
    BY <1>1, NameAssumption DEF AllocInv, Shape
  <2> QED BY <1>1, <2>1 DEF Local
<1> SUFFICES ASSUME astray' = {}, NEW t \in Thread, NEW d \in Container,
                    NEW part \in Joined, Place(part, t)' = d
             PROVE  Home(t, d, part)'
  BY DEF Homes
<1>4. Home(t, d, part)
  <2>1. astray = {} /\ Place(part, t) = d
    BY <1>1, <1>2 DEF Local, Place
  <2> QED BY <2>1 DEF Homes
<1>5. CASE d # c
  BY <1>1, <1>3, <1>4, <1>5, HomeElsewhere
<1>6. CASE d = c
  <2>1. attached[c] = t /\ built[c] # {}
    BY <1>3, <1>4, <1>6 DEF Home
  <2>2. \A parts \in FlagSets : ~CreateBegin(p, c, parts)
    <3>1. c \notin given => built[c] = {}
      BY <1>3 DEF AllocInv, Ownership
    <3> QED BY <2>1, <3>1 DEF CreateBegin
  <2>3. UNCHANGED <<attached, built>>
    BY <2>2 DEF Begin, EnterBegin, LeaveBegin, DeleteBegin, objects
  <2> QED BY <1>4, <1>6, <2>1, <2>3 DEF Home
<1> QED BY <1>5, <1>6
-----------------------------------------------------------------------------
(* Leaving *)

\* leave() takes its thread out of the part it visits.
LEMMA LeaveVisit ==
  ASSUME AllocInv, NEW p \in Thread, NEW part \in Part, Visit(p, part),
         frame[p].op = "leave", NEW t, t = frame[p].t, NEW c, c = frame[p].c
  PROVE  /\ part \in Joined => Place(part, t)' # c
         /\ part = "io" => t \notin weights'[c]
         /\ weights'[c] \subseteq weights[c]
<1>1. TypeOK /\ t \in Thread /\ c \in Container /\ Root # c /\ None # c
  <2>1. TypeOK /\ Shape
    BY DEF AllocInv
  <2>2. t \in Thread /\ c \in Container
    BY <2>1, AtWork
  <2> QED BY <2>1, <2>2, NameAssumption
<1>2. \/ part \in Kind /\ LeaveKind(p, part)
      \/ part = "cgroup" /\ LeaveCgroup(p)
      \/ part = "io" /\ LeaveIo(p)
  BY DEF Visit, CreatePart, DeletePart, EnterKind, EnterCgroup, EnterIo, At
<1>3. "cgroup" \notin Kind /\ "io" \notin Joined
  BY DEF Kind, Joined
<1>4. ASSUME part \in Kind, LeaveKind(p, part)
      PROVE  Place(part, t)' # c /\ UNCHANGED weights
  <2> DEFINE dst == IF ptr[part][t] = c THEN Root ELSE ptr[part][t]
  <2>1. MoveKind(part, t, ptr[part][t], dst) /\ UNCHANGED weights
    BY <1>4 DEF LeaveKind
  <2>2. dst \in Namespace /\ dst # c
    BY <1>1, <1>4 DEF TypeOK, Namespace
  <2> HIDE DEF dst
  <2>3. ptr'[part][t] = dst
    BY <1>1, <1>4, <2>1, <2>2, MoveKindStep
  <2> QED BY <1>3, <1>4, <2>1, <2>2, <2>3 DEF Place
<1>5. ASSUME part = "cgroup", LeaveCgroup(p)
      PROVE  Place(part, t)' # c /\ UNCHANGED weights
  <2>1. /\ UNCHANGED weights
        /\ \/ cgroup[t] = c /\ cgroup' = [cgroup EXCEPT ![t] = None]
           \/ cgroup[t] # c /\ cgroup' = cgroup
    BY <1>5 DEF LeaveCgroup
  <2>2. cgroup'[t] # c
    BY <1>1, <2>1 DEF TypeOK
  <2> QED BY <1>5, <2>1, <2>2 DEF Place
<1>6. ASSUME part = "io", LeaveIo(p) PROVE weights'[c] = weights[c] \ {t}
  <2>1. weights' = [weights EXCEPT ![c] = @ \ {t}]
    BY <1>6 DEF LeaveIo
  <2> QED BY <1>1, <2>1 DEF TypeOK
<1>7. part \in Joined => part # "io"
  BY <1>3
<1>8. "io" \notin Kind
  BY DEF Kind
<1> QED BY <1>2, <1>4, <1>5, <1>6, <1>7, <1>8

\* An IO cgroup that has threads is there.
LEMMA StepWeights ==
  ASSUME AllocInv, Exclusive, Leaving, NEW p \in Thread, Step(p)
  PROVE  \A c \in Container : weights'[c] # {} => "io" \in built'[c]
<1> SUFFICES ASSUME NEW c \in Container, weights'[c] # {} PROVE "io" \in built'[c]
  OBVIOUS
<1>1. TypeOK /\ (weights[c] # {} => "io" \in built[c])
  BY DEF AllocInv, Leaving
<1>2. ASSUME c # frame[p].c PROVE "io" \in built'[c]
  BY <1>1, <1>2, StepExclusive DEF Local
<1>3. ASSUME c = frame[p].c, NEW part \in Part, Visit(p, part) PROVE "io" \in built'[c]
  <2>1. CASE CreatePart(p, part)
    <3>1. /\ built' = [built EXCEPT ![c] = @ \cup {part}]
          /\ weights' = IF part = "io" THEN [weights EXCEPT ![c] = {}] ELSE weights
      BY <1>3, <2>1 DEF CreatePart
    <3> QED BY <1>1, <3>1 DEF TypeOK
  <2>2. CASE DeletePart(p, part)
    <3>1. /\ built' = [built EXCEPT ![c] = @ \ {part}]
          /\ weights' = IF part = "io" THEN [weights EXCEPT ![c] = {}] ELSE weights
      BY <1>3, <2>2 DEF DeletePart
    <3> QED BY <1>1, <3>1 DEF TypeOK
  <2>3. CASE EnterIo(p)
    <3>1. frame[p].op = "enter" /\ "io" \in frame[p].todo /\ built' = built
      BY <2>3 DEF EnterIo, At, objects
    <3> QED BY <1>3, <3>1, TodoBuilt
  <2>4. CASE LeaveIo(p)
    <3>1. built' = built /\ weights' = [weights EXCEPT ![c] = @ \ {frame[p].t}]
      BY <1>3, <2>4 DEF LeaveIo, objects
    <3> QED BY <1>1, <3>1 DEF TypeOK
  <2>5. CASE EnterKind(p, part) \/ LeaveKind(p, part) \/ EnterCgroup(p) \/ LeaveCgroup(p)
    BY <1>1, <2>5 DEF EnterKind, LeaveKind, EnterCgroup, LeaveCgroup, objects
  <2> QED BY <1>3, <2>1, <2>2, <2>3, <2>4, <2>5 DEF Visit
<1>4. ASSUME Ending(p) PROVE "io" \in built'[c]
  BY <1>1, <1>4, EndingKeeps
<1> QED BY <1>2, <1>3, <1>4, StepSplit

\* What other calls do leaves a leaving thread where it is.
LEMMA LeftElsewhere ==
  ASSUME AllocInv, NEW p \in Thread, NEW c, Local(p, c), NEW q \in Thread \ {p}, Left(q),
         \A u \in Thread, part \in Joined, d \in Container \ {c} :
           Place(part, u)' = d => Place(part, u) = d
  PROVE  Left(q)'
<1>1. frame'[q] = frame[q]
  BY DEF Local, Others
<1> SUFFICES ASSUME frame[q].op = "leave" PROVE Left(q)'
  BY <1>1 DEF Left
<1>2. frame[q].c \in Container \ {c} /\ frame[q].t \in Thread
  BY AtWork DEF AllocInv, Local
<1> SUFFICES ASSUME NEW d \in Container \ {c}, d = frame[q].c,
                    NEW t \in Thread, t = frame[q].t
             PROVE  Left(q)'
  BY <1>2
<1>3. flags'[d] = flags[d] /\ weights'[d] = weights[d]
  BY DEF Local
<1>4. \A part \in flags[d] \ frame[q].todo :
        /\ part \in Joined => Place(part, t) # d
        /\ part = "io" => t \notin weights[d]
  BY DEF Left
<1>5. \A part \in flags'[d] \ frame'[q].todo :
        /\ part \in Joined => Place(part, t)' # d
        /\ part = "io" => t \notin weights'[d]
  BY <1>1, <1>3, <1>4
<1>6. d = frame'[q].c /\ t = frame'[q].t
  BY <1>1
<1> QED BY <1>5, <1>6 DEF Left, Place

\* The steps of a call keep what leaving threads have left.
LEMMA StepLeaving ==
  ASSUME AllocInv, Exclusive, Leaving, NEW p \in Thread, Step(p)
  PROVE  Leaving'
<1>1. Local(p, frame[p].c) /\ Moves(p) /\ TypeOK
  BY StepExclusive, StepMoves DEF AllocInv
<1> SUFFICES ASSUME NEW c \in Container, c = frame[p].c PROVE Leaving'
  BY <1>1 DEF Local
<1>2. \A u \in Thread, part \in Joined, d \in Container \ {c} :
        Place(part, u)' = d => Place(part, u) = d
  BY <1>1 DEF Moves, Shifts
<1>3. \A q \in Thread \ {p} : Left(q)'
  BY <1>1, <1>2, LeftElsewhere DEF Leaving
<1>4. Left(p)'
  <2>1. ASSUME Ending(p) PROVE Left(p)'
    BY <2>1, EndingKeeps, IdleMade DEF TurnsToDelete, Left
  <2>2. ASSUME NEW a \in Part, Visit(p, a) PROVE Left(p)'
    <3>1. GoesOn(p, a) /\ flags' = flags
      BY <1>1, <2>2, VisitFrame, VisitKeeps
    <3> SUFFICES ASSUME frame[p].op = "leave" PROVE Left(p)'
      BY <3>1 DEF Left, GoesOn
    <3>2. frame[p].t \in Thread
      BY AtWork DEF AllocInv
    <3> SUFFICES ASSUME NEW t \in Thread, t = frame[p].t PROVE Left(p)'
      BY <3>2
    <3>3. /\ a \in Joined => Place(a, t)' # c
          /\ a = "io" => t \notin weights'[c]
          /\ weights'[c] \subseteq weights[c]
      BY <2>2, LeaveVisit
    <3>4. \A part \in flags[c] \ frame[p].todo :
            /\ part \in Joined => Place(part, t) # c
            /\ part = "io" => t \notin weights[c]
      BY DEF Leaving, Left
    <3>5. \A part \in Joined : Place(part, t) # c => Place(part, t)' # c
      BY <1>1 DEF Moves, Shifts
    <3>6. frame'[p].c = c /\ frame'[p].t = t /\ frame'[p].todo = frame[p].todo \ {a}
      BY <3>1 DEF GoesOn
    <3>7. \A part \in flags'[c] \ frame'[p].todo :
            /\ part \in Joined => Place(part, t)' # c
            /\ part = "io" => t \notin weights'[c]
      BY <3>1, <3>3, <3>4, <3>5, <3>6
    <3> QED BY <3>6, <3>7 DEF Left, Place
  <2> QED BY <2>1, <2>2, StepSplit
<1>5. \A d \in Container : weights'[d] # {} => "io" \in built'[d]
  BY StepWeights
<1> QED BY <1>3, <1>4, <1>5 DEF Leaving

\* A leave() that begins has left nothing yet.
LEMMA BeginLeaving ==
  ASSUME Share = FALSE, AllocInv, Leaving, NEW p \in Thread, NEW c \in Container,
         Begin(p, c)
  PROVE  Leaving'
<1>1. Local(p, c) /\ TypeOK /\ frame[p].op = "idle"
  BY BeginLocal DEF AllocInv
<1>2. UNCHANGED <<ptr, cgroup, weights>>
  BY DEF Begin, CreateBegin, EnterBegin, LeaveBegin, DeleteBegin, members, pids
<1>3. \A q \in Thread \ {p} : Left(q)'
  <2>1. \A u \in Thread, part \in Joined, d \in Container \ {c} :
          Place(part, u)' = d => Place(part, u) = d
    BY <1>2 DEF Place
  <2> QED BY <1>1, <2>1, LeftElsewhere DEF Leaving
<1>4. ASSUME NEW parts \in FlagSets, CreateBegin(p, c, parts)
      PROVE  Left(p)' /\ weights[c] = {}
  <2>1. frame'[p].op = "create"
    BY <1>1, <1>4, BeginFrame
  <2>2. c \notin given /\ \A q \in Thread : frame[q].c # c
    BY <1>4 DEF CreateBegin
  <2>3. built[c] = {}
    BY <2>2 DEF AllocInv, Ownership
  <2> QED BY <2>1, <2>3 DEF Left, Leaving
<1>5. ASSUME EnterBegin(p, c) \/ LeaveBegin(p, c) PROVE Left(p)' /\ built' = built
  <2>1. frame'[p].todo = flags[c] /\ frame'[p].c = c
    BY <1>1, <1>5, MoveCallFrame
  <2>2. flags' = flags /\ built' = built
    BY <1>5 DEF EnterBegin, LeaveBegin, objects
  <2> QED BY <2>1, <2>2 DEF Left
<1>6. ASSUME DeleteBegin(p, c) PROVE Left(p)' /\ built' = built
  <2>1. frame'[p].c = c /\ (frame'[p].op = "leave" => frame'[p].todo = flags[c])
    BY <1>1, <1>6, DeleteCallFrame
  <2>2. flags' = flags /\ built' = built
    BY <1>6 DEF DeleteBegin
  <2> QED BY <2>1, <2>2 DEF Left
<1>7. Left(p)' /\ (built' = built \/ weights[c] = {})
  BY <1>4, <1>5, <1>6 DEF Begin
<1>8. \A d \in Container : weights'[d] # {} => "io" \in built'[d]
  BY <1>1, <1>2, <1>7 DEF Leaving, Local
<1> QED BY <1>3, <1>7, <1>8 DEF Leaving
-----------------------------------------------------------------------------
(* Entering and staying *)

\* enter() takes its thread into the part it visits.
LEMMA EnterVisit ==
  ASSUME AllocInv, NEW p \in Thread, NEW part \in Joined, Visit(p, part),
         frame[p].op = "enter", NEW c, c = frame[p].c
  PROVE  Place(part, p)' = c
<1>1. TypeOK /\ c \in Namespace /\ "cgroup" \notin Kind /\ "io" \notin Joined
  <2>1. TypeOK /\ Shape
    BY DEF AllocInv
  <2> QED BY <2>1, AtWork DEF Kind, Joined
<1>2. \/ part \in Kind /\ EnterKind(p, part)
      \/ part = "cgroup" /\ EnterCgroup(p)
  BY <1>1 DEF Visit, CreatePart, DeletePart, LeaveKind, LeaveCgroup, LeaveIo, At
<1>3. ASSUME part \in Kind, EnterKind(p, part) PROVE Place(part, p)' = c
  <2>1. MoveKind(part, p, ptr[part][p], c)
    BY <1>3 DEF EnterKind
  <2>2. ptr'[part][p] = c
    BY <1>1, <1>3, <2>1, MoveKindStep
  <2> QED BY <1>1, <1>3, <2>2 DEF Place
<1>4. ASSUME part = "cgroup", EnterCgroup(p) PROVE Place(part, p)' = c
  <2>1. cgroup' = [cgroup EXCEPT ![p] = c]
    BY <1>4 DEF EnterCgroup
  <2> QED BY <1>1, <1>4, <2>1 DEF Place, TypeOK
<1> QED BY <1>2, <1>3, <1>4

\* What other calls do leaves an entering thread where it is.
LEMMA EnteredElsewhere ==
  ASSUME AllocInv, NEW p \in Thread, NEW c, Local(p, c), NEW q \in Thread \ {p},
         Entered(q),
         \A part \in Joined, d \in Container \ {c} :
           Place(part, q) = d => Place(part, q)' = d
  PROVE  Entered(q)'
<1>1. frame'[q] = frame[q]
  BY DEF Local, Others
<1> SUFFICES ASSUME frame[q].op = "enter" PROVE Entered(q)'
  BY <1>1 DEF Entered
<1>2. frame[q].c \in Container \ {c}
  BY AtWork DEF AllocInv, Local
<1> SUFFICES ASSUME NEW d \in Container \ {c}, d = frame[q].c PROVE Entered(q)'
  BY <1>2
<1>3. flags'[d] = flags[d]
  BY DEF Local
<1>4. \A part \in Joined \cap (flags[d] \ frame[q].todo) : Place(part, q) = d
  BY DEF Entered
<1>5. \A part \in Joined \cap (flags'[d] \ frame'[q].todo) : Place(part, q)' = d
  BY <1>1, <1>3, <1>4
<1>6. d = frame'[q].c
  BY <1>1
<1> QED BY <1>5, <1>6 DEF Entered, Place

\* The steps of a call keep what entering threads have entered.
LEMMA StepEntered ==
  ASSUME AllocInv, Exclusive, Staying, NEW p \in Thread, Step(p)
  PROVE  \A q \in Thread : Entered(q)'
<1>1. Local(p, frame[p].c) /\ Moves(p) /\ TypeOK
  BY StepExclusive, StepMoves DEF AllocInv
<1> SUFFICES ASSUME NEW c \in Container, c = frame[p].c
             PROVE  \A q \in Thread : Entered(q)'
  BY <1>1 DEF Local
<1>2. \A q \in Thread \ {p}, part \in Joined, d \in Container \ {c} :
        Place(part, q) = d => Place(part, q)' = d
  BY <1>1 DEF Moves, Shifts
<1>3. \A q \in Thread \ {p} : Entered(q)'
  BY <1>1, <1>2, EnteredElsewhere DEF Staying
<1>4. ASSUME Ending(p) PROVE Entered(p)'
  BY <1>4, EndingKeeps, IdleMade DEF TurnsToDelete, Entered
<1>5. ASSUME NEW a \in Part, Visit(p, a) PROVE Entered(p)'
  <2>1. GoesOn(p, a) /\ flags' = flags
    BY <1>1, <1>5, VisitFrame, VisitKeeps
  <2> SUFFICES ASSUME frame[p].op = "enter" PROVE Entered(p)'
    BY <2>1 DEF Entered, GoesOn
  <2>2. a \in Joined => Place(a, p)' = c
    BY <1>5, EnterVisit
  <2>3. \A part \in Joined \cap (flags[c] \ frame[p].todo) : Place(part, p) = c
    BY DEF Staying, Entered
  <2>4. \A part \in Joined : Place(part, p) = c => Place(part, p)' = c
    BY <1>1 DEF Moves, Shifts
  <2>5. frame'[p].c = c /\ frame'[p].todo = frame[p].todo \ {a}
    BY <2>1 DEF GoesOn
  <2>6. \A part \in Joined \cap (flags'[c] \ frame'[p].todo) : Place(part, p)' = c
    BY <2>1, <2>2, <2>3, <2>4, <2>5
  <2> QED BY <2>5, <2>6 DEF Entered, Place
<1> QED BY <1>3, <1>4, <1>5, StepSplit

\* A thread whose enter() succeeds is in all parts of the container.
LEMMA EnterEndSettled ==
  ASSUME AllocInv, Exclusive, Staying, NEW p \in Thread, EnterEnd(p),
         NEW c, c = frame[p].c
  PROVE  Settled(p, c)'
<1>1. /\ frame[p].op = "enter" /\ frame[p].todo = {}
      /\ attached' = [attached EXCEPT ![c] = p]
      /\ UNCHANGED <<given, flags, ptr, cgroup, astray>>
  BY DEF EnterEnd, AtEnd, objects, members, pids
<1>2. /\ TypeOK /\ frame'[p] = Idle /\ Others(p)
  BY ReturnFrame DEF AllocInv
<1>3. c \in Container /\ \A q \in Thread \ {p} : frame[q].c # c
  BY <1>1, Alone
<1>4. c \in given
  BY <1>1 DEF Exclusive, CallOK
<1>5. \A part \in Joined \cap flags[c] : Place(part, p) = c
  BY <1>1 DEF Staying, Entered
<1>6. attached'[c] = p
  BY <1>1, <1>2, <1>3 DEF TypeOK
<1>7. \A part : Place(part, p)' = Place(part, p)
  BY <1>1 DEF Place
<1>8. \A q \in Thread : frame'[q].op = "leave" /\ frame'[q].c = c => frame'[q].t # p
  BY <1>2, <1>3, IdleMade DEF Others
<1>9. frame'[p].op # "enter"
  BY <1>2, IdleMade
<1>10. \A part \in Joined \cap flags'[c] : Place(part, p)' = c
  BY <1>1, <1>5, <1>7
<1> QED BY <1>1, <1>4, <1>6, <1>8, <1>9, <1>10 DEF Settled, Place

\* The steps of other calls leave a thread that entered where it is.
LEMMA SettledKept ==
  ASSUME AllocInv, Exclusive, NEW p \in Thread, Step(p), NEW t \in Thread,
         NEW d \in Container, Settled(t, d)
  PROVE  Settled(t, d)'
<1>1. Local(p, frame[p].c) /\ Moves(p) /\ TypeOK
  BY StepExclusive, StepMoves DEF AllocInv
<1> SUFFICES ASSUME NEW e \in Container, e = frame[p].c PROVE Settled(t, d)'
  BY <1>1 DEF Local
<1>2. d \in given /\ given \subseteq given' /\ flags' = flags
  <2>1. Ending(p) => given \subseteq given' /\ flags' = flags
    BY DEF Ending, CreateEnd, EnterFail, EnterEnd, DeleteEnd, LeaveEnd, CreateFail, objects
  <2>2. \A part \in Part : Visit(p, part) => given' = given /\ flags' = flags
    BY VisitKeeps
  <2> QED BY <2>1, <2>2, StepSplit DEF Settled
<1>3. \/ /\ frame'[p].op = frame[p].op /\ frame'[p].c = frame[p].c
         /\ frame'[p].t = frame[p].t
      \/ frame'[p].op \in {"idle", "delete"}
  <2>1. Ending(p) => frame'[p].op \in {"idle", "delete"}
    BY EndingKeeps, IdleMade DEF TurnsToDelete
  <2>2. ASSUME NEW part \in Part, Visit(p, part)
        PROVE  /\ frame'[p].op = frame[p].op /\ frame'[p].c = frame[p].c
               /\ frame'[p].t = frame[p].t
    BY <1>1, <2>2, VisitFrame DEF GoesOn
  <2> QED BY <2>1, <2>2, StepSplit
<1>4. \A q \in Thread \ {p} : frame'[q] = frame[q]
  BY <1>1 DEF Local, Others
<1>5. \A q \in Thread : frame'[q].op = "leave" /\ frame'[q].c = d => frame'[q].t # t
  <2>1. \A q \in Thread : frame[q].op = "leave" /\ frame[q].c = d => frame[q].t # t
    BY DEF Settled
  <2> QED BY <1>3, <1>4, <2>1
<1>6. ASSUME t \notin astray'
      PROVE  /\ frame'[t].op = "enter" => frame'[t].c = d
             /\ attached'[d] = t
             /\ \A part \in Joined \cap flags'[d] : Place(part, t)' = d
  <2>1. /\ frame[t].op = "enter" => frame[t].c = d
        /\ attached[d] = t
        /\ \A part \in Joined \cap flags[d] : Place(part, t) = d
    BY <1>1, <1>6 DEF Local, Settled
  <2>2. frame'[t].op = "enter" => frame'[t].c = d
    BY <1>3, <1>4, <2>1
  <2>3. ~(frame[p].op = "leave" /\ e = d /\ frame[p].t = t)
    BY DEF Settled
  <2>4. ~(frame[p].op = "delete" /\ e = d)
    BY <1>2 DEF AllocInv, Ownership, Owns
  <2>5. \A part \in Joined \cap flags'[d] : Place(part, t)' = d
    BY <1>1, <1>2, <2>1, <2>3, <2>4 DEF Moves, Shifts
  <2>6. attached'[d] = t
    <3>1. CASE d # e
      BY <1>1, <2>1, <3>1 DEF Local
    <3>2. CASE d = e
      <4>1. CASE EnterEnd(p)
        <5>1. attached' = [attached EXCEPT ![e] = p] /\ frame[p].op = "enter"
          BY <4>1 DEF EnterEnd, AtEnd
        <5>2. attached[e] \in {None, p}
          BY <5>1 DEF Exclusive, CallOK
        <5>3. t = p
          BY <2>1, <3>2, <5>2, NameAssumption
        <5> QED BY <1>1, <3>2, <5>1, <5>3 DEF TypeOK
      <4>2. CASE LeaveEnd(p)
        <5>1. frame[p].op = "leave"
          BY <4>2 DEF LeaveEnd, AtEnd
        <5> QED BY <2>1, <2>3, <3>2, <4>2, <5>1 DEF LeaveEnd
      <4>3. CASE Ending(p) /\ ~EnterEnd(p) /\ ~LeaveEnd(p)
        BY <2>1, <4>3 DEF Ending, CreateEnd, EnterFail, DeleteEnd, CreateFail
      <4>4. ASSUME NEW part \in Part, Visit(p, part) PROVE attached'[d] = t
        BY <2>1, <4>4, VisitKeeps
      <4> QED BY <4>1, <4>2, <4>3, <4>4, StepSplit
    <3> QED BY <3>1, <3>2
  <2> QED BY <2>2, <2>5, <2>6
<1> QED BY <1>2, <1>5, <1>6 DEF Settled, Place

\* The steps of a call keep the threads that entered in place.
LEMMA StepStaying ==
  ASSUME AllocInv, Exclusive, Staying, NEW p \in Thread, Step(p)
  PROVE  Staying'
<1>1. \A q \in Thread : Entered(q)'
  BY StepEntered
<1>2. EnterEnd(p) \/ inside' = inside
  <2>1. Ending(p) => EnterEnd(p) \/ inside' = inside
    BY DEF Ending, CreateEnd, EnterFail, DeleteEnd, LeaveEnd, CreateFail
  <2>2. \A part \in Part : Visit(p, part) => inside' = inside
    BY VisitKeeps
  <2> QED BY <2>1, <2>2, StepSplit
<1>3. ASSUME NEW t \in Thread, NEW d \in Container, <<t, d>> \in inside'
      PROVE  Settled(t, d)'
  <2>1. CASE <<t, d>> \in inside
    BY <2>1, SettledKept DEF Staying
  <2>2. CASE <<t, d>> \notin inside
    <3>1. EnterEnd(p) /\ t = p /\ d = frame[p].c
      BY <1>2, <1>3, <2>2 DEF EnterEnd
    <3> QED BY <3>1, EnterEndSettled
  <2> QED BY <2>1, <2>2
<1> QED BY <1>1, <1>3 DEF Staying

\* So does a call that begins: a thread that enters a second container goes astray.
LEMMA BeginStaying ==
  ASSUME Share = FALSE, AllocInv, Staying, NEW p \in Thread, NEW c \in Container,
         Begin(p, c)
  PROVE  Staying'
<1>1. Local(p, c) /\ TypeOK /\ frame[p].op = "idle"
  BY BeginLocal DEF AllocInv
<1>2. UNCHANGED <<ptr, cgroup>> /\ inside' \subseteq inside
  BY DEF Begin, CreateBegin, EnterBegin, LeaveBegin, DeleteBegin, members, pids
<1>3. \A part, u : Place(part, u)' = Place(part, u)
  BY <1>2 DEF Place
<1>4. \A q \in Thread \ {p} : Entered(q)'
  BY <1>1, <1>3, EnteredElsewhere DEF Staying
<1>5. \/ \E parts \in FlagSets : CreateBegin(p, c, parts) /\ frame'[p].op = "create"
      \/ EnterBegin(p, c) /\ frame'[p].op = "enter" /\ frame'[p].todo = flags[c]
      \/ LeaveBegin(p, c) /\ frame'[p].op = "leave" /\ frame'[p].t = p
      \/ DeleteBegin(p, c) /\ frame'[p].op \in {"leave", "delete"}
  BY <1>1, BeginFrame, MoveCallFrame, DeleteCallFrame DEF Begin
<1>6. frame'[p].c = c
  BY <1>1, BeginFrame, MoveCallFrame, DeleteCallFrame DEF Begin
<1>7. EnterBegin(p, c) => flags' = flags
  BY DEF EnterBegin, objects
<1>8. Entered(p)'
  BY <1>5, <1>6, <1>7 DEF Entered
<1>9. ASSUME NEW t \in Thread, NEW d \in Container, <<t, d>> \in inside'
      PROVE  Settled(t, d)'
  <2>1. Settled(t, d)
    BY <1>2, <1>9 DEF Staying
  <2>2. d \in given /\ (DeleteBegin(p, c) => d # c) /\ (LeaveBegin(p, c) => <<t, d>> # <<p, c>>)
    BY <1>9, <2>1 DEF DeleteBegin, LeaveBegin, Settled
  <2>3. d \in given'
    BY <2>2 DEF Begin, CreateBegin, EnterBegin, LeaveBegin, DeleteBegin, objects
  <2>4. \A q \in Thread \ {p} : frame'[q] = frame[q]
    BY <1>1 DEF Local, Others
  <2>5. \A q \in Thread : frame'[q].op = "leave" /\ frame'[q].c = d => frame'[q].t # t
    BY <1>5, <1>6, <2>1, <2>2, <2>4 DEF Settled
  <2>6. flags'[d] = flags[d] /\ attached'[d] = attached[d]
    <3>1. CASE d # c
      BY <1>1, <3>1 DEF Local
    <3>2. CASE d = c
      BY <2>2, <3>2 DEF Begin, CreateBegin, EnterBegin, LeaveBegin, DeleteBegin, objects
    <3> QED BY <3>1, <3>2
  <2>7. ASSUME t \notin astray'
        PROVE  /\ frame'[t].op = "enter" => frame'[t].c = d
               /\ attached'[d] = t
               /\ \A part \in Joined \cap flags'[d] : Place(part, t)' = d
    <3>1. t \notin astray
      BY <1>1, <2>7 DEF Local
    <3>2. /\ frame[t].op = "enter" => frame[t].c = d
          /\ attached[d] = t
          /\ \A part \in Joined \cap flags[d] : Place(part, t) = d
      BY <2>1, <3>1 DEF Settled
    <3>3. EnterBegin(p, c) /\ t = p => d = c
      BY <2>7, <3>2 DEF EnterBegin
    <3>4. frame'[t].op = "enter" => frame'[t].c = d
      BY <1>5, <1>6, <2>4, <3>2, <3>3
    <3> QED BY <1>3, <2>6, <3>2, <3>4
  <2> QED BY <2>3, <2>5, <2>7 DEF Settled, Place
<1> QED BY <1>4, <1>8, <1>9 DEF Staying
-----------------------------------------------------------------------------
(* The theorems *)

\* The initial state satisfies the invariant.
LEMMA InitUni == Init => UniInv
<1> SUFFICES ASSUME Init PROVE UniInv
  OBVIOUS
<1>1. AllocInv
  BY InitAlloc
<1>2. \A p \in Thread : frame[p] = Idle
  BY DEF Init
<1>3. Exclusive
  BY <1>2, IdleMade DEF Exclusive, CallOK
<1>4. \A k \in Kind : Pointing(k, Root) = Thread /\ \A c \in Container : Pointing(k, c) = {}
  <2>1. ASSUME NEW k \in Kind, k # "pid"
        PROVE  Pointing(k, Root) = Thread /\ \A c \in Container : Pointing(k, c) = {}
    <3>1. \A t \in Thread : ptr[k][t] = Root
      BY <2>1 DEF Init
    <3> QED BY <2>1, <3>1, NameAssumption DEF Pointing
  <2>2. numbered[Root] = Thread /\ \A c \in Container : numbered[c] = {}
    BY NameAssumption DEF Init, Namespace
  <2> QED BY <2>1, <2>2 DEF Pointing
<1>5. Alive
  BY <1>4 DEF Alive, Init
<1>6. OneList
  BY DEF OneList, Init
<1>7. \A k \in Kind : rc[k][Root] = RootRc[k] + Cardinality(Thread)
  BY DEF Init, Namespace
<1>8. Counts
  <2>1. \A k \in Kind : rc[k][Root] = RootRc[k] + Cardinality(Pointing(k, Root))
    BY <1>4, <1>7
  <2>2. live = {}
    BY DEF Init
  <2> QED BY <2>1, <2>2 DEF Counts
<1>9. \A t \in Thread, part \in Joined : Place(part, t) \notin Container
  <2>1. \A t \in Thread : cgroup[t] = None /\ \A k \in Kind : ptr[k][t] = Root
    BY DEF Init
  <2> QED BY <2>1, NameAssumption DEF Place, Joined
<1>10. Homes
  BY <1>9 DEF Homes
<1>11. Leaving
  BY <1>2, IdleMade DEF Leaving, Left, Init
<1>12. Staying
  BY <1>2, IdleMade DEF Staying, Entered, Init
<1>13. Vids
  BY NameAssumption DEF Vids, Init, Kind, Namespace
<1> QED BY <1>1, <1>3, <1>5, <1>6, <1>8, <1>10, <1>11, <1>12, <1>13 DEF UniInv, References

\* The invariant is inductive when calls do not share containers.
LEMMA UniKept ==
  ASSUME Share = FALSE
  PROVE  UniInv /\ [Next]_vars => UniInv'
<1> SUFFICES ASSUME UniInv, [Next]_vars PROVE UniInv'
  OBVIOUS
<1>1. AllocInv /\ AllocInv'
  BY AllocKept DEF UniInv
<1>2. Exclusive /\ References /\ Vids /\ Homes /\ Leaving /\ Staying
  BY DEF UniInv
<1>3. ASSUME NEW p \in Thread, Step(p) PROVE UniInv'
  BY <1>1, <1>2, <1>3, StepExclusive, StepReferences, StepVids, StepHomes,
     StepLeaving, StepStaying DEF UniInv
<1>4. ASSUME NEW p \in Thread, NEW c \in Container, Begin(p, c) PROVE UniInv'
  BY <1>1, <1>2, <1>4, BeginExclusive, BeginReferences, BeginVids, BeginHomes,
     BeginLeaving, BeginStaying DEF UniInv
<1>5. CASE UNCHANGED vars
  <2>1. UNCHANGED <<given, flags, built, live, rc, numbered,
                    nodeless, refused, ptr, cgroup, weights,
                    attached, frame, inside, astray>>
    BY <1>5 DEF vars, objects, members, pids
  <2>2. Exclusive'
    BY <1>2, <2>1 DEF Exclusive, CallOK
  <2>3. \A c \in Container : built'[c] \subseteq built[c]
    BY <2>1
  <2>4. References'
    BY <1>1, <1>2, <2>1, <2>3, ReferencesKept DEF AllocInv
  <2>5. Homes' /\ Leaving' /\ Staying'
    BY <1>2, <2>1 DEF Homes, Home, Leaving, Left, Staying, Entered, Settled, Place
  <2>6. Vids'
    BY <1>2, <2>1 DEF Vids
  <2> QED BY <1>1, <2>2, <2>4, <2>5, <2>6 DEF UniInv
<1> QED BY <1>3, <1>4, <1>5 DEF Next

\* A reachable state satisfies the invariant.
LEMMA UniReached ==
  ASSUME Share = FALSE
  PROVE  Spec => []UniInv
BY InitUni, UniKept, PTL DEF Spec

\* The reference count of a namespace is that of its owner and its member threads,
\* whatever mixture of failed and nested calls moved them.
THEOREM UniRcExact ==
  ASSUME Share = FALSE
  PROVE  Spec => []RcExact
<1>1. UniInv => RcExact
  BY DEF UniInv, References, Counts, Counted, RcExact
<1> QED BY <1>1, UniReached, PTL

\* No leaving thread takes the last reference of a part its container still names.
THEOREM UniOwnerKeepsParts ==
  ASSUME Share = FALSE
  PROVE  Spec => []OwnerKeepsParts
<1>1. UniInv => OwnerKeepsParts
  BY DEF UniInv, References, Alive, Counted, OwnerKeepsParts
<1> QED BY <1>1, UniReached, PTL

\* No thread points at a deleted UTS, MNT or NET namespace.
THEOREM UniNamespacesAlive ==
  ASSUME Share = FALSE
  PROVE  Spec => []NamespacesAlive
<1>1. UniInv => NamespacesAlive
  <2> SUFFICES ASSUME UniInv, NEW k \in {"uts", "mnt", "net"}, NEW t \in Thread,
                      ptr[k][t] # Root
               PROVE  <<k, ptr[k][t]>> \in live
    BY DEF NamespacesAlive
  <2>1. k \in Kind /\ k # "pid" /\ Counted(k)
    BY DEF Kind, Counted
  <2>2. ptr[k][t] \in Container
    BY <2>1 DEF UniInv, AllocInv, TypeOK, Namespace
  <2>3. t \in Pointing(k, ptr[k][t])
    BY <2>1 DEF Pointing
  <2> QED BY <2>1, <2>2, <2>3 DEF UniInv, References, Alive
<1> QED BY <1>1, UniReached, PTL

\* As long as no thread went astray, none points at a deleted part, the IPC
\* namespace included, whose delete() looks for no thread.
THEOREM UniPointersAlive ==
  ASSUME Share = FALSE
  PROVE  Spec => []PointersAlive
<1>1. UniInv => PointersAlive
  <2> SUFFICES ASSUME UniInv, astray = {}, NEW t \in Thread
               PROVE  /\ \A k \in Kind : ptr[k][t] # Root => <<k, ptr[k][t]>> \in live
                      /\ cgroup[t] # None => <<"cgroup", cgroup[t]>> \in live
    BY DEF PointersAlive
  <2>1. ASSUME NEW part \in Joined, Place(part, t) \in Container
        PROVE  <<part, Place(part, t)>> \in live
    <3>1. part \in built[Place(part, t)]
      BY <2>1 DEF UniInv, Homes, Home
    <3> QED BY <2>1, <3>1 DEF UniInv, References, Alive, Counted
  <2>2. /\ \A k \in Kind : ptr[k][t] \in Container \cup {Root}
        /\ cgroup[t] \in Container \cup {None}
    BY DEF UniInv, AllocInv, TypeOK, Namespace
  <2>3. Kind \subseteq Joined /\ "cgroup" \in Joined /\ "cgroup" \notin Kind
    BY DEF Joined, Kind
  <2> QED BY <2>1, <2>2, <2>3 DEF Place
<1> QED BY <1>1, UniReached, PTL

\* Between a successful enter() and leave() the thread is in all parts of the
\* container, which is attached to it.
THEOREM UniEnteredStays ==
  ASSUME Share = FALSE
  PROVE  Spec => []EnteredStays
<1>1. UniInv => EnteredStays
  <2> SUFFICES ASSUME UniInv, NEW i \in inside, i[1] \notin astray
               PROVE  /\ attached[i[2]] = i[1]
                      /\ \A k \in flags[i[2]] \cap Kind : ptr[k][i[1]] = i[2]
                      /\ "cgroup" \in flags[i[2]] => cgroup[i[1]] = i[2]
    BY DEF EnteredStays
  <2>1. i[1] \in Thread /\ i[2] \in Container /\ <<i[1], i[2]>> \in inside
    <3>1. i \in Thread \X Container
      BY DEF UniInv, AllocInv, TypeOK
    <3>2. i = <<i[1], i[2]>>
      BY <3>1
    <3> QED BY <3>1, <3>2
  <2>2. Settled(i[1], i[2])
    BY <2>1 DEF UniInv, Staying
  <2>3. Kind \subseteq Joined /\ "cgroup" \in Joined /\ "cgroup" \notin Kind
    BY DEF Joined, Kind
  <2> QED BY <2>2, <2>3 DEF Settled, Place
<1> QED BY <1>1, UniReached, PTL

\* After leave() no pointer, cgroup, weight or attached field names the thread, and
\* unless its last PID move was refused it has no vid in the container either.
THEOREM UniLeftForGood ==
  ASSUME Share = FALSE
  PROVE  Spec => LeftForGood
<1> DEFINE Out(p) ==
      AtEnd(p, "leave") /\ frame'[p] # frame[p] =>
        LET c == frame[p].c
            t == frame[p].t IN
          /\ \A k \in flags[c] \cap Kind : ptr'[k][t] # c
          /\ "pid" \in flags[c] /\ t \notin refused' => t \notin numbered'[c]
          /\ "cgroup" \in flags[c] => cgroup'[t] # c
          /\ t \notin weights'[c] /\ attached'[c] # t
<1>1. UniInv /\ [Next]_vars => [\A p \in Thread : Out(p)]_vars
  <2> SUFFICES ASSUME UniInv, Next, NEW p \in Thread, AtEnd(p, "leave"),
                      frame'[p] # frame[p],
                      NEW c, c = frame[p].c, NEW t, t = frame[p].t
               PROVE  /\ \A k \in flags[c] \cap Kind : ptr'[k][t] # c
                      /\ "pid" \in flags[c] /\ t \notin refused' => t \notin numbered'[c]
                      /\ "cgroup" \in flags[c] => cgroup'[t] # c
                      /\ t \notin weights'[c] /\ attached'[c] # t
    OBVIOUS
  <2>1. AllocInv /\ Exclusive /\ Leaving /\ Vids /\ TypeOK /\ Shape
    BY DEF UniInv, AllocInv
  <2>2. frame[p].op = "leave" /\ frame[p].todo = {}
    BY DEF AtEnd
  <2>3. c \in Container /\ t \in Thread /\ t # None
    BY <2>1, <2>2, AtWork, NameAssumption
  <2>4. LeaveEnd(p)
    <3>1. ASSUME NEW q \in Thread, NEW d \in Container, Begin(q, d) PROVE FALSE
      <4>1. Local(q, d) /\ frame[q].op = "idle"
        BY <2>1, <3>1, BeginLocal
      <4> QED BY <2>2, <4>1 DEF Local, Others
    <3>2. ASSUME NEW q \in Thread, Step(q) PROVE q = p
      <4>1. Local(q, frame[q].c)
        BY <2>1, <3>2, StepExclusive
      <4> QED BY <4>1 DEF Local, Others
    <3>3. Step(p)
      BY <3>1, <3>2 DEF Next
    <3>4. \A part \in Part : ~Visit(p, part)
      BY <2>1, <2>2, VisitFrame DEF GoesOn
    <3> QED BY <2>2, <3>3, <3>4, StepSplit
            DEF Ending, CreateEnd, EnterFail, EnterEnd, DeleteEnd, CreateFail, AtEnd, At
  <2>5. /\ UNCHANGED <<numbered, refused, ptr, cgroup, weights>>
        /\ attached' = IF attached[c] = t THEN [attached EXCEPT ![c] = None] ELSE attached
    BY <2>4 DEF LeaveEnd, members, pids
  <2>6. attached'[c] # t
    BY <2>1, <2>3, <2>5 DEF TypeOK
  <2>7. /\ \A part \in Joined \cap flags[c] : Place(part, t) # c
        /\ t \notin weights[c]
    BY <2>1, LeftAll
  <2>8. Kind \subseteq Joined /\ "cgroup" \in Joined /\ "cgroup" \notin Kind
    BY DEF Joined, Kind
  <2>9. \A k \in flags[c] \cap Kind : ptr[k][t] # c
    BY <2>7, <2>8 DEF Place
  <2>10. "pid" \in flags[c] /\ t \notin refused => t \notin numbered[c]
    <3>1. "pid" \in Kind /\ c \in Namespace
      BY <2>3 DEF Kind, Namespace
    <3> QED BY <2>1, <2>3, <2>9, <3>1 DEF Vids
  <2> QED BY <2>5, <2>6, <2>7, <2>8, <2>9, <2>10 DEF Place
<1> QED BY <1>1, UniReached, PTL DEF Spec, LeftForGood
=============================================================================
