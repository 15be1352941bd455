------------------------- MODULE PidContainerProofs -------------------------
(***************************************************************************)
(* Theorems about the PID containers, for every Thread, Child, Limit and   *)
(* Calls: the vids of a container, the implementation of VidAllocator, and *)
(* the nodes, counts and pointers of the members.                          *)
(***************************************************************************)
EXTENDS PidContainer, TLAPS, WellFoundedInduction, FiniteSetTheorems

\* The head of a non-empty ascending free list exists and is its minimum.
LEMMA SmallestIsMember ==
  ASSUME NEW S, S \subseteq Vid, S # {}
  PROVE  Smallest(S) \in S /\ \A w \in S : Smallest(S) <= w
<1> DEFINE Less == {ss \in Nat \X Nat : ss[1] < ss[2]}
<1>1. S \subseteq Nat
  BY LimitAssumption DEF Vid
<1>2. IsWellFoundedOn(Less, Nat)
  BY NatLessThanWellFounded, Zenon DEF OpToRel
<1>3. PICK x \in S : \A y \in S : ~(<<y, x>> \in Less)
  <2> HIDE DEF Less
  <2> QED BY <1>1, <1>2, WFMin
<1>4. ASSUME NEW y \in S PROVE x <= y
  <2>1. y \in Nat /\ x \in Nat
    BY <1>1
  <2>2. y < x => <<y, x>> \in Less
    <3> HAVE y < x
    <3>1. <<y, x>> \in Nat \X Nat
      BY <2>1
    <3>2. <<y, x>>[1] = y /\ <<y, x>>[2] = x
      OBVIOUS
    <3> QED BY <3>1, <3>2
  <2>3. ~(y < x)
    BY <1>3, <2>2
  <2> QED BY <2>1, <2>3
<1> QED
  BY <1>4 DEF Smallest

-----------------------------------------------------------------------------
\* The partition of one container's vids.
Partition(c) == /\ UsedVid(c) \cap freeVid[c] = {}
                /\ UsedVid(c) \cup freeVid[c] = 1 .. pidCount[c]

\* The vid add_task() and move_task() hand out is a slot of pidArray nobody
\* uses, and with it the partition extends to the new high-water mark.
LEMMA NextVidIsFresh ==
  ASSUME TypeOK, NEW c \in Container, Partition(c),
         freeVid[c] # {} \/ ~Full(c)
  PROVE  /\ NextVid(c) \in Vid \ UsedVid(c)
         /\ NextPidCount(c) \in 0 .. (Limit - 1)
         /\ (UsedVid(c) \cup {NextVid(c)}) \cup (freeVid[c] \ {NextVid(c)})
              = 1 .. NextPidCount(c)
<1>1. freeVid[c] \subseteq Vid /\ pidCount[c] \in 0 .. (Limit - 1)
  BY DEF TypeOK
<1>2. UsedVid(c) \subseteq Vid
  BY DEF UsedVid
<1>3. CASE freeVid[c] # {}
  <2>1. NextVid(c) \in freeVid[c]
    BY <1>1, <1>3, SmallestIsMember DEF NextVid
  <2>2. NextPidCount(c) = pidCount[c]
    BY <1>3 DEF NextPidCount
  <2> QED BY <1>1, <2>1, <2>2 DEF Partition
<1>4. CASE freeVid[c] = {}
  <2>1. NextVid(c) = pidCount[c] + 1 /\ NextPidCount(c) = pidCount[c] + 1
    BY <1>4 DEF NextVid, NextPidCount
  <2>2. pidCount[c] < Limit - 1
    BY <1>1, <1>4, LimitAssumption DEF Full
  <2>3. UsedVid(c) = 1 .. pidCount[c]
    BY <1>4 DEF Partition
  <2> QED BY <1>1, <1>4, <2>1, <2>2, <2>3, LimitAssumption DEF Vid
<1> QED BY <1>3, <1>4

\* Allocated containers are containers.
LEMMA LiveIsContainer == TypeOK => Live \subseteq Container
BY DEF TypeOK, Live, Container

\* What add_task() does to the state it may change.
LEMMA AddTaskStep ==
  ASSUME TypeOK, NEW c \in Container, NEW t \in Thread, NEW ok \in BOOLEAN,
         Partition(c), AddTask(c, t, ok)
  PROVE  /\ rc' \in [Container -> Int]
         /\ pidCount' \in [Container -> 0 .. (Limit - 1)]
         /\ freeVid' \in [Container -> SUBSET Vid]
         /\ pidArray' \in [Container -> [Vid -> Thread \cup {NoThread}]]
         /\ threadList' \in [Container -> [Thread -> Nat]]
         /\ Partition(c)'
         /\ \A d \in Container \ {c} : /\ freeVid'[d] = freeVid[d]
                                      /\ pidArray'[d] = pidArray[d]
                                      /\ pidCount'[d] = pidCount[d]
         /\ \A v \in UsedVid(c) : pidArray'[c][v] = pidArray[c][v]
<1>1. CASE Full(c)
  BY <1>1 DEF AddTask, TypeOK, Partition, UsedVid
<1>2. CASE ~Full(c)
  <2> DEFINE n == NextVid(c)
  <2>1. /\ n \in Vid \ UsedVid(c)
        /\ NextPidCount(c) \in 0 .. (Limit - 1)
        /\ (UsedVid(c) \cup {n}) \cup (freeVid[c] \ {n}) = 1 .. NextPidCount(c)
    BY <1>2, NextVidIsFresh
  <2>2. /\ freeVid' = [freeVid EXCEPT ![c] = @ \ {n}]
        /\ pidCount' = [pidCount EXCEPT ![c] = NextPidCount(c)]
        /\ pidArray' = [pidArray EXCEPT ![c][n] = t]
        /\ rc' = [rc EXCEPT ![c] = @ + 1]
        /\ threadList' = IF ok THEN [threadList EXCEPT ![c][t] = @ + 1]
                               ELSE threadList
    BY <1>2 DEF AddTask
  <2> HIDE DEF n
  <2>3. threadList' \in [Container -> [Thread -> Nat]]
    BY <2>2 DEF TypeOK
  <2>4. UsedVid(c)' = UsedVid(c) \cup {n}
    BY <2>1, <2>2, NameAssumption DEF TypeOK, UsedVid
  <2>5. freeVid'[c] = freeVid[c] \ {n} /\ pidCount'[c] = NextPidCount(c)
    BY <2>2 DEF TypeOK
  <2>6. Partition(c)'
    BY <2>1, <2>4, <2>5 DEF Partition
  <2>7. \A v \in UsedVid(c) : pidArray'[c][v] = pidArray[c][v]
    BY <2>1, <2>2 DEF TypeOK, UsedVid
  <2> QED BY <2>1, <2>2, <2>3, <2>6, <2>7 DEF TypeOK
<1> QED BY <1>1, <1>2

\* A container whose vid bookkeeping a step leaves alone keeps its partition.
LEMMA PartitionKept ==
  ASSUME NEW d, Partition(d), freeVid'[d] = freeVid[d],
         pidArray'[d] = pidArray[d], pidCount'[d] = pidCount[d]
  PROVE  Partition(d)'
BY DEF Partition, UsedVid

\* The inductive invariant: alone, VidPartition says nothing of a freed or
\* ill-typed container, and types alone do not make the next vid fresh.
VidInv == TypeOK /\ VidPartition

\* The invariant gives the partition of each live container.
LEMMA VidInvPartition ==
  ASSUME VidInv, NEW c \in Live
  PROVE  Partition(c) /\ c \in Container
BY LiveIsContainer DEF VidInv, VidPartition, Partition

\* It is enough to show the partition of every container alive afterwards.
LEMMA VidInvFromPartition ==
  ASSUME TypeOK', \A d \in Live' : Partition(d)'
  PROVE  VidInv'
BY DEF VidInv, VidPartition, Partition

\* What a step may do to the entries of pidArray that are in use.
KeepsVids ==
  \A c \in Live : life' = life =>
    \A v \in UsedVid(c) : pidArray'[c][v] \in {pidArray[c][v], NoThread}

\* rtems_task_construct() takes a fresh vid in root and leaves the others alone.
LEMMA TaskCreateKeeps ==
  ASSUME VidInv, NEW t \in Thread, TaskCreate(t)
  PROVE  VidInv' /\ KeepsVids
<1>1. PICK ok \in BOOLEAN : AddTask(Root, t, ok)
  BY DEF TaskCreate, MallocResult
<1>2. Root \in Live /\ Root \in Container /\ TypeOK
  BY DEF Live, Container, VidInv
<1>3. Partition(Root)
  BY <1>2, VidInvPartition
<1>4. TypeOK'
  BY <1>1, <1>2, <1>3, AddTaskStep DEF TypeOK, TaskCreate
<1>5. Live' = Live
  BY DEF TaskCreate, Live
<1>6. ASSUME NEW d \in Live' PROVE Partition(d)'
  BY <1>1, <1>2, <1>3, <1>5, AddTaskStep, VidInvPartition, PartitionKept
<1>7. KeepsVids
  <2> SUFFICES ASSUME NEW c \in Live, NEW v \in UsedVid(c)
               PROVE  pidArray'[c][v] = pidArray[c][v]
    BY DEF KeepsVids
  <2> QED BY <1>1, <1>2, <1>3, AddTaskStep, VidInvPartition
<1> QED BY <1>4, <1>6, <1>7, VidInvFromPartition

\* Migrating a thread in delete() takes a fresh vid in root.
LEMMA DeleteMigrateKeeps ==
  ASSUME VidInv, NEW c \in Child, NEW t \in Thread, DeleteMigrate(c, t)
  PROVE  VidInv' /\ KeepsVids
<1>1. PICK ok \in BOOLEAN : AddTask(Root, t, ok)
  BY DEF DeleteMigrate, MallocResult
<1>2. Root \in Live /\ Root \in Container /\ TypeOK
  BY DEF Live, Container, VidInv
<1>3. Partition(Root)
  BY <1>2, VidInvPartition
<1>4. pending' \in [Thread -> Nat]
  BY <1>2 DEF TypeOK, DeleteMigrate
<1>5. ptr' \in [Thread -> Container \cup {NoContainer}]
  BY <1>2 DEF TypeOK, DeleteMigrate
<1>6. TypeOK'
  BY <1>1, <1>2, <1>3, <1>4, <1>5, AddTaskStep DEF TypeOK, DeleteMigrate
<1>7. Live' = Live
  BY DEF DeleteMigrate, Live
<1>8. ASSUME NEW d \in Live' PROVE Partition(d)'
  BY <1>1, <1>2, <1>3, <1>7, AddTaskStep, VidInvPartition, PartitionKept
<1>9. KeepsVids
  <2> SUFFICES ASSUME NEW d \in Live, NEW v \in UsedVid(d)
               PROVE  pidArray'[d][v] = pidArray[d][v]
    BY DEF KeepsVids
  <2> QED BY <1>1, <1>2, <1>3, AddTaskStep, VidInvPartition
<1> QED BY <1>6, <1>8, <1>9, VidInvFromPartition

\* create() makes a container with no vid used or free and leaves the others alone.
LEMMA CreateKeeps ==
  ASSUME VidInv, NEW c \in Child, NEW hold \in BOOLEAN, Create(c, hold)
  PROVE  VidInv' /\ KeepsVids
<1>1. TypeOK /\ c \in Container /\ c # Root
  BY NameAssumption DEF VidInv, Container
<1>2. TypeOK'
  BY <1>1, LimitAssumption DEF TypeOK, Create, Container, NoNodes
<1>3. ASSUME NEW d \in Live' PROVE Partition(d)'
  <2>1. CASE d = c
    <3>1. UsedVid(c)' = {} /\ freeVid'[c] = {} /\ pidCount'[c] = 0
      BY <1>1 DEF TypeOK, Create, UsedVid
    <3> QED BY <2>1, <3>1 DEF Partition
  <2>2. CASE d # c
    <3>1. d \in Live
      BY <2>2, <1>1 DEF Live, Create, TypeOK
    <3>2. freeVid'[d] = freeVid[d] /\ pidArray'[d] = pidArray[d]
            /\ pidCount'[d] = pidCount[d]
      BY <1>1, <2>2, <3>1, LiveIsContainer DEF TypeOK, Create
    <3> QED BY <3>1, <3>2, VidInvPartition, PartitionKept
  <2> QED BY <2>1, <2>2
<1>4. life' # life
  BY <1>1 DEF TypeOK, Create
<1> QED BY <1>2, <1>3, <1>4, VidInvFromPartition DEF KeepsVids

\* Freeing the vid of an entry in use: the recycling half of move_task() and
\* remove_task().
LEMMA RecycleVid ==
  ASSUME TypeOK, NEW c \in Container, Partition(c), NEW vid \in UsedVid(c),
         freeVid'[c] = freeVid[c] \cup {vid},
         pidArray'[c] = [pidArray[c] EXCEPT ![vid] = NoThread],
         pidCount'[c] = pidCount[c]
  PROVE  /\ Partition(c)'
         /\ \A v \in UsedVid(c) : pidArray'[c][v] \in {pidArray[c][v], NoThread}
<1>1. UsedVid(c)' = UsedVid(c) \ {vid}
  BY DEF TypeOK, UsedVid
<1>2. Partition(c)'
  BY <1>1 DEF Partition
<1> QED BY <1>2 DEF TypeOK, UsedVid

\* move_task() frees the vid in the source and takes a fresh one in the
\* destination; no third container changes.
LEMMA MoveTaskKeeps ==
  ASSUME VidInv, NEW t \in Thread, NEW src \in Live, NEW dst \in Live,
         MoveTask(src, dst, t)
  PROVE  VidInv' /\ KeepsVids
<1> DEFINE vid == Smallest(VidsOf(src, t))
           n == NextVid(dst)
<1>1. TypeOK /\ src \in Container /\ dst \in Container /\ src # dst
  BY LiveIsContainer DEF VidInv, MoveTask, CanMove
<1>2. Partition(src) /\ Partition(dst)
  BY VidInvPartition
<1>3. vid \in UsedVid(src)
  <2>1. VidsOf(src, t) \subseteq Vid /\ VidsOf(src, t) # {}
    BY DEF MoveTask, CanMove, VidsOf
  <2>2. vid \in VidsOf(src, t)
    BY <2>1, SmallestIsMember
  <2> QED BY <2>2, NameAssumption DEF VidsOf, UsedVid
<1>4. /\ n \in Vid \ UsedVid(dst)
      /\ NextPidCount(dst) \in 0 .. (Limit - 1)
      /\ (UsedVid(dst) \cup {n}) \cup (freeVid[dst] \ {n}) = 1 .. NextPidCount(dst)
  BY <1>1, <1>2, NextVidIsFresh DEF MoveTask, CanMove
<1>5. /\ freeVid' = [freeVid EXCEPT ![src] = @ \cup {vid}, ![dst] = @ \ {n}]
      /\ pidCount' = [pidCount EXCEPT ![dst] = NextPidCount(dst)]
      /\ pidArray' = [pidArray EXCEPT ![src][vid] = NoThread, ![dst][n] = t]
      /\ threadList' = [threadList EXCEPT ![src][t] = @ - 1, ![dst][t] = @ + 1]
      /\ threadList[src][t] > 0
      /\ life' = life
  BY DEF MoveTask, CanMove
<1> HIDE DEF vid, n
<1>6. vid \in Vid
  BY <1>3 DEF UsedVid
<1>7. freeVid' \in [Container -> SUBSET Vid]
  BY <1>1, <1>5, <1>6 DEF TypeOK
<1>8. pidArray' \in [Container -> [Vid -> Thread \cup {NoThread}]]
  BY <1>1, <1>4, <1>5, <1>6 DEF TypeOK
<1>9. threadList' \in [Container -> [Thread -> Nat]]
  <2>1. threadList[src][t] - 1 \in Nat
    BY <1>1, <1>5 DEF TypeOK
  <2>2. threadList'[src] = [threadList[src] EXCEPT ![t] = @ - 1]
    BY <1>1, <1>5 DEF TypeOK
  <2>3. threadList'[dst] = [threadList[dst] EXCEPT ![t] = @ + 1]
    BY <1>1, <1>5 DEF TypeOK
  <2>4. \A d \in Container \ {src, dst} : threadList'[d] = threadList[d]
    BY <1>1, <1>5 DEF TypeOK
  <2>5. ASSUME NEW d \in Container PROVE threadList'[d] \in [Thread -> Nat]
    <3>1. threadList[d] \in [Thread -> Nat]
      BY <1>1 DEF TypeOK
    <3>2. CASE d = src
      BY <2>1, <2>2, <3>1, <3>2
    <3>3. CASE d = dst
      <4>1. threadList[d][t] + 1 \in Nat
        BY <3>1
      <4> QED BY <2>3, <3>1, <3>3, <4>1
    <3>4. CASE d \notin {src, dst}
      BY <2>4, <3>1, <3>4
    <3> QED BY <3>2, <3>3, <3>4
  <2>6. threadList' = [d \in Container |-> threadList'[d]]
    BY <1>1, <1>5 DEF TypeOK
  <2> QED BY <2>5, <2>6
<1>10. ptr' \in [Thread -> Container \cup {NoContainer}]
  BY <1>1 DEF TypeOK, MoveTask
<1>11. deleting' \in Child \cup {NoContainer}
  BY <1>1 DEF MoveTask, Container
<1>12. TypeOK'
  <2>1. pidCount' \in [Container -> 0 .. (Limit - 1)]
    BY <1>1, <1>4, <1>5 DEF TypeOK
  <2>2. rc' \in [Container -> Int]
    BY <1>1 DEF TypeOK, MoveTask
  <2>3. /\ alive' \subseteq Thread
        /\ life' \in [Child -> {"none", "live", "freed"}]
        /\ listed' \subseteq Child
        /\ held' \subseteq Container
        /\ pending' \in [Thread -> Nat] /\ astray' \subseteq Thread
    BY <1>1 DEF TypeOK, MoveTask
  <2> QED
    BY <1>7, <1>8, <1>9, <1>10, <1>11, <2>1, <2>2, <2>3 DEF TypeOK
<1>13. /\ freeVid'[src] = freeVid[src] \cup {vid}
       /\ pidArray'[src] = [pidArray[src] EXCEPT ![vid] = NoThread]
       /\ pidCount'[src] = pidCount[src]
  BY <1>1, <1>5 DEF TypeOK
<1>14. /\ Partition(src)'
       /\ \A v \in UsedVid(src) :
            pidArray'[src][v] \in {pidArray[src][v], NoThread}
  BY <1>1, <1>2, <1>3, <1>13, RecycleVid
<1>15. /\ freeVid'[dst] = freeVid[dst] \ {n}
       /\ pidArray'[dst] = [pidArray[dst] EXCEPT ![n] = t]
       /\ pidCount'[dst] = NextPidCount(dst)
  BY <1>1, <1>5 DEF TypeOK
<1>16. UsedVid(dst)' = UsedVid(dst) \cup {n}
  BY <1>1, <1>4, <1>15, NameAssumption DEF TypeOK, UsedVid
<1>17. Partition(dst)'
  BY <1>2, <1>4, <1>15, <1>16 DEF Partition
<1>18. \A v \in UsedVid(dst) : pidArray'[dst][v] = pidArray[dst][v]
  BY <1>1, <1>4, <1>15 DEF TypeOK, UsedVid
<1>19. \A d \in Container \ {src, dst} :
         /\ freeVid'[d] = freeVid[d]
         /\ pidArray'[d] = pidArray[d]
         /\ pidCount'[d] = pidCount[d]
  BY <1>1, <1>5 DEF TypeOK
<1>20. Live' = Live
  BY <1>5 DEF Live
<1>21. ASSUME NEW d \in Live' PROVE Partition(d)'
  BY <1>14, <1>17, <1>19, <1>20, VidInvPartition, PartitionKept
<1>22. KeepsVids
  BY <1>14, <1>18, <1>19, VidInvPartition DEF KeepsVids
<1> QED BY <1>12, <1>21, <1>22, VidInvFromPartition

\* remove_task() puts the vid of the thread on the free list.
LEMMA RemoveTaskKeeps ==
  ASSUME VidInv, NEW t \in Thread, NEW c \in Live, RemoveTask(c, t)
  PROVE  VidInv' /\ KeepsVids
<1>1. TypeOK /\ c \in Container /\ Partition(c)
  BY VidInvPartition DEF VidInv
<1>2. threadList' \in [Container -> [Thread -> Nat]]
  BY <1>1 DEF TypeOK, RemoveTask
<1>3. deleting' \in Child \cup {NoContainer}
  BY <1>1 DEF RemoveTask, Container
<1>4. Live' = Live
  BY DEF RemoveTask, Live
<1>5. CASE VidsOf(c, t) = {}
  <2>1. freeVid' = freeVid /\ pidArray' = pidArray /\ pidCount' = pidCount
    BY <1>5 DEF RemoveTask
  <2>2. TypeOK'
    BY <1>1, <1>2, <1>3, <2>1 DEF TypeOK, RemoveTask
  <2>3. ASSUME NEW d \in Live' PROVE Partition(d)'
    BY <1>4, <2>1, VidInvPartition, PartitionKept
  <2>4. KeepsVids
    BY <2>1 DEF KeepsVids
  <2> QED BY <2>2, <2>3, <2>4, VidInvFromPartition
<1>6. CASE VidsOf(c, t) # {}
  <2> DEFINE vid == Smallest(VidsOf(c, t))
  <2>1. vid \in UsedVid(c)
    <3>1. VidsOf(c, t) \subseteq Vid
      BY DEF VidsOf
    <3>2. vid \in VidsOf(c, t)
      BY <1>6, <3>1, SmallestIsMember
    <3> QED BY <3>2, NameAssumption DEF VidsOf, UsedVid
  <2>2. /\ freeVid' = [freeVid EXCEPT ![c] = @ \cup {vid}]
        /\ pidArray' = [pidArray EXCEPT ![c][vid] = NoThread]
        /\ pidCount' = pidCount
    BY <1>6 DEF RemoveTask
  <2> HIDE DEF vid
  <2>3. vid \in Vid
    BY <2>1 DEF UsedVid
  <2>4. TypeOK'
    BY <1>1, <1>2, <1>3, <2>2, <2>3 DEF TypeOK, RemoveTask
  <2>5. /\ freeVid'[c] = freeVid[c] \cup {vid}
        /\ pidArray'[c] = [pidArray[c] EXCEPT ![vid] = NoThread]
        /\ pidCount'[c] = pidCount[c]
    BY <1>1, <2>2 DEF TypeOK
  <2>6. /\ Partition(c)'
        /\ \A v \in UsedVid(c) : pidArray'[c][v] \in {pidArray[c][v], NoThread}
    BY <1>1, <2>1, <2>5, RecycleVid
  <2>7. \A d \in Container \ {c} : /\ freeVid'[d] = freeVid[d]
                                 /\ pidArray'[d] = pidArray[d]
                                 /\ pidCount'[d] = pidCount[d]
    BY <1>1, <2>2 DEF TypeOK
  <2>8. ASSUME NEW d \in Live' PROVE Partition(d)'
    BY <1>4, <2>6, <2>7, VidInvPartition, PartitionKept
  <2>9. KeepsVids
    BY <2>6, <2>7, VidInvPartition DEF KeepsVids
  <2> QED BY <2>4, <2>8, <2>9, VidInvFromPartition
<1> QED BY <1>5, <1>6

\* The steps of delete() that leave the vids of every surviving container alone.
LEMMA DeleteKeeps ==
  ASSUME VidInv, NEW c \in Child,
         DeleteCall(c) \/ DeleteBegin(c) \/ DeleteEnd(c)
  PROVE  VidInv' /\ KeepsVids
<1>1. TypeOK /\ c \in Container /\ c # Root
  BY NameAssumption DEF VidInv, Container
<1>2. TypeOK'
  <2>2. CASE DeleteCall(c)
    BY <1>1, <2>2 DEF TypeOK, DeleteCall
  <2>3. CASE DeleteBegin(c)
    BY <1>1, <2>3 DEF TypeOK, DeleteBegin, NoNodes
  <2>4. CASE DeleteEnd(c)
    BY <1>1, <2>4 DEF TypeOK, DeleteEnd
  <2> QED BY <2>2, <2>3, <2>4
<1>3. pidArray' = pidArray /\ pidCount' = pidCount
  BY DEF DeleteCall, DeleteBegin, DeleteEnd
<1>4. \A d \in Live' : d \in Live /\ freeVid'[d] = freeVid[d]
  BY <1>1, LiveIsContainer
     DEF DeleteCall, DeleteBegin, DeleteEnd, Live, TypeOK
<1>5. ASSUME NEW d \in Live' PROVE Partition(d)'
  BY <1>3, <1>4, VidInvPartition, PartitionKept
<1>6. KeepsVids
  BY <1>3 DEF KeepsVids
<1> QED BY <1>2, <1>5, <1>6, VidInvFromPartition

\* initialize_root() establishes the invariant.
LEMMA VidInvInit == Init => VidInv
<1> SUFFICES ASSUME Init PROVE VidInv
  OBVIOUS
<1>1. TypeOK
  BY LimitAssumption, NameAssumption DEF Init, TypeOK, NoNodes, Container
<1>2. \A c \in Live : UsedVid(c) = {} /\ freeVid[c] = {} /\ pidCount[c] = 0
  BY <1>1, LiveIsContainer DEF Init, UsedVid
<1> QED BY <1>1, <1>2 DEF VidInv, VidPartition

\* Every step keeps the invariant and the vids in use.
LEMMA VidInvStep == VidInv /\ [Next]_vars => VidInv' /\ (KeepsVids \/ UNCHANGED vars)
<1> SUFFICES ASSUME VidInv, [Next]_vars
             PROVE  VidInv' /\ (KeepsVids \/ UNCHANGED vars)
  OBVIOUS
<1>1. CASE UNCHANGED vars
  BY <1>1 DEF vars, VidInv, VidPartition, TypeOK, Live, UsedVid
<1>2. ASSUME NEW t \in Thread, TaskCreate(t) PROVE VidInv' /\ KeepsVids
  BY <1>2, TaskCreateKeeps
<1>3. ASSUME NEW c \in Child, NEW hold \in BOOLEAN, Create(c, hold)
      PROVE  VidInv' /\ KeepsVids
  BY <1>3, CreateKeeps
<1>4. ASSUME NEW t \in Thread, NEW src \in Live, NEW dst \in Live,
             MoveTask(src, dst, t)
      PROVE  VidInv' /\ KeepsVids
  BY <1>4, MoveTaskKeeps
<1>5. ASSUME NEW t \in Thread, NEW c \in Live, RemoveTask(c, t)
      PROVE  VidInv' /\ KeepsVids
  BY <1>5, RemoveTaskKeeps
<1>6. ASSUME NEW c \in Child, NEW t \in Thread, DeleteMigrate(c, t)
      PROVE  VidInv' /\ KeepsVids
  BY <1>6, DeleteMigrateKeeps
<1>7. ASSUME NEW t \in Thread, TaskDelete(t) PROVE VidInv' /\ KeepsVids
  <2>1. TypeOK' /\ pidArray' = pidArray /\ freeVid' = freeVid
          /\ pidCount' = pidCount /\ Live' = Live
    BY <1>7 DEF VidInv, TypeOK, TaskDelete, Live
  <2> QED BY <2>1 DEF VidInv, VidPartition, UsedVid, KeepsVids
<1>8. ASSUME NEW c \in Child, DeleteCall(c) \/ DeleteBegin(c) \/ DeleteEnd(c)
      PROVE  VidInv' /\ KeepsVids
  BY <1>8, DeleteKeeps
<1>9. ASSUME NEW t \in Thread, NEW c \in Live, MoveRefused(c, t)
      PROVE  VidInv' /\ KeepsVids
  <2>1. c \in Container
    BY LiveIsContainer DEF VidInv
  <2>2. TypeOK' /\ pidArray' = pidArray /\ freeVid' = freeVid
          /\ pidCount' = pidCount /\ Live' = Live
    BY <1>9, <2>1 DEF VidInv, TypeOK, MoveRefused, Live
  <2> QED BY <2>2 DEF VidInv, VidPartition, UsedVid, KeepsVids
<1> QED
  BY <1>1, <1>2, <1>3, <1>4, <1>5, <1>6, <1>7, <1>8, <1>9 DEF Next

\* Vids are partitioned into used and free ones in every reachable state: no
\* call of pidContainer.c leaks a vid or frees one twice, for any limit, any
\* number of threads and containers, failing malloc() and reused tasks.
THEOREM VidPartitionHolds == Spec => [](TypeOK /\ VidPartition)
BY VidInvInit, VidInvStep, PTL DEF Spec, VidInv

\* No call ever overwrites the pidArray entry of a member.
THEOREM VidNeverStolenHolds == Spec => VidNeverStolen
BY VidInvInit, VidInvStep, PTL DEF Spec, VidNeverStolen, KeepsVids

-----------------------------------------------------------------------------
(***************************************************************************)
(* PidContainer implements VidAllocator.  The invariant that makes every   *)
(* step of the free list a step of the allocator is VidInv: where used and *)
(* free vids partition 1 .. pidCount, the head of the free list, or        *)
(* pidCount + 1, is the smallest unused vid.                               *)
(***************************************************************************)

\* The vid that add_task() and move_task() hand out is the smallest one that
\* no member of the container has.
LEMMA NextVidIsFirst ==
  ASSUME TypeOK, NEW c \in Container, Partition(c),
         freeVid[c] # {} \/ ~Full(c)
  PROVE  /\ NextVid(c) \in Vid
         /\ pidArray[c][NextVid(c)] = NoThread
         /\ \A w \in Vid : w < NextVid(c) => pidArray[c][w] # NoThread
<1>1. NextVid(c) \in Vid \ UsedVid(c)
  BY NextVidIsFresh
<1>2. pidArray[c][NextVid(c)] = NoThread
  BY <1>1 DEF UsedVid
<1>3. ASSUME NEW w \in Vid, w < NextVid(c) PROVE pidArray[c][w] # NoThread
  <2>1. w \in Int /\ w >= 1 /\ pidCount[c] \in Int /\ freeVid[c] \subseteq Vid
    BY LimitAssumption DEF Vid, TypeOK
  <2>2. w \in 1 .. pidCount[c] /\ w \notin freeVid[c]
    <3>1. CASE freeVid[c] # {}
      <4>1. NextVid(c) \in freeVid[c] /\ \A y \in freeVid[c] : NextVid(c) <= y
        BY <2>1, <3>1, SmallestIsMember DEF NextVid
      <4>2. NextVid(c) \in 1 .. pidCount[c]
        BY <4>1 DEF Partition
      <4> QED BY <1>3, <2>1, <4>1, <4>2
    <3>2. CASE freeVid[c] = {}
      BY <1>3, <2>1, <3>2 DEF NextVid
    <3> QED BY <3>1, <3>2
  <2>3. w \in UsedVid(c)
    BY <2>2 DEF Partition
  <2> QED BY <2>3 DEF UsedVid
<1> QED BY <1>1, <1>2, <1>3

\* The numbering of an allocated container is its pidArray.
LEMMA NumberingOfLive ==
  ASSUME TypeOK, NEW c \in Live
  PROVE  c \in Container /\ Numbering[c] = pidArray[c]
BY LiveIsContainer DEF Numbering

\* Numbering is a function of the containers, in every state.
LEMMA NumberingIsFunction ==
  Numbering = [c \in Container |-> Numbering[c]]
BY DEF Numbering

\* A step that changes no pidArray and frees no container is invisible.
LEMMA NumberingKept ==
  ASSUME pidArray' = pidArray, Live' = Live
  PROVE  Numbering' = Numbering
BY DEF Numbering, Container, Vid

\* add_task() gives the thread the smallest unused vid, or does nothing.
LEMMA AddTaskGives ==
  ASSUME VidInv, NEW c \in Live, NEW t \in Thread, NEW ok \in BOOLEAN,
         AddTask(c, t, ok), Live' = Live
  PROVE  Allocator!Give(c, t) \/ Numbering' = Numbering
<1>1. TypeOK /\ c \in Container /\ Partition(c) /\ Numbering[c] = pidArray[c]
  BY VidInvPartition, NumberingOfLive DEF VidInv
<1>2. CASE Full(c)
  BY <1>2, NumberingKept DEF AddTask
<1>3. CASE ~Full(c)
  <2> DEFINE n == NextVid(c)
  <2>1. /\ n \in Vid
        /\ pidArray[c][n] = NoThread
        /\ \A w \in Vid : w < n => pidArray[c][w] # NoThread
    BY <1>1, <1>3, NextVidIsFirst
  <2>2. pidArray' = [pidArray EXCEPT ![c][n] = t]
    BY <1>3 DEF AddTask
  <2> HIDE DEF n
  <2>3. Numbering' = [Numbering EXCEPT ![c][n] = t]
    BY <1>1, <2>1, <2>2 DEF Numbering, TypeOK
  <2>4. Allocator!FirstUnowned(c, n)
    BY <1>1, <2>1 DEF Allocator!FirstUnowned, Allocator!Vid, Vid
  <2> QED BY <2>1, <2>3, <2>4 DEF Allocator!Give, Allocator!Vid, Vid
<1> QED BY <1>2, <1>3

\* move_task() gives back the vid in the source and takes the smallest unused
\* one in the destination, in one step.
LEMMA MoveTaskTransfers ==
  ASSUME VidInv, NEW t \in Thread, NEW src \in Live, NEW dst \in Live,
         MoveTask(src, dst, t)
  PROVE  Allocator!Transfer(src, dst, t)
<1> DEFINE vid == Smallest(VidsOf(src, t))
           n == NextVid(dst)
<1>1. /\ TypeOK /\ src # dst
      /\ src \in Container /\ Numbering[src] = pidArray[src]
      /\ dst \in Container /\ Numbering[dst] = pidArray[dst]
      /\ Partition(dst)
  BY VidInvPartition, NumberingOfLive DEF VidInv, MoveTask, CanMove
<1>2. vid \in Vid /\ pidArray[src][vid] = t
  <2>1. VidsOf(src, t) \subseteq Vid /\ VidsOf(src, t) # {}
    BY DEF MoveTask, CanMove, VidsOf
  <2> QED BY <2>1, SmallestIsMember DEF VidsOf
<1>3. /\ n \in Vid
      /\ pidArray[dst][n] = NoThread
      /\ \A w \in Vid : w < n => pidArray[dst][w] # NoThread
  BY <1>1, NextVidIsFirst DEF MoveTask, CanMove
<1>4. /\ pidArray' = [pidArray EXCEPT ![src][vid] = NoThread, ![dst][n] = t]
      /\ Live' = Live
  BY DEF MoveTask, Live
<1> HIDE DEF vid, n
<1>5. Numbering' = [Numbering EXCEPT ![src][vid] = NoThread, ![dst][n] = t]
  <2> DEFINE new == [Numbering EXCEPT ![src][vid] = NoThread, ![dst][n] = t]
  <2>1. /\ pidArray'[src] = [pidArray[src] EXCEPT ![vid] = NoThread]
        /\ pidArray'[dst] = [pidArray[dst] EXCEPT ![n] = t]
        /\ \A d \in Container \ {src, dst} : pidArray'[d] = pidArray[d]
    BY <1>1, <1>4 DEF TypeOK
  <2>2. /\ new[src] = [pidArray[src] EXCEPT ![vid] = NoThread]
        /\ new[dst] = [pidArray[dst] EXCEPT ![n] = t]
        /\ \A d \in Container \ {src, dst} : new[d] = Numbering[d]
        /\ new = [d \in Container |-> new[d]]
    <3>1. /\ Numbering[src] = pidArray[src] /\ Numbering[dst] = pidArray[dst]
          /\ Numbering = [d \in Container |-> Numbering[d]]
          /\ src # dst /\ src \in Container /\ dst \in Container
      BY <1>1, NumberingIsFunction
    <3> HIDE DEF Numbering
    <3> QED BY <3>1
  <2>3. \A d \in Container :
          Numbering'[d] = IF d \in Live THEN pidArray'[d]
                                        ELSE [v \in Vid |-> NoThread]
    BY <1>4 DEF Numbering, Container, Vid
  <2>4. \A d \in Container :
          Numbering[d] = IF d \in Live THEN pidArray[d]
                                       ELSE [v \in Vid |-> NoThread]
    BY DEF Numbering
  <2>5. Numbering' = [d \in Container |-> Numbering'[d]]
    BY DEF Numbering, Container
  <2> HIDE DEF new
  <2>6. ASSUME NEW d \in Container PROVE Numbering'[d] = new[d]
    <3>1. CASE d = src
      BY <2>1, <2>2, <2>3, <3>1
    <3>2. CASE d = dst
      BY <2>1, <2>2, <2>3, <3>2
    <3>3. CASE d \notin {src, dst}
      BY <2>1, <2>2, <2>3, <2>4, <3>3
    <3> QED BY <3>1, <3>2, <3>3
  <2>7. Numbering' = new
    BY <2>2, <2>5, <2>6
  <2> QED BY <2>7 DEF new
<1>6. Allocator!FirstUnowned(dst, n)
  BY <1>1, <1>3 DEF Allocator!FirstUnowned, Allocator!Vid, Vid
<1>7. Numbering[src][vid] = t /\ vid \in Allocator!Vid /\ n \in Allocator!Vid
  BY <1>1, <1>2, <1>3 DEF Allocator!Vid, Vid
<1> QED BY <1>1, <1>5, <1>6, <1>7 DEF Allocator!Transfer

\* remove_task() gives back a vid of the thread, if it has one.
LEMMA RemoveTaskReleases ==
  ASSUME VidInv, NEW t \in Thread, NEW c \in Live, RemoveTask(c, t)
  PROVE  Allocator!Release(c, t) \/ Numbering' = Numbering
<1>1. TypeOK /\ c \in Container /\ Numbering[c] = pidArray[c] /\ Live' = Live
  BY NumberingOfLive DEF VidInv, RemoveTask, Live
<1>2. CASE VidsOf(c, t) = {}
  BY <1>1, <1>2, NumberingKept DEF RemoveTask
<1>3. CASE VidsOf(c, t) # {}
  <2> DEFINE vid == Smallest(VidsOf(c, t))
  <2>1. vid \in Vid /\ pidArray[c][vid] = t
    <3>1. VidsOf(c, t) \subseteq Vid
      BY DEF VidsOf
    <3> QED BY <1>3, <3>1, SmallestIsMember DEF VidsOf
  <2>2. pidArray' = [pidArray EXCEPT ![c][vid] = NoThread]
    BY <1>3 DEF RemoveTask
  <2> HIDE DEF vid
  <2>3. Numbering' = [Numbering EXCEPT ![c][vid] = NoThread]
    BY <1>1, <2>1, <2>2 DEF Numbering, TypeOK
  <2> QED BY <1>1, <2>1, <2>3 DEF Allocator!Release, Allocator!Vid, Vid
<1> QED BY <1>2, <1>3

\* create() hands out memory whose numbering was, and is, empty.
LEMMA CreateIsSilent ==
  ASSUME VidInv, NEW c \in Child, NEW hold \in BOOLEAN, Create(c, hold)
  PROVE  Numbering' = Numbering
<1>1. TypeOK /\ c \in Container /\ c \notin Live
  BY NameAssumption DEF VidInv, Container, Create, Live
<1>2. /\ Live' = Live \cup {c}
      /\ pidArray' = [pidArray EXCEPT ![c] = [v \in Vid |-> NoThread]]
  BY <1>1 DEF Create, Live, TypeOK
<1>3. ASSUME NEW d \in Container PROVE Numbering'[d] = Numbering[d]
  BY <1>1, <1>2 DEF Numbering, TypeOK, Container, Vid
<1> QED BY <1>3 DEF Numbering, Container

\* The end of delete() dissolves the container's numbering.
LEMMA DeleteEndDissolves ==
  ASSUME VidInv, NEW c \in Child, DeleteEnd(c)
  PROVE  Allocator!Dissolve(c)
<1>1. TypeOK /\ c \in Container /\ c # Root
  BY NameAssumption DEF VidInv, Container
<1>2. Live' = Live \ {c} /\ pidArray' = pidArray
  BY <1>1 DEF DeleteEnd, Live, TypeOK
<1>3. Numbering' = [Numbering EXCEPT ![c] = [v \in Vid |-> NoThread]]
  BY <1>1, <1>2 DEF Numbering, Container, Vid
<1> QED BY <1>3 DEF Allocator!Dissolve, Allocator!Unowned, Allocator!Vid, Vid

\* Every step is a step of the allocator or invisible to it.
LEMMA StepRefines == VidInv /\ [Next]_vars => [Allocator!Next]_Numbering
<1> SUFFICES ASSUME VidInv, [Next]_vars PROVE Allocator!Next \/ Numbering' = Numbering
  OBVIOUS
<1>0. Live \subseteq Container /\ Root \in Live
  BY LiveIsContainer DEF VidInv, Live
<1>1. CASE UNCHANGED vars
  BY <1>1, NumberingKept DEF vars, Live
<1>2. ASSUME NEW t \in Thread, TaskCreate(t)
      PROVE  Allocator!Next \/ Numbering' = Numbering
  <2>1. PICK ok \in BOOLEAN : AddTask(Root, t, ok)
    BY <1>2 DEF TaskCreate, MallocResult
  <2>2. Live' = Live
    BY <1>2 DEF TaskCreate, Live
  <2> QED BY <1>0, <2>1, <2>2, AddTaskGives DEF Allocator!Next
<1>3. ASSUME NEW c \in Child, NEW hold \in BOOLEAN, Create(c, hold)
      PROVE  Numbering' = Numbering
  BY <1>3, CreateIsSilent
<1>4. ASSUME NEW t \in Thread, NEW src \in Live, NEW dst \in Live,
             MoveTask(src, dst, t)
      PROVE  Allocator!Next
  BY <1>0, <1>4, MoveTaskTransfers DEF Allocator!Next
<1>5. ASSUME NEW t \in Thread, NEW c \in Live, RemoveTask(c, t)
      PROVE  Allocator!Next \/ Numbering' = Numbering
  BY <1>0, <1>5, RemoveTaskReleases DEF Allocator!Next
<1>6. ASSUME NEW c \in Child, NEW t \in Thread, DeleteMigrate(c, t)
      PROVE  Allocator!Next \/ Numbering' = Numbering
  <2>1. PICK ok \in BOOLEAN : AddTask(Root, t, ok)
    BY <1>6 DEF DeleteMigrate, MallocResult
  <2>2. Live' = Live
    BY <1>6 DEF DeleteMigrate, Live
  <2> QED BY <1>0, <2>1, <2>2, AddTaskGives DEF Allocator!Next
<1>7. ASSUME NEW t \in Thread, TaskDelete(t) PROVE Numbering' = Numbering
  BY <1>7, NumberingKept DEF TaskDelete, Live
<1>8. ASSUME NEW c \in Child, DeleteCall(c) \/ DeleteBegin(c)
      PROVE  Numbering' = Numbering
  BY <1>8, NumberingKept DEF DeleteCall, DeleteBegin, Live
<1>9. ASSUME NEW c \in Child, DeleteEnd(c) PROVE Allocator!Next
  <2>1. c \in Container
    BY DEF Container
  <2> QED BY <1>9, <2>1, DeleteEndDissolves DEF Allocator!Next
<1>10. ASSUME NEW t \in Thread, NEW c \in Live, MoveRefused(c, t)
       PROVE  Numbering' = Numbering
  BY <1>10, NumberingKept DEF MoveRefused, Live
<1> QED
  BY <1>1, <1>2, <1>3, <1>4, <1>5, <1>6, <1>7, <1>8, <1>9, <1>10 DEF Next

\* The initial numbering is empty.
LEMMA InitRefines == Init => Allocator!Init
<1> SUFFICES ASSUME Init PROVE Allocator!Init
  OBVIOUS
<1>1. pidArray = [c \in Container |-> [v \in Vid |-> NoThread]]
  BY DEF Init
<1> QED BY <1>1 DEF Allocator!Init, Allocator!Unowned, Allocator!Vid, Numbering, Vid

\* pidContainer.c implements an allocator of the smallest unused vid, for any
\* limit and any number of threads and containers.
THEOREM PidImplementsAllocator == Spec => ImplementsAllocator
BY VidInvInit, VidInvStep, InitRefines, StepRefines, PTL
   DEF Spec, ImplementsAllocator, Allocator!Spec

-----------------------------------------------------------------------------
(***************************************************************************)
(* Theorems about the members of PID containers: the nodes of the thread   *)
(* lists, the vids, the reference counts and the pointers of the tasks.    *)
(***************************************************************************)

-----------------------------------------------------------------------------
(* The inductive invariants *)

\* A thread has a vid for each of its nodes.
Numbered ==
  \A c \in Live, t \in Thread : threadList[c][t] <= Cardinality(VidsOf(c, t))
LinkInv == VidInv /\ Numbered

\* The counts, and who may hold a container that is not counted.
Counting ==
  /\ \A c \in Live :
       /\ rc[c] # -1 => rc[c] = (IF c \in held THEN 1 ELSE 0) + Cardinality(UsedVid(c))
       /\ rc[c] = -1 => c \notin held /\ deleting = c
  /\ \A c \in Child : life[c] # "live" => c \notin held
  /\ deleting # NoContainer => deleting \in Live
RcInv == VidInv /\ Counting

\* Every node of a task is in the container it points at, where there is one
\* node at most, or on the list that delete() walks; a task astray may have its
\* nodes anywhere.
Nodes ==
  /\ \A c \in Container, t \in Thread : threadList[c][t] > 0 =>
       /\ t \in alive
       /\ t \notin astray => threadList[c][t] = 1 /\ c \in Live /\ ptr[t] = c
  /\ \A t \in Thread : pending[t] > 0 =>
       /\ deleting # NoContainer /\ rc[deleting] = -1 /\ t \in alive
       /\ t \notin astray => pending[t] = 1 /\ ptr[t] = deleting

\* A task points at root or at a container that has its node or is losing it.
Pointers ==
  \A t \in alive \ astray :
    /\ ptr[t] \in Live
    /\ ptr[t] # Root => threadList[ptr[t]][t] > 0 \/ pending[t] > 0

\* Only delete() marks a container, after it took its nodes.
Marked ==
  /\ \A c \in Live :
       /\ rc[c] >= -1
       /\ rc[c] = -1 => deleting = c /\ \A t \in Thread : threadList[c][t] = 0
  /\ deleting # NoContainer => deleting \in Live
MemberInv == VidInv /\ Nodes /\ Pointers /\ Marked
-----------------------------------------------------------------------------
(* Vids *)

\* Every set of vids has a cardinality.
LEMMA VidSets ==
  ASSUME NEW S \in SUBSET Vid
  PROVE  IsFiniteSet(S) /\ Cardinality(S) \in Nat
<1>1. IsFiniteSet(Vid)
  <2>1. 1 \in Int /\ Limit - 1 \in Int
    BY LimitAssumption
  <2> QED BY <2>1, FS_Interval DEF Vid
<1> QED BY <1>1, FS_Subset, FS_CardinalityType

\* One vid more, one vid less.
LEMMA VidCounts ==
  ASSUME NEW S \in SUBSET Vid, NEW v \in Vid
  PROVE  /\ Cardinality(S) \in Nat
         /\ v \notin S => Cardinality(S \cup {v}) = Cardinality(S) + 1
         /\ v \in S => /\ Cardinality(S \ {v}) = Cardinality(S) - 1
                       /\ Cardinality(S) >= 1
<1>1. IsFiniteSet(S) /\ Cardinality(S) \in Nat
  BY VidSets
<1>2. v \notin S => Cardinality(S \cup {v}) = Cardinality(S) + 1
  BY <1>1, FS_AddElement
<1>3. ASSUME v \in S
      PROVE  Cardinality(S \ {v}) = Cardinality(S) - 1 /\ Cardinality(S) >= 1
  <2>1. Cardinality(S \ {v}) = Cardinality(S) - 1
    BY <1>1, <1>3, FS_RemoveElement
  <2>2. Cardinality(S \ {v}) \in Nat
    BY VidSets
  <2> QED BY <1>1, <2>1, <2>2
<1> QED BY <1>1, <1>2, <1>3

\* A thread that gets a fresh vid.
LEMMA TakesVid ==
  ASSUME TypeOK, NEW c \in Container, NEW t \in Thread, NEW n \in Vid \ UsedVid(c),
         pidArray'[c] = [pidArray[c] EXCEPT ![n] = t]
  PROVE  /\ Cardinality(UsedVid(c)') = Cardinality(UsedVid(c)) + 1
         /\ Cardinality(VidsOf(c, t)') = Cardinality(VidsOf(c, t)) + 1
         /\ \A u \in Thread \ {t} : VidsOf(c, u)' = VidsOf(c, u)
<1>1. pidArray[c] \in [Vid -> Thread \cup {NoThread}] /\ pidArray[c][n] = NoThread
  BY DEF TypeOK, UsedVid
<1>2. UsedVid(c)' = UsedVid(c) \cup {n} /\ UsedVid(c) \in SUBSET Vid
  BY <1>1, NameAssumption DEF UsedVid
<1>3. /\ VidsOf(c, t)' = VidsOf(c, t) \cup {n} /\ VidsOf(c, t) \in SUBSET Vid
      /\ n \notin VidsOf(c, t)
  BY <1>1, NameAssumption DEF VidsOf
<1>4. \A u \in Thread \ {t} : VidsOf(c, u)' = VidsOf(c, u)
  BY <1>1, NameAssumption DEF VidsOf
<1> QED BY <1>2, <1>3, <1>4, VidCounts

\* A thread that gives back one of its vids.
LEMMA GivesVid ==
  ASSUME TypeOK, NEW c \in Container, NEW t \in Thread, NEW v \in VidsOf(c, t),
         pidArray'[c] = [pidArray[c] EXCEPT ![v] = NoThread]
  PROVE  /\ Cardinality(UsedVid(c)') = Cardinality(UsedVid(c)) - 1
         /\ Cardinality(VidsOf(c, t)') = Cardinality(VidsOf(c, t)) - 1
         /\ \A u \in Thread \ {t} : VidsOf(c, u)' = VidsOf(c, u)
<1>1. pidArray[c] \in [Vid -> Thread \cup {NoThread}] /\ pidArray[c][v] = t /\ v \in Vid
  BY DEF TypeOK, VidsOf
<1>2. /\ UsedVid(c)' = UsedVid(c) \ {v} /\ UsedVid(c) \in SUBSET Vid
      /\ v \in UsedVid(c)
  <2>1. t # NoThread
    BY NameAssumption
  <2> QED BY <1>1, <2>1 DEF UsedVid
<1>3. VidsOf(c, t)' = VidsOf(c, t) \ {v} /\ VidsOf(c, t) \in SUBSET Vid
  <2>1. t # NoThread
    BY NameAssumption
  <2> QED BY <1>1, <2>1 DEF VidsOf
<1>4. \A u \in Thread \ {t} : VidsOf(c, u)' = VidsOf(c, u)
  <2>1. NoThread \notin Thread
    BY NameAssumption
  <2> QED BY <1>1, <2>1 DEF VidsOf
<1> QED BY <1>1, <1>2, <1>3, <1>4, VidCounts

\* The vids of a container whose pidArray does not change.
LEMMA SameVids ==
  ASSUME NEW c, pidArray'[c] = pidArray[c]
  PROVE  UsedVid(c)' = UsedVid(c) /\ \A u : VidsOf(c, u)' = VidsOf(c, u)
BY DEF UsedVid, VidsOf

-----------------------------------------------------------------------------
(* What the calls do to a container *)

\* A container whose members a step leaves alone.
Untouched(c) ==
  pidArray'[c] = pidArray[c] /\ threadList'[c] = threadList[c] /\ rc'[c] = rc[c]

\* A thread that joins a container gets a vid and a reference, and a node unless
\* there is no memory for it.
Joins(c, t) ==
  /\ rc'[c] = rc[c] + 1
  /\ Cardinality(UsedVid(c)') = Cardinality(UsedVid(c)) + 1
  /\ Cardinality(VidsOf(c, t)') = Cardinality(VidsOf(c, t)) + 1
  /\ threadList'[c][t] \in {threadList[c][t], threadList[c][t] + 1}
  /\ \A u \in Thread \ {t} :
       threadList'[c][u] = threadList[c][u] /\ VidsOf(c, u)' = VidsOf(c, u)

\* A thread that leaves it gives them back.
Quits(c, t) ==
  /\ rc'[c] = rc[c] - 1
  /\ Cardinality(UsedVid(c)') = Cardinality(UsedVid(c)) - 1
  /\ Cardinality(VidsOf(c, t)') = Cardinality(VidsOf(c, t)) - 1
  /\ threadList'[c][t] = IF threadList[c][t] > 0 THEN threadList[c][t] - 1 ELSE 0
  /\ \A u \in Thread \ {t} :
       threadList'[c][u] = threadList[c][u] /\ VidsOf(c, u)' = VidsOf(c, u)

\* add_task() makes the thread a member, or does nothing when the container is full.
LEMMA AddTaskJoins ==
  ASSUME VidInv, NEW c \in Live, NEW t \in Thread, NEW ok \in BOOLEAN, AddTask(c, t, ok)
  PROVE  /\ \A d \in Container \ {c} : Untouched(d)
         /\ Untouched(c) \/ Joins(c, t)
<1>1. TypeOK /\ c \in Container /\ Partition(c)
  BY VidInvPartition DEF VidInv
<1>2. CASE Full(c)
  BY <1>2 DEF AddTask, Untouched
<1>3. CASE ~Full(c)
  <2> DEFINE n == NextVid(c)
  <2>1. n \in Vid \ UsedVid(c)
    BY <1>1, <1>3, NextVidIsFresh
  <2>2. /\ pidArray' = [pidArray EXCEPT ![c][n] = t]
        /\ rc' = [rc EXCEPT ![c] = @ + 1]
        /\ threadList' = IF ok THEN [threadList EXCEPT ![c][t] = @ + 1] ELSE threadList
    BY <1>3 DEF AddTask
  <2> HIDE DEF n
  <2>3. /\ pidArray'[c] = [pidArray[c] EXCEPT ![n] = t] /\ rc'[c] = rc[c] + 1
        /\ threadList'[c][t] \in {threadList[c][t], threadList[c][t] + 1}
        /\ \A u \in Thread \ {t} : threadList'[c][u] = threadList[c][u]
    BY <1>1, <2>2 DEF TypeOK
  <2>4. \A d \in Container \ {c} : Untouched(d)
    BY <1>1, <2>2 DEF TypeOK, Untouched
  <2>5. Joins(c, t)
    BY <1>1, <2>1, <2>3, TakesVid DEF Joins
  <2> QED BY <2>4, <2>5
<1> QED BY <1>2, <1>3

\* move_task() takes the thread from one container to the other.
LEMMA MoveTaskMembers ==
  ASSUME VidInv, NEW t \in Thread, NEW src \in Live, NEW dst \in Live,
         MoveTask(src, dst, t)
  PROVE  /\ src # dst /\ \A d \in Container \ {src, dst} : Untouched(d)
         /\ Quits(src, t) /\ Joins(dst, t) /\ threadList[src][t] > 0
         /\ threadList'[dst][t] = threadList[dst][t] + 1 /\ threadList[dst][t] = 0
<1> DEFINE vid == Smallest(VidsOf(src, t))
           n == NextVid(dst)
<1>1. TypeOK /\ src \in Container /\ dst \in Container /\ src # dst
  BY LiveIsContainer DEF VidInv, MoveTask, CanMove
<1>2. vid \in VidsOf(src, t) /\ vid \in Vid
  <2>1. VidsOf(src, t) \subseteq Vid /\ VidsOf(src, t) # {}
    BY DEF MoveTask, CanMove, VidsOf
  <2> QED BY <2>1, SmallestIsMember
<1>3. n \in Vid \ UsedVid(dst)
  <2>1. Partition(dst)
    BY VidInvPartition
  <2> QED BY <1>1, <2>1, NextVidIsFresh DEF MoveTask, CanMove
<1>4. /\ pidArray' = [pidArray EXCEPT ![src][vid] = NoThread, ![dst][n] = t]
      /\ threadList' = [threadList EXCEPT ![src][t] = @ - 1, ![dst][t] = @ + 1]
      /\ rc' = [rc EXCEPT ![src] = @ - 1, ![dst] = @ + 1]
      /\ threadList[src][t] > 0 /\ threadList[dst][t] = 0
  BY DEF MoveTask, CanMove
<1> HIDE DEF vid, n
<1>5. /\ pidArray'[src] = [pidArray[src] EXCEPT ![vid] = NoThread]
      /\ pidArray'[dst] = [pidArray[dst] EXCEPT ![n] = t]
  BY <1>1, <1>4 DEF TypeOK
<1>6. /\ threadList'[src] = [threadList[src] EXCEPT ![t] = @ - 1]
      /\ threadList'[dst] = [threadList[dst] EXCEPT ![t] = @ + 1]
  BY <1>1, <1>4 DEF TypeOK
<1>7. /\ threadList'[src][t] = threadList[src][t] - 1
      /\ threadList'[dst][t] = threadList[dst][t] + 1
      /\ \A u \in Thread \ {t} : /\ threadList'[src][u] = threadList[src][u]
                                  /\ threadList'[dst][u] = threadList[dst][u]
  BY <1>1, <1>6 DEF TypeOK
<1>8. rc'[src] = rc[src] - 1 /\ rc'[dst] = rc[dst] + 1
  BY <1>1, <1>4 DEF TypeOK
<1>9. \A d \in Container \ {src, dst} : Untouched(d)
  BY <1>1, <1>4 DEF TypeOK, Untouched
<1>10. Quits(src, t)
  BY <1>1, <1>2, <1>4, <1>5, <1>7, <1>8, GivesVid DEF Quits
<1>11. Joins(dst, t)
  BY <1>1, <1>3, <1>5, <1>7, <1>8, TakesVid DEF Joins
<1> QED BY <1>1, <1>4, <1>7, <1>9, <1>10, <1>11

\* remove_task() does the same, but a thread without a vid loses its node, if it
\* has one, and a reference.
LEMMA RemoveTaskMembers ==
  ASSUME VidInv, NEW t \in Thread, NEW c \in Live, RemoveTask(c, t)
  PROVE  /\ \A d \in Container \ {c} : Untouched(d)
         /\ \/ Quits(c, t)
            \/ /\ pidArray' = pidArray /\ \A u \in Thread \ {t} : threadList'[c][u] = threadList[c][u]
               /\ threadList'[c][t] = IF threadList[c][t] > 0 THEN threadList[c][t] - 1 ELSE 0
<1>1. TypeOK /\ c \in Container
  BY LiveIsContainer DEF VidInv
<1>2. /\ threadList'[c][t] = IF threadList[c][t] > 0 THEN threadList[c][t] - 1 ELSE 0
      /\ \A u \in Thread \ {t} : threadList'[c][u] = threadList[c][u]
      /\ \A d \in Container \ {c} : threadList'[d] = threadList[d]
  BY <1>1 DEF TypeOK, RemoveTask
<1>3. rc'[c] = rc[c] - 1 /\ \A d \in Container \ {c} : rc'[d] = rc[d]
  BY <1>1 DEF TypeOK, RemoveTask
<1>4. CASE VidsOf(c, t) = {}
  <2>1. pidArray' = pidArray
    BY <1>4 DEF RemoveTask
  <2> QED BY <1>2, <1>3, <2>1 DEF Untouched
<1>5. CASE VidsOf(c, t) # {}
  <2> DEFINE vid == Smallest(VidsOf(c, t))
  <2>1. vid \in VidsOf(c, t)
    <3>1. VidsOf(c, t) \subseteq Vid
      BY DEF VidsOf
    <3> QED BY <1>5, <3>1, SmallestIsMember
  <2>2. pidArray' = [pidArray EXCEPT ![c][vid] = NoThread]
    BY <1>5 DEF RemoveTask
  <2> HIDE DEF vid
  <2>3. /\ pidArray'[c] = [pidArray[c] EXCEPT ![vid] = NoThread]
        /\ \A d \in Container \ {c} : pidArray'[d] = pidArray[d]
    BY <1>1, <2>2 DEF TypeOK
  <2>4. Quits(c, t)
    BY <1>1, <1>2, <1>3, <2>1, <2>3, GivesVid DEF Quits
  <2> QED BY <1>2, <1>3, <2>3, <2>4 DEF Untouched
<1> QED BY <1>4, <1>5

-----------------------------------------------------------------------------
(* Nodes and vids *)

\* Numbered, for one container.
NumberedAt(c) == \A u \in Thread : threadList[c][u] <= Cardinality(VidsOf(c, u))

\* The counts of nodes and vids are numbers.
LEMMA NodeTypes ==
  ASSUME TypeOK, NEW c \in Container, NEW u \in Thread
  PROVE  threadList[c][u] \in Nat /\ Cardinality(VidsOf(c, u)) \in Nat
<1>1. VidsOf(c, u) \in SUBSET Vid
  BY DEF VidsOf
<1> QED BY <1>1, VidSets DEF TypeOK

\* A node less and a vid less, or a node more and a vid more.
LEMMA NodeCounts ==
  ASSUME NEW a \in Nat, NEW b \in Nat, NEW a1 \in Nat, NEW b1 \in Nat, a <= b,
         \/ a1 \in {a, a + 1} /\ b1 = b + 1
         \/ a1 = (IF a > 0 THEN a - 1 ELSE 0) /\ b1 \in {b - 1, b}
  PROVE  a1 <= b1
OBVIOUS

\* A container whose members stay, gain one or lose one stays numbered.
LEMMA NumberedKept ==
  ASSUME TypeOK, TypeOK', NEW c \in Container, NumberedAt(c), NEW t \in Thread,
         Untouched(c) \/ Joins(c, t) \/ Quits(c, t)
  PROVE  NumberedAt(c)'
<1> SUFFICES ASSUME NEW u \in Thread
             PROVE  threadList'[c][u] <= Cardinality(VidsOf(c, u)')
  BY DEF NumberedAt
<1>1. threadList[c][u] \in Nat /\ Cardinality(VidsOf(c, u)) \in Nat
  BY NodeTypes
<1>2. threadList'[c][u] \in Nat /\ Cardinality(VidsOf(c, u)') \in Nat
  <2>1. VidsOf(c, u)' \in SUBSET Vid
    BY DEF VidsOf
  <2> QED BY <2>1, VidSets DEF TypeOK
<1>3. threadList[c][u] <= Cardinality(VidsOf(c, u))
  BY DEF NumberedAt
<1>4. CASE threadList'[c][u] = threadList[c][u] /\ VidsOf(c, u)' = VidsOf(c, u)
  BY <1>3, <1>4
<1>5. CASE u = t /\ Joins(c, t)
  <2>1. /\ threadList'[c][u] \in {threadList[c][u], threadList[c][u] + 1}
        /\ Cardinality(VidsOf(c, u)') = Cardinality(VidsOf(c, u)) + 1
    BY <1>5 DEF Joins
  <2> QED BY <1>1, <1>2, <1>3, <2>1, NodeCounts
<1>6. CASE u = t /\ Quits(c, t)
  <2>1. /\ threadList'[c][u] = IF threadList[c][u] > 0 THEN threadList[c][u] - 1 ELSE 0
        /\ Cardinality(VidsOf(c, u)') = Cardinality(VidsOf(c, u)) - 1
    BY <1>6 DEF Quits
  <2> QED BY <1>1, <1>2, <1>3, <2>1, NodeCounts
<1>7. CASE Untouched(c)
  BY <1>4, <1>7, SameVids DEF Untouched
<1> QED BY <1>4, <1>5, <1>6, <1>7 DEF Joins, Quits

\* create() and delete() empty a list; nothing is less than no node.
LEMMA NumberedEmpty ==
  ASSUME TypeOK', NEW c \in Container, threadList'[c] = NoNodes
  PROVE  NumberedAt(c)'
<1> SUFFICES ASSUME NEW u \in Thread
             PROVE  threadList'[c][u] <= Cardinality(VidsOf(c, u)')
  BY DEF NumberedAt
<1>1. VidsOf(c, u)' \in SUBSET Vid
  BY DEF VidsOf
<1>2. Cardinality(VidsOf(c, u)') \in Nat /\ threadList'[c][u] = 0
  BY <1>1, VidSets DEF NoNodes
<1> QED BY <1>2

\* remove_task() of a thread without a vid, who has no node either.
LEMMA NumberedStranger ==
  ASSUME TypeOK, TypeOK', NEW c \in Container, NumberedAt(c), NEW t \in Thread,
         pidArray' = pidArray,
         threadList'[c][t] = (IF threadList[c][t] > 0 THEN threadList[c][t] - 1 ELSE 0),
         \A u \in Thread \ {t} : threadList'[c][u] = threadList[c][u]
  PROVE  NumberedAt(c)'
<1> SUFFICES ASSUME NEW u \in Thread
             PROVE  threadList'[c][u] <= Cardinality(VidsOf(c, u)')
  BY DEF NumberedAt
<1>1. threadList[c][u] \in Nat /\ Cardinality(VidsOf(c, u)) \in Nat
  BY NodeTypes
<1>2. Cardinality(VidsOf(c, u)') = Cardinality(VidsOf(c, u)) /\ threadList'[c][u] \in Nat
  BY DEF VidsOf, TypeOK
<1>3. threadList[c][u] <= Cardinality(VidsOf(c, u))
  BY DEF NumberedAt
<1>4. CASE u = t
  BY <1>1, <1>2, <1>3, <1>4, NodeCounts
<1>5. CASE u # t
  BY <1>1, <1>2, <1>3, <1>5
<1> QED BY <1>4, <1>5

\* Every step keeps at least as many vids as nodes.
LEMMA LinkInvStep == LinkInv /\ [Next]_vars => LinkInv'
<1> SUFFICES ASSUME LinkInv, [Next]_vars PROVE LinkInv'
  OBVIOUS
<1>1. VidInv /\ VidInv' /\ TypeOK /\ TypeOK'
  BY VidInvStep DEF LinkInv, VidInv
<1>2. \A c \in Live : c \in Container /\ NumberedAt(c)
  <2>1. \A c \in Live : c \in Container
    BY DEF Live, Container
  <2> QED BY <2>1 DEF LinkInv, Numbered, NumberedAt
<1>3. \A c \in Live' : c \in Container
  BY DEF Live, Container
<1> SUFFICES ASSUME NEW d \in Live' PROVE NumberedAt(d)'
  BY <1>1 DEF LinkInv, Numbered, NumberedAt
<1>4. CASE UNCHANGED vars
  <2>1. d \in Live /\ UNCHANGED <<threadList, pidArray>>
    BY <1>4 DEF vars, Live
  <2> QED BY <1>2, <2>1 DEF NumberedAt, VidsOf
<1>5. ASSUME NEW t \in Thread, NEW ok \in BOOLEAN, AddTask(Root, t, ok), life' = life
      PROVE  NumberedAt(d)'
  <2>1. d \in Live /\ Root \in Live
    BY <1>5 DEF Live
  <2> QED BY <1>1, <1>2, <1>5, <2>1, AddTaskJoins, NumberedKept
<1>6. ASSUME NEW t \in Thread, TaskCreate(t) PROVE NumberedAt(d)'
  BY <1>5, <1>6 DEF TaskCreate, MallocResult
<1>7. ASSUME NEW t \in Thread, TaskDelete(t) \/ \E c \in Live : MoveRefused(c, t)
      PROVE  NumberedAt(d)'
  <2>1. d \in Live /\ UNCHANGED <<threadList, pidArray>>
    BY <1>7 DEF TaskDelete, MoveRefused, Live
  <2> QED BY <1>2, <2>1 DEF NumberedAt, VidsOf
<1>8. ASSUME NEW c \in Child, NEW hold \in BOOLEAN, Create(c, hold)
      PROVE  NumberedAt(d)'
  <2>1. c \in Container
    BY DEF Container
  <2>2. CASE d = c
    <3>1. threadList'[c] = NoNodes
      BY <1>1, <1>8, <2>1 DEF TypeOK, Create
    <3> QED BY <1>1, <2>1, <2>2, <3>1, NumberedEmpty
  <2>3. CASE d # c
    <3>1. d \in Live /\ threadList'[d] = threadList[d] /\ pidArray'[d] = pidArray[d]
      BY <1>1, <1>3, <1>8, <2>3 DEF TypeOK, Create, Live
    <3> QED BY <1>2, <3>1 DEF NumberedAt, VidsOf
  <2> QED BY <2>2, <2>3
<1>9. ASSUME NEW t \in Thread, NEW src \in Live, NEW dst \in Live, MoveTask(src, dst, t)
      PROVE  NumberedAt(d)'
  <2>1. d \in Live
    BY <1>9 DEF MoveTask, Live
  <2>2. Untouched(d) \/ Joins(d, t) \/ Quits(d, t)
    BY <1>1, <1>2, <1>9, <2>1, MoveTaskMembers
  <2> QED BY <1>1, <1>2, <2>1, <2>2, NumberedKept
<1>10. ASSUME NEW t \in Thread, NEW c \in Live, RemoveTask(c, t) PROVE NumberedAt(d)'
  <2>1. d \in Live
    BY <1>10 DEF RemoveTask, Live
  <2>2. CASE Untouched(d) \/ Quits(d, t)
    BY <1>1, <1>2, <2>1, <2>2, NumberedKept
  <2>3. CASE d = c /\ pidArray' = pidArray
    BY <1>1, <1>2, <1>10, <2>1, <2>2, <2>3, RemoveTaskMembers, NumberedStranger
  <2> QED BY <1>1, <1>2, <1>10, <2>1, <2>2, <2>3, RemoveTaskMembers
<1>11. ASSUME NEW c \in Child, NEW t \in Thread, DeleteMigrate(c, t) PROVE NumberedAt(d)'
  BY <1>5, <1>11 DEF DeleteMigrate, MallocResult
<1>12. ASSUME NEW c \in Child, DeleteBegin(c) PROVE NumberedAt(d)'
  <2>1. d \in Live /\ pidArray' = pidArray
    BY <1>12 DEF DeleteBegin, Live
  <2>2. threadList'[d] = NoNodes \/ threadList'[d] = threadList[d]
    BY <1>1, <1>3, <1>12 DEF TypeOK, DeleteBegin
  <2>3. CASE threadList'[d] = threadList[d]
    BY <1>2, <2>1, <2>3 DEF NumberedAt, VidsOf
  <2> QED BY <1>1, <1>3, <2>2, <2>3, NumberedEmpty
<1>13. ASSUME NEW c \in Child, DeleteCall(c) \/ DeleteEnd(c) PROVE NumberedAt(d)'
  <2>1. d \in Live /\ UNCHANGED <<threadList, pidArray>>
    BY <1>1, <1>13 DEF DeleteCall, DeleteEnd, Live, TypeOK
  <2> QED BY <1>2, <2>1 DEF NumberedAt, VidsOf
<1> QED
  BY <1>4, <1>6, <1>7, <1>8, <1>9, <1>10, <1>11, <1>12, <1>13 DEF Next

\* A thread linked into a container has a vid for each of its nodes, whatever the
\* callers do: reused control blocks, remove_task() and failing malloc() included.
THEOREM PidLinkedHasVid == Spec => []LinkedHasVid
<1>1. Init => LinkInv
  <2> SUFFICES ASSUME Init PROVE LinkInv
    OBVIOUS
  <2>1. VidInv /\ TypeOK
    BY VidInvInit DEF VidInv
  <2>2. ASSUME NEW c \in Live, NEW u \in Thread
        PROVE  threadList[c][u] <= Cardinality(VidsOf(c, u))
    <3>1. c \in Container
      BY DEF Live, Container
    <3>2. threadList[c][u] = 0
      BY <3>1 DEF Init, NoNodes
    <3>3. Cardinality(VidsOf(c, u)) \in Nat
      BY <2>1, <3>1, NodeTypes
    <3> QED BY <3>2, <3>3
  <2> QED BY <2>1, <2>2 DEF LinkInv, Numbered
<1>2. LinkInv => LinkedHasVid
  BY DEF LinkInv, Numbered, LinkedHasVid
<1> QED BY <1>1, <1>2, LinkInvStep, PTL DEF Spec

\* Every variable keeps its type, and vids stay inside pidArray.
THEOREM PidTypeCorrect == Spec => []TypeOK
<1>1. VidInv => TypeOK
  BY DEF VidInv
<1> QED BY <1>1, VidInvInit, VidInvStep, PTL DEF Spec

-----------------------------------------------------------------------------
(* Reference counts *)

\* Counting, for one container.
Creator(c) == IF c \in held THEN 1 ELSE 0
CountedAt(c) == rc[c] = Creator(c) + Cardinality(UsedVid(c)) /\ rc[c] # -1
MarkedAt(c) == rc[c] = -1 /\ c \notin held /\ deleting = c

\* Counting is CountedAt or MarkedAt of each live container.
LEMMA CountingPointwise ==
  Counting <=> /\ \A c \in Live : rc[c] # -1 => rc[c] = Creator(c) + Cardinality(UsedVid(c))
               /\ \A c \in Live : rc[c] = -1 => MarkedAt(c)
               /\ \A c \in Child : life[c] # "live" => c \notin held
               /\ deleting # NoContainer => deleting \in Live
BY DEF Counting, Creator, MarkedAt

\* A live container is counted or being deleted.
LEMMA CountedOrMarked ==
  ASSUME RcInv, NEW c \in Live
  PROVE  CountedAt(c) \/ MarkedAt(c)
BY CountingPointwise DEF RcInv, CountedAt

\* A member more or less and the reference that goes with it.
LEMMA RcArithmetic ==
  ASSUME NEW r \in Int, NEW h \in {0, 1}, NEW n \in Nat, NEW r1 \in Int, NEW n1 \in Nat,
         r = h + n, (r1 = r + 1 /\ n1 = n + 1) \/ (r1 = r - 1 /\ n1 = n - 1)
  PROVE  r1 = h + n1 /\ r1 # -1
OBVIOUS

\* A counted container whose members stay, gain one or lose one stays counted.
LEMMA CountedKept ==
  ASSUME TypeOK, NEW c \in Container, CountedAt(c), Creator(c)' = Creator(c), TypeOK',
         NEW t \in Thread, Untouched(c) \/ Joins(c, t) \/ Quits(c, t)
  PROVE  CountedAt(c)'
<1>1. rc[c] \in Int /\ rc'[c] \in Int /\ Creator(c) \in {0, 1}
  BY DEF TypeOK, Creator
<1>2. UsedVid(c) \in SUBSET Vid /\ UsedVid(c)' \in SUBSET Vid
  BY DEF UsedVid
<1>3. Cardinality(UsedVid(c)) \in Nat /\ Cardinality(UsedVid(c)') \in Nat
  BY <1>2, VidSets
<1>4. CASE Untouched(c)
  BY <1>4, SameVids DEF CountedAt, Untouched
<1>5. CASE Joins(c, t)
  <2>1. /\ rc'[c] = rc[c] + 1 /\ rc[c] = Creator(c) + Cardinality(UsedVid(c))
        /\ Cardinality(UsedVid(c)') = Cardinality(UsedVid(c)) + 1
    BY <1>5 DEF Joins, CountedAt
  <2>2. rc'[c] = Creator(c) + Cardinality(UsedVid(c)') /\ rc'[c] # -1
    BY <1>1, <1>3, <2>1, RcArithmetic
  <2> QED BY <2>2 DEF CountedAt
<1>6. CASE Quits(c, t)
  <2>1. /\ rc'[c] = rc[c] - 1 /\ rc[c] = Creator(c) + Cardinality(UsedVid(c))
        /\ Cardinality(UsedVid(c)') = Cardinality(UsedVid(c)) - 1
    BY <1>6 DEF Quits, CountedAt
  <2>2. rc'[c] = Creator(c) + Cardinality(UsedVid(c)') /\ rc'[c] # -1
    BY <1>1, <1>3, <2>1, RcArithmetic
  <2> QED BY <2>2 DEF CountedAt
<1> QED BY <1>4, <1>5, <1>6

\* A step that keeps the creators and the lives, and of each live container the
\* count and the mark, keeps the invariant.
LEMMA CountingKept ==
  ASSUME RcInv, VidInv', held' = held, life' = life,
         \A d \in Live : CountedAt(d)' \/ MarkedAt(d)',
         deleting' # NoContainer => deleting' \in Live
  PROVE  RcInv'
<1>1. Live' = Live
  BY DEF Live
<1>2. \A c \in Child : life'[c] # "live" => c \notin held'
  BY DEF RcInv, Counting
<1> QED BY <1>1, <1>2, CountingPointwise DEF RcInv, Counting, CountedAt, MarkedAt, Creator

\* When no delete() runs, every live container is counted; root always is.
LEMMA IdleCounted ==
  ASSUME RcInv
  PROVE  /\ \A d \in Live : d # deleting => CountedAt(d)
         /\ Root # deleting
         /\ Idle => \A d \in Live : CountedAt(d)
<1>1. Root # deleting /\ \A d \in Live : d # NoContainer
  BY NameAssumption DEF RcInv, VidInv, TypeOK, Live
<1> QED BY <1>1, CountedOrMarked DEF MarkedAt, Idle

\* A task joins root, by rtems_task_construct() or by the loop of delete().
LEMMA JoinRootCounts ==
  ASSUME RcInv, VidInv', NEW t \in Thread, NEW ok \in BOOLEAN, AddTask(Root, t, ok),
         UNCHANGED <<life, held, deleting>>
  PROVE  RcInv'
<1>1. /\ Root \in Live /\ VidInv /\ TypeOK /\ TypeOK'
      /\ \A d \in Live : d \in Container
  BY DEF Live, Container, RcInv, VidInv
<1>2. \A d \in Container : Creator(d)' = Creator(d)
  BY DEF Creator
<1>3. \A d \in Live : IF d = Root THEN Untouched(d) \/ Joins(d, t) ELSE Untouched(d)
  BY <1>1, AddTaskJoins
<1>4. ASSUME NEW d \in Live PROVE CountedAt(d)' \/ MarkedAt(d)'
  <2>1. CASE CountedAt(d)
    <3>1. Untouched(d) \/ Joins(d, t) \/ Quits(d, t)
      BY <1>3
    <3> QED BY <1>1, <1>2, <2>1, <3>1, CountedKept
  <2>2. CASE MarkedAt(d)
    <3>1. d # Root
      BY <2>2, IdleCounted DEF MarkedAt
    <3> QED BY <1>3, <2>2, <3>1 DEF MarkedAt, Untouched
  <2> QED BY <2>1, <2>2, CountedOrMarked
<1>5. deleting' # NoContainer => deleting' \in Live
  BY DEF RcInv, Counting
<1> QED BY <1>4, <1>5, CountingKept

\* move_task() moves a reference with the vid.
LEMMA MoveTaskCounts ==
  ASSUME RcInv, VidInv', NEW t \in Thread, NEW src \in Live, NEW dst \in Live,
         MoveTask(src, dst, t)
  PROVE  RcInv'
<1>1. VidInv /\ TypeOK /\ TypeOK' /\ \A d \in Live : d \in Container
  BY DEF Live, Container, RcInv, VidInv
<1>2. held' = held /\ life' = life /\ Idle /\ deleting' \in {src, NoContainer}
  BY DEF MoveTask
<1>3. ASSUME NEW d \in Live PROVE CountedAt(d)'
  <2>1. Untouched(d) \/ Joins(d, t) \/ Quits(d, t)
    BY <1>1, MoveTaskMembers
  <2>2. CountedAt(d) /\ Creator(d)' = Creator(d)
    BY <1>2, IdleCounted DEF Creator
  <2> QED BY <1>1, <2>1, <2>2, CountedKept
<1> QED BY <1>2, <1>3, CountingKept

\* create() makes a container counted for its creator only.
LEMMA CreateCounts ==
  ASSUME RcInv, VidInv', NEW c \in Child, NEW hold \in BOOLEAN, Create(c, hold)
  PROVE  RcInv'
<1>1. /\ TypeOK /\ TypeOK' /\ c \in Container /\ c \notin held
      /\ deleting = NoContainer /\ deleting' = deleting
  BY DEF RcInv, VidInv, Counting, Container, Create, Idle
<1>2. /\ Live' = Live \cup {c} /\ c \notin Live
      /\ \A d \in Live : d \in Container
  BY <1>1, NameAssumption DEF Create, Live, TypeOK, Container
<1>3. CountedAt(c)'
  <2>1. UsedVid(c)' = {}
    BY <1>1 DEF Create, UsedVid, TypeOK
  <2>2. Cardinality(UsedVid(c)') = 0
    BY <2>1, FS_EmptySet
  <2>3. rc'[c] = IF hold THEN 1 ELSE 0
    BY <1>1 DEF Create, TypeOK
  <2>4. Creator(c)' = IF hold THEN 1 ELSE 0
    BY <1>1 DEF Create, Creator
  <2> QED BY <2>2, <2>3, <2>4 DEF CountedAt
<1>4. ASSUME NEW d \in Live PROVE CountedAt(d)'
  <2>1. CountedAt(d) /\ d # c
    BY <1>1, <1>2, IdleCounted DEF Idle
  <2>2. rc'[d] = rc[d] /\ pidArray'[d] = pidArray[d] /\ (d \in held' <=> d \in held)
    BY <1>1, <1>2, <2>1 DEF Create, TypeOK
  <2>3. Creator(d)' = Creator(d) /\ UsedVid(d)' = UsedVid(d)
    BY <2>2, SameVids DEF Creator
  <2> QED BY <2>1, <2>2, <2>3 DEF CountedAt
<1>5. \A d \in Child : life'[d] # "live" => d \notin held'
  BY <1>1 DEF RcInv, Counting, Create, TypeOK
<1> QED BY <1>1, <1>2, <1>3, <1>4, <1>5, CountingPointwise
        DEF RcInv, Counting, CountedAt, Creator

\* delete() takes the creator's reference away with the mark, and frees only the
\* marked container.
LEMMA DeleteCounts ==
  ASSUME RcInv, VidInv', NEW c \in Child,
         DeleteCall(c) \/ DeleteBegin(c) \/ DeleteEnd(c)
  PROVE  RcInv'
<1>1. /\ TypeOK /\ TypeOK' /\ c \in Container /\ c # NoContainer
      /\ \A d \in Live : d \in Container
  BY NameAssumption DEF RcInv, VidInv, Container, Live
<1>2. CASE DeleteCall(c)
  <2>1. Live' = Live /\ c \in Live /\ deleting' = c /\ Idle
    BY <1>2 DEF DeleteCall, Live
  <2>2. \A d \in Live : CountedAt(d)'
    <3>1. UNCHANGED <<rc, held, pidArray>>
      BY <1>2 DEF DeleteCall
    <3> QED BY <2>1, <3>1, IdleCounted DEF CountedAt, Creator, UsedVid
  <2>3. held' = held /\ life' = life
    BY <1>2 DEF DeleteCall
  <2> QED BY <2>1, <2>2, <2>3, CountingKept
<1>3. CASE DeleteBegin(c)
  <2>1. /\ deleting = c /\ deleting' = c /\ c \in Live /\ Live' = Live
        /\ held' = held \ {c} /\ pidArray' = pidArray /\ life' = life
    BY <1>1, <1>3 DEF DeleteBegin, Live, RcInv, Counting
  <2>2. rc'[c] = -1 /\ \A d \in Live \ {c} : rc'[d] = rc[d]
    BY <1>1, <1>3 DEF DeleteBegin, TypeOK
  <2>3. MarkedAt(c)'
    BY <2>1, <2>2 DEF MarkedAt
  <2>4. \A d \in Live \ {c} : CountedAt(d)'
    <3>1. \A d \in Live \ {c} : CountedAt(d)
      BY <2>1, IdleCounted
    <3> QED BY <2>1, <2>2, <3>1 DEF CountedAt, Creator, UsedVid
  <2>5. \A d \in Child : life'[d] # "live" => d \notin held'
    BY <2>1 DEF RcInv, Counting
  <2> QED BY <2>1, <2>3, <2>4, <2>5, CountingPointwise
          DEF RcInv, Counting, CountedAt, MarkedAt, Creator
<1>4. CASE DeleteEnd(c)
  <2>1. /\ deleting = c /\ deleting' = NoContainer /\ c \in Live /\ rc[c] = -1
        /\ UNCHANGED <<rc, held, pidArray>> /\ life' = [life EXCEPT ![c] = "freed"]
    BY <1>1, <1>4 DEF DeleteEnd, RcInv, Counting
  <2>2. Live' \subseteq Live \ {c}
    BY <1>1, <2>1, NameAssumption DEF Live, TypeOK
  <2>3. \A d \in Live' : CountedAt(d)'
    <3>1. \A d \in Live' : CountedAt(d)
      BY <2>1, <2>2, IdleCounted
    <3> QED BY <2>1, <3>1 DEF CountedAt, Creator, UsedVid
  <2>4. c \notin held
    BY <2>1 DEF RcInv, Counting
  <2>5. \A d \in Child : life'[d] # "live" => d \notin held'
    BY <1>1, <2>1, <2>4 DEF RcInv, Counting, TypeOK
  <2> QED BY <2>1, <2>3, <2>5, CountingPointwise DEF RcInv, Counting, CountedAt, Creator
<1> QED BY <1>2, <1>3, <1>4

\* Every step but remove_task() keeps the counts.
LEMMA RcInvStep ==
  ASSUME "remove_task" \notin Calls
  PROVE  RcInv /\ [Next]_vars => RcInv'
<1> SUFFICES ASSUME RcInv, [Next]_vars PROVE RcInv'
  OBVIOUS
<1>1. VidInv'
  BY VidInvStep DEF RcInv
<1>2. CASE UNCHANGED <<life, held, rc, pidArray, deleting>>
  BY <1>1, <1>2 DEF RcInv, Counting, Live, UsedVid
<1>3. CASE UNCHANGED vars
  BY <1>2, <1>3 DEF vars
<1>4. ASSUME NEW t \in Thread, TaskCreate(t) PROVE RcInv'
  BY <1>1, <1>4, JoinRootCounts DEF TaskCreate, MallocResult
<1>5. ASSUME NEW t \in Thread, TaskDelete(t) \/ \E c \in Live : MoveRefused(c, t)
      PROVE  RcInv'
  BY <1>2, <1>5 DEF TaskDelete, MoveRefused
<1>6. ASSUME NEW c \in Child, NEW t \in Thread, DeleteMigrate(c, t) PROVE RcInv'
  BY <1>1, <1>6, JoinRootCounts DEF DeleteMigrate, MallocResult
<1>7. ASSUME NEW t \in Thread, NEW c \in Live, RemoveTask(c, t) PROVE FALSE
  BY <1>7 DEF RemoveTask, Allowed
<1> QED
  BY <1>1, <1>3, <1>4, <1>5, <1>6, <1>7, CreateCounts, MoveTaskCounts, DeleteCounts
     DEF Next

\* rc is the creator's reference plus one per vid in use, for every limit and
\* number of tasks and containers, with failing malloc() and reused control
\* blocks.  The exported remove_task() drops a reference for a task that has none,
\* so it is excluded.
THEOREM PidRcCountsMembers ==
  ASSUME "remove_task" \notin Calls
  PROVE  Spec => []RcCountsMembers
<1>1. Init => RcInv
  <2> SUFFICES ASSUME Init PROVE RcInv
    OBVIOUS
  <2>1. VidInv
    BY VidInvInit
  <2>2. Live = {Root} /\ Root \in Container /\ held = {Root} /\ deleting = NoContainer
    BY DEF Init, Live, Container
  <2>3. UsedVid(Root) = {} /\ rc[Root] = 1
    BY <2>2 DEF Init, UsedVid
  <2>4. Cardinality(UsedVid(Root)) = 0
    BY <2>3, FS_EmptySet
  <2>5. \A c \in Child : c \notin held
    BY <2>2, NameAssumption
  <2> QED BY <2>1, <2>2, <2>3, <2>4, <2>5 DEF RcInv, Counting
<1>2. RcInv => RcCountsMembers
  BY DEF RcInv, Counting, RcCountsMembers
<1> QED BY <1>1, <1>2, RcInvStep, PTL DEF Spec

-----------------------------------------------------------------------------
(* Pointers *)

\* While no delete() runs nothing is detached and nothing marked; root never is.
LEMMA IdleMembers ==
  ASSUME MemberInv
  PROVE  /\ TypeOK /\ Root \in Live /\ Root \in Container /\ Root # deleting
         /\ \A c \in Live : c \in Container /\ c # NoContainer
         /\ Idle => /\ \A t \in Thread : pending[t] = 0
                    /\ \A c \in Live : rc[c] >= 0
         /\ rc[Root] >= 0
<1>1. /\ TypeOK /\ Root \in Live /\ Root \in Container /\ Root # deleting
      /\ \A c \in Live : c \in Container /\ c # NoContainer
  BY NameAssumption DEF MemberInv, VidInv, TypeOK, Live, Container
<1>2. \A c \in Live : rc[c] \in Int /\ rc[c] >= -1 /\ (rc[c] = -1 => deleting = c)
  BY <1>1 DEF MemberInv, Marked, TypeOK
<1>3. \A c \in Live : c # deleting => rc[c] >= 0
  BY <1>2
<1>4. Idle => \A t \in Thread : pending[t] = 0
  BY <1>1 DEF MemberInv, Nodes, Idle, TypeOK
<1> QED BY <1>1, <1>3, <1>4 DEF Idle

\* A count that is not negative is no mark.
LEMMA NoMark ==
  ASSUME NEW r \in Int, r >= 0
  PROVE  r >= -1 /\ r # -1
OBVIOUS

\* Nothing is marked when no count is negative.
LEMMA Unmarked ==
  ASSUME VidInv', \A d \in Live' : rc'[d] >= 0,
         deleting' # NoContainer => deleting' \in Live'
  PROVE  Marked'
<1>1. \A d \in Live' : rc'[d] \in Int
  BY DEF VidInv, TypeOK, Live, Container
<1>2. \A d \in Live' : rc'[d] >= -1 /\ rc'[d] # -1
  BY <1>1, NoMark
<1> QED BY <1>2 DEF Marked

\* A task without a node in root may get one.
RootGains(t) ==
  /\ threadList[Root][t] = 0 => threadList'[Root][t] \in {0, 1}
  /\ \A d \in Container, u \in Thread :
       d # Root \/ u # t => threadList'[d][u] = threadList[d][u]
  /\ rc'[Root] >= 0
  /\ \A d \in Container \ {Root} : rc'[d] = rc[d]

LEMMA AddTaskRoot ==
  ASSUME MemberInv, NEW t \in Thread, NEW ok \in BOOLEAN, AddTask(Root, t, ok)
  PROVE  RootGains(t)
<1>1. /\ VidInv /\ TypeOK /\ Root \in Live /\ Root \in Container /\ rc[Root] >= 0
      /\ rc[Root] \in Int
  BY IdleMembers DEF MemberInv, TypeOK
<1>2. /\ \A d \in Container \ {Root} : Untouched(d)
      /\ Untouched(Root) \/ Joins(Root, t)
  BY <1>1, AddTaskJoins
<1>3. rc'[Root] >= 0
  BY <1>1, <1>2 DEF Untouched, Joins
<1>4. threadList[Root][t] = 0 => threadList'[Root][t] \in {0, 1}
  BY <1>2 DEF Untouched, Joins
<1>5. ASSUME NEW d \in Container, NEW u \in Thread, d # Root \/ u # t
      PROVE  threadList'[d][u] = threadList[d][u]
  BY <1>2, <1>5 DEF Untouched, Joins
<1> QED BY <1>2, <1>3, <1>4, <1>5 DEF RootGains, Untouched

\* A new task has no node anywhere, and gets its first one in root.
LEMMA TaskCreateMembers ==
  ASSUME MemberInv, VidInv', NEW t \in Thread, TaskCreate(t)
  PROVE  MemberInv'
<1>1. PICK ok \in BOOLEAN : AddTask(Root, t, ok)
  BY DEF TaskCreate, MallocResult
<1>2. /\ t \notin alive /\ alive' = alive \cup {t} /\ Live' = Live /\ Idle
      /\ ptr' = [ptr EXCEPT ![t] = Root] /\ UNCHANGED <<deleting, pending>>
      /\ astray' = astray \ {t}
  BY DEF TaskCreate, Live
<1>3. /\ TypeOK /\ Root \in Live /\ \A u \in Thread : pending[u] = 0
      /\ \A c \in Live : rc[c] >= 0 /\ c \in Container
      /\ Root \in Container /\ alive \subseteq Thread
  BY <1>2, IdleMembers DEF TypeOK
<1>4. \A c \in Container : threadList[c][t] = 0
  BY <1>2, <1>3 DEF MemberInv, Nodes, TypeOK
<1>5. RootGains(t)
  BY <1>1, <1>3, <1>4, AddTaskRoot
<1>6. ptr'[t] = Root /\ \A u \in Thread \ {t} : ptr'[u] = ptr[u]
  BY <1>2, <1>3 DEF TypeOK
<1>7. Nodes'
  <2>1. ASSUME NEW c \in Container, NEW u \in Thread, threadList'[c][u] > 0
        PROVE  /\ u \in alive'
               /\ u \notin astray' => threadList'[c][u] = 1 /\ c \in Live' /\ ptr'[u] = c
    <3>1. CASE u = t
      BY <1>2, <1>3, <1>4, <1>5, <1>6, <2>1, <3>1 DEF RootGains
    <3>2. CASE u # t
      BY <1>2, <1>5, <1>6, <2>1, <3>2 DEF RootGains, MemberInv, Nodes
    <3> QED BY <3>1, <3>2
  <2> QED BY <1>2, <1>3, <2>1 DEF Nodes
<1>8. Pointers'
  <2>1. ASSUME NEW u \in alive' \ astray'
        PROVE  ptr'[u] \in Live' /\ (ptr'[u] # Root => threadList'[ptr'[u]][u] > 0)
    <3>1. CASE u = t
      BY <1>2, <1>3, <1>6, <3>1
    <3>2. CASE u # t
      <4>1. u \in alive \ astray /\ ptr'[u] = ptr[u] /\ ptr[u] \in Live
        BY <1>2, <1>3, <1>6, <3>2 DEF MemberInv, Pointers
      <4>2. ptr[u] # Root => threadList[ptr[u]][u] > 0
        BY <1>3, <4>1 DEF MemberInv, Pointers
      <4> QED BY <1>2, <1>3, <1>5, <4>1, <4>2 DEF RootGains
    <3> QED BY <3>1, <3>2
  <2> QED BY <2>1 DEF Pointers
<1>9. Marked'
  <2>1. \A c \in Live : rc'[c] >= 0
    BY <1>3, <1>5 DEF RootGains
  <2> QED BY <1>2, <2>1, Unmarked DEF Idle
<1> QED BY <1>7, <1>8, <1>9 DEF MemberInv

\* A new container has no members, and no task points at its memory.
LEMMA CreateMembers ==
  ASSUME MemberInv, VidInv', NEW c \in Child, NEW hold \in BOOLEAN, Create(c, hold)
  PROVE  MemberInv'
<1>1. /\ Idle /\ life[c] # "live" /\ UNCHANGED <<alive, ptr, astray, deleting, pending>>
      /\ life' = [life EXCEPT ![c] = "live"]
      /\ rc' = [rc EXCEPT ![c] = IF hold THEN 1 ELSE 0]
      /\ threadList' = [threadList EXCEPT ![c] = NoNodes]
  BY DEF Create
<1>2. /\ TypeOK /\ c \in Container /\ \A u \in Thread : pending[u] = 0
      /\ \A d \in Live : rc[d] >= 0 /\ d \in Container
  BY <1>1, IdleMembers DEF Container
<1>3. Live' = Live \cup {c} /\ c \notin Live
  BY <1>1, <1>2, NameAssumption DEF Live, TypeOK
<1>4. /\ rc'[c] >= 0 /\ \A d \in Live : rc'[d] = rc[d]
      /\ \A u \in Thread : threadList'[c][u] = 0
      /\ \A d \in Container \ {c} : threadList'[d] = threadList[d]
  BY <1>1, <1>2, <1>3 DEF TypeOK, NoNodes
<1>5. Nodes'
  BY <1>1, <1>2, <1>3, <1>4 DEF MemberInv, Nodes
<1>6. Pointers'
  BY <1>1, <1>2, <1>3, <1>4 DEF MemberInv, Pointers
<1>7. Marked'
  <2>1. \A d \in Live' : rc'[d] >= 0
    BY <1>2, <1>3, <1>4
  <2> QED BY <1>1, <2>1, Unmarked DEF Idle
<1> QED BY <1>5, <1>6, <1>7 DEF MemberInv

\* move_task() moves the only node of the task together with its pointer.
LEMMA MoveTaskPointers ==
  ASSUME MemberInv, VidInv', NEW t \in Thread, NEW src \in Live, NEW dst \in Live,
         MoveTask(src, dst, t)
  PROVE  MemberInv'
<1>1. /\ src # dst /\ \A d \in Container \ {src, dst} : Untouched(d)
      /\ Quits(src, t) /\ Joins(dst, t) /\ threadList[src][t] > 0
      /\ threadList'[dst][t] = threadList[dst][t] + 1 /\ threadList[dst][t] = 0
  BY MoveTaskMembers DEF MemberInv
<1>2. /\ Idle /\ rc[src] > 0 /\ UNCHANGED <<alive, life, astray, pending>>
      /\ ptr' = IF ptr[t] = src THEN [ptr EXCEPT ![t] = dst] ELSE ptr
      /\ deleting' \in {src, NoContainer} /\ Live' = Live
  BY DEF MoveTask, CanMove, Live
<1>3. /\ TypeOK /\ \A u \in Thread : pending[u] = 0
      /\ \A d \in Live : rc[d] \in Int /\ rc[d] >= 0 /\ d \in Container
      /\ alive \subseteq Thread
  BY <1>2, IdleMembers DEF TypeOK
<1>4. t \in alive /\ (t \notin astray => threadList[src][t] = 1 /\ ptr[t] = src)
  BY <1>1, <1>3 DEF MemberInv, Nodes
<1>5. (t \notin astray => ptr'[t] = dst) /\ \A u \in Thread \ {t} : ptr'[u] = ptr[u]
  BY <1>2, <1>3, <1>4 DEF TypeOK
<1>6. /\ t \notin astray => threadList'[src][t] = 0
      /\ threadList'[dst][t] = 1
      /\ \A d \in Container, u \in Thread :
           u # t \/ d \notin {src, dst} => threadList'[d][u] = threadList[d][u]
  <2>1. threadList'[src][t] = threadList[src][t] - 1
    BY <1>1 DEF Quits
  <2>2. (t \notin astray => threadList'[src][t] = 0) /\ threadList'[dst][t] = 1
    BY <1>1, <1>4, <2>1
  <2> QED BY <1>1, <2>2 DEF Untouched, Quits, Joins
<1>7. \A d \in Live : rc'[d] >= 0
  <2>1. rc'[src] = rc[src] - 1 /\ rc'[dst] = rc[dst] + 1
    BY <1>1 DEF Quits, Joins
  <2>2. \A d \in Live \ {src, dst} : rc'[d] = rc[d]
    BY <1>1, <1>3 DEF Untouched
  <2> QED BY <1>2, <1>3, <2>1, <2>2
<1>8. Nodes'
  <2>1. ASSUME NEW c \in Container, NEW u \in Thread, threadList'[c][u] > 0
        PROVE  /\ u \in alive'
               /\ u \notin astray' => threadList'[c][u] = 1 /\ c \in Live' /\ ptr'[u] = c
    <3>0. CASE u = t /\ t \in astray
      BY <1>2, <1>4, <3>0
    <3>1. CASE u = t /\ t \notin astray
      <4>1. CASE c = dst
        BY <1>2, <1>4, <1>5, <1>6, <3>1, <4>1
      <4>2. CASE c \notin {src, dst}
        <5>1. threadList[c][t] > 0
          BY <1>6, <2>1, <3>1, <4>2
        <5>2. ptr[t] = c
          BY <3>1, <5>1 DEF MemberInv, Nodes
        <5> QED BY <1>4, <3>1, <4>2, <5>2
      <4>3. c # src
        BY <1>6, <2>1, <3>1
      <4> QED BY <4>1, <4>2, <4>3
    <3>2. CASE u # t
      BY <1>2, <1>5, <1>6, <2>1, <3>2 DEF MemberInv, Nodes
    <3> QED BY <3>0, <3>1, <3>2
  <2> QED BY <1>2, <1>3, <2>1 DEF Nodes
<1>9. Pointers'
  <2>1. ASSUME NEW u \in alive' \ astray'
        PROVE  ptr'[u] \in Live' /\ (ptr'[u] # Root => threadList'[ptr'[u]][u] > 0)
    <3>1. CASE u = t
      BY <1>2, <1>5, <1>6, <3>1
    <3>2. CASE u # t
      <4>1. /\ u \in alive \ astray /\ u \in Thread /\ ptr'[u] = ptr[u] /\ ptr[u] \in Live
        BY <1>2, <1>3, <1>5, <3>2 DEF MemberInv, Pointers
      <4>2. ptr[u] # Root => threadList[ptr[u]][u] > 0
        BY <1>3, <4>1 DEF MemberInv, Pointers
      <4> QED BY <1>2, <1>3, <1>6, <3>2, <4>1, <4>2
    <3> QED BY <3>1, <3>2
  <2> QED BY <2>1 DEF Pointers
<1>10. Marked'
  BY <1>2, <1>7, Unmarked
<1> QED BY <1>8, <1>9, <1>10 DEF MemberInv

\* delete() detaches the list: the tasks that point at the container are on it.
LEMMA DeleteBeginMembers ==
  ASSUME MemberInv, VidInv', NEW c \in Child, DeleteBegin(c)
  PROVE  MemberInv'
<1>1. /\ deleting = c /\ rc[c] # -1 /\ UNCHANGED <<alive, life, ptr, astray, deleting>>
      /\ rc' = [rc EXCEPT ![c] = -1] /\ pending' = threadList[c]
      /\ threadList' = [threadList EXCEPT ![c] = NoNodes] /\ Live' = Live
  BY DEF DeleteBegin, Live
<1>2. /\ TypeOK /\ c \in Container /\ c # Root /\ c # NoContainer
      /\ \A d \in Live : d \in Container /\ d # NoContainer
      /\ alive \subseteq Thread /\ c \in Live
  BY <1>1, IdleMembers, NameAssumption DEF Container, TypeOK, MemberInv, Marked
<1>3. \A u \in Thread : pending[u] = 0
  BY <1>1, <1>2 DEF MemberInv, Nodes, TypeOK
<1>4. /\ rc'[c] = -1 /\ \A d \in Live \ {c} : rc'[d] = rc[d]
      /\ \A u \in Thread : threadList'[c][u] = 0 /\ pending'[u] = threadList[c][u]
      /\ \A d \in Container \ {c} : threadList'[d] = threadList[d]
  BY <1>1, <1>2 DEF TypeOK, NoNodes
<1>5. Nodes'
  BY <1>1, <1>2, <1>4 DEF MemberInv, Nodes
<1>6. Pointers'
  <2>1. ASSUME NEW u \in alive \ astray
        PROVE  /\ ptr[u] \in Live
               /\ ptr[u] # Root => threadList'[ptr[u]][u] > 0 \/ pending'[u] > 0
    <3>1. ptr[u] \in Live /\ (ptr[u] # Root => threadList[ptr[u]][u] > 0)
      BY <1>2, <1>3 DEF MemberInv, Pointers
    <3> QED BY <1>2, <1>4, <3>1
  <2> QED BY <1>1, <2>1 DEF Pointers
<1>7. Marked'
  <2>1. \A d \in Live \ {c} : rc'[d] >= -1 /\ rc'[d] # -1
    BY <1>1, <1>2, <1>4 DEF MemberInv, Marked
  <2> QED BY <1>1, <1>2, <1>4, <2>1 DEF Marked
<1> QED BY <1>5, <1>6, <1>7 DEF MemberInv

\* The loop of delete() takes a task off the detached list and into root.
LEMMA DeleteMigrateMembers ==
  ASSUME MemberInv, VidInv', NEW c \in Child, NEW t \in Thread, DeleteMigrate(c, t)
  PROVE  MemberInv'
<1>1. PICK ok \in BOOLEAN : AddTask(Root, t, ok)
  BY DEF DeleteMigrate, MallocResult
<1>2. /\ deleting = c /\ rc[c] = -1 /\ pending[t] > 0 /\ Live' = Live
      /\ pending' = [pending EXCEPT ![t] = @ - 1]
      /\ ptr' = IF ptr[t] = c THEN [ptr EXCEPT ![t] = Root] ELSE ptr
      /\ UNCHANGED <<alive, astray, deleting>>
  BY DEF DeleteMigrate, Live
<1>3. /\ TypeOK /\ Root \in Live /\ Root \in Container /\ c # Root
      /\ c \in Container /\ alive \subseteq Thread
      /\ \A d \in Live : d \in Container
  BY IdleMembers, NameAssumption DEF TypeOK, Container
<1>4. t \in alive /\ (t \notin astray => pending[t] = 1 /\ ptr[t] = c)
  BY <1>2 DEF MemberInv, Nodes
<1>5. t \notin astray => \A d \in Container \ {c} : threadList[d][t] = 0
  BY <1>3, <1>4 DEF MemberInv, Nodes, TypeOK
<1>6. RootGains(t)
  BY <1>1, AddTaskRoot
<1>7. /\ t \notin astray => ptr'[t] = Root /\ pending'[t] = 0
      /\ \A u \in Thread \ {t} : ptr'[u] = ptr[u] /\ pending'[u] = pending[u]
  BY <1>2, <1>3, <1>4 DEF TypeOK
<1>8. /\ c \in Live /\ rc'[c] = -1 /\ \A u \in Thread : threadList[c][u] = 0
  BY <1>2, <1>3, <1>6, NameAssumption DEF MemberInv, Marked, RootGains
<1>9. Nodes'
  <2>1. ASSUME NEW d \in Container, NEW u \in Thread, threadList'[d][u] > 0
        PROVE  /\ u \in alive'
               /\ u \notin astray' => threadList'[d][u] = 1 /\ d \in Live' /\ ptr'[u] = d
    <3>0. CASE u = t /\ t \in astray
      BY <1>2, <1>4, <3>0
    <3>1. CASE u = t /\ t \notin astray
      <4>1. d = Root
        BY <1>5, <1>6, <1>8, <2>1, <3>1 DEF RootGains
      <4>2. threadList'[Root][t] \in {0, 1}
        BY <1>3, <1>5, <1>6, <3>1 DEF RootGains
      <4> QED BY <1>2, <1>3, <1>4, <1>7, <2>1, <3>1, <4>1, <4>2
    <3>2. CASE u # t
      BY <1>2, <1>6, <1>7, <2>1, <3>2 DEF RootGains, MemberInv, Nodes
    <3> QED BY <3>0, <3>1, <3>2
  <2>2. ASSUME NEW u \in Thread, pending'[u] > 0
        PROVE  /\ deleting' # NoContainer /\ rc'[deleting'] = -1 /\ u \in alive'
               /\ u \notin astray' => pending'[u] = 1 /\ ptr'[u] = deleting'
    <3>1. deleting' # NoContainer /\ rc'[deleting'] = -1
      BY <1>2, <1>3, <1>8, NameAssumption DEF Container
    <3>2. CASE u = t /\ t \in astray
      BY <1>2, <1>4, <3>1, <3>2
    <3>3. CASE u # t
      BY <1>2, <1>7, <2>2, <3>1, <3>3 DEF MemberInv, Nodes
    <3>4. u = t => t \in astray
      BY <1>7, <2>2
    <3> QED BY <3>2, <3>3, <3>4
  <2> QED BY <2>1, <2>2 DEF Nodes
<1>10. Pointers'
  <2>1. ASSUME NEW u \in alive' \ astray'
        PROVE  /\ ptr'[u] \in Live'
               /\ ptr'[u] # Root => threadList'[ptr'[u]][u] > 0 \/ pending'[u] > 0
    <3>1. CASE u = t
      BY <1>2, <1>3, <1>7, <3>1
    <3>2. CASE u # t
      <4>1. /\ u \in alive \ astray /\ u \in Thread /\ ptr'[u] = ptr[u] /\ pending'[u] = pending[u]
        BY <1>2, <1>3, <1>7, <3>2
      <4>2. /\ ptr[u] \in Live
            /\ ptr[u] # Root => threadList[ptr[u]][u] > 0 \/ pending[u] > 0
        BY <4>1 DEF MemberInv, Pointers
      <4> QED BY <1>2, <1>3, <1>6, <3>2, <4>1, <4>2 DEF RootGains
    <3> QED BY <3>1, <3>2
  <2> QED BY <2>1 DEF Pointers
<1>11. Marked'
  <2>1. ASSUME NEW d \in Live
        PROVE  /\ rc'[d] >= -1
               /\ rc'[d] = -1 => d = c
    <3>1. CASE d = Root
      <4>1. rc'[Root] \in Int /\ rc'[Root] >= 0
        BY <1>3, <1>6 DEF VidInv, TypeOK, RootGains
      <4> QED BY <3>1, <4>1, NoMark
    <3>2. CASE d # Root
      <4>1. rc'[d] = rc[d]
        BY <1>3, <1>6, <3>2 DEF RootGains
      <4> QED BY <1>2, <4>1 DEF MemberInv, Marked
    <3> QED BY <3>1, <3>2
  <2>2. \A u \in Thread : threadList'[c][u] = 0
    BY <1>3, <1>6, <1>8 DEF RootGains
  <2> QED BY <1>2, <1>8, <2>1, <2>2 DEF Marked
<1> QED BY <1>9, <1>10, <1>11 DEF MemberInv

\* delete() frees the container when nobody points at it any more.
LEMMA DeleteEndMembers ==
  ASSUME MemberInv, VidInv', NEW c \in Child, DeleteEnd(c)
  PROVE  MemberInv'
<1>1. /\ deleting = c /\ rc[c] = -1 /\ deleting' = NoContainer
      /\ life' = [life EXCEPT ![c] = "freed"] /\ pending = NoNodes
      /\ UNCHANGED <<alive, rc, threadList, ptr, astray, pending>>
  BY DEF DeleteEnd
<1>2. /\ TypeOK /\ c # Root /\ c # NoContainer /\ c \in Live /\ alive \subseteq Thread
      /\ \A u \in Thread : pending[u] = 0
  BY <1>1, NameAssumption DEF MemberInv, VidInv, TypeOK, Marked, NoNodes
<1>3. Live' = Live \ {c}
  BY <1>1, <1>2 DEF Live, TypeOK
<1>4. \A u \in Thread : threadList[c][u] = 0
  BY <1>1, <1>2 DEF MemberInv, Marked
<1>5. \A u \in alive \ astray : ptr[u] # c
  BY <1>2, <1>4 DEF MemberInv, Pointers
<1>6. Nodes'
  BY <1>1, <1>2, <1>3, <1>4 DEF MemberInv, Nodes
<1>7. Pointers'
  BY <1>1, <1>3, <1>5 DEF MemberInv, Pointers
<1>8. Marked'
  <2>1. \A d \in Live' : rc'[d] >= -1 /\ rc'[d] # -1
    BY <1>1, <1>3 DEF MemberInv, Marked
  <2> QED BY <1>1, <2>1 DEF Marked
<1> QED BY <1>6, <1>7, <1>8 DEF MemberInv

\* Every step of a system that neither deletes tasks nor calls remove_task()
\* keeps pointers, nodes and marks together.
LEMMA MemberInvStep ==
  ASSUME "remove_task" \notin Calls, "task_delete" \notin Calls
  PROVE  MemberInv /\ [Next]_vars => MemberInv'
<1> SUFFICES ASSUME MemberInv, [Next]_vars PROVE MemberInv'
  OBVIOUS
<1>1. VidInv'
  BY VidInvStep DEF MemberInv
<1>2. CASE UNCHANGED vars
  BY <1>1, <1>2 DEF vars, MemberInv, Nodes, Pointers, Marked, Live
<1>3. ASSUME NEW c \in Child, DeleteCall(c) PROVE MemberInv'
  <2>1. /\ Idle /\ deleting' = c /\ c \in Live /\ Live' = Live
        /\ UNCHANGED <<alive, rc, threadList, ptr, astray, pending>>
    BY <1>3 DEF DeleteCall, Live
  <2>2. /\ \A u \in Thread : pending[u] = 0
        /\ \A d \in Live : rc[d] >= 0
    BY <2>1, IdleMembers
  <2>3. Nodes'
    BY <2>1, <2>2 DEF MemberInv, Nodes
  <2>4. Pointers'
    BY <2>1 DEF MemberInv, Pointers
  <2>5. Marked'
    BY <1>1, <2>1, <2>2, Unmarked
  <2> QED BY <1>1, <2>3, <2>4, <2>5 DEF MemberInv
<1>4. ASSUME NEW t \in Thread, NEW c \in Live, RemoveTask(c, t) PROVE FALSE
  BY <1>4 DEF RemoveTask, Allowed
<1>5. ASSUME NEW t \in Thread, TaskDelete(t) PROVE FALSE
  BY <1>5 DEF TaskDelete, Allowed
<1>6. ASSUME NEW t \in Thread, NEW c \in Live, MoveRefused(c, t) PROVE MemberInv'
  <2>1. /\ Live' = Live /\ t \in alive /\ astray' = astray \cup {t}
        /\ ptr' = [ptr EXCEPT ![t] = c]
        /\ UNCHANGED <<alive, rc, threadList, deleting, pending>>
    BY <1>6 DEF MoveRefused, Live
  <2>2. \A u \in Thread \ astray' : u \notin astray /\ ptr'[u] = ptr[u]
    BY <2>1 DEF MemberInv, VidInv, TypeOK
  <2>3. Nodes'
    BY <2>1, <2>2 DEF MemberInv, Nodes
  <2>4. alive \subseteq Thread
    BY DEF MemberInv, VidInv, TypeOK
  <2>5. Pointers'
    BY <2>1, <2>2, <2>4 DEF MemberInv, Pointers
  <2>6. Marked'
    BY <2>1 DEF MemberInv, Marked
  <2> QED BY <1>1, <2>3, <2>5, <2>6 DEF MemberInv
<1> QED
  BY <1>1, <1>2, <1>3, <1>4, <1>5, <1>6, TaskCreateMembers, CreateMembers, MoveTaskPointers,
     DeleteBeginMembers, DeleteMigrateMembers, DeleteEndMembers DEF Next

\* No task points at a freed container, and between calls the lists and the
\* pointers name the same container, for every limit and number of tasks and
\* containers, with failing malloc() and enter() and leave() writing the pointer:
\* a refused move_task() spoils the pointer of its own task and of no other.  A
\* deleted task leaves its node behind and remove_task() leaves the pointer
\* behind, so both are excluded.
THEOREM PidPointersAgree ==
  ASSUME "remove_task" \notin Calls, "task_delete" \notin Calls
  PROVE  Spec => []PointersAgree
<1>1. Init => MemberInv
  <2> SUFFICES ASSUME Init PROVE MemberInv
    OBVIOUS
  <2>1. VidInv
    BY VidInvInit
  <2>2. /\ Live = {Root} /\ Root \in Container /\ alive = {} /\ deleting = NoContainer
        /\ rc[Root] = 1
        /\ \A c \in Container, u \in Thread : threadList[c][u] = 0 /\ pending[u] = 0
    BY DEF Init, Live, Container, NoNodes
  <2> QED BY <2>1, <2>2 DEF MemberInv, Nodes, Pointers, Marked
<1>2. MemberInv => PointersAgree
  <2> SUFFICES ASSUME MemberInv, NEW t \in alive \ astray
               PROVE  ptr[t] \in Live /\ (Idle => FindByThread(t) \subseteq {ptr[t]})
    BY DEF PointersAgree
  <2>1. t \in Thread /\ listed \subseteq Container /\ Root \in Container
    BY DEF MemberInv, VidInv, TypeOK, Container
  <2>2. \A c \in Container : threadList[c][t] > 0 => ptr[t] = c
    BY <2>1 DEF MemberInv, Nodes
  <2>3. FindByThread(t) \subseteq {ptr[t]}
    BY <2>1, <2>2 DEF FindByThread
  <2> QED BY <2>3 DEF MemberInv, Pointers
<1> QED BY <1>1, <1>2, MemberInvStep, PTL DEF Spec
=============================================================================
