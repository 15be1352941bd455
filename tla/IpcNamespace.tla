---------------------------- MODULE IpcNamespace ----------------------------
(***************************************************************************)
(* The object tables of the IPC namespaces: cpukit/score/src/ipcContainer.c*)
(* and the message queue and semaphore directives that look up their       *)
(* objects information through the namespace of the executing thread.      *)
(*                                                                         *)
(* A namespace owns, for each kind of object, a fixed set of control       *)
(* blocks, the chain of inactive ones and a table from indices to open     *)
(* ones.  A system-wide table per kind (_Message_queue_Information,        *)
(* _Semaphore_Information) exists beside them, and some directives use it  *)
(* where others use the namespace.                                         *)
(*                                                                         *)
(* Abstractions.  An object is <<namespace, kind, index>>; the payload of  *)
(* queues and the counts of semaphores are left out.  The inactive chain   *)
(* keeps its pointers: appending a block that is already linked corrupts   *)
(* it.  Reference counts and which thread enters which namespace are       *)
(* the business of UnifiedContainer.  A write to the system-wide table     *)
(* beyond its end changes memory that is not modelled.  malloc() does not  *)
(* fail in a new namespace's initialisers, which go on without the table:  *)
(* the first create directive there would call through a NULL pointer.     *)
(***************************************************************************)
EXTENDS Integers, FiniteSets

CONSTANTS
  Thread,
  Child,        \* addresses of the namespaces created at run time
  Root,         \* the root namespace
  RootMax, ChildMax,   \* objects of each kind in a namespace: 10 and 20 in
                \* the root, 5 and 10 in a child
  GlobalMax,    \* CONFIGURE_MAXIMUM_MESSAGE_QUEUES and _SEMAPHORES
  ApiBit,       \* the containerID whose bit in an id is the API bit (512)
  MaxId,        \* bound: highest containerID handed out
  NoObject,     \* NULL
  End,          \* head or tail of a chain
  Calls         \* optional behaviours of the environment: see Allowed

ASSUME SizeAssumption ==
  RootMax \in Nat \ {0} /\ ChildMax \in Nat \ {0} /\ GlobalMax \in Nat
ASSUME IdAssumption == ApiBit \in Nat \ {0} /\ MaxId \in Nat
ASSUME RootAssumption == Root \notin Child

\* "stale_delete": an identifier is deleted a second time;
\* "move_inside": a thread is moved while it is inside a directive.
Allowed(call) == call \in Calls

Kind == {"queue", "semaphore"}
Namespace == Child \cup {Root}
Size(n) == IF n = Root THEN RootMax ELSE ChildMax
Object == UNION {{n} \X Kind \X (1 .. Size(n)) : n \in Namespace}
Pointer == Object \cup {NoObject}

ASSUME MarkAssumption == End \notin Object /\ NoObject \notin Object

VARIABLES
  live,      \* allocated namespaces
  cid,       \* containerID
  lastId,    \* g_ipcContainerIdCounter
  table,     \* local_table; _IPC_Semaphore_Free_static() uses one entry more
  first, last, next,   \* the chain Inactive
  inactive,  \* the count kept beside it
  global,    \* local_table of the system-wide objects information
  where,     \* thread->container->ipcContainer
  pc,        \* where a thread is inside a directive
  info,      \* the objects information it fetched: a namespace and a kind
  held,      \* the object it allocated or is deleting
  active,    \* history: objects created and not deleted
  dangling   \* history: entries of global that outlived their namespace

chain == <<first, last, next>>
spaces == <<live, cid, lastId>>
vars == <<spaces, table, chain, inactive, global, where, pc, info, held, active,
          dangling>>

NoInfo == <<>>
Home(o) == o[1]
KindOf(o) == o[2]
IndexOf(o) == o[3]

\* Only one thread at a time is between the allocator mutex' lock and unlock.
MutexFree == \A t \in Thread : pc[t] \in {"out", "allocate"}

-----------------------------------------------------------------------------
(* Identifiers *)

\* Mutant of NodeField: every namespace builds its ids with node 1.
NodeFieldOne(id) == 1

\* _Objects_Build_id() shifts the containerID into the node field without a
\* mask; from bit 9 on it is or-ed with the bits of API and class.
NodeField(id) == IF (id \div ApiBit) % 2 = 1 THEN id ELSE id + ApiBit

IdOf(o) == <<NodeField(cid[Home(o)]), KindOf(o), IndexOf(o)>>

\* _Objects_Get() with the information of namespace n.
Resolve(n, id) ==
  IF id[1] = NodeField(cid[n]) /\ id[3] <= Size(n)
  THEN table[n][id[2]][id[3]] ELSE NoObject

-----------------------------------------------------------------------------
(* The inactive chain *)

\* _Chain_Get_unprotected() on a chain that is not empty.
TakeFirst(n, k) ==
  LET o == first[n][k] IN
    /\ first' = [first EXCEPT ![n][k] = next[o]]
    /\ last' = IF next[o] = End THEN [last EXCEPT ![n][k] = End] ELSE last
    /\ UNCHANGED next

\* Mutant of ChainAppend: the tail keeps pointing at the old last node.
ChainAppendKeepsTail(n, o) ==
  LET k == KindOf(o)
      old == last[n][k]
  IN /\ next' = IF old = End THEN [next EXCEPT ![o] = End]
                             ELSE [next EXCEPT ![o] = End, ![old] = o]
     /\ first' = IF old = End THEN [first EXCEPT ![n][k] = o] ELSE first
     /\ last' = IF old = End THEN [last EXCEPT ![n][k] = o] ELSE last

\* _Chain_Append_unprotected(), its assignments in their order.
ChainAppend(n, o) ==
  LET k == KindOf(o)
      old == last[n][k]
  IN /\ last' = [last EXCEPT ![n][k] = o]
     /\ IF old = End
        THEN /\ first' = [first EXCEPT ![n][k] = o]
             /\ next' = [next EXCEPT ![o] = End]
        ELSE /\ next' = [next EXCEPT ![o] = End, ![old] = o]
             /\ UNCHANGED first

EmptyTable(n) == [k \in Kind |-> [i \in 1 .. (Size(n) + 1) |-> NoObject]]
FirstNode(n) == [k \in Kind |-> <<n, k, 1>>]
LastNode(n) == [k \in Kind |-> <<n, k, Size(n)>>]
NextNode(o) == IF IndexOf(o) = Size(Home(o)) THEN End
               ELSE <<Home(o), KindOf(o), IndexOf(o) + 1>>

Init ==
  /\ live = {Root} /\ lastId = 1
  /\ cid = [n \in Namespace |-> IF n = Root THEN 1 ELSE 0]
  /\ table = [n \in Namespace |-> EmptyTable(n)]
  /\ first = [n \in Namespace |-> FirstNode(n)]
  /\ last = [n \in Namespace |-> LastNode(n)]
  /\ next = [o \in Object |-> NextNode(o)]
  /\ inactive = [n \in Namespace |-> Size(n)]
  /\ global = [k \in Kind |-> [i \in 1 .. GlobalMax |-> NoObject]]
  /\ where = [t \in Thread |-> Root]
  /\ pc = [t \in Thread |-> "out"]
  /\ info = [t \in Thread |-> NoInfo]
  /\ held = [t \in Thread |-> NoObject]
  /\ active = {} /\ dangling = {}

-----------------------------------------------------------------------------
(* Namespaces *)

\* Fresh tables, every object on the chain.  Freed memory is kept in this state.
Fresh(n) ==
  /\ table' = [table EXCEPT ![n] = EmptyTable(n)]
  /\ first' = [first EXCEPT ![n] = FirstNode(n)]
  /\ last' = [last EXCEPT ![n] = LastNode(n)]
  /\ next' = [o \in Object |-> IF Home(o) = n THEN NextNode(o) ELSE next[o]]
  /\ inactive' = [inactive EXCEPT ![n] = Size(n)]

\* rtems_ipc_container_create().
NsCreate(n) ==
  /\ n \notin live /\ lastId < MaxId
  /\ live' = live \cup {n}
  /\ lastId' = lastId + 1
  /\ cid' = [cid EXCEPT ![n] = lastId']
  /\ Fresh(n)
  /\ UNCHANGED <<global, where, pc, info, held, active, dangling>>

\* A directive works on information or an object of namespace n.
InUse(n) ==
  \E t \in Thread : \/ pc[t] = "allocate" /\ info[t][1] = n
                    \/ pc[t] \in {"open", "free"} /\ Home(held[t]) = n

\* rtems_ipc_container_delete(), called once its threads were moved away and no
\* directive works on it (the code does not check, see the hazards); the
\* objects still open in it are freed with it, unknown to the system-wide table.
NsDelete(n) ==
  /\ n \in live /\ \A t \in Thread : where[t] # n
  /\ ~InUse(n)
  /\ live' = live \ {n}
  /\ active' = {o \in active : Home(o) # n}
  /\ dangling' = dangling \cup
       {e \in Kind \X (1 .. GlobalMax) :
          LET o == global[e[1]][e[2]] IN o \in Object /\ Home(o) = n}
  /\ Fresh(n)
  /\ UNCHANGED <<cid, lastId, global, where, pc, info, held>>

\* rtems_ipc_container_move_task(), by the thread itself or by another one.
Move(t, n) ==
  /\ n \in live \ {where[t]}
  /\ pc[t] # "out" => Allowed("move_inside")
  /\ where' = [where EXCEPT ![t] = n]
  /\ UNCHANGED <<spaces, table, chain, inactive, global, pc, info, held, active,
                 dangling>>

-----------------------------------------------------------------------------
(* rtems_message_queue_create() and rtems_semaphore_create() *)

\* The information is fetched before the allocator mutex is obtained.
Fetch(t, k) ==
  /\ pc[t] = "out"
  /\ pc' = [pc EXCEPT ![t] = "allocate"]
  /\ info' = [info EXCEPT ![t] = <<where[t], k>>]
  /\ UNCHANGED <<spaces, table, chain, inactive, global, where, held, active,
                 dangling>>

\* Mutant of Allocate: the result is not compared with NULL.
AllocateUnchecked(t) ==
  /\ pc[t] = "allocate" /\ MutexFree
  /\ pc' = [pc EXCEPT ![t] = "open"]
  /\ held' = [held EXCEPT ![t] = first[info[t][1]][info[t][2]]]
  /\ IF held'[t] = End THEN UNCHANGED chain
                       ELSE TakeFirst(info[t][1], info[t][2])
  /\ info' = [info EXCEPT ![t] = NoInfo]
  /\ UNCHANGED <<spaces, table, inactive, global, where, active, dangling>>

\* _Objects_Allocate(): the semaphore's own routine also fills the table entry.
Allocate(t) ==
  /\ pc[t] = "allocate" /\ MutexFree
  /\ LET n == info[t][1]
         k == info[t][2]
         o == first[n][k]
     IN IF o = End
        THEN /\ pc' = [pc EXCEPT ![t] = "out"]
             /\ UNCHANGED <<table, chain, inactive, held>>
        ELSE /\ pc' = [pc EXCEPT ![t] = "open"]
             /\ held' = [held EXCEPT ![t] = o]
             /\ TakeFirst(n, k)
             /\ IF k = "semaphore"
                THEN /\ table' = [table EXCEPT ![n][k][IndexOf(o)] = o]
                     /\ inactive' = [inactive EXCEPT ![n] = @ - 1]
                ELSE UNCHANGED <<table, inactive>>
  /\ info' = [info EXCEPT ![t] = NoInfo]
  /\ UNCHANGED <<spaces, global, where, active, dangling>>

\* _Objects_Set_local_object() on the system-wide table, where it has the entry.
SetGlobal(o, value) ==
  /\ global' = IF IndexOf(o) <= GlobalMax
               THEN [global EXCEPT ![KindOf(o)][IndexOf(o)] = value] ELSE global
  /\ dangling' = dangling \ {<<KindOf(o), IndexOf(o)>>}

\* Mutant of Open: the queue is entered into the system-wide table.
OpenGlobal(t) ==
  /\ pc[t] = "open"
  /\ LET o == held[t] IN
       /\ SetGlobal(o, o)
       /\ UNCHANGED table
       /\ active' = active \cup {o}
  /\ pc' = [pc EXCEPT ![t] = "out"]
  /\ held' = [held EXCEPT ![t] = NoObject]
  /\ UNCHANGED <<spaces, chain, inactive, where, info>>

\* _Objects_Open_u32() and the mutex' release: a queue is entered into the table
\* of the namespace the thread is in by now, a semaphore into the system-wide one.
Open(t) ==
  /\ pc[t] = "open"
  /\ LET o == held[t] IN
       /\ IF KindOf(o) = "queue"
          THEN /\ table' = [table EXCEPT ![where[t]]["queue"][IndexOf(o)] = o]
               /\ UNCHANGED <<global, dangling>>
          ELSE /\ SetGlobal(o, o)
               /\ UNCHANGED table
       /\ active' = active \cup {o}
  /\ pc' = [pc EXCEPT ![t] = "out"]
  /\ held' = [held EXCEPT ![t] = NoObject]
  /\ UNCHANGED <<spaces, chain, inactive, where, info>>

\* The object's initialisation fails (no message buffers, bad priority).
OpenFails(t) ==
  /\ pc[t] = "open"
  /\ pc' = [pc EXCEPT ![t] = "free"]
  /\ UNCHANGED <<spaces, table, chain, inactive, global, where, info, held, active,
                 dangling>>

-----------------------------------------------------------------------------
(* rtems_message_queue_delete() and rtems_semaphore_delete() *)

\* Mutant of Close: the system-wide table keeps the object.
CloseKeepsGlobal(t, id) ==
  /\ pc[t] = "out" /\ MutexFree
  /\ LET o == Resolve(where[t], id) IN
       /\ o # NoObject
       /\ o \in active \/ Allowed("stale_delete")
       /\ active' = active \ {o}
       /\ held' = [held EXCEPT ![t] = o]
  /\ pc' = [pc EXCEPT ![t] = "free"]
  /\ UNCHANGED <<spaces, table, chain, inactive, global, where, info, dangling>>

\* Lock the mutex, look the id up in the thread's namespace, and close the object
\* in the system-wide table.
Close(t, id) ==
  /\ pc[t] = "out" /\ MutexFree
  /\ LET o == Resolve(where[t], id) IN
       /\ o # NoObject
       /\ o \in active \/ Allowed("stale_delete")
       /\ SetGlobal(o, NoObject)
       /\ active' = active \ {o}
       /\ held' = [held EXCEPT ![t] = o]
  /\ pc' = [pc EXCEPT ![t] = "free"]
  /\ UNCHANGED <<spaces, table, chain, inactive, where, info>>

\* _Objects_Free() to the namespace the thread is in by now.  The semaphore's
\* routine clears the table entry at the index, one beyond the object's own.
Free(t) ==
  /\ pc[t] = "free"
  /\ LET n == where[t]
         o == held[t]
     IN /\ ChainAppend(n, o)
        /\ IF KindOf(o) = "semaphore"
           THEN /\ table' = [table EXCEPT ![n]["semaphore"][IndexOf(o) + 1] = NoObject]
                /\ inactive' = [inactive EXCEPT ![n] = @ + 1]
           ELSE UNCHANGED <<table, inactive>>
  /\ pc' = [pc EXCEPT ![t] = "out"]
  /\ held' = [held EXCEPT ![t] = NoObject]
  /\ UNCHANGED <<spaces, global, where, info, active, dangling>>

Ids == {<<NodeField(i), o[2], o[3]>> : i \in 1 .. lastId, o \in Object}

Next ==
  \/ \E n \in Child : NsCreate(n) \/ NsDelete(n)
  \/ \E t \in Thread, n \in Namespace : Move(t, n)
  \/ \E t \in Thread, k \in Kind : Fetch(t, k)
  \/ \E t \in Thread : Allocate(t) \/ Open(t) \/ OpenFails(t) \/ Free(t)
  \/ \E t \in Thread, id \in Ids : Close(t, id)

Spec == Init /\ [][Next]_vars

-----------------------------------------------------------------------------
(* Properties *)

\* The types of the namespaces, the tables, the chains and the directives.
SpacesTyped ==
  /\ Root \in live /\ live \subseteq Namespace
  /\ cid \in [Namespace -> Nat] /\ lastId \in Nat
TablesTyped ==
  /\ DOMAIN table = Namespace
  /\ \A n \in Namespace : table[n] \in [Kind -> [1 .. (Size(n) + 1) -> Pointer]]
  /\ global \in [Kind -> [1 .. GlobalMax -> Pointer]]
  /\ dangling \subseteq Kind \X (1 .. GlobalMax)
ChainTyped ==
  /\ first \in [Namespace -> [Kind -> Object \cup {End}]]
  /\ last \in [Namespace -> [Kind -> Object \cup {End}]]
  /\ next \in [Object -> Object \cup {End}]
  /\ inactive \in [Namespace -> Int]
DirectivesTyped ==
  /\ where \in [Thread -> Namespace]
  /\ pc \in [Thread -> {"out", "allocate", "open", "free"}]
  /\ info \in [Thread -> (Namespace \X Kind) \cup {NoInfo}]
  /\ held \in [Thread -> Pointer]
  /\ active \subseteq Object

\* Every variable keeps the type its C declaration and use give it: a directive
\* goes on with an object, never with the end of an exhausted chain.
TypeOK ==
  /\ SpacesTyped /\ TablesTyped /\ ChainTyped /\ DirectivesTyped
  /\ \A t \in Thread : pc[t] = "allocate" => info[t] # NoInfo
  /\ \A t \in Thread : pc[t] \in {"open", "free"} => held[t] \in Object

\* The nodes met from the head of the chain, as many as it may have.
Walk(n, k) ==
  LET node[j \in 1 .. (Size(n) + 1)] ==
        IF j = 1 THEN first[n][k]
        ELSE IF node[j - 1] = End THEN End ELSE next[node[j - 1]]
  IN node
OnChain(n, k) == {Walk(n, k)[j] : j \in 1 .. (Size(n) + 1)} \ {End}

\* Objects a directive has taken from the chain or is about to put back.
InHand == {held[t] : t \in {u \in Thread : pc[u] \in {"open", "free"}}}

\* Every object of a namespace is open, in the hands of one directive or on the
\* inactive chain, exactly one of them, although chain, table and count are
\* updated by different routines: none is lost, none is handed out twice, and the
\* count of inactive semaphores is exact.
Conserved ==
  \A n \in live, k \in Kind :
    LET idle == OnChain(n, k)
        busy == {o \in active \cup InHand : Home(o) = n /\ KindOf(o) = k}
    IN /\ active \cap InHand = {}
       /\ idle \cap busy = {}
       /\ idle \cup busy = {n} \X {k} \X (1 .. Size(n))
       /\ Walk(n, k)[Size(n) + 1] = End
       /\ last[n][k] = IF idle = {} THEN End ELSE Walk(n, k)[Cardinality(idle)]
       /\ k = "semaphore" => inactive[n] = Cardinality(idle)

\* An open message queue is found under its id from inside its namespace.
QueueReachable ==
  \A o \in active : KindOf(o) = "queue" => Resolve(Home(o), IdOf(o)) = o

\* The identifier of an open object means nothing in any other namespace, as
\* long as the namespace numbers fit below the API bit of an identifier.
Isolated ==
  lastId < ApiBit =>
    \A o \in active, n \in live : n # Home(o) => Resolve(n, IdOf(o)) = NoObject

\* The system-wide table, which rtems_semaphore_ident() searches, has no entry
\* for a deleted semaphore, unless the whole namespace went before it.
IdentNotStale ==
  \A k \in Kind, i \in 1 .. GlobalMax :
    global[k][i] \in active \cup {NoObject} \/ <<k, i>> \in dangling

\* The identifier of a semaphore "is used to access the semaphore with other
\* semaphore related directives" (sem.h:107): it is found in its namespace.
SemaphoreReachable ==
  \A o \in active : KindOf(o) = "semaphore" => Resolve(Home(o), IdOf(o)) = o
=============================================================================
