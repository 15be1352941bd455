------------------------- MODULE IpcNamespaceProofs -------------------------
(***************************************************************************)
(* Proofs about the IPC namespaces, for any threads, namespaces and table  *)
(* sizes: type correctness, the isolation of identifiers, the system-wide  *)
(* table, that an open queue is found, and that no object is lost.         *)
(***************************************************************************)
EXTENDS IpcNamespace, FoldTheorems

\* The size of a namespace is positive.
LEMMA SizeType == \A n \in Namespace : Size(n) \in Nat \ {0}
BY SizeAssumption DEF Size

\* An object is a namespace, a kind and an index the namespace has.
LEMMA ObjectParts ==
  ASSUME NEW o \in Object
  PROVE  /\ o = <<Home(o), KindOf(o), IndexOf(o)>>
         /\ Home(o) \in Namespace /\ KindOf(o) \in Kind
         /\ IndexOf(o) \in 1 .. Size(Home(o))
         /\ IndexOf(o) \in Nat \ {0}
BY SizeType DEF Object, Home, KindOf, IndexOf

\* Every index a namespace has is the index of an object of either kind.
LEMMA ObjectMade ==
  ASSUME NEW n \in Namespace, NEW k \in Kind, NEW i \in 1 .. Size(n)
  PROVE  /\ <<n, k, i>> \in Object
         /\ Home(<<n, k, i>>) = n /\ KindOf(<<n, k, i>>) = k
         /\ IndexOf(<<n, k, i>>) = i
BY DEF Object, Home, KindOf, IndexOf

\* The tables of new namespaces are empty, their chains hold objects only.
LEMMA FreshTyped ==
  ASSUME NEW n \in Namespace
  PROVE  /\ EmptyTable(n) \in [Kind -> [1 .. (Size(n) + 1) -> Pointer]]
         /\ FirstNode(n) \in [Kind -> Object \cup {End}]
         /\ LastNode(n) \in [Kind -> Object \cup {End}]
<1>1. EmptyTable(n) \in [Kind -> [1 .. (Size(n) + 1) -> Pointer]]
  BY DEF EmptyTable, Pointer
<1>2. 1 \in 1 .. Size(n) /\ Size(n) \in 1 .. Size(n)
  BY SizeType
<1>3. \A k \in Kind : <<n, k, 1>> \in Object /\ <<n, k, Size(n)>> \in Object
  BY <1>2, ObjectMade
<1> QED
  BY <1>1, <1>3 DEF FirstNode, LastNode

\* The successor of an object on the chain of a new namespace.
LEMMA NextNodeTyped ==
  ASSUME NEW o \in Object
  PROVE  NextNode(o) \in Object \cup {End}
<1>1. CASE IndexOf(o) = Size(Home(o))
  BY <1>1 DEF NextNode
<1>2. CASE IndexOf(o) # Size(Home(o))
  <2>1. IndexOf(o) + 1 \in 1 .. Size(Home(o))
    BY <1>2, ObjectParts, SizeType
  <2>2. <<Home(o), KindOf(o), IndexOf(o) + 1>> \in Object
    BY <2>1, ObjectParts, ObjectMade
  <2> QED
    BY <1>2, <2>2 DEF NextNode
<1> QED
  BY <1>1, <1>2

-----------------------------------------------------------------------------
(* Type correctness *)

\* One entry of one table is written.
LEMMA TableWritten ==
  ASSUME TablesTyped, NEW n \in Namespace, NEW k \in Kind, NEW i,
         NEW v \in Pointer, table' = [table EXCEPT ![n][k][i] = v]
  PROVE  /\ DOMAIN table' = Namespace
         /\ \A m \in Namespace :
              table'[m] \in [Kind -> [1 .. (Size(m) + 1) -> Pointer]]
<1>1. DOMAIN table' = Namespace
  BY DEF TablesTyped
<1>2. ASSUME NEW m \in Namespace
      PROVE  table'[m] \in [Kind -> [1 .. (Size(m) + 1) -> Pointer]]
  <2>1. table[m] \in [Kind -> [1 .. (Size(m) + 1) -> Pointer]]
    BY DEF TablesTyped
  <2>2. CASE m # n
    <3>1. table'[m] = table[m]
      BY <2>2 DEF TablesTyped
    <3> QED
      BY <2>1, <3>1
  <2>3. CASE m = n
    <3>1. table'[m] = [table[m] EXCEPT ![k] = [table[m][k] EXCEPT ![i] = v]]
      BY <2>3 DEF TablesTyped
    <3>2. table[m][k] \in [1 .. (Size(m) + 1) -> Pointer]
      BY <2>1
    <3>3. [table[m][k] EXCEPT ![i] = v] \in [1 .. (Size(m) + 1) -> Pointer]
      BY <3>2
    <3> QED
      BY <2>1, <3>1, <3>3
  <2> QED
    BY <2>2, <2>3
<1> QED
  BY <1>1, <1>2

\* One entry of the system-wide table is written.
LEMMA GlobalWritten ==
  ASSUME TablesTyped, NEW o \in Object, NEW v \in Pointer, SetGlobal(o, v)
  PROVE  /\ global' \in [Kind -> [1 .. GlobalMax -> Pointer]]
         /\ dangling' \subseteq Kind \X (1 .. GlobalMax)
         /\ dangling' = dangling \ {<<KindOf(o), IndexOf(o)>>}
<1>1. KindOf(o) \in Kind
  BY ObjectParts
<1>2. CASE IndexOf(o) <= GlobalMax
  <2>1. global' = [global EXCEPT ![KindOf(o)] =
                     [global[KindOf(o)] EXCEPT ![IndexOf(o)] = v]]
    BY <1>2 DEF SetGlobal
  <2>2. [global[KindOf(o)] EXCEPT ![IndexOf(o)] = v] \in [1 .. GlobalMax -> Pointer]
    BY <1>1 DEF TablesTyped
  <2> QED
    BY <2>1, <2>2 DEF TablesTyped, SetGlobal
<1>3. CASE ~(IndexOf(o) <= GlobalMax)
  BY <1>3 DEF TablesTyped, SetGlobal
<1> QED
  BY <1>2, <1>3

\* The chain after the first object was taken.
LEMMA TakeFirstTyped ==
  ASSUME ChainTyped, NEW n \in Namespace, NEW k \in Kind,
         first[n][k] # End, TakeFirst(n, k), inactive' \in [Namespace -> Int]
  PROVE  ChainTyped'
<1>1. first[n][k] \in Object
  BY DEF ChainTyped
<1>2. next[first[n][k]] \in Object \cup {End}
  BY <1>1 DEF ChainTyped
<1>3. first' \in [Namespace -> [Kind -> Object \cup {End}]]
  BY <1>2 DEF ChainTyped, TakeFirst
<1>4. last' \in [Namespace -> [Kind -> Object \cup {End}]]
  BY DEF ChainTyped, TakeFirst
<1> QED
  BY <1>3, <1>4 DEF ChainTyped, TakeFirst

\* The chain after an object was appended.
LEMMA AppendTyped ==
  ASSUME ChainTyped, NEW n \in Namespace, NEW o \in Object, ChainAppend(n, o),
         inactive' \in [Namespace -> Int]
  PROVE  ChainTyped'
<1>1. KindOf(o) \in Kind
  BY ObjectParts
<1>2. last' \in [Namespace -> [Kind -> Object \cup {End}]]
  BY <1>1 DEF ChainTyped, ChainAppend
<1> DEFINE filled == [first EXCEPT ![n][KindOf(o)] = o]
<1>3. filled \in [Namespace -> [Kind -> Object \cup {End}]]
  BY <1>1 DEF ChainTyped
<1>4. first' = filled \/ first' = first
  BY DEF ChainAppend
<1>5. first' \in [Namespace -> [Kind -> Object \cup {End}]]
  BY <1>3, <1>4 DEF ChainTyped
<1>6. next' \in [Object -> Object \cup {End}]
  BY DEF ChainTyped, ChainAppend
<1> QED
  BY <1>2, <1>5, <1>6 DEF ChainTyped

\* Tables and chains after a namespace was created or deleted.
LEMMA FreshKeepsTypes ==
  ASSUME TablesTyped, ChainTyped, NEW n \in Namespace, Fresh(n)
  PROVE  /\ ChainTyped'
         /\ DOMAIN table' = Namespace
         /\ \A m \in Namespace :
              table'[m] \in [Kind -> [1 .. (Size(m) + 1) -> Pointer]]
<1>1. \A o \in Object : NextNode(o) \in Object \cup {End}
  BY NextNodeTyped
<1>2. next' \in [Object -> Object \cup {End}]
  BY <1>1 DEF Fresh, ChainTyped
<1>3. first' \in [Namespace -> [Kind -> Object \cup {End}]]
  BY FreshTyped DEF Fresh, ChainTyped
<1>4. last' \in [Namespace -> [Kind -> Object \cup {End}]]
  BY FreshTyped DEF Fresh, ChainTyped
<1>5. inactive' \in [Namespace -> Int]
  BY SizeType DEF Fresh, ChainTyped
<1>6. DOMAIN table' = Namespace
  BY DEF Fresh, TablesTyped
<1>7. ASSUME NEW m \in Namespace
      PROVE  table'[m] \in [Kind -> [1 .. (Size(m) + 1) -> Pointer]]
  <2>1. table'[m] = IF m = n THEN EmptyTable(m) ELSE table[m]
    BY DEF Fresh, TablesTyped
  <2> QED
    BY <2>1, FreshTyped DEF TablesTyped
<1> QED
  BY <1>2, <1>3, <1>4, <1>5, <1>6, <1>7 DEF ChainTyped

\* A lookup that finds something in a table finds an object.
LEMMA ResolveTyped ==
  ASSUME TypeOK, NEW t \in Thread, NEW id \in Ids,
         Resolve(where[t], id) # NoObject
  PROVE  Resolve(where[t], id) \in Object
<1>1. where[t] \in Namespace
  BY DEF TypeOK, DirectivesTyped
<1>2. PICK i \in 1 .. lastId, o \in Object : id = <<NodeField(i), o[2], o[3]>>
  BY DEF Ids
<1>3. id[2] \in Kind /\ id[3] \in Nat \ {0}
  BY <1>2, ObjectParts DEF KindOf, IndexOf
<1>4. id[3] <= Size(where[t])
  BY DEF Resolve
<1>5. id[3] \in 1 .. (Size(where[t]) + 1)
  BY <1>1, <1>3, <1>4, SizeType
<1>6. table[where[t]][id[2]] \in [1 .. (Size(where[t]) + 1) -> Pointer]
  BY <1>1, <1>3 DEF TypeOK, TablesTyped
<1>7. table[where[t]][id[2]][id[3]] \in Pointer
  BY <1>5, <1>6
<1> QED
  BY <1>7 DEF Resolve, Pointer

\* The types hold initially.
LEMMA TypeInit == Init => TypeOK
<1> SUFFICES ASSUME Init PROVE TypeOK
  OBVIOUS
<1>1. SpacesTyped
  BY DEF Init, SpacesTyped, Namespace
<1>2. TablesTyped
  <2>1. \A n \in Namespace :
          table[n] \in [Kind -> [1 .. (Size(n) + 1) -> Pointer]]
    BY FreshTyped DEF Init
  <2>2. global \in [Kind -> [1 .. GlobalMax -> Pointer]]
    BY DEF Init, Pointer
  <2> QED
    BY <2>1, <2>2 DEF Init, TablesTyped
<1>3. ChainTyped
  BY FreshTyped, NextNodeTyped, SizeType DEF Init, ChainTyped
<1>4. DirectivesTyped
  BY DEF Init, DirectivesTyped, Pointer, Namespace
<1> QED
  BY <1>1, <1>2, <1>3, <1>4 DEF Init, TypeOK

\* An action of a namespace keeps the types.
LEMMA TypeSpaces ==
  ASSUME TypeOK, NEW n \in Child, NsCreate(n) \/ NsDelete(n)
  PROVE  TypeOK'
<1> USE DEF TypeOK
<1>1. n \in Namespace /\ Root # n
  BY RootAssumption DEF Namespace
<1>2. Fresh(n)
  BY DEF NsCreate, NsDelete
<1>3. SpacesTyped'
  BY <1>1 DEF SpacesTyped, NsCreate, NsDelete
<1>4. dangling' \subseteq Kind \X (1 .. GlobalMax)
  BY DEF TablesTyped, NsCreate, NsDelete
<1>5. TablesTyped' /\ ChainTyped'
  BY <1>1, <1>2, <1>4, FreshKeepsTypes DEF TablesTyped, NsCreate, NsDelete
<1>6. DirectivesTyped'
  BY DEF DirectivesTyped, NsCreate, NsDelete
<1> QED
  BY <1>3, <1>5, <1>6 DEF NsCreate, NsDelete

\* Every step keeps the types.
LEMMA TypeStep == TypeOK /\ [Next]_vars => TypeOK'
<1> SUFFICES ASSUME TypeOK, [Next]_vars PROVE TypeOK'
  OBVIOUS
<1>1. ASSUME NEW n \in Child, NsCreate(n) \/ NsDelete(n) PROVE TypeOK'
  BY <1>1, TypeSpaces
<1>2. ASSUME NEW t \in Thread, NEW n \in Namespace, Move(t, n) PROVE TypeOK'
  BY <1>2 DEF Move, spaces, chain, TypeOK, SpacesTyped, TablesTyped, ChainTyped,
     DirectivesTyped
<1>3. ASSUME NEW t \in Thread, NEW k \in Kind, Fetch(t, k) PROVE TypeOK'
  <2> USE <1>3 DEF Fetch, TypeOK
  <2>1. DirectivesTyped'
    BY DEF DirectivesTyped
  <2>2. SpacesTyped' /\ TablesTyped' /\ ChainTyped'
    BY DEF spaces, chain, SpacesTyped, TablesTyped, ChainTyped
  <2> QED
    BY <2>1, <2>2 DEF DirectivesTyped, NoInfo
<1>4. ASSUME NEW t \in Thread, Allocate(t) PROVE TypeOK'
  <2> DEFINE n == info[t][1]
             k == info[t][2]
             o == first[n][k]
  <2>1. n \in Namespace /\ k \in Kind
    BY <1>4 DEF Allocate, TypeOK, DirectivesTyped
  <2>2. o \in Object \cup {End}
    BY <2>1 DEF TypeOK, ChainTyped
  <2>3. SpacesTyped' /\ global' = global /\ dangling' = dangling
    BY <1>4 DEF Allocate, TypeOK, SpacesTyped, spaces
  <2>4. CASE o = End
    <3>1. UNCHANGED <<table, chain, inactive, held>>
      BY <1>4, <2>4 DEF Allocate
    <3>2. TablesTyped' /\ ChainTyped'
      BY <2>3, <3>1 DEF TypeOK, TablesTyped, ChainTyped, chain
    <3>3. DirectivesTyped'
      BY <1>4, <2>4, <3>1 DEF Allocate, TypeOK, DirectivesTyped
    <3> QED
      BY <1>4, <2>3, <2>4, <3>1, <3>2, <3>3
      DEF Allocate, TypeOK, DirectivesTyped
  <2>5. CASE o # End
    <3>1. o \in Object
      BY <2>2, <2>5
    <3>2. TakeFirst(n, k) /\ pc' = [pc EXCEPT ![t] = "open"]
          /\ held' = [held EXCEPT ![t] = o]
      BY <1>4, <2>5 DEF Allocate
    <3>3. inactive' \in [Namespace -> Int]
      BY <1>4, <2>5, <2>1 DEF Allocate, TypeOK, ChainTyped
    <3>4. ChainTyped'
      BY <2>1, <2>5, <3>2, <3>3, TakeFirstTyped DEF TypeOK
    <3>5. table' = table \/ table' = [table EXCEPT ![n][k][IndexOf(o)] = o]
      BY <1>4, <2>5 DEF Allocate
    <3>6. TablesTyped'
      <4>1. CASE table' = table
        BY <4>1, <2>3 DEF TypeOK, TablesTyped
      <4>2. CASE table' = [table EXCEPT ![n][k][IndexOf(o)] = o]
        <5> HIDE DEF n, k, o
        <5>1. /\ DOMAIN table' = Namespace
              /\ \A m \in Namespace :
                   table'[m] \in [Kind -> [1 .. (Size(m) + 1) -> Pointer]]
          BY <2>1, <3>1, <4>2, TableWritten DEF TypeOK, Pointer
        <5> QED
          BY <5>1, <2>3 DEF TypeOK, TablesTyped
      <4> QED
        BY <3>5, <4>1, <4>2
    <3>7. DirectivesTyped'
      <4> HIDE DEF n, k, o
      <4> QED
        BY <1>4, <3>1, <3>2 DEF Allocate, TypeOK, DirectivesTyped, Pointer
    <3>8. \A u \in Thread : /\ pc'[u] = "allocate" => info'[u] # NoInfo
                            /\ pc'[u] \in {"open", "free"} => held'[u] \in Object
      <4> HIDE DEF n, k, o
      <4> QED
        BY <1>4, <3>1, <3>2 DEF Allocate, TypeOK, DirectivesTyped
    <3> QED
      BY <2>3, <3>4, <3>6, <3>7, <3>8 DEF TypeOK
  <2> QED
    BY <2>4, <2>5
<1>5. ASSUME NEW t \in Thread, Open(t) PROVE TypeOK'
  <2>1. held[t] \in Object /\ where[t] \in Namespace
    BY <1>5 DEF Open, TypeOK, DirectivesTyped
  <2>2. held[t] \in Pointer /\ NoObject \in Pointer
    BY <2>1 DEF Pointer
  <2>3. SpacesTyped' /\ ChainTyped'
    BY <1>5 DEF Open, spaces, chain, TypeOK, SpacesTyped, ChainTyped
  <2>4. TablesTyped'
    <3>1. CASE KindOf(held[t]) = "queue"
      <4>1. table' = [table EXCEPT ![where[t]]["queue"][IndexOf(held[t])] = held[t]]
            /\ UNCHANGED <<global, dangling>>
        BY <1>5, <3>1 DEF Open
      <4>2. "queue" \in Kind
        BY DEF Kind
      <4>3. /\ DOMAIN table' = Namespace
            /\ \A m \in Namespace :
                 table'[m] \in [Kind -> [1 .. (Size(m) + 1) -> Pointer]]
        BY <2>1, <2>2, <4>1, <4>2, TableWritten DEF TypeOK
      <4> QED
        BY <4>1, <4>3 DEF TypeOK, TablesTyped
    <3>2. CASE KindOf(held[t]) # "queue"
      <4>1. SetGlobal(held[t], held[t]) /\ table' = table
        BY <1>5, <3>2 DEF Open
      <4>2. /\ global' \in [Kind -> [1 .. GlobalMax -> Pointer]]
            /\ dangling' \subseteq Kind \X (1 .. GlobalMax)
        BY <2>1, <2>2, <4>1, GlobalWritten DEF TypeOK
      <4> QED
        BY <4>1, <4>2 DEF TypeOK, TablesTyped
    <3> QED
      BY <3>1, <3>2
  <2>5. DirectivesTyped'
    BY <1>5, <2>1, <2>2 DEF Open, TypeOK, DirectivesTyped
  <2> QED
    BY <1>5, <2>3, <2>4, <2>5 DEF Open, TypeOK, DirectivesTyped
<1>6. ASSUME NEW t \in Thread, OpenFails(t) PROVE TypeOK'
  BY <1>6 DEF OpenFails, spaces, chain, TypeOK, SpacesTyped, TablesTyped,
     ChainTyped, DirectivesTyped
<1>7. ASSUME NEW t \in Thread, Free(t) PROVE TypeOK'
  <2>1. held[t] \in Object /\ where[t] \in Namespace
    BY <1>7 DEF Free, TypeOK, DirectivesTyped
  <2>2. NoObject \in Pointer /\ "semaphore" \in Kind
    BY DEF Pointer, Kind
  <2>3. SpacesTyped' /\ global' = global /\ dangling' = dangling
    BY <1>7 DEF Free, spaces, TypeOK, SpacesTyped
  <2>4. inactive' \in [Namespace -> Int]
    BY <1>7 DEF Free, TypeOK, ChainTyped
  <2>5. ChainTyped'
    BY <1>7, <2>1, <2>4, AppendTyped DEF Free, TypeOK
  <2>6. TablesTyped'
    <3>1. CASE table' = table
      BY <2>3, <3>1 DEF TypeOK, TablesTyped
    <3>2. CASE table' = [table EXCEPT ![where[t]]["semaphore"]
                                       [IndexOf(held[t]) + 1] = NoObject]
      <4>1. /\ DOMAIN table' = Namespace
            /\ \A m \in Namespace :
                 table'[m] \in [Kind -> [1 .. (Size(m) + 1) -> Pointer]]
        BY <2>1, <2>2, <3>2, TableWritten DEF TypeOK
      <4> QED
        BY <2>3, <4>1 DEF TypeOK, TablesTyped
    <3> QED
      BY <1>7, <3>1, <3>2 DEF Free
  <2>7. DirectivesTyped'
    BY <1>7, <2>2 DEF Free, TypeOK, DirectivesTyped
  <2> QED
    BY <1>7, <2>3, <2>5, <2>6, <2>7 DEF Free, TypeOK, DirectivesTyped
<1>8. ASSUME NEW t \in Thread, NEW id \in Ids, Close(t, id) PROVE TypeOK'
  <2> DEFINE o == Resolve(where[t], id)
  <2>1. o \in Object
    BY <1>8, ResolveTyped DEF Close
  <2>2. NoObject \in Pointer /\ o \in Pointer
    BY <2>1 DEF Pointer
  <2>3. SetGlobal(o, NoObject) /\ active' = active \ {o}
        /\ held' = [held EXCEPT ![t] = o]
    BY <1>8 DEF Close
  <2> HIDE DEF o
  <2>4. SpacesTyped' /\ ChainTyped' /\ table' = table
    BY <1>8 DEF Close, spaces, chain, TypeOK, SpacesTyped, ChainTyped
  <2>5. TablesTyped'
    BY <2>1, <2>2, <2>3, <2>4, GlobalWritten DEF TypeOK, TablesTyped
  <2>6. DirectivesTyped'
    BY <1>8, <2>1, <2>2, <2>3 DEF Close, TypeOK, DirectivesTyped
  <2> QED
    BY <1>8, <2>1, <2>3, <2>4, <2>5, <2>6 DEF Close, TypeOK, DirectivesTyped
<1>9. CASE UNCHANGED vars
  BY <1>9 DEF vars, spaces, chain, TypeOK, SpacesTyped, TablesTyped, ChainTyped,
     DirectivesTyped
<1> QED
  BY <1>1, <1>2, <1>3, <1>4, <1>5, <1>6, <1>7, <1>8, <1>9 DEF Next

\* TypeOK for every instance: whatever the environment calls, no directive goes
\* on with the end of an exhausted chain or with a missing object.
THEOREM IpcTypeCorrect == Spec => []TypeOK
<1>1. Init => TypeOK
  BY TypeInit
<1>2. TypeOK /\ [Next]_vars => TypeOK'
  BY TypeStep
<1> QED
  BY <1>1, <1>2, PTL DEF Spec

-----------------------------------------------------------------------------
(* Isolation *)

\* Below the API bit, the node field of an identifier tells namespaces apart.
LEMMA NodeFieldInjective ==
  ASSUME NEW i \in Nat, NEW j \in Nat, i < ApiBit, j < ApiBit,
         NodeField(i) = NodeField(j)
  PROVE  i = j
<1>1. \A x \in Nat : x < ApiBit => x \div ApiBit = 0
  BY IdAssumption, Z3
<1>2. NodeField(i) = i + ApiBit /\ NodeField(j) = j + ApiBit
  BY <1>1 DEF NodeField
<1>3. i + ApiBit = j + ApiBit
  BY <1>2
<1> QED
  BY <1>3, IdAssumption

\* What the counter of namespaces guarantees: a number is handed out once, and 0
\* only stands for an address that never held a namespace.
Numbered ==
  /\ \A m \in Namespace : cid[m] <= lastId
  /\ \A n \in live : cid[n] # 0
  /\ \A m, n \in Namespace : m # n /\ cid[m] = cid[n] => cid[n] = 0

\* Only the creation of a namespace touches its number.
LEMMA NumberedStep == SpacesTyped /\ Numbered /\ [Next]_vars => Numbered'
<1> SUFFICES ASSUME SpacesTyped, Numbered, [Next]_vars PROVE Numbered'
  OBVIOUS
<1>1. ASSUME NEW n \in Child, NsCreate(n) PROVE Numbered'
  <2>1. /\ n \in Namespace /\ lastId' = lastId + 1 /\ live' = live \cup {n}
        /\ cid' = [cid EXCEPT ![n] = lastId + 1]
    BY <1>1 DEF NsCreate, Namespace
  <2>2. \A m \in Namespace : cid'[m] = IF m = n THEN lastId + 1 ELSE cid[m]
    BY <2>1 DEF SpacesTyped
  <2>3. \A m \in Namespace : cid[m] \in Nat /\ cid[m] <= lastId
    BY DEF SpacesTyped, Numbered
  <2>4. \A m \in Namespace : cid'[m] <= lastId'
    BY <2>1, <2>2, <2>3 DEF SpacesTyped
  <2>5. \A m \in live' : cid'[m] # 0
    BY <2>1, <2>2 DEF SpacesTyped, Numbered
  <2>6. \A m, p \in Namespace : m # p /\ cid'[m] = cid'[p] => cid'[p] = 0
    BY <2>2, <2>3 DEF SpacesTyped, Numbered
  <2> QED
    BY <2>4, <2>5, <2>6 DEF Numbered
<1>2. ASSUME NEW n \in Child, NsDelete(n) PROVE Numbered'
  BY <1>2 DEF NsDelete, Numbered
<1>3. CASE UNCHANGED spaces
  BY <1>3 DEF spaces, Numbered
<1> QED
  BY <1>1, <1>2, <1>3 DEF Next, vars, Move, Fetch, Allocate, Open, OpenFails, Free,
     Close

\* Distinct numbers make identifiers meaningless elsewhere.
LEMMA NumberedIsolates == TypeOK /\ Numbered => Isolated
<1> SUFFICES ASSUME TypeOK, Numbered, lastId < ApiBit,
                    NEW o \in active, NEW n \in live, n # Home(o)
             PROVE  Resolve(n, IdOf(o)) = NoObject
  BY DEF Isolated
<1>1. o \in Object /\ Home(o) \in Namespace /\ n \in Namespace
  BY ObjectParts DEF TypeOK, DirectivesTyped, SpacesTyped
<1>2. cid[n] \in Nat /\ cid[Home(o)] \in Nat /\ lastId \in Nat
  BY <1>1 DEF TypeOK, SpacesTyped
<1>3. cid[n] <= lastId /\ cid[Home(o)] <= lastId
  BY <1>1 DEF Numbered
<1>4. cid[n] # cid[Home(o)]
  BY <1>1 DEF Numbered
<1>5. cid[n] < ApiBit /\ cid[Home(o)] < ApiBit
  BY <1>2, <1>3, IdAssumption
<1>6. NodeField(cid[n]) # NodeField(cid[Home(o)])
  BY <1>2, <1>4, <1>5, NodeFieldInjective
<1> QED
  BY <1>6 DEF Resolve, IdOf

\* Isolated for every instance: the identifier of an open queue or semaphore is
\* not found through the tables of another namespace while fewer namespaces were
\* created than fit below the API bit.
THEOREM IpcIsolated == Spec => []Isolated
<1>1. Init => TypeOK /\ Numbered
  <2> SUFFICES ASSUME Init PROVE TypeOK /\ Numbered
    OBVIOUS
  <2>1. \A n \in Namespace : cid[n] = IF n = Root THEN 1 ELSE 0
    BY DEF Init
  <2>2. live = {Root} /\ Root \in Namespace /\ lastId = 1
    BY DEF Init, Namespace
  <2>3. Numbered
    BY <2>1, <2>2 DEF Numbered
  <2> QED
    BY <2>3, TypeInit
<1>2. TypeOK /\ Numbered /\ [Next]_vars => (TypeOK /\ Numbered)'
  BY TypeStep, NumberedStep DEF TypeOK
<1>3. TypeOK /\ Numbered => Isolated
  BY NumberedIsolates
<1> QED
  BY <1>1, <1>2, <1>3, PTL DEF Spec

-----------------------------------------------------------------------------
(* The system-wide table *)

\* An object is only ever recorded under its own kind and index, so clearing that
\* entry clears every reference the table has.
Recorded ==
  \A k \in Kind, i \in 1 .. GlobalMax :
    global[k][i] # NoObject => /\ KindOf(global[k][i]) = k
                               /\ IndexOf(global[k][i]) = i

IdentInv == Recorded /\ IdentNotStale

\* The entries of the system-wide table after one was written.
LEMMA GlobalAfter ==
  ASSUME TypeOK, NEW o \in Object, NEW v \in Pointer, SetGlobal(o, v),
         NEW k \in Kind, NEW i \in 1 .. GlobalMax
  PROVE  global'[k][i] =
           IF k = KindOf(o) /\ i = IndexOf(o) THEN v ELSE global[k][i]
<1>1. GlobalMax \in Nat /\ IndexOf(o) \in Nat /\ KindOf(o) \in Kind
  BY SizeAssumption, ObjectParts
<1>2. global \in [Kind -> [1 .. GlobalMax -> Pointer]]
  BY DEF TypeOK, TablesTyped
<1>3. CASE IndexOf(o) <= GlobalMax
  BY <1>1, <1>2, <1>3 DEF SetGlobal
<1>4. CASE ~(IndexOf(o) <= GlobalMax)
  BY <1>1, <1>4 DEF SetGlobal
<1> QED
  BY <1>3, <1>4

\* Every step keeps the system-wide table free of deleted objects.
LEMMA IdentStep == TypeOK /\ IdentInv /\ [Next]_vars => IdentInv'
<1> SUFFICES ASSUME TypeOK, IdentInv, [Next]_vars PROVE IdentInv'
  OBVIOUS
<1>1. ASSUME NEW n \in Child, NsCreate(n) PROVE IdentInv'
  BY <1>1 DEF NsCreate, IdentInv, Recorded, IdentNotStale
<1>2. ASSUME NEW n \in Child, NsDelete(n) PROVE IdentInv'
  <2>1. Recorded'
    BY <1>2 DEF NsDelete, IdentInv, Recorded
  <2>2. ASSUME NEW k \in Kind, NEW i \in 1 .. GlobalMax
        PROVE  global[k][i] \in active' \cup {NoObject} \/ <<k, i>> \in dangling'
    <3>1. CASE global[k][i] \in active /\ Home(global[k][i]) = n
      <4>1. global[k][i] \in Object /\ <<k, i>> \in Kind \X (1 .. GlobalMax)
        BY <3>1 DEF TypeOK, DirectivesTyped
      <4> QED
        BY <1>2, <3>1, <4>1 DEF NsDelete
    <3>2. CASE ~(global[k][i] \in active /\ Home(global[k][i]) = n)
      BY <1>2, <3>2 DEF NsDelete, IdentInv, IdentNotStale
    <3> QED
      BY <3>1, <3>2
  <2> QED
    BY <1>2, <2>1, <2>2 DEF NsDelete, IdentInv, IdentNotStale
<1>3. ASSUME NEW t \in Thread, Open(t) PROVE IdentInv'
  <2>1. held[t] \in Object /\ held[t] \in Pointer
    BY <1>3 DEF Open, TypeOK, Pointer
  <2>2. active' = active \cup {held[t]}
    BY <1>3 DEF Open
  <2>3. CASE UNCHANGED <<global, dangling>>
    BY <2>2, <2>3 DEF IdentInv, Recorded, IdentNotStale
  <2>4. CASE SetGlobal(held[t], held[t])
    <3>1. \A k \in Kind, i \in 1 .. GlobalMax :
            global'[k][i] = IF k = KindOf(held[t]) /\ i = IndexOf(held[t])
                            THEN held[t] ELSE global[k][i]
      BY <2>1, <2>4, GlobalAfter
    <3>2. dangling' = dangling \ {<<KindOf(held[t]), IndexOf(held[t])>>}
      BY <2>4 DEF SetGlobal
    <3> QED
      BY <2>2, <3>1, <3>2 DEF IdentInv, Recorded, IdentNotStale
  <2> QED
    BY <1>3, <2>3, <2>4 DEF Open
<1>4. ASSUME NEW t \in Thread, NEW id \in Ids, Close(t, id) PROVE IdentInv'
  <2> DEFINE o == Resolve(where[t], id)
  <2>1. o \in Object /\ NoObject \in Pointer
    BY <1>4, ResolveTyped DEF Close, Pointer
  <2>2. SetGlobal(o, NoObject) /\ active' = active \ {o}
    BY <1>4 DEF Close
  <2> HIDE DEF o
  <2>3. \A k \in Kind, i \in 1 .. GlobalMax :
          global'[k][i] = IF k = KindOf(o) /\ i = IndexOf(o)
                          THEN NoObject ELSE global[k][i]
    BY <2>1, <2>2, GlobalAfter
  <2>4. dangling' = dangling \ {<<KindOf(o), IndexOf(o)>>}
    BY <2>2 DEF SetGlobal
  <2>5. Recorded'
    BY <2>3 DEF IdentInv, Recorded
  <2>6. ASSUME NEW k \in Kind, NEW i \in 1 .. GlobalMax
        PROVE  global'[k][i] \in active' \cup {NoObject} \/ <<k, i>> \in dangling'
    <3>1. CASE k = KindOf(o) /\ i = IndexOf(o)
      BY <2>3, <3>1
    <3>2. CASE ~(k = KindOf(o) /\ i = IndexOf(o))
      <4>1. global'[k][i] = global[k][i]
        BY <2>3, <3>2
      <4>2. global[k][i] = NoObject \/ global[k][i] # o
        BY <3>2 DEF IdentInv, Recorded
      <4>3. global[k][i] \in active \cup {NoObject} \/ <<k, i>> \in dangling
        BY DEF IdentInv, IdentNotStale
      <4>4. <<k, i>> # <<KindOf(o), IndexOf(o)>>
        BY <3>2
      <4> QED
        BY <2>2, <2>4, <4>1, <4>2, <4>3, <4>4
    <3> QED
      BY <3>1, <3>2
  <2> QED
    BY <2>5, <2>6 DEF IdentInv, IdentNotStale
<1>5. CASE UNCHANGED <<global, active, dangling>>
  BY <1>5 DEF IdentInv, Recorded, IdentNotStale
<1> QED
  BY <1>1, <1>2, <1>3, <1>4, <1>5 DEF Next, vars, Move, Fetch, Allocate, OpenFails,
     Free

\* IdentNotStale for every instance: with any calls, stale deletions and moves
\* inside a directive included, rtems_semaphore_ident() meets no deleted object
\* except those that went with their namespace.
THEOREM IpcIdentNotStale == Spec => []IdentNotStale
<1>1. Init => TypeOK /\ IdentInv
  BY TypeInit DEF Init, IdentInv, Recorded, IdentNotStale
<1>2. TypeOK /\ IdentInv /\ [Next]_vars => (TypeOK /\ IdentInv)'
  BY TypeStep, IdentStep
<1> QED
  BY <1>1, <1>2, PTL DEF Spec, IdentInv

-----------------------------------------------------------------------------
(***************************************************************************)
(* An open message queue is found under its identifier, for any threads,   *)
(* namespaces and table sizes, provided no thread changes its namespace    *)
(* inside a directive.                                                     *)
(*                                                                         *)
(* The proof rests on where objects are: a chain and a table only hold     *)
(* objects of their own namespace, and what a directive works on belongs   *)
(* to the namespace its thread is in.  The create directive stores the     *)
(* queue in the table of the namespace it finds itself in at the end, so   *)
(* without the last fact the entry lands in a foreign table.               *)
(***************************************************************************)

In(o, n, k) == o \in Object /\ Home(o) = n /\ KindOf(o) = k

\* Chains stay inside their namespace and kind.
ChainsHome ==
  /\ \A n \in Namespace, k \in Kind : first[n][k] # End => In(first[n][k], n, k)
  /\ \A n \in Namespace, k \in Kind : last[n][k] # End => In(last[n][k], n, k)
  /\ \A o \in Object : next[o] # End => In(next[o], Home(o), KindOf(o))

\* Tables hold objects of their own namespace.
TablesHome ==
  \A n \in Namespace, k \in Kind : \A i \in 1 .. (Size(n) + 1) :
    table[n][k][i] # NoObject => Home(table[n][k][i]) = n

\* A directive works in the namespace of its thread, which exists.
ThreadsHome ==
  \A t \in Thread :
    /\ where[t] \in live
    /\ pc[t] = "allocate" => info[t][1] = where[t]
    /\ pc[t] \in {"open", "free"} => Home(held[t]) = where[t]

\* An open object belongs to an existing namespace.
ActiveHome == \A o \in active : Home(o) \in live

\* An open queue is in the table of its namespace.
QueuesEntered ==
  \A o \in active : KindOf(o) = "queue" => table[Home(o)]["queue"][IndexOf(o)] = o

QueueInv == ChainsHome /\ TablesHome /\ ThreadsHome /\ ActiveHome /\ QueuesEntered

\* Being entered is being found.
LEMMA EnteredIsReachable == TypeOK /\ QueueInv => QueueReachable
<1> SUFFICES ASSUME TypeOK, QueuesEntered, NEW o \in active, KindOf(o) = "queue"
             PROVE  Resolve(Home(o), IdOf(o)) = o
  BY DEF QueueReachable, QueueInv
<1>1. o \in Object
  BY DEF TypeOK, DirectivesTyped
<1>2. IndexOf(o) <= Size(Home(o))
  BY <1>1, ObjectParts, SizeType
<1> QED
  BY <1>2 DEF Resolve, IdOf, QueuesEntered

\* The successor on a new chain is of the same namespace and kind.
LEMMA NextNodeHome ==
  ASSUME NEW o \in Object, NextNode(o) # End
  PROVE  In(NextNode(o), Home(o), KindOf(o))
<1>1. IndexOf(o) + 1 \in 1 .. Size(Home(o))
  BY ObjectParts, SizeType DEF NextNode
<1>2. NextNode(o) = <<Home(o), KindOf(o), IndexOf(o) + 1>>
  BY DEF NextNode
<1> QED
  BY <1>1, <1>2, ObjectParts, ObjectMade DEF In

\* The ends of a new chain.
LEMMA FirstNodeHome ==
  ASSUME NEW n \in Namespace, NEW k \in Kind
  PROVE  In(FirstNode(n)[k], n, k) /\ In(LastNode(n)[k], n, k)
<1>1. 1 \in 1 .. Size(n) /\ Size(n) \in 1 .. Size(n)
  BY SizeType
<1> QED
  BY <1>1, ObjectMade DEF In, FirstNode, LastNode

\* The entries of a new table.
LEMMA EmptyEntries ==
  ASSUME NEW n \in Namespace, NEW k \in Kind, NEW i \in 1 .. (Size(n) + 1)
  PROVE  EmptyTable(n)[k][i] = NoObject
BY DEF EmptyTable

Written(n, k, j, v) == [table EXCEPT ![n][k][j] = v]

\* The entries of all tables after one was written.
LEMMA TableEntry ==
  ASSUME TablesTyped, NEW n \in Namespace, NEW k \in Kind, NEW j \in Nat,
         NEW v \in Pointer, table' = Written(n, k, j, v),
         NEW m \in Namespace, NEW l \in Kind, NEW i \in 1 .. (Size(m) + 1)
  PROVE  table'[m][l][i] = IF m = n /\ l = k /\ i = j THEN v ELSE table[m][l][i]
<1>1. m \in DOMAIN table /\ table[m] \in [Kind -> [1 .. (Size(m) + 1) -> Pointer]]
  BY DEF TablesTyped
<1>2. l \in DOMAIN table[m] /\ DOMAIN table[m][l] = 1 .. (Size(m) + 1)
  BY <1>1
<1>3. table'[m] = IF m = n
                  THEN [table[m] EXCEPT ![k] = [table[m][k] EXCEPT ![j] = v]]
                  ELSE table[m]
  BY <1>1 DEF Written
<1>4. m = n => table'[m][l] = IF l = k THEN [table[m][l] EXCEPT ![j] = v]
                                       ELSE table[m][l]
  BY <1>2, <1>3
<1>5. CASE m = n /\ l = k
  <2>1. table'[m][l] = [table[m][l] EXCEPT ![j] = v]
    BY <1>4, <1>5
  <2>2. i \in DOMAIN table[m][l]
    BY <1>2
  <2> QED
    BY <1>5, <2>1, <2>2, Zenon
<1>6. CASE m = n /\ l # k
  BY <1>4, <1>6
<1>7. CASE m # n
  BY <1>3, <1>7
<1> QED
  BY <1>5, <1>6, <1>7

\* Writing to a table of one kind leaves the others alone.
LEMMA TableOther ==
  ASSUME TablesTyped, NEW n \in Namespace, NEW k \in Kind, NEW j, NEW v,
         table' = Written(n, k, j, v), NEW l \in Kind, l # k
  PROVE  \A m \in Namespace : table'[m][l] = table[m][l]
<1> SUFFICES ASSUME NEW m \in Namespace PROVE table'[m][l] = table[m][l]
  OBVIOUS
<1>1. m \in DOMAIN table /\ table[m] \in [Kind -> [1 .. (Size(m) + 1) -> Pointer]]
  BY DEF TablesTyped
<1>2. table'[m] = IF m = n
                  THEN [table[m] EXCEPT ![k] = [table[m][k] EXCEPT ![j] = v]]
                  ELSE table[m]
  BY <1>1 DEF Written
<1> QED
  BY <1>1, <1>2

\* The facts hold initially.
LEMMA QueueInit == Init => QueueInv
<1> SUFFICES ASSUME Init PROVE QueueInv
  OBVIOUS
<1>1. ChainsHome
  BY FirstNodeHome, NextNodeHome DEF Init, ChainsHome
<1>2. TablesHome
  BY EmptyEntries DEF Init, TablesHome
<1> QED
  BY <1>1, <1>2 DEF Init, QueueInv, ThreadsHome, ActiveHome, QueuesEntered

\* A namespace is created or deleted: nobody is in it and nothing of it is open
\* afterwards.
LEMMA QueueSpaces ==
  ASSUME TypeOK, QueueInv, NEW n \in Child, NsCreate(n) \/ NsDelete(n)
  PROVE  QueueInv'
<1>1. n \in Namespace /\ Fresh(n)
  BY DEF NsCreate, NsDelete, Namespace
<1>2. ChainsHome'
  <2>1. \A m \in Namespace : /\ first'[m] = IF m = n THEN FirstNode(m) ELSE first[m]
                             /\ last'[m] = IF m = n THEN LastNode(m) ELSE last[m]
    BY <1>1 DEF Fresh, TypeOK, ChainTyped
  <2>2. \A o \in Object : next'[o] = IF Home(o) = n THEN NextNode(o) ELSE next[o]
    BY <1>1 DEF Fresh
  <2>3. \A m \in Namespace, k \in Kind :
          first'[m][k] # End => In(first'[m][k], m, k)
    BY <2>1, FirstNodeHome DEF QueueInv, ChainsHome
  <2>4. \A m \in Namespace, k \in Kind :
          last'[m][k] # End => In(last'[m][k], m, k)
    BY <2>1, FirstNodeHome DEF QueueInv, ChainsHome
  <2>5. \A o \in Object : next'[o] # End => In(next'[o], Home(o), KindOf(o))
    BY <2>2, NextNodeHome DEF QueueInv, ChainsHome
  <2> QED
    BY <2>3, <2>4, <2>5 DEF ChainsHome, In
<1>3. \A m \in Namespace : table'[m] = IF m = n THEN EmptyTable(m) ELSE table[m]
  BY <1>1 DEF Fresh, TypeOK, TablesTyped
<1>4. TablesHome'
  BY <1>3, EmptyEntries DEF QueueInv, TablesHome
<1>5. ThreadsHome'
  BY DEF NsCreate, NsDelete, QueueInv, ThreadsHome
<1>6. \A o \in active' : o \in active /\ Home(o) \in live /\ Home(o) # n
  BY DEF NsCreate, NsDelete, QueueInv, ActiveHome
<1>7. ActiveHome'
  BY <1>6 DEF NsCreate, NsDelete, ActiveHome
<1>8. \A o \in active' : Home(o) \in Namespace
  BY <1>6, ObjectParts DEF TypeOK, DirectivesTyped
<1>9. QueuesEntered'
  BY <1>3, <1>6, <1>8 DEF QueueInv, QueuesEntered
<1> QED
  BY <1>2, <1>4, <1>5, <1>7, <1>9 DEF QueueInv

\* Allocation takes an object of the thread's namespace off its chain.
LEMMA QueueAllocate ==
  ASSUME TypeOK, QueueInv, NEW t \in Thread, Allocate(t)
  PROVE  QueueInv'
<1> DEFINE n == info[t][1]
           k == info[t][2]
           o == first[n][k]
<1>1. n \in Namespace /\ k \in Kind /\ n = where[t]
  BY DEF Allocate, TypeOK, DirectivesTyped, QueueInv, ThreadsHome
<1>2. UNCHANGED <<live, where, active>> /\ info' = [info EXCEPT ![t] = NoInfo]
  BY DEF Allocate, spaces
<1>3. CASE o = End
  <2>1. UNCHANGED <<table, chain, held>> /\ pc' = [pc EXCEPT ![t] = "out"]
    BY <1>3 DEF Allocate
  <2> HIDE DEF n, k, o
  <2>2. ThreadsHome'
    BY <1>2, <2>1 DEF QueueInv, ThreadsHome, TypeOK, DirectivesTyped
  <2> QED
    BY <1>2, <2>1, <2>2 DEF chain, QueueInv, ChainsHome, TablesHome, ActiveHome,
       QueuesEntered
<1>4. CASE o # End
  <2>1. /\ pc' = [pc EXCEPT ![t] = "open"] /\ held' = [held EXCEPT ![t] = o]
        /\ TakeFirst(n, k)
    BY <1>4 DEF Allocate
  <2>2. \/ table' = table
        \/ k = "semaphore" /\ table' = [table EXCEPT ![n][k][IndexOf(o)] = o]
    BY <1>4 DEF Allocate
  <2>3. In(o, n, k)
    BY <1>1, <1>4 DEF QueueInv, ChainsHome
  <2>4. /\ first' = [first EXCEPT ![n][k] = next[o]]
        /\ last' = [last EXCEPT ![n][k] = End] \/ last' = last
        /\ next' = next
    BY <2>1 DEF TakeFirst
  <2> HIDE DEF n, k, o
  <2>5. ChainsHome'
    <3>1. \A m \in Namespace, l \in Kind :
            first'[m][l] = IF m = n /\ l = k THEN next[o] ELSE first[m][l]
      BY <1>1, <2>4 DEF TypeOK, ChainTyped
    <3>2. \A m \in Namespace, l \in Kind :
            last'[m][l] = last[m][l] \/ last'[m][l] = End
      BY <1>1, <2>4 DEF TypeOK, ChainTyped
    <3>3. next[o] # End => In(next[o], n, k)
      BY <2>3 DEF QueueInv, ChainsHome, In
    <3>4. \A m \in Namespace, l \in Kind :
            first'[m][l] # End => In(first'[m][l], m, l)
      BY <3>1, <3>3 DEF QueueInv, ChainsHome
    <3>5. \A m \in Namespace, l \in Kind :
            last'[m][l] # End => In(last'[m][l], m, l)
      BY <3>2 DEF QueueInv, ChainsHome
    <3> QED
      BY <2>4, <3>4, <3>5 DEF QueueInv, ChainsHome, In
  <2>6. TablesHome' /\ (\A m \in Namespace : table'[m]["queue"] = table[m]["queue"])
    <3>1. CASE table' = table
      BY <3>1 DEF QueueInv, TablesHome
    <3>2. CASE k = "semaphore" /\ table' = [table EXCEPT ![n][k][IndexOf(o)] = o]
      <4>1. \A m \in Namespace, l \in Kind : \A i \in 1 .. (Size(m) + 1) :
              table'[m][l][i] =
                IF m = n /\ l = k /\ i = IndexOf(o) THEN o ELSE table[m][l][i]
        <5>1. TablesTyped /\ table' = Written(n, k, IndexOf(o), o)
          BY <3>2 DEF TypeOK, Written
        <5>2. o \in Pointer /\ IndexOf(o) \in Nat
          BY <2>3, ObjectParts DEF In, Pointer
        <5> QED
          BY <1>1, <5>1, <5>2, TableEntry
      <4>2. TablesHome'
        BY <2>3, <4>1 DEF QueueInv, TablesHome, In
      <4>3. \A m \in Namespace : table'[m]["queue"] = table[m]["queue"]
        BY <1>1, <3>2, TableOther DEF TypeOK, Kind, Written
      <4> QED
        BY <4>2, <4>3
    <3> QED
      BY <2>2, <3>1, <3>2
  <2>7. ThreadsHome'
    BY <1>1, <1>2, <2>1, <2>3 DEF QueueInv, ThreadsHome, TypeOK, DirectivesTyped, In
  <2>8. ActiveHome'
    BY <1>2 DEF QueueInv, ActiveHome
  <2>9. QueuesEntered'
    BY <1>2, <2>6, ObjectParts DEF QueueInv, QueuesEntered, TypeOK, DirectivesTyped
  <2> QED
    BY <2>5, <2>6, <2>7, <2>8, <2>9 DEF QueueInv
<1> QED
  BY <1>3, <1>4

\* Opening stores the object where its identifier will be looked up.
LEMMA QueueOpen ==
  ASSUME TypeOK, QueueInv, NEW t \in Thread, Open(t)
  PROVE  QueueInv'
<1> DEFINE o == held[t]
           n == where[t]
<1>1. o \in Object /\ n \in Namespace /\ n \in live /\ Home(o) = n
  BY DEF Open, TypeOK, DirectivesTyped, QueueInv, ThreadsHome
<1>2. /\ UNCHANGED <<live, chain, where, info>> /\ active' = active \cup {o}
      /\ pc' = [pc EXCEPT ![t] = "out"] /\ held' = [held EXCEPT ![t] = NoObject]
  BY DEF Open, spaces
<1>3. \/ KindOf(o) # "queue" /\ table' = table
      \/ KindOf(o) = "queue" /\ table' = Written(n, "queue", IndexOf(o), o)
  BY DEF Open, Written
<1> HIDE DEF o, n
<1>4. ChainsHome'
  BY <1>2 DEF chain, QueueInv, ChainsHome
<1>5. ThreadsHome'
  BY <1>2 DEF QueueInv, ThreadsHome, TypeOK, DirectivesTyped
<1>6. ActiveHome'
  BY <1>1, <1>2 DEF QueueInv, ActiveHome
<1>7. CASE KindOf(o) # "queue" /\ table' = table
  BY <1>2, <1>4, <1>5, <1>6, <1>7 DEF QueueInv, TablesHome, QueuesEntered
<1>8. CASE KindOf(o) = "queue" /\ table' = Written(n, "queue", IndexOf(o), o)
  <2>1. "queue" \in Kind /\ o \in Pointer /\ IndexOf(o) \in Nat
    BY <1>1, ObjectParts DEF Kind, Pointer
  <2>2. \A m \in Namespace, l \in Kind : \A i \in 1 .. (Size(m) + 1) :
          table'[m][l][i] =
            IF m = n /\ l = "queue" /\ i = IndexOf(o) THEN o ELSE table[m][l][i]
    BY <1>1, <1>8, <2>1, TableEntry DEF TypeOK
  <2>3. TablesHome'
    BY <1>1, <2>2 DEF QueueInv, TablesHome
  <2>4. ASSUME NEW q \in active', KindOf(q) = "queue"
        PROVE  table'[Home(q)]["queue"][IndexOf(q)] = q
    <3>1. q \in Object /\ (q = o \/ q \in active)
      BY <1>1, <1>2 DEF TypeOK, DirectivesTyped
    <3>2. Home(q) \in Namespace /\ IndexOf(q) \in 1 .. (Size(Home(q)) + 1)
      BY <3>1, ObjectParts, SizeType
    <3>3. CASE Home(q) = n /\ IndexOf(q) = IndexOf(o)
      <4>1. q = o
        BY <1>1, <1>8, <2>4, <3>1, <3>3, ObjectParts
      <4> QED
        BY <2>1, <2>2, <3>2, <3>3, <4>1
    <3>4. CASE ~(Home(q) = n /\ IndexOf(q) = IndexOf(o))
      <4>1. q \in active
        BY <1>1, <3>1, <3>4
      <4>2. table[Home(q)]["queue"][IndexOf(q)] = q
        BY <2>4, <4>1 DEF QueueInv, QueuesEntered
      <4> QED
        BY <2>1, <2>2, <3>2, <3>4, <4>2
    <3> QED
      BY <3>3, <3>4
  <2> QED
    BY <1>4, <1>5, <1>6, <2>3, <2>4 DEF QueueInv, QueuesEntered
<1> QED
  BY <1>3, <1>7, <1>8

\* Closing forgets an object of the thread's own namespace.
LEMMA QueueClose ==
  ASSUME TypeOK, QueueInv, NEW t \in Thread, NEW id \in Ids, Close(t, id)
  PROVE  QueueInv'
<1> DEFINE o == Resolve(where[t], id)
<1>1. o \in Object
  BY ResolveTyped DEF Close
<1>2. Home(o) = where[t]
  <2>1. PICK j \in 1 .. lastId, q \in Object : id = <<NodeField(j), q[2], q[3]>>
    BY DEF Ids
  <2>2. id[2] \in Kind /\ id[3] \in Nat \ {0} /\ where[t] \in Namespace
    BY <2>1, ObjectParts DEF KindOf, IndexOf, TypeOK, DirectivesTyped
  <2>3. id[3] <= Size(where[t]) /\ o = table[where[t]][id[2]][id[3]] /\ o # NoObject
    BY DEF Close, Resolve
  <2>4. id[3] \in 1 .. (Size(where[t]) + 1)
    BY <2>2, <2>3, SizeType
  <2> QED
    BY <2>2, <2>3, <2>4 DEF QueueInv, TablesHome
<1>3. /\ UNCHANGED <<live, table, chain, where, info>> /\ active' = active \ {o}
      /\ pc' = [pc EXCEPT ![t] = "free"] /\ held' = [held EXCEPT ![t] = o]
  BY DEF Close, spaces
<1> HIDE DEF o
<1>4. ThreadsHome'
  BY <1>2, <1>3 DEF QueueInv, ThreadsHome, TypeOK, DirectivesTyped
<1> QED
  BY <1>3, <1>4 DEF chain, QueueInv, ChainsHome, TablesHome, ActiveHome,
     QueuesEntered

\* Freeing appends to the chain of the object's own namespace; the semaphore
\* routine writes to the semaphore table only.
LEMMA QueueFree ==
  ASSUME TypeOK, QueueInv, NEW t \in Thread, Free(t)
  PROVE  QueueInv'
<1> DEFINE o == held[t]
           n == where[t]
           k == KindOf(o)
           j == IndexOf(o) + 1
<1>1. /\ o \in Object /\ n \in Namespace /\ Home(o) = n /\ k \in Kind
      /\ j \in Nat /\ NoObject \in Pointer /\ In(o, n, k)
  BY ObjectParts DEF Free, TypeOK, DirectivesTyped, QueueInv, ThreadsHome, Pointer, In
<1>2. /\ UNCHANGED <<live, where, info, active>>
      /\ pc' = [pc EXCEPT ![t] = "out"] /\ held' = [held EXCEPT ![t] = NoObject]
  BY DEF Free, spaces
<1>3. table' = table \/ table' = Written(n, "semaphore", j, NoObject)
  BY DEF Free, Written
<1>4. /\ last' = [last EXCEPT ![n][k] = o]
      /\ first' = [first EXCEPT ![n][k] = o] \/ first' = first
      /\ \/ next' = [next EXCEPT ![o] = End]
         \/ /\ last[n][k] # End
            /\ next' = [next EXCEPT ![o] = End, ![last[n][k]] = o]
  BY DEF Free, ChainAppend
<1> HIDE DEF o, n, k, j
<1>5. ChainsHome'
  <2>1. \A m \in Namespace, l \in Kind :
          /\ last'[m][l] = last[m][l] \/ (m = n /\ l = k /\ last'[m][l] = o)
          /\ first'[m][l] = first[m][l] \/ (m = n /\ l = k /\ first'[m][l] = o)
    BY <1>1, <1>4 DEF TypeOK, ChainTyped
  <2>2. \A m \in Namespace, l \in Kind :
          /\ first'[m][l] # End => In(first'[m][l], m, l)
          /\ last'[m][l] # End => In(last'[m][l], m, l)
    BY <1>1, <2>1 DEF QueueInv, ChainsHome
  <2>3. last[n][k] # End => In(last[n][k], n, k)
    BY <1>1 DEF QueueInv, ChainsHome
  <2>4. \A q \in Object :
          \/ next'[q] = next[q] \/ next'[q] = End
          \/ last[n][k] # End /\ q = last[n][k] /\ next'[q] = o
    BY <1>1, <1>4 DEF TypeOK, ChainTyped
  <2>5. \A q \in Object : next'[q] # End => In(next'[q], Home(q), KindOf(q))
    BY <1>1, <2>3, <2>4 DEF QueueInv, ChainsHome, In
  <2> QED
    BY <2>2, <2>5 DEF ChainsHome, In
<1>6. TablesHome' /\ (\A m \in Namespace : table'[m]["queue"] = table[m]["queue"])
  <2>1. CASE table' = table
    BY <2>1 DEF QueueInv, TablesHome
  <2>2. CASE table' = Written(n, "semaphore", j, NoObject)
    <3>1. "semaphore" \in Kind /\ "queue" \in Kind /\ TablesTyped
      BY DEF Kind, TypeOK
    <3>2. \A m \in Namespace, l \in Kind : \A i \in 1 .. (Size(m) + 1) :
            table'[m][l][i] =
              IF m = n /\ l = "semaphore" /\ i = j THEN NoObject ELSE table[m][l][i]
      BY <1>1, <2>2, <3>1, TableEntry
    <3>3. TablesHome'
      BY <3>2 DEF QueueInv, TablesHome
    <3>4. \A m \in Namespace : table'[m]["queue"] = table[m]["queue"]
      BY <1>1, <2>2, <3>1, TableOther
    <3> QED
      BY <3>3, <3>4
  <2> QED
    BY <1>3, <2>1, <2>2
<1>7. ThreadsHome'
  BY <1>2 DEF QueueInv, ThreadsHome, TypeOK, DirectivesTyped
<1>8. QueuesEntered'
  BY <1>2, <1>6, ObjectParts DEF QueueInv, QueuesEntered, TypeOK, DirectivesTyped
<1> QED
  BY <1>2, <1>5, <1>6, <1>7, <1>8 DEF QueueInv, ActiveHome

\* Every step keeps objects at home.
LEMMA QueueStep ==
  ASSUME "move_inside" \notin Calls, TypeOK, QueueInv, [Next]_vars
  PROVE  QueueInv'
<1>1. ASSUME NEW n \in Child, NsCreate(n) \/ NsDelete(n) PROVE QueueInv'
  BY <1>1, QueueSpaces
<1>2. ASSUME NEW t \in Thread, NEW n \in Namespace, Move(t, n) PROVE QueueInv'
  <2>1. pc[t] = "out" /\ n \in live /\ where' = [where EXCEPT ![t] = n]
    BY <1>2 DEF Move, Allowed
  <2>2. UNCHANGED <<live, table, chain, pc, info, held, active>>
    BY <1>2 DEF Move, spaces
  <2>3. ThreadsHome'
    BY <2>1, <2>2 DEF QueueInv, ThreadsHome, TypeOK, DirectivesTyped
  <2> QED
    BY <2>2, <2>3 DEF chain, QueueInv, ChainsHome, TablesHome, ActiveHome,
       QueuesEntered
<1>3. ASSUME NEW t \in Thread, NEW k \in Kind, Fetch(t, k) PROVE QueueInv'
  <2>1. /\ pc' = [pc EXCEPT ![t] = "allocate"]
        /\ info' = [info EXCEPT ![t] = <<where[t], k>>]
        /\ UNCHANGED <<live, table, chain, where, held, active>>
    BY <1>3 DEF Fetch, spaces
  <2>2. ThreadsHome'
    BY <2>1 DEF QueueInv, ThreadsHome, TypeOK, DirectivesTyped
  <2> QED
    BY <2>1, <2>2 DEF chain, QueueInv, ChainsHome, TablesHome, ActiveHome,
       QueuesEntered
<1>4. ASSUME NEW t \in Thread, OpenFails(t) PROVE QueueInv'
  <2>1. /\ pc[t] = "open" /\ pc' = [pc EXCEPT ![t] = "free"]
        /\ UNCHANGED <<live, table, chain, where, info, held, active>>
    BY <1>4 DEF OpenFails, spaces
  <2>2. ThreadsHome'
    BY <2>1 DEF QueueInv, ThreadsHome, TypeOK, DirectivesTyped
  <2> QED
    BY <2>1, <2>2 DEF chain, QueueInv, ChainsHome, TablesHome, ActiveHome,
       QueuesEntered
<1>5. ASSUME NEW t \in Thread, Allocate(t) \/ Open(t) \/ Free(t) PROVE QueueInv'
  BY <1>5, QueueAllocate, QueueOpen, QueueFree
<1>6. ASSUME NEW t \in Thread, NEW id \in Ids, Close(t, id) PROVE QueueInv'
  BY <1>6, QueueClose
<1>7. CASE UNCHANGED vars
  BY <1>7 DEF vars, spaces, chain, QueueInv, ChainsHome, TablesHome, ThreadsHome,
     ActiveHome, QueuesEntered
<1> QED
  BY <1>1, <1>2, <1>3, <1>4, <1>5, <1>6, <1>7 DEF Next

\* QueueReachable for every instance: as long as no thread is moved to another
\* namespace inside a directive, every queue that was created and not deleted
\* is found under its identifier, stale deletions included.
THEOREM IpcQueueReachable ==
  ASSUME "move_inside" \notin Calls
  PROVE  Spec => []QueueReachable
<1>1. Init => TypeOK /\ QueueInv
  BY TypeInit, QueueInit
<1>2. TypeOK /\ QueueInv /\ [Next]_vars => (TypeOK /\ QueueInv)'
  BY TypeStep, QueueStep
<1>3. TypeOK /\ QueueInv => QueueReachable
  BY EnteredIsReachable
<1> QED
  BY <1>1, <1>2, <1>3, PTL DEF Spec

-----------------------------------------------------------------------------
(***************************************************************************)
(* Objects are conserved, for any threads, namespaces and table sizes,     *)
(* provided no identifier is deleted twice and no thread changes its       *)
(* namespace inside a directive.                                           *)
(*                                                                         *)
(* The inactive chain is a sequence: its pointers follow one that has      *)
(* every idle object once.  Taking the first object and appending one are  *)
(* what they should be on that sequence, because no object is linked       *)
(* twice.                                                                  *)
(***************************************************************************)

Objects(n, k) == {n} \X {k} \X (1 .. Size(n))
Idle(n, k) == {o \in Objects(n, k) : o \notin active /\ o \notin InHand}

\* The chain of namespace n and kind k has the m objects of s, in their order.
Follows(n, k, m, s) ==
  /\ \A i \in 1 .. m : s[i] \in Idle(n, k)
  /\ \A o \in Idle(n, k) : \E i \in 1 .. m : s[i] = o
  /\ \A i, j \in 1 .. m : s[i] = s[j] => i = j
  /\ first[n][k] = IF m = 0 THEN End ELSE s[1]
  /\ last[n][k] = IF m = 0 THEN End ELSE s[m]
  /\ \A i \in 1 .. m : next[s[i]] = IF i = m THEN End ELSE s[i + 1]
  /\ k = "semaphore" => inactive[n] = m
Linked(n, k) == \E m \in Nat : \E s \in [1 .. m -> Object] : Follows(n, k, m, s)

\* One directive at a time has an object in hand, and it is not open.
Working(t) == pc[t] \in {"open", "free"}
Handled ==
  /\ \A t, u \in Thread : Working(t) /\ Working(u) => t = u
  /\ \A t \in Thread : Working(t) => held[t] \notin active

ConsInv == Handled /\ \A n \in Namespace, k \in Kind : Linked(n, k)

\* The objects of a namespace and a kind.
LEMMA ObjectsOf ==
  ASSUME NEW n \in Namespace, NEW k \in Kind
  PROVE  \A o : o \in Objects(n, k) <=> In(o, n, k)
<1>1. ASSUME NEW o \in Objects(n, k) PROVE In(o, n, k)
  <2>1. PICK i \in 1 .. Size(n) : o = <<n, k, i>>
    BY DEF Objects
  <2> QED BY <2>1, ObjectMade DEF In
<1>2. ASSUME NEW o, In(o, n, k) PROVE o \in Objects(n, k)
  <2>1. o = <<n, k, IndexOf(o)>> /\ IndexOf(o) \in 1 .. Size(n)
    BY <1>2, ObjectParts DEF In
  <2> QED BY <2>1 DEF Objects
<1> QED BY <1>1, <1>2

-----------------------------------------------------------------------------
(* Operations on a chain *)

\* A chain that nothing changed.
LEMMA LinkedKept ==
  ASSUME NEW n \in Namespace, NEW k \in Kind, Linked(n, k), Idle(n, k)' = Idle(n, k),
         first'[n][k] = first[n][k], last'[n][k] = last[n][k],
         \A o \in Objects(n, k) : next'[o] = next[o],
         k = "semaphore" => inactive'[n] = inactive[n]
  PROVE  Linked(n, k)'
<1>0. PICK m \in Nat : \E s \in [1 .. m -> Object] : Follows(n, k, m, s)
  BY DEF Linked
<1>1. PICK s \in [1 .. m -> Object] : Follows(n, k, m, s)
  BY <1>0
<1>2. \A i \in 1 .. m : s[i] \in Objects(n, k)
  BY <1>1 DEF Follows, Idle
<1>3. Follows(n, k, m, s)'
  BY <1>1, <1>2 DEF Follows
<1> QED BY <1>3 DEF Linked

\* s has the m objects of a namespace and a kind in the order of their indices, as
\* the chain of a new namespace has.
InOrder(n, k, m, s) ==
  /\ m = Size(n)
  /\ \A i \in 1 .. m : s[i] \in Objects(n, k)
  /\ \A o \in Objects(n, k) : \E i \in 1 .. m : s[i] = o
  /\ \A i, j \in 1 .. m : s[i] = s[j] => i = j
  /\ FirstNode(n)[k] = s[1] /\ LastNode(n)[k] = s[m]
  /\ \A i \in 1 .. m : NextNode(s[i]) = IF i = m THEN End ELSE s[i + 1]

LEMMA FreshOrder ==
  ASSUME NEW n \in Namespace, NEW k \in Kind
  PROVE  \E m \in Nat \ {0} : \E s \in [1 .. m -> Object] : InOrder(n, k, m, s)
<1> DEFINE m == Size(n)
           s == [i \in 1 .. m |-> <<n, k, i>>]
<1>1. m \in Nat \ {0}
  BY SizeType
<1>2. \A i \in 1 .. m : s[i] \in Objects(n, k) /\ s[i] \in Object
  BY ObjectMade DEF Objects
<1>3. s \in [1 .. m -> Object]
  BY <1>2
<1>4. \A o \in Objects(n, k) : \E i \in 1 .. m : s[i] = o
  BY DEF Objects
<1>5. \A i, j \in 1 .. m : s[i] = s[j] => i = j
  OBVIOUS
<1>6. FirstNode(n)[k] = s[1] /\ LastNode(n)[k] = s[m]
  BY <1>1 DEF FirstNode, LastNode
<1>7. ASSUME NEW i \in 1 .. m PROVE NextNode(s[i]) = IF i = m THEN End ELSE s[i + 1]
  <2>1. IndexOf(s[i]) = i /\ Home(s[i]) = n /\ KindOf(s[i]) = k
    BY DEF IndexOf, Home, KindOf
  <2>2. i # m => i + 1 \in 1 .. m
    BY <1>1
  <2> QED BY <2>1, <2>2 DEF NextNode
<1>8. m = Size(n)
  OBVIOUS
<1> HIDE DEF s, m
<1>9. InOrder(n, k, m, s)
  BY <1>2, <1>4, <1>5, <1>6, <1>7, <1>8 DEF InOrder
<1> QED BY <1>1, <1>3, <1>9

\* The chain of a namespace in the initial state.
LEMMA LinkedFresh ==
  ASSUME NEW n \in Namespace, NEW k \in Kind, Idle(n, k) = Objects(n, k),
         first[n] = FirstNode(n), last[n] = LastNode(n), inactive[n] = Size(n),
         \A o \in Objects(n, k) : next[o] = NextNode(o)
  PROVE  Linked(n, k)
<1>1. PICK m \in Nat \ {0} : \E s \in [1 .. m -> Object] : InOrder(n, k, m, s)
  BY FreshOrder
<1>2. PICK s \in [1 .. m -> Object] : InOrder(n, k, m, s)
  BY <1>1
<1>3. \A i \in 1 .. m : next[s[i]] = IF i = m THEN End ELSE s[i + 1]
  BY <1>2 DEF InOrder
<1>4. Follows(n, k, m, s)
  BY <1>2, <1>3 DEF Follows, InOrder
<1> QED BY <1>4 DEF Linked

\* The chain of a namespace that a step set up.
LEMMA LinkedFreshNext ==
  ASSUME NEW n \in Namespace, NEW k \in Kind, Idle(n, k)' = Objects(n, k),
         first'[n] = FirstNode(n), last'[n] = LastNode(n), inactive'[n] = Size(n),
         \A o \in Objects(n, k) : next'[o] = NextNode(o)
  PROVE  Linked(n, k)'
<1>1. PICK m \in Nat \ {0} : \E s \in [1 .. m -> Object] : InOrder(n, k, m, s)
  BY FreshOrder
<1>2. PICK s \in [1 .. m -> Object] : InOrder(n, k, m, s)
  BY <1>1
<1>3. \A i \in 1 .. m : next'[s[i]] = IF i = m THEN End ELSE s[i + 1]
  BY <1>2 DEF InOrder
<1>4. Follows(n, k, m, s)'
  BY <1>2, <1>3 DEF Follows, InOrder
<1> QED BY <1>4 DEF Linked

\* The first object is taken.
LEMMA LinkedTake ==
  ASSUME NEW n \in Namespace, NEW k \in Kind, Linked(n, k), NEW o, o = first[n][k], o # End,
         Idle(n, k)' = Idle(n, k) \ {o}, first'[n][k] = next[o],
         last'[n][k] = (IF next[o] = End THEN End ELSE last[n][k]), next' = next,
         k = "semaphore" => inactive'[n] = inactive[n] - 1
  PROVE  Linked(n, k)'
<1>0. PICK m \in Nat : \E s \in [1 .. m -> Object] : Follows(n, k, m, s)
  BY DEF Linked
<1>1. PICK s \in [1 .. m -> Object] : Follows(n, k, m, s)
  BY <1>0
<1>2. m # 0 /\ o = s[1] /\ m - 1 \in Nat /\ 1 \in 1 .. m
  BY <1>1 DEF Follows
<1> DEFINE r == [i \in 1 .. (m - 1) |-> s[i + 1]]
<1>3. r \in [1 .. (m - 1) -> Object] /\ \A i \in 1 .. (m - 1) : r[i] = s[i + 1] /\ i + 1 \in 1 .. m
  BY <1>2
<1> HIDE DEF r
<1>4. next[o] = IF m = 1 THEN End ELSE s[2]
  BY <1>1, <1>2 DEF Follows
<1>5. m # 1 => s[2] # End
  <2>1. m # 1 => 2 \in 1 .. m
    BY <1>2
  <2> QED BY <2>1, MarkAssumption
<1>6. \A i \in 1 .. (m - 1) : r[i] \in Idle(n, k)'
  <2>1. \A i \in 1 .. (m - 1) : s[i + 1] \in Idle(n, k) /\ s[i + 1] # s[1]
    <3>1. \A i \in 1 .. (m - 1) : i + 1 \in 1 .. m /\ i + 1 # 1
      BY <1>2
    <3> QED BY <1>1, <1>2, <3>1 DEF Follows
  <2> QED BY <1>2, <1>3, <2>1
<1>7. ASSUME NEW p \in Idle(n, k)' PROVE \E i \in 1 .. (m - 1) : r[i] = p
  <2>1. PICK i \in 1 .. m : s[i] = p
    BY <1>1 DEF Follows
  <2>2. i # 1
    BY <1>2, <2>1
  <2>3. i - 1 \in 1 .. (m - 1) /\ (i - 1) + 1 = i
    BY <2>2
  <2> QED BY <1>3, <2>1, <2>3
<1>8. \A i, j \in 1 .. (m - 1) : r[i] = r[j] => i = j
  <2>1. ASSUME NEW i \in 1 .. (m - 1), NEW j \in 1 .. (m - 1), r[i] = r[j] PROVE i = j
    <3>1. i + 1 \in 1 .. m /\ j + 1 \in 1 .. m /\ s[i + 1] = s[j + 1]
      BY <1>3, <2>1
    <3>2. i + 1 = j + 1
      BY <1>1, <3>1 DEF Follows
    <3> QED BY <1>2, <3>2
  <2> QED BY <2>1
<1>9. first'[n][k] = (IF m - 1 = 0 THEN End ELSE r[1])
      /\ last'[n][k] = (IF m - 1 = 0 THEN End ELSE r[m - 1])
  <2>1. CASE m = 1
    BY <1>4, <2>1
  <2>2. CASE m # 1
    <3>1. 1 \in 1 .. (m - 1) /\ m - 1 \in 1 .. (m - 1) /\ (m - 1) + 1 = m /\ 1 + 1 = 2
      BY <1>2, <2>2
    <3>2. r[1] = s[2] /\ r[m - 1] = s[m]
      BY <1>3, <3>1
    <3>3. last[n][k] = s[m]
      BY <1>1, <1>2 DEF Follows
    <3> QED BY <1>2, <1>4, <1>5, <2>2, <3>2, <3>3
  <2> QED BY <2>1, <2>2
<1>10. ASSUME NEW i \in 1 .. (m - 1)
       PROVE  next'[r[i]] = IF i = m - 1 THEN End ELSE r[i + 1]
  <2>1. r[i] = s[i + 1] /\ i + 1 \in 1 .. m
    BY <1>3
  <2>2. next[s[i + 1]] = IF i + 1 = m THEN End ELSE s[(i + 1) + 1]
    BY <1>1, <2>1 DEF Follows
  <2>3. i # m - 1 => i + 1 \in 1 .. (m - 1)
    BY <1>2
  <2>4. i # m - 1 => r[i + 1] = s[(i + 1) + 1]
    BY <1>3, <2>3
  <2>5. i = m - 1 <=> i + 1 = m
    BY <1>2
  <2> QED BY <2>1, <2>2, <2>4, <2>5
<1>11. k = "semaphore" => inactive'[n] = m - 1
  BY <1>1 DEF Follows
<1>12. Follows(n, k, m - 1, r)'
  BY <1>6, <1>7, <1>8, <1>9, <1>10, <1>11 DEF Follows
<1> QED BY <1>2, <1>3, <1>12 DEF Linked

\* An object that is not on the chain is appended.
LEMMA LinkedAppend ==
  ASSUME NEW n \in Namespace, NEW k \in Kind, Linked(n, k), NEW o \in Objects(n, k),
         o \notin Idle(n, k), Idle(n, k)' = Idle(n, k) \cup {o},
         next \in [Object -> Object \cup {End}], NEW old, old = last[n][k],
         last'[n][k] = o, first'[n][k] = (IF old = End THEN o ELSE first[n][k]),
         next' = (IF old = End THEN [next EXCEPT ![o] = End]
                  ELSE [next EXCEPT ![o] = End, ![old] = o]),
         k = "semaphore" => inactive'[n] = inactive[n] + 1
  PROVE  Linked(n, k)'
<1>0. PICK m \in Nat : \E s \in [1 .. m -> Object] : Follows(n, k, m, s)
  BY DEF Linked
<1>1. PICK s \in [1 .. m -> Object] : Follows(n, k, m, s)
  BY <1>0
<1>2. o \in Object
  BY ObjectsOf DEF In
<1>3. old = End <=> m = 0
  <2>1. m # 0 => m \in 1 .. m /\ old = s[m]
    BY <1>1 DEF Follows
  <2>2. m # 0 => old # End
    BY <2>1, MarkAssumption
  <2>3. m = 0 => old = End
    BY <1>1 DEF Follows
  <2> QED BY <2>2, <2>3
<1> DEFINE r == [i \in 1 .. (m + 1) |-> IF i = m + 1 THEN o ELSE s[i]]
<1>4. /\ r \in [1 .. (m + 1) -> Object] /\ r[m + 1] = o
      /\ \A i \in 1 .. m : r[i] = s[i] /\ i \in 1 .. (m + 1) /\ i # m + 1
  <2>1. \A i \in 1 .. (m + 1) : i # m + 1 => i \in 1 .. m
    OBVIOUS
  <2>2. m + 1 \in 1 .. (m + 1) /\ \A i \in 1 .. m : i \in 1 .. (m + 1) /\ i # m + 1
    OBVIOUS
  <2> QED BY <1>2, <2>1, <2>2
<1>5. \A i \in 1 .. (m + 1) : i = m + 1 \/ i \in 1 .. m
  OBVIOUS
<1> HIDE DEF r
<1>6. \A i \in 1 .. m : s[i] \in Idle(n, k) /\ s[i] # o
  BY <1>1 DEF Follows
<1>7. \A i \in 1 .. (m + 1) : r[i] \in Idle(n, k)'
  BY <1>4, <1>5, <1>6
<1>8. ASSUME NEW p \in Idle(n, k)' PROVE \E i \in 1 .. (m + 1) : r[i] = p
  <2>1. CASE p = o
    <3>1. m + 1 \in 1 .. (m + 1)
      OBVIOUS
    <3> QED BY <1>4, <2>1, <3>1
  <2>2. CASE p # o
    <3>1. PICK i \in 1 .. m : s[i] = p
      BY <1>1, <2>2 DEF Follows
    <3> QED BY <1>4, <3>1
  <2> QED BY <2>1, <2>2
<1>9. \A i, j \in 1 .. (m + 1) : r[i] = r[j] => i = j
  <2>1. \A i, j \in 1 .. m : s[i] = s[j] => i = j
    BY <1>1 DEF Follows
  <2> QED BY <1>4, <1>5, <1>6, <2>1
<1>10. first'[n][k] = (IF m + 1 = 0 THEN End ELSE r[1])
       /\ last'[n][k] = (IF m + 1 = 0 THEN End ELSE r[m + 1])
  <2>1. m + 1 # 0
    OBVIOUS
  <2>2. CASE m = 0
    BY <1>3, <1>4, <2>1, <2>2
  <2>3. CASE m # 0
    <3>1. 1 \in 1 .. m /\ first[n][k] = s[1]
      BY <1>1, <2>3 DEF Follows
    <3> QED BY <1>3, <1>4, <2>1, <2>3, <3>1
  <2> QED BY <2>2, <2>3
<1>11. ASSUME NEW i \in 1 .. (m + 1)
       PROVE  next'[r[i]] = IF i = m + 1 THEN End ELSE r[i + 1]
  <2>1. m # 0 => m \in 1 .. m /\ old = s[m] /\ old # o /\ old \in Object
    BY <1>1, <1>6 DEF Follows
  <2>2. CASE i = m + 1
    <3>1. next'[o] = End
      BY <1>2, <1>3, <2>1
    <3> QED BY <1>4, <2>2, <3>1
  <2>3. CASE i # m + 1
    <3>1. i \in 1 .. m /\ r[i] = s[i] /\ s[i] \in Object /\ s[i] # o /\ m # 0
      BY <1>4, <1>5, <1>6, <2>3
    <3>2. CASE i = m
      <4>1. next'[s[i]] = o
        BY <1>3, <2>1, <3>1, <3>2
      <4> QED BY <1>4, <2>3, <3>1, <3>2, <4>1
    <3>3. CASE i # m
      <4>1. s[i] # old
        BY <1>1, <2>1, <3>1, <3>3 DEF Follows
      <4>2. next'[s[i]] = next[s[i]]
        BY <1>3, <3>1, <4>1
      <4>3. next[s[i]] = s[i + 1] /\ i + 1 \in 1 .. m
        BY <1>1, <3>1, <3>3 DEF Follows
      <4> QED BY <1>4, <2>3, <3>1, <4>2, <4>3
    <3> QED BY <3>2, <3>3
  <2> QED BY <2>2, <2>3
<1>12. k = "semaphore" => inactive'[n] = m + 1
  BY <1>1 DEF Follows
<1>13. Follows(n, k, m + 1, r)'
  BY <1>7, <1>8, <1>9, <1>10, <1>11, <1>12 DEF Follows
<1>14. m + 1 \in Nat
  OBVIOUS
<1> QED BY <1>4, <1>13, <1>14 DEF Linked

\* A chain of another namespace or kind than the one that changed.
LEMMA LinkedElsewhere ==
  ASSUME TypeOK, NEW n \in Namespace, NEW k \in Kind, NEW m \in Namespace, NEW l \in Kind,
         <<m, l>> # <<n, k>>, Linked(m, l),
         \A i \in Namespace, j \in Kind :
           <<i, j>> # <<n, k>> => first'[i][j] = first[i][j] /\ last'[i][j] = last[i][j],
         \A o \in Object : ~In(o, n, k) => next'[o] = next[o],
         \A i \in Namespace : i # n \/ k # "semaphore" => inactive'[i] = inactive[i],
         \A o \in Object : ~In(o, n, k) =>
           (o \in active' \/ o \in InHand' <=> o \in active \/ o \in InHand)
  PROVE  Linked(m, l)'
<1>1. \A o \in Objects(m, l) : o \in Object /\ ~In(o, n, k)
  BY ObjectsOf DEF In
<1>2. Idle(m, l)' = Idle(m, l)
  BY <1>1 DEF Idle, Objects
<1>3. l = "semaphore" => inactive'[m] = inactive[m]
  BY DEF Kind
<1> QED BY <1>1, <1>2, <1>3, LinkedKept

-----------------------------------------------------------------------------
(* The steps *)

\* Under the mutex, nobody has an object in hand.
LEMMA HandsEmpty ==
  ASSUME TypeOK, MutexFree
  PROVE  InHand = {} /\ \A t \in Thread : ~Working(t)
BY DEF MutexFree, InHand, Working

\* Inside a directive, its object is the one in hand.
LEMMA HandsOne ==
  ASSUME Handled, NEW t \in Thread, Working(t)
  PROVE  InHand = {held[t]} /\ held[t] \notin active
BY DEF Handled, InHand, Working

LEMMA ConsInit == Init => ConsInv
<1> SUFFICES ASSUME Init PROVE ConsInv
  OBVIOUS
<1>1. InHand = {} /\ Handled
  BY DEF Init, InHand, Handled, Working
<1>2. ASSUME NEW n \in Namespace, NEW k \in Kind PROVE Linked(n, k)
  <2>1. Idle(n, k) = Objects(n, k)
    BY <1>1 DEF Idle, Init
  <2>2. \A o \in Objects(n, k) : next[o] = NextNode(o)
    BY ObjectsOf DEF Init, In
  <2>3. first[n] = FirstNode(n) /\ last[n] = LastNode(n) /\ inactive[n] = Size(n)
    BY DEF Init
  <2> QED BY <2>1, <2>2, <2>3, LinkedFresh
<1> QED BY <1>1, <1>2 DEF ConsInv

\* A namespace is created or deleted: all its objects are idle afterwards.
LEMMA ConsSpaces ==
  ASSUME TypeOK, QueueInv, ConsInv, NEW n \in Child, NsCreate(n) \/ NsDelete(n)
  PROVE  ConsInv'
<1>1. n \in Namespace /\ Fresh(n) /\ UNCHANGED <<pc, held>> /\ InHand' = InHand
  BY DEF NsCreate, NsDelete, Namespace, InHand
<1>2. active' \subseteq active /\ \A o \in active : Home(o) # n => o \in active'
  BY DEF NsCreate, NsDelete
<1>3. \A o \in active' : Home(o) # n
  BY DEF NsCreate, NsDelete, QueueInv, ActiveHome
<1>4. \A o \in InHand' : Home(o) # n
  <2>1. ASSUME NEW t \in Thread, pc[t] \in {"open", "free"} PROVE Home(held[t]) # n
    <3>1. CASE NsCreate(n)
      BY <2>1, <3>1 DEF NsCreate, QueueInv, ThreadsHome
    <3>2. CASE NsDelete(n)
      BY <2>1, <3>2 DEF NsDelete, InUse
    <3> QED BY <3>1, <3>2
  <2> QED BY <1>1, <2>1 DEF InHand
<1>5. Handled'
  BY <1>1, <1>2 DEF ConsInv, Handled, Working
<1>6. ASSUME NEW m \in Namespace, NEW k \in Kind PROVE Linked(m, k)'
  <2>1. \A o \in Objects(m, k) : o \in Object /\ Home(o) = m
    BY ObjectsOf DEF In
  <2>2. CASE m = n
    <3>1. /\ first'[n] = FirstNode(n) /\ last'[n] = LastNode(n) /\ inactive'[n] = Size(n)
      BY <1>1 DEF Fresh, TypeOK, ChainTyped
    <3>2. \A o \in Objects(n, k) : next'[o] = NextNode(o)
      BY <1>1, <2>1, <2>2 DEF Fresh
    <3>3. Idle(n, k)' = Objects(n, k)
      BY <1>3, <1>4, <2>1, <2>2 DEF Idle, Objects
    <3>4. Linked(n, k)'
      BY <1>1, <3>1, <3>2, <3>3, LinkedFreshNext
    <3> QED BY <2>2, <3>4
  <2>3. CASE m # n
    <3>1. first'[m] = first[m] /\ last'[m] = last[m] /\ inactive'[m] = inactive[m]
      BY <1>1, <2>3 DEF Fresh, TypeOK, ChainTyped
    <3>2. \A o \in Objects(m, k) : next'[o] = next[o]
      BY <1>1, <2>1, <2>3 DEF Fresh
    <3>3. Idle(m, k)' = Idle(m, k)
      BY <1>1, <1>2, <2>1, <2>3 DEF Idle, Objects
    <3>4. Linked(m, k)
      BY DEF ConsInv
    <3> QED BY <3>1, <3>2, <3>3, <3>4, LinkedKept
  <2> QED BY <2>2, <2>3
<1> QED BY <1>5, <1>6 DEF ConsInv

\* Allocation takes an idle object of the thread's namespace in hand.
LEMMA ConsAllocate ==
  ASSUME TypeOK, QueueInv, ConsInv, NEW t \in Thread, Allocate(t)
  PROVE  ConsInv'
<1>0. PICK n, k, o : n = info[t][1] /\ k = info[t][2] /\ o = first[n][k]
  OBVIOUS
<1>1. n \in Namespace /\ k \in Kind /\ MutexFree /\ active' = active
  BY <1>0 DEF Allocate, TypeOK, DirectivesTyped
<1>2. InHand = {} /\ \A u \in Thread : ~Working(u)
  BY <1>1, HandsEmpty
<1>3. CASE o = End
  <2>1. UNCHANGED <<chain, inactive, held>> /\ pc' = [pc EXCEPT ![t] = "out"]
    BY <1>0, <1>3 DEF Allocate
  <2>2. InHand' = {} /\ Handled'
    BY <1>2, <2>1 DEF InHand, Working, Handled, TypeOK, DirectivesTyped
  <2>3. ASSUME NEW m \in Namespace, NEW l \in Kind PROVE Linked(m, l)'
    <3>1. Idle(m, l)' = Idle(m, l)
      BY <1>1, <1>2, <2>2 DEF Idle, Objects
    <3> QED BY <2>1, <3>1, LinkedKept DEF ConsInv, chain
  <2> QED BY <2>2, <2>3 DEF ConsInv
<1>4. CASE o # End
  <2>1. /\ pc' = [pc EXCEPT ![t] = "open"] /\ held' = [held EXCEPT ![t] = o]
        /\ TakeFirst(n, k)
    BY <1>0, <1>4 DEF Allocate
  <2>2. inactive' = IF k = "semaphore" THEN [inactive EXCEPT ![n] = @ - 1] ELSE inactive
    BY <1>0, <1>4 DEF Allocate
  <2>3. /\ first' = [first EXCEPT ![n][k] = next[o]]
        /\ last' = IF next[o] = End THEN [last EXCEPT ![n][k] = End] ELSE last
        /\ next' = next
    BY <1>0, <2>1 DEF TakeFirst
  <2>4. Linked(n, k)
    BY <1>1 DEF ConsInv
  <2>5. o \in Idle(n, k)
    <3>1. PICK m \in Nat : \E s \in [1 .. m -> Object] : Follows(n, k, m, s)
      BY <2>4 DEF Linked
    <3>2. PICK s \in [1 .. m -> Object] : Follows(n, k, m, s)
      BY <3>1
    <3>3. o = first[n][k]
      BY <1>0
    <3>4. m # 0 /\ 1 \in 1 .. m /\ o = s[1]
      BY <1>4, <3>2, <3>3 DEF Follows
    <3> QED BY <3>2, <3>4 DEF Follows
  <2>6. In(o, n, k) /\ o \notin active
    BY <1>1, <2>5, ObjectsOf DEF Idle
  <2>7. InHand' = {o} /\ Handled'
    BY <1>1, <1>2, <2>1, <2>6 DEF InHand, Working, Handled, TypeOK, DirectivesTyped
  <2>8. \A q \in Object : ~In(q, n, k) =>
          (q \in active' \/ q \in InHand' <=> q \in active \/ q \in InHand)
    BY <1>1, <1>2, <2>6, <2>7
  <2>9. ASSUME NEW m \in Namespace, NEW l \in Kind PROVE Linked(m, l)'
    <3>1. \A i \in Namespace, j \in Kind :
            <<i, j>> # <<n, k>> => first'[i][j] = first[i][j] /\ last'[i][j] = last[i][j]
      BY <1>1, <2>3 DEF TypeOK, ChainTyped
    <3>2. \A i \in Namespace : i # n \/ k # "semaphore" => inactive'[i] = inactive[i]
      BY <1>1, <2>2 DEF TypeOK, ChainTyped
    <3>3. CASE <<m, l>> # <<n, k>>
      BY <1>1, <2>3, <2>8, <3>1, <3>2, <3>3, LinkedElsewhere DEF ConsInv
    <3>4. CASE <<m, l>> = <<n, k>>
      <4>1. Idle(n, k)' = Idle(n, k) \ {o}
        BY <1>1, <1>2, <2>7 DEF Idle, Objects
      <4>2. /\ first'[n][k] = next[o]
            /\ last'[n][k] = IF next[o] = End THEN End ELSE last[n][k]
        BY <1>1, <2>3 DEF TypeOK, ChainTyped
      <4>3. k = "semaphore" => inactive'[n] = inactive[n] - 1
        BY <1>1, <2>2 DEF TypeOK, ChainTyped
      <4>4. o = first[n][k]
        BY <1>0
      <4>5. Linked(n, k)'
        BY <1>1, <1>4, <2>3, <2>4, <4>1, <4>2, <4>3, <4>4, LinkedTake
      <4> QED BY <3>4, <4>5
    <3> QED BY <3>3, <3>4
  <2> QED BY <2>7, <2>9 DEF ConsInv
<1> QED BY <1>3, <1>4

\* Open objects and those in hand change places: no chain changes.
LEMMA ConsExchange ==
  ASSUME ConsInv, UNCHANGED <<chain, inactive>>, Handled',
         active' \cup InHand' = active \cup InHand
  PROVE  ConsInv'
<1>1. ASSUME NEW n \in Namespace, NEW k \in Kind PROVE Linked(n, k)'
  <2>1. Idle(n, k)' = Idle(n, k)
    BY DEF Idle, Objects
  <2> QED BY <2>1, LinkedKept DEF ConsInv, chain
<1> QED BY <1>1 DEF ConsInv

\* A directive opens its object.
LEMMA ConsOpen ==
  ASSUME TypeOK, ConsInv, NEW t \in Thread, Open(t)
  PROVE  ConsInv'
<1>1. /\ pc' = [pc EXCEPT ![t] = "out"] /\ held' = [held EXCEPT ![t] = NoObject]
      /\ active' = active \cup {held[t]} /\ UNCHANGED <<chain, inactive>>
  BY DEF Open
<1>2. Working(t) /\ Handled
  BY DEF Open, Working, ConsInv
<1>3. InHand = {held[t]}
  BY <1>2, HandsOne
<1>4. \A u \in Thread : ~Working(u)'
  BY <1>1, <1>2 DEF Handled, Working, TypeOK, DirectivesTyped
<1>5. InHand' = {} /\ Handled'
  BY <1>4 DEF InHand, Working, Handled
<1> QED BY <1>1, <1>3, <1>5, ConsExchange

\* A directive takes an open object in hand.
LEMMA ConsClose ==
  ASSUME "stale_delete" \notin Calls, TypeOK, ConsInv, NEW t \in Thread, NEW id \in Ids,
         Close(t, id)
  PROVE  ConsInv'
<1> DEFINE o == Resolve(where[t], id)
<1>1. /\ o \in active /\ active' = active \ {o} /\ MutexFree
      /\ pc' = [pc EXCEPT ![t] = "free"] /\ held' = [held EXCEPT ![t] = o]
      /\ UNCHANGED <<chain, inactive>>
  BY DEF Close, Allowed
<1> HIDE DEF o
<1>2. InHand = {} /\ \A u \in Thread : ~Working(u)
  BY <1>1, HandsEmpty
<1>3. \A u \in Thread : (Working(u)' <=> u = t) /\ held'[t] = o
  BY <1>1, <1>2 DEF Working, TypeOK, DirectivesTyped
<1>4. InHand' = {o}
  BY <1>3 DEF InHand, Working
<1>5. Handled'
  BY <1>1, <1>3 DEF Handled
<1> QED BY <1>1, <1>2, <1>4, <1>5, ConsExchange

\* An object in hand goes to the end of the chain it came from.
LEMMA ConsFree ==
  ASSUME TypeOK, QueueInv, ConsInv, NEW t \in Thread, Free(t)
  PROVE  ConsInv'
<1>0. PICK o, n, k, old : o = held[t] /\ n = where[t] /\ k = KindOf(o) /\ old = last[n][k]
  OBVIOUS
<1>1. /\ o \in Object /\ n \in Namespace /\ k \in Kind /\ In(o, n, k) /\ active' = active
  BY <1>0, ObjectParts DEF Free, TypeOK, DirectivesTyped, QueueInv, ThreadsHome, In
<1>2. Working(t) /\ Handled
  BY DEF Free, Working, ConsInv
<1>3. InHand = {o} /\ o \notin active
  BY <1>0, <1>2, HandsOne
<1>4. pc' = [pc EXCEPT ![t] = "out"] /\ held' = [held EXCEPT ![t] = NoObject]
  BY DEF Free
<1>5. InHand' = {} /\ Handled'
  <2>1. \A u \in Thread : ~Working(u)'
    BY <1>2, <1>4 DEF Handled, Working, TypeOK, DirectivesTyped
  <2> QED BY <2>1 DEF InHand, Working, Handled
<1>6. /\ last' = [last EXCEPT ![n][k] = o]
      /\ first' = IF old = End THEN [first EXCEPT ![n][k] = o] ELSE first
      /\ next' = IF old = End THEN [next EXCEPT ![o] = End]
                 ELSE [next EXCEPT ![o] = End, ![old] = o]
  BY <1>0 DEF Free, ChainAppend
<1>7. inactive' = IF k = "semaphore" THEN [inactive EXCEPT ![n] = @ + 1] ELSE inactive
  BY <1>0 DEF Free
<1>8. old # End => In(old, n, k)
  BY <1>0, <1>1 DEF QueueInv, ChainsHome
<1>9. next \in [Object -> Object \cup {End}]
  BY DEF TypeOK, ChainTyped
<1>10. old = last[n][k]
  BY <1>0
<1>11. \A q \in Object : ~In(q, n, k) => next'[q] = next[q]
  BY <1>1, <1>6, <1>8, <1>9
<1>12. \A q \in Object : ~In(q, n, k) =>
         (q \in active' \/ q \in InHand' <=> q \in active \/ q \in InHand)
  BY <1>1, <1>3, <1>5
<1>13. ASSUME NEW m \in Namespace, NEW l \in Kind PROVE Linked(m, l)'
  <2>1. \A i \in Namespace, j \in Kind :
          <<i, j>> # <<n, k>> => first'[i][j] = first[i][j] /\ last'[i][j] = last[i][j]
    BY <1>1, <1>6 DEF TypeOK, ChainTyped
  <2>2. \A i \in Namespace : i # n \/ k # "semaphore" => inactive'[i] = inactive[i]
    BY <1>1, <1>7 DEF TypeOK, ChainTyped
  <2>3. CASE <<m, l>> # <<n, k>>
    BY <1>1, <1>11, <1>12, <2>1, <2>2, <2>3, LinkedElsewhere DEF ConsInv
  <2>4. CASE <<m, l>> = <<n, k>>
    <3>1. o \in Objects(n, k) /\ Linked(n, k)
      BY <1>1, ObjectsOf DEF ConsInv
    <3>2. Idle(n, k)' = Idle(n, k) \cup {o} /\ o \notin Idle(n, k)
      BY <1>1, <1>3, <1>5, <3>1 DEF Idle, Objects
    <3>3. /\ last'[n][k] = o
          /\ first'[n][k] = IF old = End THEN o ELSE first[n][k]
      BY <1>1, <1>6 DEF TypeOK, ChainTyped
    <3>4. k = "semaphore" => inactive'[n] = inactive[n] + 1
      BY <1>1, <1>7 DEF TypeOK, ChainTyped
    <3>5. Linked(n, k)'
      BY <1>1, <1>6, <1>9, <1>10, <3>1, <3>2, <3>3, <3>4, LinkedAppend
    <3> QED BY <2>4, <3>5
  <2> QED BY <2>3, <2>4
<1> QED BY <1>5, <1>13 DEF ConsInv

\* Every step conserves the objects.
LEMMA ConsStep ==
  ASSUME "stale_delete" \notin Calls, TypeOK, QueueInv, ConsInv, [Next]_vars
  PROVE  ConsInv'
<1>1. ASSUME NEW n \in Child, NsCreate(n) \/ NsDelete(n) PROVE ConsInv'
  BY <1>1, ConsSpaces
<1>2. ASSUME UNCHANGED <<chain, inactive, held, active>>,
             \A t \in Thread : Working(t)' <=> Working(t)
      PROVE  ConsInv'
  <2>1. InHand' = InHand /\ Handled'
    BY <1>2 DEF ConsInv, InHand, Handled, Working
  <2> QED BY <1>2, <2>1, ConsExchange
<1>3. ASSUME NEW t \in Thread, NEW n \in Namespace, Move(t, n) PROVE ConsInv'
  BY <1>2, <1>3 DEF Move, Working
<1>4. ASSUME NEW t \in Thread, NEW k \in Kind, Fetch(t, k) PROVE ConsInv'
  <2>1. \A u \in Thread : Working(u)' <=> Working(u)
    BY <1>4 DEF Fetch, Working, TypeOK, DirectivesTyped
  <2> QED BY <1>2, <1>4, <2>1 DEF Fetch
<1>5. ASSUME NEW t \in Thread, OpenFails(t) PROVE ConsInv'
  <2>1. \A u \in Thread : Working(u)' <=> Working(u)
    BY <1>5 DEF OpenFails, Working, TypeOK, DirectivesTyped
  <2> QED BY <1>2, <1>5, <2>1 DEF OpenFails
<1>6. ASSUME NEW t \in Thread, Allocate(t) \/ Open(t) \/ Free(t) PROVE ConsInv'
  BY <1>6, ConsAllocate, ConsOpen, ConsFree
<1>7. ASSUME NEW t \in Thread, NEW id \in Ids, Close(t, id) PROVE ConsInv'
  BY <1>7, ConsClose
<1>8. CASE UNCHANGED vars
  BY <1>2, <1>8 DEF vars, Working
<1> QED
  BY <1>1, <1>3, <1>4, <1>5, <1>6, <1>7, <1>8 DEF Next

-----------------------------------------------------------------------------
(* What the walk over a chain meets *)

\* A sequence without repetition is no longer than its namespace has objects.
LEMMA ChainFits ==
  ASSUME NEW n \in Namespace, NEW k \in Kind, NEW m \in Nat, NEW s \in [1 .. m -> Object],
         Follows(n, k, m, s)
  PROVE  m <= Size(n) /\ IsFiniteSet(Idle(n, k)) /\ Cardinality(Idle(n, k)) = m
<1>1. Size(n) \in Nat
  BY SizeType
<1> DEFINE f == [i \in 1 .. m |-> IndexOf(s[i])]
<1>2. \A i \in 1 .. m : In(s[i], n, k) /\ f[i] \in 1 .. Size(n)
  <2>1. \A i \in 1 .. m : In(s[i], n, k)
    BY ObjectsOf DEF Follows, Idle
  <2> QED BY <2>1, ObjectParts DEF In
<1>3. \A i, j \in 1 .. m : f[i] = f[j] => i = j
  <2>1. ASSUME NEW i \in 1 .. m, NEW j \in 1 .. m, f[i] = f[j] PROVE s[i] = s[j]
    <3>1. IndexOf(s[i]) = IndexOf(s[j])
      BY <2>1
    <3> QED BY <1>2, <3>1, ObjectParts DEF In
  <2> QED BY <2>1 DEF Follows
<1>4. f \in Injection(1 .. m, 1 .. Size(n))
  BY <1>2, <1>3 DEF Injection, IsInjective
<1>5. /\ IsFiniteSet(1 .. m) /\ Cardinality(1 .. m) = m
      /\ IsFiniteSet(1 .. Size(n)) /\ Cardinality(1 .. Size(n)) = Size(n)
  <2>1. ASSUME NEW j \in Nat PROVE IsFiniteSet(1 .. j) /\ Cardinality(1 .. j) = j
    <3>1. 1 \in Int /\ j \in Int
      OBVIOUS
    <3>2. IsFiniteSet(1 .. j) /\ Cardinality(1 .. j) = IF 1 > j THEN 0 ELSE j - 1 + 1
      BY <3>1, FS_Interval, Zenon
    <3> QED BY <3>2
  <2> QED BY <1>1, <2>1
<1>6. m <= Size(n)
  <2> HIDE DEF f
  <2>1. Cardinality(1 .. m) <= Cardinality(1 .. Size(n))
    BY <1>4, <1>5, FS_Injection
  <2> QED BY <1>5, <2>1
<1>7. s \in Bijection(1 .. m, Idle(n, k))
  <2>1. s \in [1 .. m -> Idle(n, k)]
    BY DEF Follows
  <2>2. s \in Injection(1 .. m, Idle(n, k))
    BY <2>1 DEF Follows, Injection, IsInjective
  <2>3. s \in Surjection(1 .. m, Idle(n, k))
    BY <2>1 DEF Follows, Surjection
  <2> QED BY <2>2, <2>3 DEF Bijection
<1>8. ExistsBijection(1 .. m, Idle(n, k))
  BY <1>7 DEF ExistsBijection
<1> QED BY <1>5, <1>6, <1>8, FS_Bijection

\* The walk meets the sequence and then the end.
LEMMA WalkFollows ==
  ASSUME NEW n \in Namespace, NEW k \in Kind, NEW m \in Nat, NEW s \in [1 .. m -> Object],
         Follows(n, k, m, s), m <= Size(n)
  PROVE  \A j \in 1 .. (Size(n) + 1) : Walk(n, k)[j] = IF j <= m THEN s[j] ELSE End
<1> DEFINE D == 1 .. (Size(n) + 1)
           Rec(w) == [j \in D |-> IF j = 1 THEN first[n][k]
                                  ELSE IF w[j - 1] = End THEN End ELSE next[w[j - 1]]]
           g == [j \in D |-> IF j <= m THEN s[j] ELSE End]
<1>1. Size(n) \in Nat /\ 1 \in D
  BY SizeType
<1>2. \A i \in 1 .. m : s[i] # End
  BY MarkAssumption
<1>3. g[1] = first[n][k]
  <2>1. CASE m = 0
    BY <1>1, <2>1 DEF Follows
  <2>2. CASE m # 0
    BY <1>1, <2>2 DEF Follows
  <2> QED BY <2>1, <2>2
<1>4. ASSUME NEW j \in D, j # 1
      PROVE  /\ j - 1 \in D
             /\ g[j] = IF g[j - 1] = End THEN End ELSE next[g[j - 1]]
  <2>1. j - 1 \in D
    BY <1>1, <1>4
  <2>2. CASE j - 1 <= m
    <3>1. j - 1 \in 1 .. m /\ g[j - 1] = s[j - 1] /\ s[j - 1] # End
      BY <1>2, <1>4, <2>1, <2>2
    <3>2. next[s[j - 1]] = IF j - 1 = m THEN End ELSE s[(j - 1) + 1]
      BY <3>1 DEF Follows
    <3>3. (j - 1) + 1 = j /\ (j - 1 = m <=> ~(j <= m))
      BY <2>2
    <3> QED BY <2>1, <3>1, <3>2, <3>3
  <2>3. CASE ~(j - 1 <= m)
    <3>1. ~(j <= m)
      BY <2>3
    <3>2. g[j - 1] = End /\ g[j] = End
      BY <2>1, <2>3, <3>1
    <3> QED BY <2>1, <3>2
  <2> QED BY <2>2, <2>3
<1>5. g = Rec(g)
  <2>1. \A j \in D : g[j] = IF j = 1 THEN first[n][k]
                            ELSE IF g[j - 1] = End THEN End ELSE next[g[j - 1]]
    BY <1>3, <1>4
  <2>2. g = [j \in D |-> g[j]]
    OBVIOUS
  <2> HIDE DEF g
  <2> QED BY <2>1, <2>2
<1> DEFINE w == CHOOSE v : v = Rec(v)
<1>6. Walk(n, k) = w
  BY DEF Walk
<1>7. w = Rec(w)
  <2> HIDE DEF g
  <2> QED BY <1>5
<1> HIDE DEF w
<1>8. \A j \in D : w[j] = IF j = 1 THEN first[n][k]
                          ELSE IF w[j - 1] = End THEN End ELSE next[w[j - 1]]
  BY <1>7
<1> HIDE DEF g, Rec
<1> DEFINE B == {i \in Nat : i = 0 \/ w[i] = g[i]}
<1>9. 0 \in B
  OBVIOUS
<1>10. ASSUME NEW i \in Nat, i < Size(n) + 1, i \in B PROVE i + 1 \in B
  <2>1. i + 1 \in D /\ i + 1 \in Nat /\ (i + 1) - 1 = i
    BY <1>1, <1>10
  <2>2. CASE i = 0
    <3>1. w[i + 1] = first[n][k]
      BY <1>8, <2>1, <2>2
    <3> QED BY <1>3, <2>1, <2>2, <3>1
  <2>3. CASE i # 0
    <3>1. i + 1 # 1 /\ w[i] = g[i]
      BY <1>10, <2>3
    <3>2. w[i + 1] = IF w[i] = End THEN End ELSE next[w[i]]
      BY <1>8, <2>1, <3>1
    <3>3. g[i + 1] = IF g[i] = End THEN End ELSE next[g[i]]
      BY <1>4, <2>1, <3>1
    <3> QED BY <2>1, <3>1, <3>2, <3>3
  <2> QED BY <2>2, <2>3
<1>11. \A i \in 0 .. (Size(n) + 1) : i \in B
  <2>1. Size(n) + 1 \in Nat
    BY <1>1
  <2> HIDE DEF B
  <2> QED BY <1>9, <1>10, <2>1, NumberInduction
<1>12. \A j \in D : w[j] = g[j]
  <2>1. \A j \in D : j \in 0 .. (Size(n) + 1) /\ j # 0
    BY <1>1
  <2> QED BY <1>11, <2>1
<1> QED BY <1>6, <1>12 DEF g

\* The invariant says what Conserved says of the walk.
LEMMA ConservedFollows ==
  ASSUME TypeOK, ConsInv
  PROVE  Conserved
<1> SUFFICES ASSUME NEW n \in live, NEW k \in Kind
             PROVE  LET idle == OnChain(n, k)
                        busy == {o \in active \cup InHand : Home(o) = n /\ KindOf(o) = k}
                    IN /\ active \cap InHand = {}
                       /\ idle \cap busy = {}
                       /\ idle \cup busy = {n} \X {k} \X (1 .. Size(n))
                       /\ Walk(n, k)[Size(n) + 1] = End
                       /\ last[n][k] = IF idle = {} THEN End
                                       ELSE Walk(n, k)[Cardinality(idle)]
                       /\ k = "semaphore" => inactive[n] = Cardinality(idle)
  BY DEF Conserved
<1> DEFINE idle == OnChain(n, k)
           busy == {o \in active \cup InHand : Home(o) = n /\ KindOf(o) = k}
<1>1. n \in Namespace /\ Size(n) \in Nat /\ Size(n) + 1 \in 1 .. (Size(n) + 1)
  BY SizeType DEF TypeOK, SpacesTyped
<1>2. active \cap InHand = {}
  BY DEF ConsInv, Handled, InHand, Working
<1>3. PICK m \in Nat : \E s \in [1 .. m -> Object] : Follows(n, k, m, s)
  BY <1>1 DEF ConsInv, Linked
<1>4. PICK s \in [1 .. m -> Object] : Follows(n, k, m, s)
  BY <1>3
<1>5. m <= Size(n) /\ Cardinality(Idle(n, k)) = m
  BY <1>1, <1>4, ChainFits
<1>6. \A j \in 1 .. (Size(n) + 1) : Walk(n, k)[j] = IF j <= m THEN s[j] ELSE End
  BY <1>1, <1>4, <1>5, WalkFollows
<1>7. \A i \in 1 .. m : i \in 1 .. (Size(n) + 1) /\ i <= m /\ s[i] # End
  BY <1>1, <1>5, MarkAssumption
<1>8. idle = Idle(n, k)
  <2>1. \A o \in Idle(n, k) : o \in idle
    BY <1>4, <1>6, <1>7 DEF Follows, OnChain
  <2>2. ASSUME NEW o \in idle PROVE o \in Idle(n, k)
    <3>1. PICK j \in 1 .. (Size(n) + 1) : o = Walk(n, k)[j] /\ o # End
      BY DEF OnChain
    <3>2. j <= m /\ j \in 1 .. m /\ o = s[j]
      BY <1>6, <3>1
    <3> QED BY <1>4, <3>2 DEF Follows
  <2> QED BY <2>1, <2>2
<1>9. active \cup InHand \subseteq Object
  BY DEF TypeOK, DirectivesTyped, InHand
<1>10. idle \cap busy = {} /\ idle \cup busy = Objects(n, k)
  <2>1. \A o \in Objects(n, k) : In(o, n, k)
    BY <1>1, ObjectsOf
  <2>2. \A o \in busy : o \in Objects(n, k)
    BY <1>1, <1>9, ObjectsOf DEF In
  <2>3. \A o \in Objects(n, k) : o \in Idle(n, k) \/ o \in busy
    BY <2>1 DEF Idle, In
  <2>4. Idle(n, k) \subseteq Objects(n, k) /\ Idle(n, k) \cap busy = {}
    BY DEF Idle
  <2> HIDE DEF idle, busy
  <2> QED BY <1>8, <2>2, <2>3, <2>4
<1>11. Walk(n, k)[Size(n) + 1] = End
  <2>1. ~(Size(n) + 1 <= m)
    BY <1>1, <1>5
  <2> QED BY <1>1, <1>6, <2>1
<1>12. last[n][k] = IF idle = {} THEN End ELSE Walk(n, k)[Cardinality(idle)]
  <2>1. CASE m = 0
    <3>1. Idle(n, k) = {}
      BY <1>4, <2>1 DEF Follows
    <3> QED BY <1>4, <1>8, <2>1, <3>1 DEF Follows
  <2>2. CASE m # 0
    <3>1. m \in 1 .. m /\ s[m] \in Idle(n, k) /\ last[n][k] = s[m]
      BY <1>4, <2>2 DEF Follows
    <3>2. Walk(n, k)[m] = s[m]
      BY <1>6, <1>7, <3>1
    <3> QED BY <1>5, <1>8, <3>1, <3>2
  <2> QED BY <2>1, <2>2
<1>13. k = "semaphore" => inactive[n] = Cardinality(idle)
  BY <1>4, <1>5, <1>8 DEF Follows
<1> QED BY <1>2, <1>10, <1>11, <1>12, <1>13 DEF Objects

\* Conserved for every instance: as long as nobody deletes an identifier twice or
\* is moved inside a directive, every control block of a namespace is open, in
\* the hands of one directive or once on the inactive chain, and the count of
\* inactive semaphores is exact.
THEOREM IpcConserved ==
  ASSUME "move_inside" \notin Calls, "stale_delete" \notin Calls
  PROVE  Spec => []Conserved
<1>1. Init => TypeOK /\ QueueInv /\ ConsInv
  BY TypeInit, QueueInit, ConsInit
<1>2. TypeOK /\ QueueInv /\ ConsInv /\ [Next]_vars => (TypeOK /\ QueueInv /\ ConsInv)'
  BY TypeStep, QueueStep, ConsStep
<1>3. TypeOK /\ QueueInv /\ ConsInv => Conserved
  BY ConservedFollows
<1> QED
  BY <1>1, <1>2, <1>3, PTL DEF Spec
=============================================================================
