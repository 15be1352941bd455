------------------------- MODULE MemoryCgroupProofs -------------------------
(***************************************************************************)
(* Theorems about MemoryCgroup, for every finite set of heap blocks, every *)
(* bound on the size of a request and all limits.                          *)
(***************************************************************************)
EXTENDS MemoryCgroup, FoldTheorems

\* Why a charge is credited exactly once: the flag that stops a credit is only
\* down inside the _Heap_Free() that undoes an allocation, a free block has no
\* charge, and the block of an allocation under way has one.
Flags ==
  /\ chargeNext = TRUE
  /\ \A b \in Block : charged[b] => b \in used
  /\ pending # NoBlock => charged[pending]
  /\ phase = "idle" <=> pending = NoBlock

\* Why the subtraction does not wrap: it was looked at, and no "set" came since.
Covered == phase = "charge" /\ race = "none" => size[pending] <= avail

\* The inductive invariant.
MemInv == TypeOK /\ Flags /\ Covered /\ Conserved

-----------------------------------------------------------------------------
(* Charges *)

Charges == Total(size, Granted)

\* The charges can be summed.
LEMMA ChargesSummable ==
  ASSUME TypeOK
  PROVE  Granted \subseteq Block /\ Summable(size, Granted) /\ Charges \in Nat
<1>1. Granted \subseteq Block
  BY DEF Granted
<1>2. IsFiniteSet(Granted)
  BY <1>1, BlockAssumption, FS_Subset
<1>3. Summable(size, Granted)
  BY <1>1, <1>2, SizeAssumption DEF TypeOK, Summable
<1> QED BY <1>1, <1>3, TotalNat DEF Charges

\* A step that charges no other block and takes no charge away.
LEMMA ChargesSame ==
  ASSUME TypeOK, Granted' = Granted, \A b \in Granted : size'[b] = size[b]
  PROVE  Charges' = Charges
BY ChargesSummable, TotalSame DEF Charges

\* A block is charged.
LEMMA ChargesTaken ==
  ASSUME TypeOK, NEW b, b \notin Granted, Granted' = Granted \cup {b},
         size'[b] \in Nat, \A c \in Granted : size'[c] = size[c]
  PROVE  Charges' = Charges + size'[b]
<1>1. Summable(size, Granted)
  BY ChargesSummable
<1>2. Total(size', Granted) = Total(size, Granted) /\ Summable(size', Granted)
  BY <1>1, TotalSame
<1>3. Total(size', Granted \cup {b}) = Total(size', Granted) + size'[b]
  BY <1>2, TotalAdd
<1> QED BY <1>2, <1>3 DEF Charges

\* The charge of a block is credited.
LEMMA ChargesCredited ==
  ASSUME TypeOK, NEW b \in Granted, Granted' = Granted \ {b},
         \A c \in Granted \ {b} : size'[c] = size[c]
  PROVE  Charges' = Charges - size[b] /\ size[b] <= Charges
<1>1. Summable(size, Granted)
  BY ChargesSummable
<1>2. /\ Summable(size, Granted \ {b}) /\ size[b] <= Total(size, Granted)
      /\ Total(size, Granted \ {b}) = Total(size, Granted) - size[b]
  BY <1>1, TotalRemove
<1>3. Total(size', Granted \ {b}) = Total(size, Granted \ {b})
  BY <1>2, TotalSame
<1> QED BY <1>2, <1>3 DEF Charges

\* What is taken from one side goes to the other.
LEMMA Balance ==
  ASSUME NEW a \in Int, NEW c \in Nat, NEW n \in Nat, NEW l \in Nat, a + c = l
  PROVE  /\ (a - n) + (c + n) = l
         /\ (a + n) + (c - n) = l
OBVIOUS

-----------------------------------------------------------------------------
(* The steps *)

\* Creating the group and memctl "set" start a new account.
LEMMA LimitStep ==
  ASSUME MemInv, NEW l \in Limits, Create(l) \/ SetLimit(l)
  PROVE  MemInv'
<1>1. TypeOK /\ Flags /\ l \in Nat
  BY SizeAssumption DEF MemInv
<1>2. /\ limit' = l /\ avail' = l /\ forgiven' = Charges
      /\ UNCHANGED <<callback, heap, pending, phase>>
      /\ life' \in {life, "live"} /\ chargeNext' = TRUE
      /\ race' = IF phase = "charge" THEN "below" ELSE "none"
  BY <1>1 DEF Create, SetLimit, Account, Charges, Flags, TypeOK, Unlocked
<1>3. TypeOK'
  <2>1. Charges \in Nat
    BY <1>1, ChargesSummable
  <2>2. limit' \in Nat /\ avail' \in Int /\ avail' >= 0 /\ forgiven' \in Nat /\ race' \in Race
    BY <1>1, <1>2, <2>1 DEF Race
  <2> QED BY <1>1, <1>2, <2>2 DEF TypeOK, heap
<1>4. Flags'
  BY <1>1, <1>2 DEF Flags, heap
<1>5. Covered'
  BY <1>2 DEF Covered
<1>6. Charges' = Charges
  BY <1>2 DEF Charges, Granted, heap
<1>7. Conserved'
  BY <1>2, <1>6 DEF Conserved, Charges
<1> QED BY <1>3, <1>4, <1>5, <1>7 DEF MemInv

\* A "set" that is overwritten changes only the limit the account is held to.
LEMMA SetLostStep ==
  ASSUME MemInv, NEW l \in Limits, SetLimitLost(l)
  PROVE  MemInv'
<1>1. TypeOK /\ Flags /\ l \in Nat
  BY SizeAssumption DEF MemInv
<1>2. /\ limit' = l /\ race' = "lost"
      /\ UNCHANGED <<life, avail, forgiven, chargeNext, callback, used, size,
                     charged, pending, phase>>
  BY DEF SetLimitLost, heap
<1>3. TypeOK'
  BY <1>1, <1>2 DEF TypeOK, Race
<1>4. Flags'
  BY <1>1, <1>2 DEF Flags
<1> QED BY <1>2, <1>3, <1>4 DEF MemInv, Covered, Conserved

\* Steps that leave the account alone.
LEMMA QuietStep ==
  ASSUME MemInv, SetShrinkCallback \/ Delete \/ Shrunk \/ UNCHANGED vars
  PROVE  MemInv'
<1>1. /\ UNCHANGED <<limit, avail, chargeNext, forgiven, race, used, size, charged, pending>>
      /\ life' \in {life, "deleted"} /\ callback' \in {callback, TRUE}
      /\ phase' = phase \/ (phase = "shrink" /\ phase' = "decide")
  BY DEF SetShrinkCallback, Delete, Shrunk, group, account, heap, vars
<1>2. TypeOK'
  BY <1>1 DEF MemInv, TypeOK, Phase
<1>3. Flags'
  BY <1>1 DEF MemInv, Flags
<1>4. Covered'
  BY <1>1 DEF MemInv, Covered
<1>5. Granted' = Granted /\ size' = size
  BY <1>1 DEF Granted
<1>6. Conserved'
  BY <1>1, <1>5 DEF MemInv, Conserved
<1> QED BY <1>2, <1>3, <1>4, <1>6 DEF MemInv

\* The first look takes no charge yet.
LEMMA AllocateStep ==
  ASSUME MemInv, NEW b \in Block, NEW n \in Size, NEW member \in BOOLEAN,
         Allocate(b, n, member)
  PROVE  MemInv'
<1>1. /\ TypeOK /\ Flags /\ phase = "idle" /\ pending = NoBlock /\ b \notin used
      /\ n \in Nat /\ n \in 0 .. MaxSize /\ b # NoBlock
      /\ used' = used \cup {b}
      /\ size' = [size EXCEPT ![b] = n] /\ charged' = [charged EXCEPT ![b] = member]
      /\ pending' = IF member THEN b ELSE NoBlock
      /\ UNCHANGED <<life, limit, avail, forgiven, race, chargeNext, callback>>
  BY BlockAssumption, SizeAssumption
     DEF MemInv, Flags, Allocate, Unlocked, Size, group, account
<1>2. /\ phase' \in Phase
      /\ phase' = "idle" <=> ~member
      /\ phase' = "charge" => member /\ ~Exceeds(n)
  BY DEF Allocate, Phase
<1>3. avail \in Int /\ (race = "none" => avail >= 0)
  BY <1>1 DEF TypeOK
<1>4. TypeOK'
  BY <1>1, <1>2, <1>3 DEF TypeOK
<1>5. ~charged[b] /\ b \notin Granted
  BY <1>1 DEF Flags, Granted, TypeOK
<1>6. Flags'
  BY <1>1, <1>2, <1>5 DEF Flags, TypeOK
<1>7. Covered'
  <2> SUFFICES ASSUME phase' = "charge", race' = "none" PROVE size'[pending'] <= avail'
    BY DEF Covered
  <2>1. ~Exceeds(n) /\ avail >= 0 /\ pending' = b
    BY <1>1, <1>2, <1>3
  <2>2. n <= avail
    BY <1>1, <1>3, <2>1 DEF Exceeds
  <2> QED BY <1>1, <2>1, <2>2 DEF TypeOK
<1>8. Granted \subseteq Block /\ \A c \in Granted : size'[c] = size[c]
  BY <1>1, <1>5 DEF Granted, TypeOK
<1>9. Granted' = Granted
  <2>1. ASSUME NEW c \in Block PROVE c \in Granted' <=> c \in Granted
    <3>1. CASE c = b
      <4>1. b \notin Granted'
        BY <1>1 DEF Granted, TypeOK
      <4> QED BY <1>5, <3>1, <4>1
    <3>2. CASE c # b
      <4>1. charged'[c] = charged[c] /\ c # pending /\ c # pending'
        BY <1>1, <3>2, BlockAssumption DEF TypeOK
      <4> QED BY <4>1 DEF Granted
    <3> QED BY <3>1, <3>2
  <2>2. Granted \subseteq Block /\ Granted' \subseteq Block
    BY DEF Granted
  <2> QED BY <2>1, <2>2
<1>10. Charges' = Charges
  BY <1>1, <1>8, <1>9, ChargesSame
<1>11. Conserved'
  BY <1>1, <1>10 DEF MemInv, Conserved, Charges
<1> QED BY <1>4, <1>6, <1>7, <1>11 DEF MemInv

\* The second look goes on to the charge or undoes the allocation without a credit.
LEMMA DecideStep ==
  ASSUME MemInv, Decide
  PROVE  MemInv'
<1> DEFINE b == pending
<1>1. /\ TypeOK /\ Flags /\ b \in Block /\ charged[b] /\ b # NoBlock
      /\ size[b] \in Nat /\ avail \in Int /\ (race = "none" => avail >= 0)
      /\ UNCHANGED <<life, limit, forgiven, race, callback>>
  BY SizeAssumption DEF MemInv, Decide, TypeOK, Flags
<1>2. CASE Exceeds(size[b])
  <2>1. /\ used' = used \ {b} /\ charged' = [charged EXCEPT ![b] = FALSE]
        /\ size' = [size EXCEPT ![b] = 0]
        /\ avail' = avail /\ chargeNext' = TRUE /\ pending' = NoBlock /\ phase' = "idle"
    BY <1>1, <1>2 DEF Decide, HeapFree
  <2>2. TypeOK'
    BY <1>1, <2>1, SizeAssumption DEF TypeOK, Phase
  <2>3. Flags'
    BY <1>1, <2>1 DEF Flags, TypeOK
  <2>4. Granted' = Granted /\ \A c \in Granted : size'[c] = size[c]
    BY <1>1, <2>1, BlockAssumption DEF Granted, TypeOK
  <2>5. Charges' = Charges
    BY <1>1, <2>4, ChargesSame
  <2>6. Conserved'
    BY <1>1, <2>1, <2>5 DEF MemInv, Conserved, Charges
  <2>7. Covered'
    BY <2>1 DEF Covered
  <2> QED BY <2>2, <2>3, <2>6, <2>7 DEF MemInv
<1>3. CASE ~Exceeds(size[b])
  <2>1. /\ UNCHANGED <<avail, used, size, charged, chargeNext, pending>>
        /\ phase' = "charge"
    BY <1>3 DEF Decide, heap
  <2>2. TypeOK'
    BY <1>1, <2>1 DEF TypeOK, Phase
  <2>3. Flags'
    BY <1>1, <2>1 DEF Flags
  <2>4. Covered'
    <3>1. race = "none" => size[b] <= avail
      BY <1>1, <1>3 DEF Exceeds
    <3> QED BY <1>1, <2>1, <3>1 DEF Covered
  <2>5. Granted' = Granted
    BY <2>1 DEF Granted
  <2>6. Conserved'
    BY <1>1, <2>1, <2>5 DEF MemInv, Conserved
  <2> QED BY <2>2, <2>3, <2>4, <2>6 DEF MemInv
<1> QED BY <1>2, <1>3

\* The subtraction moves the size from the quota to the charges.
LEMMA ChargeStep ==
  ASSUME MemInv, Charge
  PROVE  MemInv'
<1> DEFINE b == pending
<1>1. /\ TypeOK /\ Flags /\ b \in Block /\ charged[b] /\ b # NoBlock
      /\ size[b] \in Nat /\ avail \in Int
      /\ (race = "none" => avail >= 0) /\ (race = "none" => size[b] <= avail)
      /\ avail' = avail - size[b] /\ pending' = NoBlock /\ phase' = "idle"
      /\ UNCHANGED <<life, limit, forgiven, race, callback, used, size, charged, chargeNext>>
  BY SizeAssumption DEF MemInv, Charge, TypeOK, Flags, Covered, heap
<1>2. avail' \in Int /\ (race = "none" => avail' >= 0)
  BY <1>1
<1>3. TypeOK'
  BY <1>1, <1>2 DEF TypeOK, Phase
<1>4. Flags'
  BY <1>1 DEF Flags
<1>5. Covered'
  BY <1>1 DEF Covered
<1>6. Granted' = Granted \cup {b} /\ b \notin Granted
  BY <1>1, BlockAssumption DEF Granted
<1>7. Charges' = Charges + size[b]
  <2> HIDE DEF b
  <2>1. size'[b] \in Nat /\ size'[b] = size[b] /\ \A c \in Granted : size'[c] = size[c]
    BY <1>1
  <2>2. \A x : x = b => x \notin Granted /\ Granted' = Granted \cup {x}
                      /\ size'[x] \in Nat /\ size'[x] = size[x]
    BY <1>6, <2>1
  <2> QED BY <1>1, <2>1, <2>2, ChargesTaken
<1>8. Charges \in Nat /\ limit + forgiven \in Nat
  BY <1>1, ChargesSummable DEF TypeOK
<1>9. ASSUME race # "lost" PROVE avail' + Charges' = limit + forgiven
  <2>1. avail + Charges = limit + forgiven
    BY <1>9 DEF MemInv, Conserved, Charges
  <2> HIDE DEF b
  <2>2. (avail - size[b]) + (Charges + size[b]) = limit + forgiven
    BY <1>1, <1>8, <2>1, Balance
  <2> QED BY <1>1, <1>7, <2>2
<1>10. Conserved'
  BY <1>1, <1>9 DEF Conserved, Charges
<1> QED BY <1>3, <1>4, <1>5, <1>10 DEF MemInv

\* free() credits what was charged, also from the shrink callback; a "set" that
\* the credit overwrites changes only the limit the account is held to.
LEMMA FreeStep ==
  ASSUME MemInv, NEW b \in Block, Free(b) \/ \E l \in Limits : FreeOverSet(b, l)
  PROVE  MemInv'
<1>1. /\ TypeOK /\ Flags /\ b # pending /\ b \in used /\ chargeNext = TRUE
      /\ phase # "charge" /\ size[b] \in Nat /\ avail \in Int
      /\ HeapFree(b, TRUE)
      /\ UNCHANGED <<life, forgiven, callback, pending, phase>>
      /\ UNCHANGED <<limit, race>> \/ (limit' \in Nat /\ race' = "lost")
  <2>1. TypeOK /\ Flags /\ chargeNext = TRUE /\ b # pending /\ b \in used /\ phase # "charge"
    BY DEF MemInv, Flags, Free, FreeOverSet
  <2>2. size[b] \in Nat /\ avail \in Int
    BY <2>1, SizeAssumption DEF TypeOK
  <2>3. HeapFree(b, TRUE) /\ UNCHANGED <<life, forgiven, callback, pending, phase>>
    BY <2>1, Zenon DEF Free, FreeOverSet
  <2>4. UNCHANGED <<limit, race>> \/ (limit' \in Nat /\ race' = "lost")
    BY SizeAssumption DEF Free, FreeOverSet
  <2> QED BY <2>1, <2>2, <2>3, <2>4
<1>2. /\ used' = used \ {b} /\ charged' = [charged EXCEPT ![b] = FALSE]
      /\ size' = [size EXCEPT ![b] = IF charged[b] THEN 0 ELSE @]
      /\ avail' = IF charged[b] THEN avail + size[b] ELSE avail
      /\ chargeNext' = TRUE
  BY <1>1 DEF HeapFree
<1>3. avail' \in Int /\ (race' = "none" => avail' >= 0)
  <2>1. race' = "none" => avail >= 0
    BY <1>1 DEF TypeOK
  <2> QED BY <1>1, <1>2, <2>1
<1>4. TypeOK'
  BY <1>1, <1>2, <1>3, SizeAssumption DEF TypeOK, Race
<1>5. Flags'
  BY <1>1, <1>2 DEF Flags, TypeOK
<1>6. Covered'
  BY <1>1 DEF Covered
<1>7. CASE charged[b]
  <2>1. /\ b \in Granted /\ Granted' = Granted \ {b}
        /\ \A c \in Granted \ {b} : size'[c] = size[c]
    BY <1>1, <1>2, <1>7 DEF Granted, TypeOK
  <2>2. Charges' = Charges - size[b]
    BY <1>1, <2>1, ChargesCredited
  <2>3. Charges \in Nat /\ limit + forgiven \in Nat
    BY <1>1, ChargesSummable DEF TypeOK
  <2>4. ASSUME race' # "lost" PROVE avail' + Charges' = limit' + forgiven'
    <3>1. avail + Charges = limit + forgiven
      BY <1>1, <2>4 DEF MemInv, Conserved, Charges
    <3>2. (avail + size[b]) + (Charges - size[b]) = limit + forgiven
      BY <1>1, <2>3, <3>1, Balance
    <3> QED BY <1>1, <1>2, <1>7, <2>2, <2>4, <3>2
  <2>5. Conserved'
    BY <2>4 DEF Conserved, Charges
  <2> QED BY <1>4, <1>5, <1>6, <2>5 DEF MemInv
<1>8. CASE ~charged[b]
  <2>1. Granted' = Granted /\ \A c \in Granted : size'[c] = size[c]
    BY <1>1, <1>2, <1>8 DEF Granted, TypeOK
  <2>2. Charges' = Charges
    BY <1>1, <2>1, ChargesSame
  <2>3. Conserved'
    BY <1>1, <1>2, <1>8, <2>2 DEF MemInv, Conserved, Charges
  <2> QED BY <1>4, <1>5, <1>6, <2>3 DEF MemInv
<1> QED BY <1>7, <1>8

-----------------------------------------------------------------------------
(* Theorems *)

\* The invariant holds at the start.
LEMMA MemInvInit == Init => MemInv
<1> SUFFICES ASSUME Init PROVE MemInv
  OBVIOUS
<1>1. TypeOK
  <2>1. {chargeNext, callback} \subseteq BOOLEAN /\ race \in Race /\ phase \in Phase
    BY DEF Init, Race, Phase
  <2>2. 0 \in 0 .. MaxSize
    BY SizeAssumption
  <2>3. size \in [Block -> 0 .. MaxSize] /\ charged \in [Block -> BOOLEAN]
    BY <2>2 DEF Init
  <2> QED BY <2>1, <2>3 DEF Init, TypeOK
<1>2. Flags /\ Covered
  BY DEF Init, Flags, Covered
<1>3. Conserved
  <2>1. Granted = {}
    BY DEF Init, Granted
  <2>2. Summable(size, {})
    BY FS_EmptySet DEF Summable
  <2>3. Total(size, {}) = 0
    BY <2>2, TotalIsCount, CountEmpty
  <2> QED BY <2>1, <2>3 DEF Init, Conserved
<1> QED BY <1>1, <1>2, <1>3 DEF MemInv

\* Every step keeps it.
LEMMA MemInvStep == MemInv /\ [Next]_vars => MemInv'
BY LimitStep, SetLostStep, QuietStep, AllocateStep, DecideStep, ChargeStep, FreeStep DEF Next

\* mem_quota_available wraps below zero in no way but one, a memctl "set"
\* between an allocation's look and its charge, and the group's other variables
\* keep their types, for any blocks, sizes and limits.
THEOREM MemTypeCorrect == Spec => []TypeOK
<1>1. MemInv => TypeOK
  BY DEF MemInv
<1> QED BY <1>1, MemInvInit, MemInvStep, PTL DEF Spec

\* What is left and what the blocks were charged add up to the limit and the
\* forgiven charges: no sequence of allocations, undone ones, frees inside the
\* shrink callback and changes of the limit loses or doubles a charge, unless a
\* change of the limit is itself overwritten.
THEOREM MemConserved == Spec => []Conserved
<1>1. MemInv => Conserved
  BY DEF MemInv
<1> QED BY <1>1, MemInvInit, MemInvStep, PTL DEF Spec
=============================================================================
