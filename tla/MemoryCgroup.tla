---------------------------- MODULE MemoryCgroup ----------------------------
(***************************************************************************)
(* The memory limit of a cgroup: the hooks in _Heap_Allocate() and         *)
(* _Heap_Free() (heapallocate.c, heapfree.c), the memory part of           *)
(* _CORE_cgroup_Initialize(), the shrink callback and memctl.              *)
(*                                                                         *)
(* A block remembers the cgroup it was charged to and the size that was    *)
(* charged.  An allocation beyond the limit calls the group's shrink       *)
(* callback, and when that did not help is undone by a _Heap_Free() that a *)
(* flag in the group tells not to credit.                                  *)
(*                                                                         *)
(* A heap operation, and the creation and deletion of a group, hold the    *)
(* allocator lock and do not overlap.  Two things run inside an            *)
(* allocation: the shrink callback, and memctl "set", which takes no lock: *)
(* it may come between the look at the quota and the subtraction, or       *)
(* inside a read-modify-write of the quota, whose store then undoes it.    *)
(*                                                                         *)
(* Abstractions.  One cgroup control block, which the object pool hands    *)
(* out again after a delete.  A heap block is an address; splitting,       *)
(* merging and resizing of blocks do not touch the charge.  The heap is    *)
(* built without HEAP_PROTECTION, so a free is not delayed.                *)
(***************************************************************************)
EXTENDS Integers, Sums

CONSTANTS
  Block,        \* addresses the heap hands out
  MaxSize,      \* bound: the largest request
  Limits,       \* values of config->memory_limit
  NoBlock       \* no allocation is being charged

ASSUME SizeAssumption == MaxSize \in Nat /\ Limits \subseteq Nat
ASSUME BlockAssumption == NoBlock \notin Block /\ IsFiniteSet(Block)

VARIABLES
  life,         \* the control block: never used, in use, or back in the pool
  limit,        \* the limit last given to create or memctl "set"
  avail,        \* mem_quota_available; -k stands for the wrapped 2^64 - k
  chargeNext,   \* should_charge_next_free
  callback,     \* shrink_callback # NULL
  forgiven,     \* history: charges that were outstanding when avail was set
  race,         \* history: what memctl "set" last met
  used,         \* blocks that are allocated
  size,         \* requested_size
  charged,      \* charged_cgroup # NULL
  pending,      \* the block that is being charged
  phase         \* how far its allocation is

account == <<limit, avail, forgiven, race>>
group == <<life, account, chargeNext, callback>>
heap == <<used, size, charged>>
vars == <<group, heap, pending, phase>>

Size == 1 .. MaxSize
Phase == {"idle", "shrink", "decide", "charge"}

\* "below": after the look at the quota; "lost": overwritten by a charge or credit.
Race == {"none", "below", "lost"}

\* Blocks whose charge was taken.
Granted == {b \in Block : charged[b] /\ b # pending}

Init ==
  /\ life = "none" /\ limit = 0 /\ avail = 0
  /\ chargeNext = TRUE /\ callback = FALSE /\ forgiven = 0 /\ race = "none"
  /\ used = {}
  /\ size = [b \in Block |-> 0]
  /\ charged = [b \in Block |-> FALSE]
  /\ pending = NoBlock /\ phase = "idle"

-----------------------------------------------------------------------------
(* The group *)

\* The allocator lock is free.
Unlocked == phase = "idle"

\* A new account: the charges of old are no longer part of it.
Account(l, r) ==
  /\ limit' = l /\ avail' = l
  /\ forgiven' = Total(size, Granted)
  /\ race' = r

\* _CORE_cgroup_Initialize().  Blocks that are charged to an earlier group in
\* this control block name the new one, and the shrink callback stays as it is.
Create(l) ==
  /\ Unlocked /\ life # "live"
  /\ life' = "live"
  /\ Account(l, "none")
  /\ chargeNext' = TRUE
  /\ UNCHANGED <<callback, heap, pending, phase>>

\* _CORE_cgroup_set_shrink_callback(), without a lock.
SetShrinkCallback ==
  /\ life # "none"
  /\ callback' = TRUE
  /\ UNCHANGED <<life, account, chargeNext, heap, pending, phase>>

\* memctl "set": the whole new limit is available, whatever is allocated.  No
\* lock: the group may be gone since the lookup, and an allocation that has
\* looked at the old quota still subtracts.
SetLimit(l) ==
  /\ life # "none"
  /\ Account(l, IF phase = "charge" THEN "below" ELSE "none")
  /\ UNCHANGED <<life, chargeNext, callback, heap, pending, phase>>

\* memctl "set" between the load and the store of the charge under way.
SetLimitLost(l) ==
  /\ phase = "charge"
  /\ limit' = l /\ race' = "lost"
  /\ UNCHANGED <<life, avail, forgiven, chargeNext, callback, heap, pending, phase>>

\* rtems_cgroup_delete(): the blocks keep their charge, the threads their group.
Delete ==
  /\ Unlocked /\ life = "live"
  /\ life' = "deleted"
  /\ UNCHANGED <<account, chargeNext, callback, heap, pending, phase>>

-----------------------------------------------------------------------------
(* The heap *)

\* The unsigned comparison; a wrapped quota is larger than any size.
Exceeds(n) == avail >= 0 /\ n > avail

\* Mutant of HeapFree: the flag does not stop the credit.
HeapFreeCredits(b, flag) ==
  /\ used' = used \ {b}
  /\ charged' = [charged EXCEPT ![b] = FALSE]
  /\ size' = [size EXCEPT ![b] = IF charged[b] THEN 0 ELSE @]
  /\ avail' = IF charged[b] THEN avail + size[b] ELSE avail
  /\ chargeNext' = (flag \/ charged[b])

\* _Heap_Free() of a block in use; flag: the value of should_charge_next_free.
\* The charge is credited, unless the flag says that it was never taken.
HeapFree(b, flag) ==
  /\ used' = used \ {b}
  /\ charged' = [charged EXCEPT ![b] = FALSE]
  /\ size' = [size EXCEPT ![b] = IF charged[b] THEN 0 ELSE @]
  /\ avail' = IF charged[b] /\ flag THEN avail + size[b] ELSE avail
  /\ chargeNext' = (flag \/ charged[b])

\* _Heap_Allocate() found a block; member: the executing thread is in the group,
\* which may be a deleted one.  The first look at the quota.
Allocate(b, n, member) ==
  /\ Unlocked /\ b \notin used
  /\ member => life # "none"
  /\ used' = used \cup {b}
  /\ size' = [size EXCEPT ![b] = n]
  /\ charged' = [charged EXCEPT ![b] = member]
  /\ pending' = IF member THEN b ELSE NoBlock
  /\ phase' = CASE ~member -> "idle"
                [] member /\ ~Exceeds(n) -> "charge"
                [] member /\ Exceeds(n) -> IF callback THEN "shrink" ELSE "decide"
  /\ UNCHANGED group

\* The shrink callback returns.
Shrunk ==
  /\ phase = "shrink"
  /\ phase' = "decide"
  /\ UNCHANGED <<group, heap, pending>>

\* Mutant of Decide: no second look.
DecideUnchecked ==
  /\ phase = "decide"
  /\ phase' = "charge"
  /\ UNCHANGED <<group, heap, pending>>

\* The second look at the quota: go on to the charge, or give the block back.
Decide ==
  /\ phase = "decide"
  /\ \/ /\ ~Exceeds(size[pending])
        /\ phase' = "charge"
        /\ UNCHANGED <<avail, chargeNext, heap, pending>>
     \/ /\ Exceeds(size[pending])
        /\ HeapFree(pending, FALSE)
        /\ phase' = "idle" /\ pending' = NoBlock
  /\ UNCHANGED <<life, limit, forgiven, race, callback>>

\* The subtraction.
Charge ==
  /\ phase = "charge"
  /\ avail' = avail - size[pending]
  /\ phase' = "idle" /\ pending' = NoBlock
  /\ UNCHANGED <<life, limit, forgiven, race, chargeNext, callback, heap>>

\* free(), by a thread or by the shrink callback.
Free(b) ==
  /\ phase \in {"idle", "shrink"}
  /\ b # pending /\ b \in used
  /\ HeapFree(b, chargeNext)
  /\ UNCHANGED <<life, limit, forgiven, race, callback, pending, phase>>

\* The same with a memctl "set" between the load and the store of the credit.
FreeOverSet(b, l) ==
  /\ phase \in {"idle", "shrink"}
  /\ b # pending /\ b \in used /\ charged[b] /\ chargeNext
  /\ HeapFree(b, chargeNext)
  /\ limit' = l /\ race' = "lost"
  /\ UNCHANGED <<life, forgiven, callback, pending, phase>>

Next ==
  \/ \E l \in Limits : Create(l) \/ SetLimit(l) \/ SetLimitLost(l)
  \/ SetShrinkCallback \/ Delete
  \/ \E b \in Block, n \in Size, member \in BOOLEAN : Allocate(b, n, member)
  \/ Shrunk \/ Decide \/ Charge
  \/ \E b \in Block : Free(b) \/ \E l \in Limits : FreeOverSet(b, l)

Spec == Init /\ [][Next]_vars

-----------------------------------------------------------------------------
(* Properties *)

\* Every variable keeps the type its C declaration gives it, and the unsigned
\* mem_quota_available does not wrap below zero, except by a memctl "set" that
\* came between the look at the quota and the subtraction and lowered it, until
\* the next "set".
TypeOK ==
  /\ life \in {"none", "live", "deleted"} /\ race \in Race
  /\ {chargeNext, callback} \subseteq BOOLEAN
  /\ limit \in Nat /\ avail \in Int /\ forgiven \in Nat
  /\ race = "none" => avail >= 0
  /\ used \subseteq Block
  /\ size \in [Block -> 0 .. MaxSize]
  /\ charged \in [Block -> BOOLEAN]
  /\ pending \in Block \cup {NoBlock}
  /\ phase \in Phase

\* Nothing is lost and nothing credited twice: what is left and what the blocks
\* were charged add up to the limit, through shrinking, undone allocations,
\* charges of a deleted group's threads and a "set" in the middle of an
\* allocation; only charges older than the group or than its last memctl "set"
\* come on top.  A "set" that a charge or a credit overwrites is the exception.
Conserved == race # "lost" => avail + Total(size, Granted) = limit + forgiven
=============================================================================
