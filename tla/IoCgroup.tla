------------------------------ MODULE IoCgroup ------------------------------
(***************************************************************************)
(* The IO cgroups: cpukit/score/src/io_cgroup.c.                           *)
(*                                                                         *)
(* The manager divides the system bandwidth among the groups by weight; a  *)
(* group divides its weight among threads; a request is granted or         *)
(* throttled by the rate of the group's current window.                    *)
(*                                                                         *)
(* Abstractions.  Calls are serialised by their callers: the code takes no *)
(* lock.  A failing malloc() leaves everything as it was.  The clock of a  *)
(* group is the number of ticks since its window started, capped at the    *)
(* first value with which the window has expired.  Read and write limits   *)
(* have the same system bandwidth, as in the callers of the repository.    *)
(* The sum of a group's thread weights wraps, as the uint32_t it is: the   *)
(* weight of a thread is any 32 bit number a configuration names.  The sum *)
(* of the groups does not: a group costs 64 KiB and weighs 16 bits.        *)
(***************************************************************************)
EXTENDS Integers, Sums, Sequences

CONSTANTS
  Group, Thread,
  Weights,        \* weights of groups and threads
  Wrap,           \* 2^32: uint32_t thread weights are added modulo Wrap
  Bandwidths,     \* values of system_read_bps and system_write_bps
  Limits,         \* limits set_limits() is called with
  Windows,        \* window sizes set_limits() is called with, in ticks
  Sizes,          \* request sizes
  TicksPerSecond  \* rtems_clock_get_ticks_per_second()

ASSUME WeightAssumption ==
  Wrap \in Nat \ {0} /\ Weights \subseteq 1 .. (Wrap - 1) /\ Limits \subseteq Nat
ASSUME BandwidthAssumption == Bandwidths \subseteq Nat \ {0} /\ Bandwidths # {}
ASSUME TickAssumption == TicksPerSecond \in Nat \ {0} /\ Sizes \subseteq Nat
ASSUME WindowAssumption == Windows \subseteq Nat
ASSUME FiniteAssumption ==
  /\ IsFiniteSet(Group) /\ IsFiniteSet(Thread)
  /\ IsFiniteSet(Windows) /\ IsFiniteSet(Bandwidths) /\ IsFiniteSet(Limits)

Type == {"read", "write"}
Second == TicksPerSecond   \* create() makes every window one second long
Longest == Max(Windows \cup {Second})

VARIABLES
  bandwidth,  \* manager->system_read_bps and system_write_bps
  total,      \* manager->total_weight
  listed,     \* manager->io_cgroups
  weight,     \* io_cgroup->weight
  limit,      \* limits.read_bps_limit and write_bps_limit
  span,       \* limits.window_size_ms, in ticks
  share,      \* thread_weights_chain: the weight of a thread, 0 if it has none
  allocated,  \* io_cgroup->total_weight
  bytes,      \* current_window.bytes
  elapsed,    \* ticks since current_window.window_start, capped
  explicit,   \* history: limits were set since the bandwidth was divided
  lowered,    \* history: groups whose weight fell below that of their threads
  wrapped,    \* history: groups whose sum of thread weights has wrapped
  recent      \* history: bytes granted in each tick of the last second

manager == <<bandwidth, total, listed>>
window == <<bytes, elapsed, recent>>
excuses == <<explicit, lowered, wrapped>>
vars == <<manager, weight, limit, span, share, allocated, window, excuses>>

NoLimit == [type \in Type |-> 0]
NoShare == [t \in Thread |-> 0]
Quiet == [i \in 1 .. Second |-> 0]

\* rtems_io_cgroup_manager_create().
Init ==
  /\ bandwidth \in Bandwidths
  /\ total = 0 /\ listed = {}
  /\ weight = [g \in Group |-> 0]
  /\ limit = [g \in Group |-> NoLimit]
  /\ span = [g \in Group |-> Second]
  /\ share = [g \in Group |-> NoShare] /\ allocated = [g \in Group |-> 0]
  /\ bytes = [g \in Group |-> 0] /\ elapsed = [g \in Group |-> 0]
  /\ explicit = FALSE /\ lowered = {} /\ wrapped = {}
  /\ recent = [g \in Group |-> Quiet]

-----------------------------------------------------------------------------
(* Weights *)

\* Mutant of Divided: the quotient is rounded up.
DividedRoundedUp(groups, w, sum, bw) ==
  [g \in Group |->
     IF g \in groups /\ sum > 0 /\ w[g] > 0
     THEN [type \in Type |-> (w[g] * bw + sum - 1) \div sum]
     ELSE limit[g]]

\* The loop that gives every listed group its part of the bandwidth.
Divided(groups, w, sum, bw) ==
  [g \in Group |->
     IF g \in groups /\ sum > 0 /\ w[g] > 0
     THEN [type \in Type |-> (w[g] * bw) \div sum]
     ELSE limit[g]]

\* rtems_io_cgroup_create(): the limits it is given are overwritten.
Create(g, w) ==
  /\ g \notin listed
  /\ listed' = listed \cup {g}
  /\ weight' = [weight EXCEPT ![g] = w]
  /\ total' = total + w
  /\ limit' = Divided(listed', weight', total', bandwidth)
  /\ span' = [span EXCEPT ![g] = Second]
  /\ share' = [share EXCEPT ![g] = NoShare]
  /\ allocated' = [allocated EXCEPT ![g] = 0]
  /\ bytes' = [bytes EXCEPT ![g] = 0] /\ elapsed' = [elapsed EXCEPT ![g] = 0]
  /\ explicit' = FALSE
  /\ recent' = [recent EXCEPT ![g] = Quiet]
  /\ UNCHANGED <<bandwidth, lowered, wrapped>>

\* Mutant of AllocateWeight: the old weight stays in the total.
AllocateWeightKeepsOld(g, w) ==
  /\ g \in listed
  /\ weight' = [weight EXCEPT ![g] = w]
  /\ lowered' = IF w < allocated[g] THEN lowered \cup {g} ELSE lowered
  /\ total' = total + w
  /\ limit' = Divided(listed, weight', total', bandwidth)
  /\ explicit' = FALSE
  /\ UNCHANGED <<bandwidth, listed, span, share, allocated, window, wrapped>>

\* Mutant of AllocateWeight: the two weights are swapped.
AllocateWeightSwapped(g, w) ==
  /\ g \in listed
  /\ weight' = [weight EXCEPT ![g] = w]
  /\ lowered' = IF w < allocated[g] THEN lowered \cup {g} ELSE lowered
  /\ total' = total - w + weight[g]
  /\ limit' = Divided(listed, weight', total', bandwidth)
  /\ explicit' = FALSE
  /\ UNCHANGED <<bandwidth, listed, span, share, allocated, window, wrapped>>

\* rtems_io_cgroup_allocate_weight() of an existing group.
AllocateWeight(g, w) ==
  /\ g \in listed
  /\ weight' = [weight EXCEPT ![g] = w]
  /\ lowered' = IF w < allocated[g] THEN lowered \cup {g} ELSE lowered
  /\ total' = total - weight[g] + w
  /\ limit' = Divided(listed, weight', total', bandwidth)
  /\ explicit' = FALSE
  /\ UNCHANGED <<bandwidth, listed, span, share, allocated, window, wrapped>>

\* rtems_io_cgroup_manager_update_bandwidth().
UpdateBandwidth(bw) ==
  /\ bandwidth' = bw
  /\ limit' = Divided(listed, weight, total, bw)
  /\ explicit' = FALSE
  /\ UNCHANGED <<total, listed, weight, span, share, allocated, window, lowered,
                 wrapped>>

\* rtems_io_cgroup_delete(): the memory of the group is freed.
Delete(g) ==
  /\ g \in listed
  /\ listed' = listed \ {g}
  /\ weight' = [weight EXCEPT ![g] = 0]
  /\ total' = total - weight[g]
  /\ limit' = [Divided(listed', weight', total', bandwidth) EXCEPT ![g] = NoLimit]
  /\ span' = [span EXCEPT ![g] = Second]
  /\ share' = [share EXCEPT ![g] = NoShare]
  /\ allocated' = [allocated EXCEPT ![g] = 0]
  /\ bytes' = [bytes EXCEPT ![g] = 0] /\ elapsed' = [elapsed EXCEPT ![g] = 0]
  /\ explicit' = FALSE /\ lowered' = lowered \ {g} /\ wrapped' = wrapped \ {g}
  /\ recent' = [recent EXCEPT ![g] = Quiet]
  /\ UNCHANGED bandwidth

\* rtems_io_cgroup_set_limits().
SetLimits(g, l, w) ==
  /\ g \in listed
  /\ limit' = [limit EXCEPT ![g] = [type \in Type |-> l]]
  /\ span' = [span EXCEPT ![g] = w]
  /\ explicit' = TRUE
  /\ UNCHANGED <<manager, weight, share, allocated, window, lowered, wrapped>>

\* A sum or difference of two uint32_t numbers.
Wrapped(n) == IF n < 0 THEN n + Wrap ELSE IF n < Wrap THEN n ELSE n - Wrap

\* The thread t of g has the weight w from now on, and the sum changes with it.
Weigh(g, t, w) ==
  LET sum == Wrapped(allocated[g] - share[g][t]) + w IN
    /\ allocated' = [allocated EXCEPT ![g] = Wrapped(sum)]
    /\ share' = [share EXCEPT ![g][t] = w]
    /\ wrapped' = IF share[g][t] <= allocated[g] /\ sum < Wrap THEN wrapped
                                                               ELSE wrapped \cup {g}
    /\ UNCHANGED <<manager, weight, limit, span, window, explicit, lowered>>

\* Mutant of AddThread: the weight itself is compared with the group's.
AddThreadAlone(g, t, w) ==
  /\ g \in listed
  /\ w <= weight[g]
  /\ Weigh(g, t, w)

\* rtems_io_cgroup_allocate_thread_weight(): a thread joins or changes its
\* weight, unless the weights of the threads would exceed the group's.
AddThread(g, t, w) ==
  /\ g \in listed
  /\ Wrapped(Wrapped(allocated[g] - share[g][t]) + w) <= weight[g]
  /\ Weigh(g, t, w)

\* rtems_io_cgroup_remove_thread_weight().
RemoveThread(g, t) ==
  /\ g \in listed /\ share[g][t] > 0
  /\ Weigh(g, t, 0)

-----------------------------------------------------------------------------
(* Requests *)

Tick ==
  /\ elapsed' = [g \in Group |-> IF g \in listed /\ elapsed[g] <= Longest
                              THEN elapsed[g] + 1 ELSE elapsed[g]]
  /\ recent' = [g \in Group |-> Append(Tail(recent[g]), 0)]
  /\ UNCHANGED <<manager, weight, limit, span, share, allocated, bytes, excuses>>

\* Mutant of Expired: a window is restarted by every request.
ExpiredAlways(g) == elapsed[g] >= 0

\* rtems_io_cgroup_update_sliding_window().
Expired(g) == elapsed[g] > span[g]
WindowBytes(g) == IF Expired(g) THEN 0 ELSE bytes[g]
WindowElapsed(g) == IF Expired(g) THEN 0 ELSE elapsed[g]

\* Mutant of Throttled: the request itself is not counted.
ThrottledLate(g, type, n) ==
  LET e == IF WindowElapsed(g) = 0 THEN 1 ELSE WindowElapsed(g) IN
    WindowBytes(g) \div e > limit[g][type] \div TicksPerSecond

\* rtems_io_cgroup_check_throttle(), after the window was brought up to date.
Throttled(g, type, n) ==
  LET e == IF WindowElapsed(g) = 0 THEN 1 ELSE WindowElapsed(g) IN
    WindowBytes(g) \div e + n \div e > limit[g][type] \div TicksPerSecond

\* rtems_io_cgroup_handle_request().
HandleRequest(g, type, n) ==
  /\ g \in listed
  /\ elapsed' = [elapsed EXCEPT ![g] = WindowElapsed(g)]
  /\ IF Throttled(g, type, n)
     THEN /\ bytes' = [bytes EXCEPT ![g] = WindowBytes(g)]
          /\ UNCHANGED recent
     ELSE /\ bytes' = [bytes EXCEPT ![g] = WindowBytes(g) + n]
          /\ recent' = [recent EXCEPT ![g][Second] = @ + n]
  /\ UNCHANGED <<manager, weight, limit, span, share, allocated, excuses>>

Next ==
  \/ \E g \in Group, w \in Weights : Create(g, w) \/ AllocateWeight(g, w)
  \/ \E bw \in Bandwidths : UpdateBandwidth(bw)
  \/ \E g \in Group : Delete(g) \/ \E l \in Limits, w \in Windows : SetLimits(g, l, w)
  \/ \E g \in Group, t \in Thread :
       RemoveThread(g, t) \/ \E w \in Weights : AddThread(g, t, w)
  \/ Tick
  \/ \E g \in Group, type \in Type, n \in Sizes : HandleRequest(g, type, n)

Spec == Init /\ [][Next]_vars

-----------------------------------------------------------------------------
(* Properties *)

\* Every variable keeps the type its C declaration gives it; the unsigned total
\* of the manager does not wrap below zero.
TypeOK ==
  /\ bandwidth \in Bandwidths /\ total \in Nat /\ listed \subseteq Group
  /\ weight \in [Group -> Nat] /\ allocated \in [Group -> 0 .. (Wrap - 1)]
  /\ limit \in [Group -> [Type -> Nat]] /\ span \in [Group -> Nat]
  /\ share \in [Group -> [Thread -> 0 .. (Wrap - 1)]]
  /\ bytes \in [Group -> Nat] /\ elapsed \in [Group -> 0 .. (Longest + 1)]
  /\ explicit \in BOOLEAN /\ lowered \subseteq Group /\ wrapped \subseteq Group
  /\ recent \in [Group -> [1 .. Second -> Nat]]

\* The manager's total is the sum of the weights of the groups on its list,
\* through any sequence of creations, changes and deletions.
WeightsAddUp == total = Total(weight, listed)

\* Together the groups are promised no more than the system bandwidth, unless
\* set_limits() says so: every change of a weight, of the list or of the
\* bandwidth divides it anew.
SharesFit ==
  ~explicit => \A type \in Type :
    Total([g \in Group |-> limit[g][type]], listed) <= bandwidth

\* The threads of a group have together the weight the group accounts for, however
\* they join, change and leave, and no more than the group itself, unless
\* allocate_weight() lowered it, which does not look at the threads; of a sum that
\* has wrapped nothing is claimed.
ThreadsFit ==
  \A g \in listed \ wrapped : /\ allocated[g] = Total(share[g], Thread)
                              /\ g \notin lowered => allocated[g] <= weight[g]

\* What the whole bandwidth allows in n ticks, with the two bytes a tick that the
\* divisions lose.
Allowance(n) == (Max(Bandwidths \cup Limits) \div TicksPerSecond + 2) * n - 2

\* However requests and ticks alternate, the bytes of a window stay below what
\* the bandwidth allows in its time.
WindowBounded == \A g \in listed : bytes[g] <= Allowance(Max({1, elapsed[g]}))

\* A window restarts and does not slide: one second may see the end of a window
\* whose bytes all came late and the start of the next, and never more.
BurstBounded ==
  \A g \in listed :
    Total(recent[g], 1 .. Second) <= Allowance(Longest) + Allowance(Second)
=============================================================================
