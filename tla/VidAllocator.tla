---------------------------- MODULE VidAllocator ----------------------------
(***************************************************************************)
(* What a PID namespace promises about virtual ids, with neither free list *)
(* nor high-water mark: every container numbers its members, a newcomer    *)
(* gets the smallest number nobody in the container has, and a number in   *)
(* use only changes hands by being given back first.                       *)
(***************************************************************************)
EXTENDS Integers

CONSTANTS Thread, Container, Limit, NoThread

VARIABLE owner   \* owner[c][v]: the thread that container c numbers v

Vid == 1 .. (Limit - 1)

Unowned == [v \in Vid |-> NoThread]

\* v is the smallest number that container c has to give.
FirstUnowned(c, v) ==
  /\ owner[c][v] = NoThread
  /\ \A w \in Vid : w < v => owner[c][w] # NoThread

Init == owner = [c \in Container |-> Unowned]

\* A thread joins a container.
Give(c, t) ==
  \E v \in Vid : /\ FirstUnowned(c, v)
                 /\ owner' = [owner EXCEPT ![c][v] = t]

\* A number of thread t comes back.
Release(c, t) ==
  \E v \in Vid : /\ owner[c][v] = t
                 /\ owner' = [owner EXCEPT ![c][v] = NoThread]

\* A thread changes container: one number comes back and one is given, in
\* one step.
Transfer(src, dst, t) ==
  /\ src # dst
  /\ \E v, w \in Vid :
       /\ owner[src][v] = t
       /\ FirstUnowned(dst, w)
       /\ owner' = [owner EXCEPT ![src][v] = NoThread, ![dst][w] = t]

\* A container goes away with all its numbers.
Dissolve(c) == owner' = [owner EXCEPT ![c] = Unowned]

Next ==
  \/ \E c \in Container, t \in Thread : Give(c, t) \/ Release(c, t)
  \/ \E src, dst \in Container, t \in Thread : Transfer(src, dst, t)
  \/ \E c \in Container : Dissolve(c)

Spec == Init /\ [][Next]_owner
=============================================================================
