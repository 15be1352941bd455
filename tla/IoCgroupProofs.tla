--------------------------- MODULE IoCgroupProofs ---------------------------
(***************************************************************************)
(* Theorems about IoCgroup, for all finite sets of groups, threads,        *)
(* weights, limits, windows and sizes and every clock rate.                *)
(***************************************************************************)
EXTENDS IoCgroup, FoldTheorems, SequenceTheorems

-----------------------------------------------------------------------------
(* Constants and arithmetic *)

Largest == Max(Bandwidths \cup Limits)
Rate == Largest \div TicksPerSecond + 2

\* The largest limit and the longest window bound all others.
LEMMA Bounds ==
  /\ Largest \in Nat /\ \A x \in Bandwidths \cup Limits : x \in Nat /\ x <= Largest
  /\ Longest \in Nat /\ \A x \in Windows \cup {Second} : x \in Nat /\ x <= Longest
  /\ Second \in Nat /\ Second >= 1 /\ Longest >= 1 /\ Rate \in Nat /\ Rate >= 2
<1>1. Second \in Nat /\ Second >= 1
  BY TickAssumption DEF Second
<1>2. /\ Bandwidths \cup Limits \in SUBSET Nat /\ IsFiniteSet(Bandwidths \cup Limits)
      /\ Bandwidths \cup Limits # {}
  BY FiniteAssumption, BandwidthAssumption, WeightAssumption, FS_Union
<1>3. /\ Windows \cup {Second} \in SUBSET Nat /\ IsFiniteSet(Windows \cup {Second})
      /\ Windows \cup {Second} # {}
  BY <1>1, FiniteAssumption, WindowAssumption, FS_AddElement
<1>4. Largest \in Nat /\ \A x \in Bandwidths \cup Limits : x \in Nat /\ x <= Largest
  BY <1>2, MaxIsLargest DEF Largest
<1>5. Longest \in Nat /\ \A x \in Windows \cup {Second} : x \in Nat /\ x <= Longest
  BY <1>3, MaxIsLargest DEF Longest
<1>6. Longest >= 1
  BY <1>1, <1>5
<1>7. Rate \in Nat /\ Rate >= 2
  BY <1>4, TickAssumption DEF Rate
<1> QED BY <1>1, <1>4, <1>5, <1>6, <1>7

\* The quotients of the code.
LEMMA Quotient ==
  ASSUME NEW a \in Nat, NEW b \in Nat \ {0}
  PROVE  /\ a \div b \in Nat
         /\ (a \div b) * b <= a
         /\ \A c \in Nat : a <= c * b => a \div b <= c
OBVIOUS

\* The allowance grows with the time; nothing is allowed for no time.
LEMMA AllowanceGrows ==
  ASSUME NEW m \in Nat, NEW n \in Nat, m <= n, m >= 1
  PROVE  /\ Allowance(m) \in Nat /\ Allowance(m) <= Allowance(n)
         /\ Allowance(m) = Rate * m - 2
<1>1. Rate \in Nat /\ Rate >= 2
  BY Bounds
<1>2. Allowance(m) = Rate * m - 2 /\ Allowance(n) = Rate * n - 2
  BY DEF Allowance, Rate, Largest
<1>3. ASSUME NEW r \in Nat, r >= 2 PROVE r * m - 2 \in Nat /\ r * m - 2 <= r * n - 2
  <2>1. r * m <= r * n /\ r * m >= 2
    BY <1>3
  <2> QED BY <1>3, <2>1
<1> QED BY <1>1, <1>2, <1>3

-----------------------------------------------------------------------------
(* The inductive invariant *)

\* A group on the list has a weight, limits the system knows and such a window.
Configured ==
  \A g \in listed : /\ weight[g] > 0 /\ span[g] <= Longest
                    /\ \A type \in Type : limit[g][type] <= Largest

\* The bytes of a window came before it expired.
Age(e) == IF e = 0 THEN 1 ELSE IF e > Longest THEN Longest ELSE e

\* The bytes granted in the last k ticks.
Late(s, k) == Total(s, (Second - k + 1) .. Second)

\* The last k ticks, of which the window has lasted e and got b bytes: if the
\* window has seen all of them, they gave no more than its bytes.  Before it, one
\* window was under way, and the others that began and ended got no more than
\* the time they lasted allows.
LateFits(b, e, s, k) ==
  IF k <= e THEN Late(s, k) <= b
  ELSE Late(s, k) <= b + Allowance(Longest) + Rate * (k - 1 - e)

Fits(b, e, s) == b <= Allowance(Age(e)) /\ \A k \in 1 .. Second : LateFits(b, e, s, k)
Windowed(g) == Fits(bytes[g], elapsed[g], recent[g])
Threaded(g) ==
  g \notin wrapped => /\ allocated[g] = Total(share[g], Thread)
                      /\ g \notin lowered => allocated[g] <= weight[g]

IoInv == /\ TypeOK /\ WeightsAddUp /\ SharesFit /\ Configured
         /\ \A g \in listed : Threaded(g) /\ Windowed(g)

-----------------------------------------------------------------------------
(* Weights *)

\* Sums over groups and threads are sums.
LEMMA GroupSums ==
  ASSUME NEW S \in SUBSET Group, NEW f, \A g \in S : f[g] \in Nat
  PROVE  Summable(f, S)
BY FiniteAssumption, FS_Subset DEF Summable

LEMMA ShareSums ==
  ASSUME NEW f \in [Thread -> Nat]
  PROVE  Summable(f, Thread)
BY FiniteAssumption DEF Summable

\* What the loop that divides the bandwidth starts from.
Weighed(groups, w, sum, bw) ==
  /\ groups \in SUBSET Group /\ w \in [Group -> Nat] /\ bw \in Bandwidths
  /\ sum = Total(w, groups) /\ \A g \in groups : w[g] > 0

\* It keeps within the bandwidth.
LEMMA DividedFits ==
  ASSUME NEW groups, NEW w, NEW sum, NEW bw, Weighed(groups, w, sum, bw),
         NEW l, \A g \in groups : l[g] = [type \in Type |-> (w[g] * bw) \div sum]
  PROVE  /\ \A g \in groups : /\ sum > 0
                              /\ \A type \in Type : l[g][type] \in Nat /\ l[g][type] <= bw
         /\ \A type \in Type : Total([g \in Group |-> l[g][type]], groups) <= bw
<1>1. Summable(w, groups) /\ sum \in Nat /\ sum = Total(w, groups)
  BY GroupSums, TotalNat DEF Weighed
<1>2. bw \in Nat
  BY BandwidthAssumption DEF Weighed
<1>3. ASSUME NEW g \in groups
      PROVE  /\ sum > 0 /\ w[g] \in Nat
             /\ \A type \in Type : /\ l[g][type] \in Nat /\ l[g][type] <= bw
                                   /\ l[g][type] * sum <= w[g] * bw
  <2>1. w[g] <= sum /\ w[g] > 0 /\ w[g] \in Nat
    <3>1. w[g] <= Total(w, groups)
      BY <1>1, TotalRemove
    <3> QED BY <1>1, <3>1 DEF Weighed
  <2>2. sum \in Nat \ {0}
    BY <1>1, <2>1
  <2>3. ASSUME NEW a \in Nat, NEW b \in Nat, NEW c \in Nat \ {0}, a <= c
        PROVE  (a * b) \div c \in Nat /\ (a * b) \div c <= b /\ ((a * b) \div c) * c <= a * b
    <3>1. a * b \in Nat /\ a * b <= b * c
      BY <2>3
    <3> QED BY <2>3, <3>1, Quotient
  <2>4. /\ (w[g] * bw) \div sum \in Nat /\ (w[g] * bw) \div sum <= bw
        /\ ((w[g] * bw) \div sum) * sum <= w[g] * bw
    BY <1>2, <2>1, <2>2, <2>3
  <2>5. \A type \in Type : l[g][type] = (w[g] * bw) \div sum
    OBVIOUS
  <2> QED BY <2>1, <2>2, <2>4, <2>5
<1>4. ASSUME NEW type \in Type
      PROVE  Total([g \in Group |-> l[g][type]], groups) <= bw
  <2> DEFINE f == [g \in Group |-> l[g][type]]
  <2>1. \A g \in groups : f[g] \in Nat /\ f[g] * sum <= w[g] * bw
    <3>1. \A g \in groups : f[g] = l[g][type]
      BY DEF Weighed
    <3> HIDE DEF f
    <3> QED BY <1>3, <3>1
  <2> HIDE DEF f
  <2>2. Summable(f, groups)
    BY <2>1, GroupSums DEF Weighed
  <2>3. Total(f, groups) \in Nat /\ Total(f, groups) * sum <= sum * bw
    BY <1>1, <1>2, <2>1, <2>2, TotalScaled, TotalNat
  <2>4. CASE groups = {}
    BY <1>2, <2>2, <2>4, TotalNat DEF f
  <2>5. CASE groups # {}
    <3>1. sum \in Nat \ {0}
      BY <1>1, <1>3, <2>5
    <3>2. ASSUME NEW a \in Nat, NEW b \in Nat, NEW c \in Nat \ {0}, a * c <= c * b PROVE a <= b
      BY <3>2
    <3>3. Total(f, groups) <= bw
      BY <1>2, <2>3, <3>1, <3>2
    <3> QED BY <3>3 DEF f
  <2> QED BY <2>4, <2>5
<1> QED BY <1>3, <1>4

\* A step that divides the bandwidth anew.
LEMMA Redivided ==
  ASSUME TypeOK, NEW groups, NEW w, NEW sum, NEW bw, Weighed(groups, w, sum, bw),
         NEW l, l = Divided(groups, w, sum, bw)
  PROVE  /\ l \in [Group -> [Type -> Nat]]
         /\ \A g \in groups, type \in Type : l[g][type] <= Largest
         /\ \A type \in Type : Total([g \in Group |-> l[g][type]], groups) <= bw
<1>1. \A g \in groups : l[g] = IF sum > 0 THEN [type \in Type |-> (w[g] * bw) \div sum]
                               ELSE limit[g]
  BY DEF Divided, Weighed
<1>2. \A g \in groups : sum > 0
  <2>1. Summable(w, groups) /\ sum \in Nat
    BY GroupSums, TotalNat DEF Weighed
  <2>2. \A g \in groups : w[g] <= sum /\ w[g] > 0 /\ w[g] \in Nat
    BY <2>1, TotalRemove DEF Weighed
  <2> QED BY <2>1, <2>2
<1>3. \A g \in groups : l[g] = [type \in Type |-> (w[g] * bw) \div sum]
  BY <1>1, <1>2
<1>4. /\ \A g \in groups : \A type \in Type : l[g][type] \in Nat /\ l[g][type] <= bw
      /\ \A type \in Type : Total([g \in Group |-> l[g][type]], groups) <= bw
  BY <1>3, DividedFits
<1>5. \A g \in groups, type \in Type : l[g][type] <= Largest
  <2>1. bw \in Nat /\ bw <= Largest /\ Largest \in Nat
    BY Bounds DEF Weighed
  <2> QED BY <1>4, <2>1
<1>6. ASSUME NEW g \in Group PROVE l[g] \in [Type -> Nat]
  <2>1. CASE g \in groups
    BY <1>3, <1>4, <2>1
  <2>2. CASE g \notin groups
    BY <2>2 DEF Divided, TypeOK
  <2> QED BY <2>1, <2>2
<1>7. l = [g \in Group |-> l[g]]
  BY DEF Divided
<1> QED BY <1>4, <1>5, <1>6, <1>7

-----------------------------------------------------------------------------
(* Windows *)

\* The history of a group: the bytes of each tick of the last second.
History == [1 .. Second -> Nat]

\* Sums over the history are sums.
LEMMA HistorySums ==
  ASSUME NEW s \in History, NEW a \in Nat, NEW b \in Nat, a >= 1, b <= Second
  PROVE  Summable(s, a .. b) /\ Total(s, a .. b) \in Nat
<1>1. IsFiniteSet(a .. b)
  BY FS_Interval
<1>2. \A i \in a .. b : s[i] \in Nat
  BY Bounds DEF History
<1> QED BY <1>1, <1>2, TotalNat DEF Summable

\* A new group has an empty history.
LEMMA FitsNew == Fits(0, 0, Quiet) /\ Quiet \in History
<1>1. Quiet \in History
  BY DEF Quiet, History
<1>2. 0 <= Allowance(Age(0)) /\ Allowance(Longest) \in Nat
  <2>1. Age(0) = 1
    BY DEF Age
  <2> QED BY <2>1, Bounds, AllowanceGrows
<1>3. ASSUME NEW k \in 1 .. Second PROVE LateFits(0, 0, Quiet, k)
  <2>1. k \in Nat /\ k >= 1 /\ Second - k + 1 \in Nat /\ Second - k + 1 >= 1 /\ Second \in Nat
    BY Bounds
  <2> DEFINE D == (Second - k + 1) .. Second
  <2>2. Summable(Quiet, D) /\ Total(Quiet, D) \in Nat
    BY <1>1, <2>1, HistorySums
  <2>3. \A i \in D : Quiet[i] * 1 <= Quiet[i] * 0
    <3>1. \A i \in D : Quiet[i] = 0
      BY <2>1 DEF Quiet
    <3> QED BY <3>1
  <2> HIDE DEF D
  <2>4. Total(Quiet, D) * 1 <= Total(Quiet, D) * 0
    BY <2>2, <2>3, TotalScaled
  <2>5. Late(Quiet, k) = 0
    BY <2>2, <2>4 DEF Late, D
  <2>6. Rate * (k - 1 - 0) \in Nat
    BY <2>1, Bounds
  <2> QED BY <1>2, <2>1, <2>5, <2>6 DEF LateFits
<1> QED BY <1>1, <1>2, <1>3 DEF Fits

\* What a window has lasted is a number of ticks.
LEMMA AgeType ==
  ASSUME NEW e \in 0 .. (Longest + 1)
  PROVE  /\ e \in Nat /\ Age(e) \in Nat /\ Age(e) >= 1 /\ Age(e) <= Longest
         /\ Allowance(Age(e)) \in Nat /\ Allowance(Age(e)) <= Allowance(Longest)
         /\ Allowance(Longest) \in Nat /\ Allowance(Age(e)) = Rate * Age(e) - 2
<1>1. e \in Nat /\ Longest \in Nat /\ Longest >= 1
  BY Bounds
<1>2. Age(e) \in Nat /\ Age(e) >= 1 /\ Age(e) <= Longest
  BY <1>1 DEF Age
<1> QED BY <1>1, <1>2, AllowanceGrows

\* A window that expired is restarted by the next request: what it got is what
\* the time it lasted allows.
LEMMA FitsRestart ==
  ASSUME NEW b \in Nat, NEW e \in 0 .. (Longest + 1), NEW s \in History,
         Fits(b, e, s), e >= 1
  PROVE  Fits(0, 0, s)
<1>1. /\ e \in Nat /\ Allowance(Age(e)) \in Nat /\ Allowance(Age(e)) <= Allowance(Longest)
      /\ Allowance(Longest) \in Nat /\ Allowance(Age(e)) = Rate * Age(e) - 2
      /\ Age(e) \in Nat
  BY AgeType
<1>2. Age(0) = 1 /\ Age(e) <= e
  BY <1>1, Bounds DEF Age
<1>3. 0 <= Allowance(Age(0))
  BY <1>2, Bounds, AllowanceGrows
<1>4. b <= Rate * e /\ b <= Allowance(Longest)
  <2>1. b <= Allowance(Age(e))
    BY DEF Fits
  <2>2. Rate \in Nat
    BY Bounds
  <2>3. ASSUME NEW r \in Nat, NEW a \in Nat, a <= e PROVE r * a <= r * e /\ r * a \in Nat /\ r * e \in Nat
    BY <1>1, <2>3
  <2>4. Rate * Age(e) <= Rate * e /\ Rate * Age(e) \in Nat /\ Rate * e \in Nat
    BY <1>1, <1>2, <2>2, <2>3
  <2> QED BY <1>1, <2>1, <2>4
<1>5. ASSUME NEW k \in 1 .. Second PROVE LateFits(0, 0, s, k)
  <2>1. k \in Nat /\ k >= 1 /\ Second - k + 1 \in Nat /\ Second - k + 1 >= 1
        /\ Second \in Nat /\ Rate \in Nat
    BY Bounds
  <2>2. Late(s, k) \in Nat
    BY <2>1, HistorySums DEF Late
  <2>3. LateFits(b, e, s, k)
    BY DEF Fits
  <2>4. Late(s, k) <= 0 + Allowance(Longest) + Rate * (k - 1 - 0)
    <3>1. CASE k <= e
      <4>1. Late(s, k) <= Allowance(Longest)
        BY <1>1, <1>4, <2>2, <2>3, <3>1 DEF LateFits
      <4>2. Rate * (k - 1 - 0) \in Nat
        BY <2>1
      <4> QED BY <1>1, <2>2, <4>1, <4>2
    <3>2. CASE ~(k <= e)
      <4>1. Late(s, k) <= b + Allowance(Longest) + Rate * (k - 1 - e)
        BY <2>3, <3>2 DEF LateFits
      <4>2. ASSUME NEW r \in Nat
            PROVE  r * (k - 1 - e) + r * e = r * (k - 1 - 0) /\ r * (k - 1 - e) \in Int
                   /\ r * e \in Int
        BY <1>1, <2>1
      <4>3. Rate * (k - 1 - e) + Rate * e = Rate * (k - 1 - 0)
            /\ Rate * (k - 1 - e) \in Int /\ Rate * e \in Int
        BY <2>1, <4>2
      <4>4. ASSUME NEW x \in Int, NEW y \in Int, NEW z \in Int, NEW a \in Int, NEW l \in Int,
                   l <= b + a + x, b <= y, x + y = z
            PROVE  l <= 0 + a + z
        BY <4>4
      <4>5. Rate * (k - 1 - 0) \in Int
        BY <2>1
      <4> QED BY <1>1, <1>4, <2>2, <4>1, <4>3, <4>4, <4>5
    <3> QED BY <3>1, <3>2
  <2> QED BY <2>1, <2>4 DEF LateFits
<1> QED BY <1>3, <1>5 DEF Fits

\* A request that is granted raises the bytes of the window and of the last tick,
\* and the check keeps them within what the time allows.
LEMMA FitsGrant ==
  ASSUME NEW b \in Nat, NEW e \in 0 .. Longest, NEW s \in History, Fits(b, e, s),
         NEW n \in Nat, NEW l \in Nat, l <= Largest, NEW d, d = (IF e = 0 THEN 1 ELSE e),
         b \div d + n \div d <= l \div TicksPerSecond
  PROVE  Fits(b + n, e, [s EXCEPT ![Second] = @ + n])
<1> DEFINE h == [s EXCEPT ![Second] = @ + n]
<1>1. e \in Nat /\ e \in 0 .. (Longest + 1) /\ Longest \in Nat /\ d \in Nat \ {0} /\ Age(e) = d
  BY Bounds DEF Age
<1>2. b + n <= Allowance(Age(e))
  <2>1. Allowance(Age(e)) = Rate * d - 2
    BY <1>1, AgeType
  <2>2. ASSUME NEW x \in Nat, NEW t \in Nat \ {0}, l <= x PROVE l \div t <= x \div t /\ x \div t \in Nat
    BY <2>2
  <2>3. l \div TicksPerSecond <= Largest \div TicksPerSecond /\ Largest \div TicksPerSecond \in Nat
    BY <2>2, Bounds, TickAssumption
  <2>4. l \div TicksPerSecond \in Nat /\ b \div d \in Nat /\ n \div d \in Nat
    BY <1>1, TickAssumption, Quotient
  <2>5. b \div d + n \div d <= Largest \div TicksPerSecond
    BY <2>3, <2>4
  <2>6. ASSUME NEW x \in Nat, b \div d + n \div d <= x PROVE b + n <= (x + 2) * d - 2
    BY <1>1, <2>6
  <2>7. b + n <= (Largest \div TicksPerSecond + 2) * d - 2
    BY <2>3, <2>5, <2>6
  <2> QED BY <2>1, <2>7 DEF Rate
<1>3. ASSUME NEW k \in 1 .. Second PROVE LateFits(b + n, e, h, k)
  <2>1. k \in Nat /\ k >= 1 /\ Second - k + 1 \in Nat /\ Second - k + 1 >= 1
        /\ Second \in Nat /\ Second >= 1 /\ Rate \in Nat /\ Allowance(Longest) \in Nat
    BY <1>1, Bounds, AgeType
  <2> DEFINE D == (Second - k + 1) .. Second
  <2>2. Second \in D /\ D \subseteq 1 .. Second
    BY <2>1
  <2>3. Summable(s, D) /\ Total(s, D) \in Nat
    BY <2>1, HistorySums
  <2>4. s[Second] \in Nat /\ h[Second] = s[Second] + n
    BY <2>1, <2>2 DEF History
  <2>5. \A i \in D \ {Second} : h[i] = s[i]
    BY <2>1, <2>2 DEF History
  <2> HIDE DEF h, D
  <2>6. Total(h, D) = Total(s, D) - s[Second] + h[Second]
    <3>1. Differs(s, h, D, Second)
      BY <2>2, <2>3, <2>4, <2>5 DEF Differs
    <3> QED BY <3>1, TotalUpdate
  <2>7. Total(h, D) = Total(s, D) + n
    BY <2>3, <2>4, <2>6
  <2>8. Late(h, k) = Late(s, k) + n /\ Late(s, k) \in Nat
    BY <2>3, <2>7 DEF Late, D
  <2>9. LateFits(b, e, s, k)
    BY DEF Fits
  <2>10. CASE k <= e
    BY <1>1, <2>1, <2>8, <2>9, <2>10 DEF LateFits
  <2>11. CASE ~(k <= e)
    <3>1. Late(s, k) <= b + Allowance(Longest) + Rate * (k - 1 - e)
      BY <2>9, <2>11 DEF LateFits
    <3>2. Rate * (k - 1 - e) \in Int
      BY <1>1, <2>1
    <3>3. ASSUME NEW x \in Int, NEW y \in Nat, NEW z \in Nat, z <= b + y + x
          PROVE  z + n <= (b + n) + y + x
      BY <3>3
    <3> QED BY <2>1, <2>8, <2>11, <3>1, <3>2, <3>3 DEF LateFits
  <2> QED BY <2>10, <2>11
<1> QED BY <1>2, <1>3 DEF Fits

\* The sum of a shifted history.
Shifted(f, h, a, b) ==
  /\ a \in Nat /\ b \in Nat /\ Summable(f, (a + 1) .. (b + 1))
  /\ \A i \in a .. b : h[i] = f[i + 1]

LEMMA ShiftTotal ==
  ASSUME NEW f, NEW h, NEW a, NEW b, Shifted(f, h, a, b)
  PROVE  Total(h, a .. b) = Total(f, (a + 1) .. (b + 1))
<1>0. /\ a \in Nat /\ b \in Nat /\ Summable(f, (a + 1) .. (b + 1))
      /\ \A i \in a .. b : h[i] = f[i + 1]
  BY DEF Shifted
<1> DEFINE D == a .. b
           Up(s) == {i + 1 : i \in s}
           B == {s \in SUBSET D : Total(h, s) = Total(f, Up(s))}
<1>1. \A s \in SUBSET D : Up(s) \in SUBSET ((a + 1) .. (b + 1))
  BY <1>0
<1>2. IsFiniteSet(D)
  BY <1>0, FS_Interval
<1>3. Summable(h, D)
  BY <1>0, <1>2 DEF Summable
<1>4. {} \in B
  <2>1. Up({}) = {} /\ Summable(h, {}) /\ Summable(f, {})
    BY <1>0, <1>3, SummableSubset
  <2> HIDE DEF Up
  <2> QED BY <2>1, TotalNat
<1>5. ASSUME NEW s \in SUBSET D, NEW x \in D \ s, s \in B PROVE s \cup {x} \in B
  <2>1. Up(s \cup {x}) = Up(s) \cup {x + 1}
    OBVIOUS
  <2>2. x + 1 \notin Up(s)
    BY <1>0
  <2>3. Summable(h, s) /\ h[x] \in Nat
    BY <1>3, SummableSubset DEF Summable
  <2>4. Summable(f, Up(s)) /\ f[x + 1] = h[x]
    BY <1>0, <1>1, SummableSubset
  <2> HIDE DEF Up
  <2>5. Total(h, s \cup {x}) = Total(h, s) + h[x]
    BY <2>3, TotalAdd
  <2>6. Total(f, Up(s) \cup {x + 1}) = Total(f, Up(s)) + f[x + 1]
    <3>1. f[x + 1] \in Nat /\ Summable(f, Up(s))
      BY <2>3, <2>4
    <3>2. \A y : y = x + 1 => y \notin Up(s) /\ f[y] \in Nat
      BY <2>2, <3>1
    <3>3. \A y : y = x + 1 => Total(f, Up(s) \cup {y}) = Total(f, Up(s)) + f[y]
      BY <3>1, <3>2, TotalAdd
    <3> QED BY <3>3
  <2> QED BY <1>5, <2>1, <2>4, <2>5, <2>6
<1>6. D \in B
  <2> HIDE DEF B, D
  <2> QED BY <1>2, <1>4, <1>5, FiniteInduction
<1>7. Up(D) = (a + 1) .. (b + 1)
  <2>1. ASSUME NEW j \in (a + 1) .. (b + 1) PROVE j \in Up(D)
    <3>1. j - 1 \in D /\ (j - 1) + 1 = j
      BY <1>0
    <3> QED BY <3>1
  <2> QED BY <1>1, <2>1
<1> QED BY <1>6, <1>7

Passed(s) == Append(Tail(s), 0)

\* A tick shifts the history.
LEMMA TickShifts ==
  ASSUME NEW s \in History
  PROVE  /\ Passed(s) \in History
         /\ \A i \in 1 .. (Second - 1) : Passed(s)[i] = s[i + 1]
         /\ Passed(s)[Second] = 0
<1>1. Second \in Nat /\ Second >= 1
  BY Bounds
<1>2. s \in Seq(Nat) /\ Len(s) = Second /\ s # <<>>
  BY <1>1 DEF History
<1>3. Tail(s) \in Seq(Nat) /\ Len(Tail(s)) = Second - 1
      /\ \A i \in 1 .. (Second - 1) : Tail(s)[i] = s[i + 1]
  BY <1>1, <1>2
<1>4. /\ Append(Tail(s), 0) \in Seq(Nat) /\ Len(Append(Tail(s), 0)) = Second
      /\ Append(Tail(s), 0)[Second] = 0
      /\ \A i \in 1 .. (Second - 1) : Append(Tail(s), 0)[i] = Tail(s)[i]
  BY <1>1, <1>3
<1>5. Append(Tail(s), 0) \in [1 .. Second -> Nat]
  BY <1>4, LenProperties
<1> QED BY <1>3, <1>4, <1>5 DEF Passed, History

\* After a tick, the last k ticks are the k - 1 before it.
LEMMA LateShifts ==
  ASSUME NEW s \in History, NEW k \in 1 .. Second
  PROVE  /\ Late(s, k - 1) \in Nat /\ Late(Passed(s), k) = Late(s, k - 1)
         /\ k = 1 => Late(s, k - 1) = 0
<1> DEFINE h == Passed(s)
           a == Second - k + 1
<1>1. /\ Second \in Nat /\ Second >= 1 /\ k \in Nat /\ a \in Nat /\ a >= 1 /\ a <= Second
      /\ Second - (k - 1) + 1 = a + 1
  BY Bounds
<1>2. h \in History /\ h[Second] = 0 /\ \A i \in 1 .. (Second - 1) : h[i] = s[i + 1]
  BY TickShifts
<1> HIDE DEF h, a
<1>3. Summable(h, a .. Second) /\ Total(h, a .. Second) \in Nat
  BY <1>1, <1>2, HistorySums
<1>4. Summable(s, (a + 1) .. Second) /\ Total(s, (a + 1) .. Second) \in Nat
  BY <1>1, HistorySums
<1>5. Total(h, (a .. Second) \ {Second}) = Total(h, a .. Second)
  <2>1. Second \in a .. Second
    BY <1>1
  <2>2. /\ Total(h, a .. Second) = Total(h, (a .. Second) \ {Second}) + h[Second]
        /\ Summable(h, (a .. Second) \ {Second})
    BY <1>3, <2>1, TotalRemove
  <2>3. Total(h, (a .. Second) \ {Second}) \in Nat
    BY <2>2, TotalNat
  <2> QED BY <1>2, <2>2, <2>3
<1>6. (a .. Second) \ {Second} = a .. (Second - 1)
  BY <1>1
<1>7. Total(h, a .. (Second - 1)) = Total(s, (a + 1) .. Second)
  <2>1. Second - 1 \in Nat /\ (Second - 1) + 1 = Second
    BY <1>1
  <2>2. \A i \in a .. (Second - 1) : h[i] = s[i + 1]
    BY <1>1, <1>2
  <2>3. Summable(s, (a + 1) .. ((Second - 1) + 1))
    BY <1>4, <2>1
  <2>4. Shifted(s, h, a, Second - 1)
    BY <1>1, <2>1, <2>2, <2>3 DEF Shifted
  <2>5. Total(h, a .. (Second - 1)) = Total(s, (a + 1) .. ((Second - 1) + 1))
    BY <2>4, ShiftTotal
  <2> QED BY <2>1, <2>5
<1>8. Late(s, k - 1) = Total(s, (a + 1) .. Second) /\ Late(h, k) = Total(h, a .. Second)
  BY <1>1 DEF Late, a
<1>9. k = 1 => (a + 1) .. Second = {}
  BY <1>1 DEF a
<1> QED BY <1>4, <1>5, <1>6, <1>7, <1>8, <1>9, TotalNat DEF h

\* A tick makes the window older and forgets the first tick of the history.
LEMMA FitsTick ==
  ASSUME NEW b \in Nat, NEW e \in 0 .. (Longest + 1), NEW s \in History, Fits(b, e, s),
         NEW e1, e1 = (IF e <= Longest THEN e + 1 ELSE e)
  PROVE  Fits(b, e1, Passed(s))
<1>1. /\ e \in Nat /\ e1 \in Nat /\ Longest \in Nat /\ Longest >= 1 /\ Rate \in Nat
      /\ Second \in Nat /\ e1 \in 0 .. (Longest + 1) /\ e1 >= 1 /\ e <= e1 /\ e1 <= e + 1
      /\ e1 = e => e >= 2
  BY Bounds
<1>2. /\ Age(e) \in Nat /\ Age(e1) \in Nat /\ Age(e) >= 1 /\ Allowance(Age(e)) \in Nat
      /\ Allowance(Longest) \in Nat
  BY <1>1, AgeType
<1>3. Age(e) <= Age(e1)
  BY <1>1 DEF Age
<1>4. b <= Allowance(Age(e1))
  <2>1. b <= Allowance(Age(e))
    BY DEF Fits
  <2>2. Allowance(Age(e)) <= Allowance(Age(e1)) /\ Allowance(Age(e1)) \in Nat
    BY <1>1, <1>2, <1>3, AllowanceGrows, AgeType
  <2> QED BY <1>2, <2>1, <2>2
<1>5. ASSUME NEW k \in 1 .. Second PROVE LateFits(b, e1, Passed(s), k)
  <2>1. /\ Late(s, k - 1) \in Nat /\ Late(Passed(s), k) = Late(s, k - 1)
        /\ k = 1 => Late(s, k - 1) = 0
    BY LateShifts
  <2>2. k \in Nat /\ k >= 1 /\ (k # 1 => k - 1 \in 1 .. Second)
    BY <1>1
  <2>3. CASE k <= e1
    <3>1. Late(s, k - 1) <= b
      <4>1. CASE k = 1
        BY <2>1, <4>1
      <4>2. CASE k # 1
        <5>1. LateFits(b, e, s, k - 1) /\ k - 1 <= e
          BY <1>1, <2>2, <2>3, <4>2 DEF Fits
        <5> QED BY <5>1 DEF LateFits
      <4> QED BY <4>1, <4>2
    <3> QED BY <2>1, <2>3, <3>1 DEF LateFits
  <2>4. CASE ~(k <= e1)
    <3>1. k # 1 /\ k - 1 >= e1 /\ k - 1 - e1 \in Nat
      BY <1>1, <2>2, <2>4
    <3>2. LateFits(b, e, s, k - 1)
      BY <2>2, <3>1 DEF Fits
    <3>3. Late(s, k - 1) <= b + Allowance(Longest) + Rate * (k - 1 - e1)
      <4>1. ASSUME NEW x \in Nat PROVE Rate * x \in Nat
        BY <1>1, <4>1
      <4>2. CASE k - 1 <= e
        <5>1. Late(s, k - 1) <= b
          BY <3>2, <4>2 DEF LateFits
        <5>2. Rate * (k - 1 - e1) \in Nat
          BY <3>1, <4>1
        <5> QED BY <1>2, <2>1, <5>1, <5>2
      <4>3. CASE ~(k - 1 <= e)
        <5>1. Late(s, k - 1) <= b + Allowance(Longest) + Rate * ((k - 1) - 1 - e)
          BY <3>2, <4>3 DEF LateFits
        <5>2. (k - 1) - 1 - e \in Nat /\ (k - 1) - 1 - e <= k - 1 - e1
          BY <1>1, <2>2, <4>3
        <5>3. ASSUME NEW r \in Nat, NEW x \in Nat, NEW y \in Nat, x <= y
              PROVE  r * x <= r * y /\ r * x \in Nat /\ r * y \in Nat
          BY <5>3
        <5>4. /\ Rate * ((k - 1) - 1 - e) <= Rate * (k - 1 - e1)
              /\ Rate * ((k - 1) - 1 - e) \in Nat /\ Rate * (k - 1 - e1) \in Nat
          BY <1>1, <3>1, <5>2, <5>3
        <5> QED BY <1>2, <2>1, <5>1, <5>4
      <4> QED BY <4>2, <4>3
    <3> QED BY <2>1, <2>4, <3>3 DEF LateFits
  <2> QED BY <2>3, <2>4
<1> QED BY <1>4, <1>5 DEF Fits

-----------------------------------------------------------------------------
(* The steps: what divides the bandwidth *)

\* The history of a group that starts, and the weights of its threads.
LEMMA StartsEmpty ==
  /\ Total(NoShare, Thread) = 0 /\ NoShare \in [Thread -> 0 .. (Wrap - 1)]
  /\ 0 \in 0 .. (Wrap - 1) /\ 0 \in 0 .. (Longest + 1) /\ Quiet \in [1 .. Second -> Nat]
<1>1. NoShare \in [Thread -> Nat] /\ \A t \in Thread : NoShare[t] * 1 <= NoShare[t] * 0
  BY DEF NoShare
<1>2. Summable(NoShare, Thread) /\ Total(NoShare, Thread) \in Nat
  BY <1>1, ShareSums, TotalNat
<1>3. Total(NoShare, Thread) * 1 <= Total(NoShare, Thread) * 0
  BY <1>1, <1>2, TotalScaled
<1>4. Quiet \in [1 .. Second -> Nat]
  BY FitsNew DEF History
<1>5. NoShare \in [Thread -> 0 .. (Wrap - 1)] /\ 0 \in 0 .. (Wrap - 1)
  BY WeightAssumption DEF NoShare
<1> QED BY <1>1, <1>2, <1>3, <1>4, <1>5, Bounds

\* What is new when the bandwidth has been divided.
LEMMA DividingStep ==
  ASSUME IoInv, Weighed(listed', weight', total', bandwidth'),
         limit' = Divided(listed', weight', total', bandwidth')
  PROVE  /\ total' \in Nat /\ WeightsAddUp' /\ SharesFit'
         /\ limit' \in [Group -> [Type -> Nat]]
         /\ \A g \in listed' : weight'[g] > 0
         /\ \A g \in listed' : \A type \in Type : limit'[g][type] <= Largest
<1>1. TypeOK
  BY DEF IoInv
<1>2. /\ limit' \in [Group -> [Type -> Nat]]
      /\ \A g \in listed', type \in Type : limit'[g][type] <= Largest
      /\ \A type \in Type : Total([g \in Group |-> limit'[g][type]], listed') <= bandwidth'
  BY <1>1, Redivided
<1>3. total' \in Nat
  BY GroupSums, TotalNat DEF Weighed
<1> QED BY <1>2, <1>3 DEF Weighed, WeightsAddUp, SharesFit

LEMMA CreateStep ==
  ASSUME IoInv, NEW g \in Group, NEW w \in Weights, Create(g, w)
  PROVE  IoInv'
<1>1. w \in Nat /\ w > 0 /\ TypeOK
  BY WeightAssumption DEF IoInv
<1>2. Weighed(listed', weight', total', bandwidth')
  <2>1. /\ weight' \in [Group -> Nat] /\ weight'[g] = w
        /\ \A h \in listed : weight'[h] = weight[h]
    BY <1>1 DEF Create, TypeOK
  <2>2. Summable(weight, listed)
    BY <1>1, GroupSums DEF TypeOK
  <2>3. Total(weight', listed) = total /\ Summable(weight', listed)
    BY <2>1, <2>2, TotalSame DEF IoInv, WeightsAddUp
  <2>4. Total(weight', listed \cup {g}) = Total(weight', listed) + weight'[g]
    BY <1>1, <2>1, <2>3, TotalAdd DEF Create
  <2>5. total' = Total(weight', listed')
    BY <2>1, <2>3, <2>4 DEF Create
  <2>6. \A h \in listed' : weight'[h] > 0
    BY <1>1, <2>1 DEF Create, IoInv, Configured
  <2> QED BY <1>1, <2>1, <2>5, <2>6 DEF Create, TypeOK, Weighed
<1>3. limit' = Divided(listed', weight', total', bandwidth')
  BY DEF Create
<1>4. /\ total' \in Nat /\ WeightsAddUp' /\ SharesFit'
      /\ limit' \in [Group -> [Type -> Nat]]
      /\ \A h \in listed' : weight'[h] > 0
      /\ \A h \in listed' : \A type \in Type : limit'[h][type] <= Largest
  BY <1>2, <1>3, DividingStep
<1>5. TypeOK'
  BY <1>1, <1>4, StartsEmpty, Bounds DEF Create, TypeOK
<1>6. ASSUME NEW h \in listed' PROVE span'[h] <= Longest /\ Threaded(h)' /\ Windowed(h)'
  <2>1. CASE h = g
    <3>1. /\ span'[h] = Second /\ weight'[h] = w /\ share'[h] = NoShare /\ allocated'[h] = 0
          /\ bytes'[h] = 0 /\ elapsed'[h] = 0 /\ recent'[h] = Quiet
      BY <2>1 DEF Create, IoInv, TypeOK
    <3> QED BY <1>1, <3>1, StartsEmpty, Bounds, FitsNew DEF Threaded, Windowed
  <2>2. CASE h # g
    <3>1. h \in listed /\ h \in Group
      BY <1>1, <2>2 DEF Create, TypeOK
    <3>2. /\ span'[h] = span[h] /\ weight'[h] = weight[h] /\ share'[h] = share[h]
          /\ allocated'[h] = allocated[h] /\ bytes'[h] = bytes[h]
          /\ elapsed'[h] = elapsed[h] /\ recent'[h] = recent[h]
          /\ lowered' = lowered /\ wrapped' = wrapped
      BY <1>1, <2>2, <3>1 DEF Create, TypeOK
    <3>3. span[h] <= Longest /\ Threaded(h) /\ Windowed(h)
      BY <3>1 DEF IoInv, Configured
    <3> QED BY <3>2, <3>3 DEF Threaded, Windowed
  <2> QED BY <2>1, <2>2
<1> QED BY <1>4, <1>5, <1>6 DEF IoInv, Configured

LEMMA AllocateWeightStep ==
  ASSUME IoInv, NEW g \in Group, NEW w \in Weights, AllocateWeight(g, w)
  PROVE  IoInv'
<1>1. w \in Nat /\ w > 0 /\ TypeOK /\ g \in listed
  BY WeightAssumption DEF IoInv, AllocateWeight
<1>2. Weighed(listed', weight', total', bandwidth')
  <2>1. /\ weight' \in [Group -> Nat] /\ weight'[g] = w
        /\ \A h \in listed \ {g} : weight'[h] = weight[h]
    BY <1>1 DEF AllocateWeight, TypeOK
  <2>2. Differs(weight, weight', listed, g)
    BY <1>1, <2>1, GroupSums DEF TypeOK, Differs
  <2>3. Total(weight', listed) = Total(weight, listed) - weight[g] + weight'[g]
    BY <2>2, TotalUpdate
  <2>4. total' = Total(weight', listed')
    BY <2>1, <2>3 DEF AllocateWeight, IoInv, WeightsAddUp
  <2>5. \A h \in listed' : weight'[h] > 0
    BY <1>1, <2>1 DEF AllocateWeight, IoInv, Configured
  <2> QED BY <1>1, <2>1, <2>4, <2>5 DEF AllocateWeight, TypeOK, Weighed
<1>3. limit' = Divided(listed', weight', total', bandwidth')
  BY DEF AllocateWeight
<1>4. /\ total' \in Nat /\ WeightsAddUp' /\ SharesFit'
      /\ limit' \in [Group -> [Type -> Nat]]
      /\ \A h \in listed' : weight'[h] > 0
      /\ \A h \in listed' : \A type \in Type : limit'[h][type] <= Largest
  BY <1>2, <1>3, DividingStep
<1>5. TypeOK'
  BY <1>1, <1>4 DEF AllocateWeight, TypeOK, window
<1>6. ASSUME NEW h \in listed' PROVE span'[h] <= Longest /\ Threaded(h)' /\ Windowed(h)'
  <2>1. h \in listed /\ h \in Group
    BY <1>1 DEF AllocateWeight, TypeOK
  <2>2. /\ span' = span /\ share' = share /\ allocated' = allocated /\ bytes' = bytes
        /\ elapsed' = elapsed /\ recent' = recent /\ wrapped' = wrapped
    BY DEF AllocateWeight, window
  <2>3. span[h] <= Longest /\ Threaded(h) /\ Windowed(h)
    BY <2>1 DEF IoInv, Configured
  <2>4. h \notin lowered' /\ h \notin wrapped =>
          h \notin lowered /\ allocated'[h] <= weight'[h]
    <3>1. CASE h = g
      BY <1>1, <2>1, <2>2, <2>3, <3>1 DEF AllocateWeight, Threaded, TypeOK
    <3>2. CASE h # g
      BY <1>1, <2>1, <2>2, <2>3, <3>2 DEF AllocateWeight, Threaded, TypeOK
    <3> QED BY <3>1, <3>2
  <2> QED BY <2>2, <2>3, <2>4 DEF Threaded, Windowed
<1> QED BY <1>4, <1>5, <1>6 DEF IoInv, Configured

LEMMA UpdateBandwidthStep ==
  ASSUME IoInv, NEW bw \in Bandwidths, UpdateBandwidth(bw)
  PROVE  IoInv'
<1>1. TypeOK /\ \A h \in listed : weight[h] > 0
  BY DEF IoInv, Configured
<1>2. Weighed(listed', weight', total', bandwidth')
  BY <1>1 DEF UpdateBandwidth, TypeOK, Weighed, IoInv, WeightsAddUp
<1>3. limit' = Divided(listed', weight', total', bandwidth')
  BY DEF UpdateBandwidth
<1>4. /\ total' \in Nat /\ WeightsAddUp' /\ SharesFit'
      /\ limit' \in [Group -> [Type -> Nat]]
      /\ \A h \in listed' : weight'[h] > 0
      /\ \A h \in listed' : \A type \in Type : limit'[h][type] <= Largest
  BY <1>2, <1>3, DividingStep
<1>5. TypeOK'
  BY <1>1, <1>4 DEF UpdateBandwidth, TypeOK, window
<1>6. ASSUME NEW h \in listed' PROVE span'[h] <= Longest /\ Threaded(h)' /\ Windowed(h)'
  <2>1. h \in listed
    BY DEF UpdateBandwidth
  <2>2. span[h] <= Longest /\ Threaded(h) /\ Windowed(h)
    BY <2>1 DEF IoInv, Configured
  <2> QED BY <2>2 DEF UpdateBandwidth, Threaded, Windowed, window
<1> QED BY <1>4, <1>5, <1>6 DEF IoInv, Configured

LEMMA DeleteStep ==
  ASSUME IoInv, NEW g \in Group, Delete(g)
  PROVE  IoInv'
<1> DEFINE l == Divided(listed', weight', total', bandwidth')
<1>1. TypeOK /\ g \in listed
  BY DEF IoInv, Delete
<1>2. Weighed(listed', weight', total', bandwidth')
  <2>1. /\ weight' \in [Group -> Nat] /\ \A h \in listed \ {g} : weight'[h] = weight[h]
    BY <1>1 DEF Delete, TypeOK
  <2>2. Summable(weight, listed)
    BY <1>1, GroupSums DEF TypeOK
  <2>3. /\ Total(weight, listed \ {g}) = Total(weight, listed) - weight[g]
        /\ Summable(weight, listed \ {g})
    BY <1>1, <2>2, TotalRemove
  <2>4. Total(weight', listed \ {g}) = Total(weight, listed \ {g})
    BY <2>1, <2>3, TotalSame
  <2>5. total' = Total(weight', listed')
    BY <2>3, <2>4 DEF Delete, IoInv, WeightsAddUp
  <2>6. \A h \in listed' : weight'[h] > 0
    BY <1>1, <2>1 DEF Delete, IoInv, Configured
  <2> QED BY <1>1, <2>1, <2>5, <2>6 DEF Delete, TypeOK, Weighed
<1>3. /\ l \in [Group -> [Type -> Nat]]
      /\ \A h \in listed', type \in Type : l[h][type] <= Largest
      /\ \A type \in Type : Total([h \in Group |-> l[h][type]], listed') <= bandwidth'
  BY <1>1, <1>2, Redivided
<1>4. limit' = [l EXCEPT ![g] = NoLimit]
  BY DEF Delete
<1> HIDE DEF l
<1>5. NoLimit \in [Type -> Nat] /\ listed' = listed \ {g} /\ listed' \subseteq Group
  BY <1>1 DEF NoLimit, Delete, TypeOK
<1>6. limit' \in [Group -> [Type -> Nat]] /\ \A h \in listed' : limit'[h] = l[h]
  BY <1>3, <1>4, <1>5
<1>7. SharesFit'
  <2>1. ASSUME NEW type \in Type
        PROVE  Total([h \in Group |-> limit'[h][type]], listed') <= bandwidth'
    <3> DEFINE f == [h \in Group |-> l[h][type]]
               k == [h \in Group |-> limit'[h][type]]
    <3>1. \A h \in listed' : f[h] \in Nat /\ k[h] = f[h]
      BY <1>3, <1>5, <1>6
    <3>2. Total(f, listed') <= bandwidth'
      BY <1>3
    <3> HIDE DEF f, k
    <3>3. Summable(f, listed')
      BY <1>5, <3>1, GroupSums
    <3>4. Total(k, listed') = Total(f, listed')
      BY <3>1, <3>3, TotalSame
    <3>5. Total(k, listed') <= bandwidth'
      BY <3>2, <3>4
    <3> QED BY <3>5 DEF k
  <2> QED BY <2>1 DEF SharesFit
<1>8. WeightsAddUp' /\ total' \in Nat
  BY <1>2, GroupSums, TotalNat DEF Weighed, WeightsAddUp
<1>9. TypeOK'
  BY <1>1, <1>6, <1>8, StartsEmpty, Bounds DEF Delete, TypeOK
<1>10. ASSUME NEW h \in listed'
       PROVE  /\ weight'[h] > 0 /\ span'[h] <= Longest /\ Threaded(h)' /\ Windowed(h)'
              /\ \A type \in Type : limit'[h][type] <= Largest
  <2>1. h \in listed /\ h \in Group /\ h # g
    BY <1>1 DEF Delete, TypeOK
  <2>2. /\ span'[h] = span[h] /\ weight'[h] = weight[h] /\ share'[h] = share[h]
        /\ allocated'[h] = allocated[h] /\ bytes'[h] = bytes[h]
        /\ elapsed'[h] = elapsed[h] /\ recent'[h] = recent[h]
        /\ (h \notin lowered' => h \notin lowered)
        /\ (h \notin wrapped' => h \notin wrapped)
    BY <1>1, <2>1 DEF Delete, TypeOK
  <2>3. weight[h] > 0 /\ span[h] <= Longest /\ Threaded(h) /\ Windowed(h)
    BY <2>1 DEF IoInv, Configured
  <2>4. \A type \in Type : limit'[h][type] <= Largest
    BY <1>3, <1>6
  <2> QED BY <2>2, <2>3, <2>4 DEF Threaded, Windowed
<1> QED BY <1>7, <1>8, <1>9, <1>10 DEF IoInv, Configured

-----------------------------------------------------------------------------
(* The steps that leave the division alone *)

\* The sums over the groups are those of before.
LEMMA SameDivision ==
  ASSUME IoInv, UNCHANGED <<manager, weight, limit, explicit>>
  PROVE  WeightsAddUp' /\ SharesFit'
BY DEF IoInv, WeightsAddUp, SharesFit, manager

LEMMA SetLimitsStep ==
  ASSUME IoInv, NEW g \in Group, NEW l \in Limits, NEW w \in Windows, SetLimits(g, l, w)
  PROVE  IoInv'
<1>1. TypeOK /\ g \in listed
  BY DEF IoInv, SetLimits
<1>2. l \in Nat /\ l <= Largest /\ w \in Nat /\ w <= Longest
  BY Bounds
<1>3. WeightsAddUp' /\ SharesFit'
  BY DEF IoInv, SetLimits, WeightsAddUp, SharesFit, manager
<1>4. TypeOK'
  BY <1>1, <1>2 DEF SetLimits, TypeOK, manager, window
<1>5. ASSUME NEW h \in listed'
      PROVE  /\ weight'[h] > 0 /\ span'[h] <= Longest /\ Threaded(h)' /\ Windowed(h)'
             /\ \A type \in Type : limit'[h][type] <= Largest
  <2>1. h \in listed /\ h \in Group
    BY <1>1 DEF SetLimits, TypeOK, manager
  <2>2. /\ weight[h] > 0 /\ span[h] <= Longest /\ Threaded(h) /\ Windowed(h)
        /\ \A type \in Type : limit[h][type] <= Largest
    BY <2>1 DEF IoInv, Configured
  <2>3. Threaded(h)' /\ Windowed(h)' /\ weight'[h] > 0
    BY <2>2 DEF SetLimits, Threaded, Windowed, window
  <2>4. CASE h = g
    BY <1>1, <1>2, <2>3, <2>4 DEF SetLimits, TypeOK
  <2>5. CASE h # g
    BY <1>1, <2>1, <2>2, <2>3, <2>5 DEF SetLimits, TypeOK
  <2> QED BY <2>4, <2>5
<1> QED BY <1>3, <1>4, <1>5 DEF IoInv, Configured

\* The sum is a 32 bit number again, and is the sum itself if nothing wraps.
LEMMA WrappedRange ==
  ASSUME NEW a \in 0 .. (Wrap - 1), NEW b \in 0 .. (Wrap - 1), NEW c \in 0 .. (Wrap - 1)
  PROVE  /\ Wrapped(a - b) \in 0 .. (Wrap - 1)
         /\ Wrapped(Wrapped(a - b) + c) \in 0 .. (Wrap - 1)
         /\ b <= a /\ Wrapped(a - b) + c < Wrap
              => Wrapped(Wrapped(a - b) + c) = a - b + c
<1>1. Wrap \in Nat
  BY WeightAssumption
<1>2. Wrapped(a - b) = IF b <= a THEN a - b ELSE a - b + Wrap
  BY <1>1 DEF Wrapped
<1>3. Wrapped(a - b) \in 0 .. (Wrap - 1)
  BY <1>1, <1>2
<1>4. ASSUME NEW d \in 0 .. (Wrap - 1)
      PROVE  Wrapped(d + c) = IF d + c < Wrap THEN d + c ELSE d + c - Wrap
  BY <1>1 DEF Wrapped
<1>5. ASSUME NEW d \in 0 .. (Wrap - 1)
      PROVE  (IF d + c < Wrap THEN d + c ELSE d + c - Wrap) \in 0 .. (Wrap - 1)
  BY <1>1
<1>6. Wrapped(Wrapped(a - b) + c) \in 0 .. (Wrap - 1)
  BY <1>3, <1>4, <1>5
<1>7. b <= a /\ Wrapped(a - b) + c < Wrap
        => Wrapped(Wrapped(a - b) + c) = a - b + c
  BY <1>2, <1>3, <1>4
<1> QED BY <1>3, <1>6, <1>7

\* A thread gets weight n: the sum over the threads follows as long as it does
\* not wrap.
LEMMA ThreadStep ==
  ASSUME IoInv, NEW g \in listed, NEW t \in Thread, NEW n \in 0 .. (Wrap - 1),
         n # 0 => Wrapped(Wrapped(allocated[g] - share[g][t]) + n) <= weight[g],
         Weigh(g, t, n)
  PROVE  IoInv'
<1> DEFINE sum == Wrapped(allocated[g] - share[g][t]) + n
<1>0. /\ allocated' = [allocated EXCEPT ![g] = Wrapped(sum)]
      /\ share' = [share EXCEPT ![g][t] = n]
      /\ wrapped' = IF share[g][t] <= allocated[g] /\ sum < Wrap THEN wrapped
                                                                 ELSE wrapped \cup {g}
      /\ UNCHANGED <<manager, weight, limit, span, window, explicit, lowered>>
  BY DEF Weigh
<1>1. TypeOK /\ g \in Group /\ Threaded(g)
  BY DEF IoInv, TypeOK
<1>2. /\ share[g] \in [Thread -> 0 .. (Wrap - 1)] /\ share[g][t] \in 0 .. (Wrap - 1)
      /\ allocated[g] \in 0 .. (Wrap - 1)
      /\ weight[g] \in Nat /\ Wrap \in Nat \ {0}
  BY <1>1, WeightAssumption DEF TypeOK
<1>3. /\ share'[g] = [share[g] EXCEPT ![t] = n]
      /\ allocated'[g] = Wrapped(sum)
      /\ \A h \in Group \ {g} : share'[h] = share[h] /\ allocated'[h] = allocated[h]
  BY <1>0, <1>1 DEF TypeOK
<1>4. /\ Wrapped(sum) \in 0 .. (Wrap - 1)
      /\ share[g][t] <= allocated[g] /\ sum < Wrap
           => Wrapped(sum) = allocated[g] - share[g][t] + n
  BY <1>2, WrappedRange
<1>5. n # 0 => Wrapped(sum) <= weight[g]
  OBVIOUS
<1> HIDE DEF sum
<1>6. Threaded(g)'
  <2> SUFFICES ASSUME g \notin wrapped'
               PROVE  /\ allocated'[g] = Total(share'[g], Thread)
                      /\ g \notin lowered' => allocated'[g] <= weight'[g]
    BY DEF Threaded
  <2>1. g \notin wrapped /\ share[g][t] <= allocated[g] /\ sum < Wrap
    BY <1>0
  <2>2. allocated'[g] = allocated[g] - share[g][t] + n
    BY <1>3, <1>4, <2>1
  <2>3. share[g] \in [Thread -> Nat] /\ share[g][t] \in Nat /\ n \in Nat
    BY <1>2
  <2>4. /\ share'[g] \in [Thread -> Nat] /\ Differs(share[g], share'[g], Thread, t)
        /\ share'[g][t] = n
    BY <1>3, <2>3, ShareSums DEF Differs
  <2>5. Total(share'[g], Thread) = Total(share[g], Thread) - share[g][t] + n
    BY <2>4, TotalUpdate
  <2>6. allocated[g] = Total(share[g], Thread)
    BY <1>1, <2>1 DEF Threaded
  <2>7. allocated'[g] = Total(share'[g], Thread)
    BY <2>2, <2>5, <2>6
  <2>8. g \notin lowered' => allocated'[g] <= weight'[g]
    <3>1. CASE n = 0
      <4>1. allocated[g] \in Nat /\ allocated'[g] <= allocated[g]
        BY <1>2, <2>2, <3>1
      <4>2. g \notin lowered => allocated[g] <= weight[g]
        BY <1>1, <2>1 DEF Threaded
      <4>3. allocated'[g] \in Nat
        BY <1>2, <1>3, <1>4
      <4>4. weight' = weight /\ lowered' = lowered
        BY <1>0
      <4> QED BY <1>2, <4>1, <4>2, <4>3, <4>4
    <3>2. CASE n # 0
      BY <1>0, <1>3, <1>5, <3>2
    <3> QED BY <3>1, <3>2
  <2> QED BY <2>7, <2>8
<1>7. TypeOK'
  <2>1. share' \in [Group -> [Thread -> 0 .. (Wrap - 1)]]
    BY <1>0, <1>1, <1>2 DEF TypeOK
  <2>2. allocated' \in [Group -> 0 .. (Wrap - 1)]
    BY <1>0, <1>1, <1>4 DEF TypeOK
  <2>3. wrapped' \subseteq Group
    BY <1>0, <1>1 DEF TypeOK
  <2> QED BY <1>0, <1>1, <2>1, <2>2, <2>3 DEF TypeOK, manager, window
<1>8. ASSUME NEW h \in listed' PROVE Threaded(h)' /\ Windowed(h)'
  <2>1. h \in listed /\ h \in Group
    BY <1>0, <1>1 DEF TypeOK, manager
  <2>2. Threaded(h) /\ Windowed(h)
    BY <2>1 DEF IoInv
  <2>3. Windowed(h)'
    BY <1>0, <2>2 DEF Windowed, window
  <2>4. CASE h = g
    BY <1>6, <2>3, <2>4
  <2>5. CASE h # g
    <3>1. (h \notin wrapped' => h \notin wrapped) /\ lowered' = lowered /\ weight' = weight
      BY <1>0
    <3> QED BY <1>3, <2>1, <2>2, <2>3, <2>5, <3>1 DEF Threaded
  <2> QED BY <2>4, <2>5
<1>9. WeightsAddUp' /\ SharesFit'
  BY <1>0, SameDivision
<1>10. Configured'
  BY <1>0 DEF IoInv, Configured, manager
<1> QED BY <1>7, <1>8, <1>9, <1>10 DEF IoInv

LEMMA AddThreadStep ==
  ASSUME IoInv, NEW g \in Group, NEW t \in Thread, NEW w \in Weights, AddThread(g, t, w)
  PROVE  IoInv'
<1>1. w \in 0 .. (Wrap - 1)
  BY WeightAssumption
<1> QED BY <1>1, ThreadStep DEF AddThread

LEMMA RemoveThreadStep ==
  ASSUME IoInv, NEW g \in Group, NEW t \in Thread, RemoveThread(g, t)
  PROVE  IoInv'
<1>1. g \in listed /\ 0 \in 0 .. (Wrap - 1)
  BY WeightAssumption DEF RemoveThread
<1> QED BY <1>1, ThreadStep DEF RemoveThread

\* What a step of the windows leaves as it was.
Rest == UNCHANGED <<manager, weight, limit, span, share, allocated, excuses>>

LEMMA WindowStep ==
  ASSUME IoInv, Rest, bytes' \in [Group -> Nat], elapsed' \in [Group -> 0 .. (Longest + 1)],
         recent' \in [Group -> History], \A h \in listed : Fits(bytes'[h], elapsed'[h], recent'[h])
  PROVE  IoInv'
<1>1. TypeOK'
  BY DEF IoInv, Rest, TypeOK, History, manager, excuses
<1>2. WeightsAddUp' /\ SharesFit'
  BY SameDivision DEF Rest, excuses
<1>3. Configured'
  BY DEF IoInv, Configured, Rest, manager
<1>4. ASSUME NEW h \in listed' PROVE Threaded(h)' /\ Windowed(h)'
  <2>1. h \in listed
    BY DEF Rest, manager
  <2>2. Threaded(h) /\ Fits(bytes'[h], elapsed'[h], recent'[h])
    BY <2>1 DEF IoInv
  <2> QED BY <2>2 DEF Threaded, Windowed, Rest, excuses
<1> QED BY <1>1, <1>2, <1>3, <1>4 DEF IoInv

LEMMA TickStep ==
  ASSUME IoInv, Tick
  PROVE  IoInv'
<1>1. TypeOK /\ Rest /\ bytes' = bytes
  BY DEF IoInv, Tick, Rest
<1>2. ASSUME NEW h \in Group
      PROVE  /\ bytes[h] \in Nat /\ elapsed[h] \in 0 .. (Longest + 1) /\ recent[h] \in History
             /\ elapsed'[h] = IF h \in listed /\ elapsed[h] <= Longest
                              THEN elapsed[h] + 1 ELSE elapsed[h]
             /\ recent'[h] = Passed(recent[h]) /\ recent'[h] \in History
             /\ elapsed'[h] \in 0 .. (Longest + 1)
  <2>1. bytes[h] \in Nat /\ elapsed[h] \in 0 .. (Longest + 1) /\ recent[h] \in History
    BY <1>1 DEF TypeOK, History
  <2>2. /\ elapsed'[h] = IF h \in listed /\ elapsed[h] <= Longest
                         THEN elapsed[h] + 1 ELSE elapsed[h]
        /\ recent'[h] = Passed(recent[h])
    BY DEF Tick, Passed
  <2>3. Passed(recent[h]) \in History
    BY <2>1, TickShifts
  <2>4. elapsed'[h] \in 0 .. (Longest + 1)
    BY <2>1, <2>2, Bounds
  <2> QED BY <2>1, <2>2, <2>3, <2>4
<1>3. /\ bytes' \in [Group -> Nat] /\ elapsed' \in [Group -> 0 .. (Longest + 1)]
      /\ recent' \in [Group -> History]
  BY <1>1, <1>2 DEF TypeOK, Tick
<1>4. ASSUME NEW h \in listed PROVE Fits(bytes'[h], elapsed'[h], recent'[h])
  <2>1. h \in Group /\ Fits(bytes[h], elapsed[h], recent[h])
    BY <1>1 DEF IoInv, TypeOK, Windowed
  <2>2. elapsed'[h] = IF elapsed[h] <= Longest THEN elapsed[h] + 1 ELSE elapsed[h]
    BY <1>2, <2>1
  <2>3. Fits(bytes[h], elapsed'[h], Passed(recent[h]))
    BY <1>2, <2>1, <2>2, FitsTick
  <2> QED BY <1>1, <1>2, <2>1, <2>3
<1> QED BY <1>1, <1>3, <1>4, WindowStep

LEMMA HandleRequestStep ==
  ASSUME IoInv, NEW g \in Group, NEW type \in Type, NEW n \in Sizes, HandleRequest(g, type, n)
  PROVE  IoInv'
<1> DEFINE b == WindowBytes(g)
           e == WindowElapsed(g)
           s == recent[g]
           l == limit[g][type]
<1>1. TypeOK /\ Rest /\ g \in listed /\ n \in Nat
  BY TickAssumption DEF IoInv, HandleRequest, Rest
<1>2. /\ s \in History /\ l \in Nat /\ l <= Largest /\ span[g] \in Nat /\ span[g] <= Longest
      /\ Fits(bytes[g], elapsed[g], s) /\ bytes[g] \in Nat /\ elapsed[g] \in 0 .. (Longest + 1)
  BY <1>1 DEF IoInv, TypeOK, Configured, Windowed, History
<1>3. b \in Nat /\ e \in 0 .. Longest /\ Fits(b, e, s)
  <2>1. CASE Expired(g)
    <3>1. b = 0 /\ e = 0 /\ elapsed[g] >= 1
      BY <1>2, <2>1 DEF WindowBytes, WindowElapsed, Expired
    <3>2. Fits(0, 0, s)
      BY <1>2, <3>1, FitsRestart
    <3> QED BY <3>1, <3>2, Bounds
  <2>2. CASE ~Expired(g)
    <3>1. b = bytes[g] /\ e = elapsed[g] /\ elapsed[g] <= span[g]
      BY <1>2, <2>2 DEF WindowBytes, WindowElapsed, Expired
    <3> QED BY <1>2, <3>1, Bounds
  <2> QED BY <2>1, <2>2
<1>4. e \in 0 .. (Longest + 1)
  BY <1>3, Bounds
<1>5. /\ bytes \in [Group -> Nat] /\ elapsed \in [Group -> 0 .. (Longest + 1)]
      /\ recent \in [Group -> History] /\ listed \subseteq Group
      /\ \A h \in listed : Fits(bytes[h], elapsed[h], recent[h])
  BY <1>1 DEF IoInv, TypeOK, Windowed, History
<1>6. elapsed' = [elapsed EXCEPT ![g] = e]
  BY DEF HandleRequest
<1>7. CASE Throttled(g, type, n)
  <2>1. bytes' = [bytes EXCEPT ![g] = b] /\ recent' = recent
    BY <1>7 DEF HandleRequest
  <2> HIDE DEF b, e
  <2>2. \A h \in listed : Fits(bytes'[h], elapsed'[h], recent'[h])
    BY <1>1, <1>3, <1>5, <1>6, <2>1
  <2> QED BY <1>1, <1>3, <1>4, <1>5, <1>6, <2>1, <2>2, WindowStep
<1>8. CASE ~Throttled(g, type, n)
  <2> DEFINE d == IF e = 0 THEN 1 ELSE e
             h1 == [s EXCEPT ![Second] = @ + n]
  <2>1. bytes' = [bytes EXCEPT ![g] = b + n] /\ recent' = [recent EXCEPT ![g] = h1]
    BY <1>8 DEF HandleRequest
  <2>2. b \div d + n \div d <= l \div TicksPerSecond
    <3>1. ~(b \div d + n \div d > l \div TicksPerSecond)
      BY <1>8 DEF Throttled
    <3> HIDE DEF b, e, l
    <3>2. d \in Nat \ {0}
      BY <1>3
    <3>3. b \div d \in Nat /\ n \div d \in Nat /\ l \div TicksPerSecond \in Nat
      BY <1>1, <1>2, <1>3, <3>2, TickAssumption, Quotient
    <3> QED BY <3>1, <3>3
  <2>3. h1 \in History
    <3>1. Second \in 1 .. Second /\ s[Second] \in Nat
      BY <1>2, Bounds DEF History
    <3> QED BY <1>1, <1>2, <3>1 DEF History
  <2>4. Fits(b + n, e, h1)
    <3> HIDE DEF b, e, s, l
    <3> QED BY <1>1, <1>2, <1>3, <2>2, FitsGrant
  <2> HIDE DEF b, e, h1
  <2>5. b + n \in Nat
    BY <1>1, <1>3
  <2>6. \A h \in listed : Fits(bytes'[h], elapsed'[h], recent'[h])
    BY <1>1, <1>5, <1>6, <2>1, <2>4
  <2> QED BY <1>1, <1>4, <1>5, <1>6, <2>1, <2>3, <2>5, <2>6, WindowStep
<1> QED BY <1>7, <1>8

-----------------------------------------------------------------------------
(* The theorems *)

LEMMA IoInvInit ==
  ASSUME Init
  PROVE  IoInv
<1>1. Weighed(listed, weight, total, bandwidth)
  <2>1. Summable(weight, {})
    BY GroupSums
  <2> QED BY <2>1, TotalNat DEF Init, Weighed
<1>2. TypeOK
  BY StartsEmpty, Bounds DEF Init, TypeOK, NoLimit
<1>3. SharesFit
  <2>1. \A f : Total(f, {}) = 0
    BY GroupSums, TotalNat
  <2>2. bandwidth \in Nat /\ bandwidth >= 0
    BY BandwidthAssumption DEF Init
  <2> QED BY <2>1, <2>2 DEF Init, SharesFit
<1> QED BY <1>1, <1>2, <1>3 DEF IoInv, Init, Configured, WeightsAddUp, Weighed

LEMMA IoInvStep ==
  ASSUME IoInv, [Next]_vars
  PROVE  IoInv'
<1>1. ASSUME NEW g \in Group, NEW w \in Weights, Create(g, w) \/ AllocateWeight(g, w)
      PROVE  IoInv'
  BY <1>1, CreateStep, AllocateWeightStep
<1>2. ASSUME NEW bw \in Bandwidths, UpdateBandwidth(bw) PROVE IoInv'
  BY <1>2, UpdateBandwidthStep
<1>3. ASSUME NEW g \in Group, Delete(g) PROVE IoInv'
  BY <1>3, DeleteStep
<1>4. ASSUME NEW g \in Group, NEW l \in Limits, NEW w \in Windows, SetLimits(g, l, w)
      PROVE  IoInv'
  BY <1>4, SetLimitsStep
<1>5. ASSUME NEW g \in Group, NEW t \in Thread, RemoveThread(g, t) PROVE IoInv'
  BY <1>5, RemoveThreadStep
<1>6. ASSUME NEW g \in Group, NEW t \in Thread, NEW w \in Weights, AddThread(g, t, w)
      PROVE  IoInv'
  BY <1>6, AddThreadStep
<1>7. CASE Tick
  BY <1>7, TickStep
<1>8. ASSUME NEW g \in Group, NEW type \in Type, NEW n \in Sizes, HandleRequest(g, type, n)
      PROVE  IoInv'
  BY <1>8, HandleRequestStep
<1>9. CASE UNCHANGED vars
  <2>1. Rest /\ UNCHANGED window
    BY <1>9 DEF vars, Rest
  <2>2. bytes' = bytes /\ elapsed' = elapsed /\ recent' = recent
    BY <2>1 DEF window
  <2>3. /\ bytes \in [Group -> Nat] /\ elapsed \in [Group -> 0 .. (Longest + 1)]
        /\ recent \in [Group -> History]
        /\ \A h \in listed : Fits(bytes[h], elapsed[h], recent[h])
    BY DEF IoInv, TypeOK, Windowed, History
  <2> QED BY <2>1, <2>2, <2>3, WindowStep
<1> QED BY <1>1, <1>2, <1>3, <1>4, <1>5, <1>6, <1>7, <1>8, <1>9 DEF Next

LEMMA IoInvHolds == Spec => []IoInv
<1>1. Init => IoInv
  BY IoInvInit
<1>2. IoInv /\ [Next]_vars => IoInv'
  BY IoInvStep
<1> QED BY <1>1, <1>2, PTL DEF Spec

\* The unsigned total of the IO cgroup manager does not wrap below zero, whatever
\* the order in which groups and threads come and go.
THEOREM IoTypeCorrect == Spec => []TypeOK
<1>1. IoInv => TypeOK
  BY DEF IoInv
<1> QED BY <1>1, IoInvHolds, PTL

\* manager->total_weight is the sum of the weights on the list through every
\* sequence of rtems_io_cgroup_create(), allocate_weight() and delete().
THEOREM IoWeightsAddUp == Spec => []WeightsAddUp
<1>1. IoInv => WeightsAddUp
  BY DEF IoInv
<1> QED BY <1>1, IoInvHolds, PTL

\* The limits that the code divides the bandwidth into never promise more than
\* the bandwidth, until set_limits() replaces one of them.
THEOREM IoSharesFit == Spec => []SharesFit
<1>1. IoInv => SharesFit
  BY DEF IoInv
<1> QED BY <1>1, IoInvHolds, PTL

\* A group accounts for the weights of its threads, which fit in its own unless
\* rtems_io_cgroup_allocate_weight() lowered it, as long as their uint32_t sum has
\* not wrapped.
THEOREM IoThreadsFit == Spec => []ThreadsFit
<1>1. IoInv => ThreadsFit
  BY DEF IoInv, ThreadsFit, Threaded
<1> QED BY <1>1, IoInvHolds, PTL

\* The check of rtems_io_cgroup_check_throttle() bounds the bytes of a window by
\* its time, whatever requests, ticks and changes of limits and windows come.
THEOREM IoWindowBounded == Spec => []WindowBounded
<1>1. ASSUME IoInv, NEW g \in listed PROVE bytes[g] <= Allowance(Max({1, elapsed[g]}))
  <2> DEFINE e == elapsed[g]
             m == Max({1, e})
  <2>1. bytes[g] \in Nat /\ e \in 0 .. (Longest + 1) /\ bytes[g] <= Allowance(Age(e))
    BY <1>1 DEF IoInv, TypeOK, Windowed, Fits
  <2> HIDE DEF e
  <2>2. e \in Nat /\ Age(e) \in Nat /\ Age(e) >= 1 /\ Allowance(Age(e)) \in Nat
    BY <2>1, AgeType
  <2>3. m \in Nat /\ 1 <= m /\ e <= m
    <3>1. {1, e} \in SUBSET Nat /\ IsFiniteSet({1, e}) /\ {1, e} # {}
      <4>1. IsFiniteSet({1} \cup {e})
        BY FS_Singleton, FS_AddElement
      <4>2. {1, e} = {1} \cup {e}
        OBVIOUS
      <4> QED BY <2>2, <4>1, <4>2
    <3>2. Max({1, e}) \in {1, e} /\ \A y \in {1, e} : y <= Max({1, e})
      BY <3>1, MaxIsLargest
    <3> QED BY <2>2, <3>2
  <2> HIDE DEF m
  <2>4. Age(e) <= m
    BY <2>2, <2>3, Bounds DEF Age
  <2>5. Allowance(Age(e)) <= Allowance(m) /\ Allowance(m) \in Nat
    BY <2>2, <2>3, <2>4, AllowanceGrows
  <2>6. bytes[g] <= Allowance(m)
    BY <2>1, <2>2, <2>5
  <2> QED BY <2>6 DEF m, e
<1>2. IoInv => WindowBounded
  BY <1>1 DEF WindowBounded
<1> QED BY <1>2, IoInvHolds, PTL

\* A window of io_cgroup.c restarts and does not slide; still no second sees more
\* than the bytes of the longest window and of one second of the bandwidth.
THEOREM IoBurstBounded == Spec => []BurstBounded
<1>1. ASSUME IoInv, NEW g \in listed
      PROVE  Total(recent[g], 1 .. Second) <= Allowance(Longest) + Allowance(Second)
  <2> DEFINE b == bytes[g]
             e == elapsed[g]
             s == recent[g]
  <2>1. b \in Nat /\ e \in 0 .. (Longest + 1) /\ s \in History /\ Fits(b, e, s)
    BY <1>1 DEF IoInv, TypeOK, Windowed, History
  <2> HIDE DEF b, e, s
  <2>2. Second \in Nat /\ Second >= 1 /\ Longest \in Nat /\ Longest >= 1 /\ Rate \in Nat
        /\ Rate >= 2 /\ Second \in 1 .. Second
    BY Bounds
  <2>3. /\ e \in Nat /\ Age(e) \in Nat /\ Age(e) >= 1
        /\ Allowance(Age(e)) \in Nat /\ Allowance(Age(e)) <= Allowance(Longest)
        /\ Allowance(Longest) \in Nat /\ Allowance(Age(e)) = Rate * Age(e) - 2
    BY <2>1, AgeType
  <2>4. Late(s, Second) = Total(s, 1 .. Second) /\ Total(s, 1 .. Second) \in Nat
    <3>1. Second - Second + 1 = 1
      BY <2>2
    <3> QED BY <2>1, <2>2, <3>1, HistorySums DEF Late
  <2>5. Allowance(Second) \in Nat /\ Allowance(Second) = Rate * Second - 2
    BY <2>2, AllowanceGrows
  <2>6. LateFits(b, e, s, Second) /\ b <= Allowance(Age(e))
    BY <2>1, <2>2 DEF Fits
  <2>7. CASE Second <= e
    <3>1. Late(s, Second) <= b
      BY <2>6, <2>7 DEF LateFits
    <3>2. Total(s, 1 .. Second) <= Allowance(Longest) + Allowance(Second)
      BY <2>1, <2>3, <2>4, <2>5, <2>6, <3>1
    <3> QED BY <3>2 DEF s
  <2>8. CASE ~(Second <= e)
    <3>1. Late(s, Second) <= b + Allowance(Longest) + Rate * (Second - 1 - e)
      BY <2>6, <2>8 DEF LateFits
    <3>2. Age(e) + (Second - 1 - e) <= Second /\ Second - 1 - e \in Nat
      BY <2>2, <2>3, <2>8 DEF Age
    <3>3. ASSUME NEW r \in Nat, NEW x \in Nat, NEW y \in Nat, x + y <= Second
          PROVE  r * x + r * y <= r * Second /\ r * x \in Nat /\ r * y \in Nat /\ r * Second \in Nat
      <4>1. r * (x + y) <= r * Second
        BY <2>2, <3>3
      <4>2. r * (x + y) = r * x + r * y
        BY <3>3
      <4> QED BY <2>2, <3>3, <4>1, <4>2
    <3>4. /\ Rate * Age(e) + Rate * (Second - 1 - e) <= Rate * Second
          /\ Rate * Age(e) \in Nat /\ Rate * (Second - 1 - e) \in Nat /\ Rate * Second \in Nat
      BY <2>2, <2>3, <3>2, <3>3
    <3>5. b + Rate * (Second - 1 - e) <= Allowance(Second)
      BY <2>1, <2>3, <2>5, <2>6, <3>4
    <3>6. ASSUME NEW x \in Nat, NEW y \in Nat, NEW z \in Nat, NEW u \in Nat,
                 u <= b + y + x, b + x <= z
          PROVE  u <= y + z
      BY <2>1, <3>6
    <3>7. Total(s, 1 .. Second) <= b + Allowance(Longest) + Rate * (Second - 1 - e)
      BY <2>4, <3>1
    <3>8. Total(s, 1 .. Second) <= Allowance(Longest) + Allowance(Second)
      BY <2>3, <2>4, <2>5, <3>4, <3>5, <3>6, <3>7
    <3> QED BY <3>8 DEF s
  <2> QED BY <2>7, <2>8
<1>2. IoInv => BurstBounded
  BY <1>1 DEF BurstBounded
<1> QED BY <1>2, IoInvHolds, PTL
=============================================================================
