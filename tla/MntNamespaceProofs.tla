------------------------- MODULE MntNamespaceProofs -------------------------
(***************************************************************************)
(* Proofs about mount namespaces, for any number of threads, namespaces,   *)
(* mount targets, paths and evaluations, in programs without the stray     *)
(* unmount() calls that MntNamespace lets the environment make.            *)
(*                                                                         *)
(* The first part is about the three folds of the model: the selection of  *)
(* an entry by find_best_mount_for_path(), the list after an unmount() and *)
(* the walk along a path.  Each is shown to run through a sequence of      *)
(* results, one per element, and what the last one says is shown by        *)
(* induction over that sequence.  The second part is the inductive         *)
(* invariant, with a lemma for every action; the third what follows.       *)
(***************************************************************************)
EXTENDS MntNamespace, FoldTheorems, SequenceTheorems

\* The set of the indices of a sequence.
LEMMA IndexSet ==
  ASSUME NEW S, NEW s \in Seq(S)
  PROVE  Len(s) \in Nat /\ DOMAIN s = 1 .. Len(s) /\ \A i \in 1 .. Len(s) : s[i] \in S
BY ElementOfSeq

-----------------------------------------------------------------------------
(* find_best_mount_for_path() *)

Best == [fs : Fs \cup {Nowhere}, len : Nat, invalid : BOOLEAN]
NoBest == [fs |-> Nowhere, len |-> 0, invalid |-> FALSE]
Better(b, f, usable, path) ==
  IF ~Matches(f, path) \/ 1 + Len(f) <= b.len THEN b
  ELSE IF f \in usable
  THEN [fs |-> f, len |-> 1 + Len(f), invalid |-> FALSE]
  ELSE IF b.len = 0 THEN [b EXCEPT !.len = 1 + Len(f), !.invalid = TRUE]
  ELSE b

\* A file system is a path.
LEMMA FsIsPath ==
  ASSUME NEW f \in Fs
  PROVE  f \in Seq(Name) /\ Len(f) \in Nat /\ f # Nowhere
<1>1. f \in Seq(Name)
  <2>1. RootFs \in Seq(Name)
    BY EmptySeq DEF RootFs
  <2>2. Target \subseteq Seq(Name)
    BY PathAssumption
  <2> QED BY <2>1, <2>2 DEF Fs
<1> QED BY <1>1, PathAssumption

\* The loop over a list of entries, iteration by iteration.
BestRun(h, entries, usable, path) ==
  /\ h \in [0 .. Len(entries) -> Best]
  /\ h[0] = NoBest /\ BestOf(entries, usable, path) = h[Len(entries)]
  /\ \A k \in 1 .. Len(entries) : h[k] = Better(h[k - 1], entries[k], usable, path)

\* The fold of find_best_mount_for_path() goes through one result per entry.
LEMMA BestSteps ==
  ASSUME NEW entries \in Seq(Fs), NEW usable, NEW path
  PROVE  \E h : BestRun(h, entries, usable, path)
<1> DEFINE n == Len(entries)
           F == [a \in Best \X (1 .. n) |-> Better(a[1], entries[a[2]], usable, path)]
           Rec(g) == [s \in SUBSET DOMAIN entries |->
                        IF s = {} THEN NoBest
                        ELSE Better(g[s \ {Max(s)}], entries[Max(s)], usable, path)]
<1>1. n \in Nat /\ DOMAIN entries = 1 .. n /\ \A i \in 1 .. n : entries[i] \in Fs
  BY IndexSet
<1>2. NoBest \in Best
  BY DEF NoBest, Best
<1>3. ASSUME NEW b \in Best, NEW f \in Fs PROVE Better(b, f, usable, path) \in Best
  <2>1. 1 + Len(f) \in Nat
    BY FsIsPath
  <2> QED BY <2>1 DEF Better, Best
<1>4. F \in [Best \X (1 .. n) -> Best]
  BY <1>1, <1>3
<1>5. PICK g \in [SUBSET (1 .. n) -> Best] : Folded(g, n, F, NoBest)
  <2> HIDE DEF n, F
  <2> QED BY <1>1, <1>2, <1>4, FoldExists
<1>6. g = Rec(g)
  <2>1. ASSUME NEW s \in SUBSET (1 .. n)
        PROVE  g[s] = IF s = {} THEN NoBest
                      ELSE Better(g[s \ {Max(s)}], entries[Max(s)], usable, path)
    <3>1. CASE s = {}
      BY <1>5, <3>1 DEF Folded
    <3>2. CASE s # {}
      <4>1. Max(s) \in 1 .. n /\ s \ {Max(s)} \in SUBSET (1 .. n)
        BY <1>1, <3>2, IndexMax
      <4>2. g[s \ {Max(s)}] \in Best
        BY <4>1
      <4>3. g[s] = F[<<g[s \ {Max(s)}], Max(s)>>]
        BY <1>5, <3>2 DEF Folded
      <4> QED BY <3>2, <4>1, <4>2, <4>3
    <3> QED BY <3>1, <3>2
  <2>2. g = [s \in SUBSET (1 .. n) |-> g[s]]
    OBVIOUS
  <2>3. g = [s \in SUBSET DOMAIN entries |-> g[s]]
    BY <1>1, <2>2
  <2>4. \A s \in SUBSET DOMAIN entries :
          g[s] = IF s = {} THEN NoBest
                 ELSE Better(g[s \ {Max(s)}], entries[Max(s)], usable, path)
    BY <1>1, <2>1
  <2> HIDE DEF F, n
  <2> QED BY <2>3, <2>4, Zenon
<1> DEFINE w == CHOOSE v : v = Rec(v)
<1>7. BestOf(entries, usable, path) = w[DOMAIN entries]
  BY DEF BestOf, FoldLeft, MapThenFoldSet, Better, NoBest
<1>8. w = Rec(w)
  <2> HIDE DEF Rec
  <2> QED BY <1>6
<1> HIDE DEF w
<1>9. ASSUME NEW s \in SUBSET (1 .. n)
      PROVE  w[s] = IF s = {} THEN NoBest
                    ELSE Better(w[s \ {Max(s)}], entries[Max(s)], usable, path)
  BY <1>1, <1>8
<1>10. Unrolls(w, n, Best, F, NoBest)
  <2>1. \A s \in SUBSET (1 .. n) : s # {} => Max(s) \in 1 .. n
    BY <1>1, IndexMax
  <2>2. w[{}] = NoBest
    BY <1>9
  <2>3. ASSUME NEW s \in SUBSET (1 .. n), s # {}, w[s \ {Max(s)}] \in Best
        PROVE  w[s] = F[<<w[s \ {Max(s)}], Max(s)>>]
    BY <1>9, <2>1, <2>3
  <2> HIDE DEF F, n, Rec
  <2> QED BY <1>1, <1>2, <1>4, <2>2, <2>3 DEF Unrolls
<1>11. \A b \in Best, k \in 1 .. n : F[<<b, k>>] = Better(b, entries[k], usable, path)
  OBVIOUS
<1> HIDE DEF Rec, F, n
<1>12. Iterates(w, n, Best, F, NoBest)
  BY <1>10, FoldPrefix
<1>13. PICK h \in [0 .. n -> Best] :
         /\ h[0] = NoBest /\ h[n] = w[1 .. n]
         /\ \A k \in 1 .. n : k - 1 \in 0 .. n /\ h[k] = F[<<h[k - 1], k>>]
  BY <1>12 DEF Iterates
<1>14. \A k \in 1 .. n : h[k] = Better(h[k - 1], entries[k], usable, path)
  BY <1>11, <1>13
<1>15. BestOf(entries, usable, path) = h[n]
  BY <1>1, <1>7, <1>13
<1> QED BY <1>13, <1>14, <1>15 DEF n, BestRun

-----------------------------------------------------------------------------
(* Prefixes of paths *)

\* A prefix agrees with the path item by item.
LEMMA PrefixItems ==
  ASSUME NEW f \in Seq(Name), NEW s \in Seq(Name)
  PROVE  IsPrefix(f, s) <=> Len(f) <= Len(s) /\ \A i \in 1 .. Len(f) : f[i] = s[i]
<1>1. Len(f) \in Nat /\ Len(s) \in Nat
  OBVIOUS
<1>2. SubSeq(f, 1, Len(f)) = f
  BY SubSeqFull
<1>3. ASSUME Len(f) <= Len(s)
      PROVE  f = SubSeq(s, 1, Len(f)) <=> \A i \in 1 .. Len(f) : f[i] = s[i]
  <2> DEFINE u == SubSeq(s, 1, Len(f))
  <2>1. \A i \in 1 .. Len(f) : s[i] \in Name
    BY <1>1, <1>3, IndexSet
  <2>2. u \in Seq(Name) /\ Len(u) = Len(f) /\ \A i \in 1 .. Len(f) : u[i] = s[i]
    BY <1>1, <1>3
  <2> HIDE DEF u
  <2>3. (\A i \in 1 .. Len(f) : f[i] = s[i]) => f = u
    BY <2>2, SeqEqual
  <2> QED BY <2>2, <2>3 DEF u
<1> QED BY <1>2, <1>3 DEF IsPrefix

\* A path begins with itself, and with "/".
LEMMA PrefixSelf ==
  ASSUME NEW f \in Seq(Name) PROVE IsPrefix(f, f) /\ IsPrefix(<<>>, f)
<1>1. <<>> \in Seq(Name) /\ Len(<<>>) = 0
  BY EmptySeq
<1>2. Len(f) \in Nat
  OBVIOUS
<1>3. IsPrefix(<<>>, f)
  <2>1. ASSUME NEW e \in Seq(Name), Len(e) = 0 PROVE IsPrefix(e, f)
    <3>1. Len(e) <= Len(f) /\ \A i \in 1 .. Len(e) : e[i] = f[i]
      BY <1>2, <2>1
    <3> HIDE DEF IsPrefix
    <3> QED BY <3>1, PrefixItems
  <2> QED BY <1>1, <2>1
<1> QED BY <1>2, <1>3 DEF IsPrefix

\* What is added at the end keeps the prefix.
LEMMA PrefixAppend ==
  ASSUME NEW f \in Seq(Name), NEW s \in Seq(Name), NEW x \in Name, IsPrefix(f, s)
  PROVE  IsPrefix(f, Append(s, x))
<1>1. Len(f) \in Nat /\ Len(s) \in Nat /\ Len(f) <= Len(s)
  BY PrefixItems
<1>2. /\ Append(s, x) \in Seq(Name) /\ Len(Append(s, x)) = Len(s) + 1
      /\ \A i \in 1 .. Len(s) : Append(s, x)[i] = s[i]
  BY AppendProperties
<1>3. \A i \in 1 .. Len(f) : f[i] = s[i]
  BY PrefixItems
<1>4. \A i \in 1 .. Len(f) : i \in 1 .. Len(s)
  BY <1>1
<1>5. Len(f) <= Len(Append(s, x))
  BY <1>1, <1>2
<1> HIDE DEF IsPrefix
<1> QED BY <1>2, <1>3, <1>4, <1>5, PrefixItems

\* Two prefixes of the same length are the same.
LEMMA PrefixUnique ==
  ASSUME NEW f \in Seq(Name), NEW g \in Seq(Name), NEW s \in Seq(Name),
         IsPrefix(f, s), IsPrefix(g, s), Len(f) = Len(g)
  PROVE  f = g
<1>1. (\A i \in 1 .. Len(f) : f[i] = s[i]) /\ (\A i \in 1 .. Len(g) : g[i] = s[i])
  BY PrefixItems
<1> QED BY <1>1, SeqEqual

\* What a prefix leaves of the path.
LEMMA PrefixRest ==
  ASSUME NEW f \in Seq(Name), NEW s \in Seq(Name), IsPrefix(f, s)
  PROVE  /\ SubSeq(s, Len(f) + 1, Len(s)) \in Seq(Name)
         /\ f \o SubSeq(s, Len(f) + 1, Len(s)) = s
<1> DEFINE r == SubSeq(s, Len(f) + 1, Len(s))
<1>1. Len(f) \in Nat /\ Len(s) \in Nat /\ Len(f) <= Len(s)
  BY PrefixItems
<1>2. /\ r \in Seq(Name) /\ Len(r) = Len(s) - Len(f)
      /\ \A i \in 1 .. Len(r) : r[i] = s[Len(f) + i]
  <2>1. \A i \in (Len(f) + 1) .. Len(s) : s[i] \in Name
    BY <1>1, IndexSet
  <2>2. Len(f) + 1 \in Int /\ Len(s) \in Int
    BY <1>1
  <2> QED BY <1>1, <2>1, <2>2, SubSeqProperties
<1> HIDE DEF r
<1>3. /\ f \o r \in Seq(Name) /\ Len(f \o r) = Len(f) + Len(r)
      /\ \A i \in 1 .. Len(f) + Len(r) :
           (f \o r)[i] = IF i <= Len(f) THEN f[i] ELSE r[i - Len(f)]
  BY <1>2, ConcatProperties
<1>4. \A i \in 1 .. Len(f) : f[i] = s[i]
  BY PrefixItems
<1>5. Len(f \o r) = Len(s)
  BY <1>1, <1>2, <1>3
<1>6. ASSUME NEW i \in 1 .. Len(s) PROVE (f \o r)[i] = s[i]
  <2>1. CASE i <= Len(f)
    <3>1. i \in 1 .. Len(f) /\ i \in 1 .. Len(f) + Len(r)
      BY <1>1, <1>2, <2>1
    <3> QED BY <1>3, <1>4, <2>1, <3>1
  <2>2. CASE ~(i <= Len(f))
    <3>1. i - Len(f) \in 1 .. Len(r) /\ i \in 1 .. Len(f) + Len(r) /\ Len(f) + (i - Len(f)) = i
      BY <1>1, <1>2, <2>2
    <3>2. (f \o r)[i] = r[i - Len(f)]
      BY <1>3, <2>2, <3>1
    <3> QED BY <1>2, <3>1, <3>2
  <2> QED BY <2>1, <2>2
<1>7. f \o r = s
  BY <1>3, <1>5, <1>6, SeqEqual
<1> QED BY <1>2, <1>7 DEF r

\* A match is a prefix.
LEMMA MatchIsPrefix ==
  ASSUME NEW f \in Fs, NEW path \in Seq(Name), Matches(f, path)
  PROVE  IsPrefix(f, path) /\ Len(f) <= Len(path)
<1>1. IsPrefix(f, path)
  <2>1. CASE f = RootFs
    BY <2>1, PrefixSelf DEF RootFs
  <2>2. CASE f # RootFs
    BY <2>2 DEF Matches
  <2> QED BY <2>1, <2>2
<1> QED BY <1>1, FsIsPath, PrefixItems

-----------------------------------------------------------------------------
(* What find_best_mount_for_path() finds *)

Items(entries) == {entries[i] : i \in DOMAIN entries}

\* What it returns is an entry of the list that can be used and matches.
FoundIn(b, entries, usable, path) ==
  b.fs # Nowhere =>
    /\ b.fs \in Items(entries) /\ b.fs \in usable /\ Matches(b.fs, path)
    /\ b.fs \in Fs /\ b.len = 1 + Len(b.fs)

\* What is found is a usable entry of the list that matches the path.
LEMMA BestFound ==
  ASSUME NEW entries \in Seq(Fs), NEW usable, NEW path \in Seq(Name)
  PROVE  /\ BestOf(entries, usable, path) \in Best
         /\ FoundIn(BestOf(entries, usable, path), entries, usable, path)
<1> DEFINE n == Len(entries)
<1>1. n \in Nat /\ DOMAIN entries = 1 .. n /\ \A i \in 1 .. n : entries[i] \in Fs
  BY IndexSet
<1>r. PICK h : BestRun(h, entries, usable, path)
  BY BestSteps
<1>2. /\ h \in [0 .. n -> Best] /\ h[0] = NoBest
      /\ BestOf(entries, usable, path) = h[n]
      /\ \A k \in 1 .. n : h[k] = Better(h[k - 1], entries[k], usable, path)
  BY <1>r DEF BestRun
<1> DEFINE B == {k \in 0 .. n : FoundIn(h[k], entries, usable, path)}
<1> HIDE DEF n
<1>3. 0 \in B
  BY <1>1, <1>2 DEF FoundIn, NoBest
<1>4. ASSUME NEW k \in Nat, k < n, k \in B PROVE k + 1 \in B
  <2>1. /\ k \in 0 .. n /\ k + 1 \in 0 .. n /\ k + 1 \in 1 .. n /\ (k + 1) - 1 = k
    BY <1>1, <1>4
  <2>2. h[k + 1] = Better(h[k], entries[k + 1], usable, path)
    BY <1>2, <2>1
  <2>3. entries[k + 1] \in Fs /\ entries[k + 1] \in Items(entries)
    BY <1>1, <2>1 DEF Items
  <2>4. h[k] \in Best /\ FoundIn(h[k], entries, usable, path)
    BY <1>2, <1>4, <2>1
  <2>5. ASSUME NEW b \in Best, FoundIn(b, entries, usable, path), NEW f \in Fs,
               f \in Items(entries)
        PROVE  FoundIn(Better(b, f, usable, path), entries, usable, path)
    <3>1. CASE ~Matches(f, path) \/ 1 + Len(f) <= b.len
      BY <2>5, <3>1 DEF Better
    <3>2. CASE Matches(f, path) /\ ~(1 + Len(f) <= b.len) /\ f \in usable
      BY <2>5, <3>2 DEF Better, FoundIn
    <3>3. CASE Matches(f, path) /\ ~(1 + Len(f) <= b.len) /\ f \notin usable
      <4>1. CASE b.len # 0
        BY <2>5, <3>3, <4>1 DEF Better
      <4>2. CASE b.len = 0
        <5>1. b.fs = Nowhere
          <6>1. b.fs # Nowhere => b.fs \in Fs /\ b.len = 1 + Len(b.fs)
            BY <2>5 DEF FoundIn
          <6>2. ASSUME NEW g \in Fs PROVE 1 + Len(g) # 0
            BY FsIsPath
          <6> QED BY <4>2, <6>1, <6>2
        <5>2. Better(b, f, usable, path).fs = b.fs
          BY <3>3, <4>2 DEF Better, Best
        <5> QED BY <5>1, <5>2 DEF FoundIn
      <4> QED BY <4>1, <4>2
    <3> QED BY <3>1, <3>2, <3>3
  <2> QED BY <2>1, <2>2, <2>3, <2>4, <2>5
<1>5. n \in B
  <2>1. n \in 0 .. n
    BY <1>1
  <2> HIDE DEF B
  <2> QED BY <1>1, <1>3, <1>4, <2>1, NumberInduction
<1>6. n \in 0 .. n
  BY <1>1
<1> QED BY <1>2, <1>5, <1>6

\* Among entries that can all be used it is a longest match.
Longest(b, k, entries, path) ==
  /\ ~b.invalid
  /\ IF b.fs = Nowhere THEN b.len = 0 ELSE b.fs \in Fs /\ b.len = 1 + Len(b.fs)
  /\ \A i \in 1 .. k : Matches(entries[i], path) => 1 + Len(entries[i]) <= b.len

\* When all entries are usable, what is found is the longest match.
LEMMA BestLongest ==
  ASSUME NEW entries \in Seq(Fs), NEW usable, NEW path \in Seq(Name),
         Items(entries) \subseteq usable
  PROVE  Longest(BestOf(entries, usable, path), Len(entries), entries, path)
<1> DEFINE n == Len(entries)
<1>1. n \in Nat /\ DOMAIN entries = 1 .. n /\ \A i \in 1 .. n : entries[i] \in Fs
  BY IndexSet
<1>r. PICK h : BestRun(h, entries, usable, path)
  BY BestSteps
<1>2. /\ h \in [0 .. n -> Best] /\ h[0] = NoBest
      /\ BestOf(entries, usable, path) = h[n]
      /\ \A k \in 1 .. n : h[k] = Better(h[k - 1], entries[k], usable, path)
  BY <1>r DEF BestRun
<1> DEFINE B == {k \in 0 .. n : Longest(h[k], k, entries, path)}
<1> HIDE DEF n
<1>3. 0 \in B
  BY <1>1, <1>2 DEF Longest, NoBest
<1>4. ASSUME NEW k \in Nat, k < n, k \in B PROVE k + 1 \in B
  <2>1. /\ k \in 0 .. n /\ k + 1 \in 0 .. n /\ k + 1 \in 1 .. n /\ (k + 1) - 1 = k
        /\ \A i \in 1 .. (k + 1) : i \in 1 .. n /\ (i \in 1 .. k \/ i = k + 1)
    BY <1>1, <1>4
  <2>2. h[k + 1] = Better(h[k], entries[k + 1], usable, path)
    BY <1>2, <2>1
  <2>3. entries[k + 1] \in Fs /\ entries[k + 1] \in usable
    BY <1>1, <2>1 DEF Items
  <2>4. h[k] \in Best /\ Longest(h[k], k, entries, path)
    BY <1>2, <1>4, <2>1
  <2>5. ASSUME NEW b \in Best, Longest(b, k, entries, path), NEW f \in Fs,
               f \in usable, f = entries[k + 1]
        PROVE  Longest(Better(b, f, usable, path), k + 1, entries, path)
    <3>1. CASE ~Matches(f, path) \/ 1 + Len(f) <= b.len
      <4>1. Better(b, f, usable, path) = b
        BY <3>1 DEF Better
      <4>2. \A i \in 1 .. (k + 1) :
              Matches(entries[i], path) => 1 + Len(entries[i]) <= b.len
        BY <2>1, <2>5, <3>1 DEF Longest
      <4> QED BY <2>5, <4>1, <4>2 DEF Longest
    <3>2. CASE Matches(f, path) /\ ~(1 + Len(f) <= b.len)
      <4> DEFINE c == [fs |-> f, len |-> 1 + Len(f), invalid |-> FALSE]
      <4>1. Better(b, f, usable, path) = c
        BY <2>5, <3>2 DEF Better
      <4>2. f # Nowhere /\ Len(f) \in Nat /\ b.len \in Nat
        BY FsIsPath DEF Best
      <4>3. \A i \in 1 .. (k + 1) :
              Matches(entries[i], path) => 1 + Len(entries[i]) <= c.len
        <5>1. ASSUME NEW i \in 1 .. (k + 1), Matches(entries[i], path)
              PROVE  1 + Len(entries[i]) <= 1 + Len(f)
          <6>1. CASE i = k + 1
            BY <2>5, <4>2, <6>1
          <6>2. CASE i \in 1 .. k
            <7>1. 1 + Len(entries[i]) <= b.len
              BY <2>5, <5>1, <6>2 DEF Longest
            <7>2. Len(entries[i]) \in Nat
              BY <1>1, <2>1, FsIsPath
            <7> QED BY <3>2, <4>2, <7>1, <7>2
          <6> QED BY <2>1, <6>1, <6>2
        <5> QED BY <5>1
      <4>4. c.fs = f /\ c.len = 1 + Len(f) /\ ~c.invalid
        OBVIOUS
      <4> HIDE DEF c
      <4> QED BY <4>1, <4>2, <4>3, <4>4 DEF Longest
    <3> QED BY <3>1, <3>2
  <2> QED BY <2>1, <2>2, <2>3, <2>4, <2>5
<1>5. n \in B
  <2>1. n \in 0 .. n
    BY <1>1
  <2> HIDE DEF B
  <2> QED BY <1>1, <1>3, <1>4, <2>1, NumberInduction
<1> QED BY <1>2, <1>5 DEF n

\* A file system mounted at the very path, and usable, is what is found.
Exact(b, k, entries, path) ==
  /\ b.len <= 1 + Len(path) /\ (b.len = 1 + Len(path) => b.fs = path)
  /\ \A i \in 1 .. k : entries[i] = path => b.len = 1 + Len(path)

\* A path that is itself a usable entry is found exactly.
LEMMA BestExact ==
  ASSUME NEW entries \in Seq(Fs), NEW usable, NEW path \in Fs,
         path \in usable, path \in Items(entries)
  PROVE  BestOf(entries, usable, path).fs = path
<1> DEFINE n == Len(entries)
<1>1. n \in Nat /\ DOMAIN entries = 1 .. n /\ \A i \in 1 .. n : entries[i] \in Fs
  BY IndexSet
<1>r. PICK h : BestRun(h, entries, usable, path)
  BY BestSteps
<1>2. /\ h \in [0 .. n -> Best] /\ h[0] = NoBest
      /\ BestOf(entries, usable, path) = h[n]
      /\ \A k \in 1 .. n : h[k] = Better(h[k - 1], entries[k], usable, path)
  BY <1>r DEF BestRun
<1> DEFINE B == {k \in 0 .. n : Exact(h[k], k, entries, path)}
<1> HIDE DEF n
<1>p. path \in Seq(Name) /\ Len(path) \in Nat
  BY FsIsPath
<1>m. Matches(path, path)
  BY <1>p, PrefixSelf DEF Matches
<1>3. 0 \in B
  BY <1>1, <1>2, <1>p DEF Exact, NoBest
<1>4. ASSUME NEW k \in Nat, k < n, k \in B PROVE k + 1 \in B
  <2>1. /\ k \in 0 .. n /\ k + 1 \in 0 .. n /\ k + 1 \in 1 .. n /\ (k + 1) - 1 = k
        /\ \A i \in 1 .. (k + 1) : i \in 1 .. n /\ (i \in 1 .. k \/ i = k + 1)
    BY <1>1, <1>4
  <2>2. h[k + 1] = Better(h[k], entries[k + 1], usable, path)
    BY <1>2, <2>1
  <2>3. entries[k + 1] \in Fs
    BY <1>1, <2>1
  <2>4. h[k] \in Best /\ Exact(h[k], k, entries, path)
    BY <1>2, <1>4, <2>1
  <2>5. ASSUME NEW b \in Best, Exact(b, k, entries, path), NEW f \in Fs, f = entries[k + 1]
        PROVE  Exact(Better(b, f, usable, path), k + 1, entries, path)
    <3> DEFINE c == Better(b, f, usable, path)
    <3>1. f \in Seq(Name) /\ Len(f) \in Nat /\ b.len \in Nat /\ b.len <= 1 + Len(path)
      BY <2>5, FsIsPath DEF Best, Exact
    <3>2. CASE ~Matches(f, path) \/ 1 + Len(f) <= b.len
      <4>1. c = b
        BY <3>2 DEF Better
      <4>2. f = path => b.len = 1 + Len(path)
        BY <1>m, <1>p, <3>1, <3>2
      <4>3. \A i \in 1 .. (k + 1) : entries[i] = path => b.len = 1 + Len(path)
        BY <2>1, <2>5, <4>2 DEF Exact
      <4> QED BY <2>5, <4>1, <4>3 DEF Exact
    <3>3. CASE Matches(f, path) /\ ~(1 + Len(f) <= b.len)
      <4>1. IsPrefix(f, path) /\ Len(f) <= Len(path)
        BY <1>p, <3>3, MatchIsPrefix
      <4>2. Len(f) = Len(path) => f = path
        BY <1>p, <3>1, <4>1, PrefixSelf, PrefixUnique
      <4>3. b.len # 1 + Len(path)
        BY <1>p, <3>1, <3>3, <4>1
      <4>4. f = path <=> Len(f) = Len(path)
        BY <4>2
      <4>5. \A i \in 1 .. k : entries[i] # path
        BY <2>5, <4>3 DEF Exact
      <4>6. \A i \in 1 .. (k + 1) : entries[i] = path => f = path
        BY <2>1, <2>5, <4>5
      <4>7. CASE f \in usable
        <5>1. c.fs = f /\ c.len = 1 + Len(f)
          BY <3>3, <4>7 DEF Better
        <5>2. ASSUME NEW l, l = 1 + Len(f)
              PROVE  /\ l <= 1 + Len(path) /\ (l = 1 + Len(path) => f = path)
                     /\ f = path => l = 1 + Len(path)
          BY <1>p, <3>1, <4>1, <4>4, <5>2
        <5>3. c.len <= 1 + Len(path) /\ (c.len = 1 + Len(path) => c.fs = path)
          BY <5>1, <5>2
        <5>4. \A i \in 1 .. (k + 1) : entries[i] = path => c.len = 1 + Len(path)
          BY <4>6, <5>1, <5>2
        <5> HIDE DEF c
        <5>5. Exact(c, k + 1, entries, path)
          BY <5>3, <5>4 DEF Exact
        <5> QED BY <5>5 DEF c
      <4>8. CASE f \notin usable
        <5>1. f # path /\ Len(f) # Len(path)
          BY <4>4, <4>8
        <5>2. c.fs = b.fs /\ c.len \in {b.len, 1 + Len(f)}
          BY <3>3, <4>8 DEF Better, Best
        <5>3. c.len <= 1 + Len(path) /\ c.len # 1 + Len(path)
          BY <1>p, <3>1, <4>1, <4>3, <5>1, <5>2
        <5>4. \A i \in 1 .. (k + 1) : entries[i] # path
          BY <4>6, <5>1
        <5> HIDE DEF c
        <5>5. Exact(c, k + 1, entries, path)
          BY <5>3, <5>4 DEF Exact
        <5> QED BY <5>5 DEF c
      <4> QED BY <4>7, <4>8
    <3> QED BY <3>2, <3>3
  <2> QED BY <2>1, <2>2, <2>3, <2>4, <2>5
<1>5. n \in B
  <2>1. n \in 0 .. n
    BY <1>1
  <2> HIDE DEF B
  <2> QED BY <1>1, <1>3, <1>4, <2>1, NumberInduction
<1>6. \E i \in 1 .. n : entries[i] = path
  BY <1>1 DEF Items
<1>7. Exact(h[n], n, entries, path)
  BY <1>5
<1> QED BY <1>2, <1>6, <1>7 DEF Exact

-----------------------------------------------------------------------------
(* rtems_chain_extract_unprotected() *)

\* The loop that copies a list without an entry, iteration by iteration.
Kept(s, g, f) == IF g = f THEN s ELSE Append(s, g)
WithoutRun(h, entries, f) ==
  /\ h \in [0 .. Len(entries) -> Seq(Fs)]
  /\ h[0] = <<>> /\ Without(entries, f) = h[Len(entries)]
  /\ \A k \in 1 .. Len(entries) : h[k] = Kept(h[k - 1], entries[k], f)

\* The fold of Without goes through one list per entry.
LEMMA WithoutSteps ==
  ASSUME NEW entries \in Seq(Fs), NEW f
  PROVE  \E h : WithoutRun(h, entries, f)
<1> DEFINE n == Len(entries)
           F == [a \in Seq(Fs) \X (1 .. n) |-> Kept(a[1], entries[a[2]], f)]
           Rec(g) == [s \in SUBSET DOMAIN entries |->
                        IF s = {} THEN <<>>
                        ELSE Kept(g[s \ {Max(s)}], entries[Max(s)], f)]
<1>1. n \in Nat /\ DOMAIN entries = 1 .. n /\ \A i \in 1 .. n : entries[i] \in Fs
  BY IndexSet
<1>2. <<>> \in Seq(Fs)
  BY EmptySeq
<1>3. ASSUME NEW b \in Seq(Fs), NEW x \in Fs PROVE Kept(b, x, f) \in Seq(Fs)
  BY AppendProperties DEF Kept
<1>4. F \in [Seq(Fs) \X (1 .. n) -> Seq(Fs)]
  BY <1>1, <1>3
<1>5. PICK g \in [SUBSET (1 .. n) -> Seq(Fs)] : Folded(g, n, F, <<>>)
  <2> HIDE DEF n, F
  <2> QED BY <1>1, <1>2, <1>4, FoldExists
<1>6. g = Rec(g)
  <2>1. ASSUME NEW s \in SUBSET (1 .. n)
        PROVE  g[s] = IF s = {} THEN <<>>
                      ELSE Kept(g[s \ {Max(s)}], entries[Max(s)], f)
    <3>1. CASE s = {}
      BY <1>5, <3>1 DEF Folded
    <3>2. CASE s # {}
      <4>1. Max(s) \in 1 .. n /\ s \ {Max(s)} \in SUBSET (1 .. n)
        BY <1>1, <3>2, IndexMax
      <4>2. g[s \ {Max(s)}] \in Seq(Fs)
        BY <4>1
      <4>3. g[s] = F[<<g[s \ {Max(s)}], Max(s)>>]
        BY <1>5, <3>2 DEF Folded
      <4> QED BY <3>2, <4>1, <4>2, <4>3
    <3> QED BY <3>1, <3>2
  <2>2. g = [s \in SUBSET (1 .. n) |-> g[s]]
    OBVIOUS
  <2>3. g = [s \in SUBSET DOMAIN entries |-> g[s]]
    BY <1>1, <2>2
  <2>4. \A s \in SUBSET DOMAIN entries :
          g[s] = IF s = {} THEN <<>>
                 ELSE Kept(g[s \ {Max(s)}], entries[Max(s)], f)
    BY <1>1, <2>1
  <2> HIDE DEF F, n
  <2> QED BY <2>3, <2>4, Zenon
<1> DEFINE w == CHOOSE v : v = Rec(v)
<1>7. Without(entries, f) = w[DOMAIN entries]
  BY DEF Without, FoldLeft, MapThenFoldSet, Kept
<1>8. w = Rec(w)
  <2> HIDE DEF Rec
  <2> QED BY <1>6
<1> HIDE DEF w
<1>9. ASSUME NEW s \in SUBSET (1 .. n)
      PROVE  w[s] = IF s = {} THEN <<>>
                    ELSE Kept(w[s \ {Max(s)}], entries[Max(s)], f)
  BY <1>1, <1>8
<1>10. Unrolls(w, n, Seq(Fs), F, <<>>)
  <2>1. \A s \in SUBSET (1 .. n) : s # {} => Max(s) \in 1 .. n
    BY <1>1, IndexMax
  <2>2. w[{}] = <<>>
    BY <1>9
  <2>3. ASSUME NEW s \in SUBSET (1 .. n), s # {}, w[s \ {Max(s)}] \in Seq(Fs)
        PROVE  w[s] = F[<<w[s \ {Max(s)}], Max(s)>>]
    BY <1>9, <2>1, <2>3
  <2> HIDE DEF F, n, Rec
  <2> QED BY <1>1, <1>2, <1>4, <2>2, <2>3 DEF Unrolls
<1>11. \A b \in Seq(Fs), k \in 1 .. n : F[<<b, k>>] = Kept(b, entries[k], f)
  OBVIOUS
<1> HIDE DEF Rec, F, n
<1>12. Iterates(w, n, Seq(Fs), F, <<>>)
  BY <1>10, FoldPrefix
<1>13. PICK h \in [0 .. n -> Seq(Fs)] :
         /\ h[0] = <<>> /\ h[n] = w[1 .. n]
         /\ \A k \in 1 .. n : k - 1 \in 0 .. n /\ h[k] = F[<<h[k - 1], k>>]
  BY <1>12 DEF Iterates
<1>14. \A k \in 1 .. n : h[k] = Kept(h[k - 1], entries[k], f)
  BY <1>11, <1>13
<1>15. Without(entries, f) = h[n]
  BY <1>1, <1>7, <1>13
<1> QED BY <1>13, <1>14, <1>15 DEF n, WithoutRun

\* What an entry at the end adds.
LEMMA AppendItems ==
  ASSUME NEW s \in Seq(Fs), NEW x \in Fs
  PROVE  Append(s, x) \in Seq(Fs) /\ Items(Append(s, x)) = Items(s) \cup {x}
<1> DEFINE a == Append(s, x)
<1>1. Len(s) \in Nat /\ DOMAIN s = 1 .. Len(s)
  BY IndexSet
<1>2. /\ a \in Seq(Fs) /\ Len(a) = Len(s) + 1
      /\ \A i \in 1 .. Len(s) : a[i] = s[i]
      /\ a[Len(s) + 1] = x
  BY AppendProperties
<1> HIDE DEF a
<1>3. DOMAIN a = 1 .. Len(s) + 1
  BY <1>2, IndexSet
<1>4. \A i \in 1 .. Len(s) + 1 : i \in 1 .. Len(s) \/ i = Len(s) + 1
  BY <1>1
<1>5. \A i \in 1 .. Len(s) : i \in 1 .. Len(s) + 1
  BY <1>1
<1>6. Len(s) + 1 \in 1 .. Len(s) + 1
  BY <1>1
<1>7. \A y \in Items(a) : y \in Items(s) \/ y = x
  BY <1>1, <1>2, <1>3, <1>4 DEF Items
<1>8. \A y \in Items(s) : y \in Items(a)
  BY <1>1, <1>2, <1>3, <1>5 DEF Items
<1>9. x \in Items(a)
  BY <1>2, <1>3, <1>6 DEF Items
<1> QED BY <1>2, <1>7, <1>8, <1>9 DEF a

\* Everything but the extracted entry stays.
LEMMA WithoutItems ==
  ASSUME NEW entries \in Seq(Fs), NEW f
  PROVE  /\ Without(entries, f) \in Seq(Fs)
         /\ Items(Without(entries, f)) = Items(entries) \ {f}
<1> DEFINE n == Len(entries)
           Upto(k) == {entries[i] : i \in 1 .. k}
<1>1. n \in Nat /\ DOMAIN entries = 1 .. n /\ \A i \in 1 .. n : entries[i] \in Fs
  BY IndexSet
<1>r. PICK h : WithoutRun(h, entries, f)
  BY WithoutSteps
<1>2. /\ h \in [0 .. n -> Seq(Fs)] /\ h[0] = <<>>
      /\ Without(entries, f) = h[n]
      /\ \A k \in 1 .. n : h[k] = Kept(h[k - 1], entries[k], f)
  BY <1>r DEF WithoutRun
<1> DEFINE B == {k \in 0 .. n : Items(h[k]) = Upto(k) \ {f}}
<1> HIDE DEF n
<1>3. 0 \in B
  <2>1. 1 .. 0 = {} /\ 0 \in 0 .. n
    BY <1>1
  <2>2. Items(<<>>) = {}
    <3>1. DOMAIN <<>> = {}
      OBVIOUS
    <3> QED BY <3>1 DEF Items
  <2> QED BY <1>2, <2>1, <2>2
<1>4. ASSUME NEW k \in Nat, k < n, k \in B PROVE k + 1 \in B
  <2>1. /\ k \in 0 .. n /\ k + 1 \in 0 .. n /\ k + 1 \in 1 .. n /\ (k + 1) - 1 = k
        /\ \A i \in 1 .. (k + 1) : i \in 1 .. k \/ i = k + 1
        /\ \A i \in 1 .. k : i \in 1 .. (k + 1)
        /\ k + 1 \in 1 .. (k + 1)
    BY <1>1, <1>4
  <2>2. h[k + 1] = Kept(h[k], entries[k + 1], f)
    BY <1>2, <2>1
  <2>3. entries[k + 1] \in Fs /\ h[k] \in Seq(Fs)
    BY <1>1, <1>2, <2>1
  <2>4. Upto(k + 1) = Upto(k) \cup {entries[k + 1]}
    BY <2>1
  <2>5. Items(h[k]) = Upto(k) \ {f}
    BY <1>4
  <2> HIDE DEF Upto
  <2>6. Items(h[k + 1]) = Upto(k + 1) \ {f}
    <3>1. CASE entries[k + 1] = f
      BY <2>2, <2>4, <2>5, <3>1 DEF Kept
    <3>2. CASE entries[k + 1] # f
      <4>1. Items(h[k + 1]) = Items(h[k]) \cup {entries[k + 1]}
        BY <2>2, <2>3, <3>2, AppendItems DEF Kept
      <4> QED BY <2>4, <2>5, <3>2, <4>1
    <3> QED BY <3>1, <3>2
  <2> QED BY <2>1, <2>6
<1>5. n \in B
  <2>1. n \in 0 .. n
    BY <1>1
  <2> HIDE DEF B
  <2> QED BY <1>1, <1>3, <1>4, <2>1, NumberInduction
<1>6. Items(entries) = Upto(n)
  BY <1>1 DEF Items
<1>7. n \in 0 .. n
  BY <1>1
<1> QED BY <1>2, <1>5, <1>6, <1>7

-----------------------------------------------------------------------------
(* The walk over a path *)

\* The walk, name by name.
Track == [fs : Place, spot : Seq(Name), left : Place]
At(f) == [fs |-> f, spot |-> f, left |-> Nowhere]
Cross(w, name) ==
  LET spot == Append(w.spot, name) IN
    IF w.fs = Nowhere THEN w
    ELSE IF spot \in Target /\ parent[spot] = w.fs
    THEN [fs |-> Obtained(spot), spot |-> spot, left |-> w.fs]
    ELSE [w EXCEPT !.spot = spot]
WalkRun(h, f, path) ==
  /\ h \in [0 .. Len(path) -> Track]
  /\ h[0] = At(f) /\ Walk(f, path) = h[Len(path)]
  /\ \A k \in 1 .. Len(path) : h[k] = Cross(h[k - 1], path[k])

\* The fold of Walk goes through one position per name.
LEMMA WalkSteps ==
  ASSUME NEW f \in Fs, NEW path \in Seq(Name)
  PROVE  \E h : WalkRun(h, f, path)
<1> DEFINE n == Len(path)
           F == [a \in Track \X (1 .. n) |-> Cross(a[1], path[a[2]])]
           Rec(g) == [s \in SUBSET DOMAIN path |->
                        IF s = {} THEN At(f)
                        ELSE Cross(g[s \ {Max(s)}], path[Max(s)])]
<1>1. n \in Nat /\ DOMAIN path = 1 .. n /\ \A i \in 1 .. n : path[i] \in Name
  BY IndexSet
<1>2. At(f) \in Track
  BY FsIsPath DEF At, Track, Place
<1>3. ASSUME NEW b \in Track, NEW x \in Name PROVE Cross(b, x) \in Track
  <2>1. Append(b.spot, x) \in Seq(Name)
    BY AppendProperties DEF Track
  <2>2. Obtained(Append(b.spot, x)) \in Place
    BY DEF Obtained, Place
  <2>3. b \in [fs : Place, spot : Seq(Name), left : Place]
    BY DEF Track
  <2>4. b.fs \in Place
    BY <2>3
  <2> QED BY <2>1, <2>2, <2>3, <2>4 DEF Cross, Track
<1>4. F \in [Track \X (1 .. n) -> Track]
  BY <1>1, <1>3
<1>5. PICK g \in [SUBSET (1 .. n) -> Track] : Folded(g, n, F, At(f))
  <2> HIDE DEF n, F
  <2> QED BY <1>1, <1>2, <1>4, FoldExists
<1>6. g = Rec(g)
  <2>1. ASSUME NEW s \in SUBSET (1 .. n)
        PROVE  g[s] = IF s = {} THEN At(f)
                      ELSE Cross(g[s \ {Max(s)}], path[Max(s)])
    <3>1. CASE s = {}
      BY <1>5, <3>1 DEF Folded
    <3>2. CASE s # {}
      <4>1. Max(s) \in 1 .. n /\ s \ {Max(s)} \in SUBSET (1 .. n)
        BY <1>1, <3>2, IndexMax
      <4>2. g[s \ {Max(s)}] \in Track
        BY <4>1
      <4>3. g[s] = F[<<g[s \ {Max(s)}], Max(s)>>]
        BY <1>5, <3>2 DEF Folded
      <4> QED BY <3>2, <4>1, <4>2, <4>3
    <3> QED BY <3>1, <3>2
  <2>2. g = [s \in SUBSET (1 .. n) |-> g[s]]
    OBVIOUS
  <2>3. g = [s \in SUBSET DOMAIN path |-> g[s]]
    BY <1>1, <2>2
  <2>4. \A s \in SUBSET DOMAIN path :
          g[s] = IF s = {} THEN At(f)
                 ELSE Cross(g[s \ {Max(s)}], path[Max(s)])
    BY <1>1, <2>1
  <2> HIDE DEF F, n
  <2> QED BY <2>3, <2>4, Zenon
<1> DEFINE w == CHOOSE v : v = Rec(v)
<1>7. Walk(f, path) = w[DOMAIN path]
  BY DEF Walk, FoldLeft, MapThenFoldSet, Cross, At
<1>8. w = Rec(w)
  <2> HIDE DEF Rec
  <2> QED BY <1>6
<1> HIDE DEF w
<1>9. ASSUME NEW s \in SUBSET (1 .. n)
      PROVE  w[s] = IF s = {} THEN At(f)
                    ELSE Cross(w[s \ {Max(s)}], path[Max(s)])
  BY <1>1, <1>8
<1>10. Unrolls(w, n, Track, F, At(f))
  <2>1. \A s \in SUBSET (1 .. n) : s # {} => Max(s) \in 1 .. n
    BY <1>1, IndexMax
  <2>2. w[{}] = At(f)
    BY <1>9
  <2>3. ASSUME NEW s \in SUBSET (1 .. n), s # {}, w[s \ {Max(s)}] \in Track
        PROVE  w[s] = F[<<w[s \ {Max(s)}], Max(s)>>]
    BY <1>9, <2>1, <2>3
  <2> HIDE DEF F, n, Rec
  <2> QED BY <1>1, <1>2, <1>4, <2>2, <2>3 DEF Unrolls
<1>11. \A b \in Track, k \in 1 .. n : F[<<b, k>>] = Cross(b, path[k])
  OBVIOUS
<1> HIDE DEF Rec, F, n
<1>12. Iterates(w, n, Track, F, At(f))
  BY <1>10, FoldPrefix
<1>13. PICK h \in [0 .. n -> Track] :
         /\ h[0] = At(f) /\ h[n] = w[1 .. n]
         /\ \A k \in 1 .. n : k - 1 \in 0 .. n /\ h[k] = F[<<h[k - 1], k>>]
  BY <1>12 DEF Iterates
<1>14. \A k \in 1 .. n : h[k] = Cross(h[k - 1], path[k])
  BY <1>11, <1>13
<1>15. Walk(f, path) = h[n]
  BY <1>1, <1>7, <1>13
<1> QED BY <1>13, <1>14, <1>15 DEF n, WalkRun

\* Where a walk from f has come after k names.
Mounted == {g \in Target : state[g] = "mounted"}
OnWay(w, k, f, path) ==
  /\ w.fs \in {f, Nowhere} \cup Mounted /\ w.left \in {f, Nowhere} \cup Mounted
  /\ IsPrefix(f, w.spot)
  /\ w.fs # Nowhere => IsPrefix(f, w.fs) /\ w.spot = f \o SubSeq(path, 1, k)

\* A walk that got somewhere has followed its path so far, and is below the
\* file system it began in.
LEMMA WalkOnWay ==
  ASSUME NEW f \in Fs, NEW path \in Seq(Name)
  PROVE  Walk(f, path) \in Track /\ OnWay(Walk(f, path), Len(path), f, path)
<1> DEFINE n == Len(path)
<1>1. n \in Nat /\ DOMAIN path = 1 .. n /\ \A i \in 1 .. n : path[i] \in Name
  BY IndexSet
<1>r. PICK h : WalkRun(h, f, path)
  BY WalkSteps
<1>2. /\ h \in [0 .. n -> Track] /\ h[0] = At(f) /\ Walk(f, path) = h[n]
      /\ \A k \in 1 .. n : h[k] = Cross(h[k - 1], path[k])
  BY <1>r DEF WalkRun
<1> DEFINE B == {k \in 0 .. n : OnWay(h[k], k, f, path)}
<1> HIDE DEF n
<1>p. f \in Seq(Name) /\ f # Nowhere
  BY FsIsPath
<1>3. 0 \in B
  <2>1. SubSeq(path, 1, 0) = <<>>
    BY SubSeqEmpty
  <2>2. f \o <<>> = f
    BY <1>p, ConcatEmptySeq
  <2>3. IsPrefix(f, f)
    BY <1>p, PrefixSelf
  <2>4. OnWay(At(f), 0, f, path)
    BY <2>1, <2>2, <2>3 DEF OnWay, At
  <2>5. 0 \in 0 .. n
    BY <1>1
  <2> QED BY <1>2, <2>4, <2>5
<1>4. ASSUME NEW k \in Nat, k < n, k \in B PROVE k + 1 \in B
  <2>1. k \in 0 .. n /\ k + 1 \in 0 .. n /\ k + 1 \in 1 .. n /\ (k + 1) - 1 = k
    BY <1>1, <1>4
  <2>2. h[k + 1] = Cross(h[k], path[k + 1])
    BY <1>2, <2>1
  <2>3. path[k + 1] \in Name
    BY <1>1, <2>1
  <2>4. h[k] \in Track /\ OnWay(h[k], k, f, path)
    BY <1>2, <1>4, <2>1
  <2>5. SubSeq(path, 1, k + 1) = SubSeq(path, 1, k) \o <<path[k + 1]>>
    <3>1. 1 \in 1 .. Len(path) /\ k + 1 \in 1 .. Len(path)
      BY <1>1, <2>1 DEF n
    <3> QED BY <2>1, <3>1, SubSeqRecursiveSecond
  <2>6. SubSeq(path, 1, k) \in Seq(Name)
    <3>1. \A i \in 1 .. k : path[i] \in Name
      BY <1>1, <1>4
    <3> QED BY <3>1, SubSeqProperties
  <2>7. <<path[k + 1]>> \in Seq(Name)
    BY <2>3
  <2>8. (f \o SubSeq(path, 1, k)) \o <<path[k + 1]>> = f \o SubSeq(path, 1, k + 1)
    <3>1. ASSUME NEW a \in Seq(Name), NEW b \in Seq(Name)
          PROVE  (f \o a) \o b = f \o (a \o b)
      BY <1>p, ConcatAssociative
    <3> QED BY <2>5, <2>6, <2>7, <3>1, Zenon
  <2>9. ASSUME NEW w \in Track, OnWay(w, k, f, path), NEW x \in Name, x = path[k + 1]
        PROVE  OnWay(Cross(w, x), k + 1, f, path)
    <3> DEFINE spot == Append(w.spot, x)
    <3>1. w.spot \in Seq(Name)
      BY DEF Track
    <3>2. spot \in Seq(Name) /\ IsPrefix(f, spot) /\ spot = w.spot \o <<x>>
      BY <1>p, <2>9, <3>1, AppendProperties, AppendIsConcat, PrefixAppend DEF OnWay
    <3>3. w.fs # Nowhere => spot = f \o SubSeq(path, 1, k + 1)
      BY <2>8, <2>9, <3>2 DEF OnWay
    <3>4. CASE w.fs = Nowhere
      BY <2>9, <3>4 DEF Cross, OnWay
    <3>5. CASE w.fs # Nowhere /\ spot \in Target /\ parent[spot] = w.fs
      <4>1. Cross(w, x) = [fs |-> Obtained(spot), spot |-> spot, left |-> w.fs]
        BY <3>5 DEF Cross
      <4>2. Obtained(spot) \in {spot, Nowhere} /\ (Obtained(spot) = spot => spot \in Mounted)
        <5>1. spot # Nowhere
          BY <3>2, PathAssumption
        <5> QED BY <3>5, <5>1 DEF Obtained, Mounted
      <4>3. /\ Cross(w, x).fs = Obtained(spot) /\ Cross(w, x).spot = spot
            /\ Cross(w, x).left = w.fs
        BY <4>1
      <4>4. /\ Cross(w, x).fs \in {f, Nowhere} \cup Mounted
            /\ Cross(w, x).left \in {f, Nowhere} \cup Mounted
        BY <2>9, <4>2, <4>3 DEF OnWay
      <4>5. Cross(w, x).fs # Nowhere =>
              /\ IsPrefix(f, Cross(w, x).fs)
              /\ Cross(w, x).spot = f \o SubSeq(path, 1, k + 1)
        BY <3>2, <3>3, <3>5, <4>2, <4>3
      <4> HIDE DEF spot
      <4> QED BY <3>2, <4>3, <4>4, <4>5, Zenon DEF OnWay
    <3>6. CASE w.fs # Nowhere /\ ~(spot \in Target /\ parent[spot] = w.fs)
      <4>1. Cross(w, x) = [w EXCEPT !.spot = spot]
        BY <3>6 DEF Cross
      <4>2. [w EXCEPT !.spot = spot].fs = w.fs /\ [w EXCEPT !.spot = spot].left = w.left
            /\ [w EXCEPT !.spot = spot].spot = spot
        BY DEF Track
      <4> HIDE DEF spot
      <4> QED BY <2>9, <3>2, <3>3, <3>6, <4>1, <4>2 DEF OnWay
    <3> QED BY <3>4, <3>5, <3>6
  <2> QED BY <2>1, <2>2, <2>3, <2>4, <2>9
<1>5. n \in B
  <2>1. n \in 0 .. n
    BY <1>1
  <2> HIDE DEF B
  <2> QED BY <1>1, <1>3, <1>4, <2>1, NumberInduction
<1>6. n \in 0 .. n
  BY <1>1
<1> QED BY <1>2, <1>5, <1>6 DEF n

\* Where a walk ends.
LEMMA WalkEnds ==
  ASSUME NEW f \in Fs, NEW path \in Seq(Name)
  PROVE  /\ Walk(f, path) \in Track
         /\ Walk(f, path).fs \in {f, Nowhere} \cup Mounted
         /\ Walk(f, path).left \in {f, Nowhere} \cup Mounted
         /\ Walk(f, path).fs # Nowhere =>
              IsPrefix(f, Walk(f, path).fs) /\ Walk(f, path).spot = f \o path
<1>1. SubSeq(path, 1, Len(path)) = path
  BY SubSeqFull
<1> QED BY <1>1, WalkOnWay DEF OnWay

-----------------------------------------------------------------------------
(* The inductive invariant *)

\* The lists: an entry is an original, which is mounted, or a clone, which has a
\* file system unless that was unmounted before.
Listed ==
  /\ RootFs \in Entries(Root) /\ state[RootFs] = "mounted"
  /\ \A n \in Namespace, f \in Target : f \in Entries(n) => state[f] # "absent"
  /\ \A n \in live, f \in Target :
       f \in Entries(n) /\ Valid(n, f) /\ home[f] = n => state[f] = "mounted"
  /\ \A n \in live, f \in Target : ~Valid(n, f) => state[f] \in {"unmounted", "gone"}

\* The counts: also a file system that does not exist any more is not released
\* more often than it was obtained, and it has no users.
Standing(f) == state[f] \in {"mounted", "unmounted"}
Covered(f) ==
  IF Standing(f) THEN ref[f] - deferred[f] >= 1 + Cardinality(Users(f))
                 ELSE ref[f] - deferred[f] >= 0 /\ Users(f) = {}
Counted == \A f \in Target : Covered(f)

\* Before it starts an evaluation has a path and no locations.
Early(t) ==
  pc[t] \in {"root", "current", "start"} =>
    ev[t].path \in Path /\ ev[t].rootloc = Nowhere /\ ev[t].at = Nowhere

\* What an undisturbed evaluation selects.
Selected(t) ==
  LET best == FindBest(where[t], ev[t].path)
  IN IF best.fs # Nowhere THEN best.fs
     ELSE IF best.invalid THEN Nowhere ELSE Fallback(where[t])
Remaining(t) ==
  LET best == FindBest(where[t], ev[t].path)
  IN IF best.fs # Nowhere THEN SubSeq(ev[t].path, Len(best.fs) + 1, Len(ev[t].path))
     ELSE NoPath
Undisturbed(t) ==
  ev[t].clean /\ pc[t] \in {"root", "current", "start", "walk"} =>
    /\ ev[t].op # "parent" /\ ev[t].path \in Path /\ currentPath = ev[t].path
    /\ pc[t] = "root" => adjusted = NoPath
    /\ pc[t] \in {"current", "start"} =>
         ev[t].root = Selected(t) /\ adjusted = Remaining(t)
    /\ pc[t] = "start" => ev[t].current = IF t \in Private THEN RootFs ELSE Selected(t)
    /\ pc[t] = "walk" =>
         /\ \/ ev[t].rootloc = Selected(t)
            \/ ev[t].rootloc = Nowhere
               /\ (Selected(t) # Nowhere => state[Selected(t)] # "mounted")
         /\ ev[t].at # Nowhere => ev[t].spot = ev[t].path /\ state[ev[t].at] = "mounted"

\* A location comes from the list of the namespace, or was unmounted since.
Backed(f, t) ==
  \/ f \in Entries(where[t]) \/ RootFs \in Entries(where[t])
  \/ f \in Target /\ state[f] \in {"unmounted", "gone"}
Below(t) ==
  ~ev[t].moved =>
    /\ pc[t] \in {"current", "start"} /\ ev[t].root # Nowhere => Backed(ev[t].root, t)
    /\ pc[t] = "walk" /\ ev[t].op # "parent" /\ ev[t].at # Nowhere =>
         /\ ev[t].rootloc # Nowhere /\ Backed(ev[t].rootloc, t)
         /\ IsPrefix(ev[t].rootloc, ev[t].at)
Evaluating(t) == Early(t) /\ Undisturbed(t) /\ Below(t)

MntInv == TypeOK /\ Listed /\ Counted /\ \A t \in Thread : Evaluating(t)

-----------------------------------------------------------------------------
(* Counting users *)

\* The three kinds of users are counted apart.
Union(C, R, S) == (C \X {"clone"}) \cup (R \X {"root"}) \cup (S \X {"start"})

\* The number of users is the sum over the three kinds.
LEMMA UserCount ==
  ASSUME NEW C, NEW R, NEW S, IsFiniteSet(C), IsFiniteSet(R), IsFiniteSet(S), NEW U,
         U = Union(C, R, S)
  PROVE  /\ IsFiniteSet(U)
         /\ Cardinality(U) = Cardinality(C) + Cardinality(R) + Cardinality(S)
         /\ U = {} <=> C = {} /\ R = {} /\ S = {}
<1>1. ASSUME NEW A, IsFiniteSet(A), NEW x
      PROVE  /\ IsFiniteSet(A \X {x}) /\ Cardinality(A \X {x}) = Cardinality(A)
             /\ Cardinality(A) \in Nat
  <2>1. IsFiniteSet({x}) /\ Cardinality({x}) = 1 /\ Cardinality(A) \in Nat
    BY <1>1, FS_Singleton, FS_CardinalityType
  <2>2. IsFiniteSet(A \X {x}) /\ Cardinality(A \X {x}) = Cardinality(A) * Cardinality({x})
    BY <1>1, <2>1, FS_Product
  <2> QED BY <2>1, <2>2
<1> DEFINE c == C \X {"clone"}
           r == R \X {"root"}
           s == S \X {"start"}
<1>u. U = (C \X {"clone"}) \cup (R \X {"root"}) \cup (S \X {"start"})
  BY DEF Union
<1> USE <1>u
<1>2. c \cap r = {} /\ (c \cup r) \cap s = {}
  OBVIOUS
<1>3. /\ IsFiniteSet(c) /\ IsFiniteSet(r) /\ IsFiniteSet(s)
      /\ Cardinality(c) = Cardinality(C) /\ Cardinality(r) = Cardinality(R)
      /\ Cardinality(s) = Cardinality(S)
      /\ Cardinality(C) \in Nat /\ Cardinality(R) \in Nat /\ Cardinality(S) \in Nat
  BY <1>1
<1>4. U = {} <=> C = {} /\ R = {} /\ S = {}
  <2>1. \A x \in C : <<x, "clone">> \in U
    OBVIOUS
  <2>2. \A x \in R : <<x, "root">> \in U
    OBVIOUS
  <2>3. \A x \in S : <<x, "start">> \in U
    OBVIOUS
  <2>4. C = {} /\ R = {} /\ S = {} => U = {}
    OBVIOUS
  <2> QED BY <2>1, <2>2, <2>3, <2>4, Zenon
<1>5. U = (c \cup r) \cup s
  OBVIOUS
<1> HIDE DEF c, r, s
<1>6. ASSUME NEW A, NEW B, IsFiniteSet(A), IsFiniteSet(B), A \cap B = {}
      PROVE  IsFiniteSet(A \cup B) /\ Cardinality(A \cup B) = Cardinality(A) + Cardinality(B)
  <2>1. /\ IsFiniteSet(A \cup B)
        /\ Cardinality(A \cup B) = Cardinality(A) + Cardinality(B) - Cardinality(A \cap B)
    BY <1>6, FS_Union
  <2>2. Cardinality(A \cap B) = 0 /\ Cardinality(A) \in Nat /\ Cardinality(B) \in Nat
    BY <1>6, FS_EmptySet, FS_CardinalityType
  <2> QED BY <2>1, <2>2
<1>7. IsFiniteSet(c \cup r) /\ Cardinality(c \cup r) = Cardinality(c) + Cardinality(r)
  BY <1>2, <1>3, <1>6
<1>8. IsFiniteSet(U) /\ Cardinality(U) = Cardinality(c \cup r) + Cardinality(s)
  <2> DEFINE d == c \cup r
  <2>1. IsFiniteSet(d) /\ d \cap s = {} /\ IsFiniteSet(s) /\ U = d \cup s
    BY <1>2, <1>3, <1>5, <1>7
  <2> HIDE DEF d
  <2>2. IsFiniteSet(U) /\ Cardinality(U) = Cardinality(d) + Cardinality(s)
    BY <1>6, <2>1
  <2> QED BY <2>2 DEF d
<1> QED BY <1>3, <1>4, <1>7, <1>8

\* One more user at most, or one less.
LEMMA OneMore ==
  ASSUME NEW A, NEW B, NEW x, IsFiniteSet(A), B \subseteq A \cup {x}
  PROVE  /\ IsFiniteSet(B) /\ Cardinality(A) \in Nat /\ Cardinality(B) \in Nat
         /\ Cardinality(B) <= Cardinality(A) + 1
         /\ B \subseteq A => Cardinality(B) <= Cardinality(A)
<1>1. IsFiniteSet(A \cup {x}) /\ Cardinality(A \cup {x}) \in {Cardinality(A), Cardinality(A) + 1}
  BY FS_AddElement
<1>2. IsFiniteSet(B) /\ Cardinality(B) <= Cardinality(A \cup {x})
  BY <1>1, FS_Subset
<1>3. B \subseteq A => Cardinality(B) <= Cardinality(A)
  BY FS_Subset
<1>4. Cardinality(A) \in Nat /\ Cardinality(B) \in Nat
  BY <1>2, FS_CardinalityType
<1> QED BY <1>1, <1>2, <1>3, <1>4

\* A set that lost an element is smaller.
LEMMA OneLess ==
  ASSUME NEW A, NEW B, NEW x, IsFiniteSet(A), x \in A, B \subseteq A \ {x}
  PROVE  /\ Cardinality(A) \in Nat /\ Cardinality(B) \in Nat
         /\ Cardinality(B) <= Cardinality(A) - 1
<1>1. IsFiniteSet(A \ {x}) /\ Cardinality(A \ {x}) = Cardinality(A) - 1
  BY FS_RemoveElement
<1>2. IsFiniteSet(B) /\ Cardinality(B) <= Cardinality(A \ {x})
  BY <1>1, FS_Subset
<1>4. Cardinality(A) \in Nat /\ Cardinality(B) \in Nat
  BY <1>2, FS_CardinalityType
<1> QED BY <1>1, <1>2, <1>4

Roots(f) == {t \in Thread : Inside(t) /\ ev[t].rootloc = f}
Starts(f) == {t \in Thread : Inside(t) /\ ev[t].at = f}
Tally(f) == Cardinality(Clones(f)) + Cardinality(Roots(f)) + Cardinality(Starts(f))

\* The users of a file system, before and after a step, are the sum of clones,
\* root locations and start locations.
LEMMA Tallied ==
  ASSUME NEW f, live \subseteq Namespace, live' \subseteq Namespace
  PROVE  /\ IsFiniteSet(Clones(f)) /\ IsFiniteSet(Roots(f)) /\ IsFiniteSet(Starts(f))
         /\ Cardinality(Users(f)) = Tally(f) /\ Tally(f) \in Nat
         /\ Users(f) = {} <=> Tally(f) = 0
         /\ IsFiniteSet(Clones(f)') /\ IsFiniteSet(Roots(f)') /\ IsFiniteSet(Starts(f)')
         /\ Cardinality(Users(f))' = Tally(f)' /\ Tally(f)' \in Nat
         /\ Users(f)' = {} <=> Tally(f)' = 0
<1>1. IsFiniteSet(Namespace) /\ IsFiniteSet(Thread)
  BY FiniteAssumption, FS_AddElement DEF Namespace
<1>2. ASSUME NEW A, A \subseteq Namespace \/ A \subseteq Thread
      PROVE  IsFiniteSet(A) /\ Cardinality(A) \in Nat /\ (Cardinality(A) = 0 <=> A = {})
  BY <1>1, <1>2, FS_Subset, FS_CardinalityType, FS_EmptySet
<1>3. /\ Clones(f) \subseteq Namespace /\ Roots(f) \subseteq Thread
      /\ Starts(f) \subseteq Thread
      /\ Clones(f)' \subseteq Namespace /\ Roots(f)' \subseteq Thread
      /\ Starts(f)' \subseteq Thread
  BY DEF Clones, Roots, Starts
<1>4. ASSUME NEW C, NEW R, NEW S, C \subseteq Namespace, R \subseteq Thread, S \subseteq Thread,
             NEW U, U = Union(C, R, S),
             NEW n, n = Cardinality(C) + Cardinality(R) + Cardinality(S)
      PROVE  /\ Cardinality(U) = n /\ n \in Nat /\ (U = {} <=> n = 0)
  <2>1. IsFiniteSet(C) /\ IsFiniteSet(R) /\ IsFiniteSet(S)
    BY <1>2, <1>4
  <2>2. /\ Cardinality(U) = n /\ (U = {} <=> C = {} /\ R = {} /\ S = {})
    BY <1>4, <2>1, UserCount
  <2>3. /\ Cardinality(C) \in Nat /\ Cardinality(R) \in Nat /\ Cardinality(S) \in Nat
        /\ (Cardinality(C) = 0 <=> C = {}) /\ (Cardinality(R) = 0 <=> R = {})
        /\ (Cardinality(S) = 0 <=> S = {})
    BY <1>2, <1>4
  <2> QED BY <1>4, <2>2, <2>3
<1>5. /\ Cardinality(Users(f)) = Tally(f) /\ Tally(f) \in Nat
      /\ Users(f) = {} <=> Tally(f) = 0
  <2>1. Users(f) = Union(Clones(f), Roots(f), Starts(f))
    BY DEF Users, Union, Roots, Starts
  <2>2. Tally(f) = Cardinality(Clones(f)) + Cardinality(Roots(f)) + Cardinality(Starts(f))
    BY DEF Tally
  <2> QED BY <1>3, <1>4, <2>1, <2>2
<1>6. /\ Cardinality(Users(f))' = Tally(f)' /\ Tally(f)' \in Nat
      /\ Users(f)' = {} <=> Tally(f)' = 0
  <2>1. Users(f)' = Union(Clones(f)', Roots(f)', Starts(f)')
    BY DEF Users, Union, Roots, Starts
  <2>2. Tally(f)' = Cardinality(Clones(f)') + Cardinality(Roots(f)') + Cardinality(Starts(f)')
    BY DEF Tally
  <2>3. Cardinality(Users(f))' = Cardinality(Users(f)')
    OBVIOUS
  <2> QED BY <1>3, <1>4, <2>1, <2>2, <2>3
<1> QED BY <1>2, <1>3, <1>5, <1>6

\* The account of a file system, in numbers.
Ledger(r, d, standing, n) ==
  IF standing THEN r - d >= 1 + n ELSE r - d >= 0 /\ n = 0

\* The counts of a file system, as the balance of numbers that the steps keep.
LEMMA CountedLedger ==
  ASSUME TypeOK, Counted, NEW f \in Target
  PROVE  Ledger(ref[f], deferred[f], Standing(f), Tally(f))
<1>1. Covered(f) /\ live \subseteq Namespace
  BY DEF Counted, TypeOK
<1>2. Cardinality(Users(f)) = Tally(f) /\ (Users(f) = {} <=> Tally(f) = 0)
  <2>1. ASSUME NEW C, NEW R, NEW S, C \subseteq Namespace, R \subseteq Thread, S \subseteq Thread,
             NEW U, U = Union(C, R, S),
             NEW n, n = Cardinality(C) + Cardinality(R) + Cardinality(S)
        PROVE  Cardinality(U) = n /\ (U = {} <=> n = 0)
    <3>1. IsFiniteSet(Namespace) /\ IsFiniteSet(Thread)
      BY FiniteAssumption, FS_AddElement DEF Namespace
    <3>2. IsFiniteSet(C) /\ IsFiniteSet(R) /\ IsFiniteSet(S)
      BY <2>1, <3>1, FS_Subset
    <3>3. Cardinality(U) = n /\ (U = {} <=> C = {} /\ R = {} /\ S = {})
      BY <2>1, <3>2, UserCount
    <3>4. /\ Cardinality(C) \in Nat /\ Cardinality(R) \in Nat /\ Cardinality(S) \in Nat
          /\ (Cardinality(C) = 0 <=> C = {}) /\ (Cardinality(R) = 0 <=> R = {})
          /\ (Cardinality(S) = 0 <=> S = {})
      BY <3>2, FS_CardinalityType, FS_EmptySet
    <3> QED BY <2>1, <3>3, <3>4
  <2>2. Clones(f) \subseteq Namespace /\ Roots(f) \subseteq Thread /\ Starts(f) \subseteq Thread
    BY <1>1 DEF Clones, Roots, Starts
  <2>3. Users(f) = Union(Clones(f), Roots(f), Starts(f))
    BY DEF Users, Union, Roots, Starts
  <2>4. Tally(f) = Cardinality(Clones(f)) + Cardinality(Roots(f)) + Cardinality(Starts(f))
    BY DEF Tally
  <2> QED BY <2>1, <2>2, <2>3, <2>4
<1> QED BY <1>1, <1>2 DEF Covered, Ledger

-----------------------------------------------------------------------------
(* What a step leaves as it is *)

\* The state of a file system changes only from unmounted to gone, when the last
\* reference is the mount's own.
Aged ==
  \A f \in Fs :
    \/ state'[f] = state[f]
    \/ f \in Target /\ state[f] = "unmounted" /\ state'[f] = "gone" /\ ref'[f] = 1

\* Releasing references only destroys unmounted file systems without other
\* references.
LEMMA SettleAges ==
  ASSUME NEW S, NEW count, ref' = count, state' = Survivors(S, count)
  PROVE  Aged
<1>1. \A f \in Destroyed(S, count) :
        f \in Target /\ state[f] = "unmounted" /\ count[f] = 1
  BY DEF Destroyed, Ready
<1> QED BY <1>1 DEF Survivors, Aged

\* The counts after a step in which file systems at most go, with one reference.
StandsOn(f) ==
  \/ Standing(f)' <=> Standing(f)
  \/ Standing(f) /\ ~Standing(f)' /\ ref'[f] = 1

\* A step that keeps the balance of a file system keeps it covered, also when it
\* destroys it.
LEMMA CountedIf ==
  ASSUME TypeOK, TypeOK', NEW f \in Target, StandsOn(f),
         Ledger(ref'[f], deferred'[f], Standing(f), Tally(f)')
  PROVE  Covered(f)'
<1>1. /\ Cardinality(Users(f))' = Tally(f)' /\ Tally(f)' \in Nat
      /\ Users(f)' = {} <=> Tally(f)' = 0
  <2>1. live \subseteq Namespace /\ live' \subseteq Namespace
    BY DEF TypeOK
  <2> QED BY <2>1, Tallied
<1>2. /\ ref'[f] \in Nat /\ deferred'[f] \in Nat
      /\ Ledger(ref'[f], deferred'[f], Standing(f), Tally(f)')
  BY DEF TypeOK
<1>4. CASE Standing(f)' <=> Standing(f)
  BY <1>1, <1>2, <1>4 DEF Covered, Ledger
<1>5. CASE Standing(f) /\ ~Standing(f)' /\ ref'[f] = 1
  <2>2. ref'[f] - deferred'[f] >= 1 + Tally(f)'
    BY <1>2, <1>5 DEF Ledger
  <2>3. ASSUME NEW d \in Nat, NEW n \in Nat, 1 - d >= 1 + n PROVE n = 0 /\ d = 0
    BY <2>3
  <2>4. Tally(f)' = 0 /\ deferred'[f] = 0
    BY <1>1, <1>2, <1>5, <2>2, <2>3
  <2> QED BY <1>1, <1>5, <2>4 DEF Covered
<1> QED BY <1>4, <1>5 DEF StandsOn

\* The same for all file systems.
LEMMA CountedAfter ==
  ASSUME TypeOK, TypeOK', Aged,
         \A f \in Target : Ledger(ref'[f], deferred'[f], Standing(f), Tally(f)')
  PROVE  Counted'
<1>1. \A f \in Target : StandsOn(f)
  BY DEF Aged, StandsOn, Standing, Fs
<1> QED BY <1>1, CountedIf DEF Counted

\* The lists are right as long as they stay and file systems only age.
LEMMA ListedAfter ==
  ASSUME TypeOK, Listed, Aged, UNCHANGED <<live, list, nulled, home>>
  PROVE  Listed'
<1>1. \A n : Entries(n)' = Entries(n)
  BY DEF Entries
<1>2. \A n, f : Valid(n, f)' = Valid(n, f)
  BY DEF Valid
<1>3. RootFs \in Fs /\ RootFs \notin Target /\ Target \subseteq Fs
  BY TargetAssumption DEF Fs
<1>4. state'[RootFs] = "mounted"
  BY <1>3 DEF Listed, Aged
<1> QED BY <1>1, <1>2, <1>3, <1>4 DEF Listed, Aged

-----------------------------------------------------------------------------
(* Evaluations that a step does not advance *)

\* A thread that is not inside the evaluation's lookup.
LEMMA Idle ==
  ASSUME NEW t \in Thread, pc'[t] \notin {"root", "current", "start", "walk"}
  PROVE  Evaluating(t)'
BY DEF Evaluating, Early, Undisturbed, Below

Stands(t) ==
  /\ pc'[t] = pc[t] \/ pc'[t] = "out"
  /\ ev'[t] \in {ev[t], [ev[t] EXCEPT !.clean = FALSE]}

\* Its list stays, apart from what is unmounted, or has the system's root.
Grounded(t) ==
  /\ \/ RootFs \in Entries(where[t])'
     \/ \A f \in Entries(where[t]) :
          f \in Entries(where[t])' \/ (f \in Target /\ state'[f] = "unmounted")
  /\ \A f \in Target : state[f] \in {"unmounted", "gone"} =>
                         state'[f] \in {"unmounted", "gone"}

\* It is disturbed, or nothing it looks at changes.
Apart(t) ==
  \/ ~ev'[t].clean
  \/ /\ UNCHANGED <<currentPath, adjusted, where[t], list[where[t]]>>
     /\ Usable(where[t])' = Usable(where[t])
     /\ \A f \in Fs : state'[f] = "mounted" <=> state[f] = "mounted"

\* A thread whose list stays as it is keeps its ground.
LEMMA SameGround ==
  ASSUME NEW t \in Thread, Entries(where[t])' = Entries(where[t]), Aged
  PROVE  Grounded(t)
<1>1. \A f \in Target : state[f] \in {"unmounted", "gone"} => state'[f] \in {"unmounted", "gone"}
  BY DEF Aged, Fs
<1>2. \A f \in Entries(where[t]) :
        f \in Entries(where[t])' \/ (f \in Target /\ state'[f] = "unmounted")
  OBVIOUS
<1> QED BY <1>1, <1>2 DEF Grounded

\* A thread that does not move on in the step keeps its part of the invariant.
LEMMA Bystander ==
  ASSUME TypeOK, NEW t \in Thread, Evaluating(t), Stands(t), Grounded(t), Apart(t)
  PROVE  Evaluating(t)'
<1>1. CASE pc'[t] \notin {"root", "current", "start", "walk"}
  BY <1>1, Idle
<1>2. CASE pc'[t] = pc[t] /\ pc[t] \in {"root", "current", "start", "walk"}
  <2>0. ev[t] \in Eval
    BY DEF TypeOK
  <2>1. /\ ev'[t].op = ev[t].op /\ ev'[t].path = ev[t].path /\ ev'[t].root = ev[t].root
        /\ ev'[t].current = ev[t].current /\ ev'[t].rootloc = ev[t].rootloc
        /\ ev'[t].at = ev[t].at /\ ev'[t].spot = ev[t].spot
        /\ ev'[t].clean => ev[t].clean
        /\ ev'[t].moved = ev[t].moved
    BY <2>0 DEF Stands, Eval
  <2>2. Early(t)'
    BY <1>2, <2>1 DEF Evaluating, Early
  <2>3. \A f : Backed(f, t) => Backed(f, t)'
    <3>1. RootFs \notin Target
      BY TargetAssumption
    <3> QED BY <3>1 DEF Backed, Grounded
  <2>4. Below(t)'
    <3>1. Below(t)
      BY DEF Evaluating
    <3> QED BY <1>2, <2>1, <2>3, <3>1 DEF Below
  <2>5. Undisturbed(t)'
    <3>1. CASE ~ev'[t].clean
      BY <3>1 DEF Undisturbed
    <3>2. CASE ev'[t].clean
      <4>1. /\ UNCHANGED <<currentPath, adjusted, where[t], list[where[t]]>>
            /\ Usable(where[t])' = Usable(where[t])
            /\ \A f \in Fs : state'[f] = "mounted" <=> state[f] = "mounted"
        BY <3>2 DEF Apart
      <4>2. /\ FindBest(where[t], ev[t].path)' = FindBest(where[t], ev[t].path)
            /\ Fallback(where[t])' = Fallback(where[t])
        <5>1. Fallback(where[t])' = Fallback(where[t])
          <6>1. RootFs \in Entries(where[t]) /\ Valid(where[t], RootFs) <=> RootFs \in Usable(where[t])
            BY DEF Usable
          <6>2. (RootFs \in Entries(where[t]) /\ Valid(where[t], RootFs))' <=> RootFs \in Usable(where[t])'
            BY DEF Usable
          <6> QED BY <4>1, <6>1, <6>2 DEF Fallback
        <5> QED BY <2>1, <4>1, <5>1 DEF FindBest
      <4>3. Selected(t)' = Selected(t) /\ Remaining(t)' = Remaining(t)
        BY <2>1, <4>2 DEF Selected, Remaining
      <4>4. Undisturbed(t) /\ ev[t].clean
        BY <2>1, <3>2 DEF Evaluating
      <4>5. Selected(t) \in Place
        <5>1. ev[t].path \in Seq(Name)
          BY <1>2, <4>4, PathAssumption DEF Undisturbed
        <5>2. where[t] \in Namespace /\ list[where[t]] \in Seq(Fs)
          BY DEF TypeOK
        <5>3. FindBest(where[t], ev[t].path) \in Best
          BY <5>1, <5>2, BestFound DEF FindBest
        <5> QED BY <5>3 DEF Selected, Fallback, Place, Fs, Best
      <4>6. Selected(t) # Nowhere => (state'[Selected(t)] = "mounted" <=> state[Selected(t)] = "mounted")
        BY <4>1, <4>5 DEF Place
      <4>7. ev[t].at # Nowhere => (state'[ev[t].at] = "mounted" <=> state[ev[t].at] = "mounted")
        BY <2>0, <4>1 DEF Place, Eval
      <4> QED BY <1>2, <2>1, <4>1, <4>3, <4>4, <4>6, <4>7 DEF Undisturbed
    <3> QED BY <3>1, <3>2
  <2> QED BY <2>2, <2>4, <2>5 DEF Evaluating
<1> QED BY <1>1, <1>2 DEF Stands

-----------------------------------------------------------------------------
(* Namespaces *)

\* The initial state satisfies the invariant.
LEMMA InitInv == Init => MntInv
<1> SUFFICES ASSUME Init PROVE MntInv
  OBVIOUS
<1> USE DEF Init
<1>0. RootFs \in Fs /\ RootFs \notin Target /\ Target \subseteq Fs /\ Nowhere \notin Fs
  BY TargetAssumption, FsIsPath DEF Fs
<1>1. TypeOK
  <2>1. <<RootFs>> \in Seq(Fs) /\ <<>> \in Seq(Fs)
    BY <1>0
  <2>2. list \in [Namespace -> Seq(Fs)]
    BY <2>1
  <2>3. NoEval \in Eval
    BY DEF NoEval, Eval, Place
  <2>4. live \subseteq Namespace /\ home \in [Target -> Namespace] /\ parent \in [Target -> Place]
    BY DEF Namespace, Place
  <2>5. pc \in [Thread -> Stage] /\ ev \in [Thread -> Eval]
    BY <2>3 DEF Stage
  <2>6. state \in [Fs -> {"absent", "mounted", "unmounted", "gone"}]
    OBVIOUS
  <2>7. \A t \in Thread : pc[t] = "out"
    OBVIOUS
  <2> QED BY <2>2, <2>4, <2>5, <2>6, <2>7 DEF TypeOK
<1>2. \A n \in Namespace : Entries(n) = IF n = Root THEN {RootFs} ELSE {}
  <2>1. DOMAIN <<RootFs>> = {1} /\ <<RootFs>>[1] = RootFs /\ DOMAIN <<>> = {}
    OBVIOUS
  <2> QED BY <2>1 DEF Entries
<1>3. Listed
  BY <1>0, <1>2 DEF Listed, Namespace, Valid
<1>4. Counted
  <2>1. ASSUME NEW f \in Target PROVE Users(f) = {}
    <3>1. Clones(f) = {}
      BY <1>0, <1>2 DEF Clones, Namespace
    <3>2. \A t \in Thread : ~Inside(t)
      BY DEF Inside
    <3> QED BY <3>1, <3>2 DEF Users
  <2> QED BY <1>0, <2>1 DEF Counted, Covered, Standing
<1>5. \A t \in Thread : Evaluating(t)
  BY DEF Evaluating, Early, Undisturbed, Below
<1> QED BY <1>1, <1>3, <1>4, <1>5 DEF MntInv

\* A namespace created without inheritance has no entries.
LEMMA NsCreateInv ==
  ASSUME MntInv, NEW n \in Child, NsCreate(n) PROVE MntInv'
<1> USE DEF NsCreate, systems, statics
<1>0. /\ n \in Namespace /\ n # Root /\ n \notin live /\ live' = live \cup {n}
      /\ \A t \in Thread : where[t] \in live /\ where[t] \in Namespace /\ where[t] # n
  BY TargetAssumption DEF MntInv, TypeOK, Namespace
<1>1. TypeOK'
  <2>1. list' \in [Namespace -> Seq(Fs)]
    BY EmptySeq DEF MntInv, TypeOK
  <2> QED BY <1>0, <2>1 DEF MntInv, TypeOK
<1>2. /\ \A m \in Namespace : m # n => list'[m] = list[m] /\ Entries(m)' = Entries(m)
      /\ Entries(n)' = {}
  <2>1. list \in [Namespace -> Seq(Fs)]
    BY DEF MntInv, TypeOK
  <2>2. DOMAIN <<>> = {} /\ list'[n] = <<>>
    BY <1>0, <2>1
  <2> QED BY <1>0, <2>1, <2>2 DEF Entries
<1>3. \A m, f : Valid(m, f)' = Valid(m, f)
  BY DEF Valid
<1>4. Aged
  BY DEF Aged
<1>5. Listed'
  <2>1. \A m \in live' : m = n \/ m \in live
    BY <1>0
  <2>2. live \subseteq Namespace /\ Root \in Namespace /\ nulled \subseteq live \X Target
    BY DEF MntInv, TypeOK, Namespace
  <2>3. \A f : Valid(n, f)
    BY <1>0, <2>2 DEF Valid
  <2>4. Listed /\ state' = state /\ home' = home
    BY DEF MntInv
  <2>5. RootFs \in Entries(Root)' /\ state'[RootFs] = "mounted"
    BY <1>0, <1>2, <2>2, <2>4 DEF Listed
  <2>6. \A m \in Namespace, f \in Target : f \in Entries(m)' => state'[f] # "absent"
    BY <1>2, <2>4 DEF Listed
  <2>7. \A m \in live', f \in Target :
          f \in Entries(m)' /\ Valid(m, f)' /\ home'[f] = m => state'[f] = "mounted"
    BY <1>0, <1>2, <1>3, <2>1, <2>2, <2>4 DEF Listed
  <2>8. \A m \in live', f \in Target : ~Valid(m, f)' => state'[f] \in {"unmounted", "gone"}
    BY <1>3, <2>1, <2>3, <2>4 DEF Listed
  <2> QED BY <2>5, <2>6, <2>7, <2>8 DEF Listed
<1>6. Counted'
  <2>1. ASSUME NEW f \in Target PROVE Ledger(ref'[f], deferred'[f], Standing(f), Tally(f)')
    <3>1. Clones(f)' = Clones(f)
      BY <1>0, <1>2, <1>3 DEF Clones, MntInv, TypeOK
    <3>2. Roots(f)' = Roots(f) /\ Starts(f)' = Starts(f)
      BY DEF Roots, Starts, Inside
    <3>3. Tally(f)' = Tally(f)
      BY <3>1, <3>2 DEF Tally
    <3> QED BY <3>3, CountedLedger DEF MntInv
  <2> QED BY <1>1, <1>4, <2>1, CountedAfter DEF MntInv
<1>7. ASSUME NEW t \in Thread PROVE Evaluating(t)'
  <2>1. Stands(t)
    BY DEF Stands
  <2>2. Grounded(t)
    <3>1. Entries(where[t])' = Entries(where[t])
      BY <1>0, <1>2 DEF Entries
    <3> QED BY <1>4, <3>1, SameGround
  <2>3. Apart(t)
    <3>1. Usable(where[t])' = Usable(where[t])
      BY <1>0, <1>2, <1>3 DEF Usable
    <3> QED BY <1>0, <1>2, <3>1 DEF Apart
  <2> QED BY <2>1, <2>2, <2>3, Bystander DEF MntInv
<1> QED BY <1>1, <1>5, <1>6, <1>7 DEF MntInv

\* A deleted namespace gives up one reference per clone, and each clone was a user.
LEMMA NsDeleteInv ==
  ASSUME MntInv, NEW n \in Child, NsDelete(n) PROVE MntInv'
<1> USE DEF NsDelete, statics
<1>0. /\ n \in Namespace /\ n # Root /\ n \in live /\ live' = live \ {n}
      /\ live \subseteq Namespace /\ Root \in live
      /\ where \in [Thread -> live] /\ where' = Redirected(n)
  BY TargetAssumption DEF MntInv, TypeOK, Namespace
<1>w. \A t \in Thread : where'[t] = (IF where[t] = n THEN Root ELSE where[t])
                        /\ where[t] \in Namespace
  BY <1>0 DEF Redirected
<1>d. \A f \in Target : deferred'[f] = deferred[f] + IF f \in Entries(n) /\ Valid(n, f) THEN 1 ELSE 0
  OBVIOUS
<1>e. \A t \in Thread : ev'[t] = IF where[t] = n THEN [ev[t] EXCEPT !.clean = FALSE] ELSE ev[t]
  OBVIOUS
<1>1. TypeOK'
  <2>1. list' \in [Namespace -> Seq(Fs)]
    BY EmptySeq DEF MntInv, TypeOK
  <2>2. where' \in [Thread -> live']
    BY <1>0 DEF Redirected
  <2>3. nulled' \subseteq live' \X Target
    BY <1>0 DEF MntInv, TypeOK
  <2>4. deferred' \in [Target -> Nat]
    BY DEF MntInv, TypeOK
  <2>5. ev' \in [Thread -> Eval] /\ \A t \in Thread : ev'[t].at = ev[t].at
    <3>1. ASSUME NEW t \in Thread PROVE ev'[t] \in Eval /\ ev'[t].at = ev[t].at
      <4>1. ev[t] \in Eval
        BY DEF MntInv, TypeOK
      <4>2. [ev[t] EXCEPT !.clean = FALSE] \in Eval /\ [ev[t] EXCEPT !.clean = FALSE].at = ev[t].at
        BY <4>1 DEF Eval
      <4> QED BY <1>e, <4>1, <4>2
    <3> QED BY <3>1
  <2> QED BY <1>0, <2>1, <2>2, <2>3, <2>4, <2>5 DEF MntInv, TypeOK
<1>2. /\ \A m \in Namespace : m # n => list'[m] = list[m] /\ Entries(m)' = Entries(m)
      /\ Entries(n)' = {}
  <2>1. list \in [Namespace -> Seq(Fs)]
    BY DEF MntInv, TypeOK
  <2>2. DOMAIN <<>> = {} /\ list'[n] = <<>>
    BY <1>0, <2>1
  <2> QED BY <1>0, <2>1, <2>2 DEF Entries
<1>3. \A m, f : m # n => (Valid(m, f)' <=> Valid(m, f))
  BY DEF Valid
<1>4. Aged
  BY DEF Aged
<1>5. Listed'
  <2>2. Root \in Namespace /\ \A m \in live' : m # n /\ m \in live /\ m \in Namespace
    BY <1>0
  <2> QED BY <1>0, <1>2, <1>3, <2>2 DEF MntInv, Listed
<1>6. Counted'
  <2>1. ASSUME NEW f \in Target PROVE Ledger(ref'[f], deferred'[f], Standing(f), Tally(f)')
    <3>1. Clones(f)' = Clones(f) \ {n}
      BY <1>0, <1>2, <1>3 DEF Clones
    <3>2. Roots(f)' = Roots(f) /\ Starts(f)' = Starts(f)
      BY <1>1, <1>e DEF Roots, Starts, Inside, MntInv, TypeOK, Eval
    <3>3. f \in Entries(n) /\ Valid(n, f) => n \in Clones(f)
      <4>1. f # RootFs
        BY TargetAssumption
      <4> QED BY <1>0, <4>1 DEF Clones, MntInv, Listed
    <3>4. /\ IsFiniteSet(Clones(f)) /\ IsFiniteSet(Roots(f)) /\ IsFiniteSet(Starts(f))
          /\ Tally(f) \in Nat /\ Tally(f)' \in Nat
      BY <1>0, Tallied
    <3>5. Ledger(ref[f], deferred[f], Standing(f), Tally(f))
      BY CountedLedger DEF MntInv
    <3>6. ref[f] \in Nat /\ deferred[f] \in Nat /\ ref'[f] = ref[f]
      BY DEF MntInv, TypeOK
    <3>7. CASE n \in Clones(f)
      <4>1. Cardinality(Clones(f)') <= Cardinality(Clones(f)) - 1
        BY <3>1, <3>4, <3>7, OneLess
      <4>2. Tally(f)' <= Tally(f) - 1
        <5>1. /\ Cardinality(Clones(f)) \in Nat /\ Cardinality(Clones(f)') \in Nat
              /\ Cardinality(Roots(f)) \in Nat /\ Cardinality(Starts(f)) \in Nat
          BY <3>1, <3>4, FS_CardinalityType, FS_RemoveElement
        <5> QED BY <3>2, <4>1, <5>1 DEF Tally
      <4>3. deferred'[f] <= deferred[f] + 1 /\ deferred'[f] \in Nat
        BY <1>d, <3>6
      <4>4. ASSUME NEW r \in Nat, NEW d \in Nat, NEW e \in Nat, e <= d + 1,
                   NEW k \in Nat, NEW l \in Nat, l <= k - 1, NEW s \in BOOLEAN, Ledger(r, d, s, k)
            PROVE  Ledger(r, e, s, l)
        BY <4>4 DEF Ledger
      <4>5. Standing(f) \in BOOLEAN
        BY DEF Standing
      <4> QED BY <3>4, <3>5, <3>6, <4>2, <4>3, <4>4, <4>5
    <3>8. CASE n \notin Clones(f)
      <4>1. Tally(f)' = Tally(f)
        BY <3>1, <3>2, <3>8 DEF Tally
      <4>2. deferred'[f] = deferred[f]
        BY <1>d, <3>3, <3>6, <3>8
      <4> QED BY <3>5, <3>6, <4>1, <4>2
    <3> QED BY <3>7, <3>8
  <2> QED BY <1>1, <1>4, <2>1, CountedAfter DEF MntInv
<1>7. ASSUME NEW t \in Thread PROVE Evaluating(t)'
  <2>1. Stands(t)
    BY <1>e DEF Stands
  <2>2. Grounded(t)
    <3>1. RootFs \in Entries(Root) /\ Entries(Root)' = Entries(Root)
      BY <1>0, <1>2 DEF MntInv, Listed
    <3>2. CASE where[t] = n
      <4>1. where'[t] = Root
        BY <1>w, <3>2
      <4>2. Entries(where[t])' = Entries(Root)'
        BY <4>1 DEF Entries
      <4> QED BY <3>1, <4>2 DEF Grounded
    <3>3. CASE where[t] # n
      <4>1. Entries(where[t])' = Entries(where[t])
        BY <1>2, <1>w, <3>3 DEF Entries
      <4> QED BY <1>4, <4>1, SameGround
    <3> QED BY <3>2, <3>3
  <2>3. Apart(t)
    <3>1. CASE where[t] = n
      <4>1. ev[t] \in Eval
        BY DEF MntInv, TypeOK
      <4> QED BY <1>e, <3>1, <4>1 DEF Apart, Eval
    <3>2. CASE where[t] # n
      <4>1. Entries(where[t])' = Entries(where[t]) /\ list'[where[t]] = list[where[t]]
        BY <1>2, <1>w, <3>2 DEF Entries
      <4>2. Usable(where[t])' = Usable(where[t])
        BY <1>3, <1>w, <3>2, <4>1 DEF Usable
      <4> QED BY <1>w, <3>2, <4>1, <4>2 DEF Apart
    <3> QED BY <3>1, <3>2
  <2> QED BY <2>1, <2>2, <2>3, Bystander DEF MntInv
<1> QED BY <1>1, <1>5, <1>6, <1>7 DEF MntInv

\* A thread that is moved in the middle of an evaluation is disturbed and moved;
\* nothing of what it refers to changes.
LEMMA MoveInv ==
  ASSUME MntInv, NEW t \in Thread, NEW n \in Namespace, Move(t, n) PROVE MntInv'
<1>0. /\ n \in live /\ where' = [where EXCEPT ![t] = n]
      /\ ev' = [ev EXCEPT ![t] = [ev[t] EXCEPT !.clean = FALSE, !.moved = Looks(t)]]
      /\ pc[t] = "out" \/ Looks(t)
      /\ UNCHANGED <<live, list, nulled, home, state, parent, ref, deferred>>
      /\ UNCHANGED <<pc, currentPath, adjusted>>
  BY DEF Move, systems, statics
<1>e. /\ \A u \in Thread : ev[u] \in Eval /\ (u # t => ev'[u] = ev[u])
      /\ ev'[t] = [ev[t] EXCEPT !.clean = FALSE, !.moved = Looks(t)]
  BY <1>0 DEF MntInv, TypeOK
<1>f. /\ ev'[t] \in Eval /\ ~ev'[t].clean /\ ev'[t].moved = Looks(t)
      /\ ev'[t].path = ev[t].path /\ ev'[t].rootloc = ev[t].rootloc /\ ev'[t].at = ev[t].at
  <2>1. Looks(t) \in BOOLEAN
    BY DEF Looks
  <2> QED BY <1>e, <2>1 DEF Eval
<1>g. \A u \in Thread : ev'[u].rootloc = ev[u].rootloc /\ ev'[u].at = ev[u].at
  BY <1>e, <1>f
<1>1. TypeOK'
  <2>1. ev' \in [Thread -> Eval]
    BY <1>0, <1>e, <1>f DEF MntInv, TypeOK
  <2>2. \A u \in Thread : pc'[u] \in {"marked", "wait"} => ev'[u].at \in Target
    BY <1>0, <1>g DEF MntInv, TypeOK
  <2>3. where' \in [Thread -> live']
    BY <1>0 DEF MntInv, TypeOK
  <2> QED BY <1>0, <2>1, <2>2, <2>3 DEF MntInv, TypeOK
<1>2. Aged
  BY <1>0 DEF Aged
<1>3. Listed'
  BY <1>0, <1>2, ListedAfter DEF MntInv
<1>4. Counted'
  <2>1. ASSUME NEW f \in Target PROVE Ledger(ref'[f], deferred'[f], Standing(f), Tally(f)')
    <3>1. Clones(f)' = Clones(f)
      BY <1>0 DEF Clones, Entries, Valid
    <3>2. Roots(f)' = Roots(f) /\ Starts(f)' = Starts(f)
      BY <1>0, <1>g DEF Roots, Starts, Inside
    <3>3. Tally(f)' = Tally(f)
      BY <3>1, <3>2 DEF Tally
    <3> QED BY <1>0, <3>3, CountedLedger DEF MntInv
  <2> QED BY <1>1, <1>2, <2>1, CountedAfter DEF MntInv
<1>5. ASSUME NEW u \in Thread PROVE Evaluating(u)'
  <2>1. CASE u = t /\ pc[t] = "out"
    <3>1. pc'[u] \notin {"root", "current", "start", "walk"}
      BY <1>0, <2>1
    <3> QED BY <3>1, Idle
  <2>2. CASE u = t /\ Looks(t)
    <3>1. Undisturbed(t)' /\ Below(t)'
      BY <1>f, <2>2 DEF Undisturbed, Below
    <3>2. Early(t)'
      BY <1>0, <1>f DEF MntInv, Evaluating, Early
    <3> QED BY <2>2, <3>1, <3>2 DEF Evaluating
  <2>3. CASE u # t
    <3>1. where'[u] = where[u]
      BY <1>0, <2>3 DEF MntInv, TypeOK
    <3>2. Stands(u) /\ Grounded(u)
      <4>1. Entries(where[u])' = Entries(where[u])
        BY <1>0, <3>1 DEF Entries
      <4> QED BY <1>0, <1>2, <1>e, <2>3, <4>1, SameGround DEF Stands
    <3>3. Apart(u)
      BY <1>0, <3>1 DEF Apart, Usable, Entries, Valid
    <3> QED BY <3>2, <3>3, Bystander DEF MntInv
  <2> QED BY <1>0, <2>1, <2>2, <2>3
<1> QED BY <1>1, <1>3, <1>4, <1>5 DEF MntInv

\* A step that obtains k references for at most k new users.
LEMMA Obtains ==
  ASSUME MntInv, TypeOK', NEW f \in Target, NEW k \in Nat,
         Tally(f)' <= Tally(f) + k, k > 0 => Standing(f),
         ref'[f] - deferred'[f] >= (ref[f] - deferred[f]) + k
  PROVE  Ledger(ref'[f], deferred'[f], Standing(f), Tally(f)')
<1>1. Tally(f) \in Nat /\ Tally(f)' \in Nat
  <2>1. live \subseteq Namespace /\ live' \subseteq Namespace
    BY DEF MntInv, TypeOK
  <2> QED BY <2>1, Tallied
<1>2. Ledger(ref[f], deferred[f], Standing(f), Tally(f))
  BY CountedLedger DEF MntInv
<1>3. ref[f] \in Nat /\ deferred[f] \in Nat /\ ref'[f] \in Nat /\ deferred'[f] \in Nat
  BY DEF MntInv, TypeOK
<1>4. CASE Standing(f)
  BY <1>1, <1>2, <1>3, <1>4 DEF Ledger
<1>5. CASE ~Standing(f)
  BY <1>1, <1>2, <1>3, <1>5 DEF Ledger
<1> QED BY <1>4, <1>5

\* deferred_release() leaves a count that is not negative.
LEMMA FlushedCounts ==
  ASSUME MntInv, NEW f \in Target
  PROVE  /\ Flushed.count[f] \in Nat /\ Flushed.count[f] = ref[f] - deferred[f]
         /\ Flushed.pending[f] = 0
<1>1. ref[f] \in Nat /\ deferred[f] \in Nat
  BY DEF MntInv, TypeOK
<1>2. Ledger(ref[f], deferred[f], Standing(f), Tally(f)) /\ Tally(f) \in Nat
  <2>1. live \subseteq Namespace
    BY DEF MntInv, TypeOK
  <2>2. ASSUME NEW C, C \subseteq Namespace \/ C \subseteq Thread PROVE Cardinality(C) \in Nat
    <3>1. IsFiniteSet(Namespace) /\ IsFiniteSet(Thread)
      BY FiniteAssumption, FS_AddElement DEF Namespace
    <3> QED BY <2>2, <3>1, FS_Subset, FS_CardinalityType
  <2>3. Clones(f) \subseteq Namespace /\ Roots(f) \subseteq Thread /\ Starts(f) \subseteq Thread
    BY <2>1 DEF Clones, Roots, Starts
  <2> QED BY <2>2, <2>3, CountedLedger DEF MntInv, Tally
<1>3. ref[f] - deferred[f] >= 0
  BY <1>1, <1>2 DEF Ledger
<1> QED BY <1>1, <1>3 DEF Flushed

\* Who is woken leaves a wait, and nothing else.
LEMMA WokenThreads ==
  ASSUME TypeOK, NEW t \in Thread
  PROVE  Woken[t] = pc[t] \/ (pc[t] = "wait" /\ Woken[t] = "out")
BY DEF Woken, TypeOK

\* Inheriting obtains one reference for each clone that becomes a user.
LEMMA NsInheritInv ==
  ASSUME MntInv, NEW n \in Child, NEW p \in Namespace, NsInherit(n, p) PROVE MntInv'
<1>0. /\ n \in Namespace /\ n # Root /\ n \notin live /\ live' = live \cup {n}
      /\ p \in live /\ live \subseteq Namespace /\ Root \in live
      /\ nulled \subseteq live \X Target
      /\ \A t \in Thread : where[t] \in live /\ where[t] \in Namespace /\ where[t] # n
  BY TargetAssumption DEF NsInherit, MntInv, TypeOK, Namespace
<1> DEFINE lost == {g \in Entries(p) : ~Valid(p, g) \/ Obtained(g) = Nowhere}
<1>u. /\ list' = [list EXCEPT ![n] = list[p]]
      /\ nulled' = nulled \cup {<<n, f>> : f \in lost}
      /\ UNCHANGED <<where, home, parent, ev, currentPath, adjusted, evals>>
  BY DEF NsInherit, statics
<1>2. /\ \A m \in Namespace : m # n => list'[m] = list[m] /\ Entries(m)' = Entries(m)
      /\ Entries(n)' = Entries(p) /\ list' \in [Namespace -> Seq(Fs)]
  <2>1. list \in [Namespace -> Seq(Fs)]
    BY DEF MntInv, TypeOK
  <2>2. list'[n] = list[p]
    BY <1>0, <1>u, <2>1
  <2> QED BY <1>0, <1>u, <2>1, <2>2 DEF Entries
<1>e. \A f \in Entries(p) : f \in Fs /\ f # Nowhere
  <2>1. list[p] \in Seq(Fs)
    BY DEF MntInv, TypeOK
  <2> QED BY <2>1, IndexSet, FsIsPath DEF Entries
<1>l. \A f \in lost : f \in Target /\ state[f] \in {"unmounted", "gone"}
  <2>1. ASSUME NEW f \in lost PROVE f \in Target /\ state[f] \in {"unmounted", "gone"}
    <3>1. f \in Fs /\ f # Nowhere /\ f \in Entries(p)
      BY <1>e
    <3>2. CASE ~Valid(p, f)
      <4>1. f \in Target
        BY <1>0, <3>2 DEF Valid
      <4> QED BY <1>0, <3>2, <4>1 DEF MntInv, Listed
    <3>3. CASE Obtained(f) = Nowhere
      <4>1. state[f] # "mounted"
        BY <3>1, <3>3 DEF Obtained
      <4>2. f \in Target
        BY <3>1, <4>1 DEF MntInv, Listed, Fs
      <4>3. state[f] # "absent" /\ state[f] \in {"absent", "mounted", "unmounted", "gone"}
        BY <3>1, <4>2 DEF MntInv, Listed, TypeOK
      <4> QED BY <4>1, <4>2, <4>3
    <3> QED BY <3>2, <3>3
  <2> QED BY <2>1
<1>3. /\ \A m, f : m # n => (Valid(m, f)' <=> Valid(m, f))
      /\ \A f : Valid(n, f)' <=> f \notin lost
  BY <1>0, <1>u DEF Valid
<1> HIDE DEF lost
<1>4. /\ Aged
      /\ \A t \in Thread : pc'[t] = pc[t] \/ (pc[t] = "wait" /\ pc'[t] = "out")
      /\ pc' \in [Thread -> Stage]
      /\ ref' \in [Target -> Nat] /\ deferred' \in [Target -> Nat]
      /\ \A f \in Target :
           ref'[f] - deferred'[f] >= (ref[f] - deferred[f]) +
             IF f \in Entries(p) /\ f \notin lost THEN 1 ELSE 0
  <2>1. CASE \A f \in Entries(p) : ~Valid(p, f)
    <3>1. UNCHANGED <<ref, deferred, state, pc>>
      BY <2>1 DEF NsInherit
    <3>2. \A f \in Entries(p) : f \in lost
      BY <2>1 DEF lost
    <3>3. ref \in [Target -> Nat] /\ deferred \in [Target -> Nat] /\ pc \in [Thread -> Stage]
      BY DEF MntInv, TypeOK
    <3>4. Aged
      BY <3>1 DEF Aged
    <3> QED BY <3>1, <3>2, <3>3, <3>4
  <2>2. CASE ~(\A f \in Entries(p) : ~Valid(p, f))
    <3>1. Settle(Late, [f \in Target |-> Flushed.count[f] + Cloned(p)[f]], Flushed.pending)
          /\ pc' = Woken
      BY <2>2 DEF NsInherit
    <3>2. Aged
      BY <3>1, SettleAges DEF Settle
    <3>3. \A f \in Target : Cloned(p)[f] = IF f \in Entries(p) /\ f \notin lost THEN 1 ELSE 0
      <4>1. ASSUME NEW f \in Target, f \in Entries(p)
            PROVE  f \notin lost <=> Valid(p, f) /\ Obtained(f) = f
        <5>1. Obtained(f) \in {f, Nowhere}
          BY DEF Obtained
        <5> QED BY <1>e, <4>1, <5>1 DEF lost
      <4> QED BY <4>1 DEF Cloned
    <3>4. ASSUME NEW f \in Target
          PROVE  /\ ref'[f] \in Nat /\ deferred'[f] \in Nat
                 /\ ref'[f] - deferred'[f] >= (ref[f] - deferred[f]) +
                      IF f \in Entries(p) /\ f \notin lost THEN 1 ELSE 0
      <4>1. ref'[f] = Flushed.count[f] + Cloned(p)[f] /\ deferred'[f] = Flushed.pending[f]
        BY <3>1 DEF Settle
      <4>2. Cloned(p)[f] \in Nat
        BY <3>3
      <4> QED BY <3>3, <4>1, <4>2, FlushedCounts
    <3>5. ref' \in [Target -> Nat] /\ deferred' \in [Target -> Nat]
      <4>1. ref' = [f \in Target |-> ref'[f]] /\ deferred' = [f \in Target |-> deferred'[f]]
        BY <3>1 DEF Settle, Flushed
      <4> QED BY <3>4, <4>1
    <3>6. \A t \in Thread : pc'[t] = pc[t] \/ (pc[t] = "wait" /\ pc'[t] = "out")
      BY <3>1, WokenThreads DEF MntInv
    <3>7. pc' \in [Thread -> Stage]
      <4>1. pc' = [t \in Thread |-> pc'[t]]
        BY <3>1 DEF Woken
      <4> QED BY <3>6, <4>1 DEF Stage, MntInv, TypeOK
    <3> QED BY <3>2, <3>4, <3>5, <3>6, <3>7
  <2> QED BY <2>1, <2>2
<1>1. TypeOK'
  <2>1. nulled' \subseteq live' \X Target
    BY <1>0, <1>u, <1>l
  <2>2. state' \in [Fs -> {"absent", "mounted", "unmounted", "gone"}]
    <3>1. state \in [Fs -> {"absent", "mounted", "unmounted", "gone"}]
      BY DEF MntInv, TypeOK
    <3>2. state' = [f \in Fs |-> state'[f]]
      BY <3>1 DEF NsInherit, Settle, Survivors
    <3> QED BY <1>4, <3>1, <3>2 DEF Aged
  <2>3. \A t \in Thread : pc'[t] \in {"marked", "wait"} => ev'[t].at \in Target
    BY <1>4, <1>u DEF MntInv, TypeOK
  <2>4. where' \in [Thread -> live']
    BY <1>0, <1>u DEF MntInv, TypeOK
  <2> QED BY <1>0, <1>2, <1>4, <1>u, <2>1, <2>2, <2>3, <2>4 DEF MntInv, TypeOK
<1>5. Listed'
  <2>1. \A m \in live' : m = n \/ (m \in live /\ m # n)
    BY <1>0
  <2>4. Listed /\ home' = home /\ Root \in Namespace
    BY <1>0, <1>u DEF MntInv
  <2>5. RootFs \in Fs /\ RootFs \notin Target /\ Target \subseteq Fs
    BY TargetAssumption DEF Fs
  <2>6. RootFs \in Entries(Root)' /\ state'[RootFs] = "mounted"
    BY <1>0, <1>2, <1>4, <2>4, <2>5 DEF Listed, Aged
  <2>7. \A m \in Namespace, f \in Target : f \in Entries(m)' => state'[f] # "absent"
    <3>1. \A m \in Namespace, f \in Target : f \in Entries(m)' => state[f] # "absent"
      BY <1>2, <2>4 DEF Listed
    <3> QED BY <1>4, <2>5, <3>1 DEF Aged
  <2>8. \A m \in live', f \in Target :
          f \in Entries(m)' /\ Valid(m, f)' /\ home'[f] = m => state'[f] = "mounted"
    <3>1. ASSUME NEW m \in live', NEW f \in Target, f \in Entries(m)', Valid(m, f)', home'[f] = m
          PROVE  state[f] = "mounted"
      <4>1. CASE m = n
        <5>1. f \in Entries(p) /\ f \notin lost
          BY <1>2, <1>3, <3>1, <4>1
        <5> QED BY <5>1 DEF lost, Obtained
      <4>2. CASE m \in live /\ m # n
        BY <1>0, <1>2, <1>3, <2>4, <3>1, <4>2 DEF Listed
      <4> QED BY <2>1, <4>1, <4>2
    <3> QED BY <1>4, <2>5, <3>1 DEF Aged
  <2>9. \A m \in live', f \in Target : ~Valid(m, f)' => state'[f] \in {"unmounted", "gone"}
    <3>1. \A m \in live', f \in Target : ~Valid(m, f)' => state[f] \in {"unmounted", "gone"}
      BY <1>3, <1>l, <2>1, <2>4 DEF Listed
    <3> QED BY <1>4, <2>5, <3>1 DEF Aged
  <2> QED BY <2>6, <2>7, <2>8, <2>9 DEF Listed
<1>6. Counted'
  <2>1. ASSUME NEW f \in Target PROVE Ledger(ref'[f], deferred'[f], Standing(f), Tally(f)')
    <3> DEFINE k == IF f \in Entries(p) /\ f \notin lost THEN 1 ELSE 0
    <3>1. Clones(f)' \subseteq Clones(f) \cup {n}
      BY <1>0, <1>2, <1>3, <1>u DEF Clones
    <3>2. n \in Clones(f)' => f \in Entries(p) /\ f \notin lost
      BY <1>0, <1>2, <1>3 DEF Clones
    <3>3. Roots(f)' = Roots(f) /\ Starts(f)' = Starts(f)
      <4>1. \A t \in Thread : Inside(t)' <=> Inside(t)
        BY <1>4 DEF Inside
      <4> QED BY <1>u, <4>1 DEF Roots, Starts
    <3>4. /\ IsFiniteSet(Clones(f)) /\ IsFiniteSet(Roots(f)) /\ IsFiniteSet(Starts(f))
          /\ Tally(f) \in Nat /\ Tally(f)' \in Nat
      <4>1. live' \subseteq Namespace
        BY <1>1 DEF TypeOK
      <4> QED BY <1>0, <4>1, Tallied
    <3>5. k \in Nat /\ Tally(f)' <= Tally(f) + k
      <4>1. /\ Cardinality(Clones(f)) \in Nat /\ Cardinality(Clones(f)') \in Nat
            /\ Cardinality(Clones(f)') <= Cardinality(Clones(f)) + 1
            /\ Clones(f)' \subseteq Clones(f) => Cardinality(Clones(f)') <= Cardinality(Clones(f))
        BY <3>1, <3>4, OneMore
      <4>2. Cardinality(Clones(f)') <= Cardinality(Clones(f)) + k
        <5>1. CASE k = 1
          BY <4>1, <5>1
        <5>2. CASE k = 0
          <6>1. Clones(f)' \subseteq Clones(f)
            BY <3>1, <3>2, <5>2
          <6> QED BY <4>1, <5>2, <6>1
        <5> QED BY <5>1, <5>2
      <4>3. Cardinality(Roots(f)) \in Nat /\ Cardinality(Starts(f)) \in Nat
        BY <3>4, FS_CardinalityType
      <4>4. k \in Nat
        OBVIOUS
      <4> HIDE DEF k
      <4> QED BY <3>3, <4>1, <4>2, <4>3, <4>4 DEF Tally
    <3>6. k > 0 => Standing(f)
      BY <1>e DEF lost, Obtained, Standing
    <3>8. ref'[f] - deferred'[f] >= (ref[f] - deferred[f]) + k
      BY <1>4
    <3> HIDE DEF k
    <3> QED BY <1>1, <3>5, <3>6, <3>8, Obtains
  <2> QED BY <1>1, <1>4, <2>1, CountedAfter DEF MntInv
<1>7. ASSUME NEW t \in Thread PROVE Evaluating(t)'
  <2>1. Stands(t)
    BY <1>4, <1>u DEF Stands
  <2>0. Entries(where[t])' = Entries(where[t]) /\ list'[where[t]] = list[where[t]]
    BY <1>0, <1>2, <1>u DEF Entries
  <2>2. Grounded(t)
    BY <1>4, <2>0, SameGround
  <2>3. Apart(t)
    <3>1. Usable(where[t])' = Usable(where[t])
      BY <1>0, <1>3, <1>u, <2>0 DEF Usable
    <3>2. \A f \in Fs : state'[f] = "mounted" <=> state[f] = "mounted"
      BY <1>4 DEF Aged
    <3> QED BY <1>u, <2>0, <3>1, <3>2 DEF Apart
  <2> QED BY <2>1, <2>2, <2>3, Bystander DEF MntInv
<1> QED BY <1>1, <1>5, <1>6, <1>7 DEF MntInv

-----------------------------------------------------------------------------
(* Evaluations *)

\* A step that only another thread's evaluation takes.
LEMMA Others ==
  ASSUME MntInv, NEW u \in Thread, UNCHANGED <<list, nulled, where>>, Aged,
         pc'[u] = pc[u] \/ (pc[u] = "wait" /\ pc'[u] = "out"),
         \/ ev'[u] = [ev[u] EXCEPT !.clean = FALSE]
         \/ ev'[u] = ev[u] /\ UNCHANGED <<currentPath, adjusted>>
  PROVE  /\ Evaluating(u)' /\ (Inside(u)' <=> Inside(u))
         /\ ev'[u].rootloc = ev[u].rootloc /\ ev'[u].at = ev[u].at /\ ev'[u] \in Eval
<1>0. ev[u] \in Eval
  BY DEF MntInv, TypeOK
<1>1. /\ ev'[u].rootloc = ev[u].rootloc /\ ev'[u].at = ev[u].at /\ ev'[u] \in Eval
      /\ ev'[u] = ev[u] \/ ~ev'[u].clean
  BY <1>0 DEF Eval
<1>2. Inside(u)' <=> Inside(u)
  BY DEF Inside
<1>3. Entries(where[u])' = Entries(where[u]) /\ Usable(where[u])' = Usable(where[u])
  BY DEF Entries, Usable, Valid
<1>4. Stands(u)
  BY DEF Stands
<1>5. Grounded(u)
  BY <1>3, SameGround
<1>6. Apart(u)
  <2>1. CASE ~ev'[u].clean
    BY <2>1 DEF Apart
  <2>2. CASE ev'[u].clean
    <3>1. UNCHANGED <<currentPath, adjusted, where[u], list[where[u]]>>
      BY <1>0, <2>2 DEF Eval
    <3>2. \A f \in Fs : state'[f] = "mounted" <=> state[f] = "mounted"
      BY DEF Aged
    <3> QED BY <1>3, <3>1, <3>2 DEF Apart
  <2> QED BY <2>1, <2>2
<1> QED BY <1>1, <1>2, <1>4, <1>5, <1>6, Bystander DEF MntInv

\* How the users change with what a thread is doing.
LEMMA ThreadTally ==
  ASSUME MntInv, TypeOK', NEW f \in Target, NEW t \in Thread, NEW root, NEW at,
         Clones(f)' \subseteq Clones(f),
         \A u \in Thread : u # t =>
           /\ Inside(u)' <=> Inside(u)
           /\ ev'[u].rootloc = ev[u].rootloc /\ ev'[u].at = ev[u].at,
         t \in Roots(f)' => f = root \/ t \in Roots(f),
         t \in Starts(f)' => f = at \/ t \in Starts(f)
  PROVE  Tally(f)' <= Tally(f) + (Is(f, root) + Is(f, at))
<1>1. Roots(f)' \subseteq Roots(f) \cup {t} /\ Starts(f)' \subseteq Starts(f) \cup {t}
  BY DEF Roots, Starts
<1>2. IsFiniteSet(Clones(f)) /\ IsFiniteSet(Roots(f)) /\ IsFiniteSet(Starts(f))
  <2>1. live \subseteq Namespace /\ live' \subseteq Namespace
    BY DEF MntInv, TypeOK
  <2> QED BY <2>1, Tallied
<1>3. ASSUME NEW A, NEW B, IsFiniteSet(A), B \subseteq A \cup {t}, NEW x,
             t \in B => f = x \/ t \in A
      PROVE  Cardinality(A) \in Nat /\ Cardinality(B) \in Nat /\ Is(f, x) \in Nat
             /\ Cardinality(B) <= Cardinality(A) + Is(f, x)
  <2>1. /\ Cardinality(A) \in Nat /\ Cardinality(B) \in Nat
        /\ Cardinality(B) <= Cardinality(A) + 1
        /\ B \subseteq A => Cardinality(B) <= Cardinality(A)
    BY <1>3, OneMore
  <2>2. f # x => B \subseteq A
    BY <1>3
  <2> QED BY <2>1, <2>2 DEF Is
<1>4. /\ Cardinality(Roots(f)) \in Nat /\ Cardinality(Roots(f)') \in Nat /\ Is(f, root) \in Nat
      /\ Cardinality(Roots(f)') <= Cardinality(Roots(f)) + Is(f, root)
  BY <1>1, <1>2, <1>3
<1>5. /\ Cardinality(Starts(f)) \in Nat /\ Cardinality(Starts(f)') \in Nat /\ Is(f, at) \in Nat
      /\ Cardinality(Starts(f)') <= Cardinality(Starts(f)) + Is(f, at)
  BY <1>1, <1>2, <1>3
<1>6. /\ Cardinality(Clones(f)) \in Nat /\ Cardinality(Clones(f)') \in Nat
      /\ Cardinality(Clones(f)') <= Cardinality(Clones(f))
  BY <1>2, OneMore
<1>7. Tally(f)' = Cardinality(Clones(f)') + Cardinality(Roots(f)') + Cardinality(Starts(f)')
  BY DEF Tally
<1> QED BY <1>4, <1>5, <1>6, <1>7 DEF Tally

\* The location that get_container_root_location() returns is on the list.
LEMMA LocationListed ==
  ASSUME TypeOK, NEW n \in Namespace
  PROVE  /\ RootLocation(n).fs \in Place /\ RootLocation(n).rest \in Seq(Name) \cup {NoPath}
         /\ RootLocation(n).fs # Nowhere => RootLocation(n).fs \in Usable(n)
<1> DEFINE best == FindBest(n, currentPath)
<1>0. adjusted \in Seq(Name) \cup {NoPath} /\ currentPath \in Seq(Name) \cup {NoPath}
  BY DEF TypeOK
<1>f. Fallback(n) \in Place /\ (Fallback(n) # Nowhere => Fallback(n) \in Usable(n))
  BY DEF Fallback, Place, Fs, Usable
<1>1. CASE currentPath = NoPath
  BY <1>0, <1>1, <1>f DEF RootLocation
<1>2. CASE currentPath # NoPath
  <2>1. list[n] \in Seq(Fs) /\ currentPath \in Seq(Name)
    BY <1>0, <1>2 DEF TypeOK
  <2>2. best \in Best /\ FoundIn(best, list[n], Usable(n), currentPath)
    BY <2>1, BestFound DEF FindBest
  <2> HIDE DEF best
  <2>3. CASE best.fs # Nowhere
    <3>1. best.fs \in Fs /\ best.fs \in Usable(n) /\ Matches(best.fs, currentPath)
      BY <2>2, <2>3 DEF FoundIn
    <3>2. SubSeq(currentPath, Len(best.fs) + 1, Len(currentPath)) \in Seq(Name)
      BY <2>1, <3>1, MatchIsPrefix, FsIsPath, PrefixRest
    <3>3. RootLocation(n) = [fs |-> best.fs,
             rest |-> SubSeq(currentPath, Len(best.fs) + 1, Len(currentPath))]
      BY <1>2, <2>3 DEF RootLocation, best
    <3>4. /\ RootLocation(n).fs = best.fs
          /\ RootLocation(n).rest = SubSeq(currentPath, Len(best.fs) + 1, Len(currentPath))
      BY <3>3
    <3>5. best.fs \in Place
      BY <3>1 DEF Place
    <3> HIDE DEF RootLocation
    <3> QED BY <3>1, <3>2, <3>4, <3>5, Zenon
  <2>4. CASE best.fs = Nowhere
    <3>1. \/ RootLocation(n) = [fs |-> Nowhere, rest |-> adjusted]
          \/ RootLocation(n) = [fs |-> Fallback(n), rest |-> adjusted]
      BY <1>2, <2>4 DEF RootLocation, best
    <3> QED BY <1>0, <1>f, <3>1 DEF Place
  <2> QED BY <2>3, <2>4
<1> QED BY <1>1, <1>2

\* The location that an undisturbed evaluation gets.
LEMMA LocationSelected ==
  ASSUME TypeOK, NEW t \in Thread, currentPath = ev[t].path, ev[t].path \in Path,
         adjusted \in {NoPath, Remaining(t)}
  PROVE  RootLocation(where[t]).fs = Selected(t) /\ RootLocation(where[t]).rest = Remaining(t)
<1> DEFINE best == FindBest(where[t], currentPath)
<1>1. currentPath # NoPath
  BY PathAssumption
<1>2. CASE best.fs # Nowhere
  BY <1>1, <1>2 DEF RootLocation, Selected, Remaining
<1>3. CASE best.fs = Nowhere
  BY <1>1, <1>3 DEF RootLocation, Selected, Remaining
<1> QED BY <1>2, <1>3

\* What an undisturbed evaluation gets, and what its path then leaves.
LEMMA SelectedPath ==
  ASSUME TypeOK, NEW t \in Thread, ev[t].path \in Path
  PROVE  /\ Selected(t) \in Place /\ (Selected(t) # Nowhere => Selected(t) \in Usable(where[t]))
         /\ Remaining(t) # NoPath =>
              /\ Remaining(t) \in Seq(Name) /\ Selected(t) \in Fs
              /\ Selected(t) \o Remaining(t) = ev[t].path
         /\ Remaining(t) = NoPath => Selected(t) \in {RootFs, Nowhere}
<1> DEFINE best == FindBest(where[t], ev[t].path)
<1>0. list[where[t]] \in Seq(Fs) /\ ev[t].path \in Seq(Name)
  BY PathAssumption DEF TypeOK
<1>1. best \in Best /\ FoundIn(best, list[where[t]], Usable(where[t]), ev[t].path)
  BY <1>0, BestFound DEF FindBest
<1> HIDE DEF best
<1>2. CASE best.fs # Nowhere
  <2>1. best.fs \in Fs /\ best.fs \in Usable(where[t]) /\ Matches(best.fs, ev[t].path)
    BY <1>1, <1>2 DEF FoundIn
  <2>2. Selected(t) = best.fs
        /\ Remaining(t) = SubSeq(ev[t].path, Len(best.fs) + 1, Len(ev[t].path))
    BY <1>2 DEF Selected, Remaining, best
  <2>3. best.fs \in Seq(Name) /\ IsPrefix(best.fs, ev[t].path)
    BY <1>0, <2>1, MatchIsPrefix, FsIsPath
  <2>4. Remaining(t) \in Seq(Name) /\ Selected(t) \o Remaining(t) = ev[t].path
    BY <1>0, <2>2, <2>3, PrefixRest
  <2>5. Remaining(t) # NoPath
    BY <2>4, PathAssumption
  <2> QED BY <2>1, <2>2, <2>4, <2>5 DEF Place
<1>3. CASE best.fs = Nowhere
  <2>1. Selected(t) \in {Nowhere, Fallback(where[t])} /\ Remaining(t) = NoPath
    BY <1>3 DEF Selected, Remaining, best
  <2> QED BY <2>1 DEF Fallback, Place, Fs, Usable
<1> QED BY <1>2, <1>3

\* As long as no list changes, the selection stays.
LEMMA SelectedSame ==
  ASSUME NEW t \in Thread, UNCHANGED <<list, nulled, where>>, ev'[t].path = ev[t].path
  PROVE  Selected(t)' = Selected(t) /\ Remaining(t)' = Remaining(t)
<1>1. \A n : Usable(n)' = Usable(n) /\ Fallback(n)' = Fallback(n)
  BY DEF Usable, Fallback, Entries, Valid
<1>2. FindBest(where[t], ev[t].path)' = FindBest(where[t], ev[t].path)
  <2>1. Usable(where[t])' = Usable(where[t])
    BY DEF Usable, Entries, Valid
  <2> QED BY <2>1 DEF FindBest
<1>3. Fallback(where[t])' = Fallback(where[t])
  BY DEF Fallback, Entries, Valid
<1> QED BY <1>2, <1>3 DEF Selected, Remaining

\* A step of one evaluation, which obtains references for root and at.
OtherUses(u) ==
  /\ Inside(u)' <=> Inside(u)
  /\ ev'[u].rootloc = ev[u].rootloc /\ ev'[u].at = ev[u].at
Obtained2(f, root, at) ==
  /\ ref'[f] - deferred'[f] >= (ref[f] - deferred[f]) + (Is(f, root) + Is(f, at))
  /\ f = root \/ f = at => Standing(f)
Calm(t, root, at) ==
  /\ UNCHANGED <<live, list, nulled, home>> /\ Aged
  /\ \A u \in Thread : u # t => OtherUses(u)
  /\ Inside(t)' => /\ \/ ev'[t].rootloc = root
                      \/ Inside(t) /\ ev'[t].rootloc = ev[t].rootloc
                   /\ \/ ev'[t].at = at
                      \/ Inside(t) /\ ev'[t].at = ev[t].at
  /\ \A f \in Target : Obtained2(f, root, at)

\* A step that only changes locations of thread t keeps lists and counts.
LEMMA CalmInv ==
  ASSUME MntInv, TypeOK', NEW t \in Thread, NEW root, NEW at, Calm(t, root, at)
  PROVE  Listed' /\ Counted'
<1>1. Listed'
  BY ListedAfter DEF MntInv, Calm
<1>2. ASSUME NEW f \in Target PROVE Ledger(ref'[f], deferred'[f], Standing(f), Tally(f)')
  <2>1. Clones(f)' = Clones(f)
    BY DEF Calm, Clones, Entries, Valid
  <2>2. t \in Roots(f)' => f = root \/ t \in Roots(f)
    BY DEF Calm, Roots
  <2>3. t \in Starts(f)' => f = at \/ t \in Starts(f)
    BY DEF Calm, Starts
  <2>4. \A u \in Thread : u # t => /\ Inside(u)' <=> Inside(u)
                                   /\ ev'[u].rootloc = ev[u].rootloc /\ ev'[u].at = ev[u].at
    BY DEF Calm, OtherUses
  <2>5. Tally(f)' <= Tally(f) + (Is(f, root) + Is(f, at))
    BY <2>1, <2>2, <2>3, <2>4, ThreadTally
  <2>6. Is(f, root) + Is(f, at) \in Nat
    BY DEF Is
  <2>7. Is(f, root) + Is(f, at) > 0 => Standing(f)
    BY DEF Calm, Obtained2, Is
  <2>8. ref'[f] - deferred'[f] >= (ref[f] - deferred[f]) + (Is(f, root) + Is(f, at))
    BY DEF Calm, Obtained2
  <2> QED BY <2>5, <2>6, <2>7, <2>8, Obtains
<1>3. Counted'
  BY <1>2, CountedAfter DEF MntInv, Calm
<1> QED BY <1>1, <1>3

\* The null location is no target.
LEMMA NowhereUnused ==
  ASSUME NEW f \in Target PROVE f # Nowhere /\ Is(f, Nowhere) = 0
BY FsIsPath DEF Fs, Is

\* An evaluation begins with the static variables as its own.
LEMMA EvalBeginInv ==
  ASSUME MntInv, NEW t \in Thread, NEW path \in Path, NEW op \in {"open", "parent", "unmount"},
         EvalBegin(t, path, op)
  PROVE  MntInv'
<1> DEFINE begun == [NoEval EXCEPT !.op = op, !.path = path, !.clean = (op # "parent")]
<1>0. /\ UNCHANGED <<live, list, nulled, where, home, state, parent, ref, deferred>>
      /\ pc[t] = "out" /\ pc' = [pc EXCEPT ![t] = "root"]
      /\ \/ op = "parent" /\ ev' = [ev EXCEPT ![t] = begun] /\ UNCHANGED <<currentPath, adjusted>>
         \/ /\ op # "parent" /\ ev' = [Disturbed(t) EXCEPT ![t] = begun]
            /\ currentPath' = path /\ adjusted' = NoPath
  BY DEF EvalBegin, spaces, systems, statics
<1>t. ev \in [Thread -> Eval] /\ pc \in [Thread -> Stage] /\ TypeOK
  BY DEF MntInv, TypeOK
<1>a. Aged
  BY <1>0 DEF Aged
<1>1. /\ ev'[t] = begun /\ pc'[t] = "root"
      /\ \A u \in Thread : u # t =>
           /\ pc'[u] = pc[u]
           /\ \/ ev'[u] = [ev[u] EXCEPT !.clean = FALSE]
              \/ ev'[u] = ev[u] /\ UNCHANGED <<currentPath, adjusted>>
  <2>1. \A u \in Thread : Disturbed(t)[u] =
          IF u = t THEN ev[u] ELSE [ev[u] EXCEPT !.clean = FALSE]
    BY DEF Disturbed
  <2>2. Disturbed(t) = [u \in Thread |-> Disturbed(t)[u]]
    BY DEF Disturbed
  <2> HIDE DEF begun
  <2> QED BY <1>0, <1>t, <2>1, <2>2
<1>b. /\ begun \in Eval /\ begun.op = op /\ begun.path = path /\ begun.rootloc = Nowhere
      /\ begun.at = Nowhere /\ begun.clean = (op # "parent")
  BY DEF NoEval, Eval, Place
<1> HIDE DEF begun
<1>2. \A u \in Thread : u # t => Evaluating(u)' /\ OtherUses(u) /\ ev'[u] \in Eval
  BY <1>0, <1>1, <1>a, Others DEF OtherUses
<1>3. TypeOK'
  <2>1. ev' \in [Thread -> Eval]
    <3>1. ev' = [u \in Thread |-> ev'[u]]
      BY <1>0, <1>t DEF Disturbed
    <3> QED BY <1>1, <1>2, <1>b, <3>1
  <2>2. pc' \in [Thread -> Stage]
    BY <1>0, <1>t DEF Stage
  <2>3. {currentPath', adjusted'} \subseteq Seq(Name) \cup {NoPath}
    BY <1>0, <1>t, PathAssumption DEF TypeOK
  <2>4. \A u \in Thread : pc'[u] \in {"marked", "wait"} => ev'[u].at \in Target
    BY <1>1, <1>2, <1>t DEF TypeOK, OtherUses
  <2> QED BY <1>0, <1>t, <2>1, <2>2, <2>3, <2>4 DEF TypeOK
<1>4. Calm(t, Nowhere, Nowhere)
  <2>1. ~Inside(t)'
    BY <1>1 DEF Inside
  <2>2. ASSUME NEW f \in Target PROVE Obtained2(f, Nowhere, Nowhere)
    <3>1. ref[f] \in Nat /\ deferred[f] \in Nat
      BY <1>t DEF TypeOK
    <3> QED BY <1>0, <3>1, NowhereUnused DEF Obtained2
  <2> QED BY <1>0, <1>2, <1>a, <2>1, <2>2 DEF Calm
<1>5. Evaluating(t)'
  <2>1. Early(t)'
    BY <1>1, <1>b DEF Early
  <2>2. Undisturbed(t)'
    BY <1>0, <1>1, <1>b DEF Undisturbed
  <2>3. Below(t)'
    BY <1>1 DEF Below
  <2> QED BY <2>1, <2>2, <2>3 DEF Evaluating
<1>6. \A u \in Thread : Evaluating(u)'
  BY <1>2, <1>5
<1> QED BY <1>3, <1>4, <1>6, CalmInv DEF MntInv

\* EvalRoot and EvalCurrent: a location is looked up and its count incremented.
Lookup(t, loc) ==
  /\ UNCHANGED <<live, list, nulled, where, home, state, parent, deferred, currentPath>>
  /\ adjusted' = loc.rest
  /\ ref' = [f \in Target |-> ref[f] + Is(f, loc.fs)]

\* Looking up a location adds a reference that no one gives back.
LEMMA LookupInv ==
  ASSUME MntInv, NEW t \in Thread, NEW loc, Lookup(t, loc), NEW next \in Eval, NEW stage \in {"current", "start"},
         ev' = [Disturbed(t) EXCEPT ![t] = next], pc' = [pc EXCEPT ![t] = stage],
         loc.rest \in Seq(Name) \cup {NoPath},
         pc[t] \in {"root", "current"}
  PROVE  /\ TypeOK' /\ Listed' /\ Counted' /\ \A u \in Thread : u # t => Evaluating(u)'
         /\ ev'[t] = next /\ pc'[t] = stage
<1>t. ev \in [Thread -> Eval] /\ pc \in [Thread -> Stage] /\ TypeOK
  BY DEF MntInv, TypeOK
<1>a. Aged
  BY DEF Aged, Lookup
<1>1. /\ ev'[t] = next /\ pc'[t] = stage
      /\ \A u \in Thread : u # t =>
           pc'[u] = pc[u] /\ ev'[u] = [ev[u] EXCEPT !.clean = FALSE]
  <2>1. \A u \in Thread : Disturbed(t)[u] =
          IF u = t THEN ev[u] ELSE [ev[u] EXCEPT !.clean = FALSE]
    BY DEF Disturbed
  <2>2. Disturbed(t) = [u \in Thread |-> Disturbed(t)[u]]
    BY DEF Disturbed
  <2> QED BY <1>t, <2>1, <2>2
<1>2. \A u \in Thread : u # t => Evaluating(u)' /\ OtherUses(u) /\ ev'[u] \in Eval
  BY <1>1, <1>a, Others DEF OtherUses, Lookup
<1>3. TypeOK'
  <2>1. ev' \in [Thread -> Eval]
    <3>1. ev' = [u \in Thread |-> ev'[u]]
      BY <1>t DEF Disturbed
    <3> QED BY <1>1, <1>2, <3>1
  <2>2. pc' \in [Thread -> Stage]
    BY <1>t DEF Stage
  <2>3. {currentPath', adjusted'} \subseteq Seq(Name) \cup {NoPath}
    BY <1>t DEF TypeOK, Lookup
  <2>4. \A u \in Thread : pc'[u] \in {"marked", "wait"} => ev'[u].at \in Target
    BY <1>1, <1>2, <1>t DEF TypeOK, OtherUses
  <2>5. ref' \in [Target -> Nat]
    BY <1>t DEF TypeOK, Lookup, Is
  <2> QED BY <1>t, <2>1, <2>2, <2>3, <2>4, <2>5 DEF TypeOK, Lookup
<1>4. Calm(t, Nowhere, Nowhere)
  <2>1. ~Inside(t)'
    BY <1>1 DEF Inside
  <2>2. ASSUME NEW f \in Target PROVE Obtained2(f, Nowhere, Nowhere)
    <3>1. ref[f] \in Nat /\ deferred[f] \in Nat /\ Is(f, loc.fs) \in Nat
      BY <1>t DEF TypeOK, Is
    <3>2. ref'[f] = ref[f] + Is(f, loc.fs) /\ deferred'[f] = deferred[f]
      BY DEF Lookup
    <3> QED BY <3>1, <3>2, NowhereUnused DEF Obtained2
  <2> QED BY <1>2, <1>a, <2>1, <2>2 DEF Calm, Lookup
<1> QED BY <1>1, <1>2, <1>3, <1>4, CalmInv

\* The root location an undisturbed evaluation is given is its selection.
LEMMA EvalRootInv ==
  ASSUME MntInv, NEW t \in Thread, EvalRoot(t) PROVE MntInv'
<1> DEFINE loc == RootLocation(where[t])
           next == [ev[t] EXCEPT !.root = loc.fs]
<1>t. TypeOK /\ ev \in [Thread -> Eval] /\ where[t] \in Namespace /\ Evaluating(t)
  BY DEF MntInv, TypeOK
<1>0. /\ pc[t] = "root" /\ pc' = [pc EXCEPT ![t] = "current"]
      /\ ev' = [Disturbed(t) EXCEPT ![t] = next] /\ Lookup(t, loc)
  <2>1. [Disturbed(t) EXCEPT ![t].root = loc.fs] = [Disturbed(t) EXCEPT ![t] = next]
    BY <1>t DEF Disturbed
  <2> QED BY <2>1 DEF EvalRoot, Lookup, spaces
<1>1. /\ loc.fs \in Place /\ loc.rest \in Seq(Name) \cup {NoPath}
      /\ loc.fs # Nowhere => loc.fs \in Usable(where[t])
  BY <1>t, LocationListed
<1>s. /\ ev[t].clean => ev[t].path \in Path /\ currentPath = ev[t].path /\ adjusted = NoPath
                        /\ ev[t].op # "parent"
      /\ ev[t].path \in Path /\ ev[t].rootloc = Nowhere /\ ev[t].at = Nowhere
  BY <1>0, <1>t DEF Evaluating, Undisturbed, Early
<1>l. ev[t].clean => loc.fs = Selected(t) /\ loc.rest = Remaining(t)
  BY <1>s, <1>t, LocationSelected
<1> HIDE DEF loc
<1>2. /\ next \in Eval /\ next.root = loc.fs /\ next.path = ev[t].path /\ next.clean = ev[t].clean
      /\ next.rootloc = ev[t].rootloc /\ next.at = ev[t].at /\ next.op = ev[t].op
  <2>1. ev[t] \in Eval
    BY <1>t
  <2> QED BY <1>1, <2>1 DEF Eval
<1> HIDE DEF next
<1>3. /\ TypeOK' /\ Listed' /\ Counted' /\ \A u \in Thread : u # t => Evaluating(u)'
      /\ ev'[t] = next /\ pc'[t] = "current"
  BY <1>0, <1>1, <1>2, LookupInv
<1>4. Evaluating(t)'
  <2>1. Early(t)'
    BY <1>2, <1>3, <1>s DEF Early
  <2>2. Selected(t)' = Selected(t) /\ Remaining(t)' = Remaining(t)
    BY <1>0, <1>2, <1>3, SelectedSame DEF Lookup
  <2>3. Undisturbed(t)'
    BY <1>0, <1>2, <1>3, <1>l, <1>s, <2>2 DEF Undisturbed, Lookup
  <2>4. ev'[t].root # Nowhere => ev'[t].root \in Entries(where[t])'
    <3>1. loc.fs # Nowhere => loc.fs \in Entries(where[t])
      BY <1>1 DEF Usable
    <3>2. Entries(where[t])' = Entries(where[t])
      BY <1>0 DEF Lookup, Entries
    <3> QED BY <1>2, <1>3, <3>1, <3>2
  <2>5. Below(t)'
    BY <1>3, <2>4 DEF Below, Backed
  <2> QED BY <2>1, <2>3, <2>5 DEF Evaluating
<1> QED BY <1>3, <1>4 DEF MntInv

\* The second lookup finds the same entry, and the same path left.
LEMMA EvalCurrentInv ==
  ASSUME MntInv, NEW t \in Thread, EvalCurrent(t) PROVE MntInv'
<1> DEFINE loc == CurrentLocation(t)
           next == [ev[t] EXCEPT !.current = loc.fs]
<1>t. TypeOK /\ ev \in [Thread -> Eval] /\ where[t] \in Namespace /\ Evaluating(t)
  BY DEF MntInv, TypeOK
<1>0. /\ pc[t] = "current" /\ pc' = [pc EXCEPT ![t] = "start"]
      /\ ev' = [Disturbed(t) EXCEPT ![t] = next] /\ Lookup(t, loc)
  <2>1. [Disturbed(t) EXCEPT ![t].current = loc.fs] = [Disturbed(t) EXCEPT ![t] = next]
    BY <1>t DEF Disturbed
  <2> QED BY <2>1 DEF EvalCurrent, Lookup, spaces
<1>1. loc.fs \in Place /\ loc.rest \in Seq(Name) \cup {NoPath}
  <2>1. CASE t \in Private
    BY <1>t, <2>1 DEF CurrentLocation, Place, Fs, TypeOK
  <2>2. CASE t \notin Private
    BY <1>t, <2>2, LocationListed DEF CurrentLocation
  <2> QED BY <2>1, <2>2
<1>s. /\ ev[t].clean => /\ ev[t].path \in Path /\ currentPath = ev[t].path /\ ev[t].op # "parent"
                        /\ ev[t].root = Selected(t) /\ adjusted = Remaining(t)
      /\ ev[t].path \in Path /\ ev[t].rootloc = Nowhere /\ ev[t].at = Nowhere
      /\ ~ev[t].moved /\ ev[t].root # Nowhere => Backed(ev[t].root, t)
  BY <1>0, <1>t DEF Evaluating, Undisturbed, Early, Below
<1>l. ev[t].clean => /\ loc.fs = IF t \in Private THEN RootFs ELSE Selected(t)
                     /\ loc.rest = Remaining(t)
  BY <1>s, <1>t, LocationSelected DEF CurrentLocation
<1> HIDE DEF loc
<1>2. /\ next \in Eval /\ next.root = ev[t].root /\ next.path = ev[t].path
      /\ next.clean = ev[t].clean /\ next.moved = ev[t].moved
      /\ next.rootloc = ev[t].rootloc /\ next.at = ev[t].at /\ next.op = ev[t].op
      /\ next.current = loc.fs
  <2>1. ev[t] \in Eval
    BY <1>t
  <2> QED BY <1>1, <2>1 DEF Eval
<1> HIDE DEF next
<1>3. /\ TypeOK' /\ Listed' /\ Counted' /\ \A u \in Thread : u # t => Evaluating(u)'
      /\ ev'[t] = next /\ pc'[t] = "start"
  BY <1>0, <1>1, <1>2, LookupInv
<1>4. Evaluating(t)'
  <2>1. Early(t)'
    BY <1>2, <1>3, <1>s DEF Early
  <2>2. Selected(t)' = Selected(t) /\ Remaining(t)' = Remaining(t)
    BY <1>0, <1>2, <1>3, SelectedSame DEF Lookup
  <2>3. Undisturbed(t)'
    BY <1>0, <1>2, <1>3, <1>l, <1>s, <2>2 DEF Undisturbed, Lookup
  <2>4. \A f : Backed(f, t)' <=> Backed(f, t)
    BY <1>0 DEF Lookup, Entries, Backed
  <2>5. Below(t)'
    BY <1>2, <1>3, <1>s, <2>4 DEF Below
  <2> QED BY <2>1, <2>3, <2>5 DEF Evaluating
<1> QED BY <1>3, <1>4 DEF MntInv

\* Without a location nothing is obtained.
LEMMA EvalNowhereInv ==
  ASSUME MntInv, NEW t \in Thread, EvalNowhere(t) PROVE MntInv'
<1> DEFINE next == [ev[t] EXCEPT !.root = Nowhere, !.current = Nowhere]
<1>t. TypeOK /\ ev \in [Thread -> Eval] /\ pc \in [Thread -> Stage] /\ Evaluating(t)
  BY DEF MntInv, TypeOK
<1>0. /\ UNCHANGED <<live, list, nulled, where, home, state, parent, ref, deferred>>
      /\ UNCHANGED <<currentPath, adjusted>>
      /\ pc[t] = "start" /\ pc' = [pc EXCEPT ![t] = "walk"]
      /\ Nowhere \in {ev[t].root, ev[t].current}
      /\ ev' = [ev EXCEPT ![t] = next]
  <2>1. ev' = [ev EXCEPT ![t] = next]
    BY <1>t DEF EvalNowhere
  <2> QED BY <2>1 DEF EvalNowhere, spaces, systems, statics
<1>a. Aged
  BY <1>0 DEF Aged
<1>1. \A u \in Thread : u # t => pc'[u] = pc[u] /\ ev'[u] = ev[u]
  BY <1>0, <1>t
<1>2. \A u \in Thread : u # t => Evaluating(u)' /\ OtherUses(u)
  BY <1>0, <1>1, <1>a, Others DEF OtherUses
<1>3. /\ next \in Eval /\ next.path = ev[t].path /\ next.clean = ev[t].clean
      /\ next.rootloc = ev[t].rootloc /\ next.at = ev[t].at /\ next.op = ev[t].op
  <2>1. ev[t] \in Eval
    BY <1>t
  <2> QED BY <2>1 DEF Eval, Place
<1> HIDE DEF next
<1>4. ev'[t] = next /\ pc'[t] = "walk"
  BY <1>0, <1>t
<1>5. TypeOK'
  <2>1. ev' \in [Thread -> Eval] /\ pc' \in [Thread -> Stage]
    BY <1>0, <1>3, <1>t DEF Stage
  <2>2. \A u \in Thread : pc'[u] \in {"marked", "wait"} => ev'[u].at \in Target
    BY <1>1, <1>4, <1>t DEF TypeOK
  <2> QED BY <1>0, <1>t, <2>1, <2>2 DEF TypeOK
<1>s. ev[t].path \in Path /\ ev[t].rootloc = Nowhere /\ ev[t].at = Nowhere
  BY <1>0, <1>t DEF Evaluating, Early
<1>6. Calm(t, Nowhere, Nowhere)
  <2>2. ASSUME NEW f \in Target PROVE Obtained2(f, Nowhere, Nowhere)
    <3>1. ref[f] \in Nat /\ deferred[f] \in Nat
      BY <1>t DEF TypeOK
    <3> QED BY <1>0, <3>1, NowhereUnused DEF Obtained2
  <2> QED BY <1>0, <1>2, <1>3, <1>4, <1>a, <1>s, <2>2 DEF Calm
<1>7. Evaluating(t)'
  <2>1. Early(t)' /\ Below(t)'
    BY <1>3, <1>4, <1>s DEF Early, Below
  <2>2. Selected(t)' = Selected(t) /\ Remaining(t)' = Remaining(t)
    BY <1>0, <1>3, <1>4, SelectedSame
  <2>3. ev[t].clean => Selected(t) = Nowhere
    <3>1. RootFs # Nowhere
      BY FsIsPath DEF Fs
    <3> QED BY <1>0, <1>t, <3>1 DEF Evaluating, Undisturbed
  <2>4. ev[t].clean => currentPath = ev[t].path /\ ev[t].op # "parent"
    BY <1>0, <1>t DEF Evaluating, Undisturbed
  <2>5. Undisturbed(t)'
    BY <1>0, <1>3, <1>4, <1>s, <2>2, <2>3, <2>4 DEF Undisturbed
  <2> QED BY <2>1, <2>5 DEF Evaluating
<1>8. \A u \in Thread : Evaluating(u)'
  BY <1>2, <1>7
<1> QED BY <1>5, <1>6, <1>8, CalmInv DEF MntInv

\* Where an evaluation starts and arrives.
Started(t, root, w) ==
  /\ root \in Place /\ (root # Nowhere => root \in Fs /\ state[root] = "mounted")
  /\ w.fs \in Place /\ w.left \in Place /\ w.spot \in Seq(Name) \cup {NoPath}
  /\ w.fs # Nowhere =>
       /\ root # Nowhere /\ w.fs \in Fs /\ state[w.fs] = "mounted"
       /\ IsPrefix(root, w.fs) /\ w.spot = root \o Effective(t)

\* What set_startloc() and the walk obtain was mounted, below the root location.
LEMMA StartedPlaces ==
  ASSUME MntInv, NEW t \in Thread, pc[t] = "start", NEW from \in Fs, NEW root, NEW w,
         root = Obtained(from),
         w = IF root # Nowhere THEN Walk(root, Effective(t))
             ELSE [fs |-> Nowhere, spot |-> NoPath, left |-> Nowhere]
  PROVE  Started(t, root, w) /\ Effective(t) \in Seq(Name)
<1>1. Effective(t) \in Seq(Name)
  <2>1. ev[t].path \in Seq(Name)
    BY PathAssumption DEF MntInv, Evaluating, Early
  <2>2. adjusted # NoPath => adjusted \in Seq(Name)
    BY DEF MntInv, TypeOK
  <2> QED BY <2>1, <2>2 DEF Effective
<1>2. root # Nowhere => root \in Fs /\ state[root] = "mounted"
  BY DEF Obtained
<1>3. CASE root = Nowhere
  BY <1>1, <1>3 DEF Started, Place
<1>4. CASE root # Nowhere
  <2>1. w = Walk(root, Effective(t)) /\ root \in Fs
    BY <1>2, <1>4
  <2>2. /\ w \in Track /\ w.fs \in {root, Nowhere} \cup Mounted
        /\ w.fs # Nowhere => IsPrefix(root, w.fs) /\ w.spot = root \o Effective(t)
    BY <1>1, <2>1, WalkEnds
  <2>3. w.fs \in Place /\ w.left \in Place /\ w.spot \in Seq(Name)
    BY <2>2 DEF Track
  <2>4. w.fs # Nowhere => w.fs \in Fs /\ state[w.fs] = "mounted"
    BY <1>2, <1>4, <2>2 DEF Mounted, Fs
  <2>5. root \in Place
    BY <1>2, <1>4 DEF Place
  <2> QED BY <1>1, <1>2, <1>4, <2>2, <2>3, <2>4, <2>5 DEF Started
<1> QED BY <1>3, <1>4

\* An evaluation that starts obtains a reference for each location it holds.
LEMMA EvalStartInv ==
  ASSUME MntInv, NEW t \in Thread, EvalStart(t) PROVE MntInv'
<1>t. /\ TypeOK /\ ev \in [Thread -> Eval] /\ pc \in [Thread -> Stage] /\ Evaluating(t)
      /\ ev[t] \in Eval
  BY DEF MntInv, TypeOK
<1>f. PICK from : from = IF ev[t].root = Nowhere THEN RootFs ELSE ev[t].root
  OBVIOUS
<1>r. PICK root : root = Obtained(from)
  OBVIOUS
<1>w. PICK w : w = IF root # Nowhere THEN Walk(root, Effective(t))
                   ELSE [fs |-> Nowhere, spot |-> NoPath, left |-> Nowhere]
  OBVIOUS
<1>n. PICK next : next = [ev[t] EXCEPT !.rootloc = root, !.at = w.fs, !.spot = w.spot,
                                       !.root = Nowhere, !.current = Nowhere]
  OBVIOUS
<1>p. PICK path : path = Effective(t)
  OBVIOUS
<1>0. /\ UNCHANGED <<live, list, nulled, where, home, parent, currentPath, adjusted>>
      /\ pc[t] = "start" /\ pc' = [Woken EXCEPT ![t] = "walk"]
      /\ ev[t].op # "parent" => Nowhere \notin {ev[t].root, ev[t].current}
      /\ ev' = [ev EXCEPT ![t] = next]
      /\ Settle(Late, [f \in Target |-> Flushed.count[f] + Is(f, root) + Is(f, w.fs)
                                                         + Is(f, w.left)],
                [f \in Target |-> Flushed.pending[f] + Is(f, w.left)])
  <2>1. ev' = [ev EXCEPT ![t].rootloc = root, ![t].at = w.fs, ![t].spot = w.spot,
                         ![t].root = Nowhere, ![t].current = Nowhere]
    BY <1>f, <1>r, <1>w DEF EvalStart
  <2>2. ev' = [ev EXCEPT ![t] = next]
    BY <1>n, <1>t, <2>1
  <2> QED BY <1>f, <1>r, <1>w, <2>2 DEF EvalStart, spaces, statics
<1>1. from \in Fs
  BY <1>f, <1>t DEF Eval, Place, Fs
<1>2. Started(t, root, w) /\ path \in Seq(Name)
  BY <1>0, <1>1, <1>p, <1>r, <1>w, StartedPlaces
<1>3. /\ root \in Place /\ (root # Nowhere => root \in Fs /\ state[root] = "mounted")
      /\ w.fs \in Place /\ w.left \in Place /\ w.spot \in Seq(Name) \cup {NoPath}
      /\ w.fs # Nowhere =>
           /\ root # Nowhere /\ w.fs \in Fs /\ state[w.fs] = "mounted"
           /\ IsPrefix(root, w.fs) /\ w.spot = root \o path
  BY <1>2, <1>p DEF Started
<1>4. /\ next \in Eval /\ next.path = ev[t].path
      /\ next.clean = ev[t].clean /\ next.moved = ev[t].moved
      /\ next.rootloc = root /\ next.at = w.fs /\ next.op = ev[t].op /\ next.spot = w.spot
  <2>1. Nowhere \in Place
    BY DEF Place
  <2> QED BY <1>3, <1>n, <1>t, <2>1 DEF Eval
<1>a. Aged
  BY <1>0, SettleAges DEF Settle
<1>5. /\ ev'[t] = next /\ pc'[t] = "walk"
      /\ \A u \in Thread : u # t =>
           ev'[u] = ev[u] /\ (pc'[u] = pc[u] \/ (pc[u] = "wait" /\ pc'[u] = "out"))
      /\ pc' \in [Thread -> Stage]
  <2>1. \A u \in Thread : Woken[u] = pc[u] \/ (pc[u] = "wait" /\ Woken[u] = "out")
    BY <1>t, WokenThreads
  <2>2. Woken = [u \in Thread |-> Woken[u]]
    BY DEF Woken
  <2>3. Woken \in [Thread -> Stage]
    BY <1>t, <2>1, <2>2 DEF Stage
  <2>4. pc' \in [Thread -> Stage] /\ pc'[t] = "walk" /\ \A u \in Thread : u # t => pc'[u] = Woken[u]
    BY <1>0, <2>3 DEF Stage
  <2>5. ev'[t] = next /\ \A u \in Thread : u # t => ev'[u] = ev[u]
    BY <1>0, <1>t
  <2> QED BY <2>1, <2>4, <2>5
<1>6. \A u \in Thread : u # t => Evaluating(u)' /\ OtherUses(u)
  BY <1>0, <1>5, <1>a, Others DEF OtherUses
<1>7. \A f \in Target : /\ ref'[f] = Flushed.count[f] + Is(f, root) + Is(f, w.fs) + Is(f, w.left)
                        /\ deferred'[f] = Flushed.pending[f] + Is(f, w.left)
  BY <1>0 DEF Settle
<1>8. ASSUME NEW f \in Target
      PROVE  /\ ref'[f] \in Nat /\ deferred'[f] \in Nat
             /\ ref'[f] - deferred'[f] >= (ref[f] - deferred[f]) + (Is(f, root) + Is(f, w.fs))
  <2>1. /\ Flushed.count[f] \in Nat /\ Flushed.count[f] = ref[f] - deferred[f]
        /\ Flushed.pending[f] = 0
    BY FlushedCounts
  <2>2. Is(f, root) \in Nat /\ Is(f, w.fs) \in Nat /\ Is(f, w.left) \in Nat
    BY DEF Is
  <2> QED BY <1>7, <2>1, <2>2
<1>9. TypeOK'
  <2>1. ev' \in [Thread -> Eval]
    BY <1>0, <1>4, <1>t
  <2>2. \A u \in Thread : pc'[u] \in {"marked", "wait"} => ev'[u].at \in Target
    BY <1>5, <1>t DEF TypeOK
  <2>3. ref' \in [Target -> Nat] /\ deferred' \in [Target -> Nat]
    <3>1. ref' = [f \in Target |-> ref'[f]] /\ deferred' = [f \in Target |-> deferred'[f]]
      BY <1>0 DEF Settle
    <3> QED BY <1>8, <3>1
  <2>4. state' \in [Fs -> {"absent", "mounted", "unmounted", "gone"}]
    <3>1. state \in [Fs -> {"absent", "mounted", "unmounted", "gone"}]
      BY <1>t DEF TypeOK
    <3>2. state' = [f \in Fs |-> state'[f]]
      BY <1>0 DEF Settle, Survivors
    <3> QED BY <1>a, <3>1, <3>2 DEF Aged
  <2> QED BY <1>0, <1>5, <1>t, <2>1, <2>2, <2>3, <2>4 DEF TypeOK
<1>10. Calm(t, root, w.fs)
  <2>1. ASSUME NEW f \in Target PROVE Obtained2(f, root, w.fs)
    <3>1. f = root \/ f = w.fs => Standing(f)
      BY <1>3, NowhereUnused DEF Standing
    <3> QED BY <1>8, <3>1 DEF Obtained2
  <2> QED BY <1>0, <1>4, <1>5, <1>6, <1>a, <2>1 DEF Calm
<1>11. Evaluating(t)'
  <2>0. Early(t) /\ Undisturbed(t) /\ Below(t)
    BY <1>t DEF Evaluating
  <2>1. Early(t)'
    BY <1>5 DEF Early
  <2>2. Selected(t)' = Selected(t) /\ Remaining(t)' = Remaining(t)
    BY <1>0, <1>4, <1>5, SelectedSame
  <2>m. \A f \in Fs : state'[f] = "mounted" <=> state[f] = "mounted"
    BY <1>a DEF Aged
  <2>3. Below(t)'
    <3>1. ev[t].op # "parent" => from = ev[t].root /\ (~ev[t].moved => Backed(from, t))
      BY <1>0, <1>f, <2>0 DEF Below
    <3>2. root # Nowhere => root = from
      BY <1>r DEF Obtained
    <3>3. Backed(root, t) => Backed(root, t)'
      <4>1. Entries(where[t])' = Entries(where[t])
        BY <1>0 DEF Entries
      <4> QED BY <1>a, <4>1 DEF Backed, Aged, Fs
    <3> QED BY <1>3, <1>4, <1>5, <3>1, <3>2, <3>3 DEF Below
  <2>4. Undisturbed(t)'
    <3>1. CASE ~ev[t].clean
      BY <1>4, <1>5, <3>1 DEF Undisturbed
    <3>2. CASE ev[t].clean
      <4>1. /\ ev[t].op # "parent" /\ ev[t].path \in Path /\ currentPath = ev[t].path
            /\ ev[t].root = Selected(t) /\ adjusted = Remaining(t)
        BY <1>0, <2>0, <3>2 DEF Undisturbed
      <4>2. from = Selected(t) /\ from # Nowhere
        BY <1>0, <1>f, <4>1
      <4>3. root = Selected(t) \/ (root = Nowhere /\ state[Selected(t)] # "mounted")
        BY <1>1, <1>r, <4>2 DEF Obtained
      <4>4. w.fs # Nowhere => w.spot = ev[t].path
        <5>1. CASE Remaining(t) # NoPath
          <6>1. path = Remaining(t)
            BY <1>p, <4>1, <5>1 DEF Effective
          <6> QED BY <1>3, <1>t, <4>1, <4>3, <5>1, <6>1, SelectedPath
        <5>2. CASE Remaining(t) = NoPath
          <6>1. path = ev[t].path
            BY <1>p, <4>1, <5>2 DEF Effective
          <6>2. w.fs # Nowhere => root = RootFs
            BY <1>3, <1>t, <4>1, <4>3, <5>2, SelectedPath
          <6>3. <<>> \o path = path
            BY <1>2, ConcatEmptySeq
          <6> QED BY <1>3, <6>1, <6>2, <6>3 DEF RootFs
        <5> QED BY <5>1, <5>2
      <4>5. Selected(t) \in Fs
        BY <1>1, <4>2
      <4>6. root = Nowhere => state'[Selected(t)] # "mounted"
        BY <2>m, <4>2, <4>3, <4>5
      <4>7. w.fs # Nowhere => state'[w.fs] = "mounted"
        BY <1>3, <2>m
      <4>8. root = Selected(t) \/ root = Nowhere
        BY <4>3
      <4> QED BY <1>0, <1>4, <1>5, <2>2, <4>1, <4>4, <4>6, <4>7, <4>8 DEF Undisturbed
    <3> QED BY <3>1, <3>2
  <2> QED BY <2>1, <2>3, <2>4 DEF Evaluating
<1>12. \A u \in Thread : Evaluating(u)'
  BY <1>6, <1>11
<1> QED BY <1>9, <1>10, <1>12, CalmInv DEF MntInv

-----------------------------------------------------------------------------
(* The end of an evaluation, mount() and unmount() *)

\* The users after a thread has left.
LEMMA LeaveTally ==
  ASSUME MntInv, live' \subseteq Namespace, NEW f \in Target, NEW t \in Thread,
         Clones(f)' \subseteq Clones(f),
         \A u \in Thread : u # t => OtherUses(u),
         Inside(t), ~Inside(t)'
  PROVE  /\ Tally(f) \in Nat /\ Tally(f)' \in Nat
         /\ Tally(f)' <= Tally(f) - (Is(f, ev[t].at) + Is(f, ev[t].rootloc))
<1>1. Roots(f)' \subseteq Roots(f) \ {t} /\ Starts(f)' \subseteq Starts(f) \ {t}
  BY DEF Roots, Starts, OtherUses
<1>2. /\ IsFiniteSet(Clones(f)) /\ IsFiniteSet(Roots(f)) /\ IsFiniteSet(Starts(f))
      /\ Tally(f) \in Nat /\ Tally(f)' \in Nat
  <2>1. live \subseteq Namespace
    BY DEF MntInv, TypeOK
  <2> QED BY <2>1, Tallied
<1>3. ASSUME NEW A, NEW B, IsFiniteSet(A), B \subseteq A \ {t}, NEW x, f = x => t \in A
      PROVE  Cardinality(A) \in Nat /\ Cardinality(B) \in Nat /\ Is(f, x) \in Nat
             /\ Cardinality(B) <= Cardinality(A) - Is(f, x)
  <2>1. CASE f = x
    <3>1. /\ Cardinality(A) \in Nat /\ Cardinality(B) \in Nat
          /\ Cardinality(B) <= Cardinality(A) - 1
      BY <1>3, <2>1, OneLess
    <3> QED BY <2>1, <3>1 DEF Is
  <2>2. CASE f # x
    <3>1. B \subseteq A /\ B \subseteq A \cup {t}
      BY <1>3
    <3>2. /\ Cardinality(A) \in Nat /\ Cardinality(B) \in Nat
          /\ Cardinality(B) <= Cardinality(A)
      BY <1>3, <3>1, OneMore
    <3> QED BY <2>2, <3>2 DEF Is
  <2> QED BY <2>1, <2>2
<1>4. (f = ev[t].rootloc => t \in Roots(f)) /\ (f = ev[t].at => t \in Starts(f))
  BY DEF Roots, Starts
<1>5. /\ Cardinality(Roots(f)) \in Nat /\ Cardinality(Roots(f)') \in Nat /\ Is(f, ev[t].rootloc) \in Nat
      /\ Cardinality(Roots(f)') <= Cardinality(Roots(f)) - Is(f, ev[t].rootloc)
  BY <1>1, <1>2, <1>3, <1>4
<1>6. /\ Cardinality(Starts(f)) \in Nat /\ Cardinality(Starts(f)') \in Nat /\ Is(f, ev[t].at) \in Nat
      /\ Cardinality(Starts(f)') <= Cardinality(Starts(f)) - Is(f, ev[t].at)
  BY <1>1, <1>2, <1>3, <1>4
<1>7. /\ Cardinality(Clones(f)) \in Nat /\ Cardinality(Clones(f)') \in Nat
      /\ Cardinality(Clones(f)') <= Cardinality(Clones(f))
  BY <1>2, OneMore
<1>8. Tally(f)' = Cardinality(Clones(f)') + Cardinality(Roots(f)') + Cardinality(Starts(f)')
  BY DEF Tally
<1> QED BY <1>2, <1>5, <1>6, <1>7, <1>8 DEF Tally

\* The cleanup releases what the start obtained; only the mount may be left.
LEMMA EvalEndInv ==
  ASSUME MntInv, NEW t \in Thread, EvalEnd(t) PROVE MntInv'
<1>t. /\ TypeOK /\ ev \in [Thread -> Eval] /\ pc \in [Thread -> Stage] /\ Evaluating(t)
      /\ ev[t] \in Eval
  BY DEF MntInv, TypeOK
<1>n. PICK next : next = IF pc[t] = "marked" THEN [NoEval EXCEPT !.at = ev[t].at] ELSE NoEval
  OBVIOUS
<1>s. PICK stage : stage = IF pc[t] = "marked" /\ state'[ev[t].at] # "gone" THEN "wait" ELSE "out"
  OBVIOUS
<1>0. /\ UNCHANGED <<live, list, nulled, where, home, parent>>
      /\ pc[t] \in {"marked", "refused", "walk"}
      /\ pc' = [Woken EXCEPT ![t] = stage] /\ ev' = [Disturbed(t) EXCEPT ![t] = next]
      /\ currentPath' = NoPath /\ adjusted' = NoPath
      /\ Settle({ev[t].at, ev[t].rootloc},
                [f \in Target |-> ref[f] - Is(f, ev[t].at) - Is(f, ev[t].rootloc)], deferred)
  BY <1>n, <1>s DEF EvalEnd, spaces
<1>1. next \in Eval /\ (stage = "wait" => next.at \in Target) /\ stage \in {"wait", "out"}
  <2>1. NoEval \in Eval
    BY DEF NoEval, Eval, Place
  <2>2. ev[t].at \in Place
    BY <1>t DEF Eval
  <2>3. [NoEval EXCEPT !.at = ev[t].at] \in Eval /\ [NoEval EXCEPT !.at = ev[t].at].at = ev[t].at
    BY <2>2 DEF NoEval, Eval, Place
  <2>4. pc[t] = "marked" => ev[t].at \in Target
    BY <1>t DEF TypeOK
  <2> QED BY <1>n, <1>s, <2>1, <2>3, <2>4
<1>a. Aged
  BY <1>0, SettleAges DEF Settle
<1>2. /\ ev'[t] = next /\ pc'[t] = stage
      /\ \A u \in Thread : u # t =>
           /\ ev'[u] = [ev[u] EXCEPT !.clean = FALSE]
           /\ pc'[u] = pc[u] \/ (pc[u] = "wait" /\ pc'[u] = "out")
      /\ pc' \in [Thread -> Stage]
  <2>1. \A u \in Thread : Woken[u] = pc[u] \/ (pc[u] = "wait" /\ Woken[u] = "out")
    BY <1>t, WokenThreads
  <2>2. Woken = [u \in Thread |-> Woken[u]]
    BY DEF Woken
  <2>3. Woken \in [Thread -> Stage]
    BY <1>t, <2>1, <2>2 DEF Stage
  <2>4. pc' \in [Thread -> Stage] /\ pc'[t] = stage /\ \A u \in Thread : u # t => pc'[u] = Woken[u]
    BY <1>0, <1>1, <2>3 DEF Stage
  <2>5. \A u \in Thread : Disturbed(t)[u] =
          IF u = t THEN ev[u] ELSE [ev[u] EXCEPT !.clean = FALSE]
    BY DEF Disturbed
  <2>6. Disturbed(t) = [u \in Thread |-> Disturbed(t)[u]]
    BY DEF Disturbed
  <2>7. ev'[t] = next /\ \A u \in Thread : u # t => ev'[u] = [ev[u] EXCEPT !.clean = FALSE]
    BY <1>0, <2>5, <2>6
  <2> QED BY <2>1, <2>4, <2>7
<1>3. \A u \in Thread : u # t => Evaluating(u)' /\ OtherUses(u) /\ ev'[u] \in Eval
  BY <1>0, <1>2, <1>a, Others DEF OtherUses
<1>4. ASSUME NEW f \in Target
      PROVE  /\ ref'[f] \in Nat /\ deferred'[f] \in Nat
             /\ Ledger(ref'[f], deferred'[f], Standing(f), Tally(f)')
  <2>1. Clones(f)' = Clones(f)
    BY <1>0 DEF Clones, Entries, Valid
  <2>2. Inside(t) /\ ~Inside(t)'
    BY <1>0, <1>1, <1>2 DEF Inside
  <2>3. live' \subseteq Namespace
    BY <1>0, <1>t DEF TypeOK
  <2>4. /\ Tally(f) \in Nat /\ Tally(f)' \in Nat
        /\ Tally(f)' <= Tally(f) - (Is(f, ev[t].at) + Is(f, ev[t].rootloc))
    BY <1>3, <2>1, <2>2, <2>3, LeaveTally
  <2>5. Ledger(ref[f], deferred[f], Standing(f), Tally(f))
    BY CountedLedger DEF MntInv
  <2>6. /\ ref[f] \in Nat /\ deferred[f] \in Nat
        /\ Is(f, ev[t].at) \in Nat /\ Is(f, ev[t].rootloc) \in Nat
    BY <1>t DEF TypeOK, Is
  <2>7. ref'[f] = ref[f] - Is(f, ev[t].at) - Is(f, ev[t].rootloc) /\ deferred'[f] = deferred[f]
    BY <1>0 DEF Settle
  <2>8. CASE Standing(f)
    BY <2>4, <2>5, <2>6, <2>7, <2>8 DEF Ledger
  <2>9. CASE ~Standing(f)
    BY <2>4, <2>5, <2>6, <2>7, <2>9 DEF Ledger
  <2> QED BY <2>8, <2>9
<1>5. TypeOK'
  <2>1. ev' \in [Thread -> Eval]
    <3>1. ev' = [u \in Thread |-> ev'[u]]
      BY <1>0 DEF Disturbed
    <3> QED BY <1>1, <1>2, <1>3, <3>1
  <2>2. \A u \in Thread : pc'[u] \in {"marked", "wait"} => ev'[u].at \in Target
    BY <1>1, <1>2, <1>3, <1>t DEF TypeOK, OtherUses
  <2>3. ref' \in [Target -> Nat] /\ deferred' \in [Target -> Nat]
    <3>1. ref' = [f \in Target |-> ref'[f]] /\ deferred' = deferred
      BY <1>0 DEF Settle
    <3> QED BY <1>4, <1>t, <3>1 DEF TypeOK
  <2>4. state' \in [Fs -> {"absent", "mounted", "unmounted", "gone"}]
    <3>1. state \in [Fs -> {"absent", "mounted", "unmounted", "gone"}]
      BY <1>t DEF TypeOK
    <3>2. state' = [f \in Fs |-> state'[f]]
      BY <1>0 DEF Settle, Survivors
    <3> QED BY <1>a, <3>1, <3>2 DEF Aged
  <2> QED BY <1>0, <1>2, <1>t, <2>1, <2>2, <2>3, <2>4 DEF TypeOK
<1>6. Listed'
  BY <1>0, <1>a, ListedAfter DEF MntInv
<1>7. Counted'
  BY <1>4, <1>5, <1>a, <1>t, CountedAfter
<1>8. Evaluating(t)'
  BY <1>1, <1>2, Idle
<1>9. \A u \in Thread : Evaluating(u)'
  BY <1>3, <1>8
<1> QED BY <1>5, <1>6, <1>7, <1>9 DEF MntInv

\* unmount() that reports an error has only looked up locations.
LEMMA UnmountRefusedInv ==
  ASSUME MntInv, NEW t \in Thread, UnmountRefused(t) PROVE MntInv'
<1>t. /\ TypeOK /\ ev \in [Thread -> Eval] /\ pc \in [Thread -> Stage]
      /\ ev[t] \in Eval /\ where[t] \in Namespace
  BY DEF MntInv, TypeOK
<1>0. /\ UNCHANGED <<live, list, nulled, where, home, state, parent, deferred, currentPath>>
      /\ pc[t] = "walk" /\ pc' = [pc EXCEPT ![t] = "refused"]
      /\ \/ /\ ref' = LocatedRef(t) /\ ev' = Disturbed(t)
            /\ adjusted' = RootLocation(where[t]).rest
         \/ UNCHANGED <<ref, ev, adjusted>>
  BY DEF UnmountRefused, spaces
<1>a. Aged
  BY <1>0 DEF Aged
<1>2. /\ ev'[t] = ev[t] /\ pc'[t] = "refused"
      /\ \A u \in Thread : u # t =>
           /\ pc'[u] = pc[u]
           /\ \/ ev'[u] = [ev[u] EXCEPT !.clean = FALSE]
              \/ ev'[u] = ev[u] /\ UNCHANGED <<currentPath, adjusted>>
  <2>1. \A u \in Thread : Disturbed(t)[u] =
          IF u = t THEN ev[u] ELSE [ev[u] EXCEPT !.clean = FALSE]
    BY DEF Disturbed
  <2> QED BY <1>0, <1>t, <2>1
<1>3. \A u \in Thread : u # t => Evaluating(u)' /\ OtherUses(u) /\ ev'[u] \in Eval
  BY <1>0, <1>2, <1>a, Others DEF OtherUses
<1>4. ASSUME NEW f \in Target
      PROVE  ref'[f] \in Nat /\ ref[f] \in Nat /\ ref'[f] >= ref[f] /\ deferred[f] \in Nat
  <2>1. ref[f] \in Nat /\ deferred[f] \in Nat
    BY <1>t DEF TypeOK
  <2>2. /\ Is(f, RootLocation(where[t]).fs) \in Nat /\ Is(f, CurrentLocation(t).fs) \in Nat
    BY DEF Is
  <2>3. \/ ref'[f] = ref[f] + Is(f, RootLocation(where[t]).fs) + Is(f, CurrentLocation(t).fs)
        \/ ref'[f] = ref[f]
    BY <1>0 DEF LocatedRef
  <2> QED BY <2>1, <2>2, <2>3
<1>5. TypeOK'
  <2>1. ev' \in [Thread -> Eval]
    <3>1. ev' = [u \in Thread |-> ev'[u]]
      BY <1>0, <1>t DEF Disturbed
    <3> QED BY <1>2, <1>3, <1>t, <3>1
  <2>2. \A u \in Thread : pc'[u] \in {"marked", "wait"} => ev'[u].at \in Target
    BY <1>2, <1>3, <1>t DEF TypeOK, OtherUses
  <2>3. ref' \in [Target -> Nat]
    <3>1. ref' = [f \in Target |-> ref'[f]]
      BY <1>0, <1>t DEF LocatedRef, TypeOK
    <3> QED BY <1>4, <3>1
  <2>4. {currentPath', adjusted'} \subseteq Seq(Name) \cup {NoPath}
    BY <1>0, <1>t, LocationListed DEF TypeOK
  <2>5. pc' \in [Thread -> Stage]
    BY <1>0, <1>t DEF Stage
  <2> QED BY <1>0, <1>t, <2>1, <2>2, <2>3, <2>4, <2>5 DEF TypeOK
<1>6. Calm(t, Nowhere, Nowhere)
  <2>1. ASSUME NEW f \in Target PROVE Obtained2(f, Nowhere, Nowhere)
    <3>1. f # Nowhere /\ Is(f, Nowhere) = 0 /\ deferred'[f] = deferred[f]
      BY <1>0, NowhereUnused
    <3>2. ref'[f] - deferred'[f] >= (ref[f] - deferred[f]) + (Is(f, Nowhere) + Is(f, Nowhere))
      BY <1>4, <3>1
    <3> QED BY <3>1, <3>2 DEF Obtained2
  <2>2. Inside(t)
    BY <1>0 DEF Inside
  <2> QED BY <1>0, <1>2, <1>3, <1>a, <2>1, <2>2 DEF Calm
<1>7. Evaluating(t)'
  BY <1>2, Idle
<1>8. \A u \in Thread : Evaluating(u)'
  BY <1>3, <1>7
<1> QED BY <1>5, <1>6, <1>8, CalmInv DEF MntInv

\* A file system that a regular unmount() marks is found again by the second
\* lookup, so that the reference it gives up is one that was just taken.
LEMMA UnmountFinds ==
  ASSUME MntInv, NEW t \in Thread, pc[t] = "walk", Regular(t), AtInstanceRoot(t)
  PROVE  state[ev[t].at] = "mounted" /\ RootLocation(where[t]).fs = ev[t].at
<1>1. TypeOK /\ Evaluating(t) /\ where[t] \in live /\ where[t] \in Namespace /\ Listed
  BY DEF MntInv, TypeOK
<1>2. /\ ev[t].path \in Path /\ currentPath = ev[t].path /\ ev[t].at # Nowhere
      /\ ev[t].spot = ev[t].path /\ state[ev[t].at] = "mounted" /\ ev[t].spot = ev[t].at
      /\ ev[t].at \in Entries(where[t])
  BY <1>1 DEF Evaluating, Undisturbed, Regular, AtInstanceRoot
<1>3. ev[t].at \in Fs
  BY <1>1, <1>2 DEF TypeOK, Eval, Place
<1>4. Valid(where[t], ev[t].at)
  <2>1. CASE ev[t].at \in Target
    BY <1>1, <1>2, <2>1 DEF Listed
  <2>2. CASE ev[t].at \notin Target
    BY <1>1, <2>2 DEF Valid, TypeOK
  <2> QED BY <2>1, <2>2
<1>5. ev[t].at \in Usable(where[t]) /\ ev[t].at \in Items(list[where[t]])
  BY <1>2, <1>4 DEF Usable, Entries, Items
<1>6. FindBest(where[t], ev[t].at).fs = ev[t].at
  <2>1. list[where[t]] \in Seq(Fs)
    BY <1>1 DEF TypeOK
  <2> QED BY <1>3, <1>5, <2>1, BestExact DEF FindBest
<1>7. currentPath # NoPath /\ currentPath = ev[t].at
  BY <1>2, PathAssumption
<1> QED BY <1>2, <1>6, <1>7 DEF RootLocation

\* A regular unmount() takes the original entry off its list and keeps its count.
LEMMA UnmountInv ==
  ASSUME MntInv, NEW t \in Thread, Unmount(t), ~Allowed("stray_unmount") PROVE MntInv'
<1>t. /\ TypeOK /\ ev \in [Thread -> Eval] /\ pc \in [Thread -> Stage] /\ Listed
      /\ ev[t] \in Eval /\ where[t] \in Namespace
      /\ list \in [Namespace -> Seq(Fs)] /\ live \subseteq Namespace /\ Root \in live
  BY DEF MntInv, TypeOK
<1>f. PICK f : f = ev[t].at
  OBVIOUS
<1>c. PICK count : count = LocatedRef(t)
  OBVIOUS
<1>0. /\ UNCHANGED <<live, nulled, where, home, parent, deferred, currentPath>>
      /\ pc[t] = "walk" /\ pc' = [pc EXCEPT ![t] = "marked"]
      /\ AtInstanceRoot(t) /\ Regular(t) /\ f \in Target
      /\ list' = [list EXCEPT ![home[f]] = Without(list[home[f]], f)]
      /\ state' = [state EXCEPT ![f] = "unmounted"]
      /\ ref' = IF count[f] >= 2 THEN [count EXCEPT ![f] = count[f] - 1] ELSE count
      /\ ev' = Disturbed(t) /\ adjusted' = RootLocation(where[t]).rest
  BY <1>c, <1>f DEF Unmount
<1>1. state[f] = "mounted" /\ RootLocation(where[t]).fs = f
  BY <1>0, <1>f, UnmountFinds
<1>h. home[f] \in Namespace
  BY <1>0, <1>t DEF TypeOK
<1>2. /\ ev'[t] = ev[t] /\ pc'[t] = "marked"
      /\ \A u \in Thread : u # t => pc'[u] = pc[u] /\ ev'[u] = [ev[u] EXCEPT !.clean = FALSE]
  <2>1. \A u \in Thread : Disturbed(t)[u] =
          IF u = t THEN ev[u] ELSE [ev[u] EXCEPT !.clean = FALSE]
    BY DEF Disturbed
  <2> QED BY <1>0, <1>t, <2>1
<1>u. \A u \in Thread : u # t => /\ OtherUses(u) /\ ev'[u] \in Eval /\ ~ev'[u].clean
  <2>1. ASSUME NEW u \in Thread, u # t PROVE OtherUses(u) /\ ev'[u] \in Eval /\ ~ev'[u].clean
    <3>1. ev[u] \in Eval
      BY <1>t
    <3>2. Inside(u)' <=> Inside(u)
      BY <1>2, <2>1 DEF Inside
    <3> QED BY <1>2, <2>1, <3>1, <3>2 DEF OtherUses, Eval
  <2> QED BY <2>1
<1>3. /\ list' \in [Namespace -> Seq(Fs)]
      /\ \A m \in Namespace : Entries(m)' = IF m = home[f] THEN Entries(m) \ {f} ELSE Entries(m)
  <2>1. list[home[f]] \in Seq(Fs)
    BY <1>h, <1>t
  <2>2. /\ Without(list[home[f]], f) \in Seq(Fs)
        /\ Items(Without(list[home[f]], f)) = Items(list[home[f]]) \ {f}
    BY <2>1, WithoutItems
  <2>3. list' \in [Namespace -> Seq(Fs)]
    BY <1>0, <1>t, <2>2
  <2>4. ASSUME NEW m \in Namespace
        PROVE  Entries(m)' = IF m = home[f] THEN Entries(m) \ {f} ELSE Entries(m)
    <3>1. Entries(m) = Items(list[m]) /\ Entries(m)' = Items(list'[m])
      BY DEF Entries, Items
    <3>2. list'[m] = IF m = home[f] THEN Without(list[home[f]], f) ELSE list[m]
      BY <1>0, <1>t
    <3> QED BY <2>2, <3>1, <3>2
  <2> QED BY <2>3, <2>4
<1>4. \A m, g : Valid(m, g)' = Valid(m, g)
  BY <1>0 DEF Valid
<1>5. \A g \in Fs : state'[g] = IF g = f THEN "unmounted" ELSE state[g]
  BY <1>0, <1>t DEF TypeOK
<1>6. ASSUME NEW g \in Target
      PROVE  ref'[g] \in Nat /\ ref[g] \in Nat /\ ref'[g] >= ref[g] /\ deferred[g] \in Nat
  <2>1. ref[g] \in Nat /\ deferred[g] \in Nat
    BY <1>t DEF TypeOK
  <2>2. Is(g, RootLocation(where[t]).fs) \in Nat /\ Is(g, CurrentLocation(t).fs) \in Nat
    BY DEF Is
  <2>3. count[g] = ref[g] + Is(g, RootLocation(where[t]).fs) + Is(g, CurrentLocation(t).fs)
    BY <1>c DEF LocatedRef
  <2>4. CASE g # f
    <3>1. ref'[g] = count[g]
      BY <1>0, <1>c, <2>4 DEF LocatedRef
    <3> QED BY <2>1, <2>2, <2>3, <3>1
  <2>5. CASE g = f
    <3>1. Is(g, RootLocation(where[t]).fs) = 1
      BY <1>1, <2>5 DEF Is
    <3>2. ref[g] >= 1
      <4>1. Ledger(ref[g], deferred[g], Standing(g), Tally(g)) /\ Standing(g)
        BY <1>1, <2>5, CountedLedger DEF MntInv, Standing
      <4>2. Tally(g) \in Nat
        <5>1. live' \subseteq Namespace
          BY <1>0, <1>t
        <5> QED BY <1>t, <5>1, Tallied
      <4> QED BY <2>1, <4>1, <4>2 DEF Ledger
    <3>3. count[g] \in Nat /\ count[g] >= 2 /\ count[g] - 1 >= ref[g]
      BY <2>1, <2>2, <2>3, <3>1, <3>2
    <3>4. ref'[g] = count[g] - 1
      BY <1>0, <1>c, <2>5, <3>3 DEF LocatedRef
    <3> QED BY <2>1, <3>3, <3>4
  <2> QED BY <2>4, <2>5
<1>7. TypeOK'
  <2>1. ev' \in [Thread -> Eval]
    <3>1. ev' = [u \in Thread |-> ev'[u]]
      BY <1>0 DEF Disturbed
    <3> QED BY <1>2, <1>u, <1>t, <3>1
  <2>2. \A u \in Thread : pc'[u] \in {"marked", "wait"} => ev'[u].at \in Target
    BY <1>0, <1>2, <1>f, <1>t, <1>u DEF TypeOK, OtherUses
  <2>3. ref' \in [Target -> Nat]
    <3>1. ref' = [g \in Target |-> ref'[g]]
      BY <1>0, <1>c DEF LocatedRef
    <3> QED BY <1>6, <3>1
  <2>4. {currentPath', adjusted'} \subseteq Seq(Name) \cup {NoPath}
    BY <1>0, <1>t, LocationListed DEF TypeOK
  <2>5. pc' \in [Thread -> Stage]
    BY <1>0, <1>t DEF Stage
  <2>6. state' \in [Fs -> {"absent", "mounted", "unmounted", "gone"}]
    BY <1>0, <1>t DEF TypeOK
  <2> QED BY <1>0, <1>3, <1>t, <2>1, <2>2, <2>3, <2>4, <2>5, <2>6 DEF TypeOK
<1>8. Listed'
  <2>0. RootFs \in Fs /\ RootFs # f /\ Target \subseteq Fs /\ Root \in Namespace
    BY <1>0, <1>t, TargetAssumption DEF Fs
  <2>1. RootFs \in Entries(Root)' /\ state'[RootFs] = "mounted"
    BY <1>3, <1>5, <1>t, <2>0 DEF Listed
  <2>2. \A m \in Namespace, g \in Target : g \in Entries(m)' => state'[g] # "absent"
    <3>1. ASSUME NEW m \in Namespace, NEW g \in Target, g \in Entries(m)'
          PROVE  state'[g] # "absent"
      <4>1. g \in Fs /\ (g = f \/ g \in Entries(m))
        BY <1>3, <2>0, <3>1
      <4>2. g \in Entries(m) => state[g] # "absent"
        BY <1>t DEF Listed
      <4> QED BY <1>5, <4>1, <4>2
    <3> QED BY <3>1
  <2>3. \A m \in live', g \in Target :
          g \in Entries(m)' /\ Valid(m, g)' /\ home'[g] = m => state'[g] = "mounted"
    BY <1>0, <1>3, <1>4, <1>5, <1>t, <2>0 DEF Listed
  <2>4. \A m \in live', g \in Target : ~Valid(m, g)' => state'[g] \in {"unmounted", "gone"}
    BY <1>0, <1>4, <1>5, <1>t, <2>0 DEF Listed
  <2> QED BY <2>1, <2>2, <2>3, <2>4 DEF Listed
<1>9. ASSUME NEW g \in Target PROVE Covered(g)'
  <2>1. Clones(g)' = Clones(g)
    BY <1>0, <1>3, <1>4, <1>t DEF Clones
  <2>2. Roots(g)' = Roots(g) /\ Starts(g)' = Starts(g)
    <3>1. \A u \in Thread : OtherUses(u)
      <4>1. OtherUses(t)
        BY <1>0, <1>2 DEF OtherUses, Inside
      <4> QED BY <1>u, <4>1
    <3> QED BY <3>1 DEF Roots, Starts, OtherUses
  <2>3. Tally(g)' = Tally(g) /\ Tally(g) \in Nat
    <3>1. live' \subseteq Namespace
      BY <1>0, <1>t
    <3> QED BY <1>t, <2>1, <2>2, <3>1, Tallied DEF Tally
  <2>4. StandsOn(g)
    BY <1>1, <1>5 DEF StandsOn, Standing, Fs
  <2>5. ref'[g] - deferred'[g] >= (ref[g] - deferred[g]) + 0
    BY <1>0, <1>6
  <2>6. Tally(g)' <= Tally(g) + 0
    BY <2>3
  <2>7. Ledger(ref'[g], deferred'[g], Standing(g), Tally(g)')
    BY <1>7, <2>5, <2>6, Obtains
  <2> QED BY <1>7, <1>t, <2>4, <2>7, CountedIf
<1>10. ASSUME NEW u \in Thread PROVE Evaluating(u)'
  <2>1. CASE u = t
    BY <1>2, <2>1, Idle
  <2>2. CASE u # t
    <3>1. Stands(u) /\ Apart(u)
      BY <1>2, <1>u, <2>2 DEF Stands, Apart
    <3>2. Grounded(u)
      <4>1. where[u] \in Namespace /\ where' = where
        BY <1>0, <1>t DEF TypeOK
      <4>2. Entries(where[u])' = IF where[u] = home[f] THEN Entries(where[u]) \ {f}
                                 ELSE Entries(where[u])
        BY <1>3, <4>1 DEF Entries
      <4>3. f \in Fs /\ state'[f] = "unmounted" /\ f \in Target
        BY <1>0, <1>5 DEF Fs
      <4>4. \A g \in Entries(where[u]) :
              g \in Entries(where[u])' \/ (g \in Target /\ state'[g] = "unmounted")
        BY <4>2, <4>3
      <4>5. \A g \in Target : state[g] \in {"unmounted", "gone"} =>
                                state'[g] \in {"unmounted", "gone"}
        BY <1>5 DEF Fs
      <4> QED BY <4>4, <4>5 DEF Grounded
    <3> QED BY <1>t, <3>1, <3>2, Bystander DEF MntInv
  <2> QED BY <2>1, <2>2
<1> QED BY <1>7, <1>8, <1>9, <1>10 DEF MntInv, Counted

\* mount() starts the count of a new file system at one, and it has no users yet.
LEMMA MountInv ==
  ASSUME MntInv, NEW t \in Thread, NEW f \in Target, Mount(t, f) PROVE MntInv'
<1>t. /\ TypeOK /\ ev \in [Thread -> Eval] /\ pc \in [Thread -> Stage] /\ Listed
      /\ where[t] \in Namespace /\ where[t] \in live
      /\ list \in [Namespace -> Seq(Fs)] /\ live \subseteq Namespace /\ Root \in live
      /\ state \in [Fs -> {"absent", "mounted", "unmounted", "gone"}]
      /\ home \in [Target -> Namespace] /\ parent \in [Target -> Place]
  BY DEF MntInv, TypeOK
<1>n. PICK n : n = where[t]
  OBVIOUS
<1>w. PICK w : w = Walk(RootFs, f)
  OBVIOUS
<1>c. PICK count : count = [g \in Target |-> Flushed.count[g] + Is(g, w.left)]
  OBVIOUS
<1>0. /\ UNCHANGED <<live, nulled, where>>
      /\ pc[t] = "out" /\ state[f] = "absent" /\ w.fs # Nowhere
      /\ parent' = [parent EXCEPT ![f] = w.fs] /\ home' = [home EXCEPT ![f] = n]
      /\ list' = [list EXCEPT ![n] = Append(list[n], f)]
      /\ ref' = [count EXCEPT ![f] = 1]
      /\ deferred' = [g \in Target |-> Flushed.pending[g] + Is(g, w.left)]
      /\ state' = [Survivors(Late, count) EXCEPT ![f] = "mounted"]
      /\ pc' = Woken /\ ev' = Disturbed(t) /\ currentPath' = NoPath /\ adjusted' = NoPath
  BY <1>c, <1>n, <1>w DEF Mount
<1>r. RootFs \in Fs /\ RootFs \notin Target /\ RootFs # f /\ Target \subseteq Fs /\ f \in Fs
  BY TargetAssumption DEF Fs
<1>1. w.fs \in Place /\ w.left # f
  <2>1. f \in Seq(Name)
    BY <1>r, FsIsPath
  <2>2. w \in Track /\ w.left \in {RootFs, Nowhere} \cup Mounted
    BY <1>r, <1>w, <2>1, WalkEnds
  <2>3. f \notin Mounted /\ f # Nowhere
    BY <1>0, NowhereUnused DEF Mounted
  <2> QED BY <1>r, <2>2, <2>3 DEF Track
<1>2. /\ \A u \in Thread : pc'[u] = pc[u] \/ (pc[u] = "wait" /\ pc'[u] = "out")
      /\ ev'[t] = ev[t] /\ pc'[t] = "out"
      /\ \A u \in Thread : u # t => ev'[u] = [ev[u] EXCEPT !.clean = FALSE]
      /\ pc' \in [Thread -> Stage]
  <2>1. \A u \in Thread : Woken[u] = pc[u] \/ (pc[u] = "wait" /\ Woken[u] = "out")
    BY <1>t, WokenThreads
  <2>2. Woken = [u \in Thread |-> Woken[u]]
    BY DEF Woken
  <2>3. Woken \in [Thread -> Stage]
    BY <1>t, <2>1, <2>2 DEF Stage
  <2>4. \A u \in Thread : Disturbed(t)[u] =
          IF u = t THEN ev[u] ELSE [ev[u] EXCEPT !.clean = FALSE]
    BY DEF Disturbed
  <2> QED BY <1>0, <2>1, <2>3, <2>4
<1>u. \A u \in Thread : OtherUses(u) /\ ev'[u] \in Eval /\ (u # t => ~ev'[u].clean)
  <2>1. ASSUME NEW u \in Thread PROVE OtherUses(u) /\ ev'[u] \in Eval /\ (u # t => ~ev'[u].clean)
    <3>1. ev[u] \in Eval
      BY <1>t
    <3>2. Inside(u)' <=> Inside(u)
      BY <1>2 DEF Inside
    <3> QED BY <1>2, <3>1, <3>2 DEF OtherUses, Eval
  <2> QED BY <2>1
<1>3. /\ list' \in [Namespace -> Seq(Fs)]
      /\ \A m \in Namespace : Entries(m)' = IF m = n THEN Entries(m) \cup {f} ELSE Entries(m)
  <2>1. n \in Namespace /\ list[n] \in Seq(Fs)
    BY <1>n, <1>t
  <2>2. /\ Append(list[n], f) \in Seq(Fs)
        /\ Items(Append(list[n], f)) = Items(list[n]) \cup {f}
    BY <1>r, <2>1, AppendItems
  <2>3. list' \in [Namespace -> Seq(Fs)]
    BY <1>0, <1>t, <2>2
  <2>4. ASSUME NEW m \in Namespace
        PROVE  Entries(m)' = IF m = n THEN Entries(m) \cup {f} ELSE Entries(m)
    <3>1. Entries(m) = Items(list[m]) /\ Entries(m)' = Items(list'[m])
      BY DEF Entries, Items
    <3>2. list'[m] = IF m = n THEN Append(list[n], f) ELSE list[m]
      BY <1>0, <1>t
    <3> QED BY <2>2, <3>1, <3>2
  <2> QED BY <2>3, <2>4
<1>4. \A m, g : Valid(m, g)' = Valid(m, g)
  BY <1>0 DEF Valid
<1>5. /\ state'[f] = "mounted"
      /\ \A g \in Fs : g # f =>
           \/ state'[g] = state[g]
           \/ g \in Target /\ state[g] = "unmounted" /\ state'[g] = "gone" /\ count[g] = 1
      /\ state' \in [Fs -> {"absent", "mounted", "unmounted", "gone"}]
  <2>1. \A g \in Destroyed(Late, count) :
          g \in Target /\ state[g] = "unmounted" /\ count[g] = 1
    BY DEF Destroyed, Ready
  <2>2. /\ Survivors(Late, count) \in [Fs -> {"absent", "mounted", "unmounted", "gone"}]
        /\ \A g \in Fs : Survivors(Late, count)[g] =
             IF g \in Destroyed(Late, count) THEN "gone" ELSE state[g]
    BY <1>t DEF Survivors
  <2> QED BY <1>0, <1>r, <2>1, <2>2
<1>h. \A g \in Target : home'[g] = IF g = f THEN n ELSE home[g]
  BY <1>0, <1>t
<1>6. ASSUME NEW g \in Target, g # f
      PROVE  /\ ref'[g] \in Nat /\ deferred'[g] \in Nat /\ ref'[g] = count[g]
             /\ ref'[g] - deferred'[g] >= (ref[g] - deferred[g]) + 0
  <2>1. /\ Flushed.count[g] \in Nat /\ Flushed.count[g] = ref[g] - deferred[g]
        /\ Flushed.pending[g] = 0 /\ Is(g, w.left) \in Nat
    BY FlushedCounts DEF Is
  <2>2. ref'[g] = count[g] /\ count[g] = Flushed.count[g] + Is(g, w.left)
        /\ deferred'[g] = Flushed.pending[g] + Is(g, w.left)
    BY <1>0, <1>6, <1>c
  <2> QED BY <2>1, <2>2
<1>7. ref'[f] = 1 /\ deferred'[f] = 0
  <2>1. Flushed.pending[f] = 0 /\ Is(f, w.left) = 0
    BY <1>1, FlushedCounts DEF Is
  <2>2. ref'[f] = 1 /\ deferred'[f] = Flushed.pending[f] + Is(f, w.left)
    BY <1>0, <1>c
  <2> QED BY <2>1, <2>2
<1>8. TypeOK'
  <2>1. ev' \in [Thread -> Eval]
    <3>1. ev' = [u \in Thread |-> ev'[u]]
      BY <1>0 DEF Disturbed
    <3> QED BY <1>u, <3>1
  <2>2. \A u \in Thread : pc'[u] \in {"marked", "wait"} => ev'[u].at \in Target
    BY <1>2, <1>u, <1>t DEF TypeOK, OtherUses
  <2>3. ref' \in [Target -> Nat] /\ deferred' \in [Target -> Nat]
    <3>1. ref' = [g \in Target |-> ref'[g]] /\ deferred' = [g \in Target |-> deferred'[g]]
      BY <1>0, <1>c
    <3>2. \A g \in Target : ref'[g] \in Nat /\ deferred'[g] \in Nat
      BY <1>6, <1>7
    <3> QED BY <3>1, <3>2
  <2>4. home' \in [Target -> Namespace] /\ parent' \in [Target -> Place]
    BY <1>0, <1>1, <1>n, <1>t
  <2> QED BY <1>0, <1>2, <1>3, <1>5, <1>t, <2>1, <2>2, <2>3, <2>4 DEF TypeOK
<1>9. Listed'
  <2>1. RootFs \in Entries(Root)' /\ state'[RootFs] = "mounted"
    <3>1. RootFs \in Entries(Root) /\ state[RootFs] = "mounted" /\ Root \in Namespace
      BY <1>t DEF Listed
    <3>2. RootFs \in Entries(Root)'
      BY <1>3, <3>1
    <3>3. state'[RootFs] = state[RootFs]
      BY <1>5, <1>r
    <3> QED BY <3>1, <3>2, <3>3
  <2>2. \A m \in Namespace, g \in Target : g \in Entries(m)' => state'[g] # "absent"
    <3>1. ASSUME NEW m \in Namespace, NEW g \in Target, g \in Entries(m)'
          PROVE  state'[g] # "absent"
      <4>1. g \in Fs /\ (g = f \/ g \in Entries(m))
        BY <1>3, <1>r, <3>1 DEF Fs
      <4>2. g \in Entries(m) => state[g] # "absent"
        BY <1>t DEF Listed
      <4> QED BY <1>5, <4>1, <4>2
    <3> QED BY <3>1
  <2>3. \A m \in live', g \in Target :
          g \in Entries(m)' /\ Valid(m, g)' /\ home'[g] = m => state'[g] = "mounted"
    <3>1. ASSUME NEW m \in live', NEW g \in Target, g # f,
                 g \in Entries(m)', Valid(m, g)', home'[g] = m
          PROVE  state'[g] = "mounted"
      <4>1. m \in live /\ g \in Entries(m) /\ Valid(m, g) /\ home[g] = m
        <5>1. m \in live /\ m \in Namespace
          BY <1>0, <1>t
        <5>2. g \in Entries(m)
          BY <1>3, <3>1, <5>1
        <5> QED BY <1>4, <1>h, <3>1, <5>1, <5>2
      <4>2. state[g] = "mounted"
        BY <1>t, <4>1 DEF Listed
      <4> QED BY <1>5, <1>r, <3>1, <4>2
    <3> QED BY <1>5, <3>1
  <2>4. \A m \in live', g \in Target : ~Valid(m, g)' => state'[g] \in {"unmounted", "gone"}
    <3>1. \A m \in live', g \in Target : ~Valid(m, g)' => state[g] \in {"unmounted", "gone"}
      BY <1>0, <1>4, <1>t DEF Listed
    <3> QED BY <1>0, <1>5, <1>r, <3>1
  <2> QED BY <2>1, <2>2, <2>3, <2>4 DEF Listed
<1>s. \A g \in Target : Roots(g)' = Roots(g) /\ Starts(g)' = Starts(g)
  BY <1>u DEF Roots, Starts, OtherUses
<1>10. ASSUME NEW g \in Target PROVE Covered(g)'
  <2>1. CASE g # f
    <3>1. Clones(g)' = Clones(g)
      BY <1>0, <1>3, <1>4, <1>h, <1>t, <2>1 DEF Clones
    <3>2. Tally(g)' = Tally(g) /\ Tally(g) \in Nat
      <4>1. live' \subseteq Namespace
        BY <1>0, <1>t
      <4> QED BY <1>s, <1>t, <3>1, <4>1, Tallied DEF Tally
    <3>3. StandsOn(g)
      BY <1>5, <1>6, <1>r, <2>1 DEF StandsOn, Standing
    <3>4. ref'[g] - deferred'[g] >= (ref[g] - deferred[g]) + 0
      BY <1>6, <2>1
    <3>5. Tally(g)' <= Tally(g) + 0
      BY <3>2
    <3>6. Ledger(ref'[g], deferred'[g], Standing(g), Tally(g)')
      BY <1>8, <3>4, <3>5, Obtains
    <3> QED BY <1>8, <1>t, <3>3, <3>6, CountedIf
  <2>2. CASE g = f
    <3>1. Covered(f) /\ ~Standing(f)
      BY <1>0 DEF MntInv, Counted, Standing
    <3>2. Users(f) = {}
      BY <3>1 DEF Covered
    <3>3. \A u \in Thread : u \notin Roots(f) /\ u \notin Starts(f)
      <4>1. \A u \in Roots(f) : <<u, "root">> \in Users(f)
        BY DEF Users, Roots
      <4>2. \A u \in Starts(f) : <<u, "start">> \in Users(f)
        BY DEF Users, Starts
      <4> QED BY <3>2, <4>1, <4>2
    <3>4. Clones(f)' = {}
      <4>1. \A m \in Namespace : f \notin Entries(m)
        BY <1>0, <1>t DEF Listed
      <4> QED BY <1>0, <1>3, <1>h, <1>t, <4>1 DEF Clones
    <3>5. Roots(f)' = {} /\ Starts(f)' = {}
      <4>1. Roots(f) = {} /\ Starts(f) = {}
        BY <3>3 DEF Roots, Starts
      <4> QED BY <1>s, <4>1
    <3>6. Users(f)' = {}
      BY <3>4, <3>5 DEF Users, Roots, Starts
    <3>7. Cardinality(Users(f))' = 0
      BY <3>6, FS_EmptySet
    <3>8. Standing(f)'
      BY <1>5 DEF Standing
    <3> QED BY <1>7, <2>2, <3>7, <3>8 DEF Covered
  <2> QED BY <2>1, <2>2
<1>11. ASSUME NEW u \in Thread PROVE Evaluating(u)'
  <2>1. CASE u = t
    BY <1>2, <2>1, Idle
  <2>2. CASE u # t
    <3>1. Stands(u) /\ Apart(u)
      BY <1>2, <1>u, <2>2 DEF Stands, Apart
    <3>2. Grounded(u)
      <4>1. where[u] \in Namespace /\ where' = where
        BY <1>0, <1>t DEF TypeOK
      <4>2. Entries(where[u])' = IF where[u] = n THEN Entries(where[u]) \cup {f}
                                 ELSE Entries(where[u])
        BY <1>3, <4>1 DEF Entries
      <4>4. \A g \in Entries(where[u]) :
              g \in Entries(where[u])' \/ (g \in Target /\ state'[g] = "unmounted")
        BY <4>2
      <4>5. \A g \in Target : state[g] \in {"unmounted", "gone"} =>
                                state'[g] \in {"unmounted", "gone"}
        BY <1>0, <1>5, <1>r
      <4> QED BY <4>4, <4>5 DEF Grounded
    <3> QED BY <1>t, <3>1, <3>2, Bystander DEF MntInv
  <2> QED BY <2>1, <2>2
<1> QED BY <1>8, <1>9, <1>10, <1>11 DEF MntInv, Counted

\* A mount() that fails leaves a late release, and clears the static variables.
LEMMA MountFailsInv ==
  ASSUME MntInv, NEW t \in Thread, NEW f \in Target, MountFails(t, f) PROVE MntInv'
<1>t. /\ TypeOK /\ ev \in [Thread -> Eval] /\ pc \in [Thread -> Stage]
      /\ live \subseteq Namespace
      /\ state \in [Fs -> {"absent", "mounted", "unmounted", "gone"}]
  BY DEF MntInv, TypeOK
<1>w. PICK left : left = Walk(RootFs, f).left
  OBVIOUS
<1>c. PICK count : count = [g \in Target |-> Flushed.count[g] + Is(g, left)]
  OBVIOUS
<1>0. /\ UNCHANGED <<live, list, nulled, where, home, parent>>
      /\ pc[t] = "out" /\ ref' = count /\ state' = Survivors(Late, count)
      /\ deferred' = [g \in Target |-> Flushed.pending[g] + Is(g, left)]
      /\ pc' = Woken /\ ev' = Disturbed(t) /\ currentPath' = NoPath /\ adjusted' = NoPath
  BY <1>c, <1>w DEF MountFails, Settle, spaces
<1>1. /\ \A u \in Thread : pc'[u] = pc[u] \/ (pc[u] = "wait" /\ pc'[u] = "out")
      /\ ev'[t] = ev[t] /\ pc'[t] = "out"
      /\ \A u \in Thread : u # t => ev'[u] = [ev[u] EXCEPT !.clean = FALSE]
      /\ pc' \in [Thread -> Stage]
  <2>1. \A u \in Thread : Woken[u] = pc[u] \/ (pc[u] = "wait" /\ Woken[u] = "out")
    BY <1>t, WokenThreads
  <2>2. Woken = [u \in Thread |-> Woken[u]]
    BY DEF Woken
  <2>3. Woken \in [Thread -> Stage]
    BY <1>t, <2>1, <2>2 DEF Stage
  <2>4. \A u \in Thread : Disturbed(t)[u] =
          IF u = t THEN ev[u] ELSE [ev[u] EXCEPT !.clean = FALSE]
    BY DEF Disturbed
  <2> QED BY <1>0, <2>1, <2>3, <2>4
<1>u. \A u \in Thread : OtherUses(u) /\ ev'[u] \in Eval
  <2>1. ASSUME NEW u \in Thread PROVE OtherUses(u) /\ ev'[u] \in Eval
    <3>1. ev[u] \in Eval
      BY <1>t
    <3>2. Inside(u)' <=> Inside(u)
      BY <1>1 DEF Inside
    <3> QED BY <1>1, <3>1, <3>2 DEF OtherUses, Eval
  <2> QED BY <2>1
<1>2. Aged
  BY <1>0, SettleAges
<1>3. ASSUME NEW g \in Target
      PROVE  /\ ref'[g] \in Nat /\ deferred'[g] \in Nat
             /\ ref'[g] - deferred'[g] >= (ref[g] - deferred[g]) + 0
  <2>1. /\ Flushed.count[g] \in Nat /\ Flushed.count[g] = ref[g] - deferred[g]
        /\ Flushed.pending[g] = 0 /\ Is(g, left) \in Nat
    BY FlushedCounts DEF Is
  <2>2. /\ ref'[g] = Flushed.count[g] + Is(g, left)
        /\ deferred'[g] = Flushed.pending[g] + Is(g, left)
    BY <1>0, <1>c
  <2> QED BY <2>1, <2>2
<1>4. TypeOK'
  <2>1. ev' \in [Thread -> Eval]
    <3>1. ev' = [u \in Thread |-> ev'[u]]
      BY <1>0 DEF Disturbed
    <3> QED BY <1>u, <3>1
  <2>2. \A u \in Thread : pc'[u] \in {"marked", "wait"} => ev'[u].at \in Target
    BY <1>1, <1>u, <1>t DEF TypeOK, OtherUses
  <2>3. ref' \in [Target -> Nat] /\ deferred' \in [Target -> Nat]
    <3>1. ref' = [g \in Target |-> ref'[g]] /\ deferred' = [g \in Target |-> deferred'[g]]
      BY <1>0, <1>c
    <3> QED BY <1>3, <3>1
  <2>4. state' \in [Fs -> {"absent", "mounted", "unmounted", "gone"}]
    BY <1>0, <1>t DEF Survivors
  <2> QED BY <1>0, <1>1, <1>t, <2>1, <2>2, <2>3, <2>4 DEF TypeOK
<1>5. Listed'
  BY <1>0, <1>2, ListedAfter DEF MntInv
<1>6. Counted'
  <2>1. ASSUME NEW g \in Target PROVE Ledger(ref'[g], deferred'[g], Standing(g), Tally(g)')
    <3>1. Clones(g)' = Clones(g)
      BY <1>0 DEF Clones, Entries, Valid
    <3>2. Roots(g)' = Roots(g) /\ Starts(g)' = Starts(g)
      BY <1>u DEF Roots, Starts, OtherUses
    <3>3. Tally(g)' = Tally(g) /\ Tally(g) \in Nat
      <4>1. live' \subseteq Namespace
        BY <1>0, <1>t
      <4> QED BY <1>t, <3>1, <3>2, <4>1, Tallied DEF Tally
    <3>4. Tally(g)' <= Tally(g) + 0
      BY <3>3
    <3> QED BY <1>3, <1>4, <3>4, Obtains
  <2> QED BY <1>2, <1>4, <1>t, <2>1, CountedAfter
<1>7. ASSUME NEW u \in Thread PROVE Evaluating(u)'
  <2>1. CASE u = t
    BY <1>1, <2>1, Idle
  <2>2. CASE u # t
    BY <1>0, <1>1, <1>2, <2>2, Others
  <2> QED BY <2>1, <2>2
<1> QED BY <1>4, <1>5, <1>6, <1>7 DEF MntInv

-----------------------------------------------------------------------------
(* The invariant and what follows from it *)

\* Every step of a program without stray unmount() calls preserves the invariant.
LEMMA NextInv ==
  ASSUME MntInv, [Next]_vars, ~Allowed("stray_unmount") PROVE MntInv'
<1>1. CASE \E n \in Child : NsCreate(n) \/ NsDelete(n)
  BY <1>1, NsCreateInv, NsDeleteInv
<1>2. CASE \E n \in Child, p \in Namespace : NsInherit(n, p)
  BY <1>2, NsInheritInv
<1>3. CASE \E t \in Thread, n \in Namespace : Move(t, n)
  BY <1>3, MoveInv
<1>4. CASE \E t \in Thread, f \in Target : Mount(t, f) \/ MountFails(t, f)
  BY <1>4, MountInv, MountFailsInv
<1>5. CASE \E t \in Thread, path \in Path, op \in {"open", "parent", "unmount"} :
             EvalBegin(t, path, op)
  BY <1>5, EvalBeginInv
<1>6. CASE \E t \in Thread : \/ EvalRoot(t) \/ EvalCurrent(t)
                             \/ EvalNowhere(t) \/ EvalStart(t) \/ EvalEnd(t)
                             \/ Unmount(t) \/ UnmountRefused(t)
  BY <1>6, EvalRootInv, EvalCurrentInv, EvalNowhereInv, EvalStartInv, EvalEndInv,
     UnmountInv, UnmountRefusedInv
<1>7. CASE UNCHANGED vars
  <2>1. /\ UNCHANGED <<live, list, nulled, home, state, parent, ref, deferred>>
        /\ UNCHANGED <<where, pc, ev, currentPath, adjusted>>
    BY <1>7 DEF vars, spaces, systems, statics
  <2>2. TypeOK'
    BY <2>1 DEF MntInv, TypeOK
  <2>3. Aged
    BY <2>1 DEF Aged
  <2>4. Listed'
    BY <2>1, <2>3, ListedAfter DEF MntInv
  <2>5. Counted'
    <3>1. ASSUME NEW f \in Target PROVE Covered(f)'
      <4>1. Covered(f)
        BY DEF MntInv, Counted
      <4>2. Clones(f)' = Clones(f)
        BY <2>1 DEF Clones, Entries, Valid
      <4>3. Users(f)' = Users(f)
        BY <2>1, <4>2 DEF Users, Inside
      <4>4. state'[f] = state[f] /\ ref'[f] = ref[f] /\ deferred'[f] = deferred[f]
        BY <2>1
      <4> QED BY <4>1, <4>3, <4>4 DEF Covered, Standing
    <3> QED BY <3>1 DEF Counted
  <2>6. \A t \in Thread : Evaluating(t)'
    BY <2>1, <2>3, Others
  <2> QED BY <2>2, <2>4, <2>5, <2>6 DEF MntInv
<1> QED BY <1>1, <1>2, <1>3, <1>4, <1>5, <1>6, <1>7 DEF Next

\* The inductive invariant holds in every program without stray unmount() calls.
LEMMA MntInvariant ==
  ASSUME ~Allowed("stray_unmount") PROVE Spec => []MntInv
<1>1. MntInv /\ [Next]_vars => MntInv'
  BY NextInv
<1> QED BY <1>1, InitInv, PTL DEF Spec

\* The variables keep their types: no sequence of calls makes a reference count
\* or a deferred release negative.
THEOREM MntTypes ==
  ASSUME ~Allowed("stray_unmount") PROVE Spec => []TypeOK
<1>1. MntInv => TypeOK
  BY DEF MntInv
<1> QED BY <1>1, MntInvariant, PTL

\* The reference count of a file system covers the mount and every user, so that
\* rtems_filesystem_do_unmount() never destroys one that is in use.
THEOREM MntRefCovers ==
  ASSUME ~Allowed("stray_unmount") PROVE Spec => []RefCovers
<1>1. MntInv => RefCovers
  BY DEF MntInv, Counted, Covered, Standing, RefCovers
<1> QED BY <1>1, MntInvariant, PTL

\* An evaluation stays below the mounts of the thread's namespace, unless another
\* thread moved it meanwhile.
THEOREM MntConfined ==
  ASSUME ~Allowed("stray_unmount") PROVE Spec => []Confined
<1>1. ASSUME MntInv, NEW t \in Thread,
             pc[t] = "walk", ev[t].op # "parent", ev[t].at # Nowhere, ~ev[t].moved
      PROVE  \E f \in Entries(where[t]) \cup {g \in Target : state[g] = "unmounted"} :
               IsPrefix(f, ev[t].at)
  <2>1. /\ ev[t].rootloc # Nowhere /\ Backed(ev[t].rootloc, t)
        /\ IsPrefix(ev[t].rootloc, ev[t].at)
    BY <1>1 DEF MntInv, Evaluating, Below
  <2>2. ev[t].rootloc \in Fs /\ ev[t].at \in Fs
    <3>1. ev[t] \in Eval
      BY <1>1 DEF MntInv, TypeOK
    <3> QED BY <1>1, <2>1, <3>1 DEF Eval, Place
  <2>3. CASE ev[t].rootloc \in Entries(where[t])
    BY <2>1, <2>3
  <2>4. CASE RootFs \in Entries(where[t])
    <3>1. IsPrefix(RootFs, ev[t].at)
      BY <2>2, FsIsPath, PrefixSelf DEF RootFs
    <3> QED BY <2>4, <3>1
  <2>5. CASE ev[t].rootloc \in Target /\ state[ev[t].rootloc] \in {"unmounted", "gone"}
    <3>1. <<t, "root">> \in Users(ev[t].rootloc)
      BY <1>1 DEF Users, Inside
    <3>2. state[ev[t].rootloc] # "gone"
      BY <1>1, <2>5, <3>1 DEF MntInv, Counted, Covered, Standing
    <3> QED BY <2>1, <2>5, <3>2
  <2> QED BY <2>1, <2>3, <2>4, <2>5 DEF Backed
<1>2. MntInv => Confined
  BY <1>1 DEF Confined
<1> QED BY <1>2, MntInvariant, PTL

-----------------------------------------------------------------------------
(* The deepest mount *)

\* With all entries usable, find_best_mount_for_path() and the fallback select
\* the deepest mount of the list.
LEMMA SelectsDeepest ==
  ASSUME TypeOK, NEW t \in Thread, ev[t].path \in Path,
         \A f \in Entries(where[t]) : Valid(where[t], f)
  PROVE  Selected(t) = Deepest(where[t], ev[t].path)
<1>n. PICK n : n = where[t]
  OBVIOUS
<1>p. PICK path : path = ev[t].path
  OBVIOUS
<1>s. PICK entries : entries = list[n]
  OBVIOUS
<1>b. PICK best : best = BestOf(entries, Usable(n), path)
  OBVIOUS
<1>1. entries \in Seq(Fs) /\ path \in Seq(Name) /\ n \in Namespace
  BY <1>n, <1>p, <1>s, PathAssumption DEF TypeOK
<1>2. Items(entries) = Entries(n) /\ Entries(n) \subseteq Usable(n)
  BY <1>n, <1>s DEF Items, Entries, Usable
<1>3. FoundIn(best, entries, Usable(n), path) /\ Longest(best, Len(entries), entries, path)
  BY <1>1, <1>2, <1>b, BestFound, BestLongest
<1>d. PICK fit : fit = {f \in Entries(n) : Matches(f, path)}
  OBVIOUS
<1>4. Selected(t) = IF best.fs # Nowhere THEN best.fs ELSE Fallback(n)
  BY <1>3, <1>b, <1>n, <1>p, <1>s DEF Selected, FindBest, Longest
<1>5. Fallback(n) = IF RootFs \in Entries(n) THEN RootFs ELSE Nowhere
  BY <1>n DEF Fallback
<1>6. Deepest(n, path) = IF fit # {} THEN CHOOSE f \in fit : \A g \in fit : Len(g) <= Len(f)
                         ELSE IF RootFs \in Entries(n) THEN RootFs ELSE Nowhere
  BY <1>d DEF Deepest
<1>7. ASSUME NEW f \in fit
      PROVE  f \in Fs /\ Len(f) \in Nat /\ 1 + Len(f) <= best.len /\ IsPrefix(f, path)
  <2>1. PICK i \in 1 .. Len(entries) : f = entries[i]
    BY <1>1, <1>2, <1>d, IndexSet DEF Items
  <2>2. f \in Fs /\ Matches(f, path)
    BY <1>1, <1>d, <2>1, IndexSet
  <2>3. 1 + Len(f) <= best.len
    BY <1>3, <2>1, <2>2 DEF Longest
  <2> QED BY <1>1, <2>2, <2>3, FsIsPath, MatchIsPrefix
<1>8. CASE best.fs = Nowhere
  <2>1. best.len = 0
    BY <1>3, <1>8 DEF Longest
  <2>2. fit = {}
    <3>1. ASSUME NEW f \in fit PROVE FALSE
      BY <1>7, <2>1
    <3> QED BY <3>1
  <2> QED BY <1>4, <1>5, <1>6, <1>8, <1>n, <1>p, <2>2
<1>9. CASE best.fs # Nowhere
  <2>1. best.fs \in fit /\ best.len = 1 + Len(best.fs)
    BY <1>2, <1>3, <1>9, <1>d DEF FoundIn
  <2>2. Len(best.fs) \in Nat /\ best.fs \in Fs
    BY <1>7, <2>1
  <2>3. \A g \in fit : Len(g) <= Len(best.fs)
    <3>1. ASSUME NEW g \in fit PROVE Len(g) <= Len(best.fs)
      BY <1>7, <2>1, <2>2
    <3> QED BY <3>1
  <2>c. PICK c : c = CHOOSE f \in fit : \A g \in fit : Len(g) <= Len(f)
    OBVIOUS
  <2>4. c \in fit /\ \A g \in fit : Len(g) <= Len(c)
    BY <2>1, <2>3, <2>c
  <2>5. Len(c) = Len(best.fs)
    BY <1>7, <2>1, <2>2, <2>3, <2>4
  <2>6. c = best.fs
    BY <1>1, <1>7, <2>1, <2>4, <2>5, FsIsPath, PrefixUnique
  <2> QED BY <1>4, <1>6, <1>9, <1>n, <1>p, <2>1, <2>6, <2>c
<1> QED BY <1>8, <1>9

\* An undisturbed evaluation starts in the deepest mount of its own list and
\* arrives at the place its path names.
THEOREM MntOwnSelection ==
  ASSUME ~Allowed("stray_unmount") PROVE Spec => []OwnSelection
<1>1. ASSUME MntInv, NEW t \in Thread,
             pc[t] = "walk" /\ ev[t].clean /\ ev[t].op = "open",
             \A f \in Entries(where[t]) : Valid(where[t], f) /\ state[f] = "mounted"
      PROVE  /\ ev[t].rootloc = Deepest(where[t], ev[t].path)
             /\ ev[t].at # Nowhere => ev[t].spot = ev[t].path
  <2>1. /\ ev[t].path \in Path
        /\ \/ ev[t].rootloc = Selected(t)
           \/ ev[t].rootloc = Nowhere
              /\ (Selected(t) # Nowhere => state[Selected(t)] # "mounted")
        /\ ev[t].at # Nowhere => ev[t].spot = ev[t].path
    BY <1>1 DEF MntInv, Evaluating, Undisturbed
  <2>2. TypeOK
    BY <1>1 DEF MntInv
  <2>3. Selected(t) # Nowhere => Selected(t) \in Entries(where[t])
    BY <2>1, <2>2, SelectedPath DEF Usable
  <2>4. ev[t].rootloc = Selected(t)
    BY <1>1, <2>1, <2>3
  <2>5. Selected(t) = Deepest(where[t], ev[t].path)
    BY <1>1, <2>1, <2>2, SelectsDeepest
  <2> QED BY <2>1, <2>4, <2>5
<1>2. MntInv => OwnSelection
  BY <1>1 DEF OwnSelection
<1> QED BY <1>2, MntInvariant, PTL

-----------------------------------------------------------------------------
(* An unmounted file system gets no new users *)

\* A thread that was inside the file system, or is not inside it after the step.
NotEntering(f, u) ==
  Inside(u)' => \/ Inside(u) /\ ev'[u].rootloc = ev[u].rootloc /\ ev'[u].at = ev[u].at
                \/ f # ev'[u].rootloc /\ f # ev'[u].at

\* Users are new only by a new clone or a thread that enters.
LEMMA NoNewIf ==
  ASSUME NEW f, Clones(f)' \subseteq Clones(f), \A u \in Thread : NotEntering(f, u)
  PROVE  Users(f)' \subseteq Users(f)
<1>1. {u \in Thread : Inside(u)' /\ ev'[u].rootloc = f}
        \subseteq {u \in Thread : Inside(u) /\ ev[u].rootloc = f}
  BY DEF NotEntering
<1>2. {u \in Thread : Inside(u)' /\ ev'[u].at = f}
        \subseteq {u \in Thread : Inside(u) /\ ev[u].at = f}
  BY DEF NotEntering
<1> QED BY <1>1, <1>2 DEF Users

\* A clone is new only in a namespace whose list got the entry.
LEMMA SameClones ==
  ASSUME NEW f, home'[f] = home[f],
         \A m \in live' : f \in Entries(m)' /\ Valid(m, f)' =>
                            m \in live /\ f \in Entries(m) /\ Valid(m, f)
  PROVE  Clones(f)' \subseteq Clones(f)
BY DEF Clones

\* Threads that go on as before, are woken up, or are only disturbed.
LEMMA NotEnteringIf ==
  ASSUME TypeOK, NEW f, NEW u \in Thread,
         pc'[u] = pc[u] \/ (pc[u] = "wait" /\ pc'[u] = "out"),
         ev'[u] = ev[u] \/ ev'[u] = [ev[u] EXCEPT !.clean = FALSE]
  PROVE  NotEntering(f, u)
<1>1. ev[u] \in Eval
  BY DEF TypeOK
<1>2. ev'[u].rootloc = ev[u].rootloc /\ ev'[u].at = ev[u].at
  BY <1>1 DEF Eval
<1>3. Inside(u)' => Inside(u)
  BY DEF Inside
<1> QED BY <1>2, <1>3 DEF NotEntering

\* The steps of an evaluation change no list.
LEMMA EvalClones ==
  ASSUME NEW f, UNCHANGED <<live, list, nulled, home>>
  PROVE  Clones(f)' \subseteq Clones(f)
BY DEF Clones, Entries, Valid

\* Threads are moved between namespaces and namespaces come and go without a new
\* user: a clone of an unmounted file system is made without mt_fs_root.
LEMMA SpacesNoNew ==
  ASSUME MntInv, NEW f \in Target, state[f] = "unmounted",
         \/ \E n \in Child : NsCreate(n) \/ NsDelete(n)
         \/ \E n \in Child, p \in Namespace : NsInherit(n, p)
         \/ \E t \in Thread, n \in Namespace : Move(t, n)
  PROVE  Users(f)' \subseteq Users(f)
<1>t. /\ TypeOK /\ list \in [Namespace -> Seq(Fs)] /\ live \subseteq Namespace
      /\ ev \in [Thread -> Eval] /\ pc \in [Thread -> Stage] /\ Child \subseteq Namespace
  BY DEF MntInv, TypeOK, Namespace
<1>1. ASSUME NEW n \in Child, NsCreate(n) PROVE Users(f)' \subseteq Users(f)
  <2>1. /\ list' = [list EXCEPT ![n] = <<>>] /\ live' = live \cup {n}
        /\ UNCHANGED <<nulled, home, pc, ev>>
    BY <1>1 DEF NsCreate, systems
  <2>2. Entries(n)' = {} /\ \A m \in Namespace : m # n => Entries(m)' = Entries(m)
    BY <1>t, <2>1 DEF Entries
  <2>3. Clones(f)' \subseteq Clones(f)
    BY <1>t, <2>1, <2>2, SameClones DEF Valid
  <2>4. \A u \in Thread : NotEntering(f, u)
    BY <1>t, <2>1, NotEnteringIf
  <2> QED BY <2>3, <2>4, NoNewIf
<1>2. ASSUME NEW n \in Child, NsDelete(n) PROVE Users(f)' \subseteq Users(f)
  <2>1. /\ list' = [list EXCEPT ![n] = <<>>] /\ live' = live \ {n}
        /\ nulled' = {e \in nulled : e[1] # n}
        /\ UNCHANGED <<home, pc>>
        /\ ev' = [t \in Thread |-> IF where[t] = n THEN [ev[t] EXCEPT !.clean = FALSE]
                                                   ELSE ev[t]]
    BY <1>2 DEF NsDelete
  <2>2. \A m \in Namespace : m # n => Entries(m)' = Entries(m)
    BY <1>t, <2>1 DEF Entries
  <2>3. \A m : m # n => (Valid(m, f)' <=> Valid(m, f))
    <3>1. \A m : <<m, f>>[1] = m
      OBVIOUS
    <3> QED BY <2>1, <3>1 DEF Valid
  <2>4. Clones(f)' \subseteq Clones(f)
    BY <1>t, <2>1, <2>2, <2>3, SameClones
  <2>5. ASSUME NEW u \in Thread PROVE NotEntering(f, u)
    <3>1. ev'[u] = ev[u] \/ ev'[u] = [ev[u] EXCEPT !.clean = FALSE]
      BY <2>1
    <3> QED BY <1>t, <2>1, <3>1, NotEnteringIf
  <2> QED BY <2>4, <2>5, NoNewIf
<1>3. ASSUME NEW n \in Child, NEW p \in Namespace, NsInherit(n, p)
      PROVE  Users(f)' \subseteq Users(f)
  <2>1. /\ list' = [list EXCEPT ![n] = list[p]] /\ live' = live \cup {n}
        /\ nulled' = nulled \cup
             {<<n, g>> : g \in {h \in Entries(p) : ~Valid(p, h) \/ Obtained(h) = Nowhere}}
        /\ UNCHANGED <<home, ev>> /\ (pc' = pc \/ pc' = Woken)
    BY <1>3 DEF NsInherit
  <2>2. /\ \A m \in Namespace : m # n => Entries(m)' = Entries(m)
        /\ Entries(n)' = Entries(p)
    BY <1>t, <2>1 DEF Entries
  <2>3. \A m : Valid(m, f)' => Valid(m, f)
    BY <2>1 DEF Valid
  <2>4. f \in Entries(n)' => ~Valid(n, f)'
    <3>1. Obtained(f) = Nowhere
      BY DEF Obtained
    <3> QED BY <2>1, <2>2, <3>1 DEF Valid
  <2>5. Clones(f)' \subseteq Clones(f)
    BY <1>t, <2>1, <2>2, <2>3, <2>4, SameClones
  <2>6. ASSUME NEW u \in Thread PROVE NotEntering(f, u)
    <3>1. pc'[u] = pc[u] \/ (pc[u] = "wait" /\ pc'[u] = "out")
      BY <1>t, <2>1, WokenThreads
    <3> QED BY <1>t, <2>1, <3>1, NotEnteringIf
  <2> QED BY <2>5, <2>6, NoNewIf
<1>4. ASSUME NEW t \in Thread, NEW n \in Namespace, Move(t, n)
      PROVE  Users(f)' \subseteq Users(f)
  <2>1. /\ UNCHANGED <<live, list, nulled, home, pc>>
        /\ ev' = [ev EXCEPT ![t] = [ev[t] EXCEPT !.clean = FALSE, !.moved = Looks(t)]]
    BY <1>4, <1>t DEF Move, systems
  <2>2. \A u \in Thread : ev'[u].rootloc = ev[u].rootloc /\ ev'[u].at = ev[u].at
    BY <1>t, <2>1 DEF Eval
  <2>3. \A u \in Thread : NotEntering(f, u)
    BY <2>1, <2>2 DEF NotEntering, Inside
  <2> QED BY <2>1, <2>3, EvalClones, NoNewIf
<1> QED BY <1>1, <1>2, <1>3, <1>4

\* mount() gives an entry to another file system, and unmount() takes one off.
LEMMA MountsNoNew ==
  ASSUME MntInv, NEW f \in Target, state[f] = "unmounted", NEW t \in Thread,
         Unmount(t) \/ \E g \in Target : Mount(t, g) \/ MountFails(t, g)
  PROVE  Users(f)' \subseteq Users(f)
<1>t. /\ TypeOK /\ list \in [Namespace -> Seq(Fs)] /\ live \subseteq Namespace
      /\ ev \in [Thread -> Eval] /\ pc \in [Thread -> Stage] /\ where[t] \in Namespace
      /\ Target \subseteq Fs /\ home \in [Target -> Namespace]
  BY DEF MntInv, TypeOK, Fs
<1>d. \A u \in Thread : Disturbed(t)[u] = ev[u] \/ Disturbed(t)[u] = [ev[u] EXCEPT !.clean = FALSE]
  BY DEF Disturbed
<1>1. ASSUME NEW g \in Target, Mount(t, g) PROVE Users(f)' \subseteq Users(f)
  <2>1. /\ list' = [list EXCEPT ![where[t]] = Append(list[where[t]], g)] /\ g # f
        /\ UNCHANGED <<live, nulled>> /\ pc' = Woken /\ ev' = Disturbed(t)
        /\ home' = [home EXCEPT ![g] = where[t]]
    BY <1>1 DEF Mount
  <2>2. ASSUME NEW m \in Namespace, f \in Entries(m)' PROVE f \in Entries(m)
    <3>1. list[m] \in Seq(Fs) /\ Items(list'[m]) = Entries(m)' /\ Items(list[m]) = Entries(m)
      BY <1>t DEF Items, Entries
    <3>2. list'[m] = list[m] \/ list'[m] = Append(list[m], g)
      BY <1>t, <2>1
    <3>3. Items(list'[m]) \subseteq Items(list[m]) \cup {g}
      BY <1>t, <3>1, <3>2, AppendItems
    <3> QED BY <2>1, <2>2, <3>1, <3>3
  <2>3. Clones(f)' \subseteq Clones(f)
    <3>1. home'[f] = home[f]
      BY <1>t, <2>1
    <3> QED BY <1>t, <2>1, <2>2, <3>1, SameClones DEF Valid
  <2>4. ASSUME NEW u \in Thread PROVE NotEntering(f, u)
    <3>1. pc'[u] = pc[u] \/ (pc[u] = "wait" /\ pc'[u] = "out")
      BY <1>t, <2>1, WokenThreads
    <3> QED BY <1>d, <1>t, <2>1, <3>1, NotEnteringIf
  <2> QED BY <2>3, <2>4, NoNewIf
<1>2. ASSUME Unmount(t) PROVE Users(f)' \subseteq Users(f)
  <2>g. PICK g : g = ev[t].at
    OBVIOUS
  <2>1. /\ list' = [list EXCEPT ![home[g]] = Without(list[home[g]], g)] /\ g \in Target
        /\ UNCHANGED <<live, nulled, home>> /\ ev' = Disturbed(t)
        /\ pc[t] = "walk" /\ pc' = [pc EXCEPT ![t] = "marked"]
    BY <1>2, <2>g DEF Unmount
  <2>2. ASSUME NEW m \in Namespace, f \in Entries(m)' PROVE f \in Entries(m)
    <3>1. list[m] \in Seq(Fs) /\ Items(list'[m]) = Entries(m)' /\ Items(list[m]) = Entries(m)
      BY <1>t DEF Items, Entries
    <3>2. list'[m] = list[m] \/ list'[m] = Without(list[m], g)
      BY <1>t, <2>1
    <3>3. Items(list'[m]) \subseteq Items(list[m])
      BY <3>1, <3>2, WithoutItems
    <3> QED BY <2>2, <3>1, <3>3
  <2>3. Clones(f)' \subseteq Clones(f)
    BY <1>t, <2>1, <2>2, SameClones DEF Valid
  <2>4. ASSUME NEW u \in Thread PROVE NotEntering(f, u)
    <3>1. CASE u = t
      <4>1. ev'[t] = ev[t] /\ Inside(t)
        BY <2>1 DEF Disturbed, Inside
      <4> QED BY <3>1, <4>1 DEF NotEntering
    <3>2. CASE u # t
      <4>1. pc'[u] = pc[u]
        BY <1>t, <2>1, <3>2
      <4> QED BY <1>d, <1>t, <2>1, <4>1, NotEnteringIf
    <3> QED BY <3>1, <3>2
  <2> QED BY <2>3, <2>4, NoNewIf
<1>3. ASSUME NEW g \in Target, MountFails(t, g) PROVE Users(f)' \subseteq Users(f)
  <2>1. UNCHANGED <<live, list, nulled, home>> /\ pc' = Woken /\ ev' = Disturbed(t)
    BY <1>3 DEF MountFails, spaces
  <2>2. ASSUME NEW u \in Thread PROVE NotEntering(f, u)
    <3>1. pc'[u] = pc[u] \/ (pc[u] = "wait" /\ pc'[u] = "out")
      BY <1>t, <2>1, WokenThreads
    <3> QED BY <1>d, <1>t, <2>1, <3>1, NotEnteringIf
  <2> QED BY <2>1, <2>2, EvalClones, NoNewIf
<1> QED BY <1>1, <1>2, <1>3

\* An evaluation obtains only locations of file systems that are mounted when it
\* starts, also when they were on the list before.
LEMMA EvalNoNew ==
  ASSUME MntInv, NEW f \in Target, state[f] = "unmounted", NEW t \in Thread,
         \/ \E path \in Path, op \in {"open", "parent", "unmount"} : EvalBegin(t, path, op)
         \/ EvalRoot(t) \/ EvalCurrent(t) \/ EvalNowhere(t) \/ EvalStart(t)
         \/ EvalEnd(t) \/ UnmountRefused(t)
  PROVE  Users(f)' \subseteq Users(f)
<1>t. TypeOK /\ ev \in [Thread -> Eval] /\ pc \in [Thread -> Stage] /\ Evaluating(t)
      /\ ev[t] \in Eval /\ f # Nowhere
  BY NowhereUnused DEF MntInv, TypeOK
<1>d. \A u \in Thread : Disturbed(t)[u] = ev[u] \/ Disturbed(t)[u] = [ev[u] EXCEPT !.clean = FALSE]
  BY DEF Disturbed
<1>w. \A u \in Thread : Woken[u] = pc[u] \/ (pc[u] = "wait" /\ Woken[u] = "out")
  BY <1>t, WokenThreads
<1>1. UNCHANGED <<live, list, nulled, home>>
  BY DEF EvalBegin, EvalRoot, EvalCurrent, EvalNowhere, EvalStart, EvalEnd, UnmountRefused,
         spaces, systems
<1>2. ASSUME NEW u \in Thread, u # t PROVE NotEntering(f, u)
  <2>1. ev'[u] = ev[u] \/ ev'[u] = [ev[u] EXCEPT !.clean = FALSE]
    <3>1. CASE \E path \in Path, op \in {"open", "parent", "unmount"} : EvalBegin(t, path, op)
      <4>1. \E b : ev' = [ev EXCEPT ![t] = b] \/ ev' = [Disturbed(t) EXCEPT ![t] = b]
        BY <3>1, Zenon DEF EvalBegin
      <4> QED BY <1>2, <1>d, <1>t, <4>1 DEF Disturbed
    <3>2. CASE EvalRoot(t) \/ EvalCurrent(t) \/ EvalEnd(t)
      <4>1. \E b : ev' = [Disturbed(t) EXCEPT ![t] = b]
        BY <3>2 DEF EvalRoot, EvalCurrent, EvalEnd
      <4> QED BY <1>2, <1>d, <4>1 DEF Disturbed
    <3>3. CASE EvalNowhere(t) \/ EvalStart(t)
      <4>1. \E b : ev' = [ev EXCEPT ![t] = b]
        BY <3>3 DEF EvalNowhere, EvalStart
      <4> QED BY <1>2, <1>t, <4>1
    <3>4. CASE UnmountRefused(t)
      BY <1>d, <3>4 DEF UnmountRefused
    <3> QED BY <3>1, <3>2, <3>3, <3>4
  <2>2. pc'[u] = pc[u] \/ (pc[u] = "wait" /\ pc'[u] = "out")
    <3>1. \E s : pc' = [pc EXCEPT ![t] = s] \/ pc' = [Woken EXCEPT ![t] = s]
      BY DEF EvalBegin, EvalRoot, EvalCurrent, EvalNowhere, EvalStart, EvalEnd, UnmountRefused
    <3> QED BY <1>2, <1>t, <1>w, <3>1 DEF Woken
  <2> QED BY <1>t, <2>1, <2>2, NotEnteringIf
<1>3. NotEntering(f, t)
  <2>1. CASE \E path \in Path, op \in {"open", "parent", "unmount"} : EvalBegin(t, path, op)
    BY <1>t, <2>1 DEF EvalBegin, NotEntering, Inside
  <2>2. CASE EvalRoot(t) \/ EvalCurrent(t)
    BY <1>t, <2>2 DEF EvalRoot, EvalCurrent, NotEntering, Inside
  <2>3. CASE EvalEnd(t)
    <3>1. pc'[t] \in {"wait", "out"}
      BY <2>3 DEF EvalEnd, Woken
    <3> QED BY <3>1 DEF NotEntering, Inside
  <2>4. CASE EvalNowhere(t)
    <3>1. ev[t].rootloc = Nowhere /\ ev[t].at = Nowhere
      BY <1>t, <2>4 DEF EvalNowhere, Evaluating, Early
    <3>2. ev'[t] = [ev[t] EXCEPT !.root = Nowhere, !.current = Nowhere]
      BY <1>t, <2>4 DEF EvalNowhere
    <3>3. ev'[t].rootloc = Nowhere /\ ev'[t].at = Nowhere
      BY <1>t, <3>1, <3>2 DEF Eval
    <3> QED BY <1>t, <3>3 DEF NotEntering
  <2>5. CASE EvalStart(t)
    <3>f. PICK from : from = IF ev[t].root = Nowhere THEN RootFs ELSE ev[t].root
      OBVIOUS
    <3>r. PICK root : root = Obtained(from)
      OBVIOUS
    <3>w. PICK w : w = IF root # Nowhere THEN Walk(root, Effective(t))
                       ELSE [fs |-> Nowhere, spot |-> NoPath, left |-> Nowhere]
      OBVIOUS
    <3>1. ev' = [ev EXCEPT ![t].rootloc = root, ![t].at = w.fs, ![t].spot = w.spot,
                           ![t].root = Nowhere, ![t].current = Nowhere]
      BY <2>5, <3>f, <3>r, <3>w DEF EvalStart
    <3>2. ev'[t].rootloc = root /\ ev'[t].at = w.fs
      BY <1>t, <3>1 DEF Eval
    <3>3. from \in Fs /\ pc[t] = "start"
      BY <1>t, <2>5, <3>f DEF Eval, Place, Fs, EvalStart
    <3>4. Started(t, root, w)
      BY <3>3, <3>r, <3>w, StartedPlaces
    <3>5. f # root /\ f # w.fs
      BY <1>t, <3>4 DEF Started
    <3> QED BY <3>2, <3>5 DEF NotEntering
  <2>6. CASE UnmountRefused(t)
    <3>1. Inside(t)
      BY <2>6 DEF UnmountRefused, Inside
    <3>2. ev'[t] = ev[t]
      BY <2>6 DEF UnmountRefused, Disturbed
    <3> QED BY <3>1, <3>2 DEF NotEntering
  <2> QED BY <2>1, <2>2, <2>3, <2>4, <2>5, <2>6
<1>4. Clones(f)' \subseteq Clones(f)
  BY <1>1, EvalClones
<1> QED BY <1>2, <1>3, <1>4, NoNewIf

\* A file system that was marked as unmounted gets no new user, in any step.
THEOREM MntNoNewUsers ==
  ASSUME ~Allowed("stray_unmount") PROVE Spec => NoNewUsers
<1>1. ASSUME MntInv, Next, NEW f \in Target, state[f] = "unmounted"
      PROVE  Users(f)' \subseteq Users(f)
  <2>1. CASE \/ \E n \in Child : NsCreate(n) \/ NsDelete(n)
             \/ \E n \in Child, p \in Namespace : NsInherit(n, p)
             \/ \E t \in Thread, n \in Namespace : Move(t, n)
    BY <1>1, <2>1, SpacesNoNew
  <2>2. CASE \E t \in Thread : Unmount(t) \/ \E g \in Target : Mount(t, g) \/ MountFails(t, g)
    BY <1>1, <2>2, MountsNoNew
  <2>3. CASE \E t \in Thread :
               \/ \E path \in Path, op \in {"open", "parent", "unmount"} :
                    EvalBegin(t, path, op)
               \/ EvalRoot(t) \/ EvalCurrent(t) \/ EvalNowhere(t) \/ EvalStart(t)
               \/ EvalEnd(t) \/ UnmountRefused(t)
    BY <1>1, <2>3, EvalNoNew
  <2> QED BY <1>1, <2>1, <2>2, <2>3 DEF Next
<1>2. MntInv /\ [Next]_vars =>
        [\A f \in Target : state[f] = "unmounted" => Users(f)' \subseteq Users(f)]_vars
  BY <1>1
<1> QED BY <1>2, MntInvariant, PTL DEF Spec, NoNewUsers
=============================================================================
