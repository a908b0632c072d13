---------------------------- MODULE LibraryProofs ----------------------------
(***************************************************************************)
(* Lemmas about the operators of Library, for any names, paths and trees:  *)
(* what Kept keeps, how prefixes of paths compare, what normalisation      *)
(* makes of a requested path, and what a directory shows.                  *)
(*                                                                         *)
(* Induction over numbers is done by their order: a set of numbers that is *)
(* not empty has a least element (Least, First).                           *)
(***************************************************************************)
EXTENDS Library, SequenceTheorems, WellFoundedInduction, TLAPS

(* A path none of whose names is hidden.                                   *)
Visible(path) == path \in Seq(Names \ Hidden)

-----------------------------------------------------------------------------
(* Numbers, and what Kept keeps *)

(* A set of numbers has a least element.                                   *)
LEMMA Least == ASSUME NEW T \in SUBSET Nat, T # {} PROVE \E n \in T : \A m \in T : n <= m
<1> DEFINE R == OpToRel(<, Nat)
<1>1. IsWellFoundedOn(R, Nat)
  BY NatLessThanWellFounded
<1> HIDE DEF R
<1>2. \E n \in T : \A m \in T : ~ (<<m, n>> \in R)
  BY <1>1, WFMin
<1>4. R = {ss \in Nat \X Nat : ss[1] < ss[2]}
  BY Zenon DEF R, OpToRel
<1>3. \A m, n \in Nat : m < n => <<m, n>> \in R
  <2> SUFFICES ASSUME NEW m \in Nat, NEW n \in Nat, m < n PROVE <<m, n>> \in R
    OBVIOUS
  <2>1. <<m, n>> \in Nat \X Nat /\ <<m, n>>[1] = m /\ <<m, n>>[2] = n
    OBVIOUS
  <2>2. <<m, n>>[1] < <<m, n>>[2]
    BY <2>1
  <2>3. \A ss \in Nat \X Nat : ss[1] < ss[2] => ss \in R
    BY <1>4, Zenon
  <2> HIDE DEF R
  <2> QED BY <2>1, <2>2, <2>3, Zenon
<1>5. \E n \in T : \A m \in T : ~ (m < n)
  BY <1>2, <1>3, Zenon
<1> QED BY <1>5

(* What fails for some number fails first for zero or for a number whose   *)
(* predecessor does not fail.                                              *)
LEMMA First ==
    ASSUME NEW N \in Nat, NEW T \in SUBSET (0..N), T # {}
    PROVE  0 \in T \/ \E n \in 1..N : n \in T /\ n - 1 \notin T
<1>1. PICK n \in T : \A m \in T : n <= m
  BY Least
<1>2. n - 1 \notin T
  BY <1>1
<1> QED BY <1>1, <1>2

(* The recursive function that Kept applies.                               *)
Picks(f, s, S, n) ==
    f = [k \in 0..n |-> IF k = 0 THEN <<>>
                        ELSE IF s[k] \in S THEN Append(f[k - 1], s[k]) ELSE f[k - 1]]

(* Kept is the last value of that function.                                *)
LEMMA KeptDef ==
    ASSUME NEW s, NEW S PROVE Kept(s, S) = (CHOOSE f : Picks(f, s, S, Len(s)))[Len(s)]
  BY DEF Kept, Picks

(* Such a function on one more position.                                   *)
LEMMA PicksOn ==
    ASSUME NEW s, NEW S, NEW n \in Nat, n # 0, NEW f, Picks(f, s, S, n - 1)
    PROVE  \E g : Picks(g, s, S, n)
<1> DEFINE g == [k \in 0..n |-> IF k = n THEN (IF s[n] \in S THEN Append(f[n - 1], s[n]) ELSE f[n - 1])
                                ELSE f[k]]
           h == [k \in 0..n |-> IF k = 0 THEN <<>>
                                ELSE IF s[k] \in S THEN Append(g[k - 1], s[k]) ELSE g[k - 1]]
<1>1. ASSUME NEW k \in 0..n PROVE g[k] = h[k]
  <2>1. CASE k = 0
    <3>1. f[0] = <<>>
      BY DEF Picks
    <3> QED BY <2>1, <3>1
  <2>2. CASE k # 0
    <3>1. k - 1 \in 0..(n - 1) /\ k - 1 \in 0..n /\ k - 1 # n
      BY <2>2
    <3>2. g[k - 1] = f[k - 1]
      BY <3>1
    <3>3. CASE k = n
      BY <2>2, <3>2, <3>3
    <3>4. CASE k # n
      <4>1. k \in 0..(n - 1)
        BY <3>4
      <4>2. f[k] = IF s[k] \in S THEN Append(f[k - 1], s[k]) ELSE f[k - 1]
        BY <4>1, <2>2 DEF Picks
      <4> QED BY <2>2, <3>2, <3>4, <4>2
    <3> QED BY <3>3, <3>4
  <2> QED BY <2>1, <2>2
<1>2. g = h
  BY <1>1
<1> HIDE DEF g
<1>3. Picks(g, s, S, n)
  BY <1>2 DEF Picks
<1> QED BY <1>3

(* There is one on all positions: the first without one has a predecessor. *)
LEMMA KeptPicks ==
    ASSUME NEW s, NEW S, Len(s) \in Nat
    PROVE  \E f : Picks(f, s, S, Len(s)) /\ Kept(s, S) = f[Len(s)]
<1> DEFINE T == {n \in 0..Len(s) : ~ \E f : Picks(f, s, S, n)}
<1>1. 0 \notin T
  <2> DEFINE f == [k \in 0..0 |-> <<>>]
  <2>1. Picks(f, s, S, 0)
    BY DEF Picks
  <2> HIDE DEF f
  <2> QED BY <2>1
<1>2. ASSUME NEW n \in 1..Len(s), n - 1 \notin T PROVE n \notin T
  <2>1. n \in Nat /\ n # 0 /\ n - 1 \in 0..Len(s)
    OBVIOUS
  <2>2. PICK f : Picks(f, s, S, n - 1)
    BY <1>2, <2>1
  <2> QED BY <2>1, <2>2, PicksOn
<1>3. T = {}
  <2>1. T \in SUBSET (0..Len(s))
    OBVIOUS
  <2> HIDE DEF T
  <2> QED BY <1>1, <1>2, <2>1, First
<1>4. \E f : Picks(f, s, S, Len(s))
  <2>1. Len(s) \in 0..Len(s)
    OBVIOUS
  <2> QED BY <1>3, <2>1
<1> DEFINE P(f) == Picks(f, s, S, Len(s))
<1>5. P(CHOOSE f : P(f))
  BY <1>4, Zenon
<1> QED BY <1>5, KeptDef, Zenon

(* What is picked from the first k elements t of s.                        *)
Picked(t, s, S, k) ==
    /\ \A i \in DOMAIN t : t[i] \in S /\ \E j \in 1..k : t[i] = s[j]
    /\ \A j \in 1..k : s[j] \in S => \E i \in DOMAIN t : t[i] = s[j]
    /\ \A i, l \in DOMAIN t : i < l => \E j, m \in 1..k : j < m /\ t[i] = s[j] /\ t[l] = s[m]
    /\ (\A j \in 1..k : s[j] \in S) => Len(t) = k /\ \A j \in 1..k : t[j] = s[j]

(* What is kept of a sequence, and of one element more.                    *)
LEMMA PickedOn ==
    ASSUME NEW D, NEW s \in Seq(D), NEW S, NEW k \in 1..Len(s), NEW t \in Seq(D), Picked(t, s, S, k - 1)
    PROVE  LET u == IF s[k] \in S THEN Append(t, s[k]) ELSE t IN u \in Seq(D) /\ Picked(u, s, S, k)
<1>1. k - 1 \in Nat /\ (\A j \in 1..(k - 1) : j \in 1..k /\ j < k) /\ (\A j \in 1..k : j = k \/ j \in 1..(k - 1))
      /\ k \in 1..k
  OBVIOUS
<1>2. CASE s[k] \notin S
  <2>1. \A i \in DOMAIN t : t[i] \in S /\ \E j \in 1..k : t[i] = s[j]
    BY <1>1 DEF Picked
  <2>2. \A j \in 1..k : s[j] \in S => \E i \in DOMAIN t : t[i] = s[j]
    BY <1>1, <1>2 DEF Picked
  <2>3. \A i, l \in DOMAIN t : i < l => \E j, m \in 1..k : j < m /\ t[i] = s[j] /\ t[l] = s[m]
    BY <1>1 DEF Picked
  <2>4. ~ \A j \in 1..k : s[j] \in S
    BY <1>1, <1>2
  <2> QED BY <1>2, <2>1, <2>2, <2>3, <2>4 DEF Picked
<1>3. CASE s[k] \in S
  <2> DEFINE u == Append(t, s[k])
             n == Len(t)
  <2>1. /\ n \in Nat /\ s[k] \in D /\ u \in Seq(D) /\ Len(u) = n + 1 /\ DOMAIN u = 1..(n + 1) /\ DOMAIN t = 1..n
        /\ u[n + 1] = s[k] /\ \A i \in 1..n : u[i] = t[i]
    OBVIOUS
  <2>2. \A i \in 1..(n + 1) : i \in 1..n \/ i = n + 1
    BY <2>1
  <2>3. \A i \in 1..n : i \in 1..(n + 1)
    BY <2>1
  <2> HIDE DEF u, n
  <2>4. \A i \in DOMAIN u : u[i] \in S /\ \E j \in 1..k : u[i] = s[j]
    BY <1>1, <1>3, <2>1, <2>2 DEF Picked
  <2>5. \A j \in 1..k : s[j] \in S => \E i \in DOMAIN u : u[i] = s[j]
    <3> SUFFICES ASSUME NEW j \in 1..k, s[j] \in S PROVE \E i \in DOMAIN u : u[i] = s[j]
      OBVIOUS
    <3>1. CASE j = k
      <4>1. n + 1 \in DOMAIN u
        BY <2>1
      <4> QED BY <4>1, <3>1, <2>1
    <3>2. CASE j \in 1..(k - 1)
      <4>1. PICK i \in DOMAIN t : t[i] = s[j]
        BY <3>2 DEF Picked
      <4> QED BY <4>1, <2>1, <2>3
    <3> QED BY <1>1, <3>1, <3>2
  <2>6. \A i, l \in DOMAIN u : i < l => \E j, m \in 1..k : j < m /\ u[i] = s[j] /\ u[l] = s[m]
    <3> SUFFICES ASSUME NEW i \in DOMAIN u, NEW l \in DOMAIN u, i < l
                 PROVE \E j, m \in 1..k : j < m /\ u[i] = s[j] /\ u[l] = s[m]
      OBVIOUS
    <3>1. i \in 1..n
      BY <2>1
    <3>2. CASE l \in 1..n
      <4>0. i \in DOMAIN t /\ l \in DOMAIN t
        BY <2>1, <3>1, <3>2
      <4>1. PICK j \in 1..(k - 1), m \in 1..(k - 1) : j < m /\ t[i] = s[j] /\ t[l] = s[m]
        BY <4>0 DEF Picked
      <4> QED BY <4>1, <1>1, <2>1, <3>1, <3>2
    <3>3. CASE l = n + 1
      <4>1. PICK j \in 1..(k - 1) : t[i] = s[j]
        BY <2>1, <3>1 DEF Picked
      <4>2. j \in 1..k /\ j < k /\ u[i] = s[j] /\ u[l] = s[k]
        BY <4>1, <1>1, <2>1, <3>1, <3>3
      <4> QED BY <4>2, <1>1
    <3> QED BY <2>1, <2>2, <3>2, <3>3
  <2>7. ASSUME \A j \in 1..k : s[j] \in S PROVE Len(u) = k /\ \A j \in 1..k : u[j] = s[j]
    <3>1. n = k - 1 /\ \A j \in 1..(k - 1) : t[j] = s[j]
      BY <1>1, <2>7, <2>1 DEF Picked, n
    <3>2. n + 1 = k
      BY <3>1
    <3>3. \A j \in 1..k : u[j] = s[j]
      <4> SUFFICES ASSUME NEW j \in 1..k PROVE u[j] = s[j]
        OBVIOUS
      <4>1. CASE j = k
        BY <4>1, <2>1, <3>2
      <4>2. CASE j \in 1..(k - 1)
        BY <4>2, <2>1, <3>1
      <4> QED BY <4>1, <4>2, <1>1
    <3> QED BY <3>2, <3>3, <2>1
  <2>8. Picked(u, s, S, k)
    BY <2>4, <2>5, <2>6, <2>7 DEF Picked
  <2> QED BY <1>3, <2>1, <2>8 DEF u
<1> QED BY <1>2, <1>3

(* What Kept returns: the elements in the set, in their order.             *)
LEMMA KeptIs ==
    ASSUME NEW D, NEW s \in Seq(D), NEW S
    PROVE  Kept(s, S) \in Seq(D) /\ Picked(Kept(s, S), s, S, Len(s))
<1>0. Len(s) \in Nat
  OBVIOUS
<1>1. PICK f : Picks(f, s, S, Len(s)) /\ Kept(s, S) = f[Len(s)]
  BY <1>0, KeptPicks
<1> DEFINE N == Len(s)
           T == {k \in 0..N : ~ (f[k] \in Seq(D) /\ Picked(f[k], s, S, k))}
<1>2. 0 \notin T
  <2>1. f[0] = <<>>
    BY <1>0, <1>1 DEF Picks
  <2>2. f[0] \in Seq(D) /\ DOMAIN f[0] = {} /\ Len(f[0]) = 0 /\ \A j \in 1..0 : FALSE
    BY <2>1
  <2>3. Picked(f[0], s, S, 0)
    BY <2>2 DEF Picked
  <2> QED BY <2>2, <2>3
<1>3. ASSUME NEW k \in 1..N, k - 1 \notin T PROVE k \notin T
  <2>1. f[k] = IF s[k] \in S THEN Append(f[k - 1], s[k]) ELSE f[k - 1]
    <3>1. k \in 0..Len(s) /\ k # 0
      BY <1>0
    <3>2. \A m \in 0..Len(s) : f[m] = IF m = 0 THEN <<>>
                                  ELSE IF s[m] \in S THEN Append(f[m - 1], s[m]) ELSE f[m - 1]
      BY <1>1 DEF Picks
    <3> QED BY <3>1, <3>2
  <2>2. k - 1 \in 0..N
    BY <1>0
  <2>3. f[k - 1] \in Seq(D) /\ Picked(f[k - 1], s, S, k - 1)
    BY <1>3, <2>2
  <2>4. f[k] \in Seq(D) /\ Picked(f[k], s, S, k)
    BY <2>1, <2>3, PickedOn
  <2> QED BY <2>4
<1>4. T = {}
  <2>1. T \in SUBSET (0..N) /\ N \in Nat
    BY <1>0
  <2> HIDE DEF T, N
  <2> QED BY <1>2, <1>3, <2>1, First
<1>5. N \in 0..N
  BY <1>0
<1> QED BY <1>1, <1>4, <1>5

-----------------------------------------------------------------------------
(* Prefixes of paths *)

(* Prefixes of a path.                                                     *)
LEMMA PrefixIs ==
    ASSUME NEW D, NEW p \in Seq(D), NEW k \in 0..Len(p)
    PROVE  /\ Prefix(p, k) \in Seq(D) /\ Len(Prefix(p, k)) = k
           /\ \A i \in 1..k : Prefix(p, k)[i] = p[i]
<1>1. Len(p) \in Nat /\ k \in Int /\ \A i \in 1..k : p[i] \in D
  OBVIOUS
<1>2. /\ SubSeq(p, 1, k) \in Seq(D) /\ Len(SubSeq(p, 1, k)) = IF 1 <= k THEN k - 1 + 1 ELSE 0
      /\ \A i \in 1..(k - 1 + 1) : SubSeq(p, 1, k)[i] = p[1 + i - 1]
  BY <1>1, SubSeqProperties
<1>3. Len(SubSeq(p, 1, k)) = k
  BY <1>1, <1>2
<1>4. \A i \in 1..k : SubSeq(p, 1, k)[i] = p[i]
  <2> SUFFICES ASSUME NEW i \in 1..k PROVE SubSeq(p, 1, k)[i] = p[i]
    OBVIOUS
  <2>1. i \in 1..(k - 1 + 1) /\ 1 + i - 1 = i
    BY <1>1
  <2> QED BY <2>1, <1>2
<1> QED BY <1>2, <1>3, <1>4 DEF Prefix

(* Sequences are equal when they agree everywhere.                         *)
LEMMA SameSeq ==
    ASSUME NEW D, NEW p \in Seq(D), NEW q \in Seq(D), Len(p) = Len(q), \A i \in 1..Len(p) : p[i] = q[i]
    PROVE  p = q
  BY SeqEqual

LEMMA PrefixAll == ASSUME NEW D, NEW p \in Seq(D) PROVE Prefix(p, Len(p)) = p
<1>1. Len(p) \in 0..Len(p)
  OBVIOUS
<1>2. Prefix(p, Len(p)) \in Seq(D) /\ Len(Prefix(p, Len(p))) = Len(p)
      /\ \A i \in 1..Len(p) : Prefix(p, Len(p))[i] = p[i]
  BY <1>1, PrefixIs
<1> HIDE DEF Prefix
<1> QED BY <1>2, SameSeq

(* Paths with equal prefixes.                                              *)
LEMMA PrefixesEqual ==
    ASSUME NEW D, NEW p \in Seq(D), NEW q \in Seq(D), NEW k \in 0..Len(p), k <= Len(q),
           \A i \in 1..k : p[i] = q[i]
    PROVE  Prefix(p, k) = Prefix(q, k)
<1>1. k \in 0..Len(q)
  OBVIOUS
<1>2. Prefix(p, k) \in Seq(D) /\ Len(Prefix(p, k)) = k /\ \A i \in 1..k : Prefix(p, k)[i] = p[i]
  BY PrefixIs
<1>3. Prefix(q, k) \in Seq(D) /\ Len(Prefix(q, k)) = k /\ \A i \in 1..k : Prefix(q, k)[i] = q[i]
  BY <1>1, PrefixIs
<1>4. Len(Prefix(p, k)) = Len(Prefix(q, k)) /\ \A i \in 1..Len(Prefix(p, k)) : Prefix(p, k)[i] = Prefix(q, k)[i]
  BY <1>2, <1>3
<1> QED BY <1>2, <1>3, <1>4, SameSeq

LEMMA EqualPrefixes ==
    ASSUME NEW D, NEW p \in Seq(D), NEW q \in Seq(D), NEW k \in 0..Len(p), k <= Len(q),
           Prefix(p, k) = Prefix(q, k), NEW i \in 1..k
    PROVE  p[i] = q[i]
<1>1. k \in 0..Len(q)
  OBVIOUS
<1>2. \A j \in 1..k : Prefix(p, k)[j] = p[j]
  BY PrefixIs
<1>3. \A j \in 1..k : Prefix(q, k)[j] = q[j]
  BY <1>1, PrefixIs
<1> QED BY <1>2, <1>3

(* A prefix of a prefix.                                                   *)
LEMMA PrefixOfPrefix ==
    ASSUME NEW D, NEW p \in Seq(D), NEW k \in 0..Len(p), NEW j \in 0..k
    PROVE  Prefix(Prefix(p, k), j) = Prefix(p, j)
<1>1. Prefix(p, k) \in Seq(D) /\ Len(Prefix(p, k)) = k /\ \A i \in 1..k : Prefix(p, k)[i] = p[i]
  BY PrefixIs
<1>2. j \in 0..Len(Prefix(p, k)) /\ j <= Len(p) /\ \A i \in 1..j : i \in 1..k
  BY <1>1
<1>3. \A i \in 1..j : Prefix(p, k)[i] = p[i]
  BY <1>1, <1>2
<1> QED BY <1>1, <1>2, <1>3, PrefixesEqual

(* The path of a child.                                                    *)
LEMMA ChildIs ==
    ASSUME NEW D, NEW dir \in Seq(D), NEW name \in D
    PROVE  LET child == Append(dir, name) IN
           /\ child \in Seq(D) /\ Len(child) = Len(dir) + 1 /\ child # <<>> /\ Last(child) = name
           /\ child[Len(dir) + 1] = name
           /\ \A k \in 0..Len(dir) : Prefix(child, k) = Prefix(dir, k)
           /\ Prefix(child, Len(dir)) = dir /\ Below(child, dir)
<1> DEFINE child == Append(dir, name)
<1>1. /\ child \in Seq(D) /\ Len(child) = Len(dir) + 1 /\ child # <<>> /\ Len(dir) \in Nat
      /\ (\A i \in 1..Len(dir) : child[i] = dir[i]) /\ child[Len(dir) + 1] = name
  BY AppendProperties
<1> HIDE DEF child
<1>2. Last(child) = name
  BY <1>1 DEF Last
<1>3. ASSUME NEW k \in 0..Len(dir) PROVE Prefix(child, k) = Prefix(dir, k)
  <2>1. k \in 0..Len(child) /\ k <= Len(dir) /\ \A i \in 1..k : child[i] = dir[i]
    BY <1>1
  <2> QED BY <2>1, <1>1, PrefixesEqual
<1>4. Prefix(child, Len(dir)) = dir
  <2>1. Len(dir) \in 0..Len(dir)
    BY <1>1
  <2> QED BY <2>1, <1>3, PrefixAll
<1>5. Below(child, dir)
  BY <1>1, <1>4 DEF Below
<1> QED BY <1>1, <1>2, <1>3, <1>4, <1>5 DEF child

(* What is below what is below.                                            *)
LEMMA BelowTrans ==
    ASSUME NEW D, NEW p \in Seq(D), NEW d, NEW e, Len(d) \in Nat, Len(e) \in Nat, Below(p, d), Below(d, e)
    PROVE  Below(p, e)
<1>1. Len(e) < Len(d) /\ Len(d) < Len(p) /\ Prefix(p, Len(d)) = d /\ Prefix(d, Len(e)) = e /\ Len(p) \in Nat
  BY DEF Below
<1>2. Len(d) \in 0..Len(p) /\ Len(e) \in 0..Len(d) /\ Len(e) < Len(p)
  BY <1>1
<1>3. Prefix(Prefix(p, Len(d)), Len(e)) = Prefix(p, Len(e))
  BY <1>2, PrefixOfPrefix
<1> QED BY <1>1, <1>2, <1>3 DEF Below

(* The step from a directory towards what is below it.                     *)
LEMMA Towards ==
    ASSUME NEW D, NEW p \in Seq(D), NEW d \in Seq(D), Below(p, d)
    PROVE  LET name == p[Len(d) + 1] IN
           /\ name \in D /\ Len(d) + 1 \in 1..Len(p)
           /\ Append(d, name) = Prefix(p, Len(d) + 1)
           /\ p = Append(d, name) \/ Below(p, Append(d, name))
<1> DEFINE n == Len(d) + 1
           child == Append(d, p[n])
<1>1. Len(d) \in Nat /\ Len(p) \in Nat /\ Len(d) < Len(p) /\ Prefix(p, Len(d)) = d /\ Len(d) \in 0..Len(p)
  BY DEF Below
<1>2. n \in 1..Len(p) /\ n \in 0..Len(p) /\ p[n] \in D
  BY <1>1
<1>3. /\ child \in Seq(D) /\ Len(child) = n /\ child[n] = p[n]
      /\ \A i \in 1..Len(d) : child[i] = d[i]
  BY <1>2, AppendProperties
<1>4. \A i \in 1..Len(d) : d[i] = p[i]
  BY <1>1, PrefixIs
<1>5. \A i \in 1..n : i \in 1..Len(d) \/ i = n
  BY <1>1
<1>6. \A i \in 1..n : child[i] = p[i]
  BY <1>3, <1>4, <1>5
<1>7. Prefix(p, n) \in Seq(D) /\ Len(Prefix(p, n)) = n /\ \A i \in 1..n : Prefix(p, n)[i] = p[i]
  BY <1>2, PrefixIs
<1> HIDE DEF child, n
<1>8. child = Prefix(p, n)
  BY <1>3, <1>6, <1>7, SameSeq
<1>9. p = child \/ Below(p, child)
  <2>1. CASE n = Len(p)
    BY <2>1, <1>8, PrefixAll
  <2>2. CASE n # Len(p)
    <3>1. n < Len(p)
      BY <2>2, <1>2, <1>1
    <3> QED BY <3>1, <1>3, <1>8 DEF Below
  <2> QED BY <2>1, <2>2
<1> QED BY <1>2, <1>8, <1>9 DEF child, n

LEMMA PathsAreNames == LibraryPaths \subseteq Seq(Names)
  BY PathsAssumption

LEMMA VisibleNames == ASSUME NEW p, Visible(p) PROVE p \in Seq(Names) /\ \A k \in DOMAIN p : p[k] \notin Hidden
<1>1. p \in Seq(Names \ Hidden)
  BY DEF Visible
<1>2. Names \ Hidden \subseteq Names
  OBVIOUS
<1>3. p \in Seq(Names)
  BY <1>1, <1>2, SeqMonotonic
<1> QED BY <1>1, <1>3

LEMMA VisibleChild ==
    ASSUME NEW d, Visible(d), NEW n \in Names \ Hidden PROVE Visible(Append(d, n))
  BY DEF Visible

(* The tracks of a directory are visible paths below it.                   *)
LEMMA TracksUnderAre ==
    ASSUME NEW t, NEW dir, NEW p
    PROVE  p \in TracksUnder(t, dir) <=>
             /\ p \in LibraryPaths /\ p # <<>> /\ Below(p, dir) /\ t[p] = "file" /\ Last(p) \in Audio
             /\ \A k \in 0..(Len(p) - 1) : t[Prefix(p, k)] \in Directories
             /\ \A k \in DOMAIN p : p[k] \notin Hidden
  BY DEF TracksUnder

-----------------------------------------------------------------------------
(* The order of the names, and requested paths *)

LEMMA NamesAre == NameOrder \in Seq(Names) /\ \A n \in Names : \E i \in DOMAIN NameOrder : NameOrder[i] = n
  BY NamesAssumption DEF Names, ToSet

(* The rank of a name is its place.                                        *)
LEMMA RankIs == ASSUME NEW i \in DOMAIN NameOrder PROVE Rank(NameOrder[i]) = i
<1>1. \A a, b \in DOMAIN NameOrder : NameOrder[a] = NameOrder[b] => a = b
  BY NamesAssumption DEF IsInjective
<1>2. \E j \in DOMAIN NameOrder : NameOrder[j] = NameOrder[i]
  OBVIOUS
<1> QED BY <1>1, <1>2 DEF Rank

(* A trimmed path is made of the same kind of parts.                       *)
LEMMA TrimIs == ASSUME NEW raw \in Seq(Parts) PROVE Trim(raw) \in Seq(Parts)
<1>1. CASE raw = <<>> \/ Last(raw) \notin Names
  BY <1>1 DEF Trim
<1>2. CASE raw # <<>> /\ Last(raw) \in Names
  <2>1. Len(raw) \in 1..Len(raw) /\ Last(raw) = raw[Len(raw)]
    BY <1>2 DEF Last
  <2>2. Trimmed[raw[Len(raw)]] \in Parts
    BY <1>2, <2>1, NamesAssumption DEF Parts
  <2>3. Trim(raw) = [raw EXCEPT ![Len(raw)] = Trimmed[raw[Len(raw)]]]
    BY <1>2 DEF Trim
  <2> QED BY <2>1, <2>2, <2>3, ExceptSeq
<1> QED BY <1>1, <1>2

(* A path that is not refused is one of visible names.                     *)
LEMMA NormalizedIs ==
    ASSUME NEW raw \in Seq(Parts), ~ Refused(raw) PROVE Visible(Normalized(raw))
<1> DEFINE t == Trim(raw)
           p == Normalized(raw)
<1>1. t \in Seq(Parts)
  BY TrimIs
<1>2. p \in Seq(Parts) /\ Picked(p, t, Parts \ {DOT}, Len(t))
  BY <1>1, KeptIs DEF Normalized
<1>3. \A i \in DOMAIN t : t[i] \notin Hidden \cup {FOREIGN}
  BY DEF Refused
<1> HIDE DEF t, p
<1>4. ASSUME NEW i \in 1..Len(p) PROVE p[i] \in Names \ Hidden
  <2>1. i \in DOMAIN p
    BY <1>2
  <2>2. PICK j \in 1..Len(t) : p[i] = t[j]
    BY <1>2, <2>1 DEF Picked
  <2>3. p[i] \in Parts \ {DOT}
    BY <1>2, <2>1 DEF Picked
  <2>4. t[j] \notin Hidden \cup {FOREIGN}
    BY <1>1, <1>3
  <2> QED BY <2>2, <2>3, <2>4 DEF Parts
<1>5. p \in Seq(Names \ Hidden)
  BY <1>2, <1>4, IsASeq, ElementOfSeq
<1> QED BY <1>5 DEF Visible, p

(* A path of visible names that trimming leaves alone is taken as it is.   *)
LEMMA PlainIs ==
    ASSUME NEW path, Visible(path), Trim(path) = path
    PROVE  ~ Refused(path) /\ Normalized(path) = path
<1>1. path \in Seq(Parts) /\ \A i \in 1..Len(path) : path[i] \in Names \ Hidden
  <2>1. path \in Seq(Names \ Hidden)
    BY DEF Visible
  <2>2. \A i \in 1..Len(path) : path[i] \in Names \ Hidden
    BY <2>1
  <2>3. Names \ Hidden \subseteq Parts
    BY DEF Parts
  <2>4. path \in Seq(Parts)
    BY <2>1, <2>3, SeqMonotonic
  <2> QED BY <2>2, <2>4
<1>2. DOT \notin Names /\ FOREIGN \notin Names /\ DOMAIN path = 1..Len(path)
  BY <1>1, NamesAssumption
<1>3. ~ Refused(path)
  BY <1>1, <1>2 DEF Refused
<1> DEFINE p == Kept(path, Parts \ {DOT})
<1>4. p \in Seq(Parts) /\ Picked(p, path, Parts \ {DOT}, Len(path))
  BY <1>1, KeptIs
<1>5. \A j \in 1..Len(path) : path[j] \in Parts \ {DOT}
  BY <1>1, <1>2 DEF Parts
<1> HIDE DEF p
<1>6. Len(p) = Len(path) /\ \A j \in 1..Len(path) : p[j] = path[j]
  BY <1>4, <1>5 DEF Picked
<1>7. p = path
  BY <1>1, <1>4, <1>6, SameSeq
<1> QED BY <1>3, <1>7 DEF Normalized, p

-----------------------------------------------------------------------------
(* What a directory shows of a kind and with some names.                   *)
Child(path, dir, names, kinds, t) ==
    \E name \in names \ Hidden :
        path = Append(dir, name) /\ path \in LibraryPaths /\ t[path] \in kinds

(* The children of a directory: each of them, once, in the order of their  *)
(* names.                                                                  *)
LEMMA ChildrenAre ==
    ASSUME NEW t, NEW dir, NEW kinds, NEW names, names \subseteq Names
    PROVE  LET children == ChildrenOf(t, dir, kinds, names) IN
           /\ children \in Seq(LibraryPaths)
           /\ \A i \in DOMAIN children : Child(children[i], dir, names, kinds, t)
           /\ \A path : Child(path, dir, names, kinds, t) => \E i \in DOMAIN children : children[i] = path
           /\ \A i, j \in DOMAIN children : i < j =>
                 \E n, m \in Names : children[i] = Append(dir, n) /\ children[j] = Append(dir, m) /\ Rank(n) < Rank(m)
<1> DEFINE S == {name \in names \ Hidden : /\ Append(dir, name) \in LibraryPaths
                                           /\ t[Append(dir, name)] \in kinds}
           v == Kept(NameOrder, S)
           children == [i \in DOMAIN v |-> Append(dir, v[i])]
           N == Len(NameOrder)
<1>1. v \in Seq(Names) /\ Picked(v, NameOrder, S, N)
  BY NamesAre, KeptIs
<1>2. ChildrenOf(t, dir, kinds, names) = children
  BY DEF ChildrenOf
<1>3. N \in Nat /\ DOMAIN NameOrder = 1..N /\ \A i \in 1..N : NameOrder[i] \in Names
  BY NamesAre
<1>4. \A n \in S : n \in names \ Hidden /\ n \in Names /\ Append(dir, n) \in LibraryPaths /\ t[Append(dir, n)] \in kinds
  OBVIOUS
<1>5. \A n : n \in names \ Hidden /\ Append(dir, n) \in LibraryPaths /\ t[Append(dir, n)] \in kinds => n \in S
  OBVIOUS
<1> HIDE DEF S, v, N
<1>6. DOMAIN children = DOMAIN v /\ DOMAIN v = 1..Len(v) /\ Len(v) \in Nat
      /\ \A i \in DOMAIN v : children[i] = Append(dir, v[i])
  BY <1>1
<1> HIDE DEF children
<1>7. \A i \in DOMAIN v : v[i] \in S
  BY <1>1 DEF Picked
<1>8. children = [i \in 1..Len(v) |-> children[i]]
  BY <1>6 DEF children
<1>9. \A i \in DOMAIN children : children[i] \in LibraryPaths
  BY <1>4, <1>6, <1>7
<1>10. children \in Seq(LibraryPaths)
  <2>1. \A i \in 1..Len(v) : children[i] \in LibraryPaths
    BY <1>6, <1>9
  <2>2. [i \in 1..Len(v) |-> children[i]] \in Seq(LibraryPaths)
    BY <2>1, <1>6, IsASeq
  <2> QED BY <2>2, <1>8
<1>11. \A i \in DOMAIN children : Child(children[i], dir, names, kinds, t)
  BY <1>4, <1>6, <1>7 DEF Child
<1>12. ASSUME NEW path, Child(path, dir, names, kinds, t) PROVE \E i \in DOMAIN children : children[i] = path
  <2>1. PICK n \in names \ Hidden : path = Append(dir, n) /\ path \in LibraryPaths /\ t[path] \in kinds
    BY <1>12 DEF Child
  <2>2. n \in S
    BY <2>1, <1>5
  <2>3. PICK j \in 1..N : NameOrder[j] = n
    BY <1>3, NamesAre
  <2>4. PICK i \in DOMAIN v : v[i] = NameOrder[j]
    BY <1>1, <2>2, <2>3 DEF Picked
  <2> QED BY <2>1, <2>3, <2>4, <1>6
<1>13. ASSUME NEW i \in DOMAIN children, NEW j \in DOMAIN children, i < j
       PROVE  \E n, m \in Names : children[i] = Append(dir, n) /\ children[j] = Append(dir, m) /\ Rank(n) < Rank(m)
  <2>1. PICK k \in 1..N, l \in 1..N : k < l /\ v[i] = NameOrder[k] /\ v[j] = NameOrder[l]
    BY <1>1, <1>6, <1>13 DEF Picked
  <2>2. Rank(v[i]) = k /\ Rank(v[j]) = l
    BY <2>1, <1>3, RankIs
  <2>3. v[i] \in Names /\ v[j] \in Names
    BY <1>3, <2>1
  <2> QED BY <1>6, <2>1, <2>2, <2>3
<1> QED BY <1>2, <1>10, <1>11, <1>12, <1>13

-----------------------------------------------------------------------------
(* One sequence after another *)

(* The elements of a concatenation.                                        *)
LEMMA ConcatIs ==
    ASSUME NEW D, NEW a \in Seq(D), NEW b \in Seq(D)
    PROVE  /\ a \o b \in Seq(D) /\ Len(a \o b) = Len(a) + Len(b)
           /\ \A i \in 1..Len(a) : (a \o b)[i] = a[i]
           /\ \A i \in 1..Len(b) : Len(a) + i \in 1..Len(a \o b) /\ (a \o b)[Len(a) + i] = b[i]
           /\ \A i \in DOMAIN (a \o b) : i \in DOMAIN a \/ \E j \in DOMAIN b : i = Len(a) + j
<1> DEFINE c == a \o b
<1>1. /\ c \in Seq(D) /\ Len(c) = Len(a) + Len(b) /\ Len(a) \in Nat /\ Len(b) \in Nat
      /\ \A i \in 1..Len(a) + Len(b) : c[i] = IF i <= Len(a) THEN a[i] ELSE b[i - Len(a)]
  BY ConcatProperties
<1> HIDE DEF c
<1>2. ASSUME NEW i \in 1..Len(a) PROVE c[i] = a[i]
  <2>1. i \in 1..Len(a) + Len(b) /\ i <= Len(a)
    BY <1>1
  <2> QED BY <1>1, <2>1
<1>3. ASSUME NEW i \in 1..Len(b) PROVE Len(a) + i \in 1..Len(c) /\ c[Len(a) + i] = b[i]
  <2>1. Len(a) + i \in 1..Len(a) + Len(b) /\ ~ (Len(a) + i <= Len(a)) /\ Len(a) + i - Len(a) = i
    BY <1>1
  <2> QED BY <1>1, <2>1
<1>4. ASSUME NEW i \in DOMAIN c PROVE i \in DOMAIN a \/ \E j \in DOMAIN b : i = Len(a) + j
  <2>1. i \in 1..(Len(a) + Len(b)) /\ DOMAIN a = 1..Len(a) /\ DOMAIN b = 1..Len(b)
    BY <1>1
  <2>2. CASE i <= Len(a)
    BY <2>1, <2>2, <1>1
  <2>3. CASE ~ (i <= Len(a))
    <3>1. i - Len(a) \in 1..Len(b) /\ i = Len(a) + (i - Len(a))
      BY <2>1, <2>3, <1>1
    <3> QED BY <2>1, <3>1
  <2> QED BY <2>2, <2>3
<1> QED BY <1>1, <1>2, <1>3, <1>4 DEF c

LEMMA ToSetConcat ==
    ASSUME NEW D, NEW a \in Seq(D), NEW b \in Seq(D) PROVE ToSet(a \o b) = ToSet(a) \cup ToSet(b)
<1> DEFINE c == a \o b
<1>1. /\ c \in Seq(D) /\ Len(c) = Len(a) + Len(b)
      /\ \A i \in 1..Len(a) : c[i] = a[i]
      /\ \A i \in 1..Len(b) : Len(a) + i \in 1..Len(c) /\ c[Len(a) + i] = b[i]
      /\ \A i \in DOMAIN c : i \in DOMAIN a \/ \E j \in DOMAIN b : i = Len(a) + j
  BY ConcatIs
<1>2. DOMAIN a = 1..Len(a) /\ DOMAIN b = 1..Len(b) /\ DOMAIN c = 1..Len(c) /\ Len(a) \in Nat /\ Len(b) \in Nat
  BY <1>1
<1> HIDE DEF c
<1>3. \A i \in 1..Len(a) : i \in 1..Len(c)
  BY <1>1, <1>2
<1>4. ASSUME NEW e \in ToSet(c) PROVE e \in ToSet(a) \cup ToSet(b)
  BY <1>1, <1>2 DEF ToSet
<1>5. ASSUME NEW e \in ToSet(a) PROVE e \in ToSet(c)
  BY <1>1, <1>2, <1>3 DEF ToSet
<1>6. ASSUME NEW e \in ToSet(b) PROVE e \in ToSet(c)
  <2>1. PICK i \in 1..Len(b) : e = b[i]
    BY <1>2 DEF ToSet
  <2>2. Len(a) + i \in DOMAIN c /\ c[Len(a) + i] = e
    BY <2>1, <1>1, <1>2
  <2> QED BY <2>2 DEF ToSet
<1> QED BY <1>4, <1>5, <1>6 DEF c
=============================================================================
