-------------------------- MODULE WorkspacesProofs --------------------------
(***************************************************************************)
(* Workspaces for any presses, any workspaces and any layout of the        *)
(* repositories.  The listing comes first: what the loops of order.go      *)
(* append is each group where it is shown, so that the sidebar has every   *)
(* workspace once and in order, whatever was opened, closed and moved.     *)
(* That a directory has one workspace rests on what a picker saw when it   *)
(* began to create: while no other does the same, what it saw stays true.  *)
(* That a key leads where it is meant to rests on what it decided for:     *)
(* while nothing changes herdr, that is what is next to the focus.         *)
(*                                                                         *)
(* What a recursion over a sequence yields is proved from the least place  *)
(* where it would not be so.                                               *)
(***************************************************************************)
EXTENDS Workspaces, FiniteSetTheorems, SequenceTheorems, TLAPS

\* A set of naturals has a least one, and a greatest when it is bounded.
LEMMA Least == ASSUME NEW T \in SUBSET Nat, T # {} PROVE \E m \in T : \A k \in T : m <= k
<1>1. PICK n \in T : TRUE
  OBVIOUS
<1> DEFINE S == 0 .. n
           Below == {0 .. m : m \in {k \in T : k <= n}}
<1>2. IsWellFoundedOn(StrictSubsetOrdering(S), SUBSET S)
  <2>1. n \in Int /\ 0 \in Int
    BY <1>1
  <2>2. IsFiniteSet(S)
    BY <2>1, FS_Interval
  <2>3. QED
    BY <2>2, FS_FiniteSubsetsOfFinite, FS_StrictSubsetOrderingWellFounded
<1>3. Below \subseteq SUBSET S /\ Below # {}
  BY <1>1
<1>4. PICK x \in Below : \A y \in Below : ~ (<<y, x>> \in StrictSubsetOrdering(S))
  BY <1>2, <1>3, WFMin
<1>5. PICK m \in T : m <= n /\ x = 0 .. m
  BY <1>4
<1>6. ASSUME NEW k \in T, k < m PROVE FALSE
  <2>1. 0 .. k \in Below
    BY <1>1, <1>5, <1>6
  <2>2. 0 .. k \subseteq 0 .. m /\ m \in 0 .. m /\ m \notin 0 .. k
    BY <1>5, <1>6
  <2>3. <<0 .. k, x>> \in StrictSubsetOrdering(S)
    BY <1>3, <1>4, <1>5, <2>1, <2>2 DEF StrictSubsetOrdering
  <2>4. QED
    BY <1>4, <2>1, <2>3
<1>7. QED
  BY <1>6

LEMMA MinIs == ASSUME NEW T \in SUBSET Nat, T # {}
               PROVE  Min(T) \in T /\ \A k \in T : Min(T) <= k
BY Least DEF Min

LEMMA MaxIs == ASSUME NEW T \in SUBSET Nat, T # {}, NEW top \in Nat, \A k \in T : k <= top
               PROVE  Max(T) \in T /\ \A k \in T : k <= Max(T)
<1> DEFINE U == {u \in Nat : \A k \in T : k <= u}
<1>1. top \in U
  OBVIOUS
<1>2. PICK m \in U : \A k \in U : m <= k
  BY <1>1, Least
<1>3. m \in T
  <2>1. CASE m = 0
    <3>1. PICK k \in T : TRUE
      OBVIOUS
    <3>2. k = 0
      BY <1>2, <2>1, <3>1
    <3>3. QED
      BY <2>1, <3>1, <3>2
  <2>2. CASE m # 0 /\ m \notin T
    <3>1. m - 1 \in Nat /\ \A k \in T : k <= m - 1
      BY <2>2, <1>2
    <3>2. QED
      BY <1>2, <3>1
  <2>3. QED
    BY <2>1, <2>2
<1>4. \E x \in T : \A y \in T : x >= y
  BY <1>2, <1>3
<1>5. Max(T) \in T /\ \A y \in T : Max(T) >= y
  BY <1>4 DEF Max
<1>6. QED
  BY <1>5

\* Each element of a concatenation stands where the list it is from does.
Placed(f, seqs, n) ==
    /\ \A i \in 1 .. n : \A j \in DOMAIN seqs[i] : \E k \in DOMAIN f : f[k] = seqs[i][j]
    /\ \A k \in DOMAIN f : \E i \in 1 .. n : \E j \in DOMAIN seqs[i] : f[k] = seqs[i][j]
    /\ \A k, l \in DOMAIN f : k < l =>
         \E i1, i2 \in 1 .. n : \E j1 \in DOMAIN seqs[i1], j2 \in DOMAIN seqs[i2] :
            f[k] = seqs[i1][j1] /\ f[l] = seqs[i2][j2] /\ (i1 < i2 \/ (i1 = i2 /\ j1 < j2))

\* With one list more it is still so, and so for all of them.
LEMMA PlacedGrows ==
    ASSUME NEW S, NEW seqs \in Seq(Seq(S)), NEW n \in Nat, n + 1 \in DOMAIN seqs,
           NEW f \in Seq(S), Placed(f, seqs, n)
    PROVE  Placed(f \o seqs[n + 1], seqs, n + 1)
<1> DEFINE s == seqs[n + 1]
           g == f \o s
<1>1. /\ s \in Seq(S) /\ Len(s) \in Nat /\ Len(f) \in Nat
      /\ DOMAIN s = 1 .. Len(s) /\ DOMAIN f = 1 .. Len(f)
      /\ 1 .. n + 1 = (1 .. n) \cup {n + 1}
  OBVIOUS
<1>2. /\ DOMAIN g = 1 .. Len(f) + Len(s)
      /\ \A k \in 1 .. Len(f) + Len(s) : g[k] = IF k <= Len(f) THEN f[k] ELSE s[k - Len(f)]
  <2>1. g \in Seq(S) /\ Len(g) = Len(f) + Len(s)
    BY <1>1, ConcatProperties
  <2>2. QED
    BY <1>1, <2>1, ConcatProperties
<1>3. \A j \in DOMAIN s : Len(f) + j \in DOMAIN g /\ g[Len(f) + j] = s[j]
  BY <1>1, <1>2
<1>4. \A k \in DOMAIN f : k \in DOMAIN g /\ g[k] = f[k]
  BY <1>1, <1>2
<1>5. \A k \in DOMAIN g : k \in DOMAIN f \/ (k - Len(f) \in DOMAIN s /\ g[k] = s[k - Len(f)] /\ k > Len(f))
  BY <1>1, <1>2
<1> HIDE DEF s, g
<1>6. \A i \in 1 .. n + 1 : \A j \in DOMAIN seqs[i] : \E k \in DOMAIN g : g[k] = seqs[i][j]
  <2>1. ASSUME NEW i \in 1 .. n, NEW j \in DOMAIN seqs[i] PROVE \E k \in DOMAIN g : g[k] = seqs[i][j]
    BY <1>4, <2>1 DEF Placed
  <2>2. QED
    BY <1>1, <1>3, <2>1 DEF s
<1>7. \A k \in DOMAIN g : \E i \in 1 .. n + 1 : \E j \in DOMAIN seqs[i] : g[k] = seqs[i][j]
  <2>1. ASSUME NEW k \in DOMAIN f PROVE \E i \in 1 .. n + 1 : \E j \in DOMAIN seqs[i] : g[k] = seqs[i][j]
    <3>1. PICK i \in 1 .. n : \E j \in DOMAIN seqs[i] : f[k] = seqs[i][j]
      BY <2>1 DEF Placed
    <3>2. QED
      BY <1>1, <1>4, <3>1
  <2>2. QED
    BY <1>1, <1>5, <2>1 DEF s
<1>8. ASSUME NEW k \in DOMAIN g, NEW l \in DOMAIN g, k < l
      PROVE  \E i1, i2 \in 1 .. n + 1 : \E j1 \in DOMAIN seqs[i1], j2 \in DOMAIN seqs[i2] :
                g[k] = seqs[i1][j1] /\ g[l] = seqs[i2][j2] /\ (i1 < i2 \/ (i1 = i2 /\ j1 < j2))
  <2>1. CASE l \in DOMAIN f
    <3>1. k \in DOMAIN f /\ g[k] = f[k] /\ g[l] = f[l]
      BY <1>1, <1>2, <1>4, <2>1, <1>8
    <3>2. PICK i1, i2 \in 1 .. n : \E j1 \in DOMAIN seqs[i1], j2 \in DOMAIN seqs[i2] :
            f[k] = seqs[i1][j1] /\ f[l] = seqs[i2][j2] /\ (i1 < i2 \/ (i1 = i2 /\ j1 < j2))
      BY <1>8, <2>1, <3>1 DEF Placed
    <3>3. QED
      BY <1>1, <3>1, <3>2
  <2>2. CASE k \in DOMAIN f /\ l \notin DOMAIN f
    <3>1. PICK i \in 1 .. n : \E j \in DOMAIN seqs[i] : f[k] = seqs[i][j]
      BY <2>2 DEF Placed
    <3>2. g[k] = f[k] /\ l - Len(f) \in DOMAIN seqs[n + 1] /\ g[l] = seqs[n + 1][l - Len(f)] /\ i < n + 1
      BY <1>4, <1>5, <2>2 DEF s
    <3>3. QED
      BY <1>1, <3>1, <3>2
  <2>3. CASE k \notin DOMAIN f /\ l \notin DOMAIN f
    <3>1. /\ k - Len(f) \in DOMAIN seqs[n + 1] /\ g[k] = seqs[n + 1][k - Len(f)]
          /\ l - Len(f) \in DOMAIN seqs[n + 1] /\ g[l] = seqs[n + 1][l - Len(f)]
          /\ k - Len(f) < l - Len(f)
      BY <1>1, <1>2, <1>5, <1>8, <2>3 DEF s
    <3>2. QED
      BY <1>1, <3>1
  <2>4. k \in DOMAIN f \/ l \notin DOMAIN f
    BY <1>1, <1>2, <1>8
  <2>5. QED
    BY <2>1, <2>2, <2>3, <2>4
<1>9. QED
  BY <1>6, <1>7, <1>8 DEF Placed, g, s

LEMMA Flattened ==
    ASSUME NEW S, NEW seqs \in Seq(Seq(S))
    PROVE  FlattenSeq(seqs) \in Seq(S) /\ Placed(FlattenSeq(seqs), seqs, Len(seqs))
<1>1. CASE Len(seqs) = 0
  <2>1. FlattenSeq(seqs) = <<>>
    BY <1>1 DEF FlattenSeq
  <2>2. QED
    BY <1>1, <2>1 DEF Placed
<1>2. CASE Len(seqs) # 0
  <2> DEFINE Builds(g, n) == g = [i \in 1 .. n |-> IF i = 1 THEN seqs[i] ELSE g[i - 1] \o seqs[i]]
             Bad == {n \in Nat : n <= Len(seqs) /\ n # 0 /\ ~ \E g : Builds(g, n)}
  <2>1. Len(seqs) \in Nat
    OBVIOUS
  <2>2. Bad = {}
    <3> HIDE DEF Builds
    <3> SUFFICES ASSUME Bad # {} PROVE FALSE
      OBVIOUS
    <3>1. PICK m \in Bad : \A k \in Bad : m <= k
      BY Least
    <3>2. CASE m = 1
      <4>1. Builds([i \in 1 .. 1 |-> seqs[1]], 1)
        BY DEF Builds
      <4>2. QED
        BY <3>1, <3>2, <4>1
    <3>3. CASE m # 1
      <4>1. m - 1 \in Nat /\ m - 1 <= Len(seqs) /\ m - 1 # 0 /\ m - 1 \notin Bad
        <5>1. m \in Nat /\ m <= Len(seqs) /\ m # 0
          BY <3>1
        <5>2. m - 1 \in Nat /\ ~ (m <= m - 1)
          BY <5>1
        <5> HIDE DEF Bad
        <5>3. QED
          BY <2>1, <3>1, <3>3, <5>1, <5>2
      <4>2. PICK g : Builds(g, m - 1)
        BY <4>1
      <4> DEFINE h == [i \in 1 .. m |-> IF i = m THEN g[m - 1] \o seqs[m] ELSE g[i]]
      <4>3. Builds(h, m)
        <5>1. m \in Nat /\ m > 1 /\ 1 .. m = (1 .. m - 1) \cup {m}
          BY <3>1, <3>3, <4>1
        <5>2. \A i \in 1 .. m - 1 : g[i] = IF i = 1 THEN seqs[i] ELSE g[i - 1] \o seqs[i]
          BY <4>2 DEF Builds
        <5>3. \A i \in 1 .. m : h[i] = IF i = 1 THEN seqs[i] ELSE h[i - 1] \o seqs[i]
          BY <5>1, <5>2
        <5>4. QED
          BY <5>3 DEF Builds
      <4>4. QED
        BY <3>1, <4>3
    <3>4. QED
      BY <3>2, <3>3
  <2>3. PICK g0 : Builds(g0, Len(seqs))
    <3> HIDE DEF Builds
    <3>1. QED
      BY <1>2, <2>1, <2>2
  <2> DEFINE flat == CHOOSE g : Builds(g, Len(seqs))
  <2>4. Builds(flat, Len(seqs)) /\ FlattenSeq(seqs) = flat[Len(seqs)]
    BY <1>2, <2>3 DEF FlattenSeq
  <2> HIDE DEF flat
  <2> DEFINE Wrong == {n \in Nat : n <= Len(seqs) /\ n # 0 /\ ~ (flat[n] \in Seq(S) /\ Placed(flat[n], seqs, n))}
  <2>5. Wrong = {}
    <3> SUFFICES ASSUME Wrong # {} PROVE FALSE
      OBVIOUS
    <3>1. PICK m \in Wrong : \A k \in Wrong : m <= k
      BY Least
    <3>2. CASE m = 1
      <4>1. flat[1] = seqs[1] /\ seqs[1] \in Seq(S)
        BY <2>1, <2>4, <3>1, <3>2
      <4>2. Placed(seqs[1], seqs, 1)
        BY <4>1 DEF Placed
      <4>3. QED
        BY <3>1, <3>2, <4>1, <4>2
    <3>3. CASE m # 1
      <4>1. m - 1 \in Nat /\ m - 1 <= Len(seqs) /\ m - 1 # 0 /\ m - 1 \notin Wrong /\ m \in 1 .. Len(seqs)
        BY <2>1, <3>1, <3>3
      <4>2. flat[m] = flat[m - 1] \o seqs[m]
        BY <2>4, <3>3, <4>1
      <4>3. flat[m - 1] \in Seq(S) /\ Placed(flat[m - 1], seqs, m - 1) /\ seqs[m] \in Seq(S)
        BY <4>1
      <4>4. (m - 1) + 1 = m /\ m \in DOMAIN seqs
        BY <4>1
      <4>5. Placed(flat[m - 1] \o seqs[m], seqs, m)
        BY <4>1, <4>3, <4>4, PlacedGrows
      <4>6. flat[m - 1] \o seqs[m] \in Seq(S)
        BY <4>3, ConcatProperties
      <4>7. QED
        BY <3>1, <4>2, <4>5, <4>6
    <3>4. QED
      BY <3>2, <3>3
  <2>6. flat[Len(seqs)] \in Seq(S) /\ Placed(flat[Len(seqs)], seqs, Len(seqs))
    BY <1>2, <2>1, <2>5
  <2>7. QED
    BY <2>4, <2>6
<1>3. QED
  BY <1>1, <1>2

\* What a sequence holds is a set it is over.
LEMMA HeldBySet ==
    ASSUME NEW S, NEW s \in Seq(S)
    PROVE  ToSet(s) \subseteq S /\ s \in Seq(ToSet(s))
BY DEF ToSet

\* A sequence with one element less, and with one more.
LEMMA RemoveAtIs ==
    ASSUME NEW S, NEW s \in Seq(S), NEW i \in DOMAIN s
    PROVE  /\ RemoveAt(s, i) \in Seq(S) /\ DOMAIN RemoveAt(s, i) = 1 .. Len(s) - 1
           /\ Len(RemoveAt(s, i)) = Len(s) - 1
           /\ \A k \in 1 .. Len(s) - 1 : RemoveAt(s, i)[k] = IF k < i THEN s[k] ELSE s[k + 1]
<1> DEFINE a == SubSeq(s, 1, i - 1)
           b == SubSeq(s, i + 1, Len(s))
<1>1. Len(s) \in Nat /\ i \in 1 .. Len(s) /\ \A k \in 1 .. Len(s) : s[k] \in S
  OBVIOUS
<1>2. a \in Seq(S) /\ Len(a) = i - 1 /\ \A k \in 1 .. i - 1 : a[k] = s[k]
  <2>1. i - 1 \in Int /\ \A k \in 1 .. i - 1 : s[k] \in S
    BY <1>1
  <2>2. QED
    BY <1>1, <2>1, SubSeqProperties
<1>3. b \in Seq(S) /\ Len(b) = Len(s) - i /\ \A k \in 1 .. Len(s) - i : b[k] = s[i + k]
  <2>1. i + 1 \in Int /\ Len(s) \in Int /\ \A k \in i + 1 .. Len(s) : s[k] \in S
    BY <1>1
  <2>2. QED
    BY <1>1, <2>1, SubSeqProperties
<1> HIDE DEF a, b
<1>4. a \o b \in Seq(S) /\ Len(a \o b) = Len(s) - 1
      /\ \A k \in 1 .. Len(s) - 1 : (a \o b)[k] = IF k <= i - 1 THEN a[k] ELSE b[k - (i - 1)]
  <2>1. /\ a \o b \in Seq(S) /\ Len(a \o b) = Len(a) + Len(b)
        /\ \A k \in 1 .. Len(a) + Len(b) : (a \o b)[k] = IF k <= Len(a) THEN a[k] ELSE b[k - Len(a)]
    BY <1>2, <1>3, ConcatProperties
  <2>2. Len(a) + Len(b) = Len(s) - 1
    BY <1>1, <1>2, <1>3
  <2>3. QED
    BY <1>2, <2>1, <2>2
<1>5. \A k \in 1 .. Len(s) - 1 : (a \o b)[k] = IF k < i THEN s[k] ELSE s[k + 1]
  <2>1. ASSUME NEW k \in 1 .. Len(s) - 1, k < i PROVE (a \o b)[k] = s[k]
    BY <1>1, <1>2, <1>4, <2>1
  <2>2. ASSUME NEW k \in 1 .. Len(s) - 1, ~ (k < i) PROVE (a \o b)[k] = s[k + 1]
    <3>1. k - (i - 1) \in 1 .. Len(s) - i /\ ~ (k <= i - 1) /\ i + (k - (i - 1)) = k + 1
      BY <1>1, <2>2
    <3>2. QED
      BY <1>3, <1>4, <3>1
  <2>3. QED
    BY <2>1, <2>2
<1>6. RemoveAt(s, i) = a \o b
  BY Zenon DEF RemoveAt, a, b
<1>7. QED
  BY <1>1, <1>4, <1>5, <1>6

LEMMA InsertAtIs ==
    ASSUME NEW S, NEW s \in Seq(S), NEW i \in 1 .. Len(s) + 1, NEW e \in S
    PROVE  /\ InsertAt(s, i, e) \in Seq(S) /\ DOMAIN InsertAt(s, i, e) = 1 .. Len(s) + 1
           /\ \A k \in 1 .. Len(s) + 1 :
                InsertAt(s, i, e)[k] = IF k < i THEN s[k] ELSE IF k = i THEN e ELSE s[k - 1]
<1> DEFINE a == SubSeq(s, 1, i - 1)
           b == SubSeq(s, i, Len(s))
<1>1. Len(s) \in Nat /\ i \in Nat /\ 1 <= i /\ i <= Len(s) + 1 /\ \A k \in 1 .. Len(s) : s[k] \in S
  OBVIOUS
<1>2. a \in Seq(S) /\ Len(a) = i - 1 /\ \A k \in 1 .. i - 1 : a[k] = s[k]
  <2>1. i - 1 \in Int /\ \A k \in 1 .. i - 1 : s[k] \in S
    BY <1>1
  <2>2. QED
    BY <1>1, <2>1, SubSeqProperties
<1>3. b \in Seq(S) /\ Len(b) = Len(s) - i + 1 /\ \A k \in 1 .. Len(s) - i + 1 : b[k] = s[i + k - 1]
  <2>1. i \in Int /\ Len(s) \in Int /\ \A k \in i .. Len(s) : s[k] \in S
    BY <1>1
  <2>2. QED
    BY <1>1, <2>1, SubSeqProperties
<1> DEFINE c == a \o <<e>>
<1>4. c \in Seq(S) /\ Len(c) = i /\ \A k \in 1 .. i : c[k] = IF k < i THEN s[k] ELSE e
  <2>1. <<e>> \in Seq(S) /\ Len(<<e>>) = 1 /\ <<e>>[1] = e
    OBVIOUS
  <2> HIDE DEF a
  <2>2. c \in Seq(S) /\ Len(c) = i /\ \A k \in 1 .. i : c[k] = IF k <= i - 1 THEN a[k] ELSE <<e>>[k - (i - 1)]
    BY <1>1, <1>2, <2>1, ConcatProperties
  <2>3. \A k \in 1 .. i : k < i \/ (k = i /\ k - (i - 1) = 1)
    BY <1>1
  <2>4. QED
    BY <1>1, <1>2, <2>1, <2>2, <2>3
<1> HIDE DEF a, b, c
<1>5. c \o b \in Seq(S) /\ Len(c \o b) = Len(s) + 1
      /\ \A k \in 1 .. Len(s) + 1 : (c \o b)[k] = IF k <= i THEN c[k] ELSE b[k - i]
  <2>1. /\ c \o b \in Seq(S) /\ Len(c \o b) = Len(c) + Len(b)
        /\ \A k \in 1 .. Len(c) + Len(b) : (c \o b)[k] = IF k <= Len(c) THEN c[k] ELSE b[k - Len(c)]
    BY <1>3, <1>4, ConcatProperties
  <2>2. Len(c) + Len(b) = Len(s) + 1
    BY <1>1, <1>3, <1>4
  <2>3. QED
    BY <1>4, <2>1, <2>2
<1>6. ASSUME NEW k \in 1 .. Len(s) + 1
      PROVE  (c \o b)[k] = IF k < i THEN s[k] ELSE IF k = i THEN e ELSE s[k - 1]
  <2>1. CASE k <= i
    BY <1>1, <1>4, <1>5, <2>1
  <2>2. CASE k > i
    <3>1. k - i \in 1 .. Len(s) - i + 1 /\ ~ (k <= i) /\ i + (k - i) - 1 = k - 1
      BY <1>1, <2>2
    <3>2. QED
      BY <1>1, <1>3, <1>5, <2>2, <3>1
  <2>3. k <= i \/ k > i
    BY <1>1
  <2>4. QED
    BY <2>1, <2>2, <2>3
<1>7. InsertAt(s, i, e) = c \o b
  BY Zenon DEF InsertAt, a, b, c
<1>8. QED
  BY <1>1, <1>5, <1>6, <1>7

Distinct(s) == \A i, j \in DOMAIN s : s[i] = s[j] => i = j

\* Closing takes one workspace from the listing, and the others keep their order.
LEMMA Closed ==
    ASSUME NEW S, NEW s \in Seq(S), Distinct(s), NEW i \in DOMAIN s
    PROVE  Distinct(RemoveAt(s, i)) /\ ToSet(RemoveAt(s, i)) = ToSet(s) \ {s[i]}
<1> DEFINE r == RemoveAt(s, i)
<1>1. Len(s) \in Nat /\ i \in 1 .. Len(s) /\ DOMAIN s = 1 .. Len(s)
  OBVIOUS
<1>2. DOMAIN r = 1 .. Len(s) - 1 /\ \A k \in 1 .. Len(s) - 1 : r[k] = IF k < i THEN s[k] ELSE s[k + 1]
  BY RemoveAtIs
<1> HIDE DEF r
<1>3. Distinct(r)
  <2>1. ASSUME NEW k \in DOMAIN r, NEW l \in DOMAIN r, r[k] = r[l] PROVE k = l
    <3> DEFINE from(n) == IF n < i THEN n ELSE n + 1
    <3>1. from(k) \in DOMAIN s /\ from(l) \in DOMAIN s /\ (from(k) = from(l) => k = l)
      BY <1>1, <1>2
    <3>2. r[k] = s[from(k)] /\ r[l] = s[from(l)]
      BY <1>2
    <3> HIDE DEF from
    <3>3. from(k) = from(l)
      BY <2>1, <3>1, <3>2 DEF Distinct
    <3>4. QED
      BY <3>1, <3>3
  <2>2. QED
    BY <2>1 DEF Distinct
<1>4. ASSUME NEW k \in DOMAIN s, k # i PROVE \E l \in DOMAIN r : r[l] = s[k]
  <2>1. CASE k < i
    <3>1. k \in DOMAIN r /\ r[k] = s[k]
      BY <1>1, <1>2, <2>1
    <3>2. QED
      BY <3>1
  <2>2. CASE k > i
    <3>1. k - 1 \in DOMAIN r /\ r[k - 1] = s[k]
      BY <1>1, <1>2, <2>2
    <3>2. QED
      BY <3>1
  <2>3. QED
    BY <1>1, <1>4, <2>1, <2>2
<1>5. ASSUME NEW l \in DOMAIN r PROVE \E k \in DOMAIN s : k # i /\ r[l] = s[k]
  <2>1. CASE l < i
    BY <1>1, <1>2, <2>1
  <2>2. CASE ~ (l < i)
    <3>1. l + 1 \in DOMAIN s /\ l + 1 # i /\ r[l] = s[l + 1]
      BY <1>1, <1>2, <2>2
    <3>2. QED
      BY <3>1
  <2>3. QED
    BY <2>1, <2>2
<1>6. \A k \in DOMAIN s : s[k] = s[i] <=> k = i
  BY DEF Distinct
<1>7. ToSet(r) = ToSet(s) \ {s[i]}
  BY <1>4, <1>5, <1>6 DEF ToSet
<1>8. QED
  BY <1>3, <1>7 DEF r

LEMMA Inserted ==
    ASSUME NEW S, NEW s \in Seq(S), Distinct(s), NEW i \in 1 .. Len(s) + 1, NEW e \in S \ ToSet(s)
    PROVE  Distinct(InsertAt(s, i, e)) /\ ToSet(InsertAt(s, i, e)) = ToSet(s) \cup {e}
<1> DEFINE r == InsertAt(s, i, e)
<1>1. Len(s) \in Nat /\ i \in Nat /\ 1 <= i /\ i <= Len(s) + 1 /\ DOMAIN s = 1 .. Len(s)
  OBVIOUS
<1>2. /\ DOMAIN r = 1 .. Len(s) + 1
      /\ \A k \in 1 .. Len(s) + 1 : r[k] = IF k < i THEN s[k] ELSE IF k = i THEN e ELSE s[k - 1]
  <2>1. e \in S
    OBVIOUS
  <2>2. QED
    BY <2>1, InsertAtIs
<1>3. \A k \in DOMAIN s : s[k] # e
  BY DEF ToSet
<1> HIDE DEF r
<1>4. \A l \in DOMAIN r : \/ l < i /\ l \in DOMAIN s /\ r[l] = s[l]
                          \/ l = i /\ r[l] = e
                          \/ l > i /\ l - 1 \in DOMAIN s /\ r[l] = s[l - 1]
  BY <1>1, <1>2
<1>5. ASSUME NEW k \in DOMAIN r, NEW l \in DOMAIN r, r[k] = r[l] PROVE k = l
  <2>1. k \in Int /\ l \in Int
    BY <1>1, <1>2
  <2>2. QED
    BY <1>1, <1>3, <1>4, <1>5, <2>1 DEF Distinct
<1>6. \A l \in DOMAIN r : r[l] = e \/ \E k \in DOMAIN s : r[l] = s[k]
  BY <1>4
<1>7. i \in DOMAIN r /\ r[i] = e
  BY <1>1, <1>2
<1>8. ASSUME NEW k \in DOMAIN s PROVE \E l \in DOMAIN r : r[l] = s[k]
  <2>1. CASE k < i
    <3>1. k \in DOMAIN r /\ r[k] = s[k]
      BY <1>1, <1>2, <2>1
    <3>2. QED
      BY <3>1
  <2>2. CASE ~ (k < i)
    <3>1. k + 1 \in DOMAIN r /\ r[k + 1] = s[k]
      BY <1>1, <1>2, <2>2
    <3>2. QED
      BY <3>1
  <2>3. QED
    BY <2>1, <2>2
<1>9. ToSet(r) = ToSet(s) \cup {e}
  BY <1>6, <1>7, <1>8 DEF ToSet
<1>10. QED
  BY <1>5, <1>9 DEF Distinct, r

-----------------------------------------------------------------------------
\* Herdr lists distinct workspaces, each for a directory.
Listing == open \in Seq(Ids) /\ Distinct(open) /\ \A w \in Open : dir[w] \in Dirs

\* What a press at each of its steps was asked.
Asking ==
    \A p \in Procs :
       /\ pc[p] = "edges" => asked[p] \in Directions
       /\ pc[p] \in {"tabs", "tab"} => asked[p] \in {"left", "right", "label"}
       /\ pc[p] = "spaces" => asked[p] \in {"up", "down"}
       /\ pc[p] = "space" => asked[p] \in {"up", "down"} \cup Dirs
       /\ pc[p] \in {"panes", "create"} => asked[p] \in Dirs

\* One workspace has the focus, and each has the tab that is active in it.
TypeInv == TypeOK /\ Listing /\ Asking /\ focus \in Open /\ \A w \in Open : active[w] \in tabs[w]

\* The linked worktrees, and the main checkouts, of a workspace's repository.
LinkedOf(w) == {v \in Open : Key(v) = Key(w) /\ dir[v] \in Linked}
MainsOf(w) == {v \in Open : Primary(v) /\ Key(v) = Key(w)}

LEMMA Numbered ==
    ASSUME Listing
    PROVE  /\ Len(open) \in Nat /\ DOMAIN open = 1 .. Len(open) /\ open \in Seq(Open)
           /\ \A i \in DOMAIN open : open[i] \in Open /\ Number(open[i]) = i
           /\ \A w \in Open : Number(w) \in DOMAIN open /\ open[Number(w)] = w /\ w # None
<1>1. Len(open) \in Nat /\ DOMAIN open = 1 .. Len(open) /\ \A i \in DOMAIN open : open[i] \in Open
  BY DEF Listing, Open, ToSet
<1>2. open \in Seq(Open)
  BY <1>1 DEF Listing, Open, ToSet
<1>3. \A i \in DOMAIN open : Number(open[i]) = i
  BY DEF Number, Listing, Distinct
<1>4. \A w \in Open : \E i \in DOMAIN open : open[i] = w
  BY DEF Open, ToSet
<1>5. \A w \in Open : w # None
  BY <1>4, WorkspacesAssumption DEF Listing
<1>6. QED
  BY <1>1, <1>2, <1>3, <1>4, <1>5

\* What is one of a repository's is its main checkout or a linked worktree.
LEMMA Members ==
    ASSUME Listing, NEW w \in Open, Key(w) # None
    PROVE  Group(w) = LinkedOf(w) \cup MainsOf(w) /\ LinkedOf(w) \cap MainsOf(w) = {} /\ w \in Group(w)
BY DEF Group, LinkedOf, MainsOf, Primary

LEMMA NoRepository ==
    ASSUME Listing, NEW w \in Open, Key(w) = None
    PROVE  Group(w) = {w} /\ ~Primary(w) /\ LeadNumber(w) = Number(w) /\ w \in Shown
<1>1. Group(w) = {w} /\ ~Primary(w)
  BY DEF Group, Primary
<1>2. Number(w) \in Nat
  BY Numbered
<1>3. {Number(v) : v \in Group(w)} = {Number(w)} /\ {v \in Group(w) : Primary(v)} = {}
  BY <1>1
<1>4. LeadNumber(w) = Number(w)
  BY <1>2, <1>3, MinIs DEF LeadNumber
<1>5. QED
  BY <1>1, <1>4 DEF Shown, Hidden

\* Siblings are the linked worktrees of a repository by their number.
LEMMA SiblingsAre ==
    ASSUME Listing, NEW w \in Open
    PROVE  /\ Siblings(open, w) \in Seq(Open) /\ ToSet(Siblings(open, w)) = LinkedOf(w)
           /\ \A k, l \in DOMAIN Siblings(open, w) :
                k < l => Number(Siblings(open, w)[k]) < Number(Siblings(open, w)[l])
<1> DEFINE One(v) == IF Key(v) = Key(w) /\ dir[v] \in Linked THEN <<v>> ELSE <<>>
           seqs == [i \in DOMAIN open |-> One(open[i])]
           sibs == FlattenSeq(seqs)
<1>1. Siblings(open, w) = sibs
  BY DEF Siblings
<1>2. /\ seqs \in Seq(Seq(Open)) /\ Len(seqs) = Len(open) /\ DOMAIN open = 1 .. Len(open)
      /\ \A i \in 1 .. Len(open) : seqs[i] = One(open[i])
  <2>1. \A v \in Open : One(v) \in Seq(Open)
    OBVIOUS
  <2>2. QED
    BY <2>1, Numbered
<1>3. sibs \in Seq(Open) /\ Placed(sibs, seqs, Len(open))
  BY <1>2, Flattened
<1>4. \A i \in 1 .. Len(open) : \A j \in DOMAIN seqs[i] : j = 1 /\ seqs[i][j] = open[i] /\ open[i] \in LinkedOf(w)
  BY <1>2, Numbered DEF LinkedOf
<1>5. \A v \in LinkedOf(w) : 1 \in DOMAIN seqs[Number(v)] /\ seqs[Number(v)][1] = v /\ Number(v) \in 1 .. Len(open)
  BY <1>2, Numbered DEF LinkedOf
<1> HIDE DEF seqs, sibs, One
<1>6. ToSet(sibs) \subseteq LinkedOf(w)
  BY <1>2, <1>3, <1>4 DEF Placed, ToSet
<1>7. LinkedOf(w) \subseteq ToSet(sibs)
  BY <1>2, <1>3, <1>5 DEF Placed, ToSet
<1>8. ASSUME NEW k \in DOMAIN sibs, NEW l \in DOMAIN sibs, k < l PROVE Number(sibs[k]) < Number(sibs[l])
  <2>1. PICK i1, i2 \in 1 .. Len(open) : \E j1 \in DOMAIN seqs[i1], j2 \in DOMAIN seqs[i2] :
          sibs[k] = seqs[i1][j1] /\ sibs[l] = seqs[i2][j2] /\ (i1 < i2 \/ (i1 = i2 /\ j1 < j2))
    BY <1>3, <1>8 DEF Placed
  <2>2. i1 < i2 /\ sibs[k] = open[i1] /\ sibs[l] = open[i2]
    BY <1>4, <2>1
  <2>3. QED
    BY <1>2, <2>2, Numbered
<1>9. QED
  BY <1>1, <1>3, <1>6, <1>7, <1>8

\* The root is the last main checkout.
LEMMA RootIs ==
    ASSUME Listing, NEW w \in Open, Key(w) # None
    PROVE  /\ MainsOf(w) = {} => Root(open, w) = None
           /\ MainsOf(w) # {} => /\ Root(open, w) \in MainsOf(w)
                               /\ \A v \in MainsOf(w) : Number(v) <= Number(Root(open, w))
<1> DEFINE at == {i \in DOMAIN open : Primary(open[i]) /\ Key(open[i]) = Key(w)}
<1>1. at = {Number(v) : v \in MainsOf(w)} /\ at \in SUBSET (1 .. Len(open)) /\ Len(open) \in Nat
  BY Numbered DEF MainsOf
<1>2. CASE MainsOf(w) = {}
  BY <1>1, <1>2 DEF Root
<1>3. CASE MainsOf(w) # {}
  <2>1. at # {} /\ at \in SUBSET Nat /\ \A k \in at : k <= Len(open)
    BY <1>1, <1>3
  <2>2. Max(at) \in at /\ \A k \in at : k <= Max(at)
    BY <1>1, <2>1, MaxIs
  <2>3. Root(open, w) = open[Max(at)]
    BY <2>1 DEF Root
  <2>4. PICK v \in MainsOf(w) : Max(at) = Number(v)
    BY <1>1, <2>2
  <2>5. Root(open, w) = v
    BY <2>3, <2>4, Numbered DEF MainsOf
  <2>6. QED
    BY <1>1, <2>2, <2>4, <2>5
<1>4. QED
  BY <1>2, <1>3

\* Where a group is: at its root, or at its first worktree.
LEMMA LeadIs ==
    ASSUME Listing, NEW w \in Open, Key(w) # None
    PROVE  /\ MainsOf(w) # {} => LeadNumber(w) = Number(Root(open, w))
           /\ MainsOf(w) = {} => /\ Siblings(open, w) # <<>>
                               /\ LeadNumber(w) = Number(Head(Siblings(open, w)))
<1>1. {v \in Group(w) : Primary(v)} = MainsOf(w)
  BY DEF Group, MainsOf
<1>2. CASE MainsOf(w) # {}
  <2> DEFINE N == {Number(v) : v \in MainsOf(w)}
             r == Root(open, w)
  <2>1. N \in SUBSET Nat /\ N # {} /\ Len(open) \in Nat /\ \A k \in N : k <= Len(open)
    BY <1>2, Numbered DEF MainsOf
  <2>2. Max(N) \in N /\ \A k \in N : k <= Max(N)
    BY <2>1, MaxIs
  <2>3. Number(r) \in N /\ \A k \in N : k <= Number(r)
    BY <1>2, RootIs
  <2>4. Max(N) = Number(r)
    <3> HIDE DEF N, r
    <3>1. Max(N) \in Nat /\ Number(r) \in Nat /\ Max(N) <= Number(r) /\ Number(r) <= Max(N)
      BY <2>1, <2>2, <2>3
    <3>2. QED
      BY <3>1
  <2>5. QED
    BY <1>1, <1>2, <2>4 DEF LeadNumber
<1>3. CASE MainsOf(w) = {}
  <2> DEFINE s == Siblings(open, w)
             N == {Number(v) : v \in Group(w)}
  <2>1. s \in Seq(Open) /\ ToSet(s) = Group(w) /\ Group(w) # {}
    BY <1>3, SiblingsAre, Members
  <2>2. s # <<>> /\ 1 \in DOMAIN s /\ Head(s) = s[1]
    BY <2>1 DEF ToSet
  <2>3. \A v \in Group(w) : Number(s[1]) <= Number(v)
    <3>1. \A k \in DOMAIN s : k = 1 \/ 1 < k
      BY <2>1
    <3>2. \A k \in DOMAIN s : Number(s[k]) \in Nat
      BY <2>1, Numbered
    <3>3. \A k \in DOMAIN s : 1 < k => Number(s[1]) < Number(s[k])
      BY <2>2, SiblingsAre
    <3> HIDE DEF s
    <3>4. \A k \in DOMAIN s : Number(s[1]) <= Number(s[k])
      BY <2>2, <3>1, <3>2, <3>3
    <3>5. QED
      BY <2>1, <3>4 DEF ToSet
  <2>4. Number(s[1]) \in N /\ N \in SUBSET Nat
    BY <2>1, <2>2, Numbered DEF ToSet, Group
  <2>5. Min(N) \in N /\ \A k \in N : Min(N) <= k
    BY <2>4, MinIs
  <2>6. Min(N) = Number(s[1])
    BY <2>3, <2>4, <2>5
  <2>7. QED
    BY <1>1, <1>3, <2>2, <2>6 DEF LeadNumber
<1>4. QED
  BY <1>2, <1>3

\* A group is the same for each of its workspaces.
LEMMA SameGroup ==
    ASSUME NEW w, NEW v, Key(v) = Key(w), Key(w) # None
    PROVE  /\ Group(v) = Group(w) /\ LinkedOf(v) = LinkedOf(w) /\ MainsOf(v) = MainsOf(w)
           /\ Siblings(open, v) = Siblings(open, w) /\ Root(open, v) = Root(open, w)
           /\ LeadNumber(v) = LeadNumber(w)
<1>1. Group(v) = Group(w) /\ LinkedOf(v) = LinkedOf(w) /\ MainsOf(v) = MainsOf(w)
  BY DEF Group, LinkedOf, MainsOf
<1>2. LeadNumber(v) = LeadNumber(w)
  BY <1>1 DEF LeadNumber
<1>3. Siblings(open, v) = Siblings(open, w) /\ Root(open, v) = Root(open, w)
  BY DEF Siblings, Root
<1>4. QED
  BY <1>1, <1>2, <1>3

\* Only a main checkout that a later one replaces is hidden.
LEMMA ShownAre ==
    ASSUME Listing, NEW w \in Open, Key(w) # None
    PROVE  w \in Shown <=> w \in LinkedOf(w) \/ w = Root(open, w)
<1>1. w \in Group(w) /\ Group(w) = LinkedOf(w) \cup MainsOf(w) /\ LinkedOf(w) \cap MainsOf(w) = {}
  BY Members
<1>2. w \in MainsOf(w) <=> Primary(w)
  BY DEF MainsOf
<1>3. CASE w \in LinkedOf(w)
  BY <1>1, <1>2, <1>3 DEF Shown, Hidden
<1>4. CASE w \in MainsOf(w)
  <2> DEFINE r == Root(open, w)
  <2>1. r \in MainsOf(w) /\ \A v \in MainsOf(w) : Number(v) <= Number(r)
    BY <1>4, RootIs
  <2>2. \A v \in MainsOf(w) : v \in Open /\ v \in Group(w) /\ Primary(v) /\ Number(v) \in Nat
    BY <1>1, Numbered DEF MainsOf
  <2>3. \A v \in Group(w) : Primary(v) => v \in MainsOf(w)
    BY <1>1, <1>4 DEF MainsOf, LinkedOf, Primary
  <2>4. w \in Hidden <=> \E v \in MainsOf(w) : Number(v) > Number(w)
    BY <1>2, <1>4, <2>2, <2>3 DEF Hidden
  <2>5. (\E v \in MainsOf(w) : Number(v) > Number(w)) <=> Number(r) > Number(w)
    BY <1>4, <2>1, <2>2
  <2>6. Number(r) > Number(w) <=> r # w
    <3>1. Number(r) = Number(w) => r = w
      BY <1>4, <2>1, <2>2, Numbered
    <3>2. QED
      BY <1>4, <2>1, <2>2, <3>1
  <2>7. QED
    BY <1>1, <1>4, <2>4, <2>5, <2>6 DEF Shown
<1>5. QED
  BY <1>1, <1>3, <1>4

\* What comes with a workspace is its group, in the order shown.
LEMMA EmitsAre ==
    ASSUME Listing, NEW w \in Open
    PROVE  /\ Emits(open, w) \in Seq(Open)
           /\ \A k \in DOMAIN Emits(open, w) :
                Emits(open, w)[k] \in Shown /\ LeadNumber(Emits(open, w)[k]) = Number(w)
           /\ \A k, l \in DOMAIN Emits(open, w) : k < l => Before(Emits(open, w)[k], Emits(open, w)[l])
<1> DEFINE s == Siblings(open, w)
<1>1. CASE Key(w) = None
  <2>1. Emits(open, w) = <<w>>
    BY <1>1 DEF Emits
  <2>2. QED
    BY <1>1, <2>1, NoRepository
<1>2. ASSUME Key(w) # None
      PROVE  /\ s \in Seq(Open)
             /\ \A k \in DOMAIN s : /\ s[k] \in Shown /\ Key(s[k]) = Key(w) /\ ~Primary(s[k])
                                    /\ LeadNumber(s[k]) = LeadNumber(w)
             /\ \A k, l \in DOMAIN s : k < l => Before(s[k], s[l])
  <2>1. s \in Seq(Open) /\ \A k \in DOMAIN s : s[k] \in LinkedOf(w)
    BY SiblingsAre DEF ToSet
  <2>2. ASSUME NEW v \in LinkedOf(w)
        PROVE  v \in Shown /\ Key(v) = Key(w) /\ ~Primary(v) /\ LeadNumber(v) = LeadNumber(w)
    <3>1. v \in Open /\ Key(v) = Key(w) /\ v \in LinkedOf(v) /\ ~Primary(v)
      BY DEF LinkedOf, Primary
    <3>2. QED
      BY <1>2, <3>1, ShownAre, SameGroup
  <2>3. \A k, l \in DOMAIN s : k < l => Number(s[k]) < Number(s[l])
    BY SiblingsAre
  <2>4. ASSUME NEW k \in DOMAIN s, NEW l \in DOMAIN s, k < l PROVE Before(s[k], s[l])
    <3>1. LeadNumber(s[k]) = LeadNumber(s[l]) /\ ~Primary(s[k]) /\ ~Primary(s[l])
      BY <2>1, <2>2
    <3>2. Number(s[k]) < Number(s[l])
      BY <2>3, <2>4
    <3>3. QED
      BY <3>1, <3>2 DEF Before, Primary
  <2>5. QED
    BY <2>1, <2>2, <2>4
<1>3. CASE Key(w) # None /\ Root(open, w) = w
  <2> DEFINE e == <<w>> \o s
  <2>1. Emits(open, w) = e
    <3>1. Key(w) # None /\ Root(open, w) = w /\ w # None
      BY <1>3, Numbered
    <3>2. QED
      BY <3>1 DEF Emits
  <2>2. /\ e \in Seq(Open) /\ Len(s) \in Nat /\ DOMAIN e = 1 .. Len(s) + 1 /\ DOMAIN s = 1 .. Len(s)
        /\ e[1] = w /\ \A k \in DOMAIN e : k > 1 => k - 1 \in DOMAIN s /\ e[k] = s[k - 1]
    <3>1. <<w>> \in Seq(Open) /\ Len(<<w>>) = 1 /\ s \in Seq(Open) /\ Len(s) \in Nat
      BY <1>2, <1>3
    <3>2. e \in Seq(Open) /\ Len(e) = 1 + Len(s)
          /\ \A k \in 1 .. 1 + Len(s) : e[k] = IF k <= 1 THEN <<w>>[k] ELSE s[k - 1]
      BY <3>1, ConcatProperties
    <3>3. QED
      BY <3>1, <3>2
  <2>3. w \in Shown /\ Primary(w) /\ LeadNumber(w) = Number(w)
    <3>1. MainsOf(w) # {} /\ Root(open, w) \in MainsOf(w)
      BY <1>3, RootIs, Numbered
    <3>2. QED
      BY <1>3, <3>1, ShownAre, LeadIs DEF MainsOf
  <2> HIDE DEF e, s
  <2>4. \A k \in DOMAIN e : e[k] \in Shown /\ LeadNumber(e[k]) = Number(w)
    BY <1>2, <1>3, <2>2, <2>3
  <2>5. ASSUME NEW k \in DOMAIN e, NEW l \in DOMAIN e, k < l PROVE Before(e[k], e[l])
    <3>1. k - 1 < l - 1 /\ l > 1 /\ l - 1 \in DOMAIN s /\ e[l] = s[l - 1]
      BY <2>2, <2>5
    <3>2. CASE k = 1
      <4>1. ~Primary(e[l]) /\ LeadNumber(e[l]) = LeadNumber(e[k]) /\ Primary(e[k])
        BY <1>2, <1>3, <2>2, <2>3, <3>1, <3>2
      <4>2. QED
        BY <4>1 DEF Before
    <3>3. CASE k > 1
      BY <1>2, <1>3, <2>2, <3>1, <3>3
    <3>4. QED
      BY <2>2, <3>2, <3>3
  <2>6. QED
    BY <2>1, <2>2, <2>4, <2>5
<1>4. CASE Key(w) # None /\ Root(open, w) = None /\ Head(s) = w
  <2>1. Emits(open, w) = s
    <3>1. Root(open, w) # w
      BY <1>4, Numbered
    <3>2. Root(open, w) = None /\ Key(w) # None /\ Head(Siblings(open, w)) = w
      BY <1>4
    <3>3. QED
      BY <3>1, <3>2 DEF Emits
  <2>2. LeadNumber(w) = Number(w)
    <3>1. MainsOf(w) = {}
      BY <1>4, RootIs, Numbered DEF MainsOf
    <3>2. QED
      BY <1>4, <3>1, LeadIs
  <2> HIDE DEF s
  <2>3. QED
    BY <1>2, <1>4, <2>1, <2>2
<1>5. CASE Key(w) # None /\ Root(open, w) # w /\ ~ (Root(open, w) = None /\ Head(s) = w)
  <2>1. Emits(open, w) = <<>>
    BY <1>5 DEF Emits
  <2>2. QED
    BY <2>1
<1>6. QED
  BY <1>1, <1>3, <1>4, <1>5

\* A workspace that is shown comes with the one its group is at.
LEMMA Emitted ==
    ASSUME Listing, NEW v \in Shown
    PROVE  /\ LeadNumber(v) \in DOMAIN open
           /\ \E k \in DOMAIN Emits(open, open[LeadNumber(v)]) : Emits(open, open[LeadNumber(v)])[k] = v
<1>1. v \in Open
  BY DEF Shown
<1>2. CASE Key(v) = None
  <2>1. LeadNumber(v) \in DOMAIN open /\ open[LeadNumber(v)] = v
    BY <1>1, <1>2, NoRepository, Numbered
  <2>2. Emits(open, v) = <<v>>
    BY <1>2 DEF Emits
  <2>3. QED
    BY <2>1, <2>2
<1>3. CASE Key(v) # None /\ MainsOf(v) # {}
  <2> DEFINE r == Root(open, v)
  <2>1. r \in MainsOf(v) /\ LeadNumber(v) = Number(r)
    BY <1>1, <1>3, RootIs, LeadIs
  <2>2. r \in Open /\ Key(r) = Key(v) /\ r = Root(open, r) /\ Siblings(open, r) = Siblings(open, v)
    BY <1>3, <2>1, SameGroup DEF MainsOf
  <2>3. LeadNumber(v) \in DOMAIN open /\ open[LeadNumber(v)] = r
    BY <2>1, <2>2, Numbered
  <2>4. Emits(open, r) = <<r>> \o Siblings(open, v)
    <3> HIDE DEF r
    <3>1. Key(r) # None /\ Root(open, r) = r /\ r # None
      BY <1>3, <2>2, Numbered
    <3>2. Emits(open, r) = <<r>> \o Siblings(open, r)
      BY <3>1 DEF Emits
    <3>3. QED
      BY <2>2, <3>2
  <2> DEFINE s == Siblings(open, v)
             e == <<r>> \o s
  <2>5. s \in Seq(Open) /\ ToSet(s) = LinkedOf(v)
    BY <1>1, SiblingsAre
  <2>6. 1 \in DOMAIN e /\ e[1] = r /\ \A k \in DOMAIN s : k + 1 \in DOMAIN e /\ e[k + 1] = s[k]
    <3> HIDE DEF r, s
    <3>1. <<r>> \in Seq(Open) /\ Len(<<r>>) = 1 /\ s \in Seq(Open) /\ Len(s) \in Nat /\ DOMAIN s = 1 .. Len(s)
      BY <2>2, <2>5
    <3>2. e \in Seq(Open) /\ Len(e) = 1 + Len(s)
          /\ \A k \in 1 .. 1 + Len(s) : e[k] = IF k <= 1 THEN <<r>>[k] ELSE s[k - 1]
      BY <3>1, ConcatProperties
    <3>3. QED
      BY <3>1, <3>2
  <2>7. v = r \/ v \in ToSet(s)
    BY <1>1, <1>3, <2>5, ShownAre
  <2> HIDE DEF e, r, s
  <2>8. \E k \in DOMAIN e : e[k] = v
    BY <2>6, <2>7 DEF ToSet
  <2>9. QED
    BY <2>3, <2>4, <2>8 DEF e, s
<1>4. CASE Key(v) # None /\ MainsOf(v) = {}
  <2> DEFINE s == Siblings(open, v)
             h == Head(s)
  <2>1. s # <<>> /\ LeadNumber(v) = Number(h) /\ s \in Seq(Open) /\ ToSet(s) = LinkedOf(v)
    BY <1>1, <1>4, LeadIs, SiblingsAre
  <2>2. h = s[1] /\ 1 \in DOMAIN s
    BY <2>1
  <2>3. h \in LinkedOf(v)
    BY <2>1, <2>2 DEF ToSet
  <2>4. h \in Open /\ Key(h) = Key(v)
    BY <2>3 DEF LinkedOf
  <2>5. Siblings(open, h) = s /\ Root(open, h) = None
    BY <1>1, <1>4, <2>4, SameGroup, RootIs
  <2>6. LeadNumber(v) \in DOMAIN open /\ open[LeadNumber(v)] = h
    BY <2>1, <2>4, Numbered
  <2>7. Emits(open, h) = s
    <3> HIDE DEF h, s
    <3>1. Root(open, h) # h
      BY <2>4, <2>5, Numbered
    <3>2. Key(h) # None /\ Head(Siblings(open, h)) = h
      BY <1>4, <2>4, <2>5 DEF h
    <3>3. QED
      BY <2>5, <3>1, <3>2 DEF Emits
  <2>8. v \in ToSet(s)
    <3>1. v = Root(open, v) => FALSE
      BY <1>1, <1>4, RootIs, Numbered
    <3>2. QED
      BY <1>1, <1>4, <2>1, <3>1, ShownAre
  <2>9. QED
    BY <2>6, <2>7, <2>8 DEF ToSet
<1>5. QED
  BY <1>2, <1>3, <1>4

\* The order shown is an order.
LEMMA BeforeOrders ==
    ASSUME Listing, NEW w \in Shown, NEW v \in Shown, Before(w, v)
    PROVE  ~Before(v, w) /\ w # v
<1>1. LeadNumber(w) \in Nat /\ LeadNumber(v) \in Nat
  BY Emitted, Numbered
<1>2. Number(w) \in Nat /\ Number(v) \in Nat
  BY Numbered DEF Shown
<1>3. CASE LeadNumber(w) < LeadNumber(v)
  BY <1>1, <1>3 DEF Before
<1>4. CASE LeadNumber(w) = LeadNumber(v) /\ IF Primary(w) = Primary(v) THEN Number(w) < Number(v) ELSE Primary(w)
  BY <1>1, <1>2, <1>4 DEF Before, Primary
<1>5. QED
  BY <1>3, <1>4 DEF Before

\* The listing is in the order shown, and has what is shown.
LEMMA Sorted ==
    ASSUME Listing
    PROVE  LET listing == SidebarOrder(open) IN
           /\ listing \in Seq(Open) /\ ToSet(listing) = Shown
           /\ \A i, j \in DOMAIN listing : i < j => Before(listing[i], listing[j])
<1> DEFINE seqs == [i \in DOMAIN open |-> Emits(open, open[i])]
           listing == FlattenSeq(seqs)
<1>1. SidebarOrder(open) = listing
  BY DEF SidebarOrder
<1>2. /\ seqs \in Seq(Seq(Open)) /\ Len(seqs) = Len(open) /\ DOMAIN open = 1 .. Len(open)
      /\ \A i \in 1 .. Len(open) : seqs[i] = Emits(open, open[i]) /\ open[i] \in Open /\ Number(open[i]) = i
  <2>1. Len(open) \in Nat /\ DOMAIN open = 1 .. Len(open) /\ \A i \in 1 .. Len(open) : open[i] \in Open /\ Number(open[i]) = i
    BY Numbered
  <2>2. \A i \in 1 .. Len(open) : Emits(open, open[i]) \in Seq(Open)
    BY <2>1, EmitsAre
  <2>3. QED
    BY <2>1, <2>2
<1>3. listing \in Seq(Open) /\ Placed(listing, seqs, Len(open))
  BY <1>2, Flattened
<1> HIDE DEF seqs, listing
<1>4. \A i \in 1 .. Len(open) : \A j \in DOMAIN seqs[i] : seqs[i][j] \in Shown /\ LeadNumber(seqs[i][j]) = i
  BY <1>2, EmitsAre
<1>5. \A v \in Shown : \E i \in 1 .. Len(open) : \E j \in DOMAIN seqs[i] : seqs[i][j] = v
  BY <1>2, Emitted
<1>6. ToSet(listing) = Shown
  <2>1. ToSet(listing) \subseteq Shown
    BY <1>3, <1>4 DEF Placed, ToSet
  <2>2. Shown \subseteq ToSet(listing)
    BY <1>3, <1>5 DEF Placed, ToSet
  <2>3. QED
    BY <2>1, <2>2
<1>7. ASSUME NEW k \in DOMAIN listing, NEW l \in DOMAIN listing, k < l PROVE Before(listing[k], listing[l])
  <2>1. PICK i1, i2 \in 1 .. Len(open) : \E j1 \in DOMAIN seqs[i1], j2 \in DOMAIN seqs[i2] :
          listing[k] = seqs[i1][j1] /\ listing[l] = seqs[i2][j2] /\ (i1 < i2 \/ (i1 = i2 /\ j1 < j2))
    BY <1>3, <1>7 DEF Placed
  <2>2. PICK j1 \in DOMAIN seqs[i1], j2 \in DOMAIN seqs[i2] :
          listing[k] = seqs[i1][j1] /\ listing[l] = seqs[i2][j2] /\ (i1 < i2 \/ (i1 = i2 /\ j1 < j2))
    BY <2>1
  <2>3. CASE i1 < i2
    BY <1>4, <2>2, <2>3 DEF Before
  <2>4. CASE i1 = i2 /\ j1 < j2
    BY <1>2, <2>2, <2>4, EmitsAre
  <2>5. QED
    BY <2>2, <2>3, <2>4
<1>8. QED
  BY <1>1, <1>3, <1>6, <1>7

LEMMA SidebarHolds == ASSUME Listing PROVE Sidebar
<1> DEFINE listing == SidebarOrder(open)
<1>1. /\ listing \in Seq(Open) /\ ToSet(listing) = Shown
      /\ \A i, j \in DOMAIN listing : i < j => Before(listing[i], listing[j])
  BY Sorted
<1> HIDE DEF listing
<1>2. Len(listing) \in Nat /\ DOMAIN listing = 1 .. Len(listing) /\ \A i \in DOMAIN listing : listing[i] \in Shown
  BY <1>1 DEF ToSet
<1>3. \A i, j \in DOMAIN listing : i # j => listing[i] # listing[j]
  <2> SUFFICES ASSUME NEW i \in DOMAIN listing, NEW j \in DOMAIN listing, i < j PROVE listing[i] # listing[j]
    BY <1>2
  <2>1. QED
    BY <1>1, <1>2, BeforeOrders
<1>4. listing \in Bijection(1 .. Len(listing), Shown)
  <2>1. listing \in [1 .. Len(listing) -> Shown]
    BY <1>1, <1>2
  <2>2. \A i, j \in 1 .. Len(listing) : listing[i] = listing[j] => i = j
    BY <1>2, <1>3
  <2>3. \A v \in Shown : \E i \in 1 .. Len(listing) : listing[i] = v
    BY <1>1, <1>2 DEF ToSet
  <2>4. QED
    BY <2>1, <2>2, <2>3 DEF Bijection, Injection, Surjection, IsInjective
<1>5. Cardinality(Shown) = Len(listing)
  BY <1>2, <1>4, FS_CountingElements DEF ExistsBijection
<1>6. QED
  BY <1>1, <1>5 DEF Sidebar, listing

-----------------------------------------------------------------------------
\* Which tab is next, and which has the label.
LEMMA NextTab ==
    ASSUME NEW items \in SUBSET Tabs, NEW current \in items, NEW forward \in BOOLEAN
    PROVE  LET t == AdjacentByNumber(items, current, forward)
               Beyond(u) == IF forward THEN current < u ELSE u < current
           IN  /\ t = None => \A u \in items : ~Beyond(u)
               /\ t # None => t \in items /\ Beyond(t) /\ \A u \in items : Beyond(u) => IF forward THEN t <= u ELSE u <= t
<1> DEFINE beyond == {t \in items : IF forward THEN t > current ELSE t < current}
<1>1. items \in SUBSET Nat /\ None \notin items
  BY WorkspacesAssumption
<1>2. CASE beyond = {}
  BY <1>1, <1>2 DEF AdjacentByNumber
<1>3. CASE beyond # {} /\ forward
  <2>1. AdjacentByNumber(items, current, forward) = Min(beyond)
    BY <1>3 DEF AdjacentByNumber
  <2>2. beyond \in SUBSET Nat /\ Min(beyond) \in beyond /\ \A k \in beyond : Min(beyond) <= k
    BY <1>1, <1>3, MinIs
  <2>3. QED
    BY <1>1, <1>3, <2>1, <2>2
<1>4. CASE beyond # {} /\ ~forward
  <2>1. AdjacentByNumber(items, current, forward) = Max(beyond)
    BY <1>4 DEF AdjacentByNumber
  <2>2. beyond \in SUBSET Nat /\ current \in Nat /\ \A k \in beyond : k <= current
    <3>1. beyond \subseteq {t \in items : t < current}
      BY <1>4
    <3> HIDE DEF beyond
    <3>2. QED
      BY <1>1, <3>1
  <2>3. Max(beyond) \in beyond /\ \A k \in beyond : k <= Max(beyond)
    BY <1>4, <2>2, MaxIs
  <2>4. QED
    BY <1>1, <1>4, <2>1, <2>2, <2>3
<1>5. QED
  BY <1>2, <1>3, <1>4

LEMMA LabelledTab ==
    ASSUME NEW items \in SUBSET Tabs
    PROVE  LET t == FirstLabelled(items) IN
           /\ t = None => items \cap Labelled = {}
           /\ t # None => t \in items \cap Labelled
<1>1. items \cap Labelled \in SUBSET Nat /\ None \notin items
  BY WorkspacesAssumption
<1>2. CASE items \cap Labelled = {}
  BY <1>2 DEF FirstLabelled
<1>3. CASE items \cap Labelled # {}
  <2>1. FirstLabelled(items) \in items \cap Labelled
    BY <1>1, <1>3, MinIs DEF FirstLabelled
  <2>2. QED
    BY <1>1, <2>1
<1>4. QED
  BY <1>2, <1>3

\* Where a workspace is in the listing, and what is next to it.
LEMMA PositionIs ==
    ASSUME NEW S, NEW s \in Seq(S), NEW w
    PROVE  LET i == SelectInSeq(s, LAMBDA v : v = w) IN
           /\ w \notin ToSet(s) => i = 0
           /\ w \in ToSet(s) => i \in DOMAIN s /\ s[i] = w
<1> DEFINE I == {i \in 1 .. Len(s) : s[i] = w}
<1>1. SelectInSeq(s, LAMBDA v : v = w) = IF I # {} THEN Min(I) ELSE 0
  BY DEF SelectInSeq
<1>2. I \in SUBSET Nat /\ DOMAIN s = 1 .. Len(s)
  OBVIOUS
<1>3. CASE I = {}
  BY <1>1, <1>2, <1>3 DEF ToSet
<1>4. CASE I # {}
  <2>1. Min(I) \in I
    BY <1>2, <1>4, MinIs
  <2>2. QED
    BY <1>1, <1>2, <1>4, <2>1 DEF ToSet
<1>5. QED
  BY <1>3, <1>4

LEMMA NextSpace ==
    ASSUME Listing, NEW current \in Shown \cup {None}, NEW forward \in BOOLEAN
    PROVE  LET w == AdjacentInOrder(SidebarOrder(open), current, forward)
               Beyond(u) == IF forward THEN Before(current, u) ELSE Before(u, current)
           IN  /\ w = None => \A u \in Shown : current # None => ~Beyond(u)
               /\ w # None => /\ {w, current} \subseteq Shown /\ Beyond(w)
                              /\ \A u \in Shown \ {w} : Beyond(u) => IF forward THEN Before(w, u) ELSE Before(u, w)
<1> DEFINE listing == SidebarOrder(open)
           i == SelectInSeq(listing, LAMBDA w : w = current)
           j == IF forward THEN i + 1 ELSE i - 1
           w == AdjacentInOrder(listing, current, forward)
<1>1. /\ listing \in Seq(Open) /\ ToSet(listing) = Shown /\ None \notin Shown
      /\ \A k, l \in DOMAIN listing : k < l => Before(listing[k], listing[l])
  BY Sorted, Numbered DEF Shown
<1>2. w = IF i # 0 /\ j \in DOMAIN listing THEN listing[j] ELSE None
  BY DEF AdjacentInOrder
<1>3. (current = None => i = 0) /\ (current # None => i \in DOMAIN listing /\ listing[i] = current)
  <2>1. /\ current \notin ToSet(listing) => i = 0
        /\ current \in ToSet(listing) => i \in DOMAIN listing /\ listing[i] = current
    <3> HIDE DEF listing
    <3>1. QED
      BY <1>1, PositionIs
  <2> HIDE DEF i, listing
  <2>2. QED
    BY <1>1, <2>1
<1>4. DOMAIN listing = 1 .. Len(listing) /\ Len(listing) \in Nat
  BY <1>1
<1> HIDE DEF listing, w, i
<1>5. \A k \in DOMAIN listing : listing[k] \in Shown /\ listing[k] # None
  BY <1>1 DEF ToSet
<1>6. \A u \in Shown : \E k \in DOMAIN listing : listing[k] = u
  BY <1>1 DEF ToSet
<1>7. CASE current = None
  <2>1. w = None
    BY <1>2, <1>3, <1>7
  <2>2. QED
    BY <1>7, <2>1 DEF w, listing
<1>8. CASE current # None /\ forward
  <2>1. ASSUME w = None, NEW u \in Shown PROVE ~Before(current, u)
    <3>1. PICK k \in DOMAIN listing : listing[k] = u
      BY <1>6
    <3>2. i + 1 \notin DOMAIN listing
      BY <1>2, <1>3, <1>4, <1>5, <1>8, <2>1
    <3>3. k < i \/ u = current
      BY <1>3, <1>4, <1>8, <3>1, <3>2
    <3>4. QED
      BY <1>1, <1>3, <1>5, <1>8, <3>1, <3>3, BeforeOrders
  <2>2. ASSUME w # None PROVE /\ w \in Shown /\ Before(current, w)
                              /\ \A u \in Shown \ {w} : Before(current, u) => Before(w, u)
    <3>1. i + 1 \in DOMAIN listing /\ w = listing[i + 1] /\ i \in DOMAIN listing /\ listing[i] = current
      BY <1>2, <1>3, <1>8, <2>2
    <3>2. w \in Shown /\ Before(current, w)
      BY <1>1, <1>4, <1>5, <3>1
    <3>3. ASSUME NEW u \in Shown \ {w}, Before(current, u) PROVE Before(w, u)
      <4>1. PICK k \in DOMAIN listing : listing[k] = u
        BY <1>6
      <4>2. ~ (k < i) /\ k # i
        BY <1>1, <1>5, <3>1, <3>3, <4>1, BeforeOrders
      <4>3. k # i + 1
        BY <3>1, <4>1
      <4>4. i + 1 < k
        BY <1>4, <3>1, <4>2, <4>3
      <4>5. QED
        BY <1>1, <3>1, <4>1, <4>4
    <3>4. QED
      BY <3>2, <3>3
  <2>3. QED
    BY <1>1, <1>8, <2>1, <2>2 DEF w, listing
<1>9. CASE current # None /\ ~forward
  <2>1. ASSUME w = None, NEW u \in Shown PROVE ~Before(u, current)
    <3>1. PICK k \in DOMAIN listing : listing[k] = u
      BY <1>6
    <3>2. i - 1 \notin DOMAIN listing
      BY <1>2, <1>3, <1>4, <1>5, <1>9, <2>1
    <3>3. i < k \/ u = current
      BY <1>3, <1>4, <1>9, <3>1, <3>2
    <3>4. QED
      BY <1>1, <1>3, <1>5, <1>9, <3>1, <3>3, BeforeOrders
  <2>2. ASSUME w # None PROVE /\ w \in Shown /\ Before(w, current)
                              /\ \A u \in Shown \ {w} : Before(u, current) => Before(u, w)
    <3>1. i - 1 \in DOMAIN listing /\ w = listing[i - 1] /\ i \in DOMAIN listing /\ listing[i] = current
      BY <1>2, <1>3, <1>9, <2>2
    <3>2. w \in Shown /\ Before(w, current)
      BY <1>1, <1>4, <1>5, <3>1
    <3>3. ASSUME NEW u \in Shown \ {w}, Before(u, current) PROVE Before(u, w)
      <4>1. PICK k \in DOMAIN listing : listing[k] = u
        BY <1>6
      <4>2. ~ (i < k) /\ k # i
        BY <1>1, <1>5, <3>1, <3>3, <4>1, BeforeOrders
      <4>3. k # i - 1
        BY <3>1, <4>1
      <4>4. k < i - 1
        BY <1>4, <3>1, <4>2, <4>3
      <4>5. QED
        BY <1>1, <3>1, <4>1, <4>4
    <3>4. QED
      BY <3>2, <3>3
  <2>3. QED
    BY <1>1, <1>9, <2>1, <2>2 DEF w, listing
<1>10. QED
  BY <1>7, <1>8, <1>9 DEF w, listing

-----------------------------------------------------------------------------
Labels == {"new", "edges", "tabs", "tab", "spaces", "space", "panes", "create", "done"}

\* The two halves of the invariant: what herdr has, and what the presses have.
HerdrTypes ==
    /\ born \in Ids /\ open \in Seq(1 .. born)
    /\ dir \in [Ids -> Dirs \cup {None}] /\ cwd \in [Ids -> Dirs \cup {None}]
    /\ tabs \in [Ids -> SUBSET Tabs] /\ active \in [Ids -> Tabs] /\ focus \in Ids
    /\ Listing /\ focus \in Open /\ \A w \in Open : active[w] \in tabs[w]
PressTypes ==
    /\ pc \in [Procs -> Labels]
    /\ asked \in [Procs -> Directions \cup {"label", None} \cup Dirs]
    /\ seen \in [Procs -> [space : Ids, tab : Tabs] \cup {None}]
    /\ goal \in [Procs -> Ids \cup Tabs \cup {None}]
    /\ changes \in 0 .. Changes
    /\ calm \in [Procs -> BOOLEAN] /\ apart \in BOOLEAN
    /\ Asking

LEMMA TwoHalves == (TypeInv <=> HerdrTypes /\ PressTypes) /\ (TypeInv => TypeOK)
BY DEF TypeInv, TypeOK, HerdrTypes, PressTypes, Labels

LEMMA Numbers == /\ Ids \subseteq Nat \ {0} /\ \A n \in Ids : 1 .. n \subseteq Ids
                 /\ Tabs \subseteq Nat \ {0} /\ Min(Tabs) \in Tabs
<1>1. Cardinality(Ids) \in Nat /\ Ids = 1 .. Cardinality(Ids)
  BY WorkspacesAssumption, FS_CardinalityType
<1>2. Tabs \in SUBSET Nat /\ Tabs # {}
  BY WorkspacesAssumption
<1>3. Min(Tabs) \in Tabs
  BY <1>2, MinIs
<1>4. \A n \in Ids : 1 .. n \subseteq Ids
  BY <1>1
<1>5. QED
  BY <1>1, <1>3, <1>4, WorkspacesAssumption

LEMMA InitTypes == Init => TypeInv
<1> SUFFICES ASSUME Init PROVE HerdrTypes /\ PressTypes
  BY TwoHalves
<1>1. Begun \in Ids /\ Begun \in Nat /\ 1 .. Begun \subseteq Ids
  BY Numbers, WorkspacesAssumption
<1>2. open \in Seq(1 .. born) /\ open \in Seq(Ids) /\ Open = 1 .. Begun /\ Distinct(open)
  BY <1>1 DEF Init, Open, ToSet, Distinct
<1>3. \A w \in Open : dir[w] \in Dirs
  BY <1>1, <1>2 DEF Init
<1>4. HerdrTypes
  <2>1. born \in Ids /\ focus \in Ids /\ focus \in Open
    BY <1>1, <1>2 DEF Init
  <2>2. dir \in [Ids -> Dirs \cup {None}] /\ cwd \in [Ids -> Dirs \cup {None}]
    BY DEF Init
  <2>3. tabs \in [Ids -> SUBSET Tabs] /\ active \in [Ids -> Tabs] /\ \A w \in Open : active[w] \in tabs[w]
    BY <1>1, <1>2, WorkspacesAssumption DEF Init
  <2>4. QED
    BY <1>2, <1>3, <2>1, <2>2, <2>3 DEF HerdrTypes, Listing
<1>5. PressTypes
  BY WorkspacesAssumption DEF Init, PressTypes, Labels, Asking
<1>6. QED
  BY <1>4, <1>5

-----------------------------------------------------------------------------
\* The presses: starting, ending, deciding.
LEMMA StartTypes ==
    ASSUME HerdrTypes, PressTypes, NEW p \in Procs, NEW what, NEW label, Start(p, what, label),
           \/ label = "edges" /\ what \in Directions
           \/ label = "tabs" /\ what = "label"
           \/ label = "panes" /\ what \in Dirs
    PROVE  PressTypes'
<1>1. what \in Directions \cup {"label", None} \cup Dirs /\ label \in Labels \ {"new", "done"}
  BY DEF Labels
<1>2. /\ pc' \in [Procs -> Labels] /\ asked' \in [Procs -> Directions \cup {"label", None} \cup Dirs]
      /\ seen' \in [Procs -> [space : Ids, tab : Tabs] \cup {None}] /\ calm' \in [Procs -> BOOLEAN]
  <2>1. [space |-> focus, tab |-> active[focus]] \in [space : Ids, tab : Tabs]
    BY DEF HerdrTypes
  <2>2. QED
    BY <1>1, <2>1 DEF Start, Goto, PressTypes
<1>3. Asking'
  BY DEF Start, Goto, PressTypes, Asking
<1>4. QED
  BY <1>2, <1>3 DEF Start, PressTypes

LEMMA EndTypes ==
    ASSUME PressTypes, NEW p \in Procs, Ends(p), calm' \in [Procs -> BOOLEAN],
           UNCHANGED changes, apart' \in BOOLEAN
    PROVE  PressTypes'
<1>1. /\ pc' \in [Procs -> Labels] /\ asked' \in [Procs -> Directions \cup {"label", None} \cup Dirs]
      /\ seen' \in [Procs -> [space : Ids, tab : Tabs] \cup {None}]
      /\ goal' \in [Procs -> Ids \cup Tabs \cup {None}]
  BY DEF Ends, Goto, PressTypes, Labels
<1>2. Asking'
  BY DEF Ends, Goto, PressTypes, Asking
<1>3. QED
  BY <1>1, <1>2 DEF PressTypes

\* A step to another label, with what was asked.
LEMMA GotoTypes ==
    ASSUME PressTypes, NEW p \in Procs, NEW next \in Labels, Goto(p, next),
           UNCHANGED <<asked, seen, calm, changes>>, apart' \in BOOLEAN,
           goal' \in [Procs -> Ids \cup Tabs \cup {None}],
           \/ pc[p] = "edges" /\ next = IF asked[p] \in {"left", "right"} THEN "tabs" ELSE "spaces"
           \/ pc[p] = "tabs" /\ next = "tab"
           \/ pc[p] \in {"spaces", "panes"} /\ next = "space"
           \/ pc[p] = "panes" /\ next = "create"
    PROVE  PressTypes'
<1>1. pc' \in [Procs -> Labels] /\ \A q \in Procs : pc'[q] = IF q = p THEN next ELSE pc[q]
  BY DEF Goto, PressTypes
<1>2. ASSUME NEW q \in Procs
      PROVE  /\ pc'[q] = "edges" => asked[q] \in Directions
             /\ pc'[q] \in {"tabs", "tab"} => asked[q] \in {"left", "right", "label"}
             /\ pc'[q] = "spaces" => asked[q] \in {"up", "down"}
             /\ pc'[q] = "space" => asked[q] \in {"up", "down"} \cup Dirs
             /\ pc'[q] \in {"panes", "create"} => asked[q] \in Dirs
  <2>1. CASE q # p
    BY <1>1, <2>1 DEF PressTypes, Asking
  <2>2. CASE q = p /\ pc[p] = "edges"
    BY <1>1, <2>2 DEF PressTypes, Asking, Directions
  <2>3. CASE q = p /\ pc[p] # "edges"
    BY <1>1, <2>3 DEF PressTypes, Asking
  <2>4. QED
    BY <2>1, <2>2, <2>3
<1>3. QED
  BY <1>1, <1>2 DEF PressTypes, Asking

LEMMA DecideTypes ==
    ASSUME PressTypes, NEW p \in Procs, NEW target \in Ids \cup Tabs \cup {None}, NEW next,
           Decide(p, target, next), UNCHANGED changes, apart' \in BOOLEAN,
           \/ pc[p] = "tabs" /\ next = "tab"
           \/ pc[p] \in {"spaces", "panes"} /\ next = "space"
    PROVE  PressTypes'
<1>1. CASE target = None /\ Ends(p) /\ calm' = [calm EXCEPT ![p] = FALSE]
  <2>1. calm' \in [Procs -> BOOLEAN]
    BY <1>1 DEF PressTypes
  <2>2. QED
    BY <1>1, <2>1, EndTypes
<1>2. CASE goal' = [goal EXCEPT ![p] = target] /\ Goto(p, next) /\ UNCHANGED <<asked, seen, calm>>
  <2>1. goal' \in [Procs -> Ids \cup Tabs \cup {None}] /\ next \in Labels
    BY <1>2 DEF PressTypes, Labels
  <2>2. QED
    BY <1>2, <2>1, GotoTypes
<1>3. QED
  BY <1>1, <1>2 DEF Decide

\* What a press decides for is a tab or a workspace, or none.
LEMMA Targets ==
    ASSUME HerdrTypes, PressTypes, NEW p \in Procs
    PROVE  /\ Forward(p) \in BOOLEAN
           /\ AtDirectory(asked[p]) \subseteq Ids
           /\ LET listing == SidebarOrder(open)
                  current == CurrentItem(ToSet(listing), focus, seen[p].space)
              IN  /\ current \in Shown \cup {None}
                  /\ AdjacentInOrder(listing, current, Forward(p)) \in Ids \cup {None}
           /\ \A w \in Open : \A marked : LET current == CurrentItem(tabs[w], marked, seen[p].tab) IN
                 /\ current \in tabs[w] \cup {None}
                 /\ current # None => AdjacentByNumber(tabs[w], current, Forward(p)) \in Tabs \cup {None}
                 /\ FirstLabelled(tabs[w]) \in Tabs \cup {None}
<1>1. Listing /\ Open \subseteq Ids /\ Shown \subseteq Ids
  BY DEF HerdrTypes, Listing, Open, ToSet, Shown
<1>2. Forward(p) \in BOOLEAN
  BY DEF Forward
<1>3. AtDirectory(asked[p]) \subseteq Ids
  BY <1>1 DEF AtDirectory
<1> DEFINE listing == SidebarOrder(open)
<1>4. ToSet(listing) = Shown
  BY <1>1, Sorted
<1> HIDE DEF listing
<1>5. CurrentItem(ToSet(listing), focus, seen[p].space) \in Shown \cup {None}
  BY <1>4 DEF CurrentItem
<1>6. \A current \in Shown \cup {None} : AdjacentInOrder(listing, current, Forward(p)) \in Ids \cup {None}
  BY <1>1, <1>2, NextSpace DEF listing
<1>7. ASSUME NEW w \in Open, NEW marked
      PROVE  LET current == CurrentItem(tabs[w], marked, seen[p].tab) IN
                 /\ current \in tabs[w] \cup {None}
                 /\ current # None => AdjacentByNumber(tabs[w], current, Forward(p)) \in Tabs \cup {None}
                 /\ FirstLabelled(tabs[w]) \in Tabs \cup {None}
  <2> DEFINE current == CurrentItem(tabs[w], marked, seen[p].tab)
  <2>1. tabs[w] \in SUBSET Tabs
    BY <1>1 DEF HerdrTypes
  <2>2. current \in tabs[w] \cup {None}
    BY DEF CurrentItem
  <2> HIDE DEF current
  <2>3. current # None => AdjacentByNumber(tabs[w], current, Forward(p)) \in Tabs \cup {None}
    BY <1>2, <2>1, <2>2, NextTab
  <2>4. FirstLabelled(tabs[w]) \in Tabs \cup {None}
    BY <2>1, LabelledTab
  <2>5. QED
    BY <2>2, <2>3, <2>4 DEF current
<1>8. QED
  BY <1>2, <1>3, <1>5, <1>6, <1>7 DEF listing

-----------------------------------------------------------------------------
\* The focus only goes to a workspace, and to a tab, that is there.
LEMMA FocusTypes ==
    ASSUME HerdrTypes, UNCHANGED <<open, born, dir, cwd, tabs>>,
           NEW w \in Open, NEW t \in tabs[w], focus' = w,
           active' = [active EXCEPT ![w] = t] \/ UNCHANGED active
    PROVE  HerdrTypes'
<1>1. Open \subseteq Ids /\ t \in Tabs
  BY DEF HerdrTypes, Listing, Open, ToSet
<1>2. active' \in [Ids -> Tabs] /\ \A v \in Open : active'[v] \in tabs[v]
  BY <1>1 DEF HerdrTypes
<1>3. QED
  BY <1>1, <1>2 DEF HerdrTypes, Listing, Open

LEMMA SameHerdr == ASSUME HerdrTypes, UNCHANGED herdrVars PROVE HerdrTypes'
BY DEF HerdrTypes, Listing, Open, herdrVars

LEMMA CreateTypes ==
    ASSUME HerdrTypes, PressTypes, NEW p \in Procs, Create(p)
    PROVE  HerdrTypes' /\ Open' = Open \cup {born + 1} /\ born + 1 \notin Open
<1> DEFINE w == born + 1
<1>1. /\ w \in Ids /\ born' = w /\ open' = Append(open, w) /\ dir' = [dir EXCEPT ![w] = asked[p]]
      /\ tabs' = [tabs EXCEPT ![w] = {Min(Tabs)}] /\ active' = [active EXCEPT ![w] = Min(Tabs)]
      /\ focus' = w /\ cwd' = cwd /\ asked[p] \in Dirs
  BY DEF Create, PressTypes, Asking
<1>2. /\ born \in Nat /\ 1 .. born \subseteq Ids /\ w \notin 1 .. born /\ 1 .. born \subseteq 1 .. w
      /\ w \in 1 .. w /\ Min(Tabs) \in Tabs
  BY Numbers DEF HerdrTypes
<1>3. /\ open \in Seq(1 .. born) /\ Distinct(open) /\ Len(open) \in Nat /\ DOMAIN open = 1 .. Len(open)
      /\ \A k \in DOMAIN open : open[k] \in 1 .. born
  BY DEF HerdrTypes, Listing
<1> HIDE DEF w
<1>4. /\ open' \in Seq(1 .. w) /\ open' \in Seq(Ids) /\ DOMAIN open' = 1 .. Len(open) + 1
      /\ open'[Len(open) + 1] = w /\ \A k \in 1 .. Len(open) : open'[k] = open[k]
  <2>1. open \in Seq(1 .. w) /\ open \in Seq(Ids)
    BY <1>2, <1>3
  <2>2. QED
    BY <1>1, <1>2, <1>3, <2>1
<1>5. Distinct(open')
  <2>1. \A k \in DOMAIN open' : k \in DOMAIN open \/ (k = Len(open) + 1 /\ k \notin DOMAIN open)
    BY <1>3, <1>4
  <2>2. \A k \in DOMAIN open : open[k] # w
    BY <1>2, <1>3
  <2>3. QED
    BY <1>3, <1>4, <2>1, <2>2 DEF Distinct
<1>6. Open' = Open \cup {w}
  <2>1. DOMAIN open' = DOMAIN open \cup {Len(open) + 1}
    BY <1>3, <1>4
  <2>2. QED
    BY <1>3, <1>4, <2>1 DEF Open, ToSet
<1>7. Open \subseteq Ids /\ w \notin Open
  BY <1>2, <1>3 DEF Open, ToSet
<1>8. /\ dir' \in [Ids -> Dirs \cup {None}] /\ tabs' \in [Ids -> SUBSET Tabs] /\ active' \in [Ids -> Tabs]
      /\ dir'[w] \in Dirs /\ \A v \in Open : dir'[v] = dir[v]
      /\ active'[w] \in tabs'[w] /\ \A v \in Open : active'[v] = active[v] /\ tabs'[v] = tabs[v]
  BY <1>1, <1>2, <1>7 DEF HerdrTypes
<1>9. Listing'
  BY <1>4, <1>5, <1>6, <1>8 DEF HerdrTypes, Listing
<1>10. QED
  BY <1>1, <1>4, <1>6, <1>7, <1>8, <1>9 DEF HerdrTypes, w

LEMMA PressHerdr == ASSUME HerdrTypes, PressTypes, NEW p \in Procs, Press(p) PROVE HerdrTypes'
<1>1. CASE UNCHANGED herdrVars
  BY <1>1, SameHerdr
<1>2. CASE Edges(p)
  <2>1. CASE UNCHANGED <<focus, active>>
    BY <1>2, <2>1, SameHerdr DEF Edges, herdrVars
  <2>2. CASE focus' = seen[p].space /\ active' = [active EXCEPT ![focus'] = seen[p].tab]
    <3>1. /\ seen[p].space \in Open /\ seen[p].tab \in tabs[seen[p].space]
          /\ UNCHANGED <<open, born, dir, cwd, tabs>>
      BY <1>2 DEF Edges
    <3>2. QED
      BY <2>2, <3>1, FocusTypes
  <2>3. QED
    BY <1>2, <2>1, <2>2 DEF Edges
<1>3. CASE FocusTab(p)
  BY <1>3, FocusTypes DEF FocusTab
<1>4. CASE FocusSpace(p)
  <2>1. goal[p] \in Open /\ active[goal[p]] \in tabs[goal[p]]
    BY <1>4 DEF FocusSpace, HerdrTypes
  <2>2. QED
    BY <1>4, <2>1, FocusTypes DEF FocusSpace
<1>5. CASE Create(p)
  BY <1>5, CreateTypes
<1>6. QED
  BY <1>1, <1>2, <1>3, <1>4, <1>5
    DEF Press, Navigate, FocusTabLabel, Pick, Start, ListTabs, ListSpaces, ListPanes

LEMMA PressPresses == ASSUME HerdrTypes, PressTypes, NEW p \in Procs, Press(p) PROVE PressTypes'
<1>1. apart \in BOOLEAN /\ [q \in Procs |-> FALSE] \in [Procs -> BOOLEAN]
  BY DEF PressTypes
<1>2. CASE Navigate(p) \/ FocusTabLabel(p) \/ Pick(p)
  BY <1>2, StartTypes DEF Navigate, FocusTabLabel, Pick
<1>3. CASE Edges(p)
  <2>1. CASE Acts(p)
    BY <1>1, <1>3, <2>1, EndTypes DEF Edges, Acts
  <2>2. CASE /\ Goto(p, IF asked[p] \in {"left", "right"} THEN "tabs" ELSE "spaces")
             /\ UNCHANGED <<calm, asked, seen, goal>>
    <3> DEFINE next == IF asked[p] \in {"left", "right"} THEN "tabs" ELSE "spaces"
    <3>1. next \in Labels /\ goal' \in [Procs -> Ids \cup Tabs \cup {None}]
      BY <2>2 DEF PressTypes, Labels
    <3>2. pc[p] = "edges" /\ UNCHANGED <<asked, seen, calm, changes>> /\ apart' \in BOOLEAN
      BY <1>1, <1>3, <2>2 DEF Edges
    <3>3. QED
      BY <2>2, <3>1, <3>2, GotoTypes
  <2>3. QED
    BY <1>3, <2>1, <2>2 DEF Edges
<1>4. CASE ListTabs(p)
  <2> DEFINE w == seen[p].space
             current(marked) == CurrentItem(tabs[w], marked, seen[p].tab)
             target(marked) == CASE asked[p] = "label" -> FirstLabelled(tabs[w])
                                 [] asked[p] # "label" /\ current(marked) = None -> None
                                 [] OTHER -> AdjacentByNumber(tabs[w], current(marked), Forward(p))
  <2>1. PICK marked \in {active[w]} \cup (IF focus = w THEN {} ELSE {None}) :
           Decide(p, target(marked), "tab")
    BY <1>4 DEF ListTabs
  <2>2. w \in Open /\ pc[p] = "tabs" /\ UNCHANGED changes /\ apart' \in BOOLEAN
    BY <1>1, <1>4 DEF ListTabs
  <2>3. target(marked) \in Ids \cup Tabs \cup {None}
    <3>1. /\ current(marked) # None => AdjacentByNumber(tabs[w], current(marked), Forward(p)) \in Tabs \cup {None}
          /\ FirstLabelled(tabs[w]) \in Tabs \cup {None}
      BY <2>2, Targets
    <3>2. CASE asked[p] = "label"
      BY <3>1, <3>2
    <3>3. CASE asked[p] # "label" /\ current(marked) = None
      BY <3>3
    <3>4. CASE asked[p] # "label" /\ current(marked) # None
      BY <3>1, <3>4
    <3>5. QED
      BY <3>2, <3>3, <3>4
  <2> HIDE DEF target
  <2>4. QED
    BY <2>1, <2>2, <2>3, DecideTypes
<1>5. CASE FocusTab(p)
  BY <1>1, <1>5, EndTypes DEF FocusTab, Acts
<1>6. CASE ListSpaces(p)
  <2> DEFINE listing == SidebarOrder(open)
             target == AdjacentInOrder(listing, CurrentItem(ToSet(listing), focus, seen[p].space), Forward(p))
  <2>1. target \in Ids \cup Tabs \cup {None}
    BY Targets
  <2>2. Decide(p, target, "space") /\ pc[p] = "spaces" /\ UNCHANGED changes /\ apart' \in BOOLEAN
    BY <1>1, <1>6 DEF ListSpaces
  <2> HIDE DEF target
  <2>3. QED
    BY <2>1, <2>2, DecideTypes
<1>7. CASE FocusSpace(p)
  BY <1>1, <1>7, EndTypes DEF FocusSpace, Acts
<1>8. CASE ListPanes(p)
  <2>1. pc[p] = "panes" /\ UNCHANGED changes /\ apart' \in BOOLEAN /\ AtDirectory(asked[p]) \subseteq Ids
    BY <1>8, Targets DEF ListPanes
  <2>2. CASE Goto(p, "create") /\ UNCHANGED <<asked, seen, goal, calm>>
    <3>1. goal' \in [Procs -> Ids \cup Tabs \cup {None}] /\ "create" \in Labels
      BY <2>2 DEF PressTypes, Labels
    <3>2. QED
      BY <2>1, <2>2, <3>1, GotoTypes
  <2>3. CASE \E w \in AtDirectory(asked[p]) : Decide(p, w, "space")
    BY <2>1, <2>3, DecideTypes
  <2>4. QED
    BY <1>8, <2>2, <2>3 DEF ListPanes
<1>9. CASE Create(p)
  BY <1>1, <1>9, EndTypes DEF Create, Acts
<1>10. QED
  BY <1>2, <1>3, <1>4, <1>5, <1>6, <1>7, <1>8, <1>9 DEF Press

-----------------------------------------------------------------------------
\* The listing without a workspace, and with one moved.
LEMMA OthersTypes ==
    ASSUME HerdrTypes, PressTypes, Others
    PROVE  HerdrTypes' /\ PressTypes' /\ Open' \subseteq Open /\ UNCHANGED dir
<1>1. PICK w \in Open : ChangeDirectory(w) \/ CloseSpace(w) \/ Renumber(w) \/ CloseTab(w)
  BY DEF Others
<1>2. /\ changes' \in 0 .. Changes /\ calm' \in [Procs -> BOOLEAN]
      /\ UNCHANGED <<born, pc, asked, seen, goal, apart>>
  BY WorkspacesAssumption DEF Others, PressTypes, procVars
<1>3. PressTypes'
  BY <1>2 DEF PressTypes, Asking
<1>4. /\ open \in Seq(1 .. born) /\ open \in Seq(Ids) /\ Distinct(open) /\ Open \subseteq Ids /\ w \in Ids
      /\ w \in 1 .. born /\ Len(open) \in Nat
  <2>1. open \in Seq(1 .. born) /\ open \in Seq(Ids) /\ Distinct(open) /\ Len(open) \in Nat
    BY DEF HerdrTypes, Listing
  <2>2. Open \subseteq Ids /\ Open \subseteq 1 .. born
    BY <2>1, HeldBySet, Zenon DEF Open
  <2>3. QED
    BY <2>1, <2>2
<1>5. CASE ChangeDirectory(w)
  <2>1. cwd' \in [Ids -> Dirs \cup {None}] /\ UNCHANGED <<open, dir, tabs, active, focus>>
    BY <1>5 DEF ChangeDirectory, HerdrTypes
  <2>2. QED
    BY <1>2, <1>3, <2>1 DEF HerdrTypes, Listing, Open
<1>6. CASE CloseSpace(w)
  <2>1. PICK i \in DOMAIN open : open[i] = w /\ open' = RemoveAt(open, i)
    BY <1>6 DEF CloseSpace
  <2>2. open' \in Seq(1 .. born) /\ open' \in Seq(Ids) /\ Distinct(open') /\ Open' = Open \ {w}
    BY <1>4, <2>1, RemoveAtIs, Closed DEF Open
  <2>3. UNCHANGED <<dir, cwd, tabs, active>> /\ focus' \in Open'
    BY <1>6, <2>2 DEF CloseSpace, Open, HerdrTypes
  <2>4. QED
    BY <1>2, <1>3, <1>4, <2>2, <2>3 DEF HerdrTypes, Listing
<1>7. CASE Renumber(w)
  <2>1. PICK i, j \in DOMAIN open : open[i] = w /\ open' = InsertAt(RemoveAt(open, i), j, w)
    BY <1>7 DEF Renumber
  <2> DEFINE rest == RemoveAt(open, i)
  <2>2. /\ rest \in Seq(1 .. born) /\ rest \in Seq(Ids) /\ Distinct(rest) /\ ToSet(rest) = Open \ {w}
        /\ Len(rest) = Len(open) - 1
    BY <1>4, <2>1, RemoveAtIs, Closed DEF Open
  <2>3. j \in 1 .. Len(rest) + 1 /\ w \in (1 .. born) \ ToSet(rest) /\ w \in Ids \ ToSet(rest)
    BY <1>4, <2>1, <2>2
  <2>4. open' = InsertAt(rest, j, w)
    BY <2>1
  <2> HIDE DEF rest
  <2>5. open' \in Seq(1 .. born) /\ open' \in Seq(Ids) /\ Distinct(open') /\ ToSet(open') = ToSet(rest) \cup {w}
    <3>1. w \in 1 .. born /\ w \in Ids
      BY <2>3
    <3>2. open' \in Seq(1 .. born) /\ open' \in Seq(Ids)
      BY <2>2, <2>3, <2>4, <3>1, InsertAtIs
    <3>3. Distinct(open') /\ ToSet(open') = ToSet(rest) \cup {w}
      BY <2>2, <2>3, <2>4, Inserted
    <3>4. QED
      BY <3>2, <3>3
  <2>6. Open' = Open /\ UNCHANGED <<dir, cwd, tabs, active, focus>>
    BY <1>7, <2>2, <2>5 DEF Renumber, Open
  <2>7. QED
    BY <1>2, <1>3, <2>5, <2>6 DEF HerdrTypes, Listing
<1>8. CASE CloseTab(w)
  <2>1. PICK t \in tabs[w] :
          /\ tabs' = [tabs EXCEPT ![w] = @ \ {t}]
          /\ IF active[w] = t THEN \E u \in tabs'[w] : active' = [active EXCEPT ![w] = u] ELSE UNCHANGED active
    BY <1>8 DEF CloseTab
  <2>2. tabs' \in [Ids -> SUBSET Tabs] /\ tabs'[w] = tabs[w] \ {t} /\ \A v \in Ids \ {w} : tabs'[v] = tabs[v]
    BY <1>4, <2>1 DEF HerdrTypes
  <2>3. active' \in [Ids -> Tabs] /\ \A v \in Open : active'[v] \in tabs'[v]
    <3>1. CASE active[w] = t
      <4>1. PICK u \in tabs'[w] : active' = [active EXCEPT ![w] = u]
        BY <2>1, <3>1
      <4>2. u \in Tabs
        BY <1>4, <2>2, <4>1
      <4>3. QED
        BY <1>4, <2>2, <4>1, <4>2 DEF HerdrTypes
    <3>2. CASE active[w] # t
      BY <1>4, <2>1, <2>2, <3>2 DEF HerdrTypes
    <3>3. QED
      BY <3>1, <3>2
  <2>4. UNCHANGED <<open, dir, cwd, focus>>
    BY <1>8 DEF CloseTab
  <2>5. QED
    BY <1>2, <1>3, <2>2, <2>3, <2>4 DEF HerdrTypes, Listing, Open
<1>9. QED
  BY <1>1, <1>5, <1>6, <1>7, <1>8

LEMMA PublishTypes == ASSUME HerdrTypes, PressTypes, NEW w \in Ids, Publish(w) PROVE HerdrTypes' /\ PressTypes'
<1>1. cwd' \in [Ids -> Dirs \cup {None}] /\ calm' \in [Procs -> BOOLEAN]
  BY DEF Publish, HerdrTypes
<1>2. HerdrTypes'
  BY <1>1 DEF Publish, HerdrTypes, Listing, Open
<1>3. PressTypes'
  BY <1>1 DEF Publish, PressTypes, Asking, procVars
<1>4. QED
  BY <1>2, <1>3

LEMMA Typed == Spec => []TypeInv
<1>1. TypeInv /\ [Next]_vars => TypeInv'
  <2> SUFFICES ASSUME HerdrTypes, PressTypes, [Next]_vars PROVE HerdrTypes' /\ PressTypes'
    BY TwoHalves, PTL
  <2>1. CASE UNCHANGED vars
    BY <2>1, SameHerdr DEF PressTypes, Asking, vars, procVars
  <2>2. CASE \E p \in Procs : Press(p)
    BY <2>2, PressHerdr, PressPresses
  <2>3. CASE \E w \in Ids : Publish(w)
    BY <2>3, PublishTypes
  <2>4. CASE Others
    BY <2>4, OthersTypes
  <2>5. QED
    BY <2>1, <2>2, <2>3, <2>4 DEF Next
<1>2. QED
  BY <1>1, InitTypes, PTL DEF Spec

\* What the keys do leaves herdr with workspaces and tabs that are there, and a
\* press with what its step needs (navigate.go:28, workspace_picker.go:99).
THEOREM TypeCorrect == Spec => []TypeOK
BY Typed, TwoHalves, PTL

\* Workspaces lists in the order of the sidebar (queries.go:147), of however many
\* workspaces and repositories: once each, a repository's together and its main
\* checkout first, but of several main checkouts of one only the last.
THEOREM InSidebarOrder == Spec => []Sidebar
<1>1. TypeInv => Sidebar
  BY SidebarHolds DEF TypeInv
<1>2. QED
  BY <1>1, Typed, PTL

-----------------------------------------------------------------------------
\* A press acts for itself, and a calm one is no longer calm when herdr changes.
LEMMA Alone ==
    ASSUME PressTypes, NEW p \in Procs, Press(p)
    PROVE  /\ \A q \in Procs \ {p} : /\ pc'[q] = pc[q] /\ asked'[q] = asked[q] /\ seen'[q] = seen[q]
                                     /\ goal'[q] = goal[q] /\ (calm'[q] => calm[q])
           /\ UNCHANGED herdrVars \/ \A q \in Procs : ~calm'[q]
<1> USE DEF Goto
<1>1. pc \in [Procs -> Labels] /\ asked \in [Procs -> Directions \cup {"label", None} \cup Dirs]
      /\ seen \in [Procs -> [space : Ids, tab : Tabs] \cup {None}]
      /\ goal \in [Procs -> Ids \cup Tabs \cup {None}] /\ calm \in [Procs -> BOOLEAN]
  BY DEF PressTypes
<1>2. ASSUME Ends(p) PROVE \A q \in Procs \ {p} : /\ pc'[q] = pc[q] /\ asked'[q] = asked[q]
                                                  /\ seen'[q] = seen[q] /\ goal'[q] = goal[q]
  BY <1>1, <1>2 DEF Ends
<1>3. ASSUME NEW target, NEW next, Decide(p, target, next)
      PROVE  \A q \in Procs \ {p} : /\ pc'[q] = pc[q] /\ asked'[q] = asked[q] /\ seen'[q] = seen[q]
                                    /\ goal'[q] = goal[q] /\ (calm'[q] => calm[q])
  BY <1>1, <1>2, <1>3 DEF Decide
<1>4. ASSUME NEW what, NEW label, Start(p, what, label)
      PROVE  /\ \A q \in Procs \ {p} : /\ pc'[q] = pc[q] /\ asked'[q] = asked[q] /\ seen'[q] = seen[q]
                                       /\ goal'[q] = goal[q] /\ (calm'[q] => calm[q])
             /\ UNCHANGED herdrVars
  BY <1>1, <1>4 DEF Start
<1>5. CASE Navigate(p) \/ FocusTabLabel(p) \/ Pick(p)
  BY <1>4, <1>5 DEF Navigate, FocusTabLabel, Pick
<1>6. CASE Acts(p)
  BY <1>2, <1>6 DEF Acts
<1>7. CASE Edges(p) /\ ~Acts(p)
  BY <1>1, <1>7 DEF Edges, herdrVars
<1>8. CASE ListTabs(p) \/ ListSpaces(p)
  BY <1>3, <1>8 DEF ListTabs, ListSpaces
<1>9. CASE ListPanes(p)
  BY <1>1, <1>3, <1>9 DEF ListPanes
<1>10. QED
  BY <1>5, <1>6, <1>7, <1>8, <1>9 DEF Press, FocusTab, FocusSpace, Create

\* One picker at a time creates, and what it creates is not there.
OneCreates ==
    apart => \A p, q \in Procs : pc[p] = "create" /\ pc[q] = "create" => p = q
NotThere ==
    apart => \A p \in Procs, w \in Open : pc[p] = "create" => dir[w] # asked[p]
SpaceInv == OneCreates /\ NotThere /\ OneSpaceEach

\* No step but two makes a workspace, brings a press to create, or gives a
\* workspace another directory.
LEMMA NoNewSpace ==
    ASSUME SpaceInv, Open' \subseteq Open, UNCHANGED dir, apart' => apart,
           \A q \in Procs : pc'[q] = "create" => pc[q] = "create" /\ asked'[q] = asked[q]
    PROVE  SpaceInv'
BY DEF SpaceInv, OneCreates, NotThere, OneSpaceEach

\* A picker comes to create only when no workspace is for its directory, or
\* apart is over.
LEMMA PanesKeep == ASSUME PressTypes, SpaceInv, NEW p \in Procs, ListPanes(p) PROVE SpaceInv'
<1>1. UNCHANGED <<open, dir>> /\ (apart' => apart) /\ pc \in [Procs -> Labels] /\ Open' = Open
  BY DEF ListPanes, herdrVars, PressTypes, Open
<1>2. CASE AtDirectory(asked[p]) = {} /\ Goto(p, "create") /\ UNCHANGED asked
  <2>1. \A q \in Procs \ {p} : pc'[q] = pc[q]
    BY <1>1, <1>2 DEF Goto
  <2>2. apart' => /\ \A w \in Open : dir[w] # asked[p]
                  /\ \A q \in Procs : pc[q] # "create"
    BY <1>2 DEF ListPanes, AtDirectory
  <2>3. QED
    BY <1>1, <1>2, <2>1, <2>2 DEF SpaceInv, OneCreates, NotThere, OneSpaceEach
<1>3. CASE \E w \in AtDirectory(asked[p]) : Decide(p, w, "space")
  <2>1. \A q \in Procs : pc'[q] = "create" => pc[q] = "create" /\ asked'[q] = asked[q]
    BY <1>1, <1>3 DEF Decide, Ends, Goto, PressTypes
  <2>2. QED
    BY <1>1, <2>1, NoNewSpace
<1>4. QED
  BY <1>2, <1>3 DEF ListPanes

\* The new workspace is the only one for its directory.
LEMMA CreateKeeps ==
    ASSUME HerdrTypes, PressTypes, SpaceInv, NEW p \in Procs, Create(p) PROVE SpaceInv'
<1> DEFINE w == born + 1
<1>1. /\ w \in Ids /\ dir' = [dir EXCEPT ![w] = asked[p]] /\ pc[p] = "create" /\ UNCHANGED apart
      /\ Open' = Open \cup {w} /\ w \notin Open /\ Open \subseteq Ids
  <2>1. Open' = Open \cup {w} /\ w \notin Open
    BY CreateTypes
  <2>2. Open \subseteq Ids
    BY DEF HerdrTypes, Listing, Open, ToSet
  <2>3. QED
    BY <2>1, <2>2 DEF Create
<1>2. \A q \in Procs : pc'[q] = "create" => q # p /\ pc[q] = "create" /\ asked'[q] = asked[q]
  BY DEF Create, Acts, Ends, Goto, PressTypes
<1>3. /\ apart => \A v \in Open : dir[v] # asked[p]
      /\ apart => \A q \in Procs : pc'[q] # "create"
  BY <1>1, <1>2 DEF SpaceInv, NotThere, OneCreates
<1>4. dir'[w] = asked[p] /\ \A v \in Open : dir'[v] = dir[v]
  BY <1>1 DEF HerdrTypes
<1>5. QED
  BY <1>1, <1>2, <1>3, <1>4 DEF SpaceInv, OneCreates, NotThere, OneSpaceEach

LEMMA PressKeeps ==
    ASSUME HerdrTypes, PressTypes, SpaceInv, NEW p \in Procs, Press(p) PROVE SpaceInv'
<1>1. CASE ~ListPanes(p) /\ ~Create(p)
  <2>1. UNCHANGED <<open, dir, apart>>
    BY <1>1 DEF Press, Navigate, FocusTabLabel, Pick, Start, Edges, ListTabs, FocusTab, ListSpaces, FocusSpace,
                herdrVars
  <2>2. pc'[p] # "create"
    BY <1>1 DEF Press, Navigate, FocusTabLabel, Pick, Start, Edges, ListTabs, FocusTab, ListSpaces, FocusSpace,
                Acts, Decide, Ends, Goto, PressTypes
  <2>3. \A q \in Procs \ {p} : pc'[q] = pc[q] /\ asked'[q] = asked[q]
    BY Alone
  <2>4. QED
    BY <2>1, <2>2, <2>3, NoNewSpace DEF Open
<1>2. QED
  BY <1>1, PanesKeep, CreateKeeps

LEMMA SpacesHold == Spec => []SpaceInv
<1>1. Init => SpaceInv
  <2> SUFFICES ASSUME Init PROVE SpaceInv
    OBVIOUS
  <2>1. Begun \in Nat /\ Open = 1 .. Begun
    BY Numbers, WorkspacesAssumption DEF Init, Open, ToSet
  <2>2. QED
    BY <2>1 DEF Init, SpaceInv, OneCreates, NotThere, OneSpaceEach
<1>2. TypeInv /\ SpaceInv /\ [Next]_vars => SpaceInv'
  <2> SUFFICES ASSUME HerdrTypes, PressTypes, SpaceInv, [Next]_vars PROVE SpaceInv'
    BY TwoHalves
  <2>1. CASE UNCHANGED vars
    BY <2>1, NoNewSpace DEF vars, herdrVars, procVars, Open
  <2>2. CASE Others
    BY <2>2, OthersTypes, NoNewSpace DEF Others, procVars
  <2>3. CASE \E w \in Ids : Publish(w)
    BY <2>3, NoNewSpace DEF Publish, procVars, Open
  <2>4. QED
    BY <2>1, <2>2, <2>3, PressKeeps DEF Next
<1>3. QED
  BY <1>1, <1>2, Typed, PTL DEF Spec

\* "openOrFocusWorkspace focuses an existing cwd workspace or creates it"
\* (workspace_picker.go:99): a directory has one workspace, of however many and
\* whatever keys are pressed, unless a picker looked while another created or
\* while a pane was not at its workspace's directory.
THEOREM OneEach == Spec => []OneSpaceEach
BY SpacesHold, PTL DEF SpaceInv

-----------------------------------------------------------------------------
\* What a press decided for, when nothing came between: the tab next to the
\* active one, the workspace next to the focused one, one at the directory.
TabChosen(p) ==
    /\ goal[p] \in tabs[focus]
    /\ asked[p] = "label" => goal[p] \in Labelled
    /\ asked[p] = "right" => /\ active[focus] < goal[p]
                             /\ \A t \in tabs[focus] : active[focus] < t => goal[p] <= t
    /\ asked[p] = "left" => /\ goal[p] < active[focus]
                            /\ \A t \in tabs[focus] : t < active[focus] => t <= goal[p]
SpaceChosen(p) ==
    /\ asked[p] \in {"up", "down"} => {focus, goal[p]} \subseteq Shown
    /\ asked[p] = "down" => /\ Before(focus, goal[p])
                            /\ \A w \in Shown \ {goal[p]} : Before(focus, w) => Before(goal[p], w)
    /\ asked[p] = "up" => /\ Before(goal[p], focus)
                          /\ \A w \in Shown \ {goal[p]} : Before(w, focus) => Before(w, goal[p])
    /\ asked[p] \in Dirs => goal[p] \in AtDirectory(asked[p])
CalmAt(p) ==
    calm[p] =>
       /\ pc[p] \notin {"new", "done"}
       /\ seen[p] = [space |-> focus, tab |-> active[focus]]
       /\ pc[p] = "tab" => TabChosen(p)
       /\ pc[p] = "space" => SpaceChosen(p)
       /\ pc[p] = "create" => AtDirectory(asked[p]) = {}
Calm == \A p \in Procs : CalmAt(p)

LEMMA CalmKept ==
    ASSUME UNCHANGED herdrVars, NEW q, CalmAt(q), pc'[q] = pc[q], asked'[q] = asked[q],
           seen'[q] = seen[q], goal'[q] = goal[q], calm'[q] => calm[q]
    PROVE  CalmAt(q)'
<1>1. TabChosen(q) <=> TabChosen(q)'
  BY DEF TabChosen, herdrVars
<1>2. SpaceChosen(q) <=> SpaceChosen(q)'
  <2>1. Shown' = Shown /\ \A w, v : Before(w, v)' <=> Before(w, v)
    BY DEF herdrVars, Shown, Hidden, Before, Primary, LeadNumber, Number, Group, Key, Open
  <2>2. AtDirectory(asked[q])' = AtDirectory(asked[q])
    BY DEF AtDirectory, Open, herdrVars
  <2>3. QED
    BY <2>1, <2>2 DEF SpaceChosen, herdrVars
<1>3. (AtDirectory(asked[q]) = {}) <=> (AtDirectory(asked[q]) = {})'
  BY DEF AtDirectory, Open, herdrVars
<1>4. QED
  BY <1>1, <1>2, <1>3 DEF CalmAt, herdrVars

\* What a calm press decides is taken from what its environment says.
LEMMA TabDecided ==
    ASSUME HerdrTypes, PressTypes, NEW p \in Procs, CalmAt(p), calm[p], ListTabs(p)
    PROVE  /\ Decide(p, IF asked[p] = "label" THEN FirstLabelled(tabs[focus])
                        ELSE AdjacentByNumber(tabs[focus], active[focus], Forward(p)), "tab")
           /\ UNCHANGED herdrVars /\ asked[p] \in {"left", "right", "label"}
<1>1. seen[p].space = focus /\ seen[p].tab = active[focus]
  BY DEF CalmAt
<1>2. active[focus] \in tabs[focus] /\ None \notin tabs[focus]
  BY WorkspacesAssumption DEF HerdrTypes
<1>3. CurrentItem(tabs[focus], active[focus], seen[p].tab) = active[focus]
  BY <1>2 DEF CurrentItem
<1>4. Decide(p, CASE asked[p] = "label" -> FirstLabelled(tabs[focus])
                  [] asked[p] # "label" /\ active[focus] = None -> None
                  [] OTHER -> AdjacentByNumber(tabs[focus], active[focus], Forward(p)), "tab")
  BY <1>1, <1>3 DEF ListTabs
<1>5. QED
  BY <1>2, <1>4 DEF ListTabs, PressTypes, Asking

LEMMA SpaceDecided ==
    ASSUME HerdrTypes, PressTypes, NEW p \in Procs, CalmAt(p), calm[p], ListSpaces(p)
    PROVE  /\ Decide(p, AdjacentInOrder(SidebarOrder(open), IF focus \in Shown THEN focus ELSE None, Forward(p)), "space")
           /\ UNCHANGED herdrVars /\ asked[p] \in {"up", "down"}
<1>1. seen[p].space = focus
  BY DEF CalmAt
<1>2. ToSet(SidebarOrder(open)) = Shown
  BY Sorted DEF HerdrTypes
<1>3. CurrentItem(Shown, focus, focus) = IF focus \in Shown THEN focus ELSE None
  BY DEF CurrentItem
<1>4. QED
  BY <1>1, <1>2, <1>3 DEF ListSpaces, PressTypes, Asking

LEMMA CalmStep ==
    ASSUME HerdrTypes, PressTypes, Calm, NEW p \in Procs, Press(p), UNCHANGED herdrVars, calm'[p]
    PROVE  CalmAt(p)'
<1> USE DEF Goto
<1>1. pc \in [Procs -> Labels] /\ goal \in [Procs -> Ids \cup Tabs \cup {None}] /\ calm \in [Procs -> BOOLEAN]
      /\ seen \in [Procs -> [space : Ids, tab : Tabs] \cup {None}]
      /\ asked \in [Procs -> Directions \cup {"label", None} \cup Dirs]
  BY DEF PressTypes
<1>2. ~Acts(p)
  BY DEF Acts
<1>3. ASSUME NEW what, NEW label \in {"edges", "tabs", "panes"}, Start(p, what, label) PROVE CalmAt(p)'
  <2>1. pc'[p] = label /\ seen'[p] = [space |-> focus, tab |-> active[focus]]
    BY <1>1, <1>3 DEF Start
  <2>2. focus' = focus /\ active' = active
    BY DEF herdrVars
  <2>3. QED
    BY <2>1, <2>2 DEF CalmAt
<1>4. CASE Navigate(p) \/ FocusTabLabel(p) \/ Pick(p)
  BY <1>3, <1>4 DEF Navigate, FocusTabLabel, Pick
<1>5. CASE Edges(p)
  <2>1. pc[p] = "edges" /\ pc'[p] \in {"tabs", "spaces"} /\ UNCHANGED <<seen, calm, focus, active>>
    BY <1>1, <1>2, <1>5 DEF Edges, herdrVars
  <2>2. QED
    BY <2>1 DEF CalmAt, Calm
<1>6. ASSUME NEW target, NEW next, Decide(p, target, next)
      PROVE  /\ target # None /\ pc'[p] = next /\ goal'[p] = target /\ UNCHANGED <<asked, seen, calm>>
             /\ calm[p] /\ CalmAt(p) /\ seen[p] = [space |-> focus, tab |-> active[focus]]
  <2>1. target # None /\ UNCHANGED <<asked, seen, calm>> /\ goal' = [goal EXCEPT ![p] = target] /\ pc' = [pc EXCEPT ![p] = next]
    <3>1. ~ (calm' = [calm EXCEPT ![p] = FALSE])
      BY <1>1
    <3>2. QED
      BY <1>6, <3>1 DEF Decide
  <2>2. calm[p] /\ CalmAt(p)
    BY <2>1 DEF Calm
  <2>3. QED
    BY <1>1, <2>1, <2>2 DEF CalmAt
<1>7. UNCHANGED <<focus, active, tabs, open, dir, cwd>>
  BY DEF herdrVars
<1>8. CASE ListTabs(p)
  <2>1. calm[p] /\ CalmAt(p)
    <3>1. PICK target : Decide(p, target, "tab")
      BY <1>8 DEF ListTabs
    <3>2. QED
      BY <1>6, <3>1
  <2> DEFINE target == IF asked[p] = "label" THEN FirstLabelled(tabs[focus])
                       ELSE AdjacentByNumber(tabs[focus], active[focus], Forward(p))
  <2>2. Decide(p, target, "tab") /\ asked[p] \in {"left", "right", "label"}
    BY <1>8, <2>1, TabDecided
  <2>3. /\ target # None /\ pc'[p] = "tab" /\ goal'[p] = target /\ UNCHANGED <<asked, seen, calm>>
        /\ seen[p] = [space |-> focus, tab |-> active[focus]]
    BY <1>6, <2>2
  <2>4. tabs[focus] \in SUBSET Tabs /\ active[focus] \in tabs[focus] /\ Forward(p) \in BOOLEAN
    BY DEF HerdrTypes, Forward
  <2>5. CASE asked[p] = "label"
    <3>1. target \in tabs[focus] \cap Labelled
      BY <2>3, <2>4, <2>5, LabelledTab
    <3> HIDE DEF target
    <3>2. QED
      BY <1>7, <2>3, <2>5, <3>1 DEF CalmAt, TabChosen
  <2>6. CASE asked[p] = "right"
    <3>1. target = AdjacentByNumber(tabs[focus], active[focus], Forward(p))
      BY <2>6
    <3>2. Forward(p)
      BY <2>6 DEF Forward
    <3> HIDE DEF target
    <3>3. target \in tabs[focus] /\ active[focus] < target /\ \A u \in tabs[focus] : active[focus] < u => target <= u
      <4>1. /\ target \in tabs[focus] /\ IF Forward(p) THEN active[focus] < target ELSE target < active[focus]
            /\ \A u \in tabs[focus] : (IF Forward(p) THEN active[focus] < u ELSE u < active[focus])
                                         => IF Forward(p) THEN target <= u ELSE u <= target
        <5>1. target # None
          BY <2>3
        <5>2. QED
          BY <2>4, <3>1, <5>1, NextTab, Zenon
      <4>2. QED
        BY <3>2, <4>1
    <3>4. QED
      BY <1>7, <2>3, <2>6, <3>3 DEF CalmAt, TabChosen
  <2>7. CASE asked[p] = "left"
    <3>1. ~Forward(p) /\ target = AdjacentByNumber(tabs[focus], active[focus], Forward(p))
      BY <2>7 DEF Forward
    <3> HIDE DEF target
    <3>2. target \in tabs[focus] /\ target < active[focus] /\ \A u \in tabs[focus] : u < active[focus] => u <= target
      BY <2>3, <2>4, <3>1, NextTab
    <3>3. QED
      BY <1>7, <2>3, <2>7, <3>2 DEF CalmAt, TabChosen
  <2>8. QED
    BY <2>2, <2>5, <2>6, <2>7
<1>9. Shown' = Shown /\ (\A w, v : Before(w, v)' <=> Before(w, v)) /\ \A d : AtDirectory(d)' = AtDirectory(d)
  BY DEF herdrVars, Shown, Hidden, Before, Primary, LeadNumber, Number, Group, Key, Open, AtDirectory
<1>10. CASE ListSpaces(p)
  <2>1. calm[p] /\ CalmAt(p)
    <3>1. PICK target : Decide(p, target, "space")
      BY <1>10 DEF ListSpaces
    <3>2. QED
      BY <1>6, <3>1
  <2> DEFINE current == IF focus \in Shown THEN focus ELSE None
             target == AdjacentInOrder(SidebarOrder(open), current, Forward(p))
  <2>2. Decide(p, target, "space") /\ asked[p] \in {"up", "down"}
    BY <1>10, <2>1, SpaceDecided
  <2>3. /\ target # None /\ pc'[p] = "space" /\ goal'[p] = target /\ UNCHANGED <<asked, seen, calm>>
        /\ seen[p] = [space |-> focus, tab |-> active[focus]]
    BY <1>6, <2>2
  <2>4. Listing /\ current \in Shown \cup {None} /\ None \notin Shown /\ asked[p] \notin Dirs
    BY <2>2, Numbered, WorkspacesAssumption DEF HerdrTypes, Shown
  <2>5. CASE asked[p] = "down"
    <3>1. Forward(p) \in BOOLEAN /\ target = AdjacentInOrder(SidebarOrder(open), current, Forward(p))
      BY <2>5 DEF Forward
    <3>2. Forward(p)
      BY <2>5 DEF Forward
    <3> HIDE DEF target, current
    <3>3. /\ {target, current} \subseteq Shown /\ Before(current, target)
          /\ \A u \in Shown \ {target} : Before(current, u) => Before(target, u)
      <4>1. /\ {target, current} \subseteq Shown
            /\ IF Forward(p) THEN Before(current, target) ELSE Before(target, current)
            /\ \A u \in Shown \ {target} : (IF Forward(p) THEN Before(current, u) ELSE Before(u, current))
                                              => IF Forward(p) THEN Before(target, u) ELSE Before(u, target)
        BY <2>3, <2>4, <3>1, NextSpace
      <4>2. QED
        BY <3>2, <4>1
    <3>4. current = focus
      BY <2>4, <3>3 DEF current
    <3>5. QED
      BY <1>7, <1>9, <2>3, <2>4, <2>5, <3>3, <3>4 DEF CalmAt, SpaceChosen
  <2>6. CASE asked[p] = "up"
    <3>1. ~Forward(p) /\ Forward(p) \in BOOLEAN /\ target = AdjacentInOrder(SidebarOrder(open), current, Forward(p))
      BY <2>6 DEF Forward
    <3> HIDE DEF target, current
    <3>2. /\ {target, current} \subseteq Shown /\ Before(target, current)
          /\ \A u \in Shown \ {target} : Before(u, current) => Before(u, target)
      BY <2>3, <2>4, <3>1, NextSpace
    <3>3. current = focus
      BY <2>4, <3>2 DEF current
    <3>4. QED
      BY <1>7, <1>9, <2>3, <2>4, <2>6, <3>2, <3>3 DEF CalmAt, SpaceChosen
  <2>7. QED
    BY <2>2, <2>5, <2>6
<1>11. CASE ListPanes(p)
  <2>1. asked[p] \in Dirs /\ asked[p] \notin {"up", "down"}
    BY <1>11, WorkspacesAssumption DEF ListPanes, PressTypes, Asking
  <2>2. CASE AtDirectory(asked[p]) = {} /\ Goto(p, "create") /\ UNCHANGED <<asked, seen, goal, calm>>
    <3>1. pc'[p] = "create"
      BY <1>1, <2>2
    <3>2. QED
      BY <1>7, <1>9, <2>2, <3>1 DEF CalmAt, Calm
  <2>3. ASSUME NEW w \in AtDirectory(asked[p]), Decide(p, w, "space") PROVE CalmAt(p)'
    <3>1. /\ pc'[p] = "space" /\ goal'[p] = w /\ UNCHANGED <<asked, seen, calm>>
          /\ seen[p] = [space |-> focus, tab |-> active[focus]]
      BY <1>6, <2>3
    <3>2. QED
      BY <1>7, <1>9, <2>1, <2>3, <3>1 DEF CalmAt, SpaceChosen
  <2>4. QED
    BY <1>11, <2>2, <2>3 DEF ListPanes
<1>12. QED
  BY <1>2, <1>4, <1>5, <1>8, <1>10, <1>11 DEF Press, FocusTab, FocusSpace, Create

LEMMA CalmHolds == Spec => []Calm
<1>1. Init => Calm
  BY DEF Init, Calm, CalmAt
<1>2. TypeInv /\ Calm /\ [Next]_vars => Calm'
  <2> SUFFICES ASSUME TypeInv, Calm, [Next]_vars, NEW q \in Procs PROVE CalmAt(q)'
    BY DEF Calm
  <2>1. HerdrTypes /\ PressTypes /\ CalmAt(q)
    BY TwoHalves DEF Calm
  <2>2. CASE UNCHANGED vars
    BY <2>1, <2>2, CalmKept DEF vars, procVars
  <2>3. ASSUME NEW p \in Procs, Press(p) PROVE CalmAt(q)'
    <3>1. CASE ~calm'[q]
      BY <3>1 DEF CalmAt
    <3>2. CASE calm'[q] /\ q = p
      BY <2>1, <2>3, <3>2, Alone, CalmStep
    <3>3. CASE calm'[q] /\ q # p
      <4>1. UNCHANGED herdrVars
        BY <2>1, <2>3, <3>3, Alone
      <4>2. pc'[q] = pc[q] /\ asked'[q] = asked[q] /\ seen'[q] = seen[q] /\ goal'[q] = goal[q] /\ (calm'[q] => calm[q])
        BY <2>1, <2>3, <3>3, Alone
      <4>3. QED
        BY <2>1, <4>1, <4>2, CalmKept
    <3>4. QED
      BY <3>1, <3>2, <3>3
  <2>4. CASE Others \/ \E w \in Ids : Publish(w)
    BY <2>4 DEF Others, Publish, CalmAt
  <2>5. QED
    BY <2>2, <2>3, <2>4 DEF Next
<1>3. QED
  BY <1>1, <1>2, Typed, PTL DEF Spec

\* A decision for nothing is right at the end of the tabs, or of the sidebar.
LEMMA StaysRightly ==
    ASSUME HerdrTypes, PressTypes, NEW p \in Procs, CalmAt(p), calm[p],
           ListTabs(p) \/ ListSpaces(p) \/ ListPanes(p), pc'[p] = "done"
    PROVE  Meant(p)
<1>1. pc \in [Procs -> Labels] /\ seen[p].space = focus /\ seen[p].tab = active[focus]
  BY DEF PressTypes, CalmAt
<1>2. ASSUME NEW target, NEW next \in {"tab", "space"}, Decide(p, target, next) PROVE target = None
  BY <1>1, <1>2 DEF Decide, Goto
<1>3. CASE ListTabs(p)
  <2> DEFINE target == IF asked[p] = "label" THEN FirstLabelled(tabs[focus])
                       ELSE AdjacentByNumber(tabs[focus], active[focus], Forward(p))
  <2>1. Decide(p, target, "tab") /\ UNCHANGED <<focus, active>> /\ asked[p] \in {"left", "right", "label"}
    BY <1>3, TabDecided DEF herdrVars
  <2>2. target = None
    <3> HIDE DEF target
    <3>1. QED
      BY <1>2, <2>1
  <2>3. tabs[focus] \in SUBSET Tabs /\ active[focus] \in tabs[focus]
    BY DEF HerdrTypes
  <2>4. CASE asked[p] = "label"
    <3>1. tabs[focus] \cap Labelled = {}
      BY <2>2, <2>3, <2>4, LabelledTab
    <3>2. QED
      BY <1>1, <2>1, <2>4, <3>1 DEF Meant
  <2>5. CASE asked[p] = "right"
    <3>1. Forward(p) = TRUE /\ AdjacentByNumber(tabs[focus], active[focus], Forward(p)) = None
      BY <2>2, <2>5 DEF Forward
    <3>2. \A u \in tabs[focus] : ~ (active[focus] < u)
      BY <2>3, <3>1, NextTab
    <3>3. {u \in tabs[focus] : active[focus] < u} = {}
      BY <3>2
    <3>4. QED
      BY <1>1, <2>1, <2>5, <3>3 DEF Meant, NextTo
  <2>6. CASE asked[p] = "left"
    <3>1. Forward(p) = FALSE /\ AdjacentByNumber(tabs[focus], active[focus], Forward(p)) = None
      BY <2>2, <2>6 DEF Forward
    <3>2. \A u \in tabs[focus] : ~ (u < active[focus])
      BY <2>3, <3>1, NextTab
    <3>3. {u \in tabs[focus] : active[focus] > u} = {}
      <4>1. active[focus] \in Nat /\ tabs[focus] \subseteq Nat
        BY <2>3, WorkspacesAssumption
      <4>2. QED
        BY <3>2, <4>1
    <3>4. QED
      BY <1>1, <2>1, <2>6, <3>3 DEF Meant, NextTo
  <2>7. QED
    BY <2>1, <2>4, <2>5, <2>6
<1>4. CASE ListSpaces(p)
  <2> DEFINE current == IF focus \in Shown THEN focus ELSE None
             target == AdjacentInOrder(SidebarOrder(open), current, Forward(p))
  <2>1. Decide(p, target, "space") /\ UNCHANGED focus /\ asked[p] \in {"up", "down"}
    BY <1>4, SpaceDecided DEF herdrVars
  <2>2. target = None
    <3> HIDE DEF target
    <3>1. QED
      BY <1>2, <2>1
  <2>3. Listing /\ current \in Shown \cup {None} /\ None \notin Shown /\ focus \in Open
    BY Numbered DEF HerdrTypes, Shown
  <2>4. CASE focus \in Hidden
    BY <1>1, <2>1, <2>4 DEF Meant
  <2>5. CASE focus \notin Hidden
    <3>1. current = focus /\ focus # None
      BY <2>3, <2>5 DEF Shown
    <3> HIDE DEF current
    <3>2. CASE asked[p] = "down"
      <4>1. Forward(p) = TRUE
        BY <3>2 DEF Forward
      <4>2. \A u \in Shown : ~Before(focus, u)
        BY <2>2, <2>3, <3>1, <4>1, NextSpace
      <4>3. {u \in Shown : Before(focus, u)} = {}
        BY <4>2
      <4>4. QED
        BY <1>1, <2>1, <2>5, <3>2, <4>3 DEF Meant, NextTo
    <3>3. CASE asked[p] = "up"
      <4>1. Forward(p) = FALSE
        BY <3>3 DEF Forward
      <4>2. \A u \in Shown : ~Before(u, focus)
        BY <2>2, <2>3, <3>1, <4>1, NextSpace
      <4>3. {u \in Shown : Before(u, focus)} = {}
        BY <4>2
      <4>4. QED
        BY <1>1, <2>1, <2>5, <3>3, <4>3 DEF Meant, NextTo
    <3>4. QED
      BY <2>1, <3>2, <3>3
  <2>6. QED
    BY <2>4, <2>5
<1>5. CASE ListPanes(p)
  <2>1. CASE Goto(p, "create")
    BY <1>1, <2>1 DEF Goto
  <2>2. CASE \E w \in AtDirectory(asked[p]) : Decide(p, w, "space")
    <3>1. None \in AtDirectory(asked[p])
      BY <1>2, <2>2
    <3>2. None \notin Open
      BY Numbered DEF HerdrTypes
    <3>3. QED
      BY <3>1, <3>2 DEF AtDirectory
  <2>3. QED
    BY <1>5, <2>1, <2>2 DEF ListPanes
<1>6. QED
  BY <1>3, <1>4, <1>5

\* What was decided for is what was meant.
LEMMA ActsRightly ==
    ASSUME HerdrTypes, PressTypes, NEW p \in Procs, CalmAt(p), calm[p],
           FocusTab(p) \/ FocusSpace(p) \/ Create(p)
    PROVE  Meant(p)
<1>1. seen[p].space = focus /\ seen[p].tab = active[focus] /\ Listing
  BY DEF CalmAt, HerdrTypes
<1>2. CASE FocusTab(p)
  <2>1. /\ TabChosen(p) /\ asked[p] \in {"left", "right", "label"} /\ focus' = focus
        /\ active' = [active EXCEPT ![focus] = goal[p]]
    BY <1>1, <1>2 DEF FocusTab, CalmAt, PressTypes, Asking
  <2>2. active'[focus] = goal[p] /\ tabs[focus] \subseteq Nat /\ active[focus] \in Nat /\ goal[p] \in tabs[focus]
    BY <2>1, WorkspacesAssumption DEF HerdrTypes, TabChosen
  <2>3. CASE asked[p] = "label"
    BY <1>1, <2>1, <2>2, <2>3 DEF Meant, TabChosen
  <2>4. CASE asked[p] = "right"
    <3> DEFINE after == {t \in tabs[focus] : active[focus] < t}
    <3>1. goal[p] \in after /\ \A t \in after \ {goal[p]} : goal[p] < t
      BY <2>1, <2>2, <2>4 DEF TabChosen
    <3>2. \A t \in after : (\A u \in after \ {t} : t < u) => t = goal[p]
      BY <2>2, <3>1
    <3>3. (CHOOSE t \in after : \A u \in after \ {t} : t < u) = goal[p]
      BY <3>1, <3>2
    <3>4. QED
      BY <1>1, <2>1, <2>2, <2>4, <3>1, <3>3 DEF Meant, NextTo
  <2>5. CASE asked[p] = "left"
    <3> DEFINE after == {t \in tabs[focus] : active[focus] > t}
    <3>1. goal[p] \in after /\ \A t \in after \ {goal[p]} : goal[p] > t
      BY <2>1, <2>2, <2>5 DEF TabChosen
    <3>2. \A t \in after : (\A u \in after \ {t} : t > u) => t = goal[p]
      BY <2>2, <3>1
    <3>3. (CHOOSE t \in after : \A u \in after \ {t} : t > u) = goal[p]
      BY <3>1, <3>2
    <3>4. QED
      BY <1>1, <2>1, <2>2, <2>5, <3>1, <3>3 DEF Meant, NextTo
  <2>6. QED
    BY <2>1, <2>3, <2>4, <2>5
<1>3. CASE FocusSpace(p)
  <2>1. /\ SpaceChosen(p) /\ asked[p] \in {"up", "down"} \cup Dirs /\ focus' = goal[p]
        /\ UNCHANGED <<born, cwd>>
    BY <1>3 DEF FocusSpace, CalmAt, PressTypes, Asking
  <2>2. CASE asked[p] = "down"
    <3> DEFINE after == {w \in Shown : Before(focus, w)}
    <3>1. focus \in Shown /\ focus \notin Hidden /\ goal[p] \in after
          /\ \A w \in after \ {goal[p]} : Before(goal[p], w)
      BY <2>1, <2>2 DEF SpaceChosen, Shown
    <3>2. \A w \in after : (\A u \in after \ {w} : Before(w, u)) => w = goal[p]
      BY <1>1, <3>1, BeforeOrders
    <3>3. (CHOOSE w \in after : \A u \in after \ {w} : Before(w, u)) = goal[p]
      BY <3>1, <3>2
    <3>4. QED
      BY <1>1, <2>1, <2>2, <3>1, <3>3 DEF Meant, NextTo
  <2>3. CASE asked[p] = "up"
    <3> DEFINE after == {w \in Shown : Before(w, focus)}
    <3>1. focus \in Shown /\ focus \notin Hidden /\ goal[p] \in after
          /\ \A w \in after \ {goal[p]} : Before(w, goal[p])
      BY <2>1, <2>3 DEF SpaceChosen, Shown
    <3>2. \A w \in after : (\A u \in after \ {w} : Before(u, w)) => w = goal[p]
      BY <1>1, <3>1, BeforeOrders
    <3>3. (CHOOSE w \in after : \A u \in after \ {w} : Before(u, w)) = goal[p]
      BY <3>1, <3>2
    <3>4. QED
      BY <1>1, <2>1, <2>3, <3>1, <3>3 DEF Meant, NextTo
  <2>4. CASE asked[p] \in Dirs
    <3>1. cwd'[focus'] = asked[p] /\ born' = born
      BY <2>1, <2>4 DEF SpaceChosen, AtDirectory
    <3>2. asked[p] \notin {"left", "right", "up", "down", "label"}
      BY <2>4, WorkspacesAssumption
    <3>3. QED
      BY <3>1, <3>2 DEF Meant
  <2>5. QED
    BY <2>1, <2>2, <2>3, <2>4
<1>4. CASE Create(p)
  <2>1. asked[p] \notin {"left", "right", "up", "down", "label"} /\ AtDirectory(asked[p]) = {}
    BY <1>4, WorkspacesAssumption DEF Create, CalmAt, PressTypes, Asking
  <2>2. dir'[focus'] = asked[p]
    BY <1>4 DEF Create, HerdrTypes
  <2>3. QED
    BY <2>1, <2>2 DEF Meant
<1>5. QED
  BY <1>2, <1>3, <1>4

\* "navigate focuses a pane in dir, falling back to tabs or workspaces at
\* edges" (navigate.go:28): whatever workspaces and tabs there are, a key that
\* nothing came between leads to the next one in the sidebar or of the tabs, to
\* the directory picked, and nowhere at the end.
THEOREM GoesRight == Spec => GoesWhereMeant
<1>1. TypeInv /\ Calm /\ [Next]_vars =>
        [\A p \in Procs : calm[p] /\ pc[p] \notin {"edges", "done"} /\ pc'[p] = "done" => Meant(p)]_vars
  <2> SUFFICES ASSUME TypeInv, Calm, Next, NEW p \in Procs,
                      calm[p], pc[p] \notin {"edges", "done"}, pc'[p] = "done"
               PROVE  Meant(p)
    OBVIOUS
  <2>1. HerdrTypes /\ PressTypes /\ CalmAt(p)
    BY TwoHalves DEF Calm
  <2>2. PICK q \in Procs : Press(q)
    BY DEF Next, Others, Publish, procVars
  <2>3. q = p
    BY <2>1, <2>2, Alone
  <2>4. ~ (Navigate(p) \/ FocusTabLabel(p) \/ Pick(p) \/ Edges(p))
    BY <2>1 DEF Navigate, FocusTabLabel, Pick, Edges, Start, CalmAt
  <2>5. QED
    BY <2>1, <2>2, <2>3, <2>4, StaysRightly, ActsRightly DEF Press
<1>2. QED
  BY <1>1, Typed, CalmHolds, PTL DEF Spec, GoesWhereMeant
=============================================================================
