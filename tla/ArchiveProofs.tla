--------------------------- MODULE ArchiveProofs ---------------------------
(***************************************************************************)
(* The properties of Archive, for any trees, any number of commands and    *)
(* edits, and commands that fail or are killed anywhere.  ArchiveInv says  *)
(* how far a command has got with the tree it archives (Taken) and with    *)
(* the archive it extracts (Unpacked): as members come in the order of     *)
(* their paths, everything on the way to the next one is already there, so *)
(* that a whole archive leads back to its tree and no check refuses a      *)
(* plain one.  Removable is why a failed extraction leaves nothing.        *)
(***************************************************************************)
EXTENDS Archive, FiniteSetTheorems, SequenceTheorems, TLAPS

\* Sets of numbers have a least one.
LEMMA Least == ASSUME NEW T \in SUBSET Nat, T # {} PROVE \E m \in T : \A k \in T : m <= k
<1>1. PICK n \in T : TRUE
  OBVIOUS
<1> DEFINE S == 0 .. n
           starts == {0 .. m : m \in {k \in T : k <= n}}
<1>2. IsWellFoundedOn(StrictSubsetOrdering(S), SUBSET S)
  <2>1. n \in Int /\ 0 \in Int
    BY <1>1
  <2>2. IsFiniteSet(S)
    BY <2>1, FS_Interval
  <2>3. QED
    BY <2>2, FS_FiniteSubsetsOfFinite, FS_StrictSubsetOrderingWellFounded
<1>3. starts \subseteq SUBSET S /\ starts # {}
  BY <1>1
<1>4. PICK x \in starts : \A y \in starts : ~ (<<y, x>> \in StrictSubsetOrdering(S))
  BY <1>2, <1>3, WFMin
<1>5. PICK m \in T : m <= n /\ x = 0 .. m
  BY <1>4
<1>6. ASSUME NEW k \in T, k < m PROVE FALSE
  <2>1. 0 .. k \in starts
    BY <1>1, <1>5, <1>6
  <2>2. 0 .. k \subseteq 0 .. m /\ m \in 0 .. m /\ m \notin 0 .. k
    BY <1>5, <1>6
  <2>3. <<0 .. k, x>> \in StrictSubsetOrdering(S)
    BY <1>3, <1>4, <1>5, <2>1, <2>2 DEF StrictSubsetOrdering
  <2>4. QED
    BY <1>4, <2>1, <2>3
<1>7. QED
  BY <1>6

-----------------------------------------------------------------------------
\* What the command reads, holds and writes.
Tree(tree) ==
    /\ DOMAIN tree \subseteq Paths /\ IsFiniteSet(DOMAIN tree)
    /\ tree \in [DOMAIN tree -> NodeRecords]
    /\ <<>> \in DOMAIN tree /\ tree[<<>>].kind = "dir" /\ IsTree(tree)
MemberRecords == [path : Paths \ {<<>>}, node : NodeRecords]
Members(ms) ==
    /\ ms \subseteq MemberRecords /\ IsFiniteSet(ms)
    /\ \A m, n \in ms : m.path = n.path => m = n
IsArchive ==
    /\ archive \in [members : SUBSET MemberRecords, state : {"whole", "cut", "torn"}]
    /\ Members(archive.members)

Typed ==
    /\ Tree(source)
    /\ original # None => Tree(original)
    /\ out = NoTree \/ Tree(out)
    /\ archive # None \/ pc \in {"write", "mkdir", "unpack"} => IsArchive
    /\ pc \in {"list", "stat"} => archive = None
    /\ pc \in {"idle", "list", "mkdir"} => todo = {} /\ entries = {}
    /\ pc = "stat" =>
          /\ todo \subseteq Paths \ {<<>>} /\ IsFiniteSet(todo)
          /\ Members(entries) /\ \A e \in entries : e.path \notin todo
    /\ pc = "write" =>
          /\ archive.state = "cut" /\ Members(todo)
          /\ \A m \in todo, n \in archive.members : m.path # n.path
    /\ pc = "unpack" => todo \subseteq archive.members /\ Tree(out)
    /\ pc \in {"idle", "list", "stat", "write", "mkdir", "unpack"}
    /\ outcome \in {"none", "created", "notcreated", "exists", "extracted", "refused",
                    "failed", "notmade", "killed"}
    /\ pc # "idle" => outcome = "none"
    /\ runs \in 0..Runs /\ edits \in 0..Edits

\* The archive of a tree, and how far one of the original has got.
Member(tree, p) == [path |-> p, node |-> tree[p]]
AllOf(tree) == {Member(tree, p) : p \in Candidates(tree)}
Taken ==
    original # None =>
        /\ pc = "stat" =>
              /\ source = original /\ entries \subseteq AllOf(original) /\ todo \subseteq Candidates(original)
              /\ \A p \in Candidates(original) : p \in todo \/ Member(original, p) \in entries
        /\ pc = "write" => source = original /\ archive.members \cup todo = AllOf(original)
        /\ archive # None \/ pc \in {"mkdir", "unpack"} =>
              /\ archive.members \subseteq AllOf(original)
              /\ archive.state = "whole" => archive.members = AllOf(original)

\* What is extracted comes in order; what is in the output comes from it, with
\* the directories made on the way, of which a whole archive needs none.
Done == archive.members \ todo
Unpacked ==
    pc = "unpack" =>
        /\ out[<<>>].writable
        /\ \A d \in Done, m \in todo : Less(d.path, m.path)
        /\ \A d \in Done : d.path \in DOMAIN out /\ out[d.path] = d.node
        /\ \A p \in Candidates(out) : \E d \in Done : p \in Prefixes(d.path)
        /\ archive.state = "whole" /\ original # None =>
              \A p \in Candidates(out) : \E d \in Done : p = d.path

\* rmtree can empty every directory.
Removable == \A p \in DOMAIN out : out[p].writable \/ Children(out, p) = {}

ArchiveInv ==
    Typed /\ Taken /\ Unpacked /\ Removable /\ RoundTrip /\ Extractable /\ FailureLeavesNothing
-----------------------------------------------------------------------------
\* The order of paths, by the first place where two of them differ.
Differ(p, q, i) ==
    /\ i \in 1 .. Len(q) /\ i <= Len(p) + 1
    /\ \A j \in 1 .. i - 1 : p[j] = q[j]
    /\ i <= Len(p) => p[i] < q[i]

LEMMA PathIs ==
    ASSUME NEW p \in Paths
    PROVE  Len(p) \in Nat /\ DOMAIN p = 1 .. Len(p) /\ \A i \in 1 .. Len(p) : p[i] \in Nat
BY DEF Paths

LEMMA StartIs ==
    ASSUME NEW p \in Paths, NEW n \in 0 .. Len(p)
    PROVE  /\ SubSeq(p, 1, n) \in Paths /\ Len(SubSeq(p, 1, n)) = n
           /\ \A j \in 1 .. n : SubSeq(p, 1, n)[j] = p[j]
BY SubSeqProperties DEF Paths

LEMMA SameStart ==
    ASSUME NEW p \in Paths, NEW q \in Paths, NEW n \in 0 .. Len(p), n <= Len(q)
    PROVE  SubSeq(p, 1, n) = SubSeq(q, 1, n) <=> \A j \in 1 .. n : p[j] = q[j]
<1>1. n \in 0 .. Len(q)
  BY PathIs
<1>2. /\ SubSeq(p, 1, n) \in Paths /\ SubSeq(q, 1, n) \in Paths
      /\ Len(SubSeq(p, 1, n)) = n /\ Len(SubSeq(q, 1, n)) = n
      /\ \A j \in 1 .. n : SubSeq(p, 1, n)[j] = p[j] /\ SubSeq(q, 1, n)[j] = q[j]
  BY <1>1, StartIs
<1>3. ASSUME \A j \in 1 .. n : p[j] = q[j] PROVE SubSeq(p, 1, n) = SubSeq(q, 1, n)
  <2> DEFINE s == SubSeq(p, 1, n)
             t == SubSeq(q, 1, n)
  <2>1. s \in Seq(Nat) /\ t \in Seq(Nat) /\ Len(s) = Len(t) /\ \A i \in 1 .. Len(s) : s[i] = t[i]
    BY <1>2, <1>3 DEF Paths
  <2> HIDE DEF s, t
  <2>2. s = t
    BY <2>1, SeqEqual
  <2> QED
    BY <2>2 DEF s, t
<1> QED
  BY <1>2, <1>3

LEMMA LessIs ==
    ASSUME NEW p \in Paths, NEW q \in Paths
    PROVE  Less(p, q) <=> \E i \in Nat : Differ(p, q, i)
<1>1. /\ Len(p) \in Nat /\ DOMAIN p = 1 .. Len(p) /\ \A i \in 1 .. Len(p) : p[i] \in Nat
      /\ Len(q) \in Nat /\ DOMAIN q = 1 .. Len(q) /\ \A i \in 1 .. Len(q) : q[i] \in Nat
  BY PathIs
<1>2. IsStrictPrefix(p, q) <=> Differ(p, q, Len(p) + 1)
  <2>1. CASE Len(p) <= Len(q)
    <3>1. Len(p) \in 0 .. Len(p)
      BY <1>1
    <3>2. IsPrefix(p, q) <=> \A j \in 1 .. Len(p) : p[j] = q[j]
      BY <2>1, <3>1, SameStart DEF IsPrefix
    <3>3. Len(p) = Len(q) => (p = q <=> \A j \in 1 .. Len(p) : p[j] = q[j])
      BY SeqEqual DEF Paths
    <3>4. Len(p) # Len(q) => p # q
      OBVIOUS
    <3>5. Differ(p, q, Len(p) + 1) <=> Len(p) < Len(q) /\ \A j \in 1 .. Len(p) : p[j] = q[j]
      BY <1>1, <2>1 DEF Differ
    <3>6. CASE Len(p) = Len(q)
      BY <1>1, <3>2, <3>3, <3>5, <3>6 DEF IsStrictPrefix
    <3>7. CASE Len(p) # Len(q)
      <4>1. Len(p) < Len(q)
        <5>1. Len(p) \in Nat /\ Len(q) \in Nat
          BY <1>1
        <5> QED
          BY <5>1, <2>1, <3>7
      <4> QED
        BY <4>1, <3>2, <3>4, <3>5, <3>7 DEF IsStrictPrefix
    <3> QED
      BY <3>6, <3>7
  <2>2. CASE ~(Len(p) <= Len(q))
    BY <1>1, <2>2 DEF Differ, IsStrictPrefix, IsPrefix
  <2> QED
    BY <2>1, <2>2
<1>3. ASSUME NEW i \in DOMAIN p \cap DOMAIN q
      PROVE  p[i] < q[i] /\ SubSeq(p, 1, i - 1) = SubSeq(q, 1, i - 1) <=> Differ(p, q, i)
  <2>1. i \in Nat /\ i - 1 \in 0 .. Len(p) /\ i - 1 <= Len(q) /\ i <= Len(p) /\ i \in 1 .. Len(q)
    BY <1>1, <1>3
  <2>2. SubSeq(p, 1, i - 1) = SubSeq(q, 1, i - 1) <=> \A j \in 1 .. i - 1 : p[j] = q[j]
    BY <2>1, SameStart
  <2> QED
    BY <1>1, <2>1, <2>2 DEF Differ
<1>4. ASSUME NEW i \in Nat, Differ(p, q, i), i # Len(p) + 1 PROVE i \in DOMAIN p \cap DOMAIN q
  BY <1>1, <1>4 DEF Differ
<1>5. ASSUME Less(p, q) PROVE \E i \in Nat : Differ(p, q, i)
  <2>1. CASE IsStrictPrefix(p, q)
    BY <1>1, <1>2, <2>1
  <2>2. CASE \E i \in DOMAIN p \cap DOMAIN q : p[i] < q[i] /\ SubSeq(p, 1, i - 1) = SubSeq(q, 1, i - 1)
    <3>1. PICK i \in DOMAIN p \cap DOMAIN q : p[i] < q[i] /\ SubSeq(p, 1, i - 1) = SubSeq(q, 1, i - 1)
      BY <2>2
    <3> QED
      BY <1>1, <1>3, <3>1
  <2> QED
    BY <1>5, <2>1, <2>2 DEF Less
<1>6. ASSUME NEW i \in Nat, Differ(p, q, i) PROVE Less(p, q)
  <2>1. CASE i = Len(p) + 1
    BY <1>2, <1>6, <2>1 DEF Less
  <2>2. CASE i # Len(p) + 1
    <3>1. i \in DOMAIN p \cap DOMAIN q
      BY <1>4, <1>6, <2>2
    <3>2. p[i] < q[i] /\ SubSeq(p, 1, i - 1) = SubSeq(q, 1, i - 1)
      BY <1>3, <1>6, <3>1
    <3> QED
      BY <3>1, <3>2 DEF Less
  <2> QED
    BY <2>1, <2>2
<1> QED
  BY <1>5, <1>6

LEMMA LessTransitive ==
    ASSUME NEW p \in Paths, NEW q \in Paths, NEW r \in Paths, Less(p, q), Less(q, r)
    PROVE  Less(p, r)
<1>1. PICK i \in Nat : Differ(p, q, i)
  BY LessIs
<1>2. PICK k \in Nat : Differ(q, r, k)
  BY LessIs
<1>3. /\ Len(p) \in Nat /\ \A j \in 1 .. Len(p) : p[j] \in Nat
      /\ Len(q) \in Nat /\ \A j \in 1 .. Len(q) : q[j] \in Nat
      /\ Len(r) \in Nat /\ \A j \in 1 .. Len(r) : r[j] \in Nat
  BY PathIs
<1>4. CASE i < k
  <2>1. \A j \in 1 .. i : q[j] = r[j]
    BY <1>2, <1>4 DEF Differ
  <2>2. Differ(p, r, i)
    BY <1>1, <1>2, <1>3, <1>4, <2>1 DEF Differ
  <2> QED
    BY <2>2, LessIs
<1>5. CASE i = k
  <2>1. Differ(p, r, i)
    BY <1>1, <1>2, <1>3, <1>5 DEF Differ
  <2> QED
    BY <2>1, LessIs
<1>6. CASE k < i
  <2>1. \A j \in 1 .. k : p[j] = q[j]
    BY <1>1, <1>6 DEF Differ
  <2>2. Differ(p, r, k)
    BY <1>1, <1>2, <1>3, <1>6, <2>1 DEF Differ
  <2> QED
    BY <2>2, LessIs
<1> QED
  BY <1>4, <1>5, <1>6

LEMMA LessStrict == ASSUME NEW p \in Paths PROVE ~Less(p, p)
<1>1. \A i \in Nat : ~Differ(p, p, i)
  BY PathIs DEF Differ
<1> QED
  BY <1>1, LessIs

LEMMA LessTotal ==
    ASSUME NEW p \in Paths, NEW q \in Paths, p # q
    PROVE  Less(p, q) \/ Less(q, p)
<1>1. /\ Len(p) \in Nat /\ \A i \in 1 .. Len(p) : p[i] \in Nat
      /\ Len(q) \in Nat /\ \A i \in 1 .. Len(q) : q[i] \in Nat
  BY PathIs
<1> DEFINE D == {i \in Nat \ {0} :
                i \in {Len(p) + 1, Len(q) + 1} \/ (i \in 1 .. Len(p) /\ i \in 1 .. Len(q) /\ p[i] # q[i])}
<1>2. D \in SUBSET Nat /\ D # {}
  <2>1. Len(p) + 1 \in D
    BY <1>1
  <2> QED
    BY <2>1
<1>3. PICK i \in D : \A k \in D : i <= k
  BY <1>2, Least
<1>4. i \in Nat \ {0} /\ i <= Len(p) + 1 /\ i <= Len(q) + 1
  BY <1>1, <1>3
<1>5. \A j \in 1 .. i - 1 : j \in 1 .. Len(p) /\ j \in 1 .. Len(q) /\ p[j] = q[j]
  BY <1>1, <1>3, <1>4
<1>6. ASSUME i = Len(p) + 1, i = Len(q) + 1 PROVE FALSE
  BY <1>1, <1>5, <1>6, SeqEqual DEF Paths
<1>7. CASE i = Len(p) + 1
  <2>1. Differ(p, q, i)
    BY <1>1, <1>4, <1>5, <1>6, <1>7 DEF Differ
  <2> QED
    BY <1>4, <2>1, LessIs
<1>8. CASE i = Len(q) + 1
  <2>1. Differ(q, p, i)
    BY <1>1, <1>4, <1>5, <1>6, <1>8 DEF Differ
  <2> QED
    BY <1>4, <2>1, LessIs
<1>9. CASE i # Len(p) + 1 /\ i # Len(q) + 1
  <2>1. i \in 1 .. Len(p) /\ i \in 1 .. Len(q) /\ p[i] # q[i]
    BY <1>3, <1>9
  <2>2. Differ(p, q, i) \/ Differ(q, p, i)
    BY <1>1, <1>5, <2>1 DEF Differ
  <2> QED
    BY <1>4, <2>2, LessIs
<1> QED
  BY <1>7, <1>8, <1>9

\* The first member of those that are left is before all others.
LEMMA FirstIs ==
    ASSUME NEW ms \in SUBSET MemberRecords, Members(ms), ms # {}
    PROVE  First(ms) \in ms /\ \A o \in ms \ {First(ms)} : Less(First(ms).path, o.path)
<1> DEFINE After(m) == {o \in ms : Less(m.path, o.path)}
           Before(m) == Cardinality(ms) - Cardinality(After(m))
           counts == {Before(m) : m \in ms}
<1>1. \A m \in ms : m.path \in Paths
  BY DEF MemberRecords
<1>2. \A m, n \in ms : m # n => Less(m.path, n.path) \/ Less(n.path, m.path)
  BY <1>1, LessTotal DEF Members
<1>3. IsFiniteSet(ms) /\ Cardinality(ms) \in Nat
  BY FS_CardinalityType DEF Members
<1>4. \A m \in ms : IsFiniteSet(After(m)) /\ Cardinality(After(m)) \in 0 .. Cardinality(ms)
  <2> TAKE m \in ms
  <2>1. IsFiniteSet(After(m)) /\ Cardinality(After(m)) <= Cardinality(ms)
    BY <1>3, FS_Subset
  <2> QED
    BY <2>1, <1>3, FS_CardinalityType
<1>5. \A m \in ms : Before(m) \in Nat
  BY <1>3, <1>4
<1>6. PICK m \in ms : \A o \in ms : Before(m) <= Before(o)
  <2> HIDE DEF Before
  <2>1. counts \in SUBSET Nat /\ counts # {}
    BY <1>5
  <2>2. PICK c \in counts : \A k \in counts : c <= k
    BY <2>1, Least
  <2> QED
    BY <2>2
<1>7. ASSUME NEW o \in ms, o # m, ~Less(m.path, o.path) PROVE FALSE
  <2>1. Less(o.path, m.path)
    BY <1>2, <1>7
  <2>2. After(m) \subseteq After(o)
    BY <1>1, <1>7, <2>1, LessTransitive
  <2>3. m \in After(o) /\ m \notin After(m)
    BY <1>1, <2>1, LessStrict
  <2>4. /\ Cardinality(After(m)) <= Cardinality(After(o))
        /\ Cardinality(After(o)) # Cardinality(After(m))
    <3>1. IsFiniteSet(After(o)) /\ After(m) \in SUBSET After(o) /\ After(m) # After(o)
      BY <1>4, <2>2, <2>3
    <3> HIDE DEF After
    <3> QED
      BY <3>1, FS_Subset
  <2>5. Cardinality(After(m)) \in Nat /\ Cardinality(After(o)) \in Nat /\ Before(m) <= Before(o)
    <3>1. Before(m) <= Before(o)
      BY <1>6, <1>7
    <3>2. Cardinality(After(m)) \in Nat /\ Cardinality(After(o)) \in Nat
      BY <1>4, <1>7, FS_CardinalityType
    <3> QED
      BY <3>1, <3>2
  <2> HIDE DEF After
  <2> QED
    BY <1>3, <2>4, <2>5
<1> QED
  BY <1>7 DEF First

-----------------------------------------------------------------------------
\* Paths and the directories on the way.
LEMMA PrefixesAre ==
    ASSUME NEW p \in Paths
    PROVE  /\ \A q \in Prefixes(p) :
                 q \in Paths /\ Len(q) <= Len(p) /\ (\A j \in 1 .. Len(q) : q[j] = p[j])
           /\ \A q \in Paths : Len(q) <= Len(p) /\ (\A j \in 1 .. Len(q) : q[j] = p[j]) => q \in Prefixes(p)
           /\ <<>> \in Prefixes(p) /\ p \in Prefixes(p)
<1>1. Len(p) \in Nat
  BY PathIs
<1>2. ASSUME NEW q \in Prefixes(p)
      PROVE  q \in Paths /\ Len(q) <= Len(p) /\ (\A j \in 1 .. Len(q) : q[j] = p[j])
  <2>1. PICK n \in 0 .. Len(p) : q = SubSeq(p, 1, n)
    BY <1>2 DEF Prefixes
  <2>2. q \in Paths /\ Len(q) = n /\ \A j \in 1 .. n : q[j] = p[j]
    BY <2>1, StartIs
  <2> QED
    BY <1>1, <2>2
<1>3. ASSUME NEW q \in Paths, Len(q) <= Len(p), \A j \in 1 .. Len(q) : q[j] = p[j]
      PROVE  q \in Prefixes(p)
  <2>1. Len(q) \in 0 .. Len(p)
    BY <1>1, <1>3, PathIs
  <2>2. SubSeq(p, 1, Len(q)) \in Paths /\ Len(SubSeq(p, 1, Len(q))) = Len(q)
        /\ \A j \in 1 .. Len(q) : SubSeq(p, 1, Len(q))[j] = p[j]
    BY <2>1, StartIs
  <2>3. q = SubSeq(p, 1, Len(q))
    <3> DEFINE s == SubSeq(p, 1, Len(q))
    <3>1. s \in Seq(Nat) /\ q \in Seq(Nat) /\ Len(s) = Len(q) /\ \A i \in 1 .. Len(s) : s[i] = q[i]
      BY <1>3, <2>2 DEF Paths
    <3> HIDE DEF s
    <3>2. q = s
      BY <3>1, SeqEqual
    <3> QED
      BY <3>2 DEF s
  <2> QED
    BY <2>1, <2>3 DEF Prefixes
<1>4. <<>> \in Prefixes(p) /\ p \in Prefixes(p)
  <2>1. <<>> \in Paths /\ Len(<<>>) = 0
    BY DEF Paths
  <2> QED
    BY <1>1, <1>3, <2>1
<1> QED
  BY <1>2, <1>3, <1>4

LEMMA FrontIs ==
    ASSUME NEW p \in Paths \ {<<>>}
    PROVE  /\ Front(p) \in Paths /\ Len(Front(p)) = Len(p) - 1 /\ Len(p) >= 1
           /\ Front(p) # p /\ Front(p) \in Prefixes(p)
           /\ Last(p) \in Nat /\ p = Append(Front(p), Last(p))
           /\ Prefixes(Front(p)) = Prefixes(p) \ {p}
<1>1. Len(p) \in Nat /\ Len(p) >= 1
  BY PathIs, EmptySeq DEF Paths
<1>2. /\ Front(p) \in Paths /\ Len(Front(p)) = Len(p) - 1
      /\ \A j \in 1 .. Len(p) - 1 : Front(p)[j] = p[j]
  <2>1. Len(p) - 1 \in 0 .. Len(p)
    BY <1>1
  <2> QED
    BY <2>1, StartIs DEF Front
<1>3. Front(p) \in Prefixes(p) /\ Front(p) # p
  BY <1>1, <1>2, PrefixesAre
<1>4. Last(p) \in Nat
  BY <1>1, PathIs DEF Last
<1>5. p = Append(Front(p), Last(p))
  <2> DEFINE s == Append(Front(p), Last(p))
  <2>1. s \in Seq(Nat) /\ p \in Seq(Nat) /\ Len(s) = Len(p) /\ \A i \in 1 .. Len(s) : s[i] = p[i]
    <3>1. Front(p) \in Seq(Nat) /\ p \in Seq(Nat)
      BY <1>2 DEF Paths
    <3>2. s \in Seq(Nat) /\ Len(s) = Len(Front(p)) + 1 /\ s[Len(Front(p)) + 1] = Last(p)
          /\ \A i \in 1 .. Len(Front(p)) : s[i] = Front(p)[i]
      BY <1>4, <3>1, AppendProperties
    <3> HIDE DEF s
    <3>3. Len(s) = Len(p) /\ s[Len(p)] = Last(p)
      BY <1>1, <1>2, <3>2
    <3>4. \A i \in 1 .. Len(p) - 1 : s[i] = p[i]
      BY <1>1, <1>2, <3>2
    <3> QED
      BY <1>1, <3>1, <3>2, <3>3, <3>4 DEF Last
  <2> HIDE DEF s
  <2>2. p = s
    BY <2>1, SeqEqual
  <2> QED
    BY <2>2 DEF s
<1>6. ASSUME NEW q \in Prefixes(Front(p)) PROVE q \in Prefixes(p) \ {p}
  <2>1. q \in Paths /\ Len(q) <= Len(Front(p)) /\ \A j \in 1 .. Len(q) : q[j] = Front(p)[j]
    BY <1>2, PrefixesAre
  <2>2. Len(q) \in Nat
    BY <2>1, PathIs
  <2>3. Len(q) <= Len(p) /\ q # p /\ \A j \in 1 .. Len(q) : q[j] = p[j]
    BY <1>1, <1>2, <2>1, <2>2
  <2> QED
    BY <2>1, <2>3, PrefixesAre
<1>7. ASSUME NEW q \in Prefixes(p), q # p PROVE q \in Prefixes(Front(p))
  <2>1. q \in Paths /\ Len(q) <= Len(p) /\ \A j \in 1 .. Len(q) : q[j] = p[j]
    BY PrefixesAre
  <2>2. Len(q) \in Nat
    BY <2>1, PathIs
  <2>3. Len(q) # Len(p)
    BY <1>7, <2>1, SeqEqual DEF Paths
  <2>4. Len(q) <= Len(Front(p)) /\ \A j \in 1 .. Len(q) : q[j] = Front(p)[j]
    BY <1>1, <1>2, <2>1, <2>2, <2>3
  <2> QED
    BY <1>2, <2>1, <2>4, PrefixesAre
<1> QED
  BY <1>1, <1>2, <1>3, <1>4, <1>5, <1>6, <1>7

LEMMA PrefixOfPrefix ==
    ASSUME NEW p \in Paths, NEW q \in Prefixes(p), NEW r \in Prefixes(q)
    PROVE  r \in Prefixes(p)
<1>1. q \in Paths /\ Len(q) <= Len(p) /\ \A j \in 1 .. Len(q) : q[j] = p[j]
  BY PrefixesAre
<1>2. r \in Paths /\ Len(r) <= Len(q) /\ \A j \in 1 .. Len(r) : r[j] = q[j]
  BY <1>1, PrefixesAre
<1>3. Len(p) \in Nat /\ Len(q) \in Nat /\ Len(r) \in Nat
  BY <1>1, <1>2, PathIs
<1> QED
  BY <1>1, <1>2, <1>3, PrefixesAre

\* What is on the way to a path comes before it.
LEMMA PrefixLess ==
    ASSUME NEW p \in Paths, NEW q \in Prefixes(p), q # p
    PROVE  Less(q, p)
<1>1. q \in Paths /\ Len(q) <= Len(p) /\ \A j \in 1 .. Len(q) : q[j] = p[j]
  BY PrefixesAre
<1>2. Len(p) \in Nat /\ Len(q) \in Nat
  BY <1>1, PathIs
<1>3. Len(q) # Len(p)
  BY <1>1, SeqEqual DEF Paths
<1>4. Differ(q, p, Len(q) + 1)
  BY <1>1, <1>2, <1>3 DEF Differ
<1> QED
  BY <1>1, <1>2, <1>4, LessIs

\* What is on the way to something in a tree is a directory.
LEMMA Ancestors ==
    ASSUME NEW tree, Tree(tree), NEW p \in DOMAIN tree, NEW q \in Prefixes(p)
    PROVE  q \in DOMAIN tree /\ (q # p => tree[q].kind = "dir")
<1>1. p \in Paths /\ Len(p) \in Nat
  BY PathIs DEF Tree
<1> DEFINE Dropped(n) == SubSeq(p, 1, Len(p) - n)
           Astray == {n \in 0 .. Len(p) : Dropped(n) \notin DOMAIN tree \/ (n # 0 /\ tree[Dropped(n)].kind # "dir")}
<1>2. Astray = {}
  <2> SUFFICES ASSUME Astray # {} PROVE FALSE
    OBVIOUS
  <2>1. PICK n \in Astray : \A k \in Astray : n <= k
    <3>1. Astray \in SUBSET Nat
      BY <1>1
    <3> QED
      BY <3>1, Least
  <2>2. CASE n = 0
    <3>1. Dropped(0) = p
      BY <1>1, SubSeqFull DEF Paths
    <3> QED
      BY <2>1, <2>2, <3>1
  <2>3. CASE n # 0
    <3>1. n - 1 \in 0 .. Len(p) /\ n - 1 \notin Astray /\ Len(p) - n \in 0 .. Len(p)
          /\ Len(p) - (n - 1) \in 0 .. Len(p) /\ Len(p) - (n - 1) = (Len(p) - n) + 1
      BY <1>1, <2>1, <2>3
    <3>2. Dropped(n - 1) \in DOMAIN tree
      BY <3>1
    <3>3. /\ Dropped(n - 1) \in Paths /\ Len(Dropped(n - 1)) = (Len(p) - n) + 1
          /\ \A j \in 1 .. Len(p) - n : Dropped(n - 1)[j] = p[j]
      BY <1>1, <3>1, StartIs
    <3>4. Front(Dropped(n - 1)) = Dropped(n)
      <4> DEFINE u == Dropped(n - 1)
                 m == Len(p) - n
      <4>1. u \in Paths /\ m \in Nat /\ m \in 0 .. Len(u) /\ m <= Len(p) /\ Len(u) - 1 = m
            /\ \A j \in 1 .. m : u[j] = p[j]
        BY <1>1, <3>1, <3>3
      <4> HIDE DEF u, m
      <4>2. SubSeq(u, 1, m) = SubSeq(p, 1, m)
        BY <1>1, <4>1, SameStart
      <4>3. Front(u) = SubSeq(p, 1, m)
        BY <4>1, <4>2 DEF Front
      <4> QED
        BY <4>3 DEF u, m
    <3>5. Dropped(n - 1) # <<>>
      <4> DEFINE u == Dropped(n - 1)
      <4>1. Len(u) # 0
        BY <1>1, <3>1, <3>3
      <4> HIDE DEF u
      <4>2. Len(<<>>) = 0
        BY EmptySeq
      <4>3. u # <<>>
        BY <4>1, <4>2
      <4> QED
        BY <4>3 DEF u
    <3>6. Front(Dropped(n - 1)) \in DOMAIN tree /\ tree[Front(Dropped(n - 1))].kind = "dir"
      BY <3>2, <3>5 DEF Tree, IsTree
    <3> QED
      BY <2>1, <3>4, <3>6
  <2> QED
    BY <2>2, <2>3
<1>3. PICK k \in 0 .. Len(p) : q = SubSeq(p, 1, k)
  BY DEF Prefixes
<1>4. Len(p) - k \in 0 .. Len(p) /\ Len(p) - (Len(p) - k) = k
  BY <1>1, <1>3
<1>5. q = Dropped(Len(p) - k)
  BY <1>3, <1>4
<1>6. q # p => Len(p) - k # 0
  BY <1>1, <1>3, SubSeqFull DEF Paths
<1> QED
  BY <1>2, <1>4, <1>5, <1>6

\* Walks follow one name after the other: there is one, for any links.
IsWalk(w, links, top, from, parts) ==
    w = [n \in 0 .. Steps + Len(parts) |->
            IF n = 0 THEN [at |-> from, parts |-> parts] ELSE Follow(links, top, w[n - 1])]

LEMMA WalkIs ==
    ASSUME NEW links, NEW top, NEW from, NEW parts, Len(parts) \in Nat
    PROVE  \E w : IsWalk(w, links, top, from, parts)
<1> DEFINE most == Steps + Len(parts)
           start == [at |-> from, parts |-> parts]
           WalkTo(w, m) == w = [n \in 0 .. m |-> IF n = 0 THEN start ELSE Follow(links, top, w[n - 1])]
           NoWalk(m) == \A w : ~WalkTo(w, m)
           Bad == {m \in Nat : NoWalk(m)}
<1>1. most \in Nat
  BY ArchiveAssumption
<1>2. Bad = {}
  <2> SUFFICES ASSUME Bad # {} PROVE FALSE
    OBVIOUS
  <2>1. PICK m \in Bad : \A k \in Bad : m <= k
    BY Least
  <2>2. CASE m = 0
    <3> DEFINE w == [n \in 0 .. 0 |-> start]
    <3>1. w = [n \in 0 .. 0 |-> IF n = 0 THEN start ELSE Follow(links, top, w[n - 1])]
      OBVIOUS
    <3>2. WalkTo(w, 0)
      BY <3>1
    <3> QED
      BY <2>1, <2>2, <3>2
  <2>3. CASE m # 0
    <3>1. m - 1 \in Nat /\ m - 1 \notin Bad
      BY <2>1, <2>3
    <3>2. PICK v : WalkTo(v, m - 1)
      BY <3>1
    <3> DEFINE w == [n \in 0 .. m |-> IF n = m THEN Follow(links, top, v[m - 1]) ELSE v[n]]
    <3>3. /\ DOMAIN v = 0 .. m - 1
          /\ v[0] = start
          /\ \A n \in 1 .. m - 1 : v[n] = Follow(links, top, v[n - 1])
      <4> HIDE DEF start
      <4>1. \A n \in 0 .. m - 1 : v[n] = IF n = 0 THEN start ELSE Follow(links, top, v[n - 1])
        BY <3>2
      <4> QED
        BY <3>1, <3>2, <4>1
    <3>4. \A n \in 0 .. m : w[n] = IF n = 0 THEN start ELSE Follow(links, top, w[n - 1])
      <4> HIDE DEF start
      <4> TAKE n \in 0 .. m
      <4>1. CASE n = 0
        BY <2>1, <2>3, <3>3, <4>1
      <4>2. CASE n \in 1 .. m - 1
        <5>1. n \in 0 .. m /\ n - 1 \in 0 .. m /\ n # m /\ n - 1 # m /\ n # 0
          BY <2>1, <4>2
        <5> QED
          BY <3>3, <4>2, <5>1
      <4>3. CASE n = m
        <5>1. m - 1 \in 0 .. m /\ m - 1 # m
          BY <2>1, <2>3
        <5> QED
          BY <2>3, <4>3, <5>1
      <4> QED
        BY <2>1, <2>3, <4>1, <4>2, <4>3
    <3>5. WalkTo(w, m)
      <4> HIDE DEF start
      <4>1. w = [n \in 0 .. m |-> w[n]]
        OBVIOUS
      <4> HIDE DEF w
      <4> QED
        BY <3>4, <4>1
    <3> QED
      BY <2>1, <3>5
  <2> QED
    BY <2>2, <2>3
<1>3. PICK w : WalkTo(w, most)
  BY <1>1, <1>2
<1> QED
  BY <1>3 DEF IsWalk

\* Places below the top are the top's name and a path.
LEMMA BelowTop ==
    ASSUME NEW top, NEW s \in Paths
    PROVE  /\ Head(<<top>> \o s) = top /\ Tail(<<top>> \o s) = s /\ <<top>> \o s # <<>>
           /\ \A n \in Nat : Append(<<top>> \o s, n) = <<top>> \o Append(s, n)
<1> DEFINE W == Nat \cup {top}
           t == <<top>> \o s
<1>1. s \in Seq(Nat) /\ s \in Seq(W) /\ <<top>> \in Seq(W) /\ Len(s) \in Nat
  BY SeqMonotonic, PathIs DEF Paths
<1>2. /\ t \in Seq(W) /\ Len(t) = 1 + Len(s)
      /\ \A i \in 1 .. 1 + Len(s) : t[i] = IF i <= 1 THEN top ELSE s[i - 1]
  <2> HIDE DEF W
  <2>1. t \in Seq(W) /\ Len(t) = Len(<<top>>) + Len(s)
        /\ \A i \in 1 .. Len(<<top>>) + Len(s) : t[i] = IF i <= Len(<<top>>) THEN <<top>>[i] ELSE s[i - Len(<<top>>)]
    BY <1>1, ConcatProperties
  <2>2. Len(<<top>>) = 1 /\ <<top>>[1] = top
    OBVIOUS
  <2> QED
    BY <1>1, <2>1, <2>2
<1> HIDE DEF W
<1>3. t # <<>> /\ Head(t) = top
  <2> HIDE DEF t
  <2> QED
    BY <1>1, <1>2
<1>4. Tail(t) = s
  <2> HIDE DEF t
  <2>1. /\ Tail(t) \in Seq(W) /\ Len(Tail(t)) = Len(t) - 1
        /\ \A i \in 1 .. Len(Tail(t)) : Tail(t)[i] = t[i + 1]
    BY <1>2, <1>3, HeadTailProperties
  <2>2. Len(Tail(t)) = Len(s)
    BY <1>1, <1>2, <2>1
  <2>3. ASSUME NEW i \in 1 .. Len(s) PROVE Tail(t)[i] = s[i]
    <3>1. i + 1 \in 1 .. 1 + Len(s) /\ ~(i + 1 <= 1) /\ (i + 1) - 1 = i
      BY <1>1, <2>3
    <3> QED
      BY <1>2, <2>1, <2>2, <3>1
  <2> QED
    BY <1>1, <2>1, <2>2, <2>3, SeqEqual
<1>5. ASSUME NEW n \in Nat PROVE Append(t, n) = <<top>> \o Append(s, n)
  <2>1. n \in W
    BY DEF W
  <2>2. Append(t, n) = t \o <<n>> /\ Append(s, n) = s \o <<n>> /\ <<n>> \in Seq(W)
    BY <1>1, <1>2, <2>1, AppendIsConcat
  <2>3. (<<top>> \o s) \o <<n>> = <<top>> \o (s \o <<n>>)
    BY <1>1, <2>2, ConcatAssociative
  <2> QED
    BY <2>2, <2>3
<1> QED
  BY <1>2, <1>3, <1>4, <1>5

\* No link is on the way to something in a tree: lstat sees what is listed.
LEMMA RealIs == ASSUME Tree(source), NEW p \in Candidates(source) PROVE Real(p) = p
<1> DEFINE f == Front(p)
           links == Links(source)
           walk == CHOOSE w : IsWalk(w, links, SourceName, <<SourceName>>, f)
           most == Steps + Len(f)
           Reached(n) == [at |-> <<SourceName>> \o SubSeq(f, 1, n), parts |-> SubSeq(f, n + 1, Len(f))]
           End == [at |-> <<SourceName>> \o f, parts |-> <<>>]
<1>1. p \in Paths \ {<<>>} /\ p \in DOMAIN source /\ f \in Paths /\ Len(f) \in Nat /\ most \in Nat
  BY FrontIs, PathIs, ArchiveAssumption DEF Candidates, Tree
<1>2. IsWalk(walk, links, SourceName, <<SourceName>>, f)
  <2> HIDE DEF links, f
  <2> QED
    BY <1>1, WalkIs
<1>3. Resolve(links, SourceName, <<SourceName>>, f) = walk[most]
  BY DEF Resolve, IsWalk
<1> HIDE DEF walk, links, f
<1>4. /\ walk[0] = [at |-> <<SourceName>>, parts |-> f]
      /\ \A n \in 1 .. most : walk[n] = Follow(links, SourceName, walk[n - 1])
  <2>1. \A n \in 0 .. most : walk[n] = IF n = 0 THEN [at |-> <<SourceName>>, parts |-> f]
                                          ELSE Follow(links, SourceName, walk[n - 1])
    BY <1>2 DEF IsWalk
  <2>2. 0 \in 0 .. most /\ \A n \in 1 .. most : n \in 0 .. most /\ n # 0
    BY <1>1
  <2> QED
    BY <2>1, <2>2
<1>5. ASSUME NEW q \in Prefixes(f) PROVE q \notin DOMAIN links
  <2>1. q \in Prefixes(p) /\ q # p
    BY <1>1, <1>5, FrontIs DEF f
  <2>2. source[q].kind = "dir"
    BY <1>1, <2>1, Ancestors
  <2> QED
    BY <2>2 DEF links, Links
<1>6. ASSUME NEW n \in 0 .. Len(f), n < Len(f)
      PROVE  Follow(links, SourceName, Reached(n)) = Reached(n + 1)
  <2> DEFINE s == SubSeq(f, 1, n)
             rest == SubSeq(f, n + 1, Len(f))
             part == f[n + 1]
  <2>1. n + 1 \in 1 .. Len(f) /\ Len(f) \in n + 1 .. Len(f) /\ n + 1 \in 0 .. Len(f)
    BY <1>1, <1>6
  <2>2. part \in Nat /\ part # Up
    BY <1>1, <2>1, PathIs, ArchiveAssumption
  <2>3. Head(rest) = part /\ Tail(rest) = SubSeq(f, n + 2, Len(f)) /\ rest # <<>>
    <3>1. Head(rest) = part /\ Tail(rest) = SubSeq(f, (n + 1) + 1, Len(f))
      BY <1>1, <2>1, HeadTailOfSubSeq DEF Paths
    <3>2. \A i \in n + 1 .. Len(f) : f[i] \in Nat
      BY <1>1, <2>1, PathIs
    <3>3. n + 1 \in Int /\ Len(f) \in Int /\ n + 1 <= Len(f) /\ (n + 1) + 1 = n + 2
      BY <1>1, <2>1
    <3>4. Len(rest) = Len(f) - (n + 1) + 1
      BY <3>2, <3>3, SubSeqProperties
    <3>5. rest # <<>>
      <4> HIDE DEF rest
      <4>1. Len(rest) # 0
        BY <3>3, <3>4
      <4>2. Len(<<>>) = 0
        BY EmptySeq
      <4> QED
        BY <4>1, <4>2
    <3>6. SubSeq(f, (n + 1) + 1, Len(f)) = SubSeq(f, n + 2, Len(f))
      BY <3>3
    <3> QED
      BY <3>1, <3>5, <3>6
  <2>4. s \in Paths /\ Append(s, part) = SubSeq(f, 1, n + 1)
    <3>1. s \in Paths /\ Len(s) = n /\ \A j \in 1 .. n : s[j] = f[j]
      BY <1>1, StartIs
    <3>2. SubSeq(f, 1, n + 1) \in Paths /\ Len(SubSeq(f, 1, n + 1)) = n + 1
          /\ \A j \in 1 .. n + 1 : SubSeq(f, 1, n + 1)[j] = f[j]
      BY <1>1, <2>1, StartIs
    <3> DEFINE t == SubSeq(f, 1, n + 1)
               a == Append(s, part)
    <3>3. a \in Seq(Nat) /\ Len(a) = n + 1 /\ a[n + 1] = part /\ \A j \in 1 .. n : a[j] = f[j]
      <4> HIDE DEF s, part
      <4>1. s \in Seq(Nat)
        BY <3>1 DEF Paths
      <4> QED
        BY <2>2, <3>1, <4>1, AppendProperties
    <3> HIDE DEF s, part, a, t
    <3>4. t \in Seq(Nat) /\ Len(t) = n + 1 /\ \A j \in 1 .. n + 1 : t[j] = f[j]
      BY <3>2 DEF Paths, t
    <3>5. \A j \in 1 .. n + 1 : a[j] = t[j]
      BY <1>1, <2>1, <3>3, <3>4 DEF part
    <3>6. a = t
      BY <3>3, <3>4, <3>5, SeqEqual
    <3> QED
      BY <3>1, <3>6 DEF a, t
  <2>5. SubSeq(f, 1, n + 1) \in Prefixes(f)
    BY <2>1 DEF Prefixes
  <2> DEFINE next == Append(<<SourceName>> \o s, part)
  <2>6. next = <<SourceName>> \o SubSeq(f, 1, n + 1) /\ Head(next) = SourceName /\ Tail(next) = SubSeq(f, 1, n + 1)
    <3>1. SubSeq(f, 1, n + 1) \in Paths
      BY <1>1, <2>1, StartIs
    <3>2. next = <<SourceName>> \o Append(s, part)
      <4> HIDE DEF s, part
      <4> QED
        BY <2>2, <2>4, BelowTop
    <3> QED
      BY <2>4, <3>1, <3>2, BelowTop
  <2>7. Tail(next) \notin DOMAIN links
    BY <1>5, <2>5, <2>6
  <2>8. Reached(n) = [at |-> <<SourceName>> \o s, parts |-> rest]
    OBVIOUS
  <2>9. Reached(n + 1) = [at |-> next, parts |-> Tail(rest)]
    <3>1. (n + 1) + 1 = n + 2
      BY <1>1
    <3> QED
      BY <2>3, <2>6, <3>1
  <2> HIDE DEF Reached, s, rest, part
  <2>10. Follow(links, SourceName, [at |-> <<SourceName>> \o s, parts |-> rest]) = [at |-> next, parts |-> Tail(rest)]
    <3> DEFINE at == <<SourceName>> \o s
    <3>1. Append(at, Head(rest)) = next
      BY <2>3
    <3>2. rest # <<>> /\ Head(rest) # Up /\ ~(Tail(next) \in DOMAIN links)
      BY <2>2, <2>3, <2>7
    <3> HIDE DEF next, at
    <3> DEFINE pos == [at |-> at, parts |-> rest]
    <3>3. pos.at = at /\ pos.parts = rest
      OBVIOUS
    <3> HIDE DEF pos
    <3>4. Follow(links, SourceName, pos) = [at |-> next, parts |-> Tail(rest)]
      BY <3>1, <3>2, <3>3 DEF Follow
    <3> QED
      BY <3>4 DEF pos, at
  <2> QED
    BY <2>8, <2>9, <2>10
<1>7. walk[Len(f)] = End
  <2> DEFINE Bad == {n \in 0 .. Len(f) : walk[n] # Reached(n)}
  <2>1. Reached(0) = [at |-> <<SourceName>>, parts |-> f]
    <3>1. SubSeq(f, 1, 0) = <<>> /\ SubSeq(f, 1, Len(f)) = f
      BY <1>1, SubSeqEmpty, SubSeqFull DEF Paths
    <3>2. <<SourceName>> \o <<>> = <<SourceName>>
      BY ConcatEmptySeq
    <3> QED
      BY <3>1, <3>2
  <2>2. Reached(Len(f)) = End
    <3>1. SubSeq(f, Len(f) + 1, Len(f)) = <<>> /\ SubSeq(f, 1, Len(f)) = f
      BY <1>1, SubSeqEmpty, SubSeqFull DEF Paths
    <3> QED
      BY <3>1
  <2> HIDE DEF Reached, End
  <2>3. Bad = {}
    <3> SUFFICES ASSUME Bad # {} PROVE FALSE
      OBVIOUS
    <3>1. Bad \in SUBSET Nat
      BY <1>1
    <3>2. PICK n \in Bad : \A k \in Bad : n <= k
      BY <3>1, Least
    <3>3. n # 0
      BY <1>4, <2>1, <3>2
    <3>4. /\ n - 1 \in 0 .. Len(f) /\ n - 1 < Len(f) /\ n - 1 \notin Bad /\ n \in 1 .. most /\ (n - 1) + 1 = n
      BY <1>1, <3>2, <3>3, ArchiveAssumption
    <3>5. walk[n - 1] = Reached(n - 1)
      BY <3>4
    <3>6. walk[n] = Reached((n - 1) + 1)
      BY <1>4, <1>6, <3>4, <3>5
    <3> QED
      BY <3>2, <3>4, <3>6
  <2>4. Len(f) \in 0 .. Len(f)
    BY <1>1
  <2> QED
    BY <2>2, <2>3, <2>4
<1>8. walk[most] = End
  <2> DEFINE Bad == {n \in Len(f) .. most : walk[n] # End}
  <2>1. Follow(links, SourceName, End) = End
    BY DEF Follow
  <2> HIDE DEF End
  <2>2. Bad = {}
    <3> SUFFICES ASSUME Bad # {} PROVE FALSE
      OBVIOUS
    <3>1. Bad \in SUBSET Nat
      BY <1>1
    <3>2. PICK n \in Bad : \A k \in Bad : n <= k
      BY <3>1, Least
    <3>3. n # Len(f)
      BY <1>7, <3>2
    <3>4. n - 1 \in Len(f) .. most /\ n \in 1 .. most /\ n - 1 \notin Bad
      BY <1>1, <3>2, <3>3
    <3> QED
      BY <1>4, <2>1, <3>2, <3>4
  <2>3. most \in Len(f) .. most
    BY <1>1, ArchiveAssumption
  <2> QED
    BY <2>2, <2>3
<1>9. Tail(walk[most].at) = f
  BY <1>1, <1>8, BelowTop
<1> QED
  BY <1>1, <1>3, <1>9, FrontIs DEF Real, links, f

-----------------------------------------------------------------------------
\* Extraction of one member.
LEMMA FinitePrefixes == ASSUME NEW p \in Paths PROVE IsFiniteSet(Prefixes(p))
<1> DEFINE start == [n \in 0 .. Len(p) |-> SubSeq(p, 1, n)]
<1>1. IsFiniteSet(0 .. Len(p))
  BY PathIs, FS_Interval
<1>2. start \in Surjection(0 .. Len(p), Prefixes(p))
  BY DEF Surjection, Prefixes
<1> QED
  BY <1>1, <1>2, FS_Surjection

\* Where the way to a path leaves the output, it leaves the last place there.
LEMMA LastThere ==
    ASSUME Tree(out), NEW p \in Paths, p \notin DOMAIN out,
           NEW q \in Prefixes(p), q \notin DOMAIN out, Front(q) \in DOMAIN out
    PROVE  LET there == Prefixes(p) \cap DOMAIN out
               last == CHOOSE r \in there : \A s \in there : Len(s) <= Len(r)
           IN  last = Front(q)
<1> DEFINE there == Prefixes(p) \cap DOMAIN out
<1>1. \A r \in Prefixes(p) : r \in Paths /\ Len(r) \in Nat /\ Len(r) <= Len(p) /\ \A j \in 1 .. Len(r) : r[j] = p[j]
  BY PrefixesAre, PathIs
<1>2. q \in Paths \ {<<>>} /\ Len(p) \in Nat
  BY <1>1, PathIs DEF Tree
<1>3. Front(q) \in there /\ Len(Front(q)) = Len(q) - 1
  BY <1>2, FrontIs, PrefixOfPrefix
<1>4. ASSUME NEW r \in there, Len(r) >= Len(q) PROVE FALSE
  <2>1. r \in Paths /\ q \in Paths /\ Len(q) <= Len(r) /\ \A j \in 1 .. Len(q) : q[j] = r[j]
    BY <1>1, <1>2, <1>4
  <2>2. q \in Prefixes(r)
    BY <2>1, PrefixesAre
  <2> QED
    BY <1>4, <2>2, Ancestors
<1>5. \A s \in there : Len(s) <= Len(Front(q))
  BY <1>1, <1>2, <1>3, <1>4
<1>6. ASSUME NEW r \in there, \A s \in there : Len(s) <= Len(r) PROVE r = Front(q)
  <2>1. /\ r \in Seq(Nat) /\ Front(q) \in Seq(Nat) /\ Len(r) = Len(Front(q))
        /\ \A j \in 1 .. Len(r) : r[j] = Front(q)[j]
    BY <1>1, <1>3, <1>5, <1>6 DEF Paths
  <2> QED
    BY <2>1, SeqEqual
<1> QED
  BY <1>3, <1>5, <1>6

\* What fits has directories on its way, and one that may be written to where
\* it is new.
LEMMA Room ==
    ASSUME Tree(out), NEW m \in MemberRecords, m.path \notin DOMAIN out, Fits(m)
    PROVE  /\ \A q \in Prefixes(m.path) \cap DOMAIN out : out[q].kind = "dir"
           /\ \A q \in Prefixes(m.path) \ DOMAIN out : Front(q) \in DOMAIN out => out[Front(q)].writable
<1> DEFINE p == m.path
           f == Front(p)
<1>1. p \in Paths \ {<<>>} /\ f \in Paths /\ Prefixes(f) = Prefixes(p) \ {p} /\ f \in Prefixes(f)
  BY FrontIs, PrefixesAre DEF MemberRecords
<1>2. CASE m.node.kind = "dir"
  <2>1. CanMake(p)
    BY <1>2 DEF Fits
  <2>2. \A q \in Prefixes(p) \cap DOMAIN out : out[q].kind = "dir"
    BY <2>1 DEF CanMake
  <2>3. ASSUME NEW q \in Prefixes(p), q \notin DOMAIN out, Front(q) \in DOMAIN out
        PROVE  out[Front(q)].writable
    BY <1>1, <2>1, <2>3, LastThere DEF CanMake
  <2> QED
    BY <2>2, <2>3
<1>3. CASE m.node.kind # "dir"
  <2>1. CanMake(f) /\ WithDirs(f)[f].writable
    BY <1>3 DEF Fits
  <2>2. \A q \in Prefixes(p) \cap DOMAIN out : out[q].kind = "dir"
    BY <1>1, <2>1 DEF CanMake
  <2>3. ASSUME NEW q \in Prefixes(p), q \notin DOMAIN out, Front(q) \in DOMAIN out
        PROVE  out[Front(q)].writable
    <3>1. CASE f \in DOMAIN out
      <4>1. Prefixes(f) \subseteq DOMAIN out
        BY <3>1, Ancestors
      <4>2. q = p
        BY <1>1, <2>3, <4>1
      <4> QED
        BY <2>1, <3>1, <4>2 DEF WithDirs
    <3>2. CASE f \notin DOMAIN out
      <4>1. q \in Prefixes(f)
        BY <1>1, <2>3, <3>2
      <4>2. CanMake(f) /\ f \notin Prefixes(f) \cap DOMAIN out
        BY <2>1, <3>2
      <4> QED
        BY <1>1, <2>3, <3>2, <4>1, <4>2, LastThere DEF CanMake
    <3> QED
      BY <3>1, <3>2
  <2> QED
    BY <2>2, <2>3
<1> QED
  BY <1>2, <1>3

\* The output with one member more.
Grown(m) == With(WithDirs(Front(m.path)), m.path, Applied(m.node))

LEMMA GrownIs ==
    ASSUME Tree(out), NEW m \in MemberRecords, m.path \notin DOMAIN out,
           \A q \in Prefixes(m.path) \cap DOMAIN out : out[q].kind = "dir"
    PROVE  /\ DOMAIN Grown(m) = DOMAIN out \cup Prefixes(m.path)
           /\ Grown(m)[m.path] = m.node
           /\ \A q \in DOMAIN out : Grown(m)[q] = out[q]
           /\ \A q \in Prefixes(m.path) \ DOMAIN out : q # m.path => Grown(m)[q] = Dir(TRUE)
           /\ Tree(Grown(m))
<1> DEFINE p == m.path
           f == Front(p)
           g == Grown(m)
<1>1. p \in Paths \ {<<>>} /\ m.node \in NodeRecords /\ Prefixes(f) = Prefixes(p) \ {p} /\ p \in Prefixes(p)
  BY FrontIs, PrefixesAre DEF MemberRecords
<1>2. /\ DOMAIN g = DOMAIN out \cup Prefixes(p)
      /\ g = [q \in DOMAIN g |-> g[q]]
      /\ \A q \in DOMAIN g : g[q] = IF q = p THEN m.node ELSE IF q \in DOMAIN out THEN out[q] ELSE Dir(TRUE)
  BY <1>1 DEF Grown, With, WithDirs, Applied
<1>3. /\ g[p] = m.node
      /\ \A q \in DOMAIN out : g[q] = out[q]
      /\ \A q \in Prefixes(p) \ DOMAIN out : q # p => g[q] = Dir(TRUE)
  BY <1>1, <1>2
<1> HIDE DEF g
<1>4. DOMAIN g \subseteq Paths /\ IsFiniteSet(DOMAIN g) /\ <<>> \in DOMAIN g /\ g[<<>>].kind = "dir"
  <2>1. DOMAIN out \subseteq Paths /\ IsFiniteSet(DOMAIN out) /\ <<>> \in DOMAIN out /\ out[<<>>].kind = "dir"
    BY DEF Tree
  <2>2. Prefixes(p) \subseteq Paths /\ IsFiniteSet(Prefixes(p))
    BY <1>1, PrefixesAre, FinitePrefixes
  <2>3. IsFiniteSet(DOMAIN out \cup Prefixes(p))
    BY <2>1, <2>2, FS_Union
  <2> QED
    BY <1>2, <1>3, <2>1, <2>2, <2>3
<1>5. g \in [DOMAIN g -> NodeRecords]
  <2>1. \A q \in DOMAIN out : out[q] \in NodeRecords
    BY DEF Tree
  <2>2. Dir(TRUE) \in NodeRecords
    BY EmptySeq DEF Dir, NodeRecords
  <2>3. \A q \in DOMAIN g : g[q] \in NodeRecords
    BY <1>1, <1>2, <1>3, <2>1, <2>2
  <2> QED
    BY <1>2, <2>3
<1>6. ASSUME NEW q \in DOMAIN g, q # <<>> PROVE Front(q) \in DOMAIN g /\ g[Front(q)].kind = "dir"
  <2>1. CASE q \in DOMAIN out
    <3>1. Front(q) \in DOMAIN out /\ out[Front(q)].kind = "dir"
      BY <1>6, <2>1 DEF Tree, IsTree
    <3> QED
      BY <1>2, <1>3, <3>1
  <2>2. CASE q \in Prefixes(p) /\ q \notin DOMAIN out
    <3>1. q \in Paths \ {<<>>} /\ Front(q) \in Prefixes(q) /\ Len(Front(q)) = Len(q) - 1 /\ Len(q) <= Len(p)
      BY <1>1, <1>6, <2>2, PrefixesAre, FrontIs
    <3>2. Front(q) \in Prefixes(p) /\ Front(q) # p
      BY <1>1, <2>2, <3>1, PrefixOfPrefix, PathIs
    <3> QED
      BY <1>2, <1>3, <3>2 DEF Dir
  <2> QED
    BY <1>2, <1>6, <2>1, <2>2
<1> QED
  BY <1>2, <1>3, <1>4, <1>5, <1>6 DEF Tree, IsTree, g

-----------------------------------------------------------------------------
\* What stays as it is.
LEMMA SameTrees ==
    ASSUME Typed, UNCHANGED <<source, original, out>>
    PROVE  Tree(source)' /\ (original # None => Tree(original))' /\ (out = NoTree \/ Tree(out))'
           /\ (Removable => Removable')
BY DEF Typed, Tree, IsTree, Paths, NodeRecords, NoTree, Removable, Children, Candidates

LEMMA SameArchive ==
    ASSUME UNCHANGED archive, IsArchive PROVE IsArchive'
BY DEF IsArchive, Members, MemberRecords, Paths, NodeRecords

\* The next member and what has been extracted before it.
LEMMA NextMember ==
    ASSUME Typed, Unpacked, pc = "unpack", todo # {}
    PROVE  LET m == First(todo) IN
           /\ m \in todo /\ m \in archive.members /\ m \in MemberRecords
           /\ \A o \in todo \ {m} : Less(m.path, o.path)
           /\ \A d \in Done : Less(d.path, m.path)
           /\ m.path \notin DOMAIN out
           /\ \A q \in DOMAIN out : m.path \notin Prefixes(q)
<1> DEFINE m == First(todo)
<1>1. todo \subseteq archive.members /\ Members(archive.members) /\ Tree(out)
  BY DEF Typed, IsArchive
<1>2. todo \in SUBSET MemberRecords /\ Members(todo)
  BY <1>1, FS_Subset DEF Members
<1>3. m \in todo /\ \A o \in todo \ {m} : Less(m.path, o.path)
  BY <1>2, FirstIs
<1>4. \A d \in Done : d \in MemberRecords /\ Less(d.path, m.path)
  BY <1>1, <1>3 DEF Unpacked, Done, Members
<1> HIDE DEF m
<1>5. ASSUME NEW q \in DOMAIN out, m.path \in Prefixes(q) PROVE FALSE
  <2>1. m.path \in Paths \ {<<>>} /\ q \in Paths
    BY <1>1, <1>2, <1>3 DEF MemberRecords, Tree
  <2>2. q # <<>>
    <3>1. <<>> \in Paths /\ Len(<<>>) = 0
      BY EmptySeq DEF Paths
    <3>2. Len(m.path) >= 1
      BY <2>1, FrontIs
    <3>3. q = <<>> => Len(m.path) <= 0
      BY <1>5, <3>1, PrefixesAre
    <3> QED
      BY <2>1, <3>2, <3>3, PathIs
  <2>3. PICK d \in Done : q \in Prefixes(d.path)
    BY <1>5, <2>2 DEF Unpacked, Candidates
  <2>4. d.path \in Paths /\ Less(d.path, m.path)
    BY <1>4, <2>3 DEF MemberRecords
  <2>5. m.path \in Prefixes(d.path)
    BY <1>5, <2>3, <2>4, PrefixOfPrefix
  <2>6. m.path # d.path => Less(m.path, m.path)
    BY <2>1, <2>4, <2>5, PrefixLess, LessTransitive
  <2> QED
    BY <2>1, <2>4, <2>6, LessStrict
<1>6. m.path \notin DOMAIN out
  BY <1>1, <1>5, PrefixesAre DEF Tree
<1> QED
  BY <1>1, <1>2, <1>3, <1>4, <1>5, <1>6 DEF m

\* Of a whole archive everything on the way to the next member is there.
LEMMA WayIsDone ==
    ASSUME Typed, Taken, Unpacked, pc = "unpack", todo # {},
           archive.state = "whole", original # None,
           NEW q \in Prefixes(First(todo).path), q # First(todo).path, q # <<>>
    PROVE  Member(original, q) \in Done /\ original[q].kind = "dir"
<1> DEFINE m == First(todo)
<1>1. /\ m \in todo /\ m \in archive.members /\ m \in MemberRecords
      /\ \A o \in todo \ {m} : Less(m.path, o.path)
  BY NextMember
<1>2. archive.members = AllOf(original) /\ Tree(original)
  BY DEF Taken, Typed
<1> HIDE DEF m
<1>3. m.path \in DOMAIN original /\ m.path \in Paths
  BY <1>1, <1>2 DEF AllOf, Member, Candidates, MemberRecords
<1>4. q \in Candidates(original) /\ original[q].kind = "dir" /\ q \in Paths
  BY <1>2, <1>3, Ancestors, PrefixesAre DEF m, Candidates
<1>5. Member(original, q) \in archive.members
  BY <1>2, <1>4 DEF AllOf
<1>6. Member(original, q) \notin todo
  <2> SUFFICES ASSUME Member(original, q) \in todo PROVE FALSE
    OBVIOUS
  <2>1. Member(original, q) # m
    BY DEF Member, m
  <2>2. Less(m.path, q) /\ Less(q, m.path)
    BY <1>1, <1>3, <2>1, PrefixLess DEF Member, m
  <2> QED
    BY <1>3, <1>4, <2>2, LessTransitive, LessStrict
<1> QED
  BY <1>4, <1>5, <1>6 DEF Done

-----------------------------------------------------------------------------
\* One lemma for the first state, and one for each command, its steps and edits.
LEMMA InitArchiveInv == Init => ArchiveInv
<1> SUFFICES ASSUME Init PROVE ArchiveInv
  OBVIOUS
<1>1. Tree(source)
  BY ArchiveAssumption DEF Init, Tree
<1>2. Typed
  BY <1>1, ArchiveAssumption DEF Init, Typed
<1>3. Taken /\ Unpacked /\ Removable
  BY DEF Init, Taken, Unpacked, Removable, NoTree
<1> QED
  BY <1>2, <1>3 DEF Init, ArchiveInv, RoundTrip, Extractable, FailureLeavesNothing

LEMMA StartKeeps == ASSUME ArchiveInv, StartCompress \/ ListPaths PROVE ArchiveInv'
<1> USE DEF ArchiveInv
<1>1. CASE StartCompress
  <2>1. /\ UNCHANGED <<source, out, todo, entries, original, edits>>
        /\ pc = "idle" /\ runs' \in 0..Runs
        /\ \/ archive' = None /\ pc' = "list" /\ outcome' = "none"
           \/ archive' = archive /\ pc' = "idle" /\ outcome' = "exists"
    BY <1>1, ArchiveAssumption DEF StartCompress, Goto, Typed
  <2>2. Typed'
    <3>1. archive' = archive /\ archive # None => IsArchive'
      BY SameArchive DEF Typed
    <3> QED
      BY <2>1, <3>1, SameTrees DEF Typed
  <2>3. Taken' /\ Unpacked'
    BY <2>1 DEF Taken, Unpacked, AllOf, Member, Candidates
  <2> QED
    BY <2>1, <2>2, <2>3, SameTrees DEF RoundTrip, Extractable, FailureLeavesNothing
<1>2. CASE ListPaths
  <2>1. /\ UNCHANGED <<source, archive, out, entries, outcome, runs, edits>>
        /\ pc = "list" /\ pc' = "stat" /\ original' = source /\ todo' = Candidates(source)
    BY <1>2 DEF ListPaths, Goto, Listed
  <2>2. Tree(source) /\ archive = None /\ entries = {} /\ outcome = "none"
    BY <2>1 DEF Typed
  <2>3. Tree(source)' /\ Tree(original)' /\ (out = NoTree \/ Tree(out))' /\ Removable'
    BY <2>1, <2>2 DEF Typed, Tree, IsTree, Paths, NodeRecords, NoTree, Removable, Children, Candidates
  <2>4. todo' \subseteq Paths \ {<<>>} /\ IsFiniteSet(todo') /\ Members(entries')
    <3>1. IsFiniteSet(todo')
      BY <2>1, <2>2, FS_Subset DEF Tree, Candidates
    <3> QED
      BY <2>1, <2>2, <3>1, FS_EmptySet DEF Tree, Candidates, Members
  <2>5. Typed'
    BY <2>1, <2>2, <2>3, <2>4 DEF Typed, Members, MemberRecords, Paths, NodeRecords
  <2>6. Taken' /\ Unpacked'
    BY <2>1, <2>2 DEF Taken, Unpacked, AllOf, Member, Candidates
  <2> QED
    BY <2>1, <2>2, <2>3, <2>5, <2>6 DEF RoundTrip, Extractable, FailureLeavesNothing
<1> QED
  BY <1>1, <1>2

LEMMA StatKeeps == ASSUME ArchiveInv, Stat PROVE ArchiveInv'
<1> USE DEF ArchiveInv
<1>1. PICK p \in todo :
        /\ Archivable(p)
        /\ entries' = entries \cup {[path |-> p, node |-> source[Real(p)]]}
        /\ todo' = todo \ {p}
  BY DEF Stat
<1>2. UNCHANGED <<source, archive, out, pc, outcome, original, runs, edits>> /\ pc = "stat"
  BY DEF Stat
<1> DEFINE e == [path |-> p, node |-> source[Real(p)]]
<1>3. /\ Tree(source) /\ archive = None /\ outcome = "none" /\ todo \subseteq Paths \ {<<>>} /\ IsFiniteSet(todo)
      /\ Members(entries) /\ \A x \in entries : x.path \notin todo
  BY <1>2 DEF Typed
<1>4. e \in MemberRecords
  BY <1>1, <1>3 DEF Archivable, Tree, MemberRecords
<1>5. Members(entries)' /\ IsFiniteSet(todo') /\ \A x \in entries' : x.path \notin todo'
  <2>1. IsFiniteSet(entries') /\ IsFiniteSet(todo')
    BY <1>1, <1>3, FS_AddElement, FS_RemoveElement DEF Members
  <2>2. \A m, n \in entries' : m.path = n.path => m = n
    BY <1>1, <1>3 DEF Members
  <2>3. entries' \subseteq MemberRecords /\ \A x \in entries' : x.path \notin todo'
    BY <1>1, <1>3, <1>4 DEF Members
  <2> QED
    BY <2>1, <2>2, <2>3 DEF Members, MemberRecords, Paths, NodeRecords
<1>6. Typed'
  BY <1>1, <1>2, <1>3, <1>5, SameTrees DEF Typed, Paths
<1>7. Taken'
  <2>1. ASSUME original # None
        PROVE  /\ source = original /\ entries' \subseteq AllOf(original) /\ todo' \subseteq Candidates(original)
               /\ \A q \in Candidates(original) : q \in todo' \/ Member(original, q) \in entries'
    <3>1. /\ source = original /\ entries \subseteq AllOf(original) /\ todo \subseteq Candidates(original)
          /\ \A q \in Candidates(original) : q \in todo \/ Member(original, q) \in entries
      BY <1>2, <2>1 DEF Taken
    <3>2. e = Member(original, p) /\ p \in Candidates(original)
      BY <1>3, <3>1, RealIs DEF Member
    <3> QED
      BY <1>1, <3>1, <3>2 DEF AllOf
  <2> QED
    BY <1>2, <1>3, <2>1 DEF Taken, AllOf, Member, Candidates
<1>8. Unpacked'
  BY <1>2 DEF Unpacked
<1> QED
  BY <1>2, <1>3, <1>6, <1>7, <1>8, SameTrees DEF RoundTrip, Extractable, FailureLeavesNothing

LEMMA OpenKeeps == ASSUME ArchiveInv, OpenArchive \/ CloseArchive PROVE ArchiveInv'
<1> USE DEF ArchiveInv
<1>1. CASE OpenArchive
  <2>1. /\ UNCHANGED <<source, out, entries, outcome, original, runs, edits>>
        /\ pc = "stat" /\ todo = {} /\ pc' = "write" /\ todo' = entries
        /\ archive' = [members |-> {}, state |-> "cut"]
    BY <1>1 DEF OpenArchive, Goto
  <2>2. Members(entries) /\ outcome = "none"
    BY <2>1 DEF Typed
  <2>3. Members(todo)' /\ IsArchive'
    BY <2>1, <2>2, FS_EmptySet DEF IsArchive, Members, MemberRecords, Paths, NodeRecords
  <2>4. Typed'
    BY <2>1, <2>2, <2>3, SameTrees DEF Typed
  <2>5. ASSUME original # None PROVE source = original /\ {} \cup entries = AllOf(original)
    BY <2>1, <2>5 DEF Taken, AllOf
  <2>6. Taken' /\ Unpacked'
    BY <2>1, <2>5 DEF Taken, Unpacked, AllOf, Member, Candidates
  <2> QED
    BY <2>1, <2>2, <2>4, <2>6, SameTrees DEF RoundTrip, Extractable, FailureLeavesNothing
<1>2. CASE CloseArchive
  <2>1. /\ UNCHANGED <<source, out, original, runs, edits>>
        /\ pc = "write" /\ todo = {} /\ pc' = "idle" /\ todo' = {} /\ entries' = {} /\ outcome' = "created"
        /\ archive' = [archive EXCEPT !.state = "whole"]
    BY <1>2 DEF CloseArchive, Ends, Goto
  <2>2. IsArchive
    BY <2>1 DEF Typed
  <2>3. archive'.members = archive.members /\ archive'.state = "whole"
        /\ archive' \in [members : SUBSET MemberRecords, state : {"whole", "cut", "torn"}]
    BY <2>1, <2>2 DEF IsArchive
  <2>4. IsArchive'
    BY <2>2, <2>3 DEF IsArchive, Members, MemberRecords, Paths, NodeRecords
  <2>5. Typed'
    BY <2>1, <2>4, SameTrees DEF Typed
  <2>6. Taken' /\ Unpacked'
    BY <2>1, <2>3 DEF Taken, Unpacked, AllOf, Member, Candidates
  <2> QED
    BY <2>1, <2>5, <2>6, SameTrees DEF RoundTrip, Extractable, FailureLeavesNothing
<1> QED
  BY <1>1, <1>2

LEMMA WriteKeeps == ASSUME ArchiveInv, Write PROVE ArchiveInv'
<1> USE DEF ArchiveInv
<1> DEFINE m == First(todo)
           now == IF m.node.kind = "file" THEN source[Real(m.path)] ELSE m.node
           n == [m EXCEPT !.node.data = now.data]
<1>1. /\ UNCHANGED <<source, out, pc, entries, outcome, original, runs, edits>>
      /\ pc = "write" /\ todo # {} /\ todo' = todo \ {m}
      /\ m.node.kind = "file" => Real(m.path) \in DOMAIN source
      /\ archive' = [archive EXCEPT !.members = @ \cup {n}]
  BY DEF Write
<1>2. /\ IsArchive /\ Members(todo) /\ Tree(source) /\ outcome = "none"
      /\ \A a \in todo, b \in archive.members : a.path # b.path
  BY <1>1 DEF Typed
<1>3. m \in todo /\ m \in MemberRecords
  BY <1>1, <1>2, FirstIs DEF Members
<1> HIDE DEF m
<1>4. now \in NodeRecords
  BY <1>1, <1>2, <1>3 DEF Tree, MemberRecords
<1>5. n \in MemberRecords /\ n.path = m.path
  BY <1>3, <1>4 DEF MemberRecords, NodeRecords
<1> HIDE DEF n, now
<1>6. archive'.members = archive.members \cup {n} /\ archive'.state = archive.state
  BY <1>1, <1>2 DEF IsArchive
<1>7. IsArchive'
  <2>1. IsFiniteSet(archive'.members)
    BY <1>2, <1>6, FS_AddElement DEF IsArchive, Members
  <2>2. \A a, b \in archive'.members : a.path = b.path => a = b
    BY <1>2, <1>3, <1>5, <1>6 DEF IsArchive, Members
  <2>3. archive' \in [members : SUBSET MemberRecords, state : {"whole", "cut", "torn"}]
    BY <1>1, <1>2, <1>5 DEF IsArchive
  <2> QED
    BY <1>2, <1>5, <1>6, <2>1, <2>2, <2>3 DEF IsArchive, Members, MemberRecords, Paths, NodeRecords
<1>8. Members(todo)'
  <2>1. IsFiniteSet(todo')
    BY <1>1, <1>2, FS_RemoveElement DEF Members
  <2> QED
    BY <1>1, <1>2, <2>1 DEF Members, MemberRecords, Paths, NodeRecords
<1>9. \A a \in todo', b \in archive'.members : a.path # b.path
  BY <1>1, <1>2, <1>3, <1>5, <1>6 DEF Members
<1>10. Typed'
  BY <1>1, <1>2, <1>7, <1>8, <1>9, SameTrees DEF Typed
<1>11. Taken'
  <2>1. ASSUME original # None
        PROVE  source = original /\ archive'.members \cup todo' = AllOf(original)
    <3>1. source = original /\ archive.members \cup todo = AllOf(original)
      BY <1>1, <2>1 DEF Taken
    <3>2. m.path \in Candidates(source) /\ m.node = source[m.path]
      BY <1>3, <3>1 DEF AllOf, Member
    <3>3. now = m.node
      BY <1>2, <3>2, RealIs DEF now
    <3>4. n = m
      BY <1>3, <3>3 DEF n, MemberRecords, NodeRecords
    <3> QED
      BY <1>1, <1>3, <1>6, <3>1, <3>4
  <2>2. archive'.state # "whole"
    BY <1>1, <1>6 DEF Typed
  <2> QED
    BY <1>1, <2>1, <2>2 DEF Taken, AllOf, Member, Candidates
<1>12. Unpacked'
  BY <1>1 DEF Unpacked
<1> QED
  BY <1>1, <1>2, <1>10, <1>11, <1>12, SameTrees DEF RoundTrip, Extractable, FailureLeavesNothing

\* A member more is extracted, with the directories on its way.
LEMMA UnpackKeeps == ASSUME ArchiveInv, Unpack PROVE ArchiveInv'
<1> DEFINE m == First(todo)
           p == m.path
<1> USE DEF ArchiveInv
<1>1. /\ pc = "unpack" /\ todo # {} /\ Fits(m) /\ out' = Grown(m) /\ todo' = todo \ {m}
      /\ UNCHANGED <<source, archive, pc, entries, outcome, original, runs, edits>>
  BY DEF Unpack, Grown
<1>2. /\ m \in todo /\ m \in archive.members /\ m \in MemberRecords
      /\ \A o \in todo \ {m} : Less(p, o.path)
      /\ \A d \in Done : Less(d.path, p)
      /\ p \notin DOMAIN out
      /\ \A q \in DOMAIN out : p \notin Prefixes(q)
  BY <1>1, NextMember
<1>3. Tree(out) /\ todo \subseteq archive.members /\ outcome = "none"
  BY <1>1 DEF Typed
<1> HIDE DEF m
<1>4. p \in Paths \ {<<>>} /\ p \in Prefixes(p)
  BY <1>2, PrefixesAre DEF MemberRecords
<1>5. /\ \A q \in Prefixes(p) \cap DOMAIN out : out[q].kind = "dir"
      /\ \A q \in Prefixes(p) \ DOMAIN out : Front(q) \in DOMAIN out => out[Front(q)].writable
  BY <1>1, <1>2, <1>3, Room
<1>6. /\ DOMAIN out' = DOMAIN out \cup Prefixes(p)
      /\ out'[p] = m.node
      /\ \A q \in DOMAIN out : out'[q] = out[q]
      /\ \A q \in Prefixes(p) \ DOMAIN out : q # p => out'[q] = Dir(TRUE)
      /\ Tree(out)'
  <2>1. /\ DOMAIN Grown(m) = DOMAIN out \cup Prefixes(p)
        /\ Grown(m)[p] = m.node
        /\ \A q \in DOMAIN out : Grown(m)[q] = out[q]
        /\ \A q \in Prefixes(p) \ DOMAIN out : q # p => Grown(m)[q] = Dir(TRUE)
        /\ Tree(Grown(m))
    BY <1>2, <1>3, <1>5, GrownIs
  <2> HIDE DEF p
  <2> QED
    BY <1>1, <2>1 DEF Tree, IsTree, Paths, NodeRecords
<1>7. Typed'
  <2>1. Tree(source)' /\ (original # None => Tree(original))'
    BY <1>1 DEF Typed, Tree, IsTree, Paths, NodeRecords
  <2>2. IsArchive'
    BY <1>1 DEF Typed, IsArchive, Members, MemberRecords, Paths, NodeRecords
  <2>3. todo' \subseteq archive.members'
    BY <1>1, <1>3
  <2> QED
    BY <1>1, <1>6, <2>1, <2>2, <2>3 DEF Typed
<1>8. Taken'
  BY <1>1 DEF Taken, AllOf, Member, Candidates
<1>9. Done' = Done \cup {m}
  BY <1>1, <1>2 DEF Done
<1>10. Unpacked'
  <2>1. /\ out[<<>>].writable /\ <<>> \in DOMAIN out
        /\ \A d \in Done, o \in todo : Less(d.path, o.path)
        /\ \A d \in Done : d.path \in DOMAIN out /\ out[d.path] = d.node
        /\ \A q \in Candidates(out) : \E d \in Done : q \in Prefixes(d.path)
    BY <1>1, <1>3 DEF Unpacked, Tree
  <2>2. out'[<<>>].writable
    BY <1>6, <2>1
  <2>3. \A d \in Done', o \in todo' : Less(d.path, o.path)
    BY <1>1, <1>2, <1>9, <2>1
  <2>4. \A d \in Done' : d.path \in DOMAIN out' /\ out'[d.path] = d.node
    BY <1>4, <1>6, <1>9, <2>1
  <2>5. \A q \in Candidates(out') : \E d \in Done' : q \in Prefixes(d.path)
    BY <1>6, <1>9, <2>1 DEF Candidates
  <2>6. ASSUME archive.state = "whole", original # None, NEW q \in Candidates(out')
        PROVE  \E d \in Done' : q = d.path
    <3>1. CASE q \in DOMAIN out
      <4>1. \E d \in Done : q = d.path
        BY <1>1, <2>6, <3>1 DEF Unpacked, Candidates
      <4> QED
        BY <1>9, <4>1
    <3>2. CASE q = p
      BY <1>9, <3>2
    <3>3. CASE q \in Prefixes(p) /\ q # p
      <4>1. Member(original, q) \in Done
        BY <1>1, <2>6, <3>3, WayIsDone DEF m, Candidates
      <4> QED
        BY <1>9, <4>1 DEF Member
    <3> QED
      BY <1>6, <2>6, <3>1, <3>2, <3>3 DEF Candidates
  <2> QED
    BY <1>1, <2>2, <2>3, <2>4, <2>5, <2>6 DEF Unpacked, Candidates, Done
<1>11. Removable'
  <2> SUFFICES ASSUME NEW q \in DOMAIN out', NEW r \in Candidates(out'), Front(r) = q, ~out'[q].writable
               PROVE  FALSE
    BY DEF Removable, Children, Candidates
  <2>1. r \in Paths \ {<<>>} /\ Front(r) \in Prefixes(r) /\ Front(r) # r /\ Len(Front(r)) = Len(r) - 1 /\ Len(r) \in Nat
    BY <1>6, FrontIs, PathIs DEF Tree, Candidates
  <2>2. CASE q \in DOMAIN out
    <3>1. r \notin DOMAIN out
      BY <1>6, <2>2 DEF Removable, Children, Candidates
    <3>2. r \in Prefixes(p)
      BY <1>6, <3>1 DEF Candidates
    <3> QED
      BY <1>5, <1>6, <2>2, <3>1, <3>2
  <2>3. CASE q = p
    <3>1. r \notin DOMAIN out
      BY <1>2, <2>1, <2>3
    <3>2. r \in Prefixes(p) /\ Len(r) <= Len(p)
      BY <1>4, <1>6, <3>1, PrefixesAre DEF Candidates
    <3> QED
      BY <2>1, <2>3, <3>2
  <2>4. CASE q \notin DOMAIN out /\ q # p
    BY <1>6, <2>4 DEF Dir
  <2> QED
    BY <2>2, <2>3, <2>4
<1> QED
  BY <1>1, <1>3, <1>7, <1>8, <1>10, <1>11 DEF RoundTrip, Extractable, FailureLeavesNothing

\* Every directory can be emptied, and so the output removed.
LEMMA AllRemoved == Removable => Removed(out) = NoTree
BY DEF Removable, Removed

LEMMA ExtractKeeps == ASSUME ArchiveInv, StartExtract \/ MakeOutput PROVE ArchiveInv'
<1> USE DEF ArchiveInv
<1>1. CASE StartExtract
  <2>1. /\ UNCHANGED <<source, archive, todo, entries, original, edits>>
        /\ pc = "idle" /\ archive # None /\ runs' \in 0..Runs
        /\ \/ out' = NoTree /\ pc' = "mkdir" /\ outcome' = "none"
           \/ out' = out /\ pc' = "idle" /\ outcome' = "exists"
    BY <1>1, AllRemoved, ArchiveAssumption DEF StartExtract, Goto, Typed
  <2>2. IsArchive'
    BY <2>1, SameArchive DEF Typed
  <2>3. Tree(source)' /\ (original # None => Tree(original))' /\ (out = NoTree \/ Tree(out))' /\ Removable'
    <3>1. CASE out' = out
      BY <2>1, <3>1, SameTrees
    <3>2. CASE out' = NoTree
      <4>1. Tree(source)' /\ (original # None => Tree(original))'
        BY <2>1 DEF Typed, Tree, IsTree, Paths, NodeRecords
      <4>2. DOMAIN out' = {}
        BY <3>2 DEF NoTree
      <4> QED
        BY <3>2, <4>1, <4>2 DEF NoTree, Removable
    <3> QED
      BY <2>1, <3>1, <3>2
  <2>4. Typed'
    BY <2>1, <2>2, <2>3 DEF Typed
  <2>5. Taken' /\ Unpacked'
    BY <2>1 DEF Taken, Unpacked, AllOf, Member, Candidates
  <2> QED
    BY <2>1, <2>3, <2>4, <2>5 DEF RoundTrip, Extractable, FailureLeavesNothing
<1>2. CASE MakeOutput
  <2>1. /\ UNCHANGED <<source, archive, entries, outcome, original, runs, edits>>
        /\ pc = "mkdir" /\ pc' = "unpack" /\ todo' = archive.members
        /\ out' = With(NoTree, <<>>, Dir(TRUE))
    BY <1>2 DEF MakeOutput, Goto
  <2>2. out' = [q \in {<<>>} |-> Dir(TRUE)]
    BY <2>1 DEF With, NoTree
  <2>3. DOMAIN out' = {<<>>} /\ out'[<<>>] = Dir(TRUE)
    BY <2>2
  <2>4. Tree(out)'
    <3>1. <<>> \in Paths /\ IsFiniteSet({<<>>}) /\ Dir(TRUE) \in NodeRecords
      BY EmptySeq, FS_Singleton DEF Paths, NodeRecords, Dir
    <3>2. out' \in [DOMAIN out' -> NodeRecords]
      BY <2>2, <2>3, <3>1
    <3> QED
      BY <2>3, <3>1, <3>2 DEF Tree, IsTree, Dir, Paths, NodeRecords
  <2>5. Removable'
    BY <2>3 DEF Removable, Children, Candidates
  <2>6. IsArchive' /\ outcome = "none"
    BY <2>1, SameArchive DEF Typed
  <2>7. Tree(source)' /\ (original # None => Tree(original))'
    BY <2>1 DEF Typed, Tree, IsTree, Paths, NodeRecords
  <2>8. Typed'
    BY <2>1, <2>4, <2>6, <2>7 DEF Typed
  <2>9. Taken'
    BY <2>1 DEF Taken, AllOf, Member, Candidates
  <2>10. Unpacked'
    BY <2>1, <2>3 DEF Unpacked, Done, Candidates, Dir
  <2> QED
    BY <2>1, <2>5, <2>6, <2>8, <2>9, <2>10 DEF RoundTrip, Extractable, FailureLeavesNothing
<1> QED
  BY <1>1, <1>2

\* A whole archive of a tree without obstacles fits, member after member.
LEMMA PlainFits ==
    ASSUME Typed, Taken, Unpacked, pc = "unpack", todo # {},
           archive.state = "whole", original # None, Plain(original)
    PROVE  Fits(First(todo))
<1> DEFINE m == First(todo)
           p == m.path
           f == Front(p)
<1>1. /\ m \in todo /\ m \in archive.members /\ m \in MemberRecords
      /\ p \notin DOMAIN out
  BY NextMember
<1>2. /\ Tree(out) /\ Tree(original) /\ archive.members = AllOf(original)
      /\ \A d \in Done : d.path \in DOMAIN out /\ out[d.path] = d.node
      /\ \A q \in Candidates(out) : \E d \in Done : q = d.path
      /\ out[<<>>].writable
  BY DEF Typed, Taken, Unpacked
<1>3. p \in Paths \ {<<>>} /\ p \in Candidates(original) /\ m.node = original[p]
  BY <1>1, <1>2 DEF AllOf, Member, MemberRecords
<1>4. ASSUME NEW q \in Prefixes(p), q # p, q # <<>>
      PROVE  q \in DOMAIN out /\ out[q] = original[q] /\ out[q].kind = "dir"
  <2>1. Member(original, q) \in Done /\ original[q].kind = "dir"
    BY <1>4, WayIsDone
  <2> QED
    BY <1>2, <2>1 DEF Member
<1>5. \A q \in Prefixes(p) : q # p => q \in DOMAIN out /\ out[q].kind = "dir"
  BY <1>2, <1>4 DEF Tree
<1>6. /\ f \in Paths /\ f \in Prefixes(p) /\ f # p /\ f \in DOMAIN out /\ f \in Prefixes(f)
      /\ Prefixes(f) = Prefixes(p) \ {p}
  BY <1>3, <1>5, FrontIs, PrefixesAre
<1>7. out[f].writable
  <2>1. CASE f = <<>>
    BY <1>2, <2>1
  <2>2. CASE f # <<>>
    <3>1. out[f] = original[f]
      BY <1>4, <1>6, <2>2
    <3>2. p \in Children(original, f)
      BY <1>3 DEF Children
    <3>3. f \in DOMAIN original
      BY <1>2, <1>3 DEF Tree, IsTree, Candidates
    <3> QED
      BY <3>1, <3>2, <3>3 DEF Plain
  <2> QED
    BY <2>1, <2>2
<1>8. WithDirs(f) = out
  <2>1. DOMAIN out \cup Prefixes(f) = DOMAIN out
    BY <1>5, <1>6
  <2>2. out = [q \in DOMAIN out |-> out[q]]
    BY <1>2 DEF Tree
  <2>3. WithDirs(f) = [q \in DOMAIN out |-> out[q]]
    BY <2>1 DEF WithDirs
  <2> QED
    BY <2>2, <2>3
<1>9. CASE m.node.kind = "dir"
  <2>1. LET there == Prefixes(p) \cap DOMAIN out
            last == CHOOSE r \in there : \A s \in there : Len(s) <= Len(r)
        IN  last = f
    BY <1>1, <1>2, <1>3, <1>6, LastThere, PrefixesAre
  <2>2. \A q \in Prefixes(p) \cap DOMAIN out : out[q].kind = "dir"
    BY <1>1, <1>5
  <2>3. CanMake(p)
    BY <1>7, <2>1, <2>2 DEF CanMake
  <2> QED
    BY <1>9, <2>3 DEF Fits
<1>10. CASE m.node.kind # "dir"
  <2>1. CanMake(f)
    BY <1>5, <1>6 DEF CanMake
  <2>2. ASSUME m.node.kind = "link"
        PROVE  Inside(Target(WithDirs(f), None, p, m.node.link), None)
    <3> DEFINE later == {q \in DOMAIN Links(original) : q \notin DOMAIN out}
    <3>1. p \in DOMAIN Links(original) /\ later \in SUBSET DOMAIN Links(original)
      BY <1>3, <2>2 DEF Links, Candidates
    <3>2. Inside(Target(Without(original, later), None, p, original[p].link), None)
      BY <3>1 DEF Plain
    <3>3. \A q \in DOMAIN out : q # <<>> => q \in DOMAIN original /\ out[q] = original[q]
      <4> TAKE q \in DOMAIN out
      <4>1. q # <<>> => \E d \in Done : q = d.path
        BY <1>2 DEF Candidates
      <4>2. \A d \in Done : d.path \in DOMAIN original /\ d.node = original[d.path]
        BY <1>2 DEF Done, AllOf, Member, Candidates
      <4> QED
        BY <1>2, <4>1, <4>2
    <3>4. out[<<>>].kind = "dir" /\ original[<<>>].kind = "dir"
      BY <1>2 DEF Tree
    <3> DEFINE rest == Without(original, later)
    <3>5. DOMAIN rest = DOMAIN original \ later /\ \A q \in DOMAIN rest : rest[q] = original[q]
      BY DEF Without
    <3>6. {q \in DOMAIN out : out[q].kind = "link"} = {q \in DOMAIN rest : rest[q].kind = "link"}
      <4>1. ASSUME NEW q \in DOMAIN out, out[q].kind = "link" PROVE q \in DOMAIN rest /\ rest[q].kind = "link"
        BY <3>3, <3>4, <3>5, <4>1
      <4>2. ASSUME NEW q \in DOMAIN rest, rest[q].kind = "link" PROVE q \in DOMAIN out /\ out[q].kind = "link"
        <5>1. q \in DOMAIN original /\ original[q].kind = "link" /\ q # <<>>
          BY <3>4, <3>5, <4>2
        <5>2. q \in DOMAIN Links(original)
          BY <5>1 DEF Links
        <5> QED
          BY <3>3, <3>5, <4>2, <5>1, <5>2
      <4> HIDE DEF rest
      <4> QED
        BY <4>1, <4>2
    <3>7. \A q \in {r \in DOMAIN out : out[r].kind = "link"} : out[q].link = rest[q].link
      BY <3>3, <3>4, <3>5, <3>6
    <3> HIDE DEF rest
    <3>8. Links(out) = Links(rest)
      BY <3>6, <3>7 DEF Links
    <3>9. Target(out, None, p, m.node.link) = Target(rest, None, p, original[p].link)
      BY <1>3, <3>8 DEF Target
    <3> QED
      BY <1>8, <3>2, <3>9 DEF rest
  <2> QED
    BY <1>7, <1>8, <1>10, <2>1, <2>2 DEF Fits
<1> QED
  BY <1>9, <1>10

\* Ends of an extraction: what is refused was not plain, and what is
\* extracted to the end is the original.
LEMMA EndKeeps == ASSUME ArchiveInv, Refuse \/ EndExtract PROVE ArchiveInv'
<1> USE DEF ArchiveInv
<1>1. CASE Refuse
  <2>1. /\ UNCHANGED <<source, archive, original, runs, edits>>
        /\ pc = "unpack" /\ todo # {} /\ ~Fits(First(todo)) /\ out' = NoTree
        /\ pc' = "idle" /\ outcome' = "refused" /\ todo' = {} /\ entries' = {}
    BY <1>1, AllRemoved DEF Refuse, Ends, Goto
  <2>2. Tree(source)' /\ (original # None => Tree(original))' /\ (out = NoTree \/ Tree(out))' /\ Removable'
    BY <2>1 DEF Typed, Tree, IsTree, Paths, NodeRecords, NoTree, Removable, Children, Candidates
  <2>3. Typed'
    BY <2>1, <2>2, SameArchive DEF Typed
  <2>4. Taken' /\ Unpacked'
    BY <2>1 DEF Taken, Unpacked, AllOf, Member, Candidates
  <2>5. Extractable'
    <3>1. archive.state = "whole" /\ original # None => ~Plain(original)
      BY <2>1, PlainFits
    <3> QED
      BY <2>1, <3>1 DEF Extractable
  <2>6. FailureLeavesNothing' /\ RoundTrip'
    BY <2>1 DEF FailureLeavesNothing, RoundTrip, Exists, NoTree
  <2> QED
    BY <2>2, <2>3, <2>4, <2>5, <2>6
<1>2. CASE EndExtract
  <2>1. /\ UNCHANGED <<source, archive, out, original, runs, edits>>
        /\ pc = "unpack" /\ todo = {}
        /\ pc' = "idle" /\ outcome' = "extracted" /\ todo' = {} /\ entries' = {}
    BY <1>2 DEF EndExtract, Ends, Goto
  <2>2. Typed' /\ Removable'
    BY <2>1, SameTrees, SameArchive DEF Typed
  <2>3. Taken' /\ Unpacked'
    BY <2>1 DEF Taken, Unpacked, AllOf, Member, Candidates
  <2>4. ASSUME archive.state = "whole", original # None PROVE Below(out) = Below(original)
    <3>1. /\ Done = AllOf(original)
          /\ \A d \in Done : d.path \in DOMAIN out /\ out[d.path] = d.node
          /\ \A q \in Candidates(out) : \E d \in Done : q = d.path
      BY <2>1, <2>4 DEF Taken, Unpacked, Done
    <3>2. \A q \in Candidates(original) : q \in DOMAIN out /\ out[q] = original[q]
      <4> TAKE q \in Candidates(original)
      <4>1. Member(original, q) \in Done
        BY <3>1 DEF AllOf
      <4>2. Member(original, q).path = q /\ Member(original, q).node = original[q]
        BY DEF Member
      <4> QED
        BY <3>1, <4>1, <4>2
    <3>3. Candidates(out) = Candidates(original)
      BY <3>1, <3>2 DEF AllOf, Member, Candidates
    <3> QED
      BY <3>2, <3>3 DEF Below, Without, Candidates
  <2> QED
    BY <2>1, <2>2, <2>3, <2>4 DEF RoundTrip, Extractable, FailureLeavesNothing, Below, Without
<1> QED
  BY <1>1, <1>2

\* What is left of an archive that was not finished.
LEMMA Broken ==
    ASSUME archive # None => IsArchive, archive' \in Unfinished \/ archive' = archive
    PROVE  archive' # None =>
              /\ archive # None /\ IsArchive' /\ archive'.members = archive.members
              /\ archive'.state = "whole" => archive.state = "whole"
<1> SUFFICES ASSUME archive' # None
             PROVE  /\ archive # None /\ IsArchive' /\ archive'.members = archive.members
                    /\ archive'.state = "whole" => archive.state = "whole"
  OBVIOUS
<1>1. CASE archive' = archive
  BY <1>1, SameArchive
<1>2. CASE archive' \in Unfinished
  <2>1. archive # None /\ \E s \in {"cut", "torn"} : archive' = [archive EXCEPT !.state = s]
    BY <1>2 DEF Unfinished
  <2>2. PICK s \in {"cut", "torn"} : archive' = [archive EXCEPT !.state = s]
    BY <2>1
  <2>3. archive'.members = archive.members /\ archive'.state = s
        /\ archive' \in [members : SUBSET MemberRecords, state : {"whole", "cut", "torn"}]
    BY <2>1, <2>2 DEF IsArchive
  <2> QED
    BY <2>1, <2>3 DEF IsArchive, Members, MemberRecords, Paths, NodeRecords
<1> QED
  BY <1>1, <1>2

LEMMA FailKeeps == ASSUME ArchiveInv, Fail \/ Kill PROVE ArchiveInv'
<1> USE DEF ArchiveInv
<1>1. /\ UNCHANGED <<source, original, runs, edits>>
      /\ pc' = "idle" /\ todo' = {} /\ entries' = {}
      /\ archive' \in Unfinished \/ archive' = archive
      /\ out' = out \/ out' = NoTree
      /\ outcome' \in {"notcreated", "notmade", "failed", "killed"}
      /\ outcome' = "failed" => out' = NoTree
  BY AllRemoved DEF Fail, Kill, Ends, Goto
<1>2. Tree(source)' /\ (original # None => Tree(original))' /\ (out = NoTree \/ Tree(out))' /\ Removable'
  BY <1>1 DEF Typed, Tree, IsTree, Paths, NodeRecords, NoTree, Removable, Children, Candidates
<1>3. archive' # None =>
         /\ archive # None /\ IsArchive' /\ archive'.members = archive.members
         /\ archive'.state = "whole" => archive.state = "whole"
  BY <1>1, Broken DEF Typed
<1>4. Typed'
  BY <1>1, <1>2, <1>3 DEF Typed
<1>5. Taken' /\ Unpacked'
  BY <1>1, <1>3 DEF Taken, Unpacked, AllOf, Member, Candidates
<1> QED
  BY <1>1, <1>2, <1>4, <1>5 DEF RoundTrip, Extractable, FailureLeavesNothing, Exists, NoTree

\* Edits leave a tree, and an original that is still being archived is given up.
LEMMA EditKeeps == ASSUME ArchiveInv, Edit PROVE ArchiveInv'
<1> USE DEF ArchiveInv
<1>1. PICK p \in Candidates(source) :
          \/ source[p].kind = "file" /\ source' = [source EXCEPT ![p].data = 1 - @]
          \/ Children(source, p) = {} /\ source[Front(p)].writable /\ source' = Without(source, {p})
          \/ /\ source[p].kind = "dir" /\ source[p].writable
             /\ Append(p, 1) \notin DOMAIN source
             /\ source' = With(source, Append(p, 1), File(1))
  BY DEF Edit
<1>2. /\ UNCHANGED <<archive, out, pc, todo, entries, outcome, runs>>
      /\ edits' \in 0..Edits
      /\ original' = IF pc \in {"stat", "write"} THEN None ELSE original
  BY ArchiveAssumption DEF Edit, Typed
<1>3. Tree(source) /\ p \in DOMAIN source /\ p \in Paths /\ p # <<>>
  BY DEF Typed, Tree, Candidates
<1>4. \A q \in DOMAIN source : q # <<>> => Front(q) \in DOMAIN source /\ source[Front(q)].kind = "dir"
  BY <1>3 DEF Tree, IsTree
<1>5. ASSUME DOMAIN source' \subseteq Paths, IsFiniteSet(DOMAIN source'), source' \in [DOMAIN source' -> NodeRecords],
             <<>> \in DOMAIN source', source'[<<>>].kind = "dir",
             \A q \in DOMAIN source' : q # <<>> => Front(q) \in DOMAIN source' /\ source'[Front(q)].kind = "dir"
      PROVE  Tree(source)'
  BY <1>5 DEF Tree, IsTree, Paths, NodeRecords
<1>9. Tree(source)'
  <2>1. CASE source[p].kind = "file" /\ source' = [source EXCEPT ![p].data = 1 - @]
    <3> DEFINE node == [source[p] EXCEPT !.data = 1 - @]
    <3>1. node \in NodeRecords /\ node.kind = source[p].kind
      <4>1. source[p] \in NodeRecords
        BY <1>3 DEF Tree
      <4>2. source[p].data \in {0, 1}
        BY <4>1 DEF NodeRecords
      <4>3. 1 - source[p].data \in {0, 1}
        BY <4>2
      <4> QED
        BY <4>1, <4>3 DEF NodeRecords
    <3>2. source' = [source EXCEPT ![p] = node]
      BY <2>1
    <3> HIDE DEF node
    <3>3. DOMAIN source' = DOMAIN source /\ source' \in [DOMAIN source -> NodeRecords]
      BY <1>3, <3>1, <3>2 DEF Tree
    <3>4. \A q \in DOMAIN source : source'[q].kind = source[q].kind
      BY <1>3, <3>1, <3>2 DEF Tree
    <3> QED
      BY <1>3, <1>4, <1>5, <3>3, <3>4 DEF Tree
  <2>2. CASE Children(source, p) = {} /\ source' = Without(source, {p})
    <3>1. DOMAIN source' = DOMAIN source \ {p} /\ source' \in [DOMAIN source' -> NodeRecords]
          /\ \A q \in DOMAIN source' : source'[q] = source[q]
      BY <1>3, <2>2 DEF Tree, Without
    <3>2. IsFiniteSet(DOMAIN source')
      BY <1>3, <3>1, FS_RemoveElement DEF Tree
    <3>3. \A q \in DOMAIN source' : q # <<>> => Front(q) # p
      BY <2>2, <3>1 DEF Children, Candidates
    <3> QED
      BY <1>3, <1>4, <1>5, <3>1, <3>2, <3>3 DEF Tree
  <2>3. CASE source[p].kind = "dir" /\ Append(p, 1) \notin DOMAIN source /\ source' = With(source, Append(p, 1), File(1))
    <3> DEFINE new == Append(p, 1)
    <3>1. new \in Paths /\ new # <<>> /\ Front(new) = p /\ new \notin DOMAIN source
      <4>1. new \in Paths /\ Len(new) = Len(p) + 1 /\ new # <<>> /\ \A j \in 1 .. Len(p) : new[j] = p[j]
        BY <1>3, PathIs DEF Paths
      <4> HIDE DEF new
      <4>2. Front(new) \in Paths /\ Len(Front(new)) = Len(p) /\ new = Append(Front(new), Last(new))
        BY <4>1, <1>3, PathIs, FrontIs
      <4>3. \A j \in 1 .. Len(p) : Append(Front(new), Last(new))[j] = Front(new)[j]
        BY <4>2, <1>3, PathIs, AppendProperties DEF Paths
      <4>4. \A j \in 1 .. Len(p) : Front(new)[j] = p[j]
        BY <4>1, <4>2, <4>3
      <4> QED
        BY <1>3, <2>3, <4>1, <4>2, <4>4, SeqEqual DEF Paths, new
    <3>2. File(1) \in NodeRecords
      BY EmptySeq DEF File, NodeRecords
    <3> HIDE DEF new
    <3>3. /\ DOMAIN source' = DOMAIN source \cup {new}
          /\ source' = [q \in DOMAIN source' |-> source'[q]]
          /\ \A q \in DOMAIN source' : source'[q] = IF q = new THEN File(1) ELSE source[q]
      BY <2>3 DEF With, new
    <3>4. source' \in [DOMAIN source' -> NodeRecords]
      BY <1>3, <3>2, <3>3 DEF Tree
    <3>5. IsFiniteSet(DOMAIN source')
      BY <1>3, <3>3, FS_AddElement DEF Tree
    <3> QED
      BY <1>3, <1>4, <1>5, <2>3, <3>1, <3>3, <3>4, <3>5 DEF Tree
  <2> QED
    BY <1>1, <2>1, <2>2, <2>3
<1>10. (original # None => Tree(original))' /\ (out = NoTree \/ Tree(out))' /\ Removable'
  BY <1>2 DEF Typed, Tree, IsTree, Paths, NodeRecords, NoTree, Removable, Children, Candidates
<1>11. Typed'
  <2>1. (archive # None \/ pc \in {"write", "mkdir", "unpack"} => IsArchive)'
    BY <1>2, SameArchive DEF Typed
  <2> QED
    BY <1>2, <1>9, <1>10, <2>1 DEF Typed, Members, MemberRecords, Paths, NodeRecords
<1>12. Taken' /\ Unpacked'
  BY <1>2 DEF Taken, Unpacked, Done, AllOf, Member, Candidates
<1>13. RoundTrip' /\ Extractable' /\ FailureLeavesNothing'
  BY <1>2 DEF Typed, RoundTrip, Extractable, FailureLeavesNothing, Below, Without, Plain, Exists
<1> QED
  BY <1>10, <1>11, <1>12, <1>13

-----------------------------------------------------------------------------
\* Every step of every command keeps the invariant.
THEOREM ArchiveInvHolds == Spec => []ArchiveInv
<1>1. Init => ArchiveInv
  BY InitArchiveInv
<1>2. ArchiveInv /\ [Next]_vars => ArchiveInv'
  <2> SUFFICES ASSUME ArchiveInv, [Next]_vars PROVE ArchiveInv'
    OBVIOUS
  <2>1. CASE StartCompress \/ ListPaths
    BY <2>1, StartKeeps
  <2>2. CASE Stat
    BY <2>2, StatKeeps
  <2>3. CASE OpenArchive \/ CloseArchive
    BY <2>3, OpenKeeps
  <2>4. CASE Write
    BY <2>4, WriteKeeps
  <2>5. CASE StartExtract \/ MakeOutput
    BY <2>5, ExtractKeeps
  <2>6. CASE Unpack
    BY <2>6, UnpackKeeps
  <2>7. CASE Refuse \/ EndExtract
    BY <2>7, EndKeeps
  <2>8. CASE Fail \/ Kill
    BY <2>8, FailKeeps
  <2>9. CASE Edit
    BY <2>9, EditKeeps
  <2>10. CASE UNCHANGED vars
    <3>1. Typed' /\ Removable'
      BY <2>10, SameTrees, SameArchive
         DEF vars, ArchiveInv, Typed, Members, MemberRecords, Paths, NodeRecords
    <3>2. Taken' /\ Unpacked'
      BY <2>10 DEF vars, ArchiveInv, Taken, Unpacked, Done, AllOf, Member, Candidates
    <3>3. RoundTrip' /\ FailureLeavesNothing'
      BY <2>10 DEF vars, ArchiveInv, RoundTrip, FailureLeavesNothing, Below, Without, Exists
    <3>4. Extractable'
      BY <2>10 DEF vars, ArchiveInv, Extractable
    <3> QED
      BY <3>1, <3>2, <3>3, <3>4 DEF ArchiveInv
  <2> QED
    BY <2>1, <2>2, <2>3, <2>4, <2>5, <2>6, <2>7, <2>8, <2>9, <2>10 DEF Next, Command
<1> QED
  BY <1>1, <1>2, PTL DEF Spec

\* Source and output are trees, the command is where it can be, and an archive
\* holds no path that the original has not (a consequence of ArchiveInv).
THEOREM TypeCorrect == Spec => []TypeOK
<1>1. ArchiveInv => TypeOK
  <2> SUFFICES ASSUME ArchiveInv PROVE TypeOK
    OBVIOUS
  <2>1. IsTree(source) /\ IsTree(out)
    BY DEF ArchiveInv, Typed, Tree, IsTree, NoTree
  <2>2. archive # None => archive.state \in {"whole", "cut", "torn"}
    BY DEF ArchiveInv, Typed, IsArchive
  <2>3. ASSUME original # None, archive # None, pc # "list"
        PROVE  {m.path : m \in archive.members} \subseteq DOMAIN original
    <3>1. archive.members \subseteq AllOf(original)
      BY <2>3 DEF ArchiveInv, Taken
    <3> QED
      BY <3>1 DEF AllOf, Member, Candidates
  <2> QED
    BY <2>1, <2>2, <2>3 DEF ArchiveInv, Typed, TypeOK
<1> QED
  BY <1>1, ArchiveInvHolds, PTL

\* Whatever was compressed, in whatever order its parts were looked at, and
\* whatever else was killed or failed before: what a finished extraction of a
\* whole archive leaves is the directory as it was.
THEOREM ExtractsWhatWasArchived == Spec => []RoundTrip
<1>1. ArchiveInv => RoundTrip
  BY DEF ArchiveInv
<1> QED
  BY <1>1, ArchiveInvHolds, PTL

\* The checks of extract_archive on each member (real directories on its way,
\* links that stay inside) refuse nothing of a plain directory.
THEOREM NothingPlainRefused == Spec => []Extractable
<1>1. ArchiveInv => Extractable
  BY DEF ArchiveInv
<1> QED
  BY <1>1, ArchiveInvHolds, PTL

\* However far an extraction came, when it fails rmtree can empty every
\* directory of the output, and does.
THEOREM FailureRemovesOutput == Spec => []FailureLeavesNothing
<1>1. ArchiveInv => FailureLeavesNothing
  BY DEF ArchiveInv
<1> QED
  BY <1>1, ArchiveInvHolds, PTL
=============================================================================
