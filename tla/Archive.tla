------------------------------ MODULE Archive ------------------------------
(***************************************************************************)
(* The archive command (pkgs/archive/main.py): compress a directory, and   *)
(* extract the archive, again and again, one command at a time (at most    *)
(* Runs, a bound), each of which may fail or be killed at any point, while *)
(* the directory is edited (at most Edits times, a bound).                 *)
(*                                                                         *)
(* A path is a sequence of names, <<>> the directory itself; names are     *)
(* numbers in their order, none with a character that sorts before "/".    *)
(* A tree maps its paths to what is there.  Where a link leads is a        *)
(* sequence of names and of Up, "..".  An absolute link is refused like    *)
(* one that leads out, and is left out, as are sizes, times, the progress  *)
(* shown and the three formats, which differ in what remains of an archive *)
(* that was not finished.                                                  *)
(***************************************************************************)
EXTENDS Naturals, FiniteSets, SequencesExt

CONSTANTS
    None,
    Up,
    SourceName,   \* the name of the directory compressed
    Sources,      \* the trees it may be to begin with
    Steps,        \* bound: names followed to resolve a path, beyond its own
    Runs, Edits


VARIABLES
    source,    \* the directory compressed
    archive,   \* members written and whether they can be read; None without one
    out,       \* the output directory
    pc,        \* where the command is, "idle" between commands
    todo,      \* paths to look at, or members to write or extract
    entries,   \* the manifest
    outcome,   \* how the last command ended
    original,  \* history: the source as archived; None if it was edited meanwhile
    runs, edits

vars == <<source, archive, out, pc, todo, entries, outcome, original, runs, edits>>

Dir(w) == [kind |-> "dir", writable |-> w, data |-> 0, link |-> <<>>]
File(d) == [kind |-> "file", writable |-> TRUE, data |-> d, link |-> <<>>]
Link(to) == [kind |-> "link", writable |-> TRUE, data |-> 0, link |-> to]

NoTree == <<>>
IsTree(tree) ==
    \A p \in DOMAIN tree : p # <<>> => Front(p) \in DOMAIN tree /\ tree[Front(p)].kind = "dir"

Paths == Seq(Nat)
NodeRecords ==
    [kind : {"dir", "file", "link"}, writable : BOOLEAN, data : {0, 1}, link : Seq(Nat \cup {Up, SourceName})]

\* A directory on a disk: finite, and what holds something is a directory.
ASSUME ArchiveAssumption ==
    /\ Steps \in Nat /\ Runs \in Nat /\ Edits \in Nat
    /\ Up \notin Nat
    /\ \A tree \in Sources :
          /\ DOMAIN tree \subseteq Paths /\ IsFiniteSet(DOMAIN tree)
          /\ tree \in [DOMAIN tree -> NodeRecords]
          /\ <<>> \in DOMAIN tree /\ tree[<<>>].kind = "dir" /\ IsTree(tree)
Exists(tree) == DOMAIN tree # {}
Candidates(tree) == DOMAIN tree \ {<<>>}
Children(tree, p) == {q \in Candidates(tree) : Front(q) = p}
Links(tree) == [p \in {q \in DOMAIN tree : tree[q].kind = "link"} |-> tree[p].link]
Without(tree, ps) == [p \in DOMAIN tree \ ps |-> tree[p]]
With(tree, p, node) == [q \in DOMAIN tree \cup {p} |-> IF q = p THEN node ELSE tree[q]]

\* Path.resolve(strict=False): the place that parts lead to from a place.
\* A place is a path below top, the directory's name, or <<>>, above it.
Follow(links, top, pos) ==
    LET part == Head(pos.parts)
        rest == Tail(pos.parts)
        next == Append(pos.at, part)
        IsLink == Head(next) = top /\ Tail(next) \in DOMAIN links
    IN  CASE pos.parts = <<>> -> pos
          [] pos.parts # <<>> /\ part = Up ->
                [at |-> IF pos.at = <<>> THEN <<>> ELSE Front(pos.at), parts |-> rest]
          [] pos.parts # <<>> /\ part # Up /\ IsLink -> [at |-> pos.at, parts |-> links[Tail(next)] \o rest]
          [] OTHER -> [at |-> next, parts |-> rest]
Resolve(links, top, from, parts) ==
    LET most == Steps + Len(parts)
        walk[n \in 0..most] ==
            IF n = 0 THEN [at |-> from, parts |-> parts] ELSE Follow(links, top, walk[n - 1])
    IN  walk[most]

Inside(pos, top) == pos.parts = <<>> /\ pos.at # <<>> /\ Head(pos.at) = top
Target(tree, top, p, to) == Resolve(Links(tree), top, <<top>> \o Front(p), to)

-----------------------------------------------------------------------------
Init ==
    /\ source \in Sources
    /\ archive = None
    /\ out = NoTree
    /\ pc = "idle"
    /\ todo = {} /\ entries = {}
    /\ outcome = "none"
    /\ original = None
    /\ runs = 0 /\ edits = 0

Goto(label) == pc' = label
Ends(how) == Goto("idle") /\ outcome' = how /\ todo' = {} /\ entries' = {}

\* ensure_output_target: what exists is removed with --force, else the
\* command ends.
StartCompress ==
    /\ pc = "idle" /\ runs < Runs /\ runs' = runs + 1
    /\ \/ archive' = None /\ Goto("list") /\ outcome' = "none"
       \/ archive # None /\ outcome' = "exists" /\ UNCHANGED <<archive, pc>>
    /\ UNCHANGED <<source, out, todo, entries, original, edits>>

\* list_candidate_paths.
FollowsLinks(tree) ==                   \* fault: is_symlink is not asked
    Candidates(tree) \cup
    {q \in {Append(p, n) : p \in DOMAIN Links(tree), n \in UNION {ToSet(r) : r \in DOMAIN tree}} :
        LET to == Target(tree, SourceName, Front(q), tree[Front(q)].link)
        IN  Inside(to, SourceName) /\ Append(Tail(to.at), Last(q)) \in DOMAIN tree}
Listed(tree) == Candidates(tree)

ListPaths ==
    /\ pc = "list"
    /\ todo' = Listed(source)
    /\ original' = source
    /\ Goto("stat")
    /\ UNCHANGED <<source, archive, out, entries, outcome, runs, edits>>

\* build_archive_entry, by several threads.  lstat follows links but the
\* last; a link that is broken or leads out is refused.
Real(p) == Append(Tail(Resolve(Links(source), SourceName, <<SourceName>>, Front(p)).at), Last(p))
Archivable(p) ==
    /\ Real(p) \in DOMAIN source
    /\ source[Real(p)].kind = "link" =>
          LET to == Target(source, SourceName, p, source[Real(p)].link)
          IN  Inside(to, SourceName) /\ Tail(to.at) \in DOMAIN source

Stat ==
    /\ pc = "stat"
    /\ \E p \in todo :
          /\ Archivable(p)
          /\ entries' = entries \cup {[path |-> p, node |-> source[Real(p)]]}
          /\ todo' = todo \ {p}
    /\ UNCHANGED <<source, archive, out, pc, outcome, original, runs, edits>>

OpenArchive ==
    /\ pc = "stat" /\ todo = {}
    /\ archive' = [members |-> {}, state |-> "cut"]
    /\ todo' = entries
    /\ Goto("write")
    /\ UNCHANGED <<source, out, entries, outcome, original, runs, edits>>

\* Members are written, and so extracted, in the order of their paths.
Less(p, q) ==
    \/ IsStrictPrefix(p, q)
    \/ \E i \in DOMAIN p \cap DOMAIN q :
          p[i] < q[i] /\ SubSeq(p, 1, i - 1) = SubSeq(q, 1, i - 1)
First(members) == CHOOSE m \in members : \A o \in members \ {m} : Less(m.path, o.path)

Write ==
    /\ pc = "write" /\ todo # {}
    /\ LET m == First(todo)
           now == IF m.node.kind = "file" THEN source[Real(m.path)] ELSE m.node
       IN  /\ m.node.kind = "file" => Real(m.path) \in DOMAIN source /\ now.kind = "file"
           /\ archive' = [archive EXCEPT !.members = @ \cup {[m EXCEPT !.node.data = now.data]}]
           /\ todo' = todo \ {m}
    /\ UNCHANGED <<source, out, pc, entries, outcome, original, runs, edits>>

CloseArchive ==
    /\ pc = "write" /\ todo = {}
    /\ archive' = [archive EXCEPT !.state = "whole"]
    /\ Ends("created")
    /\ UNCHANGED <<source, out, original, runs, edits>>

-----------------------------------------------------------------------------
\* rmtree cannot empty a directory it may not write to.
KeepsPartial(tree) == tree              \* fault: what was extracted is left
Removed(tree) ==
    IF \E p \in DOMAIN tree : ~tree[p].writable /\ Children(tree, p) # {} THEN tree ELSE NoTree

StartExtract ==
    /\ pc = "idle" /\ archive # None /\ runs < Runs /\ runs' = runs + 1
    /\ \/ out' = Removed(out) /\ Goto("mkdir") /\ outcome' = "none"
       \/ Exists(out) /\ outcome' = "exists" /\ UNCHANGED <<out, pc>>
    /\ UNCHANGED <<source, archive, todo, entries, original, edits>>

MakeOutput ==
    /\ pc = "mkdir" /\ ~Exists(out)
    /\ out' = With(NoTree, <<>>, Dir(TRUE))
    /\ todo' = archive.members
    /\ Goto("unpack")
    /\ UNCHANGED <<source, archive, entries, outcome, original, runs, edits>>

\* ensure_real_directory: what is there must be directories, the rest is made.
CanMake(p) ==
    LET there == Prefixes(p) \cap DOMAIN out
        last == CHOOSE q \in there : \A r \in there : Len(r) <= Len(q)
    IN  /\ \A q \in there : out[q].kind = "dir"
        /\ p \in there \/ out[last].writable
WithDirs(p) == [q \in DOMAIN out \cup Prefixes(p) |-> IF q \in DOMAIN out THEN out[q] ELSE Dir(TRUE)]

\* apply_permissions; the mode of a link is not set.
NoPermissions(node) == [node EXCEPT !.writable = TRUE]   \* fault: modes are lost
Applied(node) == node

\* Paths of members are distinct: none replaces another.
Fits(m) ==
    IF m.node.kind = "dir" THEN CanMake(m.path)
    ELSE /\ CanMake(Front(m.path))
         /\ WithDirs(Front(m.path))[Front(m.path)].writable
         /\ m.node.kind = "link" =>
              Inside(Target(WithDirs(Front(m.path)), None, m.path, m.node.link), None)

Unpack ==
    /\ pc = "unpack" /\ todo # {}
    /\ LET m == First(todo)
       IN  /\ Fits(m)
           /\ out' = With(WithDirs(Front(m.path)), m.path, Applied(m.node))
           /\ todo' = todo \ {m}
    /\ UNCHANGED <<source, archive, pc, entries, outcome, original, runs, edits>>

Refuse ==
    /\ pc = "unpack" /\ todo # {} /\ ~Fits(First(todo))
    /\ out' = Removed(out)
    /\ Ends("refused")
    /\ UNCHANGED <<source, archive, original, runs, edits>>

\* A tar that ends too early, between two members, is taken for a whole one.
EndExtract ==
    /\ pc = "unpack" /\ todo = {} /\ archive.state # "torn"
    /\ Ends("extracted")
    /\ UNCHANGED <<source, archive, out, original, runs, edits>>

-----------------------------------------------------------------------------
\* An exception anywhere.  The archive is left and, as its writers are
\* closed, can often be read; the output directory is removed.
Unfinished ==
    IF archive = None THEN {None} ELSE {[archive EXCEPT !.state = s] : s \in {"cut", "torn"}}

Fail ==
    /\ \/ pc \in {"list", "stat", "write"} /\ archive' \in Unfinished /\ out' = out /\ Ends("notcreated")
       \/ pc = "mkdir" /\ UNCHANGED <<archive, out>> /\ Ends("notmade")
       \/ pc = "unpack" /\ archive' = archive /\ out' = Removed(out) /\ Ends("failed")
    /\ UNCHANGED <<source, original, runs, edits>>

\* Also Ctrl-C, which "except Exception" does not catch.
Kill ==
    /\ pc # "idle"
    /\ archive' \in IF pc = "write" THEN Unfinished ELSE {archive}
    /\ Ends("killed")
    /\ UNCHANGED <<source, out, original, runs, edits>>

Command ==
    \/ StartCompress \/ ListPaths \/ Stat \/ OpenArchive \/ Write \/ CloseArchive
    \/ StartExtract \/ MakeOutput \/ Unpack \/ Refuse \/ EndExtract \/ Fail \/ Kill

\* A file is changed, removed or added, or a link, or an empty directory, removed.
Edit ==
    /\ edits < Edits /\ edits' = edits + 1
    /\ \E p \in Candidates(source) :
          \/ source[p].kind = "file" /\ source' = [source EXCEPT ![p].data = 1 - @]
          \/ Children(source, p) = {} /\ source[Front(p)].writable /\ source' = Without(source, {p})
          \/ /\ source[p].kind = "dir" /\ source[p].writable
             /\ Append(p, 1) \notin DOMAIN source
             /\ source' = With(source, Append(p, 1), File(1))
    /\ original' = IF pc \in {"stat", "write"} THEN None ELSE original
    /\ UNCHANGED <<archive, out, pc, todo, entries, outcome, runs>>

Next == Command \/ Edit

Spec == Init /\ [][Next]_vars

-----------------------------------------------------------------------------
TypeOK ==
    /\ IsTree(source) /\ IsTree(out)
    /\ archive # None => archive.state \in {"whole", "cut", "torn"}
    /\ pc \in {"idle", "list", "stat", "write", "mkdir", "unpack"}
    /\ outcome \in {"none", "created", "notcreated", "exists", "extracted", "refused",
                    "failed", "notmade", "killed"}
    /\ original # None /\ archive # None /\ pc # "list" =>
          {m.path : m \in archive.members} \subseteq DOMAIN original
    /\ runs \in 0..Runs /\ edits \in 0..Edits

\* What was extracted of an archive is what was compressed, names, contents,
\* links and permissions, unless it was edited meanwhile.
Below(tree) == Without(tree, {<<>>})
RoundTrip ==
    outcome = "extracted" /\ archive.state = "whole" /\ original # None
    => Below(out) = Below(original)

\* What compress accepts and finishes, extract does not refuse: not for an
\* order of the members, a link to a link or a directory below a link.  It
\* does refuse what is in a directory without write permission, and a link
\* that leads out when the name of the directory is another, or when a link
\* on the way has yet to be extracted.
Plain(tree) ==
    /\ \A p \in DOMAIN tree : tree[p].writable \/ Children(tree, p) = {}
    /\ \A p \in DOMAIN Links(tree), later \in SUBSET DOMAIN Links(tree) :
          Inside(Target(Without(tree, later), None, p, tree[p].link), None)
Extractable ==
    outcome = "refused" /\ archive.state = "whole" /\ original # None => ~Plain(original)

\* extract_archive removes the output directory when extraction fails,
\* whatever permissions the members before had, so that the next attempt
\* needs no --force.
FailureLeavesNothing == outcome \in {"refused", "failed"} => ~Exists(out)
=============================================================================
