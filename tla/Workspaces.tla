----------------------------- MODULE Workspaces -----------------------------
(***************************************************************************)
(* herdrctl's keys that move the focus: "navigate" (navigate.go), which    *)
(* falls back to tabs and workspaces at the edges of a tab's layout,       *)
(* "focus-tab", and the workspace picker (workspace_picker.go).  Each key  *)
(* press is a process of its own that acts on the focus herdr passed it in *)
(* the environment and on listings that may be old when it acts.           *)
(*                                                                         *)
(* A workspace is for a directory; herdr groups those of one repository in *)
(* its sidebar (order.go).  A workspace has one pane, a tab is its number: *)
(* herdr's numbers are compared within one listing only.  Whether the pane *)
(* is at the edge of its layout is any answer; the popups that swallow a   *)
(* key are in Popup.                                                       *)
(***************************************************************************)
EXTENDS Integers, Sequences, SequencesExt, FiniteSets, FiniteSetsExt

CONSTANTS
    Procs,     \* key presses
    Ids,       \* workspace ids, 1 .. n
    Begun,     \* how many workspaces there are to begin with
    Dirs,      \* directories
    RepoKey,   \* the repository of a directory, None without one
    Linked,    \* directories that are linked worktrees
    Tabs,      \* tab numbers
    FirstTab,  \* the one active to begin with
    Labelled,  \* tab numbers whose tab has the label that focus-tab asks for
    Changes,   \* bound: what the user and others change besides
    None

ASSUME WorkspacesAssumption ==
    /\ Ids = 1 .. Cardinality(Ids) /\ IsFiniteSet(Ids)
    /\ Begun \in Ids
    /\ Linked \subseteq Dirs /\ None \notin Dirs \cup Ids \cup Tabs
    /\ Dirs \cap {"left", "right", "up", "down", "label"} = {}
    /\ \A d \in Linked : RepoKey[d] # None
    /\ Tabs \subseteq Nat \ {0} /\ FirstTab \in Tabs /\ Labelled \subseteq Tabs
    /\ Changes \in Nat

VARIABLES
    open,     \* herdr's workspaces by number: a sequence of ids
    born,     \* ids given so far
    dir,      \* what each workspace is for
    cwd,      \* where its pane is, None before herdr has published the pane
    tabs,     \* its tabs
    active,   \* its active tab
    focus,    \* the focused workspace
    pc,       \* where each press is
    asked,    \* its direction, "label", or the directory picked
    seen,     \* the focus in its environment
    goal,     \* the workspace, or tab, it decided for
    changes,
    calm,     \* history: nothing changed herdr since the press but itself
    apart     \* history: pickers saw the pane of every workspace, where it
              \* began, and no other picker about to create one

herdrVars == <<open, born, dir, cwd, tabs, active, focus>>
procVars == <<pc, asked, seen, goal>>
vars == <<herdrVars, procVars, changes, calm, apart>>

Open == ToSet(open)
Directions == {"left", "right", "up", "down"}

-----------------------------------------------------------------------------
\* sidebarOrder, for a sequence of workspaces in the order of their numbers.
Key(w) == RepoKey[dir[w]]
Primary(w) == Key(w) # None /\ dir[w] \notin Linked
Siblings(seq, w) ==
    LET Linking(v) == IF Key(v) = Key(w) /\ dir[v] \in Linked THEN <<v>> ELSE <<>>
    IN  FlattenSeq([i \in DOMAIN seq |-> Linking(seq[i])])

\* The last main checkout of a repository is its root.
Root(seq, w) ==
    LET at == {i \in DOMAIN seq : Primary(seq[i]) /\ Key(seq[i]) = Key(w)}
    IN  IF at = {} THEN None ELSE seq[Max(at)]

\* What the loop appends when it comes to workspace w.
AtItsNumber(seq, w) == <<w>>                \* fault: the group is not kept together
Emits(seq, w) ==
    CASE Key(w) = None -> <<w>>
      [] Key(w) # None /\ Root(seq, w) = w -> <<w>> \o Siblings(seq, w)
      [] Key(w) # None /\ Root(seq, w) = None /\ Head(Siblings(seq, w)) = w -> Siblings(seq, w)
      [] OTHER -> <<>>

SidebarOrder(seq) == FlattenSeq([i \in DOMAIN seq |-> Emits(seq, seq[i])])

-----------------------------------------------------------------------------
\* currentItem: the focused item of the listing, else the one with that id.
CurrentItem(items, focused, id) ==
    CASE focused \in items -> focused
      [] focused \notin items /\ id \in items -> id
      [] OTHER -> None

\* adjacentByNumber and adjacentInOrder; None at either end.
ZeroAtEnd(items, current, forward) ==       \* fault: found is not looked at
    LET beyond == {t \in items : IF forward THEN t > current ELSE t < current}
    IN  IF forward THEN Min(beyond \cup {Max(items) + 1}) ELSE Max(beyond \cup {0})
AdjacentByNumber(items, current, forward) ==
    LET beyond == {t \in items : IF forward THEN t > current ELSE t < current}
    IN  CASE beyond = {} -> None
          [] beyond # {} /\ forward -> Min(beyond)
          [] OTHER -> Max(beyond)

TwoSteps(seq, current, forward) == LET i == SelectInSeq(seq, LAMBDA w : w = current)
                                       j == IF forward THEN i + 2 ELSE i - 1
                                   IN  IF i # 0 /\ j \in DOMAIN seq THEN seq[j] ELSE None
                                            \* fault: the neighbour is skipped
AdjacentInOrder(seq, current, forward) ==
    LET i == SelectInSeq(seq, LAMBDA w : w = current)
        j == IF forward THEN i + 1 ELSE i - 1
    IN  IF i # 0 /\ j \in DOMAIN seq THEN seq[j] ELSE None

Forward(p) == asked[p] \in {"right", "down"}

-----------------------------------------------------------------------------
\* To begin with every workspace is for another directory and its pane is
\* there.
Init ==
    /\ open = [i \in 1 .. Begun |-> i] /\ born = Begun
    /\ dir \in [Ids -> Dirs \cup {None}]
    /\ \A w \in Ids : dir[w] = None <=> w > Begun
    /\ \A w, v \in 1 .. Begun : dir[w] = dir[v] => w = v
    /\ cwd = dir
    /\ tabs = [w \in Ids |-> Tabs]
    /\ active = [w \in Ids |-> FirstTab]
    /\ focus \in 1 .. Begun
    /\ pc = [p \in Procs |-> "new"]
    /\ asked = [p \in Procs |-> None]
    /\ seen = [p \in Procs |-> None]
    /\ goal = [p \in Procs |-> None]
    /\ changes = 0 /\ calm = [p \in Procs |-> FALSE] /\ apart = TRUE

Goto(p, label) == pc' = [pc EXCEPT ![p] = label]
Ends(p) ==
    /\ Goto(p, "done")
    /\ asked' = [asked EXCEPT ![p] = None]
    /\ seen' = [seen EXCEPT ![p] = None]
    /\ goal' = [goal EXCEPT ![p] = None]
Acts(p) == Ends(p) /\ calm' = [q \in Procs |-> FALSE]
Decide(p, target, next) ==
    \/ /\ target = None
       /\ Ends(p)
       /\ calm' = [calm EXCEPT ![p] = FALSE]
    \/ /\ target # None
       /\ goal' = [goal EXCEPT ![p] = target]
       /\ Goto(p, next)
       /\ UNCHANGED <<asked, seen, calm>>

\* Herdr starts the command with what has the focus in its environment.
Start(p, what, label) ==
    /\ pc[p] = "new"
    /\ asked' = [asked EXCEPT ![p] = what]
    /\ seen' = [seen EXCEPT ![p] = [space |-> focus, tab |-> active[focus]]]
    /\ Goto(p, label)
    /\ calm' = [calm EXCEPT ![p] = TRUE]
    /\ UNCHANGED <<herdrVars, goal, changes, apart>>

Navigate(p) == \E what \in Directions : Start(p, what, "edges")
FocusTabLabel(p) == Start(p, "label", "tabs")
\* A directory is picked in fzf.
Pick(p) == \E d \in Dirs : Start(p, d, "panes")

\* pane.edges: the pane may be gone.  Away from the edge another pane of its
\* tab gets the focus, if need be with the tab.
Edges(p) ==
    /\ pc[p] = "edges"
    /\ seen[p].space \in Open /\ seen[p].tab \in tabs[seen[p].space]
    /\ \/ /\ Goto(p, IF asked[p] \in {"left", "right"} THEN "tabs" ELSE "spaces")
          /\ UNCHANGED <<focus, active, calm, asked, seen, goal>>
       \/ /\ Acts(p)
          /\ focus' = seen[p].space
          /\ active' = [active EXCEPT ![focus'] = seen[p].tab]
    /\ UNCHANGED <<open, born, dir, cwd, tabs, changes, apart>>

\* fallbackTab and focusTabLabel list the tabs of the workspace in the
\* environment.  Herdr may mark a tab there while another workspace has the
\* focus, or not.
FirstLabelled(items) == IF items \cap Labelled = {} THEN None ELSE Min(items \cap Labelled)
ListTabs(p) ==
    LET w == seen[p].space IN
    /\ pc[p] = "tabs"
    /\ w \in Open
    /\ \E marked \in {active[w]} \cup (IF focus = w THEN {} ELSE {None}) :
         LET current == CurrentItem(tabs[w], marked, seen[p].tab) IN
         Decide(p, CASE asked[p] = "label" -> FirstLabelled(tabs[w])
                     [] asked[p] # "label" /\ current = None -> None
                     [] OTHER -> AdjacentByNumber(tabs[w], current, Forward(p)), "tab")
    /\ UNCHANGED <<herdrVars, changes, apart>>

\* tab.focus also focuses the tab's workspace.
FocusTab(p) ==
    LET w == seen[p].space IN
    /\ pc[p] = "tab"
    /\ w \in Open /\ goal[p] \in tabs[w]
    /\ focus' = w
    /\ active' = [active EXCEPT ![w] = goal[p]]
    /\ Acts(p)
    /\ UNCHANGED <<open, born, dir, cwd, tabs, changes, apart>>

\* fallbackWorkspace
ListSpaces(p) ==
    LET listing == SidebarOrder(open) IN
    /\ pc[p] = "spaces"
    /\ Decide(p, AdjacentInOrder(listing, CurrentItem(ToSet(listing), focus, seen[p].space), Forward(p)), "space")
    /\ UNCHANGED <<herdrVars, changes, apart>>

FocusSpace(p) ==
    /\ pc[p] = "space"
    /\ goal[p] \in Open
    /\ focus' = goal[p]
    /\ Acts(p)
    /\ UNCHANGED <<open, born, dir, cwd, tabs, active, changes, apart>>

\* workspaceIDForCWD: the first pane of any workspace that is there.
InFocus(d) == {w \in {focus} : cwd[w] = d}   \* fault: only the panes of one workspace
AtDirectory(d) == {w \in Open : cwd[w] = d}

ListPanes(p) ==
    /\ pc[p] = "panes"
    /\ \/ /\ AtDirectory(asked[p]) = {}
          /\ Goto(p, "create")
          /\ UNCHANGED <<asked, seen, goal, calm>>
       \/ \E w \in AtDirectory(asked[p]) : Decide(p, w, "space")
    /\ apart' = /\ apart
                /\ \A w \in Open : cwd[w] = dir[w]
                /\ \A q \in Procs : pc[q] # "create"
    /\ UNCHANGED <<herdrVars, changes>>

\* workspace.create: the pane comes later.
Create(p) ==
    LET w == born + 1 IN
    /\ pc[p] = "create"
    /\ w \in Ids
    /\ born' = w
    /\ open' = Append(open, w)
    /\ dir' = [dir EXCEPT ![w] = asked[p]]
    /\ tabs' = [tabs EXCEPT ![w] = {Min(Tabs)}]
    /\ active' = [active EXCEPT ![w] = Min(Tabs)]
    /\ focus' = w
    /\ Acts(p)
    /\ UNCHANGED <<cwd, changes, apart>>

\* A press whose call fails, or that is killed, takes no further step.
Press(p) ==
    \/ Navigate(p) \/ FocusTabLabel(p) \/ Pick(p)
    \/ Edges(p) \/ ListTabs(p) \/ FocusTab(p) \/ ListSpaces(p) \/ FocusSpace(p)
    \/ ListPanes(p) \/ Create(p)

-----------------------------------------------------------------------------
\* Herdr publishes the first pane of a new workspace.
Publish(w) ==
    /\ w \in Open /\ cwd[w] = None
    /\ cwd' = [cwd EXCEPT ![w] = dir[w]]
    /\ calm' = [p \in Procs |-> FALSE]
    /\ UNCHANGED <<open, born, dir, tabs, active, focus, procVars, changes, apart>>

\* What else the user does, and others who use herdr's socket.
ChangeDirectory(w) ==
    /\ cwd[w] # None
    /\ \E d \in Dirs \ {cwd[w]} : cwd' = [cwd EXCEPT ![w] = d]
    /\ UNCHANGED <<open, dir, tabs, active, focus>>

CloseSpace(w) ==
    /\ \E i \in DOMAIN open : open[i] = w /\ open' = RemoveAt(open, i)
    /\ open' # <<>>
    /\ IF focus = w THEN focus' \in ToSet(open') ELSE UNCHANGED focus
    /\ UNCHANGED <<dir, cwd, tabs, active>>

Renumber(w) ==
    /\ \E i, j \in DOMAIN open :
         /\ open[i] = w /\ i # j
         /\ open' = InsertAt(RemoveAt(open, i), j, w)
    /\ UNCHANGED <<dir, cwd, tabs, active, focus>>

CloseTab(w) ==
    /\ w = focus
    /\ \E t \in tabs[w] :
         /\ tabs' = [tabs EXCEPT ![w] = @ \ {t}] /\ tabs'[w] # {}
         /\ IF active[w] = t THEN \E u \in tabs'[w] : active' = [active EXCEPT ![w] = u] ELSE UNCHANGED active
    /\ UNCHANGED <<open, dir, cwd, focus>>

Others ==
    /\ changes < Changes
    /\ changes' = changes + 1
    /\ \E w \in Open : ChangeDirectory(w) \/ CloseSpace(w) \/ Renumber(w) \/ CloseTab(w)
    /\ calm' = [p \in Procs |-> FALSE]
    /\ UNCHANGED <<born, procVars, apart>>

Next ==
    \/ \E p \in Procs : Press(p)
    \/ \E w \in Ids : Publish(w)
    \/ Others

Spec == Init /\ [][Next]_vars

-----------------------------------------------------------------------------
TypeOK ==
    /\ born \in Ids /\ open \in Seq(1 .. born)
    /\ dir \in [Ids -> Dirs \cup {None}]
    /\ cwd \in [Ids -> Dirs \cup {None}]
    /\ tabs \in [Ids -> SUBSET Tabs]
    /\ active \in [Ids -> Tabs]
    /\ focus \in Ids
    /\ pc \in [Procs -> {"new", "edges", "tabs", "tab", "spaces", "space", "panes", "create", "done"}]
    /\ asked \in [Procs -> Directions \cup {"label", None} \cup Dirs]
    /\ seen \in [Procs -> [space : Ids, tab : Tabs] \cup {None}]
    /\ goal \in [Procs -> Ids \cup Tabs \cup {None}]
    /\ changes \in 0 .. Changes
    /\ calm \in [Procs -> BOOLEAN] /\ apart \in BOOLEAN

\* What the sidebar shows: the groups by the number of their root, or of
\* their first worktree when there is none; in a group the root first.
Number(w) == CHOOSE i \in DOMAIN open : open[i] = w
Group(w) == IF Key(w) = None THEN {w} ELSE {v \in Open : Key(v) = Key(w)}
LeadNumber(w) ==
    LET roots == {v \in Group(w) : Primary(v)}
    IN  IF roots = {} THEN Min({Number(v) : v \in Group(w)}) ELSE Max({Number(v) : v \in roots})
Before(w, v) ==
    \/ LeadNumber(w) < LeadNumber(v)
    \/ /\ LeadNumber(w) = LeadNumber(v)
       /\ IF Primary(w) = Primary(v) THEN Number(w) < Number(v) ELSE Primary(w)

\* What the listing lacks: a second main checkout of a repository hides the first.
Hidden == {w \in Open : Primary(w) /\ \E v \in Group(w) : Primary(v) /\ Number(v) > Number(w)}
Shown == Open \ Hidden

\* Whatever was opened, closed and renumbered, the listing that up and down
\* follow is in the order of the sidebar, each workspace once and worktrees next
\* to their main checkout.  It is not what the comment promises, "Workspaces
\* lists all workspaces" (queries.go:147): of two workspaces that are main
\* checkouts of one repository only the last is listed (order.go:24).
Sidebar ==
    LET listing == SidebarOrder(open) IN
    /\ ToSet(listing) = Shown /\ Len(listing) = Cardinality(Shown)
    /\ \A i, j \in DOMAIN listing : i < j => Before(listing[i], listing[j])

\* "openOrFocusWorkspace focuses an existing cwd workspace or creates it"
\* (workspace_picker.go:99): a directory gets a second workspace only if two
\* pickers look and create at once, if herdr had not yet published a pane, or
\* if a pane has left its directory.
OneSpaceEach == apart => \A w, v \in Open : dir[w] = dir[v] => w = v

\* Where a key press is to lead, in terms of what is on the screen.
NextTo(S, less(_, _), from) ==
    LET after == {v \in S : less(from, v)} IN
    IF after = {} THEN from ELSE CHOOSE v \in after : \A u \in after \ {v} : less(v, u)

Meant(p) ==
    LET w == seen[p].space
        t == seen[p].tab
    IN
    CASE asked[p] = "down" -> focus' = IF w \in Hidden THEN w ELSE NextTo(Shown, Before, w)
      [] asked[p] = "up" -> focus' = IF w \in Hidden THEN w ELSE NextTo(Shown, LAMBDA u, v : Before(v, u), w)
      [] asked[p] = "right" -> focus' = w /\ active'[w] = NextTo(tabs[w], LAMBDA u, v : u < v, t)
      [] asked[p] = "left" -> focus' = w /\ active'[w] = NextTo(tabs[w], LAMBDA u, v : u > v, t)
      [] asked[p] = "label" -> focus' = w /\ (tabs[w] \cap Labelled # {} => active'[w] \in Labelled)
      [] OTHER -> /\ asked[p] \in {dir'[focus'], cwd'[focus']}
                  /\ AtDirectory(asked[p]) # {} => born' = born

\* "navigate focuses a pane in dir, falling back to tabs or workspaces at
\* edges" (navigate.go:28): a key that nothing came between moves the focus to
\* the workspace next in the sidebar, to the next tab of the same workspace, or
\* to the directory picked, and nowhere at the end.
GoesWhereMeant ==
    [][\A p \in Procs :
         calm[p] /\ pc[p] \notin {"edges", "done"} /\ pc'[p] = "done" => Meant(p)]_vars
=============================================================================
