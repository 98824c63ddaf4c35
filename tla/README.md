# Verification of nixconf

TLA+ models of the programs in this repository that keep state, wait, retry or
run beside each other, the TLC runs that check them on small instances, and
TLAPS proofs of what matters most for every instance.

The repository is a NixOS / nix-darwin configuration with the programs it
installs: Python, Nushell, Go and Lua commands under `pkgs/`, `modules/` and
`.pi/`. The configuration itself is data for Nix and has no behaviour over time;
the programs do, and most of them are started from key bindings, so that several
invocations overlap and meet in files, locks, sockets and external daemons.

## 1. Inventory

### 1.1 Audio switching: `pkgs/switchaudio`

*State.* One file `switchaudio-pending` that holds the id of the waiting
request, one `flock` file beside it; PipeWire's default sink and card profile.
*Operations.* `switchaudio --wait` (queue, then retry under the lock until the
sink exists, the deadline passes or another request takes the file over),
`switchaudio --alsa-name` (empty the file, switch at once), `switchaudio` (empty
the file, let the user pick in fuzzel).
*Interaction.* Started by the compositor after every profile change
(`monitor_profiles.lua:233-258`), by game mode, and from a key binding: they
overlap. Talks to PipeWire with one `pactl`/`wpctl` process per command.
*Hard.* Any number of processes; killed at any line; devices that come and go
between two commands; the file is read again before each attempt only.
*Correct when* the newest request wins and an older one never undoes it, only
the process that owns the file clears it, nobody gives up without a reason, and
every waiter ends.

### 1.2 Monitor profiles: `pkgs/hypr-monitor-profile`, `hyprland/src/monitor_profiles.lua`

*State.* The request file (id and label), the state file, the Lua globals
`state.active_profile` and `last_profile_request_id`, the compositor's outputs,
the Sunshine process.
*Operations.* A requester creates or removes the headless output and writes the
request; the compositor polls the file every 250 ms, applies the rules, writes
the state file, starts or stops Sunshine and switches audio; a reload of the
configuration, an exit or a restart of Hyprland run the whole Lua file again.
*Hard.* Truncate-then-write against the poll; requests overwritten before they
are taken; restarts that re-read both files; a rebuild that deploys other labels.
*Correct when* a request is applied, once; the state file names the profile in
force; a reload does not change it; the tablet's output and Sunshine follow it.

### 1.3 Game mode: `pkgs/game-mode`, `modules/game-mode`

*State.* The script's position, the systemd unit, whether Steam ran, the audio
sink. *Operations.* check the unit and the TV, stop Steam, start the unit, switch
audio when gamescope is up, wait for the end, restore. *Interaction.* systemd,
switchaudio, hypr-monitor-profile and through it the compositor.
*Hard.* Two invocations pass the unit check together; external commands that
fail abort a Nushell script; the label to restore is read from a file that a
compositor rewrites. *Correct when* the desktop's profile and audio come back.

### 1.4 herdr helpers: `pkgs/herdr-keybinds`

| Part | State | Operations | Hard | Correct when |
|---|---|---|---|---|
| popups (`popup.go`, `state.go`) | `state.json`: panes per popup name; herdr's panes | toggle: close the active popup or replace all others | key presses overlap; saves share one temporary name; close fails half way | one popup per name; a popup that is open can be closed |
| lazygit watcher (`lazygit_watch.go`) | child process, its directory, event channel | restart on a change of workspace, quit with the child, stop on signals | `select` picks among ready cases; SIGTERM/SIGKILL with a timeout | never two children; a clean quit quits |
| navigation (`navigate.go`, `internal/herdr/order.go`, `workspace_picker.go`) | none; the focus in the environment, herdr's listings | next/previous pane, tab and workspace; a tab by label; open or focus a directory's workspace | presses overlap; the environment and the listings are old when they are used; worktrees grouped in the sidebar; a new workspace has no pane for a while | a press leads where it meant on the screen it was pressed on; one workspace per directory |
| fetch cache (`internal/fetchcache`) | one file per entry with its time | fetch fresh, stale or refresh | concurrent writers; clocks; failed fetches | fresh values are younger than the TTL; a failure never loses a value |
| sheer catalog (`internal/sheer/catalog.go`, `sources.go`, `repo.go`) | none; inputs from git, git-spice's store and GitHub | merge local and remote stacks, pagination with ETags | partly merged stacks, worktrees of layers | each branch once, the right worktree |
| sheer picker/workspace (`picker.go`, `workspace.go`) | herdr workspaces, git worktrees | open, or create and open | the workspace appears meanwhile | no second worktree of a branch |
| client (`internal/herdr/client.go`) | none | one request per connection; a subscription | I/O errors | errors are returned |

### 1.5 Git and CI scripts: `modules/terminal/scripts`

`mergequeue.nu` drives a pull request through GitHub's merge queue (poll, arm or
enqueue, retry after removals that are not the author's fault);
`gs.nu` pulls and reviews stacks (a pull moves local branches to GitHub's tips,
creates missing ones, saves the old tips and imports gh stack's tracking again, as
a sequence of git, gh and gh stack calls any of which may be the last); `worktree-cleanup.nu`, `prunegit.nu` and
`bazelprune` remove what is no longer needed; `sheer-release.nu` chooses the next
tag. State lives in git and on GitHub and changes under them between two calls.

### 1.6 Archive: `pkgs/archive`

*State.* The archive file and the output directory. *Operations.* `compress`
(list, stat in threads, write in order) and `extract` (make the directory, apply
member after member, remove the directory on an exception).
*Hard.* The directory changes while it is listed, looked at and written; links
are checked against what has been extracted so far; a directory's mode is set
before its members come; either command fails or is interrupted part way.
*Correct when* what was compressed comes back the same, what compress accepted
extract accepts, and a failure leaves nothing in the way of the next attempt.

### 1.7 The rest

`kitty-hypr-nav` (a pure neighbour function and a dispatch), `.pi/extensions`
(tool wrappers; `nix-search.ts` truncates output), `nh-cachix`, the SMS receiver,
`lazy-app-validate`, and straight-line scripts. The quickshell bar, key bindings,
nvim, themes and every `.nix` option set are configuration or display.

## 2. Plan

The most concurrent parts first. Done:

1. `SwitchAudio`, its abstract specification `LatestRequest`, `SwitchAudioProofs`.
2. `MonitorProfile`; `GameMode`, which extends it and runs in the same state space
   (game mode is one more requester of profiles), with `GameModeProofs`, which holds
   the proofs about both and in which the composition implements `MonitorProfile`.
3. `Popup`.
4. `LazygitWatch` and its abstract specification `Supervisor`; `HerdrProofs` holds
   the proofs about `Popup` and about the watcher.
5. `FetchCache`; its proofs are in `SheerProofs`.
6. `MergeQueue` with `MergeQueueProofs`.
7. `SheerCatalog`, the catalog's operators, and `SheerOpen`, the runs that use it, with
   `SheerProofs`, which holds the proofs about both `FetchCache` and `SheerOpen`.
8. `Archive` with `ArchiveProofs`.
9. `Workspaces` (navigation, the sidebar's order, the workspace picker) with
   `WorkspacesProofs`.
10. `StackPull` (`gs.nu`, stack-pull) with `StackPullProofs`.

Next, in this order:

11. `StackPages` (`sources.go:94`): GitHub's pages of stacks, asked for together
    while the list shifts under them, with their ETags.
12. `SheerRelease` (`sheer-release.nu:57-85`): two people drafting on one day, with
    a listing of releases that is cut at fifty.
13. `WorktreeCleanup`: the Bazel server and output base of a worktree whose removal
    is refused after the server was stopped.

They are to share runs with what is there, so that the checking time stays bounded.

Proofs: every safety property that a run checks and finds to hold is proved (6), and
so are both refinements. Not planned: proofs of liveness, which `tlapm` cannot do
(their safety halves are proved where they say something), and of what recursive
definitions compute. A module of the list above comes with its proofs.

## 3. The modules and the code

Each module starts with a comment that says what it stands for and what it
leaves out; `PROJECT.json` maps each definition to its lines. An action is what a
process does between two points where another process could act: one external
command, one system call on a shared file, one callback of the compositor, one
case of a `select`.

### 3.1 `SwitchAudio` and `LatestRequest`

`pc[p]` is the place of an invocation in `main`; `lock` is the holder of the
`flock`, `pending` the contents of the pending file, `plugged`, `card` and
`default` are what PipeWire shows. `Start`..`Finish` follow
`wait_for_requested_sink` and its retry loop, `Cancel`..`Verify` the manual
switches. `Kill` may come anywhere and releases the lock as the kernel does, not
the file. `setter`, `stamp` and `serial` are history: who set the default sink
last and in which order requests were accepted.

Read from the code and kept: a manual switch empties the file under the lock but
switches outside it; the card profile may be changed although the sink is never
found; a failed `set-card-profile` is not retried but ends the invocation; a kill
leaves the file behind, and only the next request replaces it.

`LatestRequest` has requests, overrides and grants only. `Arbitrates` says that
`SwitchAudio` implements it with `Requests <- Waiters` and `Overrides <- Manuals`.

### 3.2 `MonitorProfile`

Requesters are runs of `hypr-monitor-profile`: `output` (create or remove the
headless output), `open` (truncate), `write`. `Poll`, `SaveState`, `Reload`,
`Boot` and the exit of Hyprland are the callbacks of the Lua file; `known` is the
set of labels the running configuration was built with, `deployed` the one on
disk. `shown`, `served` and `calm` are history: the profile applied last, the
requests applied since the last load, and whether requesters never overlapped.

Kept from the code: creating the output and queueing the request are two steps,
so two requesters can leave a headless output that does not match the last
request (`TabletServed` speaks of `calm` histories only, in which profiles are picked
one after the other and nothing is killed); a label the new
configuration does not know leaves no rules at all; a restart loses the headless
output while the tablet profile is applied again.

### 3.3 `GameMode`

Extends `MonitorProfile`; a game-mode invocation is a requester whose profile
steps are those of 3.2, preceded by the steps of `game-mode.nu`: check the unit,
quit Steam, start the unit, wait for gamescope, sound to the TV, wait for the end,
read the state file, request the profile it named. `unit`, `steam`, `quitting`
and `audio` belong to systemd, Steam and switchaudio.

`audio` is the sound asked for last, which by `SwitchAudio` is the one that wins. The
script waits for its own `switchaudio`, but the applier only spawns one
(`ApplyEnds`, `monitor_profiles.lua:257`): `switching` counts, per profile, the
commands spawned whose request is still to be queued, and `SwitchQueues` queues one of
them at any time, so that the requests of two profiles, or of a profile and game mode,
come in any order. `raced` remembers that a profile was applied while a command of
another was on its way. A profile for which neither it nor the host names a sink
(`Silent`, `lua:242-247`) spawns none; the run has none of these, the theorem holds for
any. At most `MaxSwitches` commands of one profile are on their way at once (a bound).
Not modelled: a `switchaudio` of the applier that dies before it queues, and
one the user starts.

`Faults` lets a bare external
command fail, which aborts a Nushell script, and `Killed` ends a requester together
with the script that waits for it. One run checks both modules: every requester
may be a game-mode invocation or the user's own, and the properties of 3.2 are
checked under the steps of game mode as well.

Kept from the code: two invocations may both find the unit idle, and then each quits
Steam, starts the unit and restores.

### 3.4 `Popup`

One process per key press (`herdrctl popup`). `file` and `tmp` are `state.json`
and its one temporary name, `fd[t]` what an open descriptor refers to (the rename
moves the file under it), `open`, `current` and `retitled` are herdr's panes.
`AtOnce` bounds how many presses overlap and `Together` which names' do, `Faults`
lets calls fail. `apart` and `clean` remember that no presses overlapped and that
nothing failed, and each property says which of the two it needs. A write of one
process over another's is any mixture (`Over`). The branch for a created pane
without an id is left out: herdr's answer always has one.

### 3.5 `LazygitWatch`

`wpc` is the place in the event loop and in `stop`. `child`/`cwd` are what the
loop believes, `proc`/`dir` what the system has; `done` is the channel each child
closes. `OnEvent` and `OnTick` lead to the same query. Process slots are reused
when a process is reaped, so that any number of restarts happens in a finite
model. `lost` remembers that a process could not be signalled: the code then
forgets it while it runs.

`Supervisor` is what the watcher promises without channels, signals and timeouts:
`running` and `place` are the processes and where they were started, `asked` is what
the watcher saw of the focus last, `owed` that a start there is still to come. A
start is owed once at the beginning and once per move of the focus, so that a
lazygit which ended with an error or did not start is not tried again in the same
place. `Supervises` maps `running` to the live processes, `place` to `dir`, `asked`
to `next`, and `owed` to the steps at which the code has committed itself to a start
(`Owed`). A stop that cannot signal its process (`lost`) ends the promise.

### 3.6 `FetchCache`

One process slot per run of `herdrctl`, used again and again; `Begin` chooses the
mode, or the picker's two fetches. `server` is the version of the list, `replaced`
when a version ended. `Stamp`, `WhileWriting` and `Rename` are the atomic write. A
stamp is the time of the write (`cache.go:130`), not of the question: a run that asked
early and writes late replaces a newer value by an older one under a newer stamp, and
what is returned as fresh may be a TTL and a request old (`FreshIsYoung`). Named bounds:
`Latency` (how long a request takes, the code has no limit), `MaxTime`,
`MaxVersion`, `MaxBack` (how far the clock is set back).

### 3.7 `MergeQueue`

`pc` is the place in `main` and `enqueue-or-arm`, `state` the record the script
fetched last, `pr` the pull request on GitHub. `Author`, `QueueMerges`,
`QueueRemoves` and `RequirementsMet` change `pr` between any two requests.
`Fetched` is the pull request or nothing (GitHub's answer with errors and no
data); any other failure ends the run with 4. A removal reason is the set of the
word lists it matches, since the code tests the lists in order by substring; a reason
that matches none is among them. `asked` remembers that a request of the script took
effect and that the queue has not removed the pull request since: `OncePerRemoval`
says that the script makes no other then, whatever it was told.

Kept from the code: auto-merge that is taken back has no event in the query, and
the script polls on, for as long as the pull request stays open; when `gh pr merge`
fails and the look after it has no answer (`mergequeue.nu:274-285`), the script ends
with 2 or 3 although the request may have taken effect; a retry does not look at the
events again after its delay, so it overrides what a maintainer did in it; the list for failed checks holds "ci",
which also matches inside other words.

### 3.8 `SheerCatalog` and `SheerOpen`

`SheerCatalog` holds the operators of `catalog.go`: merging local and GitHub stacks
(`MergeStacks`), the entries (`BuildEntries`), the look-up of a branch (`Found`) and
of its worktree (`WorktreeFor`). Where the code takes the first of several in an
order of commit times, any of them may be it. Worktrees are looked at by rank: one
that a workspace shows, one below Herdr's own directory (`Managed`), any other.

`SheerOpen` has one process per `herdrctl sheer-workspace open` or picker, which is at
`stage`. `github`
and `origin` are the world, `cache` what the fetch cache holds of it, `tracked` gh
stack's own list, `trees` the branch in each worktree, `shown` and `spaces` herdr's
workspaces. `LoadCatalog` takes the current, a cached or no listing (`ListedStacks`,
`ListedHeads`); `Checkout` and `InitStack` are the command typed into the new
pane. `Others` is one step of a user, an agent or GitHub: push, stack, merge,
submit, add a layer, move or remove a worktree. `fresh` remembers that nothing has
changed what a run looked at last: `OneTree` and `OnlyNewFromMain` speak of such
runs, `NoSecondStack` of any listing.

Kept from the code: with an outdated listing, two runs can make two worktrees of
one stack and two primary workspaces; a run killed between `worktree.create` and
the clearing of the upstream leaves main as the branch's upstream, and no later
run clears it.

The limit of `OneTree`: a layer that only GitHub has of a stack tracked here, which a
colleague added, gets a second worktree, against the comment in the code (7). The
property speaks of the layers gh stack tracks here and of stacks that are only on GitHub.

### 3.9 `Archive`

One command at a time: `pc` is its place, `todo` the paths or members left,
`entries` the manifest. `source` is the directory compressed, which `Edit` may
change between any two steps, `archive` the members written and whether the file is
whole, cut or torn, `out` the output directory. `Resolve` is `Path.resolve` over a
tree with links. `Fail` is an exception at any point, `Kill` also Ctrl-C, which
`except Exception` does not catch, so that the output directory stays.

Kept from the code, and the reason for `Plain` in `Extractable`: a directory
without write permission that has content is archived, but extraction refuses it,
since the mode is set before the content comes; a link that leaves the directory
and comes back by its own name is archived but refused when extracted under
another name; so is one that passes through a link extracted later. A failed
`compress` leaves an archive whose writers were closed: it may be readable and
short, and `extract` then reports success. `RoundTrip` speaks of whole archives.

`Follow` is what `Path.resolve` does with the next name of a path, and `Steps` bounds
how many names the links on a path may add to its own before it counts as a loop.
Not modelled: `extract --force` onto a directory that holds the archive itself.

### 3.10 `Workspaces`

One process per key press: `Navigate`, `FocusTabLabel` and `Pick` take the focus
from the environment (`seen`) as herdr set it, `Edges`, `ListTabs`, `ListSpaces` and
`ListPanes` ask herdr and decide (`goal`), `FocusTab`, `FocusSpace` and `Create` act.
`open` is herdr's numbering, `dir` the directory a workspace was made for, `cwd` that
of its pane, which herdr publishes some time after the workspace (`Publish`).
`SidebarOrder` is the loop of `order.go` as a concatenation of what it emits at each
workspace; `Sidebar` compares it with the order in which a reader of the sidebar
would put the workspaces, and `GoesWhereMeant` with what is on the screen.
Between any two calls the user changes directories, closes, renumbers (`Others`).
`calm` remembers that nothing changed herdr since a press, `apart` that no picker
looked while another created and that panes were at their directories.

Kept from the code: of two workspaces that are main checkouts of one repository,
`sidebarOrder` keeps the last (`order.go:24`); up and down do not reach the first
(`Hidden`) and do nothing in it, against the comment in the code (7). Two pickers that look before either creates, or one that looks before
the pane of a new workspace is published, open a second workspace of a directory.
Left out: the popup that swallows a key (3.4), the look-up of a created workspace in
older versions of herdr (`queries.go:177-198`), the order of the picker's list.

### 3.11 `StackPull`

One process per `gs stack-pull`. `stacks`, `tip`, `head` and `pr` are GitHub, `local`,
`tracking`, `at` and `dirty` git's branches and worktrees, `catalog` what gh stack
tracks, `backup` the refs the script saves. `Ask`, `Fetch`, `Plan`, `Check`, `Move`,
`Unstack`, `Checkout` are the script's calls in their order, one branch per `Move`; a
run stops wherever a call fails, it is killed or it was a dry run (`Stop`), and another
may start from what it left, also after the user committed in between. A branch's
tip is the set of its commits, which tells apart what the properties need: which
commits are reachable from a branch or a backup. `mine` remembers what was committed
here, `late` what came to a branch between a run's plan and its move, `calm` that
nothing but the run changed anything since it asked GitHub. A run that stopped has
nothing left to move, so that commits made after it are not `late`.

Kept from the code: the ref a branch moves to is evaluated again when it moves; a
commit made between plan and move is in no backup (`late`, the limit of
`NothingLost`); the stack's number goes stale when GitHub recreates the stack, so
local stacks are found by their branches; a local stack without a number can only be
dropped from one of its branches. Left out: two pulls within one second, which share
the name of their backup; the warning at the end (`gs.nu:401-409`); rebases in progress. The plan reads worktrees, branches and local stacks in one step.

## 4. The runs

| Run | Instance | What it shows |
|---|---|---|
| `switchaudio` | 2 waiters, 1 manual switch, a removable sink, 1 retry | who keeps the file and who may switch, the refinement of `LatestRequest`, and that every waiter ends |
| `game_mode` | 2 requesters that may be game-mode invocations, the labels default and tablet, 1 sound command per label on its way; failures, kills, rebuilds, restarts | requests are applied; the state file is right; the tablet is served; reloads keep the profile; after invocations that were not cut short the sound is the profile's again; invocations end |
| `game_mode_restore` | 1 invocation, no faults | **violation**: see 7 |
| `popup_toggles` | 3 presses, 2 names, those of one name at once, faults and kills | without overlap the state file is whole, there is one popup per name and navigation knows it; what overlapping presses leave, the next one repairs |
| `popup_torn` | 2 presses at once, no faults | **violation**: see 7 |
| `lazygit_watch` | 3 workspaces, 2 roots, 2 process slots, channel of 1 | one lazygit, the refinement of `Supervisor`; it follows the focus; stops end |
| `fetch_cache` | 2 slots, TTL and latency 1, 4 instants, 2 versions, a clock set back by 1 | ages, and that a cached value is never lost |
| `merge_queue` | 4 changes by others, 4 removal reasons of which one is unknown, the 3 last events | the exit code is true; what is retried, and how often; the script ends or asks again |
| `sheer_open` | 2 runs, 3 branches, 2 worktree places of which one is Herdr's, 2 changes by others, every call may fail | one worktree per stack, only new branches start from main, no second stack |
| `archive` | 3 commands, every tree of up to 3 paths below the directory and one of 4, 1 edit | what is extracted is what was compressed; what was compressed is extracted; failures leave nothing |
| `workspaces` | 2 presses, 4 workspaces of which 2 are there to begin with, 5 directories (a plain one, a main checkout with 2 worktrees, a worktree without main checkout), 3 tabs, 1 change by others | the sidebar's order, where presses lead, one workspace per directory |
| `stack_pull` | 2 runs, 2 branches, 2 worktrees, GitHub restacks once, 1 change by others | no commit made here is lost; an undisturbed run leaves the stack as GitHub has it and tracked here, also after one that stopped half-way |

*Why the bounds are enough.* Two overlapping actors reach every ordering of two
steps around a third actor's; where three matter (who replaced whom) the third is
a manual switch or the compositor. One retry puts both "before" and "after" an
attempt into the loop. Two process slots with reuse let one lost process stay
beside a current child. Time in `FetchCache` needs one instant before, at and after
the TTL and one more for the request. `EventCap = 1` makes "the channel is
full" happen on the second event. Three timeline events keep a removal, what
follows it and a second removal in view; the order among them is all the code
reads. One sink is enough for `switchaudio`: its properties are about processes,
and the theorems of 6 hold for any sinks. Two changes by others put one between a
listing and its use and one after it. Two names on two levels give a link beside,
above and below what it leads to; the tree of four paths is the smallest in which a
link passes through a later one. Four workspaces hold a main checkout, a worktree
before it and one after it, and one of another group. A stack of two branches has a
layer that moves before another, and one that may be left when a run stops. Larger instances of the safety properties were replaced by the proofs in 6.

`CHECK_DEADLOCK FALSE` is set where all processes really end: key presses, the
merge script, runs that open a worktree or pull a stack, and the commands on
archives, of which there are `Runs`.

The type invariants of `SwitchAudio`, `MonitorProfile`, `GameMode`, `LazygitWatch`, `FetchCache`, `MergeQueue` and
`Archive`, `NoStaleOverride` and `ChildInCWD` are in no run: they are proved (6), for
every instance.

### 4.1 The properties, run by run

Each is stated, with the line it is about, above its definition.

| Run | Property | In words |
|---|---|---|
| `switchaudio` | `NewestKeepsFile` | the newest request keeps the pending file while it waits |
| | `Arbitrates` | the refinement of `LatestRequest` |
| | `WaitersFinish` | a waiter that is not killed ends |
| `game_mode` | `AudioBack` | after invocations that were not cut short the TV's sound is gone, and the sound is the profile's unless another's command was overtaken |
| | `StateFileTells` | while Lua is idle the state file names the profile in force |
| | `TabletServed` | the headless output and the sunshine unit exist exactly for a tablet profile |
| | `ReloadKeepsProfile` | a reload of an unchanged configuration keeps the profile |
| | `RequestsTaken` | what the request file holds is applied, if Hyprland is there again and again |
| | `GamesEnd` | invocations end once their sessions do |
| `popup_toggles` | `TypeOK` | the types of `Popup` |
| | `ApartWhole` | without overlap the state file is whole |
| | `OnePopup` | one popup per name, and navigation knows the focused one |
| | `NextToggleHeals` | a toggle that has herdr and the file to itself leaves no other of its name |
| `lazygit_watch` | `OneLazygit` | never two in the terminal, none after the watcher |
| | `Supervises` | the refinement of `Supervisor` |
| | `FollowsFocus` | when the focus stays, lazygit gets there |
| | `StopEnds` | every stop ends |
| | `QuitQuits` | a lazygit the user quits takes the watcher with it |
| `fetch_cache` | `CacheNeverFails` | once there is an entry every run returns a value |
| | `FreshIsYoung` | what is returned as fresh is younger than a TTL and a request |
| | `AsksAgain` | a refresh returns what was the list after it began, or says it is stale |
| `merge_queue` | `ZeroMeansMerged` | exit code 0 says merged |
| | `OncePerRemoval` | no second request before the queue removed what the first one queued |
| | `RetriesOnlyCI` | only a removal by failed checks, and only while it is the newest event told, is retried |
| | `EndsOrAsksAgain` | the script ends with the pull request, and one removed by failed checks does not lie outside the queue for ever |
| `sheer_open` | `OpenTypeOK` | the types of `SheerOpen` |
| | `OneTree` | with a listing that holds, no second worktree for a stack that is known here or only on GitHub (7) |
| | `OnlyNewFromMain` | only new branches start from `origin/main` |
| | `NoSecondStack` | no stack is begun with a branch that has one, with any listing |
| `archive` | `RoundTrip` | what is extracted is what was compressed |
| | `Extractable` | what was compressed can be extracted |
| | `FailureLeavesNothing` | a failed extraction leaves no output directory |
| `workspaces` | `TypeOK` | the types of `Workspaces` |
| | `Sidebar` | what is listed is in the sidebar's order, and only hidden main checkouts lack (7) |
| | `OneSpaceEach` | a directory gets a second workspace only where 3.10 says so |
| | `GoesWhereMeant` | a key that nothing came between moves the focus where the screen says |
| `stack_pull` | `TypeOK` | the types of `StackPull` |
| | `NothingLost` | a commit made here stays in a branch or a backup, but for late ones |
| | `Pulled` | an undisturbed run that gets to its end leaves the stack as GitHub has it, and one local stack that tracks it |

The runs that find a violation check `RestoresDesktop` and `FileWhole` (7).

## 5. Fairness

- `SwitchAudio`: `WF(Step(p))` per invocation. A process is scheduled, and a
  blocked `flock` is handed on when its holder ends; nothing is assumed about
  devices, users or kills.
- `GameMode`, and in it `MonitorProfile`: `WF` on each invocation's own steps; `SF`
  on a requester's step, because `hyprctl` is answered between two
  callbacks of the compositor and the compositor comes back to that again and
  again; `WF` on the stop of the unit after it was asked to stop, on the end of
  the profile application, on a spawned sound command queueing its request, and on the
  poll: the timer runs while Hyprland does. None for rebuilds, exits, restarts and the
  end of the session: `GamesEnd` assumes that sessions end, and `RequestsTaken` that
  Hyprland is there again and again, in their own premises.
- `LazygitWatch`: `SF` on the cases of the `select`, because Go chooses among ready
  cases at random, so a case that is ready again and again is chosen; `SF` on a
  query that is answered; `WF` on the ticker and on the exit of a killed process.
- `MergeQueue`: `WF` on the script's own steps and on a poll that is answered with
  the pull request as it is. Failing requests are possible at any time and never
  assumed, nor is anything GitHub or the author does.
- `Popup`, `FetchCache`, `SheerOpen`, `Archive`, `Workspaces` and `StackPull` have no
  liveness property: each run is a bounded sequence of calls without a loop.

## 6. What is proved

For all values of the constants under the `ASSUME`s of the modules (finite or
not: sets of processes, labels, sinks, workspaces; any retry count, TTL and
latency). Each module has an inductive invariant whose preservation is one lemma
per action or group of actions.

- `SwitchAudioProofs`: `IInv`. The properties are not inductive alone: that an
  older waiter does not switch needs that the lock is held from reading the file
  to the last command (`LockHeld`, `HolderOwns`), that stamps are in order of
  acceptance (`StampOK`), and that the file names the newest waiter
  (`PendingOwner`). From it: `TypeCorrect`, `FileKept`, `Superseded`, `NoOverride`,
  `Cleared`, `CardSafe`, and `Implements`, the step simulation of `LatestRequest`.
  Of `WaitersFinish` the safety half: the lock names the one invocation that is in the
  critical section (`LockIsHeld`), and each step of a waiter lowers its `Rank`, the
  sleeps it has left and its place in the round, which nobody else raises
  (`OnwardsOnly`).
- `GameModeProofs`, of `MonitorProfile`: `MPInv` adds that each request is written
  once (`WrittenOnce`), that the last id read is the one served (`ServedIsLast`) and
  what the save step writes (`SavesShown`). From it: `TypeCorrect`,
  `StateFileCorrect`, `NeverTwice`. `AppliedInv` adds what a loaded configuration has
  applied: `TakenIsShown`, the safety half of `RequestsTaken`; with the state file it
  gives `ReloadKeeps`. `CalmInv` says whose output
  there is while one profile is picked after the other: that of the requester between
  its two steps, else that of the request in the file. From it: `TabletIsServed`.
- `GameModeProofs`, of `GameMode`: every step of game mode is a step of the monitor
  profiles or none of theirs, so `Composes` (`GMSpec => Spec`) carries over what is
  proved of them (`DesktopKept`). `SoundInv` has two parts. While the TV has the sound,
  something that ends it is still to come: an invocation that has not queued its request
  or never will (`Away`), a request not yet applied (`Pending`) or a sound command on its
  way (`TVOwed`). Unless commands of two profiles overlapped, only those of the profile
  in force are on their way, and it has the sound or one of them is still to come
  (`OwnOnly`). From it: `SoundComesBack`, where every requester may be an invocation;
  also `GameTypeCorrect`.
- `HerdrProofs`, of `Popup`: `FilesInv` adds that invocations that did not overlap run alone
  (`OneRunning`), that a file is held open just while its invocation saves (`Held`)
  and that the temporary file holds what its only writer put there (`OwnFile`):
  `WholeApart`.
  `Tracking` relates the open panes to the state in the file and to the one the
  invocation holds, step by step: `OneOfAName`. `Clearing` follows a toggle that has
  herdr to itself from its listing to its open: `ToggleHeals`, for any history before.
- `HerdrProofs`, of the watcher: `WatchInv` adds that the only running process is the
  child (`ChildRuns`), at which places there is one (`ChildAt`), that a child the loop
  holds runs or is unreaped (`ChildThere`) and that the loop compares the focus with
  what it saw last (`NextIsCWD`). From it: `WatchTypeCorrect`, `OneRuns`, `CWDTrue`;
  `StopIsAnswered`, the safety half of `StopEnds`: while `stop` waits, the exit it
  waits for is still to come (`ExitComes`); and `WatchImplements`, the step simulation
  of `Supervisor`.
- `SheerProofs`, of `FetchCache`: `CacheInv` adds that requests are answered in time (`InTime`),
  that the value of every entry was current a `Latency` before its stamp or later
  (`StampsHonest`),
  that an entry once there stays (`EntryStays`) and that a run which saw one has not
  failed (`NoErrorYet`). From it: `TypeCorrect`, `NeverFails`, `Young`. `Resolving`
  says that only a reader of the fresh entry holds a list before it has asked: with
  it, `Refetches`.
- `SheerProofs`, of `SheerOpen`: first the operators of `catalog.go`, for any stacks:
  `StacksAre` says which stacks the merge of two listings has, `EntriesAre` what the
  entry found for a branch stands for, `Leads` to which worktree it leads, and that it
  leads to none only if the stack has none. `OpenTypes` adds to the types that no branch
  is checked out twice (`Single`) and what a run has got to know (`Reached`):
  `OpenTypeCorrect`. `StacksInv` adds that a branch is in one stack here and in one on
  GitHub, the same one (`Apart`), and that a run about to begin a stack has seen there
  is none on GitHub, or one is here by now and it is not begun (`Begins`): this is what
  makes `NoneDuplicated` hold of any listing. `StillHolds` says what is true of the
  world as long as nothing a run looked at has changed; with it, `OneTreeEach` and
  `NewFromMain`.
- `MergeQueueProofs`: `QueueInv` adds that heads are counted by changes
  (`HeadCounted`) and that what the script holds as merged is merged for good
  (`MergedForGood`). From it: `TypeCorrect`, `ZeroIsMerged`, `OnlyCIRetried`. `AskedFor`
  says that after a request that took effect neither GitHub's newest queue event nor the
  one the script goes by is a removal (`RecordedIsNoRemoval` for what others add):
  `NoSecondRequest`.
- `WorkspacesProofs`: first what the operators do, for any number of workspaces.
  `Flattened` says where each element of a concatenation stands, by looking at the
  least index at which it would fail (`Least`); `SiblingsAre`, `LeadIs` and `EmitsAre`
  say what the loop of `order.go` emits at each workspace, `Sorted` that this is in
  the order of the sidebar, `NextTab` and `NextSpace` that the position arithmetic of
  `navigate.go` finds the neighbour on the screen. `TypeInv` adds to the types that
  herdr's numbering has no workspace twice (`Listing`), that the focus and each active
  tab exist, and what a press was asked (`Asking`): `TypeCorrect`, `InSidebarOrder`.
  `SpaceInv` adds that one picker creates at a time (`OneCreates`) and that what it is
  about to create is not there (`NotThere`): `OneEach`. `Calm` says that a press which
  nothing came between has seen the state as it is and is about to act on the
  neighbour (`TabChosen`, `SpaceChosen`): `GoesRight`.
- `StackPullProofs`: `PullInv` adds that commits stay on their branch
  (`TipsOwned`, `PlanOwned`), that what a branch has before it moves was in the plan
  or is late (`Planned`), and that what was planned is saved before anything moves
  (`SavedFirst`); `KeptOn` is `NothingLost` branch by branch. From it: `NoneLost`.
  `TypeInv` adds that a run's stack is one of GitHub's (`Asked`) and what its plan
  holds at each step: `TypeCorrect`. `Undisturbed` says of a run that nothing came
  between what it knows of GitHub (`Knows`), that what it fetched is what is there
  (`Fetched`), which branches have moved already (`Moving`, `Moved`) and what is left
  of local stacks (`OwnStack`), so that the checkout imports the stack: `PulledWhole`.

- `ArchiveProofs`, under `ArchiveAssumption` (what is compressed is a finite tree, a
  member's name is not `..`). First the operators: the order in which members are
  written is decided at the first name where two paths differ (`LessIs`), so it is
  total and a directory comes before what is in it (`PrefixLess`); `FirstIs` finds a
  first member of any finite set; `Ancestors` says that in a tree everything on the
  way to a path is there. `WalkIs` and `RealIs` show that the walk of `Path.resolve`
  along a path without links leads to that path. `ArchiveInv` adds to the types
  (`Typed`) what the command that archives has got of the tree as it was (`Taken`), and
  that while extracting, what is in the output is exactly the members already taken
  and the directories on their way, which of a whole archive are members themselves
  (`Unpacked`). The properties are not inductive alone: that no check refuses a plain
  tree (`PlainFits`) needs that a link is checked against the same tree it was
  compressed from, less what comes later; that the output can be removed needs that no
  directory in it both holds something and is without write permission (`Removable`).
  From it: `TypeCorrect`, `ExtractsWhatWasArchived`, `NothingPlainRefused`,
  `FailureRemovesOutput`, for trees of any depth and size.

Proved and in no run: `FileCleared`, `SupersededByNewer`, `CardOnlyByNewest`,
`AppliedOnce`, `NoStaleOverride`, `ChildInCWD`, seven of the type invariants, and the
safety halves `LockHeld`, `OnlyOnwards`, `Applied` and `ExitComes`, which the proof
modules define.

Only model-checked: every liveness property (`WaitersFinish`, `GamesEnd`,
`RequestsTaken`, `StopEnds`, `FollowsFocus`, `QuitQuits`, `EndsOrAsksAgain`:
liveness and `ENABLED` are out of the prover's reach), and the two properties that are violated (7).

The library's induction rules take an operator and cannot be used here. What
`WorkspacesProofs` says of concatenations and `ArchiveProofs` of the order of paths,
finite sets of them and the recursive walk is proved from a least counterexample
instead (`Least`), which needs a set of naturals and no operator.

## 7. Findings

- `popup_torn`: `savePluginState` "atomically writes helper state to disk"
  (`state.go:55`), but all processes share one temporary name: a second toggle
  truncates it while the first renames it, and `state.json` is empty or torn until
  the second has written. Readers take an undecodable file as having no state.
- `game_mode_restore`: the script is to "restore the desktop's monitor profile,
  audio, and Steam" (`game-mode.nu:3-4`). When the TV's sink does not appear in
  120 s, the bare `switchaudio --wait` at `game-mode.nu:91` fails, which aborts the
  Nushell script in the middle of the session: nothing is restored when it ends.
- `sheer_open`: "Any layer of a stack opens the worktree that stack is already checked
  out in" (`workspace.go:46-47`). `mergeStacks` (`catalog.go:260-271`) keeps only the local
  layers of a stack that is also on GitHub, so a layer that a colleague added there is an
  unstacked branch to the catalog, and opening it creates a second worktree. `OneTree`
  leaves such layers out; with them it fails in this run.
- `workspaces`: "Workspaces lists all workspaces in the order shown in Herdr's sidebar"
  (`queries.go:147`). Of several open main checkouts of one repository `sidebarOrder`
  lists the last only (`order.go:24`), so up and down do not reach the others. `Sidebar`
  leaves them out; with them it fails in this run.
- Without `apart`, `OnePopup` fails as well: two presses at once both load the
  state before either has saved. The comments at `popup.go:12` and `popup.go:151`
  say nothing of overlapping presses, so this is recorded as the limit of the
  property; `NextToggleHeals` is what remains. Likewise without `apart`,
  `OneSpaceEach` fails; without `late`, `NothingLost` does (3.10, 3.11).

## 8. Not modelled

`PROJECT.json` lists every part with its status. Out of the models: the hash in a
cache entry's name, parsing of URLs and JSON, messages and notifications; the Nix
configuration, the quickshell bar, key bindings, nvim and other display code,
which have no state of their own over time; and the parts of the plan not yet
reached (2.11 to 2.13).
