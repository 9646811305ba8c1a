# netcli in TLA+

A model of netcli, the router configuration program of this repository
(`src/netcli`): how its processes share, apply, record and revert a
configuration, how the command line edits one, and how the web service and the
statistics collector serve their clients. The modules are checked with TLC on
small instances; the main results are proved with TLAPS for every instance.

The rest of the repository (image trees of FreeBSD and NetBSD, build scripts,
texts) holds files that are copied, and scripts that run once; it is not
modelled.

## The system

| Part | State it keeps | Operations | Talks to |
|---|---|---|---|
| Manager (`internal/manager/manager.go`) | none of its own | Change, Replace, commit, Boot, Save, Erase | store, applier |
| Store (`internal/config/store.go`) | `startup.yaml`, `running.yaml`, `netcli.lock` | Lock, LoadFile, SaveFile, Running, Startup | files, flock |
| Revert timer (`manager.go`, second half) | `revert.json` (PID, deadline), `revert.yaml` (snapshot), one watchdog process | ArmRevert, ConfirmRevert, RevertNow, RevertPending, RunRevertWatchdog | manager, signals |
| Applier (`internal/apply/apply.go`) | none; the kernel and the daemons | Apply (system, interfaces, routes, firewall, DHCP server) | executor |
| Executor (`internal/system/exec.go`) | pidfiles | Run, WriteFile, StopPidfile | commands |
| Configuration model (`internal/config`) | a document | Normalize, Validate, Clone, Equal | |
| CLI session (`internal/cli`) | mode, object being edited, history | one action per command | manager |
| Web service (`internal/web/server.go`) | sessions, failed logins | login, logout, config editor, web terminal, live stats | manager, collector |
| Collector (`internal/stats/stats.go`) | last sample, history, subscribers | tick, Subscribe, History | web service |
| Boot script, `netcli apply` (`contrib/rc.d`, `cmd/netcli/main.go`) | | Boot | manager |

CLI sessions, the web service, the boot script and every watchdog are
processes of their own. They share the two configuration files under one
exclusive `flock`, and the two revert files under none. Each of them can be
killed at any step; a kernel that kills a process drops its lock.

### What is hard

* A commit is a list of commands, a rename, and perhaps a second list of
  commands to undo the first; it can fail or die between any two of them.
* `Running` means three different files depending on what exists.
* The revert timer consists of reads, unlinks, a spawn and a signal, none of
  them under the lock, racing with a process whose whole purpose is to act
  when the session is gone.
* A watchdog that is signalled may be in the middle of its own commit.
* Apply is incremental: what it leaves alone must already be right, and one
  command may be refused because another has not run yet.
* The programs Apply restarts leave when they like.
* The text of a configuration is a program in the CLI's own language, and is
  pasted into sessions that are in some mode and edit objects that another
  session may have removed.
* Requests of the web service run in parallel and may last; time passes between
  the check of the login throttle and the count.
* A dashboard fetches the history first and listens afterwards.

`PROJECT.json`, `hazards`, lists these points at their lines.

### What makes each part correct

* Manager and store: calls are atomic; no call works on a stale copy; the
  reply says what happened; the system differs from the record only where a
  fault explains it; only valid documents are recorded; what is saved can be
  booted; every call ends.
* Revert timer: an armed timer has its watchdog and its snapshot; what was
  promised is given back or confirmed; nothing is left behind.
* Applier: an incremental Apply ends where a boot of the new configuration
  would; a failed one is undone by its reverse; what is recorded is in force.
* Executor: one program serves an interface, with the settings wanted last.
* CLI session: what is shown recreates what it shows; an applied list filters;
  what only commands check (one bridge per interface, one use of a port) holds
  whatever is entered in whatever order.
* Web service: few failed logins; the door opens again; removed users are let
  in no more; pages that share a terminal do not mix.
* Collector: a history without gaps, rates that were real, pages in order.

## Modules

| Module | Models | Notes |
|---|---|---|
| `Configuration` | the document as a set of independent pieces, `Running`'s fallback, the requests | constants: `Settings`, `Valid`, `Edits`, `NoFile` |
| `ConfigStore` | what the store promises: one instant per call | abstract specification |
| `Manager` | the manager over the store, step by step | implements `ConfigStore` |
| `RevertTimer` | the timer commands and the watchdogs, on top of `Manager` | every behaviour is one of `Manager` |
| `Document` | the document as a record, Normalize, Validate, Effective, the rule set and the DHCP server's settings | operators; used by `Applier` and `Editor` |
| `AccessRule` | an access-list rule, parsed from words and written again | operators; used by `Editor` |
| `Applier` | Apply, command by command, in commits, rollbacks and boots | extends `Document` |
| `Daemon` | StopPidfile and the programs it stops | |
| `Editor` | CLI sessions: modes, commands, the text of a configuration | extends `Document`, `AccessRule` |
| `Web` | logins, sessions and the shared terminal | |
| `Collector` | samples, history, streams and dashboards | |
| `MCManager`, `MCRevertTimer`, `MCApplier`, `MCEditor`, `MCServer` | instances for TLC | |
| `MCRouter` | the instances of `MCManager` and `MCEditor` in one run | they share no variable: a behaviour is of one of them |
| `Lists` | the loop that keeps some members of a list in their order | operators; used by `Document` and `Web` |
| `ListProofs`, `DocumentProofs` | lemmas: lists, sorting, `Effective`, the rule set | used by the modules below |
| `ManagerProofs` (with `RevertTimer`), `EditorProofs`, `ApplierProofs` (with `Daemon`), `RecordProofs` (`Applier` again), `WebProofs`, `CollectorProofs` | theorems | |

There are two models of a document. In `Manager` it is a bag of pieces, so that
crashes, locks and files can be explored; in `Document` the pieces refer to each
other, so that orders of commands can. `Valid` and `Edits` of the first are
what `Validate` and `Edit` of the second compute; "a piece in force" of the
first is what `InForce` of `Applier` establishes for the second.

### Manager

State and code:

| Variable | Code |
|---|---|
| `lock` | holder of the `flock` on `netcli.lock` |
| `running`, `startup` | the two files, `NoFile` when absent |
| `system` | pieces in force in the kernel and the daemons |
| `pc[p]`, `req[p]` | program counter and arguments of the call of process `p` |
| `old[p]`, `next[p]` | its two documents |
| `todo[p]`, `failed[p]` | pieces the current Apply has still to touch, and those whose command failed |
| `reply[p]` | what it returned |
| `suspect` | history, read by no guard: pieces that a fault may have left different from the record |

A call is cut into steps where something can come between: the wait for the
lock, the read of the files, each piece applied, each piece rolled back, the
rename, the unlock. Reading a file is one step because a file is only ever
replaced by rename (`WriteFileAtomic`). `commit` after the read computes on
private copies, so Validate, Equal and the start of Apply are in the step that
reads. `ErrNoChange` and an edit that changes nothing are the same outcome.
Order within an Apply is left open: any order of the pieces.

`Forced` are the pieces a boot pass writes whether or not the document has
them: the two forwarding sysctls, the packet filter, the DHCP server.

`Faults` says what the environment may do: `read` and `write` (a file
operation fails), `apply` (a command fails, its piece is left in force or
not), `die`, `power`.

The abstraction: two pieces never interfere. Where they do in the code (a
bridge and its members, two routes to one prefix) is the subject of `Applier`.

### RevertTimer

`stateFile` and `snapshot` are `revert.json` and `revert.yaml`; `at[p]` is
where a session is in a revert command, or a watchdog in its life;
`hand[p]` what it read or spawned; `parent[d]` the session that started
watchdog `d` and never waits for it, which is why a dead watchdog still
answers `kill(pid, 0)` (`Answers`) until that session ends. `promised` is a
history variable: what the user was told he would get back.

The Replace of a revert is Manager's, entered with `Invoke`; a signal to a
watchdog that is in it is Manager's `Die`. Merged into one step: reading
`revert.json` and signalling the process named there (the file is tiny and the
two system calls follow each other), and reading the running file and saving
it as the snapshot (another commit between the two has the same effect as one
between the save and the spawn). Reuse of a PID by another program is left out.

`Upsets` says how hard the environment is: `hangup` (sessions die at the
prompt or in a change), `cutoff` (inside a revert command), `overlap` (revert
commands and expiries overlap), `files` (a write or a spawn fails).

### Applier

| Variable | Code |
|---|---|
| `kernel` | the system: interfaces, routes, rules in force and on disk, the DHCP server, `resolv.conf` |
| `phase` | where `Manager.commit` or `Boot` is |
| `running`, `next` | the document in the running file (none recorded: the empty one) and the one being applied |
| `todo` | commands still to run, computed at once from the two documents as Apply does |
| `errs` | `step.errs`: a command failed for a reason of its own, or was refused in the system's state |
| `stale`, `lost`, `overlaid` | history, read by no guard: see below |

`System`, `Interfaces` (`RemoveInterface`, `ConfigureInterface`), `Routes`,
`Firewall` and `DhcpServer` give the commands of the functions of those names,
each with the error it tolerates. The kernel is external. It is modelled by what
Applier expects of it: an object that a command needs may be missing or may be
there already, a cloned interface that is destroyed leaves its bridge and takes
its VLANs' parent with it, an interface is in one bridge. A command does nothing
or everything; only the packet filter can be left half way (`FailedEffects`).
After a failure the remaining commands are still run, as in the code.

An address has a prefix length. What differs between two documents is found by
comparing addresses with it (`minus`), but an address is deleted without it
(`Ip`, as `delAddr`), and the kernel has an IP once: an alias for one that is
there gives it the new length in its place (`WithAddress`). That is what
NetBSD's ifconfig does with an IPv4 alias; that it does the same for IPv6 is
assumed.

`Boot(d)` reads some startup file, `d`, and runs the commands from an empty
configuration to it, on a fresh system or on one with a document in force
("netcli apply", which may be run at any time); `BootDone` records `d`. Between
a change and a second boot the startup file may have become any of `Startups`.
The boot has no rollback, so what a command of it has failed to do stays undone.

`Booted` is the reference: the system after a boot with a document, from power
off. `InForce` compares the system with it after every boot, commit and
rollback. Apply does not restore everything a boot would, and `Unrestored` names
what it does not, with one line for each case (an MTU without a new value, the
media of a removed interface, the order of addresses, one IP with two prefix
lengths, a recreated wlan in its bridge, a supplicant on an interface that is
shut down and loses its settings together, two routes to one prefix,
`resolv.conf` without servers); `Scrambled` adds the order of addresses after a
failed attempt; `LeftOver` is what a boot on a live system leaves of the document
before. These aspects are put on `stale` when a change or boot of that kind
happens, and only they may differ. Which addresses there are may not differ but
for two exceptions: a document that gives an interface one IP twice (`TwinFree`),
and a boot on top of another document. `lost` is set where the code reports an
error at the end, `overlaid` where another document than the recorded one is
booted on a live system; both last until the power goes.

`AsRecorded` says, without a reference, what of the recorded document is in
force: after every boot, commit and rollback its interfaces exist and no other,
they are up or down, have the addresses, parent, DHCP client and radio mode it
gives them and the MTU, media and wireless settings it mentions; no bridge has a
member and no packet a route that it does not name; host name, resolver,
forwarding, filter and leases follow it. It excepts `lost`, `overlaid` and the
addresses of interfaces that are not `TwinFree`: a second `netcli apply` with
another startup file does leave addresses, interfaces and routes in force that
the record does not have, without any command having failed, and no rollback or
later change finds them. A member that is missing from its bridge, a route that
is not there, an old MTU and the order of addresses are what it leaves to
`InForce`. `NoneRefused` says that the commands come in an order in which the
system's state refuses none.

`PreviousStateRestored` is the README's claim about a change that fails, taken at
its word: a rollback that reports no error gives back the system that was there.
It does not (finding `applier_restore`): the cases of `Unrestored` arise in a
rollback as in any change.

### Daemon

`process` holds the programs by PID, `pidfile` what is on file, `toStop`,
`signalled` and `polls` where StopPidfile is. Each poll is a step, and between
any two steps a program may end, cleanly (removing the pidfile in its place) or
not, and netcli may be killed. `outlived` and `misled` are history: a program
has outlived the wait, and such a program has removed a pidfile that was not its
own. The programs write their pidfile before they go to the background, and a
PID is not reused by a foreign process; both are assumptions about programs
outside the repository. Creation of the lease file is left out.

### Editor

`document` is the running configuration, `session` the mode and object of each
session. `Enter` is one line: dispatch (the tree of the mode, then, in a
submode, the global tree), the edit, Normalize, Validate, and the change of
mode, in the order of the code: a global command leaves the submode even if it
then fails. A command succeeds at once because `Manager` shows calls to be
atomic. `Replace` is another client that puts a whole document in place.

`ConfigText` is the list of commands that show a document and `Feed` enters them
in configuration mode, so "pasting the text recreates the configuration" is a
formula: `RoundTrip` for an empty router, `PasteChangesNothing` for the one that
shows the text. Access-list rules go through their words (`ParseRule`,
`FormatRule`): names of protocols and ports, wildcard masks, host and prefix
forms. `Pasteable` names the documents that are left out, which only the web
editor or a file can bring about (among them a list named like a direction, such
as "in", that is applied: where a list is named the parser prefers the keyword),
or a command that leaves an interface without settings; a described vlan is the
finding `editor_text`.

Values whose form alone is checked are opaque. An address is a network and a
host; in rules it has `AddrBits` bits, so that masks are computed.

### Web

`request[r]` is the stage of a goroutine that serves a request: past the
throttle and waiting for the body (`login`), past the users (`hash`: the slow
comparison), let in with a session (`logout`, `stream`, or `cli`: waiting for
the body and the terminal), entering lines (`lines`). Requests are not
connections: over HTTP/2, which the TLS listener speaks, one connection has many
of them. Ages replace clock times; `Tick` is the clock, and ages stop where they
make no difference. `guesses` is history: wrong passwords that were actually
compared. The users change at any time. A login with the right name and password
of a user who exists succeeds; the comparison itself is `right`.

A session is looked at once, when its request arrives (`Arrive`). The server
limits how long it waits for the header of a request and for the next one
(main.go:300), not for the body, nor for the client to take the reply: an event
stream is served until its client goes (`HangUp`), whatever has become of its
session or its user. `RemovedUsersLeave` therefore speaks of being let in; that
what was let in before goes on is its named exception.

### Collector

A point is the time, the interval and the bytes of a rate. `Recreate` destroys
or creates the interface and with it the counter. `queue[g]` is the channel of a
stream, `page[g]` what the dashboard of the browser holds; a page loads the
history once, connects, may be cut off and connects again by itself
(`EventSource`). `passed` and `missed` are history: `missed` says that a point was
made while the page was not connected or its channel was full.

## Runs

| Run | Question | Instance |
|---|---|---|
| `router` | all safety of the manager, and that it implements `ConfigStore`; is what is shown what there is, do lists filter, do the rules that only commands check hold | 2 processes (symmetric), 2 pieces, one of which refers to the other, every request, every fault; 7 interfaces, a terminal with about 80 commands, a remote session that deletes, 2 documents to start from or to be put in place, 2 changes: 255 702 states |
| `manager_unbootable` | finding | as `router`, no fault, startup file invalid |
| `revert_timer_live` | is a promise kept, commands one after the other, and resolved in the end; does every call end | 1 session, 2 watchdogs, 1 piece, hangups, power loss: 64 260 states |
| `revert_timer_upsets` | is the timer always a client of the manager | 1 session that adds a piece, 2 watchdogs that take it out again, everything overlaps and fails, but for power loss and unreadable files: 399 455 states |
| `revert_timer_overlap`, `_midkill`, `_undead` | findings | 1 session, 2 watchdogs |
| `applier` | does a boot, an incremental change or its rollback end where a boot from power off would, with all that is recorded in force; is a command refused; are bystanders left alone | 8 documents, every way from one to another, 3 startup files, 4 changes, boots or power cycles, 1 failing command: 613 333 states |
| `applier_restore` | finding | 3 documents, 1 boot, 1 change, 1 failing command |
| `editor_text` | finding | the editor of `router`, 1 change |
| `server` | the web service, the collector and the programs of an interface, which share nothing: a behaviour is of one of them | 2 requests at a time, 1 user, 1 session; 1 page, 5 ticks; 2 programs, 3 PIDs, 2 settings: 346 071 states |
| `server_throttle` | finding | as `server`, with the limit of the code, 5 |

Why the bounds are enough. Two processes show every race on the lock: a third
one would only wait. Two pieces give a commit a middle, so that one is applied
and the other not, and a document that is not valid (`nic` without `acl`). A
second watchdog is needed for a re-arm; a third would repeat it, because a
watchdog that is not named in `revert.json` only reads that file and ends. One
piece is enough for the timer: its commit still has a middle, before and after
that piece. Two sessions with the timer are covered by the proof of
`PromisesAreKept`.

For the applier the documents are the bound: they were chosen so that between
some two of them each branch of the code is taken (`MCApplier` names what each
is for). Three changes reach a document, leave it and come back after a failed
attempt; the fourth is the boot. Or two boots, with changes before and after the
second: any of three startup files on top of any document. The editor's two changes start from an office
router that has one of everything, so they are the two last of a long
sequence; the second session's deletion under an open submode is one of them.
For the web service two requests of one address show the check and the count
of the throttle interleaved (`Limit` 2), two pages at one terminal, and an event
stream that outlives its session. In the
collector `Size`, `Buffer` and `Window` are exceeded within five ticks. Three
PIDs are a program, its successor and one that was slow to leave.

Deadlock is checked where a client may always call, in the runs of the timer
(and with them of the manager under it). It is not in `router`, `applier` and `server`, where bounds of
one part (`MaxChanges`, `MaxTime`) let a behaviour stop; that a call of the
manager does is what `EveryCallEnds` excludes.

Fairness. `WF` of a call's own steps: the process is scheduled. `SF` of
`AcquireLock`: the kernel does not pass over one waiter for ever. `SF` of a
revert command's steps and of the expiry: in the sequential runs an expiry that
falls into a command is taken after it. For the web service, `WF` of the clock
and of nothing else: a request waits for its client, and those that share a
terminal for one that waits, as long as they like; `DoorOpens` and
`RemovedUsersLeave` need no more. For StopPidfile, `WF` of its steps; nothing
makes a program leave. Nothing forces a client to call, a fault to occur or a
process to die.

`EveryCallEnds` is checked in `revert_timer_live`, where a session and two
watchdogs call the manager, are killed in their calls and meet power loss.
Commands and files that fail are not in that run; a call goes on from such a step
as from any other, to its next or to its end, and every one of them is in
`router`, where the safety of those paths is checked.

### What the failing runs show

* `manager_unbootable`: after a boot that refused the startup file, the first
  change is applied as a difference from a document that was never in force.
* `revert_timer_overlap`: extending a timer at the moment it expires leaves a
  timer without a snapshot.
* `revert_timer_midkill`: a confirm that meets the watchdog at work leaves the
  system between two configurations and answers that all is kept.
* `revert_timer_undead`: a `configure revert now` that fails leaves a timer
  that is shown as armed and that nothing will fire.
* `applier_restore`: a change sets an MTU and fails later on; its rollback reports
  no error and leaves the MTU, because no command restores the default one.
* `server_throttle`: after four failed logins two more are let in together and
  both are tried, six in a minute where five are allowed.
* `editor_text`: a vlan with a description is shown with the description first,
  which is refused for a vlan that has no encapsulation yet, and is lost.

### What the passing runs show by their exceptions

Some properties name the cases they leave out, in definitions of their own, and
hold only without them: `Unrestored`, `Scrambled` and `LeftOver`, `overlaid`,
`lost` and `TwinFree` (Applier), requests let in before their user was removed
(Web), `missed` (Collector), `MovesForward`
(a member that moves to a bridge with a smaller number is refused, and the
change is rolled back), `Pasteable`, secondary addresses and reservations in
`PasteChangesNothing`, vlans and translations on an incomplete wlan in
`EffectiveIsValid`, `misled` and `outlived` in `Daemon`. A reader who wants to
know what the code does not promise finds it there.

## Proofs

All proofs hold for every set of processes, pieces, valid documents and
faults, of programs and PIDs, and every size and bound, under the named
assumptions of the modules: `ConfigurationAssumption` (the empty document is
valid; a document is not "no file"), `ManagerAssumption` (the free lock is no
process; `Forced` is a document), `RevertTimerAssumption` (sessions and
watchdogs are the manager's processes, and processes may die),
`CollectorAssumption`, `WebAssumption` and `DaemonAssumption` (sizes are numbers,
"nothing" and "nobody" are no sample, process, request or user; requests served
at the same time are finitely many). `DocumentAssumption`: interfaces are ordered by kind, driver
and unit, and none has the empty name. `EditorAssumption` and `ApplierAssumption`: the documents that come
from files and the web editor have the types of `config.Config`, are valid and
normal, which is what Replace and Boot check before anything else; for the
applier, interfaces come after those they are built on (`Orderly`), which
InterfaceNames relies on; and the parser gives a command with an operation that
exists. TLC evaluates each of them on the instances.

`ManagerProofs`. The invariants are not inductive alone: that the system agrees
with the record depends on what a commit in progress has done so far, which
depends on its copies being those of the files, which depends on nobody else
being past the lock. `IInv` has one part for each:

* `LockDiscipline`: exactly the holder of the lock is past waiting for it;
* `CopyDiscipline`: what each call holds in each of its steps, related to the
  files (`old[p] = Running` for as long as the commit lasts);
* `DriftBound`: during a pass the system differs from its target only in what
  is still to do or has failed, and from the record only within what the call
  touches and what is suspect;
* `TruthfulReply`, `RunningIsValid`, `TypeOK`.

Each part has a lemma with one step per action (`LockStep`, `CopyStep`,
`DriftStep`, `ReplyStep`, `ValidStep`); `InductiveInvariant` joins them, and
`Agreement`, `NoStaleCopy`, `TruthfulReply`, `RunningIsValid`,
`SavedIsBootable` follow. `CallsAreAtomic` is the refinement: under `IInv`
every step is a step of `ConfigStore` or invisible to it, `SaveRunning` being
the instant at which a change or a boot takes effect.

`ManagerProofs`, on the timer. `TimerIsAClient`: every behaviour with the timer is a
behaviour of `Manager`; `CommandDiscipline` (what a command holds where it
uses it) is the strengthening. Agreement and atomicity follow from the
manager's theorems without another look at the timer.

`PromisesAreKept` holds under two assumptions that the theorem
states: `Undisturbed` (`Faults` and `Upsets` allow no command, file or spawn to
fail and no expiry to fall into a command, which is what the three findings do)
and `StartupBoots`. The strengthening `PromiseInv` says what the revert files
and the watchdogs are in each phase: armed, disarmed, half way through a command
of a session (and which half), reverting; and that the snapshot is valid and its
Replace therefore succeeds. TLC has checked it with two sessions.

`CollectorProofs`. `SampleInv` relates the last sample to the counter and to
`passed`; with it `NoSpikes` is a matter of the two cases of `sub`.
`HistoryHasNoGaps` rests on `TrimmedChain`: a suffix of a chain is a chain. For
the dashboards the strengthening looks at a page's points followed by its queue:
they ascend up to the last sample, and they form a chain that ends with it unless
an event was `missed`. Loading takes the history, a delivery moves the border
between the two parts, trimming takes a suffix, a tick appends the new sample to
both the history and the queue: `GraphsAreInOrder` and `GraphsHaveNoGaps` follow.

`WebProofs`. `RepliesAreTheirOwn` rests on `TerminalInv`: a request that has got
to its lines holds the terminal it is for, its token is one that was drawn, and
what is in the buffer is its own and leads to the mode the terminal is in. Two
requests in their lines therefore have two terminals (`LockStep`, `RunStep`).
`GuessesAreBounded` rests on `ThrottleInv`: what the server has on record of an
address is, as far as it counts, what was tried from there, and the record and
those who have been let in and not counted yet stay together below the bound.
Being let in takes a place only if the record has room, so a place is needed for
each request served at the same time but one; counting turns a place into a record; forgetting old
attempts (`OnlyKeeps`: `Only` keeps a subsequence) frees some.

`ListProofs` and `DocumentProofs`. A loop over a list is a recursive function in
`Lists`, and what it computes is proved along its passes: a property that holds
before the first and is kept by each holds after the last (`Climb`, from the
least number at which it would fail; no induction theorem of the library is
used). From it: `Only` keeps the members it should, each once and in their order.
Sorting is `Place`, the number of members that come earlier; `BeforeGrows` and
`PlacesAreTaken` show by counting that places are distinct and all taken, which
serves both the order of access-list entries (`SortedIsSorted`, `SortedStays`)
and that of interfaces (`NamesAreConfigured`, `NamesAreInOrder`). `FlatJoins` is
the step by which a property of each piece of a concatenation becomes one of
the whole. `EffectiveValidates` and
`EffectiveAgain` are about incomplete wireless settings.

`EditorProofs`. `DocumentsStayValid`: every document that is ever in force has its
type, is valid and is normal. There is a lemma for each group of commands
(`EditNATFollows`, `EditMemberFollows`, ...) with two conclusions: what an edit
yields is a document, and it is free of conflicts if the document before was.
`CommandsMakeNoConflicts` follows by the second. Its hypothesis is that the
documents put in place as a whole are free of conflicts, too: Validate does not
look for them, so the web editor could bring them in.
`AppliedListsAlwaysFilter` needs only that documents are valid (`ListsFilter`): a
list that is named exists, so the rules rendered for it end in the deny.
`EffectiveStaysValid` is `EffectiveValidates` for every document in force.
`EntriesAreAppended`: the number of the new entry is larger than all
(`LastIsLargest`, `NextIsLarger`), the list was in order, so Normalize moves
nothing and all but the last of the new list is the old one.

`ApplierProofs`. `BystandersAreSpared` says that a change leaves alone what two
documents have alike. `ApplierInv`: the commands still to be run by a change or
rollback are `Peaceful`, that is each is harmless to what is the same in
`running` and `next`. That it holds where a change starts is a lemma for each
part of Apply (`ConfigureInterfaceIsPeaceful`, `RoutesArePeaceful`, ...):
an interface that is the same gets no command at all (`UnchangedIsNothing`),
and one that is removed or recreated is nobody's parent among those that are the
same (`EffectiveIsGrounded`, `ParentsStay`): this is what `Orderly` is needed for.
A rollback is harmless because what is the same does not depend on the direction
(`HarmlessBothWays`). That a harmless command disturbs nothing, whatever state
failures have left the system in, is `EffectDisturbsNothing`: a command changes
what it is about (`EffectTouches`), and the destruction of an interface reaches
another only through its bridge and its vlans (`DestroyedOther`).

`NothingIsRefused`, in the same module, is about the order of the commands. Its
proof looks at a system only as far as a command may be refused for it, its
outline: interfaces that are sure to exist, and pairs of a bridge and a member
that may be in the way. Each command is a step from one outline to another
(`Step`), on which it finds what it expects; a list of commands `Leads` from one
to another if its steps fit together. Each function of Apply has a lemma with
the outlines it leads between: from `Mid`, what exists throughout a change and
all the members of either document, the removals clear the bridges that go away
(`RemovalsLead`) and the configurations, in the order of InterfaceNames, reach
`Base`, what the new document has (`ConfigurationsLead`; `NamesAreInOrder` is
needed there: a VLAN comes after its parent, a bridge after its members). `Mid`
is the same in both directions, and no command leaves it, whether those before
it were run or have failed (`Mild`, `MildStaysWithin`): this is why a rollback
may start anywhere. `CourseInv` puts this together: nothing is refused from any
point of a boot, a change or a rollback on, unless a command has failed of
itself on the way. The theorem has one hypothesis, `Feasible`, of the documents:
no interface is in two bridges and a wlan has its radio. It is what only
commands check and Validate does not (see `Editor`); every document of
`MCApplier` has it, which TLC evaluates. `MovesForward` is the one exception.

`RecordProofs` proves `AsRecorded` for all documents, feasible or not. What a
document says of the system is taken apart into claims: a field of an interface
has a value, an address is or is not in one of its lists, a member is not in a
bridge, a route is not there, a file has its contents. A command that decides a
claim agrees with it or spoils it, and what a command does to a claim that it
agrees with, does not decide, or fails at, is one lemma each (`EffectDecides`,
`SparedStays`, `MadeHolds`; the errors that are tolerated matter here: a removal
that finds nothing to remove has made its claim true). A list of commands leaves
a claim alone, or settles it, and for lists one after the other it is enough to
know which of the two each does (`OutcomeJoins`, `Composing`). Each function of
Apply has its lemma (`ParentOutcome`, `RadioOutcome`, `LinkOutcome`,
`ConfigureOutcome`, ... `ApplyOutcome`): what the new document claims is left
alone if the old one claims the same and the interface is not created anew, and
settled if not. The invariant is `RecordInv`: idle, everything recorded holds;
during a change what both documents claim alike holds and stays, whatever fails,
and the rest of the new document's claims is on its way as long as nothing has
failed. A rollback finds the first half of that and settles the rest, which is
why it may start anywhere and why the code need not know where the change had
failed. After a power cycle `Bare` says that the claims of an empty document hold
but for those a boot forces. A boot on a live system with the recorded document
finds all its claims in force and keeps them (`RecordInv`, phase "boot"); with
another one it is `overlaid`, and nothing is claimed until the power goes. An
address has a claim only on an interface that is `TwinFree`: there, taking out an
address without its prefix length takes out no other (`IpIsTakenOut`), and
putting one in, the old length having been taken out before, replaces none
(`AddressIsPut`, `NewHasNoTwins`).

`DaemonInv`, in `ApplierProofs`: in a pass only programs still to be stopped
have pidfiles (so there is one at most), the process waited for is not in charge,
and a process in charge is on file unless it was `misled`, any process unless one
has `outlived` the wait. Then two in charge would be two PIDs in one file.

### What the proofs have shown about the model

* Overlapping guards of a CASE leave open which arm is taken. TLC takes the first,
  as the code does; the prover does not know. They are chains of IF now.
* A vlan that keeps its parent in both documents may still go with another
  interface: after a rollback that failed, the system has it on the parent it was
  to get, and the next change destroys that parent. TLC did not meet the case
  within the bounds of `applier`; `BystandersKeepRunning` excepts it now by name.
* Two routes to one prefix: which of them is in force after a change is open, so
  the claim of a route can only be that no other is there.

### What is only model-checked

* Liveness (`EveryCallEnds`, `PromiseResolved`, `DoorOpens`, `RemovedUsersLeave`,
  `PassEnds`): out of the prover's reach.
* `InForce`: that the system is the one a boot gives, up to `stale`. What it adds
  to `AsRecorded` (the order of addresses, members that are in their bridge,
  values that a document does not mention and an earlier one did) depends on
  everything that has happened since the boot, and `Booted` is itself the outcome
  of a fold over all commands.
* `RoundTrip` and `PasteChangesNothing` are about the text of a document entered
  line by line: a fold of the whole command interpreter over a list built of
  folds.
* The types of `Applier` beyond `KernelOK` and of `Editor` beyond `DocumentInv`.

## Not modelled

* The parser of the CLI: abbreviation, completion, help, quoting. A line of the
  model is the command the parser finds.
* Commands that change no configuration: show, ping, debugging, the dialogue of
  reload. "copy startup-config running-config" is a Replace.
* The answers of commands, except those of the manager. What confirm prints when
  the watchdog has just reverted is listed as a hazard without a property.
* Fields that no other field depends on (lease times, name servers of a pool,
  the port, address and title of the web server, the banner) and checks of a
  single field.
* Syntax of generated files; parsing of system output; password hashing, TLS,
  JSON, static pages, the line editor.
* The web editor compares what it puts back with nothing, so a change made after
  it has fetched its document is undone; the interface promises no more.
* The image trees and build scripts.

## Plan

Done: the manager and the store, the revert timer, the document and its rules,
the applier, the programs it restarts, the command line, the web service and the
collector, each with its runs; proofs of the manager, the timer and its promise,
the history, rates and dashboards of the collector, the throttle and the
terminals of the web service, the pidfiles, the documents the command line
leaves behind, what a change does not touch, that no command of it is refused,
and that what is recorded is in force.

Left: a proof that the text of an access list recreates it (the part of
`RoundTrip` that has no exceptions); that a bridge has the members it should,
which `NothingIsRefused` and `RecordInv` together nearly give; then a model of
the parser (an abbreviation means what its completion means).
