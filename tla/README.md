# A verification of inode-cli's VPN daemon

TLA+ modules, TLC runs and TLAPS proofs about the repository in `src/`: the
daemon `inode-vpnd`, the route helper `inode-routectl`, what their clients see of
them, and what the command line `inode` keeps on disk. Line numbers below are those of `src/crates/inode-vpnd/src/main.rs`
unless another file is named.

## 1. The system

A root daemon drives one SSL-VPN session through a fork of libopenconnect. It
serves a Unix socket (JSON lines), watches the network, retries failed sessions
and publishes its status. The library runs `inode-routectl` to change the
routing table. A supervisor (systemd, launchd) starts the daemon and restarts
it when it dies.

| Component | State it keeps | Operations | Interacts through | Modules |
|---|---|---|---|---|
| Session and engine lifecycle (`Shared`, `Inner`, `engine_run`) | `Inner` under one mutex: state, stop_requested, cmd_fd, engine handle, retry_generation | start, stop, restart, network_changed, retry, panic handling, shutdown | the mutex; bytes in the engine's command pipe; the handle's existence | Vpnd, Session |
| Health probe (`start_health`, `stop_health`, `health_loop`) | health_stop flag, join handle, Inner.health, Inner.cookie | start, probe, stop and join | flag and join; deadlines of those who wait for the engine | Health |
| Status publication (`set_state`, `persist_state`, `emit`, `subscribe`) | state.json, the subscriber list, one channel per subscriber | change, persist, emit, subscribe, watch | lock, file, channels | Publish |
| Route executor, Linux (`inode-routectl/src/linux.rs`) | the routing table, a file with the physical path | connect (also reconnect, attempt-reconnect), disconnect | called by the library; `ip` commands; INODE_PRESERVE_CIDRS | Routes |
| Route executor, macOS (`inode-routectl/src/macos.rs`) | the same, by route(8) | pre-init, connect, disconnect | called by the library; `route`; INODE_PRESERVE_CIDRS | Routes |
| Netmask conversion (`plan.rs`, `macos.rs`) | none | netmask_to_prefix, prefix_to_netmask | called for every phase | Netmask |
| libopenconnect fork | the session's socket, the command pipe | mainloop, reconnect, free | calls, callbacks, the pipe | external, in Vpnd |
| Network watcher (`netwatch.rs`) | a child process or a run loop | reports events | network_changed | its thread is in Vpnd |
| Configuration (`inode-core/src/config.rs`, commands of the CLI) | config.toml and its mode; each command's copy | load, `config set`, `config migrate`, discover-cert, save | the file, without a lock | Config |
| Service installer (`inode/src/service.rs`) | the unit or plist, the link `current`, Nix's roots | enable, disable | files that all users share, systemd, launchd, Nix's collector | Service |
| CLI (`inode/src/main.rs`) | none | one request, a watch, the commands above | the socket, files | in Vpnd, Publish, Config, Service |
| IPC framing, redaction, errors (`inode-core`) | none | conversions | | not modelled |
| H3C frame codec (`inode-openconnect-sys`) | a byte buffer | to_wire, push | golden tests | not modelled |
| Packaging | none | | | not modelled |

What is hard in this code is that the daemon decides under its mutex and acts
after releasing it: `engine_start` checks for a handle (421) and stores one
later (455), `network_changed` picks an action (251) and performs it later
(269), a retry thread decides (314) and starts later, `set_state` changes
`Inner` (133) and persists and emits later (143-144). Then there are the
library's pipe, which exists for only part of an engine's life (755-879); the
panic path, which runs the guard's destructor before it reports (440); waits
with deadlines (194, 985, 1207); and a routing table that is changed one
command at a time, any of which may fail. `PROJECT.json` lists each hazard at
its line with the properties that would catch it.

What makes the parts correct:

* lifecycle: one engine; the handle is the live engine's; the status is backed
  by an engine that will replace it; a stop ends the session and is not undone;
  a failed session is retried; Reconnecting resolves;
* health: no probe outlives its session; the waits suffice;
* publication: every subscriber gets the newest state, and so does the file if it
  can be written;
* configuration: secrets go into a private file only; a save that runs alone to
  its end leaves a file that loads; a command undoes nothing but what changed
  after it loaded; a pin that was in the copy a command loaded, and still
  stands, is replaced only if confirmed;
* installation: what a unit starts is not collected; what starts at boot has its
  unit;
* routes: the management path is protected before traffic enters the tunnel;
  a disconnect undoes what was laid, by its own session and by those that ended
  without one.

## 2. The modules

### Vpnd, with the abstract Session

State: the five fields of `Inner` that decide anything; for each engine run its
program point `epc` and the bytes in its pipe `cmds`; for each thread that may
call `engine_start` its program point `cpc` and the run it holds on to, `slot`;
the network. A run stands for an engine thread, its pipe and the retry thread it
may leave. An action is one critical section of the mutex or one call of the
library, so threads interleave where the code does not hold the lock. Actions
carry the names of the functions where they are whole functions
(`request_stop`, `store_cmd_fd`, `reconnected_cb`, `network_changed` as its
`Network...` and `Pause...` steps, ...), and `PROJECT.json`'s map gives the
lines of each.

`Stalls` names windows between two critical sections in which a thread may be
held up: "store" (455 after 424), "pause" (269-272 after 258), "finish" (the
handle is dropped after the retry was scheduled, 896-909). With a window closed
the second section follows before anybody else acts on it. That is what the code
nearly always does, since the windows are microseconds long and a retry sleeps
for seconds; open windows show what happens when it does not. `Faults` names
what may fail around a run: no thread for an engine (454), none for the health
probe or for the retry, which panics (397, 335), a NUL byte in the configuration (660).

`Session` is what a client may rely on: a status, an engine or none, and whether the
process has been told to end, after which a new one begins with Stopped. Its edges
are those the daemon takes. state.rs:3-4 calls the diagram of architecture.md
(152-165) canonical, and the daemon departs from it in three places that `Session`
names: a failed session starts in Authenticating and not in Connecting (:161), a
gateway that ends the session makes Connected Failed without Reconnecting
(:158-160), and a stop may come at every stage (:162). `ImplementsSession` refines it
with `status <- state, running <- engine # None, leaving <- (cpc[Main] = "stopping")`.

`retryOwner` stands for the generation counter, which is compared for equality
only. The 2 s debounce of `network_changed` is nondeterministic
(`NetworkIgnored`). A byte sent to a descriptor that has been closed may be lost
or reach a newer pipe (`Send`): the outcomes of using a stale descriptor.

### Health

Time in seconds: `Tick` passes when every thread waits. The engine, the probe
thread's sleep and curl call, stop_health's join, and one thread at a time that
waits for the engine to be gone (restart: 30 s, shutdown: 15 s). A stop during
authentication is left to Vpnd.

### Publish

What `Inner` says is a revision number. `set_state` is its four critical
sections (change, persist, snapshot, send); `engine_start` changes `last_error` and
the configuration (425-426) and does none of the rest, which `silent` remembers.
`persist_state` ignores every failure (158-170): the file is written, left as it was,
or torn, and `lost` says of the last attempt whether it failed. Under the unit that
`inode enable` installs each does: the user's home is read-only in it
(service.rs:70, 81), and state.json lies there, beside config.toml (1107-1112).
FileSettles claims nothing then. A subscriber is registered, answered,
takes its snapshot and is sent it; its writer thread shows or fails. `Respawns`
is a crash, which may tear state.json while it is written. Only `state_changed`
events are modelled: the watch command skips the others. The properties speak of
what was *sent*, and say that the newest state is shown some time, not last: two
events may overtake each other between snapshot and sending (144), so a client may
show an older state last, until the next event. `OvertakenBounded` says how far this
goes: at most one old state per thread that changes the status follows the newest.

### Config

`mode` and `text` of config.toml; for each process of the CLI where it is (`pc`),
which command it runs (`verb`) and its copy (`new`). A configuration is a gateway,
a pin and the rest, each from a small set; the contents a file can have besides
one are Absent, Empty (truncated) and Mixed (cut, or one text with the end of
another). `save_private` is `Creates`, `Secures`, `Writes`, and `Dies` between
them; nothing keeps two commands apart. The daemon only loads, which changes
nothing: `Loadable` is what it finds. Three history variables name the causes the
properties speak of: `stale` (the file changed after a command took its copy),
`torn` (a save was cut short), `overlap` (two saves met). `PinConfirmed` exempts a
command whose copy is stale, for the code does: discover-cert compares the pin it
got with its copy, loaded before it lets openconnect ask the gateway
(inode/src/main.rs:236-254). A pin saved while it asks is in the file when it
compares, and is replaced without the confirmation of architecture.md:386.

The code accepts an empty `gateway.url` (config.rs:189), which `load` refuses: after
it no `config set` works any more, since each loads first. `GatewayKept` says that no
other command ever leaves such a file, whatever copy it holds. Left out: a text cut
within its very last number, which would load.

### Service

`enable` and `disable`, one command under sudo at a time, for several users. All
units start the daemon through the one link `current`; `enable` moves it and then
roots its target for the collector, under the user's own name. `ln -sfn` (service.rs:146)
renames a new link over the old on Linux; on macOS it removes the old one first, which
`UnlinksCurrent` and `UnlinksRoot` do. `Job` is a user's
unit on Linux, the one plist on macOS. `StoreChanges` is Nix building and collecting.
Starting and stopping the daemon now changes none of this; the restarts of the
supervisor are Vpnd's `Boots`.

### Routes

The table maps a destination (the gateways' host routes, the interface's address
and network on each physical path, preserved networks, split routes) to a path,
the tunnel or nothing; one destination may be several of these. A call is the set of
its commands, each a destination and the way it is laid or deleted, taken in the code's
order (`Rank`); a connect ends at any failure (`?` in the code), a disconnect goes
on. The record is overwritten by every connect (linux.rs:91, macos.rs:92) and its
loss ignored (linux.rs:72-80).

`os` says which build it is. Linux protects the interface's network too and
replaces an existing route (`Replaces`, `LinuxDeletes`: a route by another path
does not match and is left). macOS adds, which leaves an existing route alone
(`Adds`), deletes by destination (`MacDeletes`), does not come to the preserved
networks in a disconnect (`MacUndoes`), and drops the gateway route in `pre-init`
(`PreInit`).

`gw` is the session's VPN gateway, which may be another than the last session's
(plan.rs:31; gateway.url is read anew by each start, 970), and a disconnect names only
its own. `asked` is `network.preserve_cidrs` of the session, `env` the daemon's
INODE_PRESERVE_CIDRS, which `engine_run` sets if the list is not empty (818) and
never clears: a session whose list has become empty still preserves the networks
of an earlier one. An edit is seen by the next session (`PreInit`).

`ConnectRefused` and `DisconnectRefused`: RoutePlan::from_env fails for a netmask or
a split route it does not accept (plan.rs:35-39, 51, 121-125), and lib.rs:30 returns
before anything is done. A session whose last connect was refused has its disconnect
refused as well, with the routes and the record of an earlier connect standing.

`Kept` names what a disconnect does not come to: the gateways of other sessions, the
preserved networks its list does not name, and on macOS all of them. `left`, a history
variable, holds those that a session named which crashed, or whose disconnect was
refused or did not come to them, and that no disconnect has undone since: what
`CleanIfNoMove` leaves over.

Assumed of the kernel: routes by an interface that goes down are dropped;
deleting a route that is there succeeds; the table has no other routes of metric
0. An interface does not come up within a call. The gateway and the split routes
stay the same within a session. Left out: two default routes at
once, a split default route, DNS (best effort), the tunnel's address and MTU.
A split route that is itself a protected network replaces the protection just laid
(linux.rs:155; the comment at :136 has it always more specific): the model does it,
and `ShieldFirst` leaves that network out by name.

### Netmask

The two conversions as operators on sets of bits, evaluated for every mask whose
octets are in a small set; the theorems speak of all 2^32. The shift is the release build's (`x << 32 = x << 0`);
a debug build panics there instead.

## 3. The runs

| Run | Question | Bounds | Result |
|---|---|---|---|
| races | Is the status backed, and cmd_fd never older than its run, whatever races? | 2 runs, 1 client, 1 network event, all windows, all faults | holds |
| live | One engine, its handle, its stop; what does a cancelled engine leave behind; is the daemon a Session, and does it make progress? | 2 runs, 2 clients, 1 event, no window, no fault, fair | holds |
| health | Probes and deadlines with keepalive 20 s | curl 5 s, library 2 s | holds |
| publish | Do the file and the subscriber get the newest state, how much follows it, and is it shown? | 2 setters, 1 subscriber, 3 changes per process, failing writes, fair | holds |
| config | What can saves that fail, are killed or overlap do to config.toml? | 2 commands, 2 pins, 1 gateway (or none), 2 values of the rest | holds |
| routes | Protection before capture; undo | both builds, 3 paths (one without a gateway), 2 gateways, 2 preserved networks, 2 splits (one of them a preserved network), 1 network change, 1 edit of the list | holds |
| two_engines | architecture.md:31, the only session | 2 clients, window "store" | violated |
| stuck_reconnecting | state.rs:20, Reconnecting means attempting | window "pause" | violated |
| lost_stop | architecture.md:92, stop logs out | no window, fair | violated |
| stop_overridden | architecture.md:92, stop removes the target | no window | violated |
| routes_leak | architecture.md:145, exact undo | 2 paths, 1 change, nothing fails | violated |
| netmask | plan.rs:131, :157 | 4096 masks | violated |

Why the bounds are enough. A second engine, a stale descriptor and a superseded
retry each need two runs; a run is reused once its thread and its retry thread
are gone, so histories of any length occur with two. Two clients are needed for
two starts, or a start against a restart; the watcher, main and the retry
threads are further callers. One network event meets every state; two
revisions in flight, two writers of the file and a subscriber that joins
between are all within three changes, and so are two late events after the newest:
with two setters that is the bound of OvertakenBounded.
Subscribers never meet but in emit's loop
over the list, so run publish has one, and the theorems hold for any number; of
the properties of the engine, its stop and its retry, run live checks the instance
without windows and faults, and the theorems say which windows and faults each
needs closed. Two commands are needed for a save that overlaps
another or outdates its copy, two pins for one that is replaced. One network change, at any point and to any set of links, leaves a
path, loses it or gets another, and the initial state may have any links; what
happens over several is what ShieldAlwaysFirst and PathAlwaysUndone prove. Two gateways
give a session that does not name the last one's, and one edit of the list every pair of
an old and a new list; two preserved networks allow lists that overlap. Split routes are
laid and deleted alike and last, so one that is nothing else and one that is a preserved
network stand for all. The identities of runs, clients, setters,
subscribers and paths are never compared except for equality, so most runs over them
use symmetry; `live`, which checks liveness, does not. `Health.cfg`'s numbers are
the code's, with an interval for which the restart fits; theorems RestartFits and
ShutdownFits say for which one and the other do.

Fairness (`FairSpec`, runs live, lost_stop and publish). In Vpnd: weak fairness of each engine's
code and library calls (they return: reconnect is bounded by
`reconnect_timeout`), of the mainloop polling its pipe, of the retry threads'
sleeps and probes, of storing the handle, of the watcher once it has decided,
and of main's exit after a signal. Nothing is assumed of users, the gateway, the
network or the supervisor. In Publish: weak fairness of what a thread has left to
do once set_state has begun, of answering a subscription, and of the writer
thread of a client that reads; `NewestIsShown` asks nothing for one that hangs
up or when the daemon is killed.

What the violations show:

* **two_engines**: two callers pass 421 before either reaches 455. Both engines
  run; the first handle is overwritten.
* **stuck_reconnecting**: an engine that ends between 258 and 271 leaves the status
  Reconnecting, which neither the watcher (259) nor a retry (317) acts on.
* **lost_stop**: a stop before 755 finds no pipe, and the flag is next read
  when the mainloop returns (855), which may be never.
* **stop_overridden**: the retry thread and the watcher start an engine after a
  stop they did not see; `engine_start` resets the flag (424). A retry thread
  runs an external command (`ip`, `route`) in that window (322, 461-486).
* **routes_leak**: the record names only the last path (linux.rs:91).
* **netmask**: the contiguity check sets the low `prefix` bits instead of the low
  `32 - prefix` (plan.rs:156): 255.0.0.0 is refused, 255.255.255.1 is taken for 24.

Other places where the code and its documents differ, which no run of their own shows:

* architecture.md:394 says that a failed authentication or a wrong password ends in
  Failed and is not retried endlessly. The daemon makes no difference between errors
  (898): each failed session is retried until it is stopped, and FailedHasRetry and
  FailedRecovers, which state what the daemon does, hold of a refused password too.
* The edges of the state diagram (section 2, Vpnd).
* architecture.md:386, a change of the pin must be confirmed: not if it was saved while
  openconnect asked (section 2, Config).
* architecture.md:145, disconnect exactly revokes what the session added, and :399, a
  leak is revoked by the next start and disconnect: not if no plan can be made of the
  environment (lib.rs:30), nor if the next session has another gateway or list.
  (Run routes_leak shows a third way.)
* state.json under the shipped unit (section 2, Publish). The file is never read back
  either, although architecture.md:107, :123 and :398 say recovery does; recovery is
  `autostart`.

Not counted as a finding, but shown by theorem UnitAlwaysStarts to be the only
ways besides two enables that meet: an `enable` that fails or is killed between
service.rs:146 and :147 leaves every user's unit on a package the collector may
take, although service.rs:137 says the unit "never references a GC-able /nix/store
path". Likewise a consequence of Health: with `keepalive = 45` a
probe may sleep longer than restart waits (985), and the restart is refused with
the session stopped. The default of 30 s (773) does not satisfy RestartFits either:
a restart asked for as the probe goes to sleep is refused. The 15 s of a shutdown
(1207) are less than the default, so a shutdown may leave without the engine, and
with it its disconnect.

Each property of a passing run has a mutant: an operator commented "Slip" before
the definition it replaces, the way a plausible mistake would, under which TLC
finds the property violated.

## 4. The proofs

Eight modules of theorems, for every value of the constants that satisfies the
named assumptions. (In parentheses: the strengthening, and why it is needed.)

What each theorem about Vpnd takes for granted of the windows and the faults:

| Theorem | Property | Closed windows | Excluded faults |
|---|---|---|---|
| TypeCorrect | TypeOK | none | none |
| BackedAlways | StatusBacked | none | none |
| CmdFdNeverOutlivesRun | CmdFdOfUnfinishedRun | none | none |
| HandleAlwaysEngine, OneEngine | HandleIsEngine, SoleEngine | store | none |
| CancelNotForgotten, StoppedOnlyOnRequest | CancelSticks, StoppedOnRequest | store | none |
| ReconnectingBacked | ReconnectingHasEngine | store, pause | none |
| CancelNeverRetried | CancelLeavesNoRetry | store | panic, retry |
| CancelAlwaysEndsStopped | CancelEndsStopped | store, pause | panic, retry |
| KeepsPromise | ImplementsSession | store, pause | panic, retry |
| FailedAlwaysRetried | FailedHasRetry | store, finish | all |

None of these hypotheses can be dropped, but for "retry" in CancelNeverRetried: with any
other one of a property's windows open, or of its faults possible, TLC finds the
property violated, with two runs and one client (`VpndRaces.cfg` with the other constants). Runs two_engines and
stuck_reconnecting keep two of these counterexamples. Others: a late watcher sets
Reconnecting after a cancelled engine has said Stopped; a panic takes the handle
first, so that the next start may reset the flag before the retry is scheduled; a
retry that wakes while its engine still has its handle gives up; a failed spawn
has superseded the retry there was.

* `VpndProofs`. BackedAlways: StatusBacked is inductive with TypeOK, since only
  engines set a status that claims progress, and each names its setter's program
  point; CmdFdNeverOutlivesRun likewise. Then, with "store" closed, PromptInv (the
  handle is the live engine's, CANCEL implies the flag, an engine about to say
  Stopped has seen it), of which HandleAlwaysEngine, OneEngine, CancelNotForgotten
  and StoppedOnlyOnRequest are parts or consequences. OneEngine alone is not
  inductive: it needs the handle that refuses the second start. ReconnectingBacked:
  ReconnectingInv says of Reconnecting what StatusBacked says of Connected, and
  needs StatusBacked, because the watcher turns Connected into it.
  CancelNeverRetried follows from PromptInv step by step: only an engine that finds
  the flag down schedules a retry, and that engine has no CANCEL in its pipe.
* `VpndSessionProofs`. KeepsPromise, the refinement of Session, step by step
  (SessionInv ties each program point of an engine to the statuses it can meet).
  CancelAlwaysEndsStopped (CancelledInv: a pipe is empty until Inner.cmd_fd names
  it, an engine freeing its vpninfo after a stop has said Stopped, and one whose
  pipe took a CANCEL is never on the way to Failed). FailedAlwaysRetried (RetryInv
  follows the retry from the failed engine that has yet to schedule it to the
  thread that sleeps; the watcher may be as late as it likes).
* `HealthProofs`: TypeCorrect; NoStaleProbe and StopHealthBounded (ProbeInv bounds what is left
  of a probe's sleep by what stop_health has waited); RestartFits and ShutdownFits, if an interval
  and two calls of the library are less than the wait of the one or the other
  (PatienceInv, for either).
* `PublishProofs`: TypeCorrect; FileAlwaysSettles (FileInv: a file that is out of
  date has a setter about to write it, its last write failed, or only a start has
  changed anything since); NewestAlwaysSent (ListedInv: a subscriber
  is listed before its snapshot; SentInv: if it has not been sent the newest state,
  a setter has still to emit it); OvertakenAlwaysBounded (TailInv: what follows the
  newest state, and what its late setters have still to emit, are together no more
  than the setters; PastInv: nobody holds a revision from the future).
* `RoutesProofs`: TypeCorrect; ShieldAlwaysFirst (ShieldInv: what a connect has come
  to is routed by its path), on Linux over any changes of the network, on macOS until
  the first; PathAlwaysUndone (TableInv: only what is `Routable` is routed by a path;
  UndoInv: a disconnect has still to come to what it must delete); CleanWithoutMoves
  (SamePath: without a change of network every route goes by the
  one path; ShieldFirst on macOS rests on it too, since what stands in the way of
  an `add` then goes by the path that is being added; LeftInv: a gateway or a preserved
  network is routed only if the session that is up names it or it is in `left`). None of
  them assumes that split routes, gateways and preserved networks differ.
* `ConfigProofs`: TypeCorrect; SecretAlwaysPrivate (PrivateInv: past its chmod a
  command's file is private); UnreadableAlwaysCaused (AloneInv: saves that have
  not met are at most one, and it finds the file empty); FreshAlwaysKeepsRest and
  PinAlwaysConfirmed (AskingInv: the copy of a fresh discover-cert is the file), for
  commands whose copy nobody has outdated since it was loaded;
  GatewayAlwaysKept (CopyInv: a copy without a gateway is that of a `config set
  gateway.url`, because every other command loaded or migrated its own).
* `NetmaskProofs`: AcceptedFromSixteen, the exact condition under which a netmask is
  accepted and as what; ShortPrefixesRefused, its instance for the masks of prefixes:
  of these the conversion is right except for 1 to 15, which it refuses;
  LeadingOnesDecide, the same of the module's behaviours. (CheckFills: with n ones
  in front the check fills in the last n bits, so it passes when the two meet, from
  sixteen on; LeadsSome: every word has a first zero or none, by the well-foundedness
  of the naturals.)
* `ServiceProofs`: UnitAlwaysStarts, assuming that no package is the missing one
  (LinkInv: the second link follows the first or is about to, on macOS the first is
  missing only while an enable replaces it, and the collector
  spares both what is rooted and what a command runs from);
  EnabledAlwaysHasUnit (UnitInv: a disable that met nobody finds its job still
  disabled when it removes the unit). No run checks this module: each property
  is proved outright.

Every invariant and every action property of the passing runs is proved, and so is
the refinement. Only model-checked: CancelEndsEngine, ReconnectingResolves,
FailedRecovers and NewestIsShown, because fairness and ENABLED are out of the
prover's reach. What these must not lose on the way is proved: the CANCEL stays in
force and has its effect (CancelSticks, CancelEndsStopped, CancelLeavesNoRetry),
Reconnecting and Failed have somebody who will leave them (ReconnectingHasEngine,
FailedHasRetry), and the newest state is in the channel (NewestIsSent). That they
are eventually left, emptied or shown is what TLC checks.

## 5. Not modelled, and the plan

Left aside for good: stateless conversions (IPC lines, redaction, errors),
output formatting, packaging, the C code of the fork beyond the calls, bytes and
callbacks the daemon uses, DNS, the parsing of `ip monitor` lines and the
SystemConfiguration run loop, which only decide when `network_changed` is called.
The H3C frame codec of `inode-openconnect-sys` mirrors the fork's parser for golden
tests; the daemon does not call it. (Its `push` drops the complete frames it has
taken when a later one is incomplete, though its comment says every push returns
them.)

Noticed while reading, and not modelled: `last_error` is not cleared when a
session connects (139); `reconnected_cb` does not refresh the session's details
(563-570); Connected is reported before the first health check (850).

What a continuation would add, in this order:

1. The frame codec against the frames written, if the daemon comes to use it.
2. The configuration a retry starts with (321), if it is to follow the file.

A composition of Vpnd and Routes would add little to them: the calls of one engine
do not interleave with another's while SoleEngine holds, and run two_engines
already shows that it may not.
