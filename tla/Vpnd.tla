-------------------------------- MODULE Vpnd --------------------------------
(***************************************************************************)
(* The daemon `inode-vpnd': the state its threads share behind one mutex   *)
(* (`Inner'), the engine thread that drives libopenconnect, the threads    *)
(* that may call `engine_start' (IPC clients, the network watcher, retry   *)
(* threads, main), and the bytes they write into the engine's command      *)
(* pipe.  A step is one critical section of the mutex, or one call of the  *)
(* library, so threads interleave exactly where the lock is not held.      *)
(*                                                                         *)
(* What the daemon writes but never reads back to decide anything          *)
(* (state.json, events, last_error, stats, session, cookie) is left to     *)
(* module Publish.                                                         *)
(***************************************************************************)
EXTENDS Integers

CONSTANTS
  Runs,          \* identities of engine runs.  A run is an engine thread, the
                 \* command pipe it opens and the retry thread it may leave
  Clients,       \* threads of handle_client, one per IPC connection
  Netwatch,      \* the network-watcher thread
  Main,          \* the thread of main()
  None,          \* no run
  Stalls,        \* windows in which a thread may be held up for long: "store"
                 \* (engine spawned, handle not stored), "pause" (watcher has
                 \* decided, not acted), "finish" (retry scheduled, engine not
                 \* marked finished)
  Faults,        \* failures of the run's surroundings that may happen: "spawn"
                 \* (no thread for an engine), "panic" (none for the health
                 \* probe), "retry" (none for a retry), "nul" (a NUL byte in
                 \* the configuration)
  MaxNetEvents   \* how many network events the watcher may report

ASSUME VpndAssumption ==
  /\ Runs \cap Clients = {}
  /\ {Netwatch, Main} \cap (Runs \cup Clients) = {}
  /\ Netwatch # Main
  /\ None \notin Runs
  /\ Stalls \subseteq {"store", "pause", "finish"}
  /\ Faults \subseteq {"spawn", "panic", "retry", "nul"}
  /\ MaxNetEvents \in Nat

VARIABLES
  state,         \* Inner.state
  stopRequested, \* Inner.stop_requested
  cmdFd,         \* Inner.cmd_fd: the run whose pipe it is, or None
  engine,        \* Inner.engine: the run whose handle it is, or None
  retryOwner,    \* the retry thread that captured the present value of
                 \* Inner.retry_generation, if any: it is compared for equality only
  epc,           \* where each engine thread is
  cmds,          \* commands in each run's pipe, or latched from it by the library
  cpc,           \* where each caller of engine_start is
  slot,          \* the run a caller holds on to between two critical sections
  netUp,         \* is there a default route, and a gateway behind it?
  netEvents      \* network events the watcher may still report

inner   == <<state, stopRequested, cmdFd, engine, retryOwner>>
threads == <<epc, cmds, cpc, slot>>
vars    == <<inner, threads, netUp, netEvents>>

SessionStates == {"stopped", "authenticating", "connecting", "connected",
                  "reconnecting", "failed"}

(* A caller named by a run is the retry thread that run left behind.       *)
Callers == Runs \cup Clients \cup {Netwatch, Main}

EnginePcs == {"free", "spawned", "init", "auth", "connecting", "up", "lost", "paused",
              "toreconn", "errret", "tostop", "drop", "fail", "report", "settlestop",
              "settlefail", "schedule", "finish", "unwind", "crashed", "crashsched"}

CallerPcs == {"idle", "storing", "waiting", "ready", "sleeping", "probing", "pausing",
              "writing", "restarting", "booting", "stopping"}

(* Between openconnect_setup_cmd_pipe and openconnect_vpninfo_free.        *)
PipeOpen(e) == epc[e] \in {"auth", "connecting", "up", "lost", "paused", "toreconn",
                           "errret", "tostop", "drop", "fail"}

(* main() starts the IPC server and the watcher after autostart, and they  *)
(* keep running until the process exits.                                   *)
Serving == cpc[Main] \in {"idle", "stopping"}

Init ==
  /\ state = "stopped"
  /\ stopRequested = FALSE
  /\ cmdFd = None
  /\ engine = None
  /\ retryOwner = None
  /\ epc = [e \in Runs |-> "free"]
  /\ cmds = [e \in Runs |-> {}]
  /\ cpc = [t \in Callers |-> IF t = Main THEN "booting" ELSE "idle"]
  /\ slot = [t \in Callers |-> None]
  /\ netUp = TRUE
  /\ netEvents = MaxNetEvents

-----------------------------------------------------------------------------
(* Operations of Shared.                                                   *)

Return(t) == cpc' = [cpc EXCEPT ![t] = "idle"]

(* A byte written to a pipe's descriptor reaches that pipe while it is     *)
(* open.  Once openconnect_vpninfo_free has closed it the write fails, or  *)
(* lands wherever the number has been reused: perhaps in a newer pipe.     *)
Send(fd, byte) ==
  \/ /\ PipeOpen(fd)
     /\ cmds' = [cmds EXCEPT ![fd] = @ \cup {byte}]
  \/ /\ ~PipeOpen(fd)
     /\ UNCHANGED cmds
  \/ /\ ~PipeOpen(fd)
     /\ \E e \in Runs : PipeOpen(e) /\ cmds' = [cmds EXCEPT ![e] = @ \cup {byte}]

(* The flag and the CANCEL byte go out under one lock.                     *)
request_stop ==
  /\ stopRequested' = TRUE
  /\ IF cmdFd # None THEN Send(cmdFd, "x") ELSE UNCHANGED cmds

(* Slip: the flags are reset before the handle is looked at.               *)
ResetsThenRefuses(t) ==
  /\ engine # None
  /\ stopRequested' = FALSE
  /\ Return(t)
  /\ UNCHANGED <<state, cmdFd, engine, retryOwner, epc, cmds, slot>>

(* engine_start, called by thread t: refused while a handle is stored.     *)
StartRefused(t) ==
  /\ engine # None
  /\ Return(t)
  /\ UNCHANGED <<inner, epc, cmds, slot>>

(* An identity that no thread has.  A retry thread that is about to end    *)
(* may hand its own to the engine it starts.                               *)
Spare(t, e) ==
  /\ epc[e] = "free"
  /\ cpc[e] = "idle" \/ (e = t /\ "store" \notin Stalls)

(* Slip: the stored handle is not looked at.                               *)
SpawnsRegardless(t, e) ==
  /\ Spare(t, e)
  /\ stopRequested' = FALSE
  /\ retryOwner' = None
  /\ epc' = [epc EXCEPT ![e] = "spawned"]
  /\ engine' = e
  /\ Return(t)
  /\ UNCHANGED <<state, cmdFd, cmds, slot>>

(* Otherwise the pending retry is superseded, a stop is forgotten and an   *)
(* engine thread spawned; only a later critical section stores its handle. *)
StartSpawns(t, e) ==
  /\ engine = None
  /\ Spare(t, e)
  /\ stopRequested' = FALSE
  /\ retryOwner' = None
  /\ epc' = [epc EXCEPT ![e] = "spawned"]
  /\ cmds' = [cmds EXCEPT ![e] = {}]
  /\ IF "store" \in Stalls
     THEN /\ cpc' = [cpc EXCEPT ![t] = "storing"]
          /\ slot' = [slot EXCEPT ![t] = e]
          /\ UNCHANGED engine
     ELSE /\ engine' = e
          /\ Return(t)
          /\ UNCHANGED slot
  /\ UNCHANGED <<state, cmdFd>>

StartSpawnFails(t) ==
  /\ "spawn" \in Faults
  /\ engine = None
  /\ stopRequested' = FALSE
  /\ retryOwner' = None
  /\ Return(t)
  /\ UNCHANGED <<state, cmdFd, engine, epc, cmds, slot>>

engine_start(t) ==
  \/ StartRefused(t)
  \/ \E e \in Runs : StartSpawns(t, e)
  \/ StartSpawnFails(t)

set_engine(t) ==
  /\ cpc[t] = "storing"
  /\ engine' = slot[t]
  /\ slot' = [slot EXCEPT ![t] = None]
  /\ Return(t)
  /\ UNCHANGED <<state, stopRequested, cmdFd, retryOwner, epc, cmds, netUp, netEvents>>

(* Slip: the descriptor of the closed pipe is kept.                        *)
KeepsCmdFd ==
  /\ engine' = None
  /\ UNCHANGED <<state, stopRequested, cmdFd, retryOwner>>

(* Slip: the handle of the engine that has ended is kept.                  *)
KeepsHandle ==
  /\ cmdFd' = None
  /\ UNCHANGED <<state, stopRequested, engine, retryOwner>>

mark_engine_finished ==
  /\ cmdFd' = None
  /\ engine' = None
  /\ UNCHANGED <<state, stopRequested, retryOwner>>

(* Slip: the generation is captured before it is incremented.              *)
CapturesOldGeneration(e) ==
  /\ IF stopRequested
     THEN UNCHANGED <<retryOwner, cpc>>
     ELSE /\ retryOwner' = None
          /\ cpc' = [cpc EXCEPT ![e] = "sleeping"]
  /\ UNCHANGED <<state, stopRequested, cmdFd, engine>>

(* Run e leaves a retry thread behind, unless a stop has been requested.   *)
schedule_engine_retry(e) ==
  /\ IF stopRequested
     THEN UNCHANGED <<retryOwner, cpc>>
     ELSE /\ retryOwner' = e
          /\ cpc' = [cpc EXCEPT ![e] = "sleeping"]
  /\ UNCHANGED <<state, stopRequested, cmdFd, engine>>

-----------------------------------------------------------------------------
(* The engine thread, engine_run.                                          *)

Step(e, from, to) ==
  /\ epc[e] = from
  /\ epc' = [epc EXCEPT ![e] = to]

KeepOthers == UNCHANGED <<cmds, cpc, slot, netUp, netEvents>>

(* Run e moves on without touching Inner, or by set_state(s).              *)
Quietly(e, from, to) == Step(e, from, to) /\ UNCHANGED inner /\ KeepOthers

set_state(s) ==
  /\ state' = s
  /\ UNCHANGED <<stopRequested, cmdFd, engine, retryOwner>>

Becoming(s, e, from, to) == Step(e, from, to) /\ set_state(s) /\ KeepOthers

EngineBegins(e) == Becoming("authenticating", e, "spawned", "init")

(* Slip: the early return leaves the status as it is.                      *)
BadStringUnreported(e) == "nul" \in Faults /\ Quietly(e, "init", "finish")

(* A NUL byte in a configured string: Failed, and no retry is scheduled.   *)
BadString(e) == "nul" \in Faults /\ Becoming("failed", e, "init", "finish")

(* Slip: setup_cmd_pipe's -1 is stored like a descriptor.                  *)
StoresUncheckedFd(e) ==
  /\ Step(e, "init", "auth")
  /\ cmdFd' \in {e, -1}
  /\ UNCHANGED <<state, stopRequested, engine, retryOwner>>
  /\ KeepOthers

store_cmd_fd(e) ==
  /\ Step(e, "init", "auth")
  /\ cmdFd' = e
  /\ UNCHANGED <<state, stopRequested, engine, retryOwner>>
  /\ KeepOthers

CookieObtained(e) == netUp /\ Becoming("connecting", e, "auth", "connecting")

(* start_health expects its thread; if it panics the engine unwinds, and   *)
(* only the guard runs.                                                    *)
HealthPanics(e) == "panic" \in Faults /\ Quietly(e, "auth", "unwind")

(* make_cstp_connection, then the tun device and its routes.               *)
TunnelUp(e) == netUp /\ Becoming("connected", e, "connecting", "up")

(* The pin is not the certificate's, the form cannot be filled in, or the  *)
(* gateway refuses what is in it or does not answer.                       *)
AuthFails(e) == Quietly(e, "auth", "fail")

(* Setting up the library (before there is a pipe), authentication, or     *)
(* anything up to the tun device may fail.                                 *)
StageFails(e) ==
  \/ Quietly(e, "init", "report")
  \/ AuthFails(e)
  \/ Quietly(e, "connecting", "fail")

(* In openconnect_mainloop, "up" has a data channel and "lost" is trying   *)
(* to reconnect.  A channel that dies by itself is not reported to the     *)
(* daemon; a successful reconnect is, through reconnected_cb.              *)
ChannelDies(e) == Quietly(e, "up", "lost")

(* Slip: the handler is not registered.                                    *)
ReconnectsSilently(e) == netUp /\ Quietly(e, "lost", "up")

reconnected_cb(e) == netUp /\ Becoming("connected", e, "lost", "up")

(* A PAUSE byte makes the mainloop close the channel and return 0.         *)
MainloopPaused(e) ==
  /\ "p" \in cmds[e]
  /\ Step(e, "up", "paused") \/ Step(e, "lost", "paused")
  /\ cmds' = [cmds EXCEPT ![e] = @ \ {"p"}]
  /\ UNCHANGED <<inner, cpc, slot, netUp, netEvents>>

MainloopCancelled(e) ==
  /\ "x" \in cmds[e]
  /\ Quietly(e, "up", "errret") \/ Quietly(e, "lost", "errret")

(* The gateway ends the session; reconnecting outlives its timeout.        *)
GatewayDrops(e) == Quietly(e, "up", "errret")

ReconnectTimesOut(e) == Quietly(e, "lost", "errret")

(* Slip: a stop after a pause leaves the loop without setting the state.   *)
BreaksUnreported(e) ==
  Quietly(e, "paused", IF stopRequested THEN "drop" ELSE "toreconn")

(* The loop round the mainloop reads stop_requested under the lock and     *)
(* sets the state afterwards.                                              *)
PauseReturned(e) ==
  Quietly(e, "paused", IF stopRequested THEN "tostop" ELSE "toreconn")

GoesReconnecting(e) == Becoming("reconnecting", e, "toreconn", "lost")

(* Slip: the loop goes on after an error as it does after a pause.         *)
LoopsAfterError(e) == Quietly(e, "errret", "lost")

ErrorReturned(e) ==
  Quietly(e, "errret", IF stopRequested THEN "tostop" ELSE "fail")

GoesStopped(e) == Becoming("stopped", e, "tostop", "drop")

(* stop_health, then openconnect_vpninfo_free, which closes the pipe while *)
(* Inner.cmd_fd may still hold it.                                         *)
FreesVpninfo(e) == Quietly(e, "drop", "finish") \/ Quietly(e, "fail", "report")

(* Slip: every error is reported as a stop.                                *)
ReportsStop(e) == Quietly(e, "report", "settlestop")

(* Slip: every error is reported as a failure.                             *)
ReportsFailure(e) == Quietly(e, "report", "settlefail")

(* After an error: Stopped if a stop had been requested, else Failed and a *)
(* retry.                                                                  *)
ReportsError(e) ==
  Quietly(e, "report", IF stopRequested THEN "settlestop" ELSE "settlefail")

Settles(e) ==
  \/ Becoming("stopped", e, "settlestop", "finish")
  \/ Becoming("failed", e, "settlefail", "schedule")

(* The retry thread is expected too: without one, the generation has moved *)
(* on and the thread that wanted the retry panics.                         *)
RetryPanics ==
  /\ "retry" \in Faults
  /\ ~stopRequested
  /\ retryOwner' = None
  /\ UNCHANGED <<state, stopRequested, cmdFd, engine, cpc>>

SchedulesRetry(e) ==
  /\ \/ Step(e, "schedule", "finish") /\ schedule_engine_retry(e)
     \/ Step(e, "schedule", "unwind") /\ RetryPanics
  /\ UNCHANGED <<cmds, slot, netUp, netEvents>>

(* EngineGuard's drop, at the end of engine_run or on the way out of a     *)
(* panic, which the thread's closure reports only after that.              *)
EngineFinishes(e) ==
  /\ Step(e, "finish", "free") \/ Step(e, "unwind", "crashed")
  /\ mark_engine_finished
  /\ KeepOthers

PanicReported(e) == Becoming("failed", e, "crashed", "crashsched")

(* Nothing catches a panic here: the thread is gone either way.            *)
PanicSchedulesRetry(e) ==
  /\ Step(e, "crashsched", "free")
  /\ schedule_engine_retry(e) \/ RetryPanics
  /\ UNCHANGED <<cmds, slot, netUp, netEvents>>

-----------------------------------------------------------------------------
(* The callers of engine_start.                                            *)

(* A retry thread's sleep is a second or more, the instructions left to    *)
(* the engine that spawned it are few: it outsleeps them unless "finish".  *)
RetryWakes(r) ==
  /\ cpc[r] = "sleeping"
  /\ epc[r] = "finish" => "finish" \in Stalls
  /\ IF stopRequested \/ retryOwner # r \/ engine # None \/ state # "failed"
     THEN Return(r)
     ELSE cpc' = [cpc EXCEPT ![r] = "probing"]
  /\ UNCHANGED <<inner, epc, cmds, slot, netUp, netEvents>>

(* Slip: a retry thread that finds the network down gives up.              *)
ProbesOnce(r) ==
  /\ cpc[r] = "probing"
  /\ \/ ~netUp /\ Return(r) /\ UNCHANGED <<inner, epc, cmds, slot>>
     \/ netUp /\ engine_start(r)
  /\ UNCHANGED <<netUp, netEvents>>

(* network_up runs outside the lock: a dead network means another sleep.   *)
RetryProbes(r) ==
  /\ cpc[r] = "probing"
  /\ \/ /\ ~netUp
        /\ cpc' = [cpc EXCEPT ![r] = "sleeping"]
        /\ UNCHANGED <<inner, epc, cmds, slot>>
     \/ /\ netUp
        /\ engine_start(r)
  /\ UNCHANGED <<netUp, netEvents>>

(* dispatch: "start" calls engine_start with a freshly loaded config (an   *)
(* unreadable one changes nothing); "stop"; "restart" stops, waits at most *)
(* 30 s for the handle to go, loads the config and starts.                 *)
ClientStarts(c) ==
  /\ Serving /\ cpc[c] = "idle"
  /\ engine_start(c)
  /\ UNCHANGED <<netUp, netEvents>>

ClientStops(c) ==
  /\ Serving /\ cpc[c] = "idle"
  /\ request_stop
  /\ UNCHANGED <<state, cmdFd, engine, retryOwner, epc, cpc, slot, netUp, netEvents>>

ClientRestarts(c) ==
  /\ Serving /\ cpc[c] = "idle"
  /\ request_stop
  /\ cpc' = [cpc EXCEPT ![c] = "waiting"]
  /\ UNCHANGED <<state, cmdFd, engine, retryOwner, epc, slot, netUp, netEvents>>

RestartWaits(c) ==
  /\ cpc[c] = "waiting"
  /\ \/ engine = None /\ cpc' = [cpc EXCEPT ![c] = "ready"]
     \/ engine # None /\ Return(c)                          \* 30 s are over
  /\ UNCHANGED <<inner, epc, cmds, slot, netUp, netEvents>>

RestartStarts(c) ==
  /\ cpc[c] = "ready"
  /\ \/ engine_start(c)
     \/ Return(c) /\ UNCHANGED <<inner, epc, cmds, slot>>   \* config unreadable
  /\ UNCHANGED <<netUp, netEvents>>

(* network_changed.  It decides under the lock and acts after it: an event *)
(* is ignored when debounced or when there is nothing to do.  (The config  *)
(* it restarts from is always there: an engine has failed before.)         *)
NetworkIgnored ==
  /\ Serving /\ cpc[Netwatch] = "idle" /\ netEvents > 0
  /\ netEvents' = netEvents - 1
  /\ UNCHANGED <<inner, threads, netUp>>

(* Slip: any engine with a pipe is paused, whatever the status.            *)
PausesAnyEngine ==
  /\ Serving /\ cpc[Netwatch] = "idle" /\ netEvents > 0
  /\ netEvents' = netEvents - 1
  /\ cmdFd # None
  /\ set_state("reconnecting")
  /\ Send(cmdFd, "p")
  /\ UNCHANGED <<epc, cpc, slot, netUp>>

NetworkPauses ==
  /\ Serving /\ cpc[Netwatch] = "idle" /\ netEvents > 0
  /\ netEvents' = netEvents - 1
  /\ state \in {"connected", "reconnecting"}
  /\ cmdFd # None
  /\ IF "pause" \in Stalls
     THEN /\ cpc' = [cpc EXCEPT ![Netwatch] = "pausing"]
          /\ slot' = [slot EXCEPT ![Netwatch] = cmdFd]
          /\ UNCHANGED <<inner, cmds>>
     ELSE /\ set_state("reconnecting")
          /\ Send(cmdFd, "p")
          /\ UNCHANGED <<cpc, slot>>
  /\ UNCHANGED <<epc, netUp>>

PauseSetsState ==
  /\ cpc[Netwatch] = "pausing"
  /\ cpc' = [cpc EXCEPT ![Netwatch] = "writing"]
  /\ set_state("reconnecting")
  /\ UNCHANGED <<epc, cmds, slot, netUp, netEvents>>

PauseWrites ==
  /\ cpc[Netwatch] = "writing"
  /\ Send(slot[Netwatch], "p")
  /\ Return(Netwatch)
  /\ slot' = [slot EXCEPT ![Netwatch] = None]
  /\ UNCHANGED <<inner, epc, netUp, netEvents>>

NetworkRestarts ==
  /\ Serving /\ cpc[Netwatch] = "idle" /\ netEvents > 0
  /\ netEvents' = netEvents - 1
  /\ state = "failed" /\ engine = None
  /\ cpc' = [cpc EXCEPT ![Netwatch] = "restarting"]
  /\ UNCHANGED <<inner, epc, cmds, slot, netUp>>

RestartAfterFailure ==
  /\ cpc[Netwatch] = "restarting"
  /\ engine_start(Netwatch)
  /\ UNCHANGED <<netUp, netEvents>>

(* main(): autostart or not; then, on a signal, stop, wait at most 15 s    *)
(* and exit.  The supervisor starts the process again.                     *)
Boots ==
  /\ cpc[Main] = "booting"
  /\ \/ engine_start(Main)
     \/ Return(Main) /\ UNCHANGED <<inner, epc, cmds, slot>>
  /\ UNCHANGED <<netUp, netEvents>>

Shutdown ==
  /\ cpc[Main] = "idle"
  /\ request_stop
  /\ cpc' = [cpc EXCEPT ![Main] = "stopping"]
  /\ UNCHANGED <<state, cmdFd, engine, retryOwner, epc, slot, netUp, netEvents>>

Exits ==
  /\ cpc[Main] = "stopping"
  /\ state' = "stopped" /\ stopRequested' = FALSE
  /\ cmdFd' = None /\ engine' = None /\ retryOwner' = None
  /\ epc' = [e \in Runs |-> "free"]
  /\ cmds' = [e \in Runs |-> {}]
  /\ cpc' = [t \in Callers |-> IF t = Main THEN "booting" ELSE "idle"]
  /\ slot' = [t \in Callers |-> None]
  /\ UNCHANGED <<netUp, netEvents>>

(* The world outside.                                                      *)
NetworkFlips ==
  /\ netUp' = ~netUp
  /\ UNCHANGED <<inner, threads, netEvents>>

-----------------------------------------------------------------------------
(* Steps that will be taken once they can: the daemon's own code, and the  *)
(* library's calls, each of which returns.                                 *)
EngineCode(e) ==
  \/ EngineBegins(e) \/ BadString(e) \/ store_cmd_fd(e) \/ CookieObtained(e)
  \/ HealthPanics(e) \/ TunnelUp(e) \/ StageFails(e)
  \/ reconnected_cb(e) \/ ReconnectTimesOut(e)
  \/ PauseReturned(e) \/ GoesReconnecting(e) \/ ErrorReturned(e) \/ GoesStopped(e)
  \/ FreesVpninfo(e) \/ ReportsError(e) \/ Settles(e) \/ SchedulesRetry(e)
  \/ EngineFinishes(e) \/ PanicReported(e) \/ PanicSchedulesRetry(e)

(* The mainloop polls the command pipe every time round, whatever else it  *)
(* does.                                                                   *)
Obeys(e) == MainloopPaused(e) \/ MainloopCancelled(e)

RetryCode(r) == RetryWakes(r) \/ RetryProbes(r)

WatcherCode == PauseSetsState \/ PauseWrites \/ RestartAfterFailure

(* What the gateway, the network, the users and the supervisor may do.     *)
Engine(e) == EngineCode(e) \/ Obeys(e) \/ ChannelDies(e) \/ GatewayDrops(e)

Client(c) ==
  \/ ClientStarts(c) \/ ClientStops(c) \/ ClientRestarts(c)
  \/ RestartWaits(c) \/ RestartStarts(c)

Watcher == NetworkIgnored \/ NetworkPauses \/ NetworkRestarts \/ WatcherCode

Next ==
  \/ \E e \in Runs : Engine(e) \/ RetryCode(e)
  \/ \E c \in Clients : Client(c)
  \/ \E t \in Callers : set_engine(t)
  \/ Watcher
  \/ Boots \/ Shutdown \/ Exits
  \/ NetworkFlips

Spec == Init /\ [][Next]_vars

Fairness ==
  /\ \A e \in Runs : /\ WF_vars(EngineCode(e))
                     /\ WF_vars(Obeys(e))
                     /\ WF_vars(RetryCode(e))
  /\ \A t \in Callers : WF_vars(set_engine(t))
  /\ WF_vars(WatcherCode)
  /\ WF_vars(Exits)

FairSpec == Spec /\ Fairness

-----------------------------------------------------------------------------
(* Properties.                                                             *)

(* The values of Inner, and where the threads may be.                      *)
TypeOK ==
  /\ state \in SessionStates
  /\ stopRequested \in BOOLEAN
  /\ cmdFd \in Runs \cup {None}
  /\ engine \in Runs \cup {None}
  /\ retryOwner \in Runs \cup {None}
  /\ epc \in [Runs -> EnginePcs]
  /\ cmds \in [Runs -> SUBSET {"x", "p"}]
  /\ cpc \in [Callers -> CallerPcs]
  /\ slot \in [Callers -> Runs \cup {None}]
  /\ netUp \in BOOLEAN
  /\ netEvents \in 0..MaxNetEvents

(* A run between the spawn and EngineGuard's drop.                         *)
Live(e) == epc[e] \notin {"free", "crashed", "crashsched"}

(* Engine threads that will still replace each status that claims progress. *)
Ending   == {"fail", "report", "settlestop", "settlefail"}
Authing  == {"init", "auth", "unwind", "crashed"} \cup Ending
Joining  == {"connecting"} \cup Ending
Carrying == {"up", "lost", "paused", "toreconn", "errret", "tostop"} \cup Ending

(* However the threads interleave, a status that claims progress is backed *)
(* by an engine thread that is there and will replace it: nobody reads     *)
(* Connected, Connecting or Authenticating off a daemon with no engine.    *)
StatusBacked ==
  /\ state = "authenticating" => \E e \in Runs : epc[e] \in Authing
  /\ state = "connecting" => \E e \in Runs : epc[e] \in Joining
  /\ state = "connected" => \E e \in Runs : epc[e] \in Carrying

(* Inner.cmd_fd never outlives its run: request_stop and the watcher may   *)
(* find a pipe that is closed already, never one of a run that is over or  *)
(* of a run that has not stored it.                                        *)
CmdFdOfUnfinishedRun ==
  cmdFd # None => /\ Live(cmdFd)
                  /\ epc[cmdFd] \notin {"spawned", "init"}

(* At most one engine thread drives a VPN session ("one daemon holds the   *)
(* only VPN session").                                                     *)
SoleEngine == \A e, f \in Runs : Live(e) /\ Live(f) => e = f

(* The stored handle is that of the live engine thread: "engine already    *)
(* running" is the answer when, and only when, an engine is running.       *)
HandleIsEngine == \A e \in Runs : Live(e) <=> engine = e

(* A stop that reached an engine's pipe is not forgotten while that engine *)
(* lives: nothing resets stop_requested under it, so it will report        *)
(* Stopped and schedule no retry.                                          *)
CancelSticks ==
  \A e \in Runs : Live(e) /\ "x" \in cmds[e] => stopRequested

(* The status becomes Stopped only for a stop that was asked for and has   *)
(* not been superseded (or because the process starts afresh).             *)
StoppedOnRequest ==
  [][state # "stopped" /\ state' = "stopped"
       => stopRequested \/ cpc[Main] = "stopping"]_vars

(* Whatever an engine is doing when CANCEL reaches its pipe, and whatever  *)
(* else fails on its way out, it leaves the status Stopped behind.         *)
CancelEndsStopped ==
  [][\A e \in Runs :
       "x" \in cmds[e] /\ Live(e) /\ ~Live(e)' => state' = "stopped"]_vars

(* ... and no retry thread that would bring the session back.              *)
CancelLeavesNoRetry ==
  [][\A e \in Runs :
       "x" \in cmds[e] /\ retryOwner # e => retryOwner' # e]_vars

(* A failed session whose stop nobody asked for always has a retry thread  *)
(* of the present generation on its way to restart it.  That is so         *)
(* whatever the failure was: engine_run makes no difference between an     *)
(* outage and a password that is refused or a pin that is not the          *)
(* gateway's, although docs/architecture.md:394 says of an authentication  *)
(* failure that it is not retried endlessly.                               *)
FailedHasRetry ==
  state = "failed" /\ engine = None /\ ~stopRequested
    => \E r \in Runs : retryOwner = r /\ cpc[r] \in {"sleeping", "probing"}

(* Reconnecting means an engine is there that reconnects.                  *)
ReconnectingHasEngine == state = "reconnecting" => engine # None

(* The status and the engine behave as module Session says, so that the    *)
(* edges of the documented state diagram are left only where Session names *)
(* it, and only a process that has been told to end is replaced.           *)
Promise == INSTANCE Session WITH status <- state, running <- (engine # None),
                                 leaving <- (cpc[Main] = "stopping")
ImplementsSession == Promise!Spec

(* A CANCEL byte that reached an engine's pipe ends that engine.           *)
CancelEndsEngine ==
  \A e \in Runs : "x" \in cmds[e] ~> epc[e] = "free" \/ "x" \notin cmds[e]

(* Reconnecting does not last: the mainloop reconnects or gives up.        *)
ReconnectingResolves == state = "reconnecting" ~> state # "reconnecting"

(* Once the network stays up, a failed session is started again, unless a  *)
(* stop is requested.  (For an outage that is what docs/architecture.md    *)
(* asks for.  A refused password is tried again and again as well, against *)
(* its line 394: see FailedHasRetry.)                                      *)
FailedRecovers ==
  <>[]netUp => (state = "failed" /\ engine = None
                  ~> engine # None \/ stopRequested \/ state # "failed")

(* A stop accepted while an engine runs ends that engine (`inode stop'     *)
(* tears the session down), whatever the engine is doing.                  *)
StopEndsEngine ==
  \A e \in Runs : engine = e /\ stopRequested ~> engine # e \/ ~stopRequested

(* Nothing but a user's start brings the session back after a stop (`inode *)
(* stop' removes the target state): the watcher and the retry threads      *)
(* start no engine while a stop is in force.                               *)
StopStaysInForce ==
  [][\A t \in Runs \cup {Netwatch} :
       /\ cpc[t] \in {"probing", "restarting"} /\ cpc'[t] = "idle"
       /\ engine = None /\ engine' # None
       => ~stopRequested]_vars
=============================================================================
