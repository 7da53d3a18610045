-------------------------- MODULE VpndSessionProofs --------------------------
(***************************************************************************)
(* The daemon keeps the promise of module Session for any number of runs   *)
(* and clients, provided that handles are stored promptly, that the        *)
(* watcher acts on what it has just seen, and that no engine thread        *)
(* panics.  (Runs two_engines and stuck_reconnecting show what happens     *)
(* without the first two; a panic leaves "authenticating" behind for a     *)
(* moment after EngineGuard has taken the handle away.)  Then what a       *)
(* cancelled engine leaves behind, and what it takes that a failed session *)
(* is tried again.                                                         *)
(***************************************************************************)
EXTENDS VpndProofs

Orderly == Prompt /\ Watchful /\ Calm

Settled == {"stopped", "failed"}
Progress == {"authenticating", "connecting", "connected", "reconnecting"}

(* The status an engine thread has left behind where it is now.            *)
StatusAt(pc) ==
  CASE pc \in {"spawned", "drop", "schedule", "finish"} -> Settled
    [] pc \in {"init", "auth"} -> {"authenticating"}
    [] pc = "connecting" -> {"connecting"}
    [] pc \in {"up", "lost", "paused", "toreconn", "errret", "tostop"} ->
         {"connected", "reconnecting"}
    [] pc \in {"fail", "report", "settlestop", "settlefail"} -> Progress
    [] OTHER -> SessionStates

(* Inductive under Orderly: with one engine thread, the status follows     *)
(* from where that thread is, and it is settled when there is none.        *)
SessionInv ==
  /\ WatchInv
  /\ CalmInv
  /\ \A e \in Runs : Live(e) => state \in StatusAt(epc[e])
  /\ engine = None => state \in Settled

LEMMA SessionInit == Init => SessionInv
BY DEF Init, SessionInv, WatchInv, CalmInv, Live, Settled

(* What an engine thread does to the status, by cases of where it goes.    *)
LEMMA EngineStatus ==
  ASSUME Orderly, TypeOK, PromptInv, SessionInv, NEW e \in Runs, Engine(e)
  PROVE  /\ epc[e] # "free"
         /\ epc'[e] \notin {"unwind", "crashed", "crashsched"}
         /\ epc'[e] # "free" => state' \in StatusAt(epc'[e])
         /\ epc'[e] = "free" => state' \in Settled
         /\ state' # state => <<state, state'>> \in Promise!Edges
<1> USE DEF TypeOK, Step, Live, KeepOthers, inner, SessionInv, WatchInv, CalmInv, StatusAt,
            Settled, Progress, SessionStates, Promise!Edges, Promise!Settled
<1>1. state \in StatusAt(epc[e]) \/ ~Live(e)
  OBVIOUS
<1>2. CASE \/ EngineBegins(e) \/ BadString(e) \/ CookieObtained(e) \/ TunnelUp(e)
  BY <1>1, <1>2
  DEF EngineBegins, BadString, CookieObtained, TunnelUp, Becoming, set_state
<1>3. CASE \/ reconnected_cb(e) \/ GoesReconnecting(e) \/ GoesStopped(e) \/ Settles(e)
  BY <1>1, <1>3
  DEF reconnected_cb, GoesReconnecting, GoesStopped, Settles, Becoming, set_state
<1>4. CASE HealthPanics(e) \/ PanicReported(e) \/ PanicSchedulesRetry(e)
  BY <1>4
  DEF HealthPanics, PanicReported, PanicSchedulesRetry, Becoming, Orderly, Calm
<1>5. CASE \/ StageFails(e) \/ ReconnectTimesOut(e) \/ FreesVpninfo(e)
           \/ MainloopCancelled(e) \/ ChannelDies(e) \/ GatewayDrops(e)
  BY <1>1, <1>5
  DEF StageFails, AuthFails, ReconnectTimesOut, FreesVpninfo, MainloopCancelled, ChannelDies,
      GatewayDrops, Quietly
<1>6. CASE PauseReturned(e) \/ ErrorReturned(e) \/ ReportsError(e)
  BY <1>1, <1>6 DEF PauseReturned, ErrorReturned, ReportsError, Quietly
<1>7. CASE store_cmd_fd(e)
  BY <1>1, <1>7 DEF store_cmd_fd
<1>8. CASE SchedulesRetry(e)
  BY <1>1, <1>8 DEF SchedulesRetry, schedule_engine_retry, RetryPanics, Orderly, Calm
<1>9. CASE EngineFinishes(e)
  BY <1>1, <1>9 DEF EngineFinishes, mark_engine_finished
<1>10. CASE MainloopPaused(e)
  BY <1>1, <1>10 DEF MainloopPaused
<1> QED
  BY <1>2, <1>3, <1>4, <1>5, <1>6, <1>7, <1>8, <1>9, <1>10 DEF Engine, EngineCode, Obeys

(* main() does not hear of what an engine thread does.                     *)
LEMMA EngineMain ==
  ASSUME TypeOK, NEW e \in Runs, Engine(e)
  PROVE  cpc'[Main] = cpc[Main]
<1>1. Main # e
  BY VpndAssumption
<1>2. CASE SchedulesRetry(e) \/ PanicSchedulesRetry(e)
  BY <1>1, <1>2
  DEF SchedulesRetry, PanicSchedulesRetry, schedule_engine_retry, RetryPanics, TypeOK, Callers
<1>3. CASE ~SchedulesRetry(e) /\ ~PanicSchedulesRetry(e)
  BY <1>3
  DEF Engine, EngineCode, Obeys, EngineBegins, BadString, store_cmd_fd, CookieObtained,
      HealthPanics, TunnelUp, StageFails, AuthFails, reconnected_cb, ReconnectTimesOut,
      PauseReturned, GoesReconnecting, ErrorReturned, GoesStopped, FreesVpninfo,
      ReportsError, Settles, EngineFinishes, PanicReported, MainloopPaused,
      MainloopCancelled, ChannelDies, GatewayDrops, Becoming, Quietly, KeepOthers
<1> QED
  BY <1>2, <1>3

LEMMA EngineSession ==
  ASSUME Orderly, TypeOK, PromptInv, SessionInv, NEW e \in Runs, Engine(e)
  PROVE  SessionInv' /\ [Promise!Next]_<<state, engine # None, cpc[Main] = "stopping">>
<1> USE EngineStatus, EngineEffect
<1>1. \A f \in Runs : f # e => ~Live(f) /\ epc'[f] = epc[f]
  BY DEF PromptInv, HandleIsEngine, SessionInv, WatchInv, CalmInv, Live
<1>2. engine = e /\ engine # None
  BY VpndAssumption DEF PromptInv, HandleIsEngine, SessionInv, WatchInv, CalmInv, Live
<1>3. /\ \A t \in Callers : cpc'[t] \notin {"pausing", "writing"}
      /\ \A f \in Runs : epc'[f] \notin {"unwind", "crashed", "crashsched"}
  BY DEF SessionInv, WatchInv, CalmInv
<1>4. \A f \in Runs : Live(f)' => state' \in StatusAt(epc'[f])
  BY <1>1 DEF Live
<1>5. engine' = None => epc'[e] = "free"
  BY <1>2, <1>3 DEF Live
<1>6. engine' = None => state' \in Settled /\ state' = state
  <2>1. CASE EngineFinishes(e)
    BY <1>5, <2>1 DEF EngineFinishes, mark_engine_finished
  <2>2. CASE ~EngineFinishes(e)
    BY <1>2, <1>5, <2>2, VpndAssumption
    DEF Engine, EngineCode, Obeys, EngineBegins, BadString, store_cmd_fd, CookieObtained,
        HealthPanics, TunnelUp, StageFails, AuthFails, reconnected_cb, ReconnectTimesOut,
        PauseReturned, GoesReconnecting, ErrorReturned, GoesStopped, FreesVpninfo,
        ReportsError, Settles, SchedulesRetry, PanicReported, PanicSchedulesRetry,
        MainloopPaused, MainloopCancelled, ChannelDies, GatewayDrops, Becoming, Quietly,
        set_state, schedule_engine_retry, RetryPanics, inner
  <2> QED
    BY <2>1, <2>2
<1>7. SessionInv'
  BY <1>3, <1>4, <1>6 DEF SessionInv, WatchInv, CalmInv, Settled
<1>10. (cpc'[Main] = "stopping") <=> (cpc[Main] = "stopping")
  BY EngineMain
<1>8. ASSUME engine' = None
      PROVE  Promise!Ends
  BY <1>2, <1>6, <1>8, <1>10 DEF Promise!Ends, Promise!Settled, Settled
<1>9. ASSUME engine' # None, state' # state
      PROVE  Promise!Moves
  BY <1>2, <1>9, <1>10 DEF Promise!Moves
<1> QED
  BY <1>2, <1>7, <1>8, <1>9, <1>10 DEF Promise!Next

LEMMA StartSession ==
  ASSUME Orderly, TypeOK, PromptInv, SessionInv, NEW t \in Callers, engine_start(t),
         t = Main => cpc[Main] # "stopping"
  PROVE  SessionInv' /\ [Promise!Next]_<<state, engine # None, cpc[Main] = "stopping">>
<1> USE DEF TypeOK, SessionInv, WatchInv, CalmInv, Live, Return
<1>0. cpc' = [cpc EXCEPT ![t] = "idle"] => (cpc'[Main] = "stopping" <=> cpc[Main] = "stopping")
  BY DEF Callers
<1>1. CASE StartRefused(t)
  BY <1>0, <1>1 DEF StartRefused, inner
<1>2. ASSUME NEW e \in Runs, StartSpawns(t, e)
      PROVE  SessionInv' /\ [Promise!Next]_<<state, engine # None, cpc[Main] = "stopping">>
  <2>1. /\ engine = None /\ engine' = e /\ state' = state
        /\ epc' = [epc EXCEPT ![e] = "spawned"]
        /\ cpc' = [cpc EXCEPT ![t] = "idle"]
    BY <1>2 DEF StartSpawns, Orderly, Prompt
  <2>2. state \in Settled /\ \A f \in Runs : ~Live(f)
    BY <2>1, VpndAssumption DEF PromptInv, HandleIsEngine
  <2>3. SessionInv'
    BY <2>1, <2>2, VpndAssumption DEF StatusAt
  <2>4. Promise!Begins
    BY <1>0, <2>1, VpndAssumption DEF Promise!Begins
  <2> QED
    BY <2>3, <2>4 DEF Promise!Next
<1>3. CASE StartSpawnFails(t)
  BY <1>0, <1>3 DEF StartSpawnFails
<1> QED
  BY <1>1, <1>2, <1>3 DEF engine_start

(* Steps that leave status and engines alone: main() may stop serving.     *)
LEMMA BystanderSession ==
  ASSUME SessionInv, UNCHANGED <<state, engine, epc>>,
         cpc[Main] = "stopping" => cpc'[Main] = "stopping",
         \A t \in Callers : cpc'[t] \in {cpc[t]} \cup (CallerPcs \ {"pausing", "writing"})
  PROVE  SessionInv' /\ [Promise!Next]_<<state, engine # None, cpc[Main] = "stopping">>
<1>1. \A t \in Callers : cpc'[t] \notin {"pausing", "writing"}
  BY DEF SessionInv, WatchInv, CalmInv, CallerPcs
<1>2. \A e \in Runs : /\ epc'[e] = epc[e]
                      /\ StatusAt(epc'[e]) = StatusAt(epc[e])
                      /\ Live(e)' <=> Live(e)
  BY DEF Live
<1>3. Settled' = Settled
  BY DEF Settled
<1>4. SessionInv'
  BY <1>1, <1>2, <1>3 DEF SessionInv, WatchInv, CalmInv
<1>5. cpc[Main] # "stopping" /\ cpc'[Main] = "stopping" => Promise!Leaves
  BY DEF Promise!Leaves
<1> QED
  BY <1>4, <1>5 DEF Promise!Next

LEMMA CallerSession ==
  ASSUME Orderly, TypeOK, PromptInv, SessionInv,
         \/ \E r \in Runs : RetryCode(r)
         \/ \E c \in Clients : Client(c)
         \/ \E t \in Callers : set_engine(t)
         \/ Watcher \/ Boots \/ Shutdown \/ Exits \/ NetworkFlips
  PROVE  SessionInv' /\ [Promise!Next]_<<state, engine # None, cpc[Main] = "stopping">>
<1> USE DEF Callers, CallerPcs, inner, threads, Return
<1>1. ASSUME NEW t \in Callers, engine_start(t), t = Main => cpc[Main] # "stopping"
      PROVE  SessionInv' /\ [Promise!Next]_<<state, engine # None, cpc[Main] = "stopping">>
  BY <1>1, StartSession
<1>2. ASSUME NEW r \in Runs, RetryCode(r), ~engine_start(r)
      PROVE  SessionInv' /\ [Promise!Next]_<<state, engine # None, cpc[Main] = "stopping">>
  BY <1>2, BystanderSession DEF RetryCode, RetryWakes, RetryProbes, TypeOK
<1>3. ASSUME NEW c \in Clients, Client(c), ~engine_start(c)
      PROVE  SessionInv' /\ [Promise!Next]_<<state, engine # None, cpc[Main] = "stopping">>
  BY <1>3, BystanderSession
  DEF Client, ClientStarts, ClientStops, ClientRestarts, RestartWaits, RestartStarts,
      request_stop, TypeOK
<1>4. ASSUME NEW t \in Callers, set_engine(t)
      PROVE  FALSE
  BY <1>4 DEF set_engine, PromptInv
<1>5. CASE NetworkIgnored \/ NetworkRestarts \/ NetworkFlips
  BY <1>5, BystanderSession DEF NetworkIgnored, NetworkRestarts, NetworkFlips, TypeOK
<1>6. CASE NetworkPauses
  <2>1. /\ state \in {"connected", "reconnecting"} /\ state' = "reconnecting"
        /\ UNCHANGED <<engine, epc, cpc>>
    BY <1>6 DEF NetworkPauses, set_state, Orderly, Watchful
  <2>2. engine # None
    BY <2>1 DEF SessionInv, WatchInv, CalmInv, Settled
  <2>3. SessionInv'
    BY <2>1, <2>2
    DEF SessionInv, WatchInv, CalmInv, Live, StatusAt, Settled, Progress, SessionStates, TypeOK
  <2>4. state' # state => Promise!Moves
    BY <2>1, <2>2 DEF Promise!Moves, Promise!Edges
  <2> QED
    BY <2>1, <2>3, <2>4 DEF Promise!Next
<1>7. CASE PauseSetsState \/ PauseWrites
  BY <1>7 DEF PauseSetsState, PauseWrites, SessionInv, WatchInv, CalmInv
<1>8. CASE RestartAfterFailure
  BY <1>1, <1>8, VpndAssumption DEF RestartAfterFailure
<1>9. CASE Boots
  BY <1>1, <1>9, BystanderSession DEF Boots, TypeOK
<1>10. CASE Shutdown
  BY <1>10, BystanderSession DEF Shutdown, request_stop, TypeOK
<1>11. CASE Exits
  <2>1. SessionInv'
    BY <1>11 DEF Exits, SessionInv, WatchInv, CalmInv, Live, Settled
  <2>2. Promise!Respawns
    BY <1>11 DEF Exits, Promise!Respawns
  <2> QED
    BY <2>1, <2>2 DEF Promise!Next
<1>12. ASSUME NEW t \in Runs \cup Clients, engine_start(t)
       PROVE  SessionInv' /\ [Promise!Next]_<<state, engine # None, cpc[Main] = "stopping">>
  BY <1>1, <1>12, VpndAssumption
<1> QED
  BY <1>2, <1>3, <1>4, <1>5, <1>6, <1>7, <1>8, <1>9, <1>10, <1>11, <1>12
  DEF Watcher, WatcherCode

LEMMA SessionStep ==
  ASSUME Orderly, TypeOK, PromptInv, SessionInv, [Next]_vars
  PROVE  SessionInv' /\ [Promise!Next]_<<state, engine # None, cpc[Main] = "stopping">>
<1>1. CASE UNCHANGED vars
  BY <1>1, BystanderSession DEF vars, inner, threads
<1>2. CASE Next
  BY <1>2, EngineSession, CallerSession DEF Next
<1> QED
  BY <1>1, <1>2

LEMMA SessionAlways ==
  ASSUME Orderly
  PROVE  Spec => []SessionInv
<1>1. Init => SessionInv
  BY SessionInit
<1>2. TypeOK /\ PromptInv /\ SessionInv /\ [Next]_vars => SessionInv'
  BY SessionStep
<1>3. Prompt
  BY DEF Orderly
<1>4. Spec => []PromptInv
  BY <1>3, PromptAlways
<1> QED
  BY <1>1, <1>2, <1>4, TypeCorrect, PTL DEF Spec

(* The daemon's status and engine behave as module Session promises its    *)
(* clients: every step is a step of Session or leaves them alone.          *)
THEOREM KeepsPromise ==
  ASSUME Orderly
  PROVE  Spec => ImplementsSession
<1>1. Init => Promise!Init
  BY DEF Init, Promise!Init, Callers
<1>2. TypeOK /\ PromptInv /\ SessionInv /\ [Next]_vars
        => [Promise!Next]_<<state, engine # None, cpc[Main] = "stopping">>
  BY SessionStep
<1>3. Prompt
  BY DEF Orderly
<1>4. Spec => []PromptInv
  BY <1>3, PromptAlways
<1> QED
  BY <1>1, <1>2, <1>4, TypeCorrect, SessionAlways, PTL DEF Spec, ImplementsSession, Promise!Spec

-----------------------------------------------------------------------------
(* Inductive under Orderly: the pipe is empty until Inner.cmd_fd names it, *)
(* an engine that frees its vpninfo after a stop has said Stopped, and one *)
(* whose pipe took a CANCEL never says Failed on its way out.              *)
CancelledInv ==
  \A e \in Runs :
    /\ epc[e] \in {"spawned", "init"} => cmds[e] = {}
    /\ epc[e] = "drop" => state = "stopped"
    /\ "x" \in cmds[e] => /\ epc[e] \notin {"settlefail", "schedule"}
                          /\ epc[e] = "finish" => state = "stopped"

LEMMA EngineCancelled ==
  ASSUME Calm, TypeOK, PromptInv, CalmInv, CancelledInv, NEW e \in Runs, Engine(e)
  PROVE  CancelledInv'
<1>1. \A f \in Runs : f # e => epc[f] = "free" /\ epc'[f] = "free"
  BY EngineEffect DEF PromptInv, HandleIsEngine, CalmInv, Live
<1>2. cmds'[e] \subseteq cmds[e]
  BY EngineEffect
<1>3. "x" \in cmds[e] => stopRequested
  BY EngineEffect DEF PromptInv, CancelSticks, CalmInv, Live
<1>4. SUFFICES /\ epc'[e] \in {"spawned", "init"} => cmds'[e] = {}
               /\ epc'[e] = "drop" => state' = "stopped"
               /\ "x" \in cmds'[e] => /\ epc'[e] \notin {"settlefail", "schedule"}
                                      /\ epc'[e] = "finish" => state' = "stopped"
  BY <1>1 DEF CancelledInv
<1> USE DEF TypeOK, Step, KeepOthers, inner, CancelledInv
<1>5. CASE \/ EngineBegins(e) \/ BadString(e) \/ CookieObtained(e) \/ TunnelUp(e)
           \/ reconnected_cb(e) \/ GoesReconnecting(e) \/ GoesStopped(e) \/ Settles(e)
  BY <1>2, <1>5
  DEF EngineBegins, BadString, CookieObtained, TunnelUp, reconnected_cb, GoesReconnecting,
      GoesStopped, Settles, Becoming, set_state
<1>6. CASE \/ StageFails(e) \/ ReconnectTimesOut(e) \/ FreesVpninfo(e)
           \/ MainloopCancelled(e) \/ ChannelDies(e) \/ GatewayDrops(e)
           \/ PauseReturned(e) \/ ErrorReturned(e)
  BY <1>2, <1>6
  DEF StageFails, AuthFails, ReconnectTimesOut, FreesVpninfo, MainloopCancelled, ChannelDies,
      GatewayDrops, PauseReturned, ErrorReturned, Quietly
<1>7. CASE ReportsError(e)
  BY <1>2, <1>3, <1>7 DEF ReportsError, Quietly
<1>8. CASE store_cmd_fd(e) \/ EngineFinishes(e) \/ MainloopPaused(e)
  BY <1>2, <1>8 DEF store_cmd_fd, EngineFinishes, MainloopPaused, CalmInv
<1>9. CASE SchedulesRetry(e)
  BY <1>2, <1>9 DEF SchedulesRetry, RetryPanics, Calm
<1>10. CASE HealthPanics(e) \/ PanicReported(e) \/ PanicSchedulesRetry(e)
  BY <1>10 DEF HealthPanics, PanicReported, PanicSchedulesRetry, Becoming, CalmInv, Calm
<1> QED
  BY <1>5, <1>6, <1>7, <1>8, <1>9, <1>10 DEF Engine, EngineCode, Obeys

(* What a byte written to a descriptor does to a pipe.                     *)
LEMMA SendOpen ==
  ASSUME TypeOK, NEW fd, NEW byte, Send(fd, byte)
  PROVE  \A f \in Runs : cmds'[f] = cmds[f] \/ PipeOpen(f)
BY DEF TypeOK, Send

LEMMA BystanderCancelled ==
  ASSUME CancelledInv, UNCHANGED epc,
         state = "stopped" => state' = "stopped",
         \A f \in Runs : cmds'[f] = cmds[f] \/ PipeOpen(f)
  PROVE  CancelledInv'
BY DEF CancelledInv, PipeOpen

LEMMA StartCancelled ==
  ASSUME TypeOK, CancelledInv, NEW t \in Callers, engine_start(t)
  PROVE  CancelledInv'
<1> USE DEF TypeOK, CancelledInv
<1>1. CASE StartRefused(t) \/ StartSpawnFails(t)
  BY <1>1 DEF StartRefused, StartSpawnFails, inner
<1>2. ASSUME NEW e \in Runs, StartSpawns(t, e)
      PROVE  CancelledInv'
  BY <1>2 DEF StartSpawns
<1> QED
  BY <1>1, <1>2 DEF engine_start

LEMMA CallerCancelled ==
  ASSUME Watchful, TypeOK, WatchInv, CancelledInv,
         \/ \E r \in Runs : RetryCode(r)
         \/ \E c \in Clients : Client(c)
         \/ \E t \in Callers : set_engine(t)
         \/ Watcher \/ Boots \/ Shutdown \/ Exits \/ NetworkFlips
  PROVE  CancelledInv'
<1> USE DEF Callers, inner, threads
<1>1. ASSUME NEW t \in Callers, engine_start(t)
      PROVE  CancelledInv'
  BY <1>1, StartCancelled
<1>2. ASSUME NEW r \in Runs, RetryCode(r), ~engine_start(r)
      PROVE  CancelledInv'
  BY <1>2, BystanderCancelled DEF RetryCode, RetryWakes, RetryProbes
<1>3. ASSUME request_stop, UNCHANGED <<state, epc>>
      PROVE  CancelledInv'
  BY <1>3, SendOpen, BystanderCancelled DEF request_stop
<1>4. ASSUME NEW c \in Clients, Client(c), ~engine_start(c)
      PROVE  CancelledInv'
  BY <1>3, <1>4, BystanderCancelled
  DEF Client, ClientStarts, ClientStops, ClientRestarts, RestartWaits, RestartStarts
<1>5. ASSUME NEW t \in Callers, set_engine(t)
      PROVE  CancelledInv'
  BY <1>5, BystanderCancelled DEF set_engine
<1>6. CASE NetworkIgnored \/ NetworkRestarts \/ NetworkFlips
  BY <1>6, BystanderCancelled DEF NetworkIgnored, NetworkRestarts, NetworkFlips
<1>7. CASE NetworkPauses
  BY <1>7, SendOpen, BystanderCancelled DEF NetworkPauses, Watchful, set_state
<1>8. CASE PauseSetsState \/ PauseWrites
  BY <1>8 DEF PauseSetsState, PauseWrites, WatchInv
<1>9. CASE RestartAfterFailure
  BY <1>1, <1>9 DEF RestartAfterFailure
<1>10. CASE Boots /\ ~engine_start(Main)
  BY <1>10, BystanderCancelled DEF Boots
<1>11. CASE Shutdown
  BY <1>3, <1>11 DEF Shutdown
<1>12. CASE Exits
  BY <1>12 DEF Exits, CancelledInv
<1> QED
  BY <1>1, <1>2, <1>4, <1>5, <1>6, <1>7, <1>8, <1>9, <1>10, <1>11, <1>12
  DEF Watcher, WatcherCode, Boots

(* Whatever an engine is doing when CANCEL reaches its pipe, it leaves the *)
(* status Stopped behind.                                                  *)
THEOREM CancelAlwaysEndsStopped ==
  ASSUME Orderly
  PROVE  Spec => CancelEndsStopped
<1> DEFINE Final == \A e \in Runs : "x" \in cmds[e] /\ Live(e) /\ ~Live(e)' => state' = "stopped"
           All == TypeOK /\ PromptInv /\ WatchInv /\ CalmInv
<1>1. Init => CancelledInv
  BY DEF Init, CancelledInv
<1>2. ASSUME All, CancelledInv, [Next]_vars
      PROVE  CancelledInv'
  <2>1. CASE UNCHANGED vars
    BY <1>2, <2>1, BystanderCancelled DEF vars, inner, threads
  <2>2. CASE Next
    BY <1>2, <2>2, EngineCancelled, CallerCancelled DEF Next, Orderly
  <2> QED
    BY <1>2, <2>1, <2>2
<1>3. ASSUME All, CancelledInv, [Next]_vars
      PROVE  [Final]_vars
  <2> SUFFICES ASSUME NEW e \in Runs, "x" \in cmds[e], Live(e), ~Live(e)', state' # "stopped"
               PROVE  FALSE
    OBVIOUS
  <2>1. ASSUME NEW f \in Runs, Engine(f)
        PROVE  FALSE
    <3>1. f = e /\ engine' = None /\ engine # None
      BY <1>3, <2>1, EngineEffect, VpndAssumption DEF Live, PromptInv, HandleIsEngine
    <3>2. CASE EngineFinishes(e)
      BY <1>3, <3>2 DEF EngineFinishes, mark_engine_finished, Step, CancelledInv, CalmInv
    <3>3. CASE ~EngineFinishes(e)
      BY <2>1, <3>1, <3>3
      DEF Engine, EngineCode, Obeys, EngineBegins, BadString, store_cmd_fd, CookieObtained,
          HealthPanics, TunnelUp, StageFails, AuthFails, reconnected_cb, ReconnectTimesOut,
          PauseReturned, GoesReconnecting, ErrorReturned, GoesStopped, FreesVpninfo,
          ReportsError, Settles, SchedulesRetry, PanicReported, PanicSchedulesRetry,
          MainloopPaused, MainloopCancelled, ChannelDies, GatewayDrops, Becoming, Quietly,
          set_state, schedule_engine_retry, RetryPanics, inner
    <3> QED
      BY <3>2, <3>3
  <2>2. CASE \/ \E r \in Runs : RetryCode(r)
             \/ \E c \in Clients : Client(c)
             \/ \E t \in Callers : set_engine(t)
             \/ Watcher \/ Boots \/ Shutdown \/ Exits \/ NetworkFlips
    BY <1>3, <2>2, CallerEffect DEF Live
  <2> QED
    BY <1>3, <2>1, <2>2 DEF Next, vars, threads, Live
<1>4. All /\ CancelledInv /\ [Next]_vars => CancelledInv' /\ [Final]_vars
  BY <1>2, <1>3
<1>5. Init => WatchInv
  BY DEF Init, WatchInv
<1>6. TypeOK /\ WatchInv /\ [Next]_vars => WatchInv'
  BY WatchStep DEF Orderly
<1>7. Spec => []PromptInv /\ []CalmInv
  BY PromptAlways, CalmAlways DEF Orderly
<1> QED
  BY <1>1, <1>4, <1>5, <1>6, <1>7, TypeCorrect, PTL DEF Spec, CancelEndsStopped

-----------------------------------------------------------------------------
(* A failed session keeps a retry thread, however late the watcher acts,   *)
(* if an engine gives up its handle before its retry thread has slept,     *)
(* threads can be spawned and the configuration holds no NUL byte.         *)
Retrying ==
  /\ Prompt /\ Calm
  /\ "finish" \notin Stalls
  /\ "spawn" \notin Faults /\ "nul" \notin Faults

(* Inductive under Retrying: the engine that failed has yet to schedule    *)
(* its retry, or has yet to give up its handle to it, or the retry thread  *)
(* is on its way; or else another engine has been started.                 *)
RetryInv ==
  state = "failed" /\ ~stopRequested
    => \/ engine # None /\ epc[engine] \in {"spawned", "schedule"}
       \/ retryOwner \in Runs /\ engine = None /\ cpc[retryOwner] \in {"sleeping", "probing"}
       \/ /\ retryOwner \in Runs /\ engine = retryOwner
          /\ epc[retryOwner] = "finish" /\ cpc[retryOwner] = "sleeping"

LEMMA EngineRetry ==
  ASSUME Retrying, TypeOK, PromptInv, CalmInv, RetryInv, NEW e \in Runs, Engine(e)
  PROVE  RetryInv'
<1>1. engine = e /\ engine # None
  BY EngineEffect, VpndAssumption DEF PromptInv, HandleIsEngine, CalmInv, Live
<1>2. stopRequested' = stopRequested
  BY EngineEffect
<1>3. state = "failed" /\ ~stopRequested
        => epc[e] \in {"spawned", "schedule"} \/ (epc[e] = "finish" /\ retryOwner = e)
  BY <1>1 DEF RetryInv
<1> USE DEF Step, KeepOthers, TypeOK
<1>4. CASE EngineBegins(e)
  BY <1>4 DEF EngineBegins, Becoming, set_state, RetryInv
<1>5. CASE SchedulesRetry(e)
  <2>1. ~stopRequested => /\ retryOwner' = e /\ engine' = e
                          /\ epc'[e] = "finish" /\ cpc'[e] = "sleeping"
    BY <1>1, <1>5 DEF SchedulesRetry, schedule_engine_retry, RetryPanics, Callers, Retrying, Calm
  <2> QED
    BY <1>2, <2>1 DEF RetryInv
<1>6. CASE EngineFinishes(e)
  <2>1. /\ epc[e] = "finish" /\ engine' = None /\ state' = state
        /\ retryOwner' = retryOwner /\ cpc' = cpc
    BY <1>6 DEF EngineFinishes, mark_engine_finished, CalmInv
  <2> QED
    BY <1>1, <1>2, <2>1 DEF RetryInv
<1>7. CASE Settles(e)
  BY <1>1, <1>2, <1>3, <1>7 DEF Settles, Becoming, set_state, RetryInv
<1>8. CASE BadString(e) \/ HealthPanics(e) \/ PanicReported(e) \/ PanicSchedulesRetry(e)
  BY <1>8
  DEF BadString, HealthPanics, PanicReported, PanicSchedulesRetry, Becoming, CalmInv,
      Retrying, Calm
<1>9. CASE \/ CookieObtained(e) \/ TunnelUp(e) \/ reconnected_cb(e) \/ GoesReconnecting(e)
           \/ GoesStopped(e)
  BY <1>9
  DEF CookieObtained, TunnelUp, reconnected_cb, GoesReconnecting, GoesStopped, Becoming,
      set_state, RetryInv
<1>10. CASE \/ StageFails(e) \/ ReconnectTimesOut(e) \/ FreesVpninfo(e) \/ store_cmd_fd(e)
            \/ MainloopPaused(e) \/ MainloopCancelled(e) \/ ChannelDies(e) \/ GatewayDrops(e)
            \/ PauseReturned(e) \/ ErrorReturned(e) \/ ReportsError(e)
  <2>1. state' = state /\ epc[e] \notin {"spawned", "schedule", "finish"}
    BY <1>10
    DEF StageFails, AuthFails, ReconnectTimesOut, FreesVpninfo, store_cmd_fd, MainloopPaused,
        MainloopCancelled, ChannelDies, GatewayDrops, PauseReturned, ErrorReturned,
        ReportsError, Quietly, inner
  <2> QED
    BY <1>2, <1>3, <2>1 DEF RetryInv
<1> QED
  BY <1>4, <1>5, <1>6, <1>7, <1>8, <1>9, <1>10 DEF Engine, EngineCode, Obeys

LEMMA StartRetry ==
  ASSUME Retrying, TypeOK, RetryInv, NEW t \in Callers, cpc[t] # "sleeping", engine_start(t)
  PROVE  RetryInv'
<1> USE DEF TypeOK, RetryInv, Return, Callers
<1>1. CASE StartRefused(t)
  BY <1>1 DEF StartRefused, inner
<1>2. ASSUME NEW e \in Runs, StartSpawns(t, e)
      PROVE  RetryInv'
  BY <1>2, VpndAssumption DEF StartSpawns, Retrying, Prompt
<1>3. CASE StartSpawnFails(t)
  BY <1>3 DEF StartSpawnFails, Retrying
<1> QED
  BY <1>1, <1>2, <1>3 DEF engine_start

(* Steps that leave status, engines and retry threads alone.               *)
LEMMA BystanderRetry ==
  ASSUME RetryInv, UNCHANGED <<state, engine, retryOwner, epc>>,
         stopRequested => stopRequested',
         \A r \in Runs : cpc'[r] = cpc[r]
  PROVE  RetryInv'
BY DEF RetryInv

LEMMA RetryThreadRetry ==
  ASSUME Retrying, TypeOK, RetryInv, NEW r \in Runs, RetryCode(r)
  PROVE  RetryInv'
<1> USE DEF TypeOK, Callers
<1>1. CASE RetryWakes(r)
  BY <1>1 DEF RetryWakes, RetryInv, Retrying, Return, inner
<1>2. CASE RetryProbes(r) /\ engine_start(r)
  BY <1>2, StartRetry DEF RetryProbes
<1>3. CASE RetryProbes(r) /\ ~engine_start(r)
  BY <1>3 DEF RetryProbes, RetryInv, inner
<1> QED
  BY <1>1, <1>2, <1>3 DEF RetryCode

LEMMA CallerRetry ==
  ASSUME Retrying, TypeOK, PromptInv, RetryInv,
         \/ \E c \in Clients : Client(c)
         \/ \E t \in Callers : set_engine(t)
         \/ Watcher \/ Boots \/ Shutdown \/ Exits \/ NetworkFlips
  PROVE  RetryInv'
<1> USE VpndAssumption DEF Callers, inner, threads, Return, TypeOK
<1>1. ASSUME NEW c \in Clients, ClientStarts(c) \/ RestartStarts(c)
      PROVE  RetryInv'
  <2>1. cpc[c] # "sleeping"
    BY <1>1 DEF ClientStarts, RestartStarts
  <2>2. CASE engine_start(c)
    BY <2>1, <2>2, StartRetry
  <2>3. CASE ~engine_start(c)
    BY <1>1, <2>3, BystanderRetry DEF ClientStarts, RestartStarts
  <2> QED
    BY <2>2, <2>3
<1>2. ASSUME NEW c \in Clients, ClientStops(c) \/ ClientRestarts(c) \/ RestartWaits(c)
      PROVE  RetryInv'
  BY <1>2, BystanderRetry DEF ClientStops, ClientRestarts, RestartWaits, request_stop
<1>3. ASSUME NEW t \in Callers, set_engine(t)
      PROVE  RetryInv'
  BY <1>3 DEF set_engine, PromptInv
<1>4. CASE NetworkIgnored \/ NetworkRestarts \/ NetworkFlips \/ PauseWrites
  BY <1>4, BystanderRetry DEF NetworkIgnored, NetworkRestarts, NetworkFlips, PauseWrites
<1>5. CASE NetworkPauses \/ PauseSetsState
  BY <1>5 DEF NetworkPauses, PauseSetsState, set_state, RetryInv
<1>6. CASE RestartAfterFailure
  BY <1>6, StartRetry DEF RestartAfterFailure
<1>7. CASE Boots
  <2>1. CASE engine_start(Main)
    BY <1>7, <2>1, StartRetry DEF Boots
  <2>2. CASE ~engine_start(Main)
    BY <1>7, <2>2, BystanderRetry DEF Boots
  <2> QED
    BY <2>1, <2>2
<1>8. CASE Shutdown
  BY <1>8, BystanderRetry DEF Shutdown, request_stop
<1>9. CASE Exits
  BY <1>9 DEF Exits, RetryInv
<1> QED
  BY <1>1, <1>2, <1>3, <1>4, <1>5, <1>6, <1>7, <1>8, <1>9
  DEF Watcher, WatcherCode, Client

LEMMA RetryStep ==
  ASSUME Retrying, TypeOK, PromptInv, CalmInv, RetryInv, [Next]_vars
  PROVE  RetryInv'
<1>1. CASE UNCHANGED vars
  BY <1>1, BystanderRetry DEF vars, inner, threads
<1>2. CASE Next
  BY <1>2, EngineRetry, RetryThreadRetry, CallerRetry DEF Next
<1> QED
  BY <1>1, <1>2

(* A failed session whose stop nobody asked for has a retry thread of the  *)
(* present generation on its way.                                          *)
THEOREM FailedAlwaysRetried ==
  ASSUME Retrying
  PROVE  Spec => []FailedHasRetry
<1>1. Init => RetryInv
  BY DEF Init, RetryInv
<1>2. TypeOK /\ PromptInv /\ CalmInv /\ RetryInv /\ [Next]_vars => RetryInv'
  BY RetryStep
<1>3. TypeOK /\ RetryInv => FailedHasRetry
  BY DEF RetryInv, FailedHasRetry
<1>4. Prompt /\ Calm
  BY DEF Retrying
<1>5. Spec => []PromptInv
  BY <1>4, PromptAlways
<1>6. Spec => []CalmInv
  BY <1>4, CalmAlways
<1> QED
  BY <1>1, <1>2, <1>3, <1>5, <1>6, TypeCorrect, PTL DEF Spec
=============================================================================
