----------------------------- MODULE VpndProofs -----------------------------
(***************************************************************************)
(* What module Vpnd guarantees for any number of runs and clients.  First  *)
(* with every window of Stalls open and every fault possible; then for a   *)
(* daemon whose engine_start stores an engine's handle before any other    *)
(* thread looks for it; last, what else it takes that Reconnecting has an  *)
(* engine and that a cancelled engine leaves no retry.                     *)
(***************************************************************************)
EXTENDS Vpnd, TLAPS

-----------------------------------------------------------------------------
(* Types.                                                                  *)

(* A step of an engine thread moves one entry of epc.                      *)
LEMMA StepTypes ==
  ASSUME TypeOK, NEW e \in Runs, NEW from, NEW to \in EnginePcs, Step(e, from, to)
  PROVE  epc' \in [Runs -> EnginePcs]
BY DEF TypeOK, Step

(* A step that sets the status, or leaves Inner alone, keeps the types.    *)
LEMMA BecomingTypes ==
  ASSUME TypeOK, NEW e \in Runs, NEW s \in SessionStates, NEW from,
         NEW to \in EnginePcs, Becoming(s, e, from, to)
  PROVE  TypeOK'
<1>1. epc' \in [Runs -> EnginePcs]
  BY StepTypes DEF Becoming
<1> QED
  BY <1>1 DEF TypeOK, Becoming, set_state, KeepOthers

LEMMA QuietlyTypes ==
  ASSUME TypeOK, NEW e \in Runs, NEW from, NEW to \in EnginePcs, Quietly(e, from, to)
  PROVE  TypeOK'
<1>1. epc' \in [Runs -> EnginePcs]
  BY StepTypes DEF Quietly
<1> QED
  BY <1>1 DEF TypeOK, Quietly, inner, KeepOthers

(* A byte written to a descriptor lands in a pipe or nowhere.              *)
LEMMA SendTypes ==
  ASSUME TypeOK, NEW fd \in Runs, NEW byte \in {"x", "p"}, Send(fd, byte)
  PROVE  cmds' \in [Runs -> SUBSET {"x", "p"}]
BY DEF TypeOK, Send

LEMMA StopTypes ==
  ASSUME TypeOK, request_stop
  PROVE  /\ stopRequested' \in BOOLEAN
         /\ cmds' \in [Runs -> SUBSET {"x", "p"}]
<1>1. CASE cmdFd # None
  <2>1. cmdFd \in Runs /\ Send(cmdFd, "x")
    BY <1>1 DEF TypeOK, request_stop
  <2> QED
    BY <2>1, SendTypes DEF request_stop
<1>2. CASE cmdFd = None
  BY <1>2 DEF TypeOK, request_stop
<1> QED
  BY <1>1, <1>2

LEMMA StartTypes ==
  ASSUME TypeOK, NEW t \in Callers, engine_start(t), UNCHANGED <<netUp, netEvents>>
  PROVE  TypeOK'
<1>1. CASE StartRefused(t)
  BY <1>1 DEF TypeOK, StartRefused, Return, CallerPcs, inner
<1>2. ASSUME NEW e \in Runs, StartSpawns(t, e)
      PROVE  TypeOK'
  <2>1. epc' \in [Runs -> EnginePcs] /\ cmds' \in [Runs -> SUBSET {"x", "p"}]
    BY <1>2 DEF TypeOK, StartSpawns, EnginePcs
  <2>2. cpc' \in [Callers -> CallerPcs] /\ slot' \in [Callers -> Runs \cup {None}]
    BY <1>2 DEF TypeOK, StartSpawns, Return, CallerPcs
  <2> QED
    BY <1>2, <2>1, <2>2 DEF TypeOK, StartSpawns
<1>3. CASE StartSpawnFails(t)
  BY <1>3 DEF TypeOK, StartSpawnFails, Return, CallerPcs
<1> QED
  BY <1>1, <1>2, <1>3 DEF engine_start

LEMMA TypeInit == Init => TypeOK
<1> SUFFICES ASSUME Init
             PROVE  TypeOK
  OBVIOUS
<1>1. epc \in [Runs -> EnginePcs] /\ cmds \in [Runs -> SUBSET {"x", "p"}]
  BY DEF Init, EnginePcs
<1>2. cpc \in [Callers -> CallerPcs] /\ slot \in [Callers -> Runs \cup {None}]
  BY DEF Init, CallerPcs
<1>3. netEvents \in 0..MaxNetEvents
  BY VpndAssumption DEF Init
<1> QED
  BY <1>1, <1>2, <1>3 DEF Init, TypeOK, SessionStates

LEMMA EngineTypes ==
  ASSUME TypeOK, NEW e \in Runs, Engine(e)
  PROVE  TypeOK'
<1> USE DEF SessionStates, EnginePcs
<1>1. CASE EngineBegins(e)
  BY <1>1, BecomingTypes DEF EngineBegins
<1>2. CASE BadString(e)
  BY <1>2, BecomingTypes DEF BadString
<1>3. CASE store_cmd_fd(e)
  BY <1>3, StepTypes DEF store_cmd_fd, KeepOthers, TypeOK
<1>4. CASE CookieObtained(e)
  BY <1>4, BecomingTypes DEF CookieObtained
<1>5. CASE HealthPanics(e)
  BY <1>5, QuietlyTypes DEF HealthPanics
<1>6. CASE TunnelUp(e)
  BY <1>6, BecomingTypes DEF TunnelUp
<1>7. CASE StageFails(e)
  BY <1>7, QuietlyTypes DEF StageFails, AuthFails
<1>8. CASE reconnected_cb(e)
  BY <1>8, BecomingTypes DEF reconnected_cb
<1>9. CASE ReconnectTimesOut(e)
  BY <1>9, QuietlyTypes DEF ReconnectTimesOut
<1>10. CASE PauseReturned(e)
  BY <1>10, QuietlyTypes DEF PauseReturned
<1>11. CASE GoesReconnecting(e)
  BY <1>11, BecomingTypes DEF GoesReconnecting
<1>12. CASE ErrorReturned(e)
  BY <1>12, QuietlyTypes DEF ErrorReturned
<1>13. CASE GoesStopped(e)
  BY <1>13, BecomingTypes DEF GoesStopped
<1>14. CASE FreesVpninfo(e)
  BY <1>14, QuietlyTypes DEF FreesVpninfo
<1>15. CASE ReportsError(e)
  BY <1>15, QuietlyTypes DEF ReportsError
<1>16. CASE Settles(e)
  BY <1>16, BecomingTypes DEF Settles
<1>17. CASE SchedulesRetry(e)
  BY <1>17, StepTypes DEF SchedulesRetry, schedule_engine_retry, RetryPanics, TypeOK, Callers, CallerPcs
<1>18. CASE EngineFinishes(e)
  BY <1>18, StepTypes DEF EngineFinishes, mark_engine_finished, KeepOthers, TypeOK
<1>19. CASE PanicReported(e)
  BY <1>19, BecomingTypes DEF PanicReported
<1>20. CASE PanicSchedulesRetry(e)
  BY <1>20, StepTypes
  DEF PanicSchedulesRetry, schedule_engine_retry, RetryPanics, TypeOK, Callers, CallerPcs
<1>21. CASE MainloopPaused(e)
  <2>1. epc' \in [Runs -> EnginePcs]
    BY <1>21, StepTypes DEF MainloopPaused
  <2> QED
    BY <1>21, <2>1 DEF MainloopPaused, TypeOK, inner
<1>22. CASE MainloopCancelled(e)
  BY <1>22, QuietlyTypes DEF MainloopCancelled
<1>23. CASE ChannelDies(e)
  BY <1>23, QuietlyTypes DEF ChannelDies
<1>24. CASE GatewayDrops(e)
  BY <1>24, QuietlyTypes DEF GatewayDrops
<1> QED
  BY <1>1, <1>2, <1>3, <1>4, <1>5, <1>6, <1>7, <1>8, <1>9, <1>10, <1>11, <1>12, <1>13,
     <1>14, <1>15, <1>16, <1>17, <1>18, <1>19, <1>20, <1>21, <1>22, <1>23, <1>24
  DEF Engine, EngineCode, Obeys

(* The callers of engine_start, one step per operation.                    *)
LEMMA CallerTypes ==
  ASSUME TypeOK,
         \/ \E r \in Runs : RetryCode(r)
         \/ \E c \in Clients : Client(c)
         \/ \E t \in Callers : set_engine(t)
         \/ Watcher \/ Boots \/ Shutdown \/ Exits \/ NetworkFlips
  PROVE  TypeOK'
<1> USE DEF Callers, CallerPcs, inner, threads
<1>1. ASSUME NEW r \in Runs, RetryCode(r)
      PROVE  TypeOK'
  <2>1. CASE RetryWakes(r)
    BY <2>1 DEF RetryWakes, Return, TypeOK
  <2>2. CASE ~netUp /\ RetryProbes(r)
    BY <2>2 DEF RetryProbes, TypeOK
  <2>3. CASE netUp /\ RetryProbes(r)
    BY <2>3, StartTypes DEF RetryProbes
  <2> QED
    BY <1>1, <2>1, <2>2, <2>3 DEF RetryCode
<1>2. ASSUME NEW c \in Clients, Client(c)
      PROVE  TypeOK'
  <2>1. CASE ClientStarts(c)
    BY <2>1, StartTypes DEF ClientStarts
  <2>2. CASE ClientStops(c)
    BY <2>2, StopTypes DEF ClientStops, TypeOK
  <2>3. CASE ClientRestarts(c)
    BY <2>3, StopTypes DEF ClientRestarts, TypeOK
  <2>4. CASE RestartWaits(c)
    BY <2>4 DEF RestartWaits, Return, TypeOK
  <2>5. CASE RestartStarts(c)
    <3>1. CASE engine_start(c)
      BY <2>5, <3>1, StartTypes DEF RestartStarts
    <3>2. CASE ~engine_start(c)
      BY <2>5, <3>2 DEF RestartStarts, Return, TypeOK
    <3> QED
      BY <3>1, <3>2
  <2> QED
    BY <1>2, <2>1, <2>2, <2>3, <2>4, <2>5 DEF Client
<1>3. ASSUME NEW t \in Callers, set_engine(t)
      PROVE  TypeOK'
  BY <1>3 DEF set_engine, Return, TypeOK
<1>4. CASE Watcher
  <2>a. ASSUME netEvents > 0, netEvents' = netEvents - 1
        PROVE  netEvents' \in 0..MaxNetEvents
    BY <2>a, VpndAssumption DEF TypeOK
  <2>1. CASE NetworkIgnored
    BY <2>1, <2>a DEF NetworkIgnored, TypeOK
  <2>2. CASE NetworkPauses
    <3>1. netEvents' \in 0..MaxNetEvents /\ cmdFd \in Runs
      BY <2>2, <2>a DEF NetworkPauses, TypeOK
    <3>2. CASE "pause" \in Stalls
      BY <2>2, <3>1, <3>2 DEF NetworkPauses, TypeOK
    <3>3. CASE "pause" \notin Stalls
      <4>1. /\ set_state("reconnecting") /\ Send(cmdFd, "p")
            /\ UNCHANGED <<cpc, slot, epc, netUp>>
        BY <2>2, <3>3 DEF NetworkPauses
      <4>2. cmds' \in [Runs -> SUBSET {"x", "p"}]
        BY <3>1, <4>1, SendTypes
      <4> QED
        BY <3>1, <4>1, <4>2 DEF set_state, SessionStates, TypeOK
    <3> QED
      BY <3>2, <3>3
  <2>3. CASE NetworkRestarts
    <3>1. netEvents' \in 0..MaxNetEvents
      BY <2>3, <2>a DEF NetworkRestarts
    <3> QED
      BY <2>3, <3>1 DEF NetworkRestarts, TypeOK
  <2>4. CASE PauseSetsState
    BY <2>4 DEF PauseSetsState, set_state, SessionStates, TypeOK
  <2>5. CASE PauseWrites
    <3>1. cmds' \in [Runs -> SUBSET {"x", "p"}]
      BY <2>5 DEF PauseWrites, Send, TypeOK
    <3> QED
      BY <2>5, <3>1 DEF PauseWrites, Return, TypeOK
  <2>6. CASE RestartAfterFailure
    BY <2>6, StartTypes DEF RestartAfterFailure
  <2> QED
    BY <1>4, <2>1, <2>2, <2>3, <2>4, <2>5, <2>6 DEF Watcher, WatcherCode
<1>5. CASE Boots
  <2>1. CASE engine_start(Main)
    BY <1>5, <2>1, StartTypes DEF Boots
  <2>2. CASE ~engine_start(Main)
    BY <1>5, <2>2 DEF Boots, Return, TypeOK
  <2> QED
    BY <2>1, <2>2
<1>6. CASE Shutdown
  BY <1>6, StopTypes DEF Shutdown, TypeOK
<1>7. CASE Exits
  BY <1>7 DEF Exits, TypeOK, SessionStates, EnginePcs
<1>8. CASE NetworkFlips
  BY <1>8 DEF NetworkFlips, TypeOK
<1> QED
  BY <1>1, <1>2, <1>3, <1>4, <1>5, <1>6, <1>7, <1>8

LEMMA TypeStep == TypeOK /\ [Next]_vars => TypeOK'
<1> SUFFICES ASSUME TypeOK, [Next]_vars
             PROVE  TypeOK'
  OBVIOUS
<1>1. CASE UNCHANGED vars
  BY <1>1 DEF vars, inner, threads, TypeOK
<1>2. CASE Next
  BY <1>2, EngineTypes, CallerTypes DEF Next
<1> QED
  BY <1>1, <1>2

(* The shared state and the threads stay within their ranges, whatever the *)
(* interleaving: in particular Inner.cmd_fd and Inner.engine hold a run or *)
(* nothing (store_cmd_fd follows the check of setup_cmd_pipe's result).    *)
THEOREM TypeCorrect == Spec => []TypeOK
<1>1. Init => TypeOK
  BY TypeInit
<1>2. TypeOK /\ [Next]_vars => TypeOK'
  BY TypeStep
<1> QED
  BY <1>1, <1>2, PTL DEF Spec

-----------------------------------------------------------------------------
(* The status and Inner.cmd_fd against the engine threads.  Both           *)
(* invariants are inductive once the types are known.                      *)

(* What an engine_start may do to them, whoever calls it.                  *)
LEMMA StartEffect ==
  ASSUME TypeOK, NEW t \in Callers, engine_start(t)
  PROVE  /\ state' = state /\ cmdFd' = cmdFd
         /\ \A e \in Runs : epc'[e] = epc[e] \/ (epc[e] = "free" /\ epc'[e] = "spawned")
BY DEF TypeOK, engine_start, StartRefused, StartSpawns, StartSpawnFails, Spare, inner

(* And any step that no engine thread takes.                               *)
LEMMA CallerEffect ==
  ASSUME TypeOK,
         \/ \E r \in Runs : RetryCode(r)
         \/ \E c \in Clients : Client(c)
         \/ \E t \in Callers : set_engine(t)
         \/ Watcher \/ Boots \/ Shutdown \/ Exits \/ NetworkFlips
  PROVE  \/ /\ state' \in {state, "reconnecting"} /\ cmdFd' = cmdFd
            /\ \A e \in Runs : \/ epc'[e] = epc[e]
                               \/ epc[e] = "free" /\ epc'[e] = "spawned"
         \/ Exits /\ state' = "stopped" /\ cmdFd' = None
<1> USE StartEffect DEF Callers, inner, threads
<1>1. ASSUME NEW r \in Runs, RetryCode(r)
      PROVE  state' = state /\ cmdFd' = cmdFd
             /\ \A e \in Runs : \/ epc'[e] = epc[e]
                                \/ epc[e] = "free" /\ epc'[e] = "spawned"
  BY <1>1 DEF RetryCode, RetryWakes, RetryProbes
<1>2. ASSUME NEW c \in Clients, Client(c)
      PROVE  state' = state /\ cmdFd' = cmdFd
             /\ \A e \in Runs : \/ epc'[e] = epc[e]
                                \/ epc[e] = "free" /\ epc'[e] = "spawned"
  BY <1>2 DEF Client, ClientStarts, ClientStops, ClientRestarts, RestartWaits, RestartStarts
<1>3. ASSUME NEW t \in Callers, set_engine(t)
      PROVE  UNCHANGED <<state, cmdFd, epc>>
  BY <1>3 DEF set_engine
<1>4. CASE NetworkIgnored \/ NetworkPauses \/ NetworkRestarts \/ PauseSetsState \/ PauseWrites
  BY <1>4 DEF NetworkIgnored, NetworkPauses, NetworkRestarts, PauseSetsState, PauseWrites,
              set_state
<1>5. CASE RestartAfterFailure \/ Boots
  BY <1>5 DEF RestartAfterFailure, Boots
<1>6. CASE Shutdown \/ Exits \/ NetworkFlips
  BY <1>6 DEF Shutdown, Exits, NetworkFlips
<1> QED
  BY <1>1, <1>2, <1>3, <1>4, <1>5, <1>6 DEF Watcher, WatcherCode

(* A run that moves on quietly within the places a status counts on does   *)
(* not leave the status unbacked.                                          *)
LEMMA StillBacked ==
  ASSUME TypeOK, StatusBacked, state' = state,
         NEW e \in Runs, NEW from, NEW to, Step(e, from, to),
         from \in Authing => to \in Authing,
         from \in Joining => to \in Joining,
         from \in Carrying => to \in Carrying
  PROVE  StatusBacked'
<1>1. \A f \in Runs : /\ epc[f] \in Authing => epc'[f] \in Authing
                      /\ epc[f] \in Joining => epc'[f] \in Joining
                      /\ epc[f] \in Carrying => epc'[f] \in Carrying
  BY DEF TypeOK, Step
<1>2. state' = "authenticating" => \E f \in Runs : epc'[f] \in Authing
  BY <1>1 DEF StatusBacked
<1>3. state' = "connecting" => \E f \in Runs : epc'[f] \in Joining
  BY <1>1 DEF StatusBacked
<1>4. state' = "connected" => \E f \in Runs : epc'[f] \in Carrying
  BY <1>1 DEF StatusBacked
<1>5. Authing' = Authing /\ Joining' = Joining /\ Carrying' = Carrying
  BY DEF Authing, Joining, Carrying, Ending
<1> QED
  BY <1>2, <1>3, <1>4, <1>5 DEF StatusBacked

(* A run that sets the status backs it itself.                             *)
LEMMA BackedBySetter ==
  ASSUME TypeOK, NEW s, NEW e \in Runs, NEW from, NEW to, Becoming(s, e, from, to),
         s = "authenticating" => to \in Authing,
         s = "connecting" => to \in Joining,
         s = "connected" => to \in Carrying
  PROVE  StatusBacked'
BY DEF TypeOK, Becoming, set_state, Step, StatusBacked, Authing, Joining, Carrying, Ending

LEMMA EngineKeepsBacked ==
  ASSUME TypeOK, StatusBacked, NEW e \in Runs, Engine(e)
  PROVE  StatusBacked'
<1> USE DEF Authing, Joining, Carrying, Ending
<1>1. CASE \/ EngineBegins(e) \/ BadString(e) \/ CookieObtained(e) \/ TunnelUp(e)
           \/ reconnected_cb(e) \/ GoesReconnecting(e) \/ GoesStopped(e) \/ Settles(e)
           \/ PanicReported(e)
  BY <1>1, BackedBySetter
  DEF EngineBegins, BadString, CookieObtained, TunnelUp, reconnected_cb, GoesReconnecting,
      GoesStopped, Settles, PanicReported
<1>2. CASE \/ HealthPanics(e) \/ StageFails(e) \/ ReconnectTimesOut(e) \/ FreesVpninfo(e)
           \/ MainloopCancelled(e) \/ ChannelDies(e) \/ GatewayDrops(e)
  BY <1>2, StillBacked
  DEF HealthPanics, StageFails, AuthFails, ReconnectTimesOut, FreesVpninfo, MainloopCancelled,
      ChannelDies, GatewayDrops, Quietly, inner
<1>3. CASE PauseReturned(e) \/ ErrorReturned(e)
  BY <1>3, StillBacked DEF PauseReturned, ErrorReturned, Quietly, inner
<1>4. CASE ReportsError(e)
  BY <1>4, StillBacked DEF ReportsError, Quietly, inner
<1>5. CASE store_cmd_fd(e)
  BY <1>5, StillBacked DEF store_cmd_fd
<1>6. CASE SchedulesRetry(e) \/ PanicSchedulesRetry(e)
  BY <1>6, StillBacked DEF SchedulesRetry, PanicSchedulesRetry, schedule_engine_retry, RetryPanics
<1>7. CASE EngineFinishes(e)
  BY <1>7, StillBacked DEF EngineFinishes, mark_engine_finished
<1>8. CASE MainloopPaused(e)
  BY <1>8, StillBacked DEF MainloopPaused, inner
<1> QED
  BY <1>1, <1>2, <1>3, <1>4, <1>5, <1>6, <1>7, <1>8 DEF Engine, EngineCode, Obeys

LEMMA BackedStep == TypeOK /\ StatusBacked /\ [Next]_vars => StatusBacked'
<1> SUFFICES ASSUME TypeOK, StatusBacked, [Next]_vars
             PROVE  StatusBacked'
  OBVIOUS
<1>1. CASE UNCHANGED vars
  BY <1>1 DEF vars, inner, threads, StatusBacked
<1>2. ASSUME NEW e \in Runs, Engine(e)
      PROVE  StatusBacked'
  BY <1>2, EngineKeepsBacked
<1>3. CASE \/ \E r \in Runs : RetryCode(r)
           \/ \E c \in Clients : Client(c)
           \/ \E t \in Callers : set_engine(t)
           \/ Watcher \/ Boots \/ Shutdown \/ Exits \/ NetworkFlips
  BY <1>3, CallerEffect DEF StatusBacked, Authing, Joining, Carrying, Ending
<1> QED
  BY <1>1, <1>2, <1>3 DEF Next

(* Whatever the interleaving and however long its windows, a status that   *)
(* claims progress is backed by an engine thread that will replace it.     *)
THEOREM BackedAlways == Spec => []StatusBacked
<1>1. Init => StatusBacked
  BY DEF Init, StatusBacked
<1>2. TypeOK /\ StatusBacked /\ [Next]_vars => StatusBacked'
  BY BackedStep
<1> QED
  BY <1>1, <1>2, TypeCorrect, PTL DEF Spec

-----------------------------------------------------------------------------
(* A run that has its pipe keeps it until its guard is dropped.            *)
Piped == EnginePcs \ {"free", "spawned", "init", "crashed", "crashsched"}

LEMMA PipedCmdFd ==
  ASSUME TypeOK
  PROVE  CmdFdOfUnfinishedRun <=> (cmdFd # None => epc[cmdFd] \in Piped)
BY DEF TypeOK, CmdFdOfUnfinishedRun, Live, Piped

LEMMA EngineKeepsCmdFd ==
  ASSUME TypeOK, CmdFdOfUnfinishedRun, NEW e \in Runs, Engine(e)
  PROVE  cmdFd' # None => epc'[cmdFd'] \in Piped
<1> USE PipedCmdFd DEF TypeOK, Piped, EnginePcs, Step
<1>1. CASE \/ EngineBegins(e) \/ BadString(e) \/ CookieObtained(e) \/ TunnelUp(e)
           \/ reconnected_cb(e) \/ GoesReconnecting(e) \/ GoesStopped(e) \/ Settles(e)
           \/ PanicReported(e)
  BY <1>1
  DEF EngineBegins, BadString, CookieObtained, TunnelUp, reconnected_cb, GoesReconnecting,
      GoesStopped, Settles, PanicReported, Becoming, set_state
<1>2. CASE \/ HealthPanics(e) \/ StageFails(e) \/ ReconnectTimesOut(e) \/ FreesVpninfo(e)
           \/ MainloopCancelled(e) \/ ChannelDies(e) \/ GatewayDrops(e)
           \/ PauseReturned(e) \/ ErrorReturned(e) \/ ReportsError(e)
  BY <1>2
  DEF HealthPanics, StageFails, AuthFails, ReconnectTimesOut, FreesVpninfo, MainloopCancelled,
      ChannelDies, GatewayDrops, PauseReturned, ErrorReturned, ReportsError, Quietly, inner
<1>3. CASE store_cmd_fd(e)
  BY <1>3 DEF store_cmd_fd
<1>4. CASE SchedulesRetry(e) \/ PanicSchedulesRetry(e)
  BY <1>4 DEF SchedulesRetry, PanicSchedulesRetry, schedule_engine_retry, RetryPanics
<1>5. CASE EngineFinishes(e)
  BY <1>5 DEF EngineFinishes, mark_engine_finished
<1>6. CASE MainloopPaused(e)
  BY <1>6 DEF MainloopPaused, inner
<1> QED
  BY <1>1, <1>2, <1>3, <1>4, <1>5, <1>6 DEF Engine, EngineCode, Obeys

LEMMA CmdFdStep == TypeOK /\ CmdFdOfUnfinishedRun /\ [Next]_vars => CmdFdOfUnfinishedRun'
<1> SUFFICES ASSUME TypeOK, CmdFdOfUnfinishedRun, [Next]_vars
             PROVE  CmdFdOfUnfinishedRun'
  OBVIOUS
<1> USE DEF TypeOK, CmdFdOfUnfinishedRun, Live
<1>1. CASE UNCHANGED vars
  BY <1>1 DEF vars, inner, threads
<1>2. ASSUME NEW e \in Runs, Engine(e)
      PROVE  CmdFdOfUnfinishedRun'
  BY <1>2, EngineKeepsCmdFd DEF Piped
<1>3. CASE \/ \E r \in Runs : RetryCode(r)
           \/ \E c \in Clients : Client(c)
           \/ \E t \in Callers : set_engine(t)
           \/ Watcher \/ Boots \/ Shutdown \/ Exits \/ NetworkFlips
  BY <1>3, CallerEffect
<1> QED
  BY <1>1, <1>2, <1>3 DEF Next

(* A descriptor in Inner.cmd_fd is one that a run stored and whose run has *)
(* not ended: request_stop and the watcher never write into an old run's   *)
(* pipe once mark_engine_finished has run.                                 *)
THEOREM CmdFdNeverOutlivesRun == Spec => []CmdFdOfUnfinishedRun
<1>1. Init => CmdFdOfUnfinishedRun
  BY DEF Init, CmdFdOfUnfinishedRun
<1>2. TypeOK /\ CmdFdOfUnfinishedRun /\ [Next]_vars => CmdFdOfUnfinishedRun'
  BY CmdFdStep
<1> QED
  BY <1>1, <1>2, TypeCorrect, PTL DEF Spec

-----------------------------------------------------------------------------
(* A daemon that stores an engine's handle in the critical section that    *)
(* found none: the window "store" is not in Stalls.  Then there is one     *)
(* engine, the handle is its handle, and what a stop has set in motion is  *)
(* not undone, however late the watcher acts and whatever fails.  (Run     *)
(* two_engines shows that the hypothesis cannot be dropped.)               *)
Prompt == "store" \notin Stalls

(* A run about to report Stopped does so because of a stop.                *)
StoppingBySomeone ==
  \A e \in Runs : epc[e] \in {"tostop", "settlestop"} => stopRequested

(* Inductive under Prompt.  HandleIsEngine carries it: engine_start resets *)
(* stop_requested only when no handle is stored, hence when no engine      *)
(* lives that a stop could have been meant for.                            *)
PromptInv ==
  /\ \A t \in Callers : cpc[t] # "storing"
  /\ HandleIsEngine
  /\ CancelSticks
  /\ StoppingBySomeone

LEMMA PromptInit == Init => PromptInv
BY VpndAssumption
DEF Init, PromptInv, HandleIsEngine, CancelSticks, StoppingBySomeone, Live

(* What a step of an engine thread leaves of the four.                     *)
LEMMA EngineEffect ==
  ASSUME TypeOK, NEW e \in Runs, Engine(e)
  PROVE  /\ stopRequested' = stopRequested
         /\ epc[e] # "free"
         /\ \A f \in Runs : f # e => epc'[f] = epc[f]
         /\ \A f \in Runs : cmds'[f] \subseteq cmds[f]
         /\ \A t \in Callers : cpc'[t] \in {cpc[t], "sleeping"}
         /\ epc'[e] \in {"tostop", "settlestop"} => stopRequested
         /\ \/ engine' = engine /\ (Live(e) <=> Live(e)')
            \/ engine' = None /\ Live(e) /\ ~Live(e)'
<1> USE DEF TypeOK, Step, Live, KeepOthers, inner
<1>1. CASE \/ EngineBegins(e) \/ BadString(e) \/ CookieObtained(e) \/ TunnelUp(e)
           \/ reconnected_cb(e) \/ GoesReconnecting(e) \/ GoesStopped(e) \/ Settles(e)
           \/ PanicReported(e)
  BY <1>1
  DEF EngineBegins, BadString, CookieObtained, TunnelUp, reconnected_cb, GoesReconnecting,
      GoesStopped, Settles, PanicReported, Becoming, set_state
<1>2. CASE \/ HealthPanics(e) \/ StageFails(e) \/ ReconnectTimesOut(e) \/ FreesVpninfo(e)
           \/ MainloopCancelled(e) \/ ChannelDies(e) \/ GatewayDrops(e)
           \/ PauseReturned(e) \/ ErrorReturned(e) \/ ReportsError(e)
  BY <1>2
  DEF HealthPanics, StageFails, AuthFails, ReconnectTimesOut, FreesVpninfo, MainloopCancelled,
      ChannelDies, GatewayDrops, PauseReturned, ErrorReturned, ReportsError, Quietly
<1>3. CASE store_cmd_fd(e)
  BY <1>3 DEF store_cmd_fd
<1>4. CASE SchedulesRetry(e) \/ PanicSchedulesRetry(e)
  BY <1>4 DEF SchedulesRetry, PanicSchedulesRetry, schedule_engine_retry, RetryPanics, Callers
<1>5. CASE EngineFinishes(e)
  BY <1>5 DEF EngineFinishes, mark_engine_finished
<1>6. CASE MainloopPaused(e)
  BY <1>6 DEF MainloopPaused
<1> QED
  BY <1>1, <1>2, <1>3, <1>4, <1>5, <1>6 DEF Engine, EngineCode, Obeys

LEMMA EnginePrompt ==
  ASSUME TypeOK, PromptInv, NEW e \in Runs, Engine(e)
  PROVE  PromptInv'
<1> USE EngineEffect
<1>1. \A t \in Callers : cpc'[t] # "storing"
  BY DEF PromptInv
<1>2. HandleIsEngine'
  BY VpndAssumption DEF PromptInv, HandleIsEngine, Live
<1>3. CancelSticks'
  BY DEF PromptInv, CancelSticks, Live
<1>4. StoppingBySomeone'
  BY DEF PromptInv, StoppingBySomeone
<1> QED
  BY <1>1, <1>2, <1>3, <1>4 DEF PromptInv

LEMMA StartPrompt ==
  ASSUME Prompt, TypeOK, PromptInv, NEW t \in Callers, engine_start(t)
  PROVE  PromptInv'
<1> USE DEF TypeOK, PromptInv, HandleIsEngine, CancelSticks, StoppingBySomeone, Live, Return
<1>1. CASE StartRefused(t)
  BY <1>1 DEF StartRefused, inner
<1>2. ASSUME NEW e \in Runs, StartSpawns(t, e)
      PROVE  PromptInv'
  <2>1. \A f \in Runs : epc[f] \in {"free", "crashed", "crashsched"}
    BY <1>2, VpndAssumption DEF StartSpawns
  <2>2. /\ engine' = e /\ epc' = [epc EXCEPT ![e] = "spawned"]
        /\ cmds' = [cmds EXCEPT ![e] = {}]
        /\ cpc' = [cpc EXCEPT ![t] = "idle"]
    BY <1>2 DEF StartSpawns, Prompt
  <2> QED
    BY <2>1, <2>2
<1>3. CASE StartSpawnFails(t)
  <2>1. \A f \in Runs : epc[f] \in {"free", "crashed", "crashsched"}
    BY <1>3, VpndAssumption DEF StartSpawnFails
  <2> QED
    BY <1>3, <2>1 DEF StartSpawnFails
<1> QED
  BY <1>1, <1>2, <1>3 DEF engine_start

(* A write adds at most its own byte to a pipe.                            *)
LEMMA SendAdds ==
  ASSUME TypeOK, NEW fd, NEW byte, Send(fd, byte)
  PROVE  \A f \in Runs : cmds'[f] \subseteq cmds[f] \cup {byte}
BY DEF TypeOK, Send

(* Steps that leave engines alone: a stop may be requested, the flag stays *)
(* set, and CANCEL is written only with it.                                *)
LEMMA BystanderPrompt ==
  ASSUME TypeOK, PromptInv, UNCHANGED <<engine, epc>>,
         \A t \in Callers : cpc'[t] \in {cpc[t]} \cup (CallerPcs \ {"storing"}),
         stopRequested => stopRequested',
         \/ stopRequested'
         \/ \A f \in Runs : cmds'[f] \subseteq cmds[f] \cup {"p"}
  PROVE  PromptInv'
BY DEF PromptInv, HandleIsEngine, CancelSticks, StoppingBySomeone, Live

LEMMA CallerPrompt ==
  ASSUME Prompt, TypeOK, PromptInv,
         \/ \E r \in Runs : RetryCode(r)
         \/ \E c \in Clients : Client(c)
         \/ \E t \in Callers : set_engine(t)
         \/ Watcher \/ Boots \/ Shutdown \/ Exits \/ NetworkFlips
  PROVE  PromptInv'
<1> USE DEF Callers, CallerPcs, inner, threads, Return
<1>1. ASSUME NEW t \in Callers, engine_start(t)
      PROVE  PromptInv'
  BY <1>1, StartPrompt
<1>2. ASSUME NEW r \in Runs, RetryCode(r), ~engine_start(r)
      PROVE  PromptInv'
  BY <1>2, BystanderPrompt DEF RetryCode, RetryWakes, RetryProbes, TypeOK
<1>3. ASSUME NEW c \in Clients, Client(c), ~engine_start(c)
      PROVE  PromptInv'
  BY <1>3, BystanderPrompt
  DEF Client, ClientStarts, ClientStops, ClientRestarts, RestartWaits, RestartStarts,
      request_stop, TypeOK
<1>4. ASSUME NEW t \in Callers, set_engine(t)
      PROVE  PromptInv'
  BY <1>4 DEF set_engine, PromptInv
<1>5. CASE NetworkIgnored \/ NetworkRestarts \/ NetworkFlips
  BY <1>5, BystanderPrompt DEF NetworkIgnored, NetworkRestarts, NetworkFlips, TypeOK
<1>6. CASE NetworkPauses
  <2>1. cmds' = cmds \/ Send(cmdFd, "p")
    BY <1>6 DEF NetworkPauses
  <2>2. \A f \in Runs : cmds'[f] \subseteq cmds[f] \cup {"p"}
    BY <2>1, SendAdds
  <2> QED
    BY <1>6, <2>2, BystanderPrompt DEF NetworkPauses, set_state, TypeOK
<1>7. CASE PauseSetsState
  BY <1>7, BystanderPrompt DEF PauseSetsState, set_state, TypeOK
<1>8. CASE PauseWrites
  BY <1>8, SendAdds, BystanderPrompt DEF PauseWrites, TypeOK
<1>9. CASE RestartAfterFailure
  BY <1>9, <1>1 DEF RestartAfterFailure
<1>10. CASE Boots /\ ~engine_start(Main)
  BY <1>10, BystanderPrompt DEF Boots, TypeOK
<1>11. CASE Shutdown
  BY <1>11, BystanderPrompt DEF Shutdown, request_stop, TypeOK
<1>12. CASE Exits
  BY <1>12, VpndAssumption
  DEF Exits, PromptInv, HandleIsEngine, CancelSticks, StoppingBySomeone, Live
<1> QED
  BY <1>1, <1>2, <1>3, <1>4, <1>5, <1>6, <1>7, <1>8, <1>9, <1>10, <1>11, <1>12
  DEF Watcher, WatcherCode

LEMMA PromptStep == Prompt /\ TypeOK /\ PromptInv /\ [Next]_vars => PromptInv'
<1> SUFFICES ASSUME Prompt, TypeOK, PromptInv, [Next]_vars
             PROVE  PromptInv'
  OBVIOUS
<1>1. CASE UNCHANGED vars
  BY <1>1
  DEF vars, inner, threads, PromptInv, HandleIsEngine, CancelSticks, StoppingBySomeone, Live
<1>2. CASE Next
  BY <1>2, EnginePrompt, CallerPrompt DEF Next
<1> QED
  BY <1>1, <1>2

LEMMA PromptAlways ==
  ASSUME Prompt
  PROVE  Spec => []PromptInv
<1>1. Init => PromptInv
  BY PromptInit
<1>2. TypeOK /\ PromptInv /\ [Next]_vars => PromptInv'
  BY PromptStep
<1> QED
  BY <1>1, <1>2, TypeCorrect, PTL DEF Spec

-----------------------------------------------------------------------------
(* The stored handle is the live engine's: "engine already running" is     *)
(* answered when, and only when, one is.                                   *)
THEOREM HandleAlwaysEngine ==
  ASSUME Prompt
  PROVE  Spec => []HandleIsEngine
<1>1. PromptInv => HandleIsEngine
  BY DEF PromptInv
<1> QED
  BY <1>1, PromptAlways, PTL

(* At most one engine thread drives a VPN session.                         *)
THEOREM OneEngine ==
  ASSUME Prompt
  PROVE  Spec => []SoleEngine
<1>1. PromptInv => SoleEngine
  BY DEF PromptInv, HandleIsEngine, SoleEngine
<1> QED
  BY <1>1, PromptAlways, PTL

(* A stop that reached an engine's pipe stays in force while the engine    *)
(* lives.                                                                  *)
THEOREM CancelNotForgotten ==
  ASSUME Prompt
  PROVE  Spec => []CancelSticks
<1>1. PromptInv => CancelSticks
  BY DEF PromptInv
<1> QED
  BY <1>1, PromptAlways, PTL

(* The status becomes Stopped only for a stop that is in force, or because *)
(* the process starts afresh.                                              *)
THEOREM StoppedOnlyOnRequest ==
  ASSUME Prompt
  PROVE  Spec => StoppedOnRequest
<1> DEFINE Unasked == state # "stopped" /\ state' = "stopped"
                        => stopRequested \/ cpc[Main] = "stopping"
<1>1. ASSUME TypeOK, PromptInv, [Next]_vars
      PROVE  [Unasked]_vars
  <2>1. CASE UNCHANGED vars
    BY <2>1
  <2>2. ASSUME NEW e \in Runs, Engine(e)
        PROVE  Unasked
    <3>1. CASE GoesStopped(e) \/ Settles(e)
      BY <1>1, <3>1
      DEF GoesStopped, Settles, Becoming, Step, set_state, PromptInv, StoppingBySomeone
    <3>2. CASE ~(GoesStopped(e) \/ Settles(e))
      BY <2>2, <3>2
      DEF Engine, EngineCode, Obeys, EngineBegins, BadString, store_cmd_fd, CookieObtained,
          HealthPanics, TunnelUp, StageFails, AuthFails, reconnected_cb, ReconnectTimesOut,
          PauseReturned, GoesReconnecting, ErrorReturned, FreesVpninfo, ReportsError,
          SchedulesRetry, EngineFinishes, PanicReported, PanicSchedulesRetry,
          MainloopPaused, MainloopCancelled, ChannelDies, GatewayDrops, Becoming, Quietly,
          set_state, schedule_engine_retry, RetryPanics, mark_engine_finished, inner
    <3> QED
      BY <3>1, <3>2
  <2>3. CASE \/ \E r \in Runs : RetryCode(r)
             \/ \E c \in Clients : Client(c)
             \/ \E t \in Callers : set_engine(t)
             \/ Watcher \/ Boots \/ Shutdown \/ Exits \/ NetworkFlips
    BY <1>1, <2>3, CallerEffect DEF Exits
  <2> QED
    BY <1>1, <2>1, <2>2, <2>3 DEF Next
<1>2. TypeOK /\ PromptInv /\ [Next]_vars => [Unasked]_vars
  BY <1>1
<1> QED
  BY <1>2, TypeCorrect, PromptAlways, PTL DEF Spec, StoppedOnRequest

-----------------------------------------------------------------------------
(* A watcher that acts in the critical section in which it decides.        *)
Watchful == "pause" \notin Stalls

WatchInv == \A t \in Callers : cpc[t] \notin {"pausing", "writing"}

(* Inductive under Watchful: what StatusBacked says of Connected holds of  *)
(* Reconnecting too.  (Run stuck_reconnecting shows that the watcher must  *)
(* not be late.)                                                           *)
ReconnectingInv ==
  state = "reconnecting" => \E e \in Runs : epc[e] \in Carrying

(* Nobody comes to those two places.                                       *)
LEMMA StartCallers ==
  ASSUME TypeOK, NEW t \in Callers, engine_start(t)
  PROVE  \A u \in Callers : cpc'[u] \in {cpc[u], "idle", "storing"}
BY DEF TypeOK, engine_start, StartRefused, StartSpawns, StartSpawnFails, Return

LEMMA WatchStep == Watchful /\ TypeOK /\ WatchInv /\ [Next]_vars => WatchInv'
<1> SUFFICES ASSUME Watchful, TypeOK, WatchInv, [Next]_vars
             PROVE  WatchInv'
  OBVIOUS
<1> USE DEF WatchInv, Callers, inner, threads, Return
<1>1. CASE UNCHANGED vars
  BY <1>1 DEF vars
<1>2. ASSUME NEW e \in Runs, Engine(e)
      PROVE  WatchInv'
  BY <1>2, EngineEffect
<1>3. ASSUME NEW t \in Callers, engine_start(t)
      PROVE  WatchInv'
  BY <1>3, StartCallers
<1>4. ASSUME NEW r \in Runs, RetryCode(r), ~engine_start(r)
      PROVE  WatchInv'
  BY <1>4 DEF RetryCode, RetryWakes, RetryProbes, TypeOK
<1>5. ASSUME NEW c \in Clients, Client(c), ~engine_start(c)
      PROVE  WatchInv'
  BY <1>5 DEF Client, ClientStarts, ClientStops, ClientRestarts, RestartWaits, RestartStarts,
              TypeOK
<1>6. ASSUME NEW t \in Callers, set_engine(t)
      PROVE  WatchInv'
  BY <1>6 DEF set_engine, TypeOK
<1>7. CASE NetworkIgnored \/ NetworkPauses \/ NetworkRestarts \/ NetworkFlips
  BY <1>7 DEF NetworkIgnored, NetworkPauses, NetworkRestarts, NetworkFlips, Watchful, TypeOK
<1>8. CASE PauseSetsState \/ PauseWrites
  BY <1>8 DEF PauseSetsState, PauseWrites
<1>9. CASE RestartAfterFailure
  BY <1>9, <1>3 DEF RestartAfterFailure
<1>10. CASE Boots /\ ~engine_start(Main)
  BY <1>10 DEF Boots, TypeOK
<1>11. CASE Shutdown \/ Exits
  BY <1>11 DEF Shutdown, Exits, TypeOK
<1> QED
  BY <1>1, <1>2, <1>3, <1>4, <1>5, <1>6, <1>7, <1>8, <1>9, <1>10, <1>11
  DEF Next, Watcher, WatcherCode

LEMMA EngineReconnecting ==
  ASSUME TypeOK, ReconnectingInv, NEW e \in Runs, Engine(e)
  PROVE  ReconnectingInv'
<1> USE DEF ReconnectingInv, TypeOK, Step, Carrying, Ending
<1>1. CASE \/ EngineBegins(e) \/ BadString(e) \/ CookieObtained(e) \/ TunnelUp(e)
           \/ reconnected_cb(e) \/ GoesReconnecting(e) \/ GoesStopped(e) \/ Settles(e)
           \/ PanicReported(e)
  BY <1>1
  DEF EngineBegins, BadString, CookieObtained, TunnelUp, reconnected_cb, GoesReconnecting,
      GoesStopped, Settles, PanicReported, Becoming, set_state
<1>2. ASSUME state' = state, epc[e] \in Carrying => epc'[e] \in Carrying
      PROVE  ReconnectingInv'
  <2>1. \A f \in Runs : epc[f] \in Carrying => epc'[f] \in Carrying
    BY <1>2, EngineEffect
  <2>2. Carrying' = Carrying
    OBVIOUS
  <2> QED
    BY <1>2, <2>1, <2>2
<1>3. CASE \/ HealthPanics(e) \/ StageFails(e) \/ ReconnectTimesOut(e) \/ FreesVpninfo(e)
           \/ MainloopCancelled(e) \/ ChannelDies(e) \/ GatewayDrops(e)
           \/ PauseReturned(e) \/ ErrorReturned(e) \/ ReportsError(e)
  BY <1>2, <1>3
  DEF HealthPanics, StageFails, AuthFails, ReconnectTimesOut, FreesVpninfo, MainloopCancelled,
      ChannelDies, GatewayDrops, PauseReturned, ErrorReturned, ReportsError, Quietly, inner
<1>4. CASE \/ store_cmd_fd(e) \/ SchedulesRetry(e) \/ PanicSchedulesRetry(e)
           \/ EngineFinishes(e) \/ MainloopPaused(e)
  BY <1>2, <1>4
  DEF store_cmd_fd, SchedulesRetry, PanicSchedulesRetry, schedule_engine_retry, RetryPanics,
      EngineFinishes, mark_engine_finished, MainloopPaused, inner
<1> QED
  BY <1>1, <1>3, <1>4 DEF Engine, EngineCode, Obeys

(* Only the watcher, on a session that is up, and the engine set it.       *)
LEMMA CallerReconnecting ==
  ASSUME Watchful, TypeOK, WatchInv, StatusBacked, ReconnectingInv,
         \/ \E r \in Runs : RetryCode(r)
         \/ \E c \in Clients : Client(c)
         \/ \E t \in Callers : set_engine(t)
         \/ Watcher \/ Boots \/ Shutdown \/ Exits \/ NetworkFlips
  PROVE  ReconnectingInv'
<1> USE DEF ReconnectingInv, Carrying, Ending
<1>1. CASE state' = "stopped"
  BY <1>1
<1>2. CASE state' # "stopped"
  <2>1. \A e \in Runs : epc[e] \in Carrying => epc'[e] = epc[e]
    BY <1>2, CallerEffect
  <2>2. CASE Watcher
    <3>1. state' = state \/ state \in {"connected", "reconnecting"}
      BY <2>2, StartEffect
      DEF Watcher, WatcherCode, NetworkIgnored, NetworkPauses, NetworkRestarts,
          PauseSetsState, PauseWrites, RestartAfterFailure, WatchInv, Callers, inner
    <3> QED
      BY <2>1, <3>1 DEF StatusBacked
  <2>3. CASE ~Watcher
    <3>1. state' = state
      BY <1>2, <2>3, StartEffect
      DEF RetryCode, RetryWakes, RetryProbes, Client, ClientStarts, ClientStops,
          ClientRestarts, RestartWaits, RestartStarts, set_engine, Boots, Shutdown, Exits,
          NetworkFlips, Callers, inner
    <3> QED
      BY <2>1, <3>1
  <2> QED
    BY <2>2, <2>3
<1> QED
  BY <1>1, <1>2

LEMMA ReconnectingStep ==
  Watchful /\ TypeOK /\ WatchInv /\ StatusBacked /\ ReconnectingInv /\ [Next]_vars
    => ReconnectingInv'
BY EngineReconnecting, CallerReconnecting
DEF Next, vars, inner, threads, ReconnectingInv, Carrying, Ending

(* Reconnecting means that an engine is there to reconnect, if the watcher *)
(* is never late, whatever else fails.                                     *)
THEOREM ReconnectingBacked ==
  ASSUME Prompt, Watchful
  PROVE  Spec => []ReconnectingHasEngine
<1>1. Init => WatchInv /\ ReconnectingInv
  BY DEF Init, WatchInv, ReconnectingInv
<1>2. TypeOK /\ StatusBacked /\ WatchInv /\ ReconnectingInv /\ [Next]_vars
        => (WatchInv /\ ReconnectingInv)'
  BY WatchStep, ReconnectingStep
<1>3. PromptInv /\ ReconnectingInv => ReconnectingHasEngine
  BY VpndAssumption
  DEF PromptInv, HandleIsEngine, Live, ReconnectingInv, ReconnectingHasEngine, Carrying, Ending
<1> QED
  BY <1>1, <1>2, <1>3, TypeCorrect, BackedAlways, PromptAlways, PTL DEF Spec

-----------------------------------------------------------------------------
(* Nothing panics: an engine is through when its handle goes.              *)
Calm == {"panic", "retry"} \cap Faults = {}

CalmInv == \A e \in Runs : epc[e] \notin {"unwind", "crashed", "crashsched"}

LEMMA EngineCalm ==
  ASSUME Calm, TypeOK, CalmInv, NEW e \in Runs, Engine(e)
  PROVE  CalmInv'
<1> USE DEF TypeOK, Step, CalmInv
<1>1. CASE \/ EngineBegins(e) \/ BadString(e) \/ CookieObtained(e) \/ TunnelUp(e)
           \/ reconnected_cb(e) \/ GoesReconnecting(e) \/ GoesStopped(e) \/ Settles(e)
  BY <1>1
  DEF EngineBegins, BadString, CookieObtained, TunnelUp, reconnected_cb, GoesReconnecting,
      GoesStopped, Settles, Becoming
<1>2. CASE \/ StageFails(e) \/ ReconnectTimesOut(e) \/ FreesVpninfo(e)
           \/ MainloopCancelled(e) \/ ChannelDies(e) \/ GatewayDrops(e)
           \/ PauseReturned(e) \/ ErrorReturned(e) \/ ReportsError(e)
  BY <1>2
  DEF StageFails, AuthFails, ReconnectTimesOut, FreesVpninfo, MainloopCancelled, ChannelDies,
      GatewayDrops, PauseReturned, ErrorReturned, ReportsError, Quietly
<1>3. CASE store_cmd_fd(e) \/ SchedulesRetry(e) \/ EngineFinishes(e) \/ MainloopPaused(e)
  BY <1>3 DEF store_cmd_fd, SchedulesRetry, RetryPanics, EngineFinishes, MainloopPaused, Calm
<1>4. CASE HealthPanics(e) \/ PanicReported(e) \/ PanicSchedulesRetry(e)
  BY <1>4 DEF HealthPanics, PanicReported, PanicSchedulesRetry, Becoming, Calm
<1> QED
  BY <1>1, <1>2, <1>3, <1>4 DEF Engine, EngineCode, Obeys

LEMMA CalmAlways ==
  ASSUME Calm
  PROVE  Spec => []CalmInv
<1>1. Init => CalmInv
  BY DEF Init, CalmInv
<1>2. ASSUME TypeOK, CalmInv, [Next]_vars
      PROVE  CalmInv'
  <2>1. CASE UNCHANGED vars
    BY <1>2, <2>1 DEF vars, threads, CalmInv
  <2>2. ASSUME NEW e \in Runs, Engine(e)
        PROVE  CalmInv'
    BY <1>2, <2>2, EngineCalm
  <2>3. CASE Exits
    BY <2>3 DEF Exits, CalmInv
  <2>4. CASE /\ \/ \E r \in Runs : RetryCode(r)
                \/ \E c \in Clients : Client(c)
                \/ \E t \in Callers : set_engine(t)
                \/ Watcher \/ Boots \/ Shutdown \/ NetworkFlips
             /\ ~Exits
    BY <1>2, <2>4, CallerEffect DEF CalmInv
  <2> QED
    BY <1>2, <2>1, <2>2, <2>3, <2>4 DEF Next
<1>3. TypeOK /\ CalmInv /\ [Next]_vars => CalmInv'
  BY <1>2
<1> QED
  BY <1>1, <1>3, TypeCorrect, PTL DEF Spec

(* An engine whose pipe took a CANCEL leaves no retry thread, if nothing   *)
(* panics: it looks at stop_requested before its handle goes, and nothing  *)
(* resets the flag before that.                                            *)
THEOREM CancelNeverRetried ==
  ASSUME Prompt, Calm
  PROVE  Spec => CancelLeavesNoRetry
<1> DEFINE Final == \A e \in Runs : "x" \in cmds[e] /\ retryOwner # e => retryOwner' # e
<1>1. ASSUME TypeOK, PromptInv, CalmInv, [Next]_vars
      PROVE  [Final]_vars
  <2> SUFFICES ASSUME NEW e \in Runs, "x" \in cmds[e], retryOwner # e, retryOwner' = e
               PROVE  FALSE
    OBVIOUS
  <2>1. retryOwner' # None /\ retryOwner' # retryOwner
    BY VpndAssumption
  <2>2. ASSUME NEW t \in Callers, engine_start(t)
        PROVE  FALSE
    BY <2>1, <2>2 DEF engine_start, StartRefused, StartSpawns, StartSpawnFails, inner
  <2>3. CASE \/ \E r \in Runs : RetryCode(r)
             \/ \E c \in Clients : Client(c)
             \/ \E t \in Callers : set_engine(t)
             \/ Watcher \/ Boots \/ Shutdown \/ Exits \/ NetworkFlips
    BY <2>1, <2>2, <2>3
    DEF RetryCode, RetryWakes, RetryProbes, Client, ClientStarts, ClientStops,
        ClientRestarts, RestartWaits, RestartStarts, set_engine, Watcher, WatcherCode,
        NetworkIgnored, NetworkPauses, NetworkRestarts, PauseSetsState, PauseWrites,
        RestartAfterFailure, Boots, Shutdown, Exits, NetworkFlips, set_state, Callers, inner
  <2>4. ASSUME NEW f \in Runs, Engine(f)
        PROVE  FALSE
    <3>1. CASE SchedulesRetry(f)
      <4>1. f = e /\ ~stopRequested /\ epc[e] = "schedule"
        BY <2>1, <3>1 DEF SchedulesRetry, schedule_engine_retry, RetryPanics, Step
      <4> QED
        BY <1>1, <4>1 DEF PromptInv, CancelSticks, Live
    <3>2. CASE PanicSchedulesRetry(f)
      BY <1>1, <3>2 DEF PanicSchedulesRetry, Step, CalmInv
    <3>3. CASE ~SchedulesRetry(f) /\ ~PanicSchedulesRetry(f)
      BY <2>1, <2>4, <3>3
      DEF Engine, EngineCode, Obeys, EngineBegins, BadString, store_cmd_fd, CookieObtained,
          HealthPanics, TunnelUp, StageFails, AuthFails, reconnected_cb, ReconnectTimesOut,
          PauseReturned, GoesReconnecting, ErrorReturned, GoesStopped, FreesVpninfo,
          ReportsError, Settles, EngineFinishes, PanicReported, MainloopPaused,
          MainloopCancelled, ChannelDies, GatewayDrops, Becoming, Quietly, set_state,
          mark_engine_finished, inner
    <3> QED
      BY <3>1, <3>2, <3>3
  <2> QED
    BY <1>1, <2>1, <2>3, <2>4 DEF Next, vars, inner
<1>2. TypeOK /\ PromptInv /\ CalmInv /\ [Next]_vars => [Final]_vars
  BY <1>1
<1> QED
  BY <1>2, TypeCorrect, PromptAlways, CalmAlways, PTL DEF Spec, CancelLeavesNoRetry
=============================================================================
