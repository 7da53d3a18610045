------------------------------- MODULE Health -------------------------------
(***************************************************************************)
(* The checkonline probe of a session and what it costs to stop it.  The   *)
(* engine starts a probe thread once it has a cookie and joins it in       *)
(* stop_health before it frees the library's state; a client's `restart'   *)
(* and the daemon's shutdown wait only so long for the engine to be gone.  *)
(* The probe looks at its stop flag round a sleep, so time matters: a tick *)
(* of the clock is a second, and code between two waits takes none.        *)
(***************************************************************************)
EXTENDS Integers

CONSTANTS
  Interval,      \* seconds between probes, keepalive.seconds(30).max(5)
  CurlTime,      \* curl's --max-time
  LibTime,       \* an upper bound for leaving the mainloop after a CANCEL,
                 \* and for openconnect_vpninfo_free
  RestartWait,   \* what dispatch's "restart" gives wait_for_engine_finish
  ShutdownWait   \* what main gives it

ASSUME HealthAssumption ==
  /\ CurlTime \in Nat /\ LibTime \in Nat
  /\ RestartWait \in Nat /\ ShutdownWait \in Nat
  /\ Interval \in Nat /\ Interval >= CurlTime

VARIABLES
  engine,      \* where the engine thread is
  lib,         \* seconds its call of the library still takes
  healthStop,  \* Shared.health_stop
  probe,       \* where the probe thread is; "none" when there is none to join
  left,        \* seconds its sleep or its curl still takes
  health,      \* Inner.health
  cookie,      \* Inner.cookie
  since,       \* seconds the engine has spent in stop_health
  waiter,      \* who waits for the engine to be gone, or how that ended
  patience     \* seconds it still waits

vars == <<engine, lib, healthStop, probe, left, health, cookie, since, waiter, patience>>

Wait(w) == IF w = "restart" THEN RestartWait ELSE ShutdownWait

Init ==
  /\ engine = "gone" /\ lib = 0
  /\ healthStop = FALSE /\ probe = "none" /\ left = 0
  /\ health = "none" /\ cookie = "none" /\ since = 0
  /\ waiter = "nobody" /\ patience = 0

-----------------------------------------------------------------------------
(* The engine thread.                                                      *)
EngineStarts ==
  /\ engine = "gone" /\ waiter = "nobody"
  /\ engine' = "auth"
  /\ UNCHANGED <<lib, healthStop, probe, left, health, cookie, since, waiter, patience>>

(* openconnect_get_cookie may have nothing to give.                        *)
start_health ==
  /\ engine = "auth"
  /\ engine' = "up"
  /\ cookie' \in {cookie, "some"}
  /\ healthStop' = FALSE
  /\ probe' = "loop"
  /\ UNCHANGED <<lib, left, health, since, waiter, patience>>

(* Slip: the flag is not raised before the join.                           *)
JoinsUnflagged ==
  /\ engine = "auth" \/ engine = "up" \/ (engine = "leaving" /\ lib = 0)
  /\ engine' = "joining"
  /\ since' = 0
  /\ UNCHANGED <<lib, healthStop, probe, left, health, cookie, waiter, patience>>

(* stop_health begins: authentication failed, the session ended by itself, *)
(* or the mainloop has returned after a CANCEL.                            *)
StopsHealth ==
  /\ engine = "auth" \/ engine = "up" \/ (engine = "leaving" /\ lib = 0)
  /\ engine' = "joining"
  /\ healthStop' = TRUE
  /\ since' = 0
  /\ UNCHANGED <<lib, probe, left, health, cookie, waiter, patience>>

(* Slip: the thread is not joined.                                         *)
NotJoined ==
  /\ engine = "joining"
  /\ health' = "none" /\ cookie' = "none"
  /\ engine' = "freeing"
  /\ lib' \in 0..LibTime
  /\ UNCHANGED <<healthStop, probe, left, since, waiter, patience>>

(* The thread is joined, then what it reported is forgotten.               *)
Joined ==
  /\ engine = "joining" /\ probe = "none"
  /\ health' = "none" /\ cookie' = "none"
  /\ engine' = "freeing"
  /\ lib' \in 0..LibTime
  /\ UNCHANGED <<healthStop, probe, left, since, waiter, patience>>

Finishes ==
  /\ engine = "freeing" /\ lib = 0
  /\ engine' = "gone"
  /\ UNCHANGED <<lib, healthStop, probe, left, health, cookie, since, waiter, patience>>

-----------------------------------------------------------------------------
(* The probe thread, health_loop.                                          *)
(* Slip: what curl may take is added to the sleep.                         *)
SleepsLonger ==
  /\ probe = "loop"
  /\ IF healthStop
     THEN probe' = "none" /\ UNCHANGED left
     ELSE probe' = "asleep" /\ left' = Interval + CurlTime
  /\ UNCHANGED <<engine, lib, healthStop, health, cookie, since, waiter, patience>>

LoopTop ==
  /\ probe = "loop"
  /\ IF healthStop
     THEN probe' = "none" /\ UNCHANGED left
     ELSE probe' = "asleep" /\ left' = Interval
  /\ UNCHANGED <<engine, lib, healthStop, health, cookie, since, waiter, patience>>

(* Slip: the flag is looked at before the sleep only.                      *)
WakesUnchecked ==
  /\ probe = "asleep" /\ left = 0
  /\ IF cookie = "none"
     THEN probe' = "loop" /\ UNCHANGED left
     ELSE probe' = "asking" /\ left' \in 0..CurlTime
  /\ UNCHANGED <<engine, lib, healthStop, health, cookie, since, waiter, patience>>

(* What curl may take, whatever it finds out.                              *)
curl_checkonline == 0..CurlTime

Wakes ==
  /\ probe = "asleep" /\ left = 0
  /\ \/ healthStop /\ probe' = "none" /\ UNCHANGED left
     \/ ~healthStop /\ cookie = "none" /\ probe' = "loop" /\ UNCHANGED left
     \/ ~healthStop /\ cookie = "some" /\ probe' = "asking" /\ left' \in curl_checkonline
  /\ UNCHANGED <<engine, lib, healthStop, health, cookie, since, waiter, patience>>

set_health == health' = "some"

(* curl_checkonline returns, with the gateway's answer or without it, and  *)
(* set_health stores which.                                                *)
Answered ==
  /\ probe = "asking" /\ left = 0
  /\ set_health
  /\ probe' = "loop"
  /\ UNCHANGED <<engine, lib, healthStop, left, cookie, since, waiter, patience>>

-----------------------------------------------------------------------------
(* Those who wait: request_stop, whose CANCEL makes the mainloop return,   *)
(* then wait_for_engine_finish.  (A stop during authentication may be lost *)
(* altogether: see StopEndsEngine in module Vpnd.)                         *)
Waits(w) ==
  /\ waiter = "nobody" /\ engine # "auth"
  /\ IF engine = "up"
     THEN engine' = "leaving" /\ lib' \in 0..LibTime
     ELSE UNCHANGED <<engine, lib>>
  /\ waiter' = w
  /\ patience' = Wait(w)
  /\ UNCHANGED <<healthStop, probe, left, health, cookie, since>>

(* The engine is gone: restart starts one, main says so and exits; or it   *)
(* is gone at last, after a client gave up on it.                          *)
Succeeds ==
  /\ waiter \in {"restart", "shutdown", "refused"} /\ engine = "gone"
  /\ waiter' = "nobody"
  /\ UNCHANGED <<engine, lib, healthStop, probe, left, health, cookie, since, patience>>

(* The deadline has passed with the engine still there: "engine did not    *)
(* stop in time", and no engine is started; main exits without it.         *)
GivesUp ==
  /\ waiter \in {"restart", "shutdown"} /\ engine # "gone" /\ patience = 0
  /\ waiter' = IF waiter = "restart" THEN "refused" ELSE "killed"
  /\ UNCHANGED <<engine, lib, healthStop, probe, left, health, cookie, since, patience>>

(* The process is gone, and the supervisor starts it again.                *)
Afterwards ==
  /\ waiter = "killed"
  /\ engine' = "gone" /\ lib' = 0
  /\ healthStop' = FALSE /\ probe' = "none" /\ left' = 0
  /\ health' = "none" /\ cookie' = "none" /\ since' = 0
  /\ waiter' = "nobody" /\ patience' = 0

-----------------------------------------------------------------------------
Passes(n) == IF n > 0 THEN n - 1 ELSE 0

(* Time passes when every thread waits for it.                             *)
Tick ==
  /\ engine \in {"leaving", "freeing"} => lib > 0
  /\ engine = "joining" => probe # "none"
  /\ probe # "loop"
  /\ probe \in {"asleep", "asking"} => left > 0
  /\ waiter \in {"restart", "shutdown"} => engine # "gone" /\ patience > 0
  /\ engine # "gone" /\ waiter # "killed"
  /\ lib' = Passes(lib) /\ left' = Passes(left) /\ patience' = Passes(patience)
  /\ since' = IF engine = "joining" THEN since + 1 ELSE since
  /\ UNCHANGED <<engine, healthStop, probe, health, cookie, waiter>>

Next ==
  \/ EngineStarts \/ start_health \/ StopsHealth \/ Joined \/ Finishes
  \/ LoopTop \/ Wakes \/ Answered
  \/ \E w \in {"restart", "shutdown"} : Waits(w)
  \/ Succeeds \/ GivesUp \/ Afterwards
  \/ Tick

Spec == Init /\ [][Next]_vars

-----------------------------------------------------------------------------
TypeOK ==
  /\ engine \in {"gone", "auth", "up", "leaving", "joining", "freeing"}
  /\ probe \in {"none", "loop", "asleep", "asking"}
  /\ healthStop \in BOOLEAN
  /\ health \in {"none", "some"} /\ cookie \in {"none", "some"}
  /\ lib \in 0..LibTime
  /\ left \in 0..Interval
  /\ since \in Nat /\ patience \in Nat
  /\ waiter \in {"nobody", "restart", "shutdown", "refused", "killed"}

(* A probe, and the health it reports, are those of the session in         *)
(* progress: once stop_health has returned no probe is left that could     *)
(* still call set_health, whatever it was doing when it was stopped.       *)
ProbeOfSession ==
  probe # "none" \/ health = "some" => engine \in {"up", "leaving", "joining"}

(* stop_health returns within one interval: the probe that sleeps looks at *)
(* the flag before it would ask again, and the one that asks does not      *)
(* sleep again.                                                            *)
JoinBounded == engine = "joining" => since <= Interval

(* `inode restart' waits for the engine to be gone and starts another: it  *)
(* is not refused.                                                         *)
RestartInTime == waiter # "refused"
=============================================================================
