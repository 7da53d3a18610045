---------------------------- MODULE HealthProofs ----------------------------
(***************************************************************************)
(* How long a session takes to stop, for every interval and every bound on *)
(* the library's calls.                                                    *)
(***************************************************************************)
EXTENDS Health, TLAPS

(* What is left of the probe when stop_health joins it fits into the       *)
(* interval: it will look at the flag, which is up, before it waits again. *)
ProbeInv ==
  /\ engine \in {"gone", "auth", "freeing"} => probe = "none" /\ health = "none"
  /\ engine = "joining" => healthStop /\ since <= Interval
  /\ engine = "joining" /\ probe \in {"asleep", "asking"} => since + left <= Interval

(* What is left of the patience of one who waits covers what the engine    *)
(* still has to do.                                                        *)
Waiters == {"restart", "shutdown"}
Disappointed(w) == IF w = "restart" THEN "refused" ELSE "killed"
PatienceInv(w) ==
  /\ waiter # Disappointed(w)
  /\ waiter = w =>
       /\ engine \in {"gone", "leaving", "joining", "freeing"}
       /\ engine = "leaving" => patience - lib >= Wait(w) - LibTime
       /\ engine = "joining" => patience + since >= Wait(w) - LibTime
       /\ engine = "freeing" => patience - lib >= Wait(w) - Interval - 2 * LibTime

(* TypeOK but for the flag, whose type is a matter of logic alone.         *)
Ranges ==
  /\ engine \in {"gone", "auth", "up", "leaving", "joining", "freeing"}
  /\ probe \in {"none", "loop", "asleep", "asking"}
  /\ health \in {"none", "some"} /\ cookie \in {"none", "some"}
  /\ lib \in 0..LibTime
  /\ left \in 0..Interval
  /\ since \in Nat /\ patience \in Nat
  /\ waiter \in {"nobody", "restart", "shutdown", "refused", "killed"}

LEMMA TypeParts == TypeOK <=> Ranges /\ healthStop \in BOOLEAN
BY DEF TypeOK, Ranges

LEMMA TypeInit == Init => TypeOK
<1> SUFFICES ASSUME Init
             PROVE  TypeOK
  OBVIOUS
<1>1. Ranges
  BY HealthAssumption DEF Init, Ranges
<1>2. healthStop \in BOOLEAN
  BY DEF Init
<1> QED
  BY <1>1, <1>2, TypeParts

LEMMA RangesStep ==
  ASSUME Ranges, [Next]_vars
  PROVE  Ranges'
<1> USE HealthAssumption DEF Ranges
<1>1. CASE EngineStarts \/ start_health \/ StopsHealth \/ Joined \/ Finishes
  BY <1>1 DEF EngineStarts, start_health, StopsHealth, Joined, Finishes
<1>2. CASE LoopTop \/ Wakes \/ Answered
  BY <1>2 DEF LoopTop, Wakes, Answered, curl_checkonline, set_health
<1>3. ASSUME NEW w \in {"restart", "shutdown"}, Waits(w)
      PROVE  Ranges'
  BY <1>3 DEF Waits, Wait
<1>4. CASE Succeeds \/ GivesUp \/ Afterwards
  BY <1>4 DEF Succeeds, GivesUp, Afterwards
<1>5. CASE Tick
  BY <1>5 DEF Tick, Passes
<1>6. CASE UNCHANGED vars
  BY <1>6 DEF vars
<1> QED
  BY <1>1, <1>2, <1>3, <1>4, <1>5, <1>6 DEF Next

LEMMA TypeStep == TypeOK /\ [Next]_vars => TypeOK'
<1> SUFFICES ASSUME TypeOK, [Next]_vars
             PROVE  TypeOK'
  OBVIOUS
<1>1. Ranges'
  BY RangesStep, TypeParts
<1>2. healthStop' \in {healthStop, TRUE, FALSE}
  BY DEF Next, EngineStarts, start_health, StopsHealth, Joined, Finishes, LoopTop, Wakes,
         Answered, curl_checkonline, set_health, Waits, Succeeds, GivesUp, Afterwards, Tick, vars
<1>3. healthStop' \in BOOLEAN
  BY <1>2, TypeParts
<1>4. Ranges' /\ healthStop' \in BOOLEAN => TypeOK'
  BY DEF TypeOK, Ranges
<1> QED
  BY <1>1, <1>3, <1>4

LEMMA ProbeStep == TypeOK /\ ProbeInv /\ [Next]_vars => ProbeInv'
<1> SUFFICES ASSUME TypeOK, ProbeInv, [Next]_vars
             PROVE  ProbeInv'
  OBVIOUS
<1> USE HealthAssumption DEF TypeOK, ProbeInv
<1>1. CASE EngineStarts \/ start_health \/ StopsHealth \/ Joined \/ Finishes
  BY <1>1 DEF EngineStarts, start_health, StopsHealth, Joined, Finishes
<1>2. CASE LoopTop \/ Wakes \/ Answered
  BY <1>2 DEF LoopTop, Wakes, Answered, curl_checkonline, set_health
<1>3. ASSUME NEW w \in {"restart", "shutdown"}, Waits(w)
      PROVE  ProbeInv'
  BY <1>3 DEF Waits
<1>4. CASE Succeeds \/ GivesUp \/ Afterwards
  BY <1>4 DEF Succeeds, GivesUp, Afterwards
<1>5. CASE Tick
  BY <1>5 DEF Tick, Passes
<1>6. CASE UNCHANGED vars
  BY <1>6 DEF vars
<1> QED
  BY <1>1, <1>2, <1>3, <1>4, <1>5, <1>6 DEF Next

LEMMA ProbeAlways == Spec => [](TypeOK /\ ProbeInv)
<1>1. Init => TypeOK /\ ProbeInv
  BY TypeInit DEF Init, ProbeInv
<1>2. TypeOK /\ ProbeInv /\ [Next]_vars => TypeOK' /\ ProbeInv'
  BY TypeStep, ProbeStep
<1> QED
  BY <1>1, <1>2, PTL DEF Spec

(* What the daemon and its waits measure in seconds stays in range.        *)
THEOREM TypeCorrect == Spec => []TypeOK
BY ProbeAlways, PTL

(* No probe outlives its session, and no health is shown for one that is   *)
(* over.                                                                   *)
THEOREM NoStaleProbe == Spec => []ProbeOfSession
<1>1. TypeOK /\ ProbeInv => ProbeOfSession
  BY DEF TypeOK, ProbeInv, ProbeOfSession
<1> QED
  BY <1>1, ProbeAlways, PTL

(* stop_health returns within one interval.                                *)
THEOREM StopHealthBounded == Spec => []JoinBounded
<1>1. ProbeInv => JoinBounded
  BY DEF ProbeInv, JoinBounded
<1> QED
  BY <1>1, ProbeAlways, PTL

LEMMA PatienceStep ==
  ASSUME NEW w \in Waiters, Interval + 2 * LibTime < Wait(w),
         TypeOK, ProbeInv, PatienceInv(w), [Next]_vars
  PROVE  PatienceInv(w)'
<1> USE HealthAssumption DEF TypeOK, ProbeInv, PatienceInv, Waiters, Wait, Disappointed
<1>1. CASE EngineStarts \/ start_health \/ StopsHealth \/ Joined \/ Finishes
  BY <1>1 DEF EngineStarts, start_health, StopsHealth, Joined, Finishes
<1>2. CASE LoopTop \/ Wakes \/ Answered
  BY <1>2 DEF LoopTop, Wakes, Answered, curl_checkonline, set_health
<1>3. ASSUME NEW v \in {"restart", "shutdown"}, Waits(v)
      PROVE  PatienceInv(w)'
  BY <1>3 DEF Waits
<1>4. CASE Succeeds \/ GivesUp \/ Afterwards
  BY <1>4 DEF Succeeds, GivesUp, Afterwards
<1>5. CASE Tick
  BY <1>5 DEF Tick, Passes
<1>6. CASE UNCHANGED vars
  BY <1>6 DEF vars
<1> QED
  BY <1>1, <1>2, <1>3, <1>4, <1>5, <1>6 DEF Next

(* A restart is never refused when an interval and two calls of the        *)
(* library fit into its patience.                                          *)
THEOREM RestartFits ==
  ASSUME Interval + 2 * LibTime < RestartWait
  PROVE  Spec => []RestartInTime
<1>1. "restart" \in Waiters /\ Interval + 2 * LibTime < Wait("restart")
  BY DEF Waiters, Wait
<1>2. Init => PatienceInv("restart")
  BY DEF Init, PatienceInv, Disappointed
<1>3. TypeOK /\ ProbeInv /\ PatienceInv("restart") /\ [Next]_vars => PatienceInv("restart")'
  BY <1>1, PatienceStep
<1>4. PatienceInv("restart") => RestartInTime
  BY DEF PatienceInv, Disappointed, RestartInTime
<1> QED
  BY <1>2, <1>3, <1>4, ProbeAlways, PTL DEF Spec

(* And a shutdown never leaves the engine behind, with the gateway's       *)
(* session and the routes it holds, when they fit into the daemon's own.   *)
THEOREM ShutdownFits ==
  ASSUME Interval + 2 * LibTime < ShutdownWait
  PROVE  Spec => [](waiter # "killed")
<1>1. "shutdown" \in Waiters /\ Interval + 2 * LibTime < Wait("shutdown")
  BY DEF Waiters, Wait
<1>2. Init => PatienceInv("shutdown")
  BY DEF Init, PatienceInv, Disappointed
<1>3. TypeOK /\ ProbeInv /\ PatienceInv("shutdown") /\ [Next]_vars => PatienceInv("shutdown")'
  BY <1>1, PatienceStep
<1>4. PatienceInv("shutdown") => (waiter # "killed")
  BY DEF PatienceInv, Disappointed
<1> QED
  BY <1>2, <1>3, <1>4, ProbeAlways, PTL DEF Spec
=============================================================================
