------------------------------- MODULE Publish -------------------------------
(***************************************************************************)
(* How a change of the daemon's status reaches state.json and the clients  *)
(* of `inode status --watch'.  set_state changes Inner under the lock, and *)
(* only then persists and emits, each from what Inner says by then; a      *)
(* subscriber is registered before it is sent its first snapshot.  Other   *)
(* threads may change the status in between.                               *)
(*                                                                         *)
(* What Inner says is abstracted to a revision: how often set_state and    *)
(* engine_start have changed it since the process started.                 *)
(***************************************************************************)
EXTENDS Naturals, Sequences, FiniteSets

CONSTANTS
  Setters,     \* threads that call set_state: engines and the watcher
  Watchers,    \* subscribed connections
  Torn,        \* the content of a file whose writer died or failed
  MaxCalls     \* how many calls of set_state and engine_start are followed

ASSUME PublishAssumption ==
  /\ IsFiniteSet(Setters)
  /\ MaxCalls \in Nat
  /\ Torn \notin Nat

VARIABLES
  calls,    \* calls of set_state and engine_start so far
  rev,      \* what Inner says
  silent,   \* whether engine_start was the last to change it
  file,     \* what state.json says
  lost,     \* whether the last attempt to write it failed
  pc,       \* where each setter is in set_state
  snap,     \* the snapshot a setter is about to emit
  wpc,      \* how far each connection has got in subscribing
  wsnap,    \* the snapshot it is about to be sent
  listed,   \* Shared.subscribers
  sent,     \* what has been sent into each connection's channel
  read      \* how much of it the client has been shown

vars == <<calls, rev, silent, file, lost, pc, snap, wpc, wsnap, listed, sent, read>>

Init ==
  /\ calls = 0 /\ rev = 0 /\ silent = FALSE
  /\ file = Torn /\ lost = FALSE
  /\ pc = [t \in Setters |-> "idle"]
  /\ snap = [t \in Setters |-> 0]
  /\ wpc = [w \in Watchers |-> "out"]
  /\ wsnap = [w \in Watchers |-> 0]
  /\ listed = {}
  /\ sent = [w \in Watchers |-> <<>>]
  /\ read = [w \in Watchers |-> 0]

At(t, from, to) == pc[t] = from /\ pc' = [pc EXCEPT ![t] = to]

WatchersWait == UNCHANGED <<wpc, wsnap, listed, sent, read>>

-----------------------------------------------------------------------------
(* set_state; a state or an error that is set again changes nothing.       *)
set_state(t) ==
  /\ calls < MaxCalls /\ calls' = calls + 1
  /\ At(t, "idle", "persist")
  /\ rev' \in {rev, rev + 1}
  /\ silent' = FALSE
  /\ snap' = [snap EXCEPT ![t] = rev']
  /\ UNCHANGED <<file, lost>>
  /\ WatchersWait

(* A start clears last_error and takes another configuration, whose        *)
(* autostart state.json repeats, and leaves it to the engine's first       *)
(* set_state to say so.                                                    *)
engine_start ==
  /\ calls < MaxCalls /\ calls' = calls + 1
  /\ rev' = rev + 1 /\ silent' = TRUE
  /\ UNCHANGED <<file, lost, pc, snap>>
  /\ WatchersWait

(* Slip: the file gets the state that was set, not the one Inner has.      *)
PersistsOwn(t) ==
  /\ At(t, "persist", "snapshot")
  /\ file' = snap[t] /\ lost' = FALSE
  /\ UNCHANGED <<calls, rev, silent, snap>>
  /\ WatchersWait

(* No failure is reported: without its directory or the right to create    *)
(* it, the file stays as it is; where the write fails, it is left torn.    *)
persist_state(t) ==
  /\ At(t, "persist", "snapshot")
  /\ \/ file' = rev /\ lost' = FALSE
     \/ file' \in {file, Torn} /\ lost' = TRUE
  /\ UNCHANGED <<calls, rev, silent, snap>>
  /\ WatchersWait

snapshot_json(t) ==
  /\ At(t, "snapshot", "emit")
  /\ snap' = [snap EXCEPT ![t] = rev]
  /\ UNCHANGED <<calls, rev, silent, file, lost>>
  /\ WatchersWait

(* Slip: a connection that subscribes is registered twice.                 *)
EmitsTwice(t) ==
  /\ At(t, "emit", "idle")
  /\ listed' = {w \in listed : wpc[w] # "gone"}
  /\ sent' = [w \in Watchers |-> IF w \in listed' THEN sent[w] \o <<snap[t], snap[t]>>
                                 ELSE sent[w]]
  /\ UNCHANGED <<calls, rev, silent, file, lost, snap, wpc, wsnap, read>>

(* Every subscriber whose receiver is alive is sent the event; the others  *)
(* are dropped from the list.                                              *)
emit(t) ==
  /\ At(t, "emit", "idle")
  /\ listed' = {w \in listed : wpc[w] # "gone"}
  /\ sent' = [w \in Watchers |-> IF w \in listed' THEN Append(sent[w], snap[t]) ELSE sent[w]]
  /\ UNCHANGED <<calls, rev, silent, file, lost, snap, wpc, wsnap, read>>

-----------------------------------------------------------------------------
(* handle_client on "subscribe", then the connection's writer thread.      *)
Moves(w, from, to) == wpc[w] = from /\ wpc' = [wpc EXCEPT ![w] = to]

SettersWait == UNCHANGED <<calls, rev, silent, file, lost, pc, snap>>

Subscribes(w) ==
  /\ Moves(w, "out", "listed")
  /\ listed' = listed \cup {w}
  /\ SettersWait
  /\ UNCHANGED <<wsnap, sent, read>>

(* The response is written before any event, or the connection is given up. *)
Answered(w) ==
  /\ Moves(w, "listed", "answered") \/ Moves(w, "listed", "gone")
  /\ SettersWait
  /\ UNCHANGED <<wsnap, listed, sent, read>>

TakesSnapshot(w) ==
  /\ Moves(w, "answered", "holding")
  /\ wsnap' = [wsnap EXCEPT ![w] = rev]
  /\ SettersWait
  /\ UNCHANGED <<listed, sent, read>>

(* Slip: the first snapshot is left to the next event.                     *)
SendsNothing(w) ==
  /\ Moves(w, "holding", "in")
  /\ SettersWait
  /\ UNCHANGED <<wsnap, listed, sent, read>>

SendsSnapshot(w) ==
  /\ Moves(w, "holding", "in")
  /\ sent' = [sent EXCEPT ![w] = Append(@, wsnap[w])]
  /\ SettersWait
  /\ UNCHANGED <<wsnap, listed, read>>

(* Slip: two events are taken at a time.                                   *)
ShowsPastEnd(w) ==
  /\ wpc[w] = "in" /\ read[w] < Len(sent[w])
  /\ read' = [read EXCEPT ![w] = @ + 2]
  /\ SettersWait
  /\ UNCHANGED <<wpc, wsnap, listed, sent>>

(* Slip: an event stays in a buffer until the next one.                    *)
ShowsAllButLast(w) ==
  /\ wpc[w] = "in" /\ read[w] + 1 < Len(sent[w])
  /\ read' = [read EXCEPT ![w] = @ + 1]
  /\ SettersWait
  /\ UNCHANGED <<wpc, wsnap, listed, sent>>

(* The writer thread takes the next event off the channel and writes it.   *)
Shows(w) ==
  /\ wpc[w] = "in" /\ read[w] < Len(sent[w])
  /\ read' = [read EXCEPT ![w] = @ + 1]
  /\ SettersWait
  /\ UNCHANGED <<wpc, wsnap, listed, sent>>

(* The client hangs up: the write fails, and the receiver is dropped.      *)
HangsUp(w) ==
  /\ wpc[w] = "in" /\ read[w] < Len(sent[w])
  /\ wpc' = [wpc EXCEPT ![w] = "gone"]
  /\ SettersWait
  /\ UNCHANGED <<wsnap, listed, sent, read>>

(* The process dies and another starts, which does not look at state.json. *)
(* persist_state truncates the file before it writes it.                   *)
Respawns ==
  /\ file' = file \/ (file' = Torn /\ \E t \in Setters : pc[t] = "persist")
  /\ lost' = FALSE
  /\ calls' = 0 /\ rev' = 0 /\ silent' = FALSE
  /\ pc' = [t \in Setters |-> "idle"]
  /\ snap' = [t \in Setters |-> 0]
  /\ wpc' = [w \in Watchers |-> "out"]
  /\ wsnap' = [w \in Watchers |-> 0]
  /\ listed' = {}
  /\ sent' = [w \in Watchers |-> <<>>]
  /\ read' = [w \in Watchers |-> 0]

-----------------------------------------------------------------------------
Setter(t) == set_state(t) \/ persist_state(t) \/ snapshot_json(t) \/ emit(t)

Watcher(w) ==
  \/ Subscribes(w) \/ Answered(w) \/ TakesSnapshot(w) \/ SendsSnapshot(w)
  \/ Shows(w) \/ HangsUp(w)

Next ==
  \/ \E t \in Setters : Setter(t)
  \/ engine_start
  \/ \E w \in Watchers : Watcher(w)
  \/ Respawns

Spec == Init /\ [][Next]_vars

(* A call of set_state, a subscription and a writer thread that has begun  *)
(* goes on; a client that stays reads what it is written.                  *)
Fairness ==
  /\ \A t \in Setters : WF_vars(persist_state(t) \/ snapshot_json(t) \/ emit(t))
  /\ \A w \in Watchers :
       /\ WF_vars(Answered(w) \/ TakesSnapshot(w) \/ SendsSnapshot(w))
       /\ WF_vars(Shows(w))

FairSpec == Spec /\ Fairness

-----------------------------------------------------------------------------
Sent(w) == {sent[w][i] : i \in 1..Len(sent[w])}

TypeOK ==
  /\ calls \in 0..MaxCalls /\ rev \in 0..calls
  /\ silent \in BOOLEAN /\ lost \in BOOLEAN
  /\ file \in 0..MaxCalls \cup {Torn}
  /\ pc \in [Setters -> {"idle", "persist", "snapshot", "emit"}]
  /\ snap \in [Setters -> 0..MaxCalls]
  /\ wpc \in [Watchers -> {"out", "listed", "answered", "holding", "in", "gone"}]
  /\ wsnap \in [Watchers -> 0..MaxCalls]
  /\ listed \subseteq Watchers
  /\ sent \in [Watchers -> Seq(0..MaxCalls)]
  /\ read \in [Watchers -> Nat]
  /\ \A w \in Watchers : read[w] <= Len(sent[w])

(* Between two changes state.json says what the daemon says: however       *)
(* set_state's callers interleave, the last one to write the file writes   *)
(* the newest state.  Three cases are not covered, and the code reports    *)
(* none of them: the last write failed, as every write does under the      *)
(* systemd unit of `inode enable', in which the user's home is read-only;  *)
(* a start has been accepted and its engine has not called set_state yet;  *)
(* and a new process, until its first change, leaves the file of its       *)
(* predecessor alone.                                                      *)
FileSettles ==
  rev > 0 /\ ~silent /\ (\A t \in Setters : pc[t] # "persist") => file = rev \/ lost

(* No change is lost on a client: once those who changed the status with   *)
(* set_state have emitted their events, a subscriber has been sent the     *)
(* newest one, even if it subscribed while they did.  (Not necessarily     *)
(* last: an event may be overtaken between its snapshot and its sending.   *)
(* What engine_start changes waits for the next call of set_state.)        *)
NewestIsSent ==
  \A w \in Watchers :
    wpc[w] = "in" /\ ~silent /\ (\A t \in Setters : pc[t] = "idle") => rev \in Sent(w)

(* Events may overtake each other between snapshot and sending, so what a  *)
(* client is shown last may be old: but no more events follow the newest   *)
(* one than there are threads that call set_state, however late they were. *)
OvertakenBounded ==
  \A w \in Watchers :
    wpc[w] = "in" /\ ~silent /\ (\A t \in Setters : pc[t] = "idle")
      => \E i \in 1..Len(sent[w]) :
           sent[w][i] = rev /\ Len(sent[w]) - i <= Cardinality(Setters)

Shown(w) == {sent[w][i] : i \in 1..read[w]}

(* Every state that set_state leaves the daemon in, and that lasts long    *)
(* enough, is shown to every client that asked for it and stays: a         *)
(* subscriber is never left waiting behind a snapshot it was not sent.     *)
NewestIsShown ==
  \A w \in Watchers : \A r \in 0..MaxCalls :
    wpc[w] \in {"listed", "answered", "holding", "in"} /\ rev = r /\ ~silent
      ~> wpc[w] \in {"gone", "out"} \/ rev # r \/ r \in Shown(w)
=============================================================================
