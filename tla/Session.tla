------------------------------- MODULE Session -------------------------------
(***************************************************************************)
(* What a client may rely on of the daemon: a session has a status and     *)
(* either an engine or none.  The status moves along Edges while an engine *)
(* runs; without one it is settled and stays as it is.  A process that is  *)
(* told to end is replaced by a new one.                                   *)
(***************************************************************************)
VARIABLES
  status,   \* SessionState, as `status' reports it
  running,  \* is there an engine?
  leaving   \* has the process been told to end?

(* No engine, and none of its work still to be reported.                   *)
Settled == {"stopped", "failed"}

(* Where the status of a session with an engine may go.  state.rs calls    *)
(* the state diagram of docs/architecture.md (152-165) canonical; the      *)
(* daemon leaves it in three places.  A failed session starts again with   *)
(* authentication, not in Connecting (:161), as every engine does.  A      *)
(* gateway that ends the session makes Connected Failed directly, where    *)
(* the diagram has Reconnecting in between (:158-160).  And a stop may     *)
(* come at every stage, not only when connected (:162).                    *)
Edges ==
  (Settled \X {"authenticating"})
    \cup {<<"authenticating", "connecting">>, <<"connecting", "connected">>,
          <<"connected", "reconnecting">>, <<"reconnecting", "connected">>}
    \cup ({"authenticating", "connecting", "connected", "reconnecting"} \X Settled)

Init == status = "stopped" /\ running = FALSE /\ leaving = FALSE

Begins == ~running /\ running' /\ UNCHANGED <<status, leaving>>

Moves == running /\ <<status, status'>> \in Edges /\ UNCHANGED <<running, leaving>>

Ends == running /\ status \in Settled /\ ~running' /\ UNCHANGED <<status, leaving>>

Leaves == ~leaving /\ leaving' /\ UNCHANGED <<status, running>>

Respawns == leaving /\ ~leaving' /\ status' = "stopped" /\ ~running'

Next == Begins \/ Moves \/ Ends \/ Leaves \/ Respawns

Spec == Init /\ [][Next]_<<status, running, leaving>>
=============================================================================
