-------------------------- MODULE MCSessionManager ---------------------------
(* Values of SessionManager's constants for TLC. *)
EXTENDS SessionManager, TLC

(* A task that retries by itself and never leaves a terminal state.  The state
   between connecting and being connected is left out: the manager treats it
   like any other that is not terminal. *)
TaskMoves ==
    {"Connecting"} \X {"Connected", "Failed"}
        \cup {"Connected"} \X {"Disconnected", "Reconnecting"}
        \cup {"Reconnecting"} \X {"Connected", "Failed"}

(* A task that fails at once: for the runs about cancelling. *)
FailMoves == {<<"Connecting", "Failed">>}

Symmetry == Permutations(Sessions) \cup Permutations(Controllers)
==============================================================================
