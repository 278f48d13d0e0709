----------------------------- MODULE SessionPool -----------------------------
(***************************************************************************)
(* What a session manager promises about admission, without its tasks,     *)
(* locks, broadcasts or cancellation tokens: a session occupies one of     *)
(* MaxConcurrent places from the moment it is admitted until it ends, and  *)
(* an ended session never occupies a place again.                          *)
(*                                                                         *)
(* SessionManager is shown to implement this specification when its tasks  *)
(* never leave a terminal state.                                           *)
(***************************************************************************)
EXTENDS Naturals, FiniteSets

CONSTANTS Sessions,       \* session identifiers, each used for one session
          MaxConcurrent   \* places in the pool

VARIABLES live,           \* sessions that occupy a place
          ended           \* sessions that gave theirs back

vars == <<live, ended>>

Init == /\ live = {}
        /\ ended = {}

Start(i) ==
    /\ i \notin live \cup ended
    /\ Cardinality(live) < MaxConcurrent
    /\ live' = live \cup {i}
    /\ UNCHANGED ended

End(i) ==
    /\ i \in live
    /\ live' = live \ {i}
    /\ ended' = ended \cup {i}

Next == \E i \in Sessions : Start(i) \/ End(i)

Spec == Init /\ [][Next]_vars
==============================================================================
