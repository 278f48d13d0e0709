------------------------------ MODULE AgentProofs ------------------------------
(***************************************************************************)
(* The agent: what the session manager guarantees for every number of      *)
(* sessions, threads, places, reconnections and calls; its control socket, *)
(* for every number of agents, clients, lines and failures; the service    *)
(* that runs it, for every request, fault and reboot; its log writer, the  *)
(* redaction of what it writes and its audit trail, for every text, secret,*)
(* cut and short write.                                                    *)
(***************************************************************************)
EXTENDS SessionManager, AgentSocket, PlatformService, Logs, Induction, FiniteSetTheorems,
        SequenceTheorems, TLAPS

InTransition == {"update", "send", "audit", "release"}

(* A task's call is about itself and carries the state the task is in. *)
TaskCalls ==
    \A i \in Sessions :
        /\ todo[i] = {}
        /\ pc[i] \in InTransition \cup {"idle"}
        /\ pc[i] # "idle" => call[i].id = i /\ call[i].state = at[i]

(* A session that was never registered has left no trace. *)
Unregistered ==
    \A i \in Sessions : i \notin Registered =>
        slots[i] = NoSlot /\ token[i] = "none" /\ pc[i] = "idle"

(* A controller only ever transitions a session whose slot it found gone: it
   can no longer write to the table. *)
ControllerCalls ==
    \A t \in Controllers :
        /\ todo[t] \subseteq Registered
        /\ pc[t] \in InTransition \cup {"fire"} =>
              call[t].id \in Registered /\ slots[call[t].id] = NoSlot

(* A slot shows the state of its task, or the one before it while the task
   is about to write; its token is armed. *)
SlotFollowsTask ==
    \A i \in Listed :
        /\ token[i] = "armed"
        /\ pc[i] # "update" => slots[i].state = at[i]
        /\ pc[i] = "update" => \/ slots[i].state = at[i]
                               \/ <<slots[i].state, at[i]>> \in Moves
        /\ pc[i] \in {"idle", "audit", "release"} => last[i] = slots[i].state

Control == TaskCalls /\ Unregistered /\ ControllerCalls /\ SlotFollowsTask

IInv == TypeOK /\ Control
------------------------------------------------------------------------------
(* The count that register compares is a number. *)
LEMMA SessionSetsAreFinite ==
    ASSUME NEW S \in SUBSET Sessions
    PROVE  IsFiniteSet(S) /\ Cardinality(S) \in Nat
  BY ManagerAssumption, FS_Subset, FS_CardinalityType

LEMMA RecordsAreAuditRecords == \A s \in SessionState : Record(s) \in AuditRecord
  BY DEF AuditRecord

LEMMA WithStateIsSlot ==
    ASSUME NEW slot \in Slot, NEW s \in SessionState
    PROVE  /\ WithState(slot, s) \in Slot
           /\ WithState(slot, s).state = s
           /\ WithState(slot, s) # NoSlot
  <1> DEFINE n == IF s = "Reconnecting" THEN slot.attempt + 1 ELSE slot.attempt
  <1>1. n \in Nat
    BY DEF Slot
  <1>2. WithState(slot, s) = [slot EXCEPT !.state = s, !.attempt = n]
    BY DEF WithState
  <1> HIDE DEF n
  <1>3. WithState(slot, s) \in Slot /\ WithState(slot, s).state = s
    BY <1>1, <1>2 DEF Slot
  <1>4. QED  BY <1>3, ManagerAssumption

(* Every variable keeps its type, in every interleaving. *)
LEMMA TypeInductive == TypeOK /\ [Next]_vars => TypeOK'
  <1> SUFFICES ASSUME TypeOK, [Next]_vars PROVE TypeOK'
    OBVIOUS
  <1> USE DEF TypeOK, Threads, Step, news
  <1>1. ASSUME NEW t \in Threads, Update(t) PROVE TypeOK'
    <2>1. call[t].id \in Sessions /\ call[t].state \in SessionState
      OBVIOUS
    <2>2. slots' \in [Sessions -> Slot \cup {NoSlot}]
      BY <1>1, <2>1, WithStateIsSlot DEF Update
    <2>3. QED  BY <1>1, <2>2 DEF Update
  <1>2. ASSUME NEW t \in Threads, Send(t) PROVE TypeOK'
    <2>1. call[t].id \in Sessions /\ call[t].state \in SessionState
      OBVIOUS
    <2>2. AfterSend(t) \in Step
      BY DEF AfterSend, AfterAudit, Caller
    <2>3. told' \in [Sessions -> [SessionState -> Nat]]
      BY <1>2, <2>1 DEF Send
    <2>4. QED  BY <1>2, <2>1, <2>2, <2>3 DEF Send
  <1>3. ASSUME NEW t \in Threads, Log(t) PROVE TypeOK'
    <2>1. /\ call[t].id \in Sessions
          /\ Record(call[t].state) \in AuditRecord
      BY RecordsAreAuditRecords
    <2>2. AfterAudit(t) \in Step
      BY DEF AfterAudit, Caller
    <2>3. audited' \in [Sessions -> [AuditRecord -> Nat]]
      BY <1>3, <2>1 DEF Log
    <2>4. QED  BY <1>3, <2>2, <2>3 DEF Log
  <1>4. ASSUME NEW t \in Threads, Release(t) PROVE TypeOK'
    BY <1>4 DEF Release, Caller
  <1>5. ASSUME NEW i \in Sessions, Register(i) PROVE TypeOK'
    <2>1. [state |-> "Connecting", attempt |-> 0] \in Slot
      BY DEF Slot, SessionState
    <2>2. QED
      BY <1>5, <2>1 DEF Register, Begin, TokenPlace, TaskState, SessionState
  <1>6. ASSUME NEW i \in Sessions, RegisterRefused(i) PROVE TypeOK'
    BY <1>6 DEF RegisterRefused, TaskState
  <1>7. ASSUME NEW i \in Sessions, NEW s \in SessionState, Report(i, s) PROVE TypeOK'
    BY <1>7 DEF Report, Begin, TaskState
  <1>8. ASSUME NEW i \in Sessions, Stop(i) PROVE TypeOK'
    BY <1>8 DEF Stop, TaskState
  <1>9. ASSUME NEW t \in Controllers, NEW i \in Sessions, Cancel(t, i) PROVE TypeOK'
    BY <1>9 DEF Cancel, CallBegins, Take, TokenPlace, SessionState
  <1>10. ASSUME NEW t \in Controllers, NEW i \in Sessions, CancelNext(t, i) PROVE TypeOK'
    BY <1>10 DEF CancelNext, Take, TokenPlace, SessionState
  <1>11. ASSUME NEW t \in Controllers, Fire(t) PROVE TypeOK'
    BY <1>11 DEF Fire, TokenPlace
  <1>12. ASSUME NEW t \in Controllers, CancelAll(t) PROVE TypeOK'
    BY <1>12 DEF CancelAll, CallBegins, Listed
  <1>13. ASSUME NEW t \in Controllers, Prune(t) PROVE TypeOK'
    BY <1>13 DEF Prune, CallBegins, TokenPlace
  <1>14. CASE UNCHANGED vars
    BY <1>14 DEF vars
  <1>15. QED
    BY <1>1, <1>2, <1>3, <1>4, <1>5, <1>6, <1>7, <1>8, <1>9, <1>10, <1>11, <1>12, <1>13, <1>14
       DEF Next, TransitionStep, TaskStep, ControllerStep

LEMMA InitType == Init => TypeOK
  BY DEF Init, TypeOK, Threads, Step, TokenPlace, TaskState, SessionState

(* rdt-session/src/lib.rs, all operations: the manager's state keeps its
   types. *)
THEOREM TypeCorrect == Spec => []TypeOK
  BY InitType, TypeInductive, PTL DEF Spec

------------------------------------------------------------------------------
(* Who may write to a slot: the task it belongs to, and nobody else. *)
LEMMA ControlInductive == TypeOK /\ TypeOK' /\ Control /\ [Next]_vars => Control'
  <1> SUFFICES ASSUME TypeOK, TypeOK', Control, [Next]_vars PROVE Control'
    OBVIOUS
  <1> USE ManagerAssumption DEF TypeOK, Threads, news, Registered, Listed, InTransition
  <1>1. ASSUME NEW t \in Threads, Update(t) PROVE Control'
    <2>1. TaskCalls'
      BY <1>1 DEF Control, TaskCalls, Update, Caller
    <2>2. Unregistered'
      BY <1>1 DEF Control, TaskCalls, Unregistered, Update, Caller
    <2>3. ControllerCalls'
      BY <1>1 DEF Control, ControllerCalls, TaskCalls, Unregistered, Update, Caller
    <2>4. SlotFollowsTask'
      <3>1. CASE t \in Controllers
        <4>1. slots' = slots
          BY <1>1, <3>1 DEF Control, ControllerCalls, Update
        <4>2. \A i \in Sessions : pc'[i] = pc[i]
          BY <1>1, <3>1 DEF Update
        <4>3. QED  BY <1>1, <4>1, <4>2 DEF Control, SlotFollowsTask, Update
      <3>2. CASE t \in Sessions
        <4>1. call[t].id = t /\ call[t].state = at[t]
          BY <1>1, <3>2 DEF Control, TaskCalls, Update
        <4>2. call[t].state \in SessionState
          OBVIOUS
        <4>3. slots'[t] # NoSlot => slots[t] # NoSlot /\ slots'[t].state = at[t]
          <5>1. slots'[t] = IF slots[t] = NoSlot THEN NoSlot ELSE WithState(slots[t], at[t])
            BY <1>1, <3>2, <4>1 DEF Update
          <5>2. slots[t] # NoSlot => slots[t] \in Slot
            BY <3>2
          <5>3. at[t] \in SessionState
            BY <4>1, <4>2
          <5>4. slots[t] # NoSlot => WithState(slots[t], at[t]).state = at[t]
            BY <5>2, <5>3, WithStateIsSlot
          <5>5. QED  BY <5>1, <5>4
        <4>4. \A i \in Sessions \ {t} : slots'[i] = slots[i] /\ pc'[i] = pc[i]
          BY <1>1, <4>1 DEF Update
        <4>5. pc'[t] = "send" /\ UNCHANGED <<token, at, last>>
          BY <1>1, <3>2 DEF Update
        <4> SUFFICES ASSUME NEW i \in Sessions, slots'[i] # NoSlot
                     PROVE  /\ token'[i] = "armed"
                            /\ pc'[i] # "update" => slots'[i].state = at'[i]
                            /\ pc'[i] = "update" => \/ slots'[i].state = at'[i]
                                                    \/ <<slots'[i].state, at'[i]>> \in Moves
                            /\ pc'[i] \in {"idle", "audit", "release"} => last'[i] = slots'[i].state
          BY DEF SlotFollowsTask, Listed
        <4>6. slots[i] # NoSlot /\ i \in Listed
          BY <4>3, <4>4 DEF Listed
        <4>7. /\ token[i] = "armed"
              /\ pc[i] # "update" => slots[i].state = at[i]
              /\ pc[i] = "update" => \/ slots[i].state = at[i]
                                     \/ <<slots[i].state, at[i]>> \in Moves
              /\ pc[i] \in {"idle", "audit", "release"} => last[i] = slots[i].state
          BY ONLY Control, <4>6 DEF Control, SlotFollowsTask
        <4>8. CASE i = t
          BY ONLY slots'[i] # NoSlot, <4>3, <4>5, <4>7, <4>8
        <4>9. CASE i # t
          <5>1. slots'[i] = slots[i] /\ pc'[i] = pc[i]
            BY <4>4, <4>9
          <5> QED BY ONLY <4>5, <4>7, <5>1
        <4>10. QED  BY <4>8, <4>9
      <3>3. QED  BY <3>1, <3>2
    <2>5. QED  BY <2>1, <2>2, <2>3, <2>4 DEF Control
  <1>2. ASSUME NEW t \in Threads, Send(t) PROVE Control'
    <2>1. TaskCalls'
      BY <1>2 DEF Control, TaskCalls, Send, AfterSend, AfterAudit, Caller
    <2>2. Unregistered'
      BY <1>2 DEF Control, TaskCalls, Unregistered, Send, AfterSend, AfterAudit, Caller
    <2>3. ControllerCalls'
      BY <1>2 DEF Control, ControllerCalls, TaskCalls, Unregistered, Send, AfterSend, AfterAudit, Caller
    <2>4. SlotFollowsTask'
      BY <1>2 DEF Control, SlotFollowsTask, TaskCalls, ControllerCalls, Unregistered, Send, AfterSend, AfterAudit, Caller
    <2>5. QED  BY <2>1, <2>2, <2>3, <2>4 DEF Control
  <1>3. ASSUME NEW t \in Threads, Log(t) PROVE Control'
    <2>1. TaskCalls'
      BY <1>3 DEF Control, TaskCalls, Log, AfterAudit, Caller
    <2>2. Unregistered'
      BY <1>3 DEF Control, TaskCalls, Unregistered, Log, AfterAudit, Caller
    <2>3. ControllerCalls'
      BY <1>3 DEF Control, ControllerCalls, TaskCalls, Unregistered, Log, AfterAudit, Caller
    <2>4. SlotFollowsTask'
      BY <1>3 DEF Control, SlotFollowsTask, TaskCalls, ControllerCalls, Unregistered, Log, AfterAudit, Caller
    <2>5. QED  BY <2>1, <2>2, <2>3, <2>4 DEF Control
  <1>4. ASSUME NEW t \in Threads, Release(t) PROVE Control'
    <2>1. TaskCalls'
      BY <1>4 DEF Control, TaskCalls, Release, Caller
    <2>2. Unregistered'
      BY <1>4 DEF Control, TaskCalls, Unregistered, Release, Caller
    <2>3. ControllerCalls'
      BY <1>4 DEF Control, ControllerCalls, TaskCalls, Unregistered, Release, Caller
    <2>4. SlotFollowsTask'
      BY <1>4 DEF Control, SlotFollowsTask, TaskCalls, ControllerCalls, Unregistered, Release, Caller
    <2>5. QED  BY <2>1, <2>2, <2>3, <2>4 DEF Control
  <1>5. ASSUME NEW i \in Sessions, Register(i) PROVE Control'
    <2>1. TaskCalls'
      BY <1>5 DEF Control, TaskCalls, Register, Begin
    <2>2. Unregistered'
      BY <1>5 DEF Control, TaskCalls, Unregistered, Register, Begin
    <2>3. ControllerCalls'
      BY <1>5 DEF Control, ControllerCalls, TaskCalls, Unregistered, Register, Begin
    <2>4. SlotFollowsTask'
      BY <1>5 DEF Control, SlotFollowsTask, TaskCalls, ControllerCalls, Unregistered, Register, Begin
    <2>5. QED  BY <2>1, <2>2, <2>3, <2>4 DEF Control
  <1>6. ASSUME NEW i \in Sessions, RegisterRefused(i) PROVE Control'
    <2>1. TaskCalls'
      BY <1>6 DEF Control, TaskCalls, Unregistered, RegisterRefused
    <2>2. Unregistered'
      BY <1>6 DEF Control, TaskCalls, Unregistered, RegisterRefused
    <2>3. ControllerCalls'
      BY <1>6 DEF Control, ControllerCalls, TaskCalls, Unregistered, RegisterRefused
    <2>4. SlotFollowsTask'
      BY <1>6 DEF Control, SlotFollowsTask, TaskCalls, ControllerCalls, Unregistered, RegisterRefused
    <2>5. QED  BY <2>1, <2>2, <2>3, <2>4 DEF Control
  <1>7. ASSUME NEW i \in Sessions, NEW s \in SessionState, Report(i, s) PROVE Control'
    <2>1. s \notin {"Idle", "Refused"} /\ at[i] \notin {"Idle", "Refused"}
      BY <1>7 DEF Report, SessionState
    <2>2. at' = [at EXCEPT ![i] = s] /\ Registered' = Registered
      BY <1>7, <2>1 DEF Report
    <2>3. TaskCalls'
      BY <1>7, <2>2 DEF Control, TaskCalls, Report, Begin
    <2>4. Unregistered'
      BY <1>7, <2>1, <2>2 DEF Control, Unregistered, Report, Begin
    <2>5. ControllerCalls'
      BY <1>7, <2>2 DEF Control, ControllerCalls, Report, Begin
    <2>6. SlotFollowsTask'
      <3>1. i \in Listed => slots[i].state = at[i] /\ token[i] = "armed"
        BY <1>7 DEF Control, SlotFollowsTask, Report
      <3>2. pc' = [pc EXCEPT ![i] = "update"] /\ UNCHANGED <<slots, token, last>>
        BY <1>7 DEF Report, Begin
      <3>3. <<at[i], s>> \in Moves
        BY <1>7 DEF Report
      <3> SUFFICES ASSUME NEW j \in Listed
                   PROVE  /\ token[j] = "armed"
                          /\ pc'[j] # "update" => slots[j].state = at'[j]
                          /\ pc'[j] = "update" => \/ slots[j].state = at'[j]
                                                  \/ <<slots[j].state, at'[j]>> \in Moves
                          /\ pc'[j] \in {"idle", "audit", "release"} => last[j] = slots[j].state
        BY <3>2 DEF SlotFollowsTask, Listed
      <3>4. CASE j = i
        <4>1. pc'[j] = "update" /\ at'[j] = s
          BY <1>7, <2>2, <3>2, <3>4 DEF Control, TypeOK
        <4> QED BY ONLY j \in Listed, <3>1, <3>3, <3>4, <4>1
      <3>5. CASE j # i
        <4>1. pc'[j] = pc[j] /\ at'[j] = at[j]
          BY <2>2, <3>2, <3>5 DEF Listed, TypeOK
        <4>2. SlotFollowsTask
          BY DEF Control
        <4> QED BY ONLY j \in Listed, <4>1, <4>2 DEF SlotFollowsTask
      <3>6. QED  BY <3>4, <3>5
    <2>7. QED  BY <2>3, <2>4, <2>5, <2>6 DEF Control
  <1>8. ASSUME NEW i \in Sessions, Stop(i) PROVE Control'
    <2>1. TaskCalls'
      BY <1>8 DEF Control, TaskCalls, Stop
    <2>2. Unregistered'
      BY <1>8 DEF Control, TaskCalls, Unregistered, Stop
    <2>3. ControllerCalls'
      BY <1>8 DEF Control, ControllerCalls, TaskCalls, Unregistered, Stop
    <2>4. SlotFollowsTask'
      <3>1. i \notin Listed
        BY <1>8 DEF Control, SlotFollowsTask, Stop
      <3>2. at' = [at EXCEPT ![i] = "Stopped"] /\ UNCHANGED <<slots, token, last, pc>>
        BY <1>8 DEF Stop
      <3>3. QED  BY <3>1, <3>2 DEF Control, SlotFollowsTask
    <2>5. QED  BY <2>1, <2>2, <2>3, <2>4 DEF Control
  <1>9. ASSUME NEW t \in Controllers, NEW i \in Sessions, Cancel(t, i) PROVE Control'
    <2>1. TaskCalls'
      BY <1>9 DEF Control, TaskCalls, Cancel, CallBegins, Take
    <2>2. Unregistered'
      BY <1>9 DEF Control, TaskCalls, Unregistered, Cancel, CallBegins, Take
    <2>3. ControllerCalls'
      BY <1>9 DEF Control, ControllerCalls, TaskCalls, Unregistered, Cancel, CallBegins, Take
    <2>4. SlotFollowsTask'
      BY <1>9 DEF Control, SlotFollowsTask, TaskCalls, ControllerCalls, Unregistered, Cancel, CallBegins, Take
    <2>5. QED  BY <2>1, <2>2, <2>3, <2>4 DEF Control
  <1>10. ASSUME NEW t \in Controllers, NEW i \in Sessions, CancelNext(t, i) PROVE Control'
    <2>1. TaskCalls'
      BY <1>10 DEF Control, TaskCalls, CancelNext, Take
    <2>2. Unregistered'
      BY <1>10 DEF Control, TaskCalls, Unregistered, CancelNext, Take
    <2>3. ControllerCalls'
      BY <1>10 DEF Control, ControllerCalls, TaskCalls, Unregistered, CancelNext, Take
    <2>4. SlotFollowsTask'
      BY <1>10 DEF Control, SlotFollowsTask, TaskCalls, ControllerCalls, Unregistered, CancelNext, Take
    <2>5. QED  BY <2>1, <2>2, <2>3, <2>4 DEF Control
  <1>11. ASSUME NEW t \in Controllers, Fire(t) PROVE Control'
    <2>1. TaskCalls'
      BY <1>11 DEF Control, TaskCalls, Fire
    <2>2. Unregistered'
      BY <1>11 DEF Control, TaskCalls, Unregistered, ControllerCalls, Fire
    <2>3. ControllerCalls'
      BY <1>11 DEF Control, ControllerCalls, TaskCalls, Unregistered, Fire
    <2>4. SlotFollowsTask'
      BY <1>11 DEF Control, SlotFollowsTask, TaskCalls, ControllerCalls, Unregistered, Fire
    <2>5. QED  BY <2>1, <2>2, <2>3, <2>4 DEF Control
  <1>12. ASSUME NEW t \in Controllers, CancelAll(t) PROVE Control'
    <2>1. TaskCalls'
      BY <1>12 DEF Control, TaskCalls, CancelAll, CallBegins
    <2>2. Unregistered'
      BY <1>12 DEF Control, TaskCalls, Unregistered, CancelAll, CallBegins
    <2>3. ControllerCalls'
      BY <1>12 DEF Control, ControllerCalls, TaskCalls, Unregistered, CancelAll, CallBegins
    <2>4. SlotFollowsTask'
      BY <1>12 DEF Control, SlotFollowsTask, TaskCalls, ControllerCalls, Unregistered, CancelAll, CallBegins
    <2>5. QED  BY <2>1, <2>2, <2>3, <2>4 DEF Control
  <1>13. ASSUME NEW t \in Controllers, Prune(t) PROVE Control'
    <2>1. TaskCalls'
      BY <1>13 DEF Control, TaskCalls, Prune, Prunes, Finished, CallBegins
    <2>2. Unregistered'
      BY <1>13 DEF Control, TaskCalls, Unregistered, Prune, Prunes, Finished, CallBegins
    <2>3. ControllerCalls'
      BY <1>13 DEF Control, ControllerCalls, TaskCalls, Unregistered, Prune, Prunes, Finished, CallBegins
    <2>4. SlotFollowsTask'
      BY <1>13 DEF Control, SlotFollowsTask, TaskCalls, ControllerCalls, Unregistered, Prune, Prunes, Finished, CallBegins
    <2>5. QED  BY <2>1, <2>2, <2>3, <2>4 DEF Control
  <1>14. CASE UNCHANGED vars
    BY <1>14 DEF vars, Control, TaskCalls, Unregistered, ControllerCalls, SlotFollowsTask
  <1>15. QED
    BY <1>1, <1>2, <1>3, <1>4, <1>5, <1>6, <1>7, <1>8, <1>9, <1>10, <1>11, <1>12, <1>13, <1>14
       DEF Next, TransitionStep, TaskStep, ControllerStep

LEMMA InitControl == Init => Control
  BY DEF Init, Control, TaskCalls, Unregistered, ControllerCalls, SlotFollowsTask, Listed,
         Registered, Threads, InTransition

LEMMA InvariantHolds == Spec => []IInv
  <1>1. Init => IInv
    BY InitType, InitControl DEF IInv
  <1>2. IInv /\ [Next]_vars => IInv'
    BY TypeInductive, ControlInductive DEF IInv
  <1>3. QED  BY <1>1, <1>2, PTL DEF Spec

(* transition, rdt-session/src/lib.rs:227-235: a subscriber that has heard
   the last broadcast about a listed session knows the state the table
   shows, whenever the session's task is outside the manager. *)
THEOREM BroadcastTheorem == Spec => []TableMatchesBroadcast
  <1>1. IInv => TableMatchesBroadcast
    BY DEF IInv, Control, SlotFollowsTask, TableMatchesBroadcast
  <1>2. QED  BY <1>1, InvariantHolds, PTL

------------------------------------------------------------------------------
(* Places in the pool. *)

Admission ==
    \E i \in Sessions \ Registered :
        /\ Cardinality(Active) < MaxConcurrent
        /\ Active' = Active \cup {i}
        /\ Registered' = Registered \cup {i}

Departure == Registered' = Registered /\ \E i \in Active : Active' = Active \ {i}

NoChange == Registered' = Registered /\ Active' = Active

(* A finished session stays finished in a transition of its task. *)
LEMMA UpdateKeepsFinished ==
    ASSUME TerminalIsFinal, TypeOK, Control, NEW t \in Threads, Update(t)
    PROVE  /\ \A i \in Sessions : i # call[t].id => slots'[i] = slots[i]
           /\ \A i \in Sessions : slots[i] = NoSlot <=> slots'[i] = NoSlot
           /\ \A i \in Sessions : Finished(i) => slots'[i].state = slots[i].state
  <1> USE DEF TypeOK, Threads
  <1> DEFINE i == call[t].id
  <1>1. i \in Sessions /\ call[t].state \in SessionState
    OBVIOUS
  <1>2. slots' = [slots EXCEPT ![i] = IF @ = NoSlot THEN NoSlot
                                      ELSE WithState(@, call[t].state)]
    BY DEF Update
  <1>3. slots[i] # NoSlot => slots'[i] # NoSlot /\ slots'[i].state = call[t].state
    BY <1>1, <1>2, WithStateIsSlot
  <1>4. slots[i] # NoSlot => i = t /\ call[t].state = at[i]
    BY DEF Control, ControllerCalls, TaskCalls, InTransition, Update
  <1>5. Finished(i) => slots[i].state = at[i]
    BY <1>4 DEF Finished, Control, SlotFollowsTask, Listed, TerminalIsFinal, Update
  <1>6. \A j \in Sessions : j # i => slots'[j] = slots[j]
    BY <1>1, <1>2
  <1>7. slots[i] = NoSlot => slots'[i] = NoSlot
    BY <1>1, <1>2
  <1> HIDE DEF i
  <1>8. \A j \in Sessions : slots[j] = NoSlot <=> slots'[j] = NoSlot
    BY <1>3, <1>6, <1>7
  <1>9. \A j \in Sessions : Finished(j) => slots'[j].state = slots[j].state
    BY <1>3, <1>4, <1>5, <1>6 DEF Finished
  <1>10. QED  BY <1>6, <1>8, <1>9 DEF i

LEMMA UpdateFreesOnePlace ==
    ASSUME TerminalIsFinal, TypeOK, Control, NEW t \in Threads, Update(t)
    PROVE  Departure \/ NoChange
  <1>1. Registered' = Registered
    BY DEF Update, Registered
  <1>2. call[t].id \in Sessions
    BY DEF TypeOK
  <1>3. \A i \in Sessions : i # call[t].id => (i \in Active' <=> i \in Active)
    BY UpdateKeepsFinished DEF Active, Listed
  <1>4. call[t].id \in Active' => call[t].id \in Active
    BY <1>2, UpdateKeepsFinished DEF Active, Listed, Finished
  <1>5. Active \subseteq Sessions /\ Active' \subseteq Sessions
    BY DEF Active, Listed
  <1>6. Active' = Active \/ (call[t].id \in Active /\ Active' = Active \ {call[t].id})
    BY <1>3, <1>4, <1>5
  <1>7. QED  BY <1>1, <1>6 DEF Departure, NoChange

LEMMA TakeFreesOnePlace ==
    ASSUME TypeOK, NEW t \in Controllers, NEW i \in Sessions, Take(t, i), UNCHANGED at
    PROVE  Departure \/ NoChange
  <1>1. Registered' = Registered
    BY DEF Registered
  <1>2. slots' = [slots EXCEPT ![i] = NoSlot]
    BY DEF Take
  <1>3. Active' = Active \ {i}
    BY <1>2 DEF TypeOK, Active, Listed
  <1>4. QED  BY <1>1, <1>3 DEF Departure, NoChange

LEMMA PlacesStep ==
    ASSUME TerminalIsFinal, TypeOK, Control, [Next]_vars
    PROVE  Admission \/ Departure \/ NoChange
  <1> USE DEF TypeOK, Active, Listed, Registered, news
  <1>1. ASSUME NEW t \in Threads, Update(t) PROVE Departure \/ NoChange
    BY <1>1, UpdateFreesOnePlace
  <1>2. ASSUME NEW t \in Threads, Send(t) \/ Log(t) PROVE NoChange
    BY <1>2 DEF Send, Log, NoChange
  <1>3. ASSUME NEW t \in Threads, Release(t) PROVE NoChange
    <2>1. slots' = slots /\ at' = at
      BY <1>3 DEF Release
    <2>2. QED  BY <2>1 DEF NoChange
  <1>4. ASSUME NEW i \in Sessions, Register(i) PROVE Admission
    <2>1. i \in Sessions \ Registered /\ Cardinality(Active) < MaxConcurrent
      BY <1>4 DEF Register, Admits
    <2>2. slots'[i] # NoSlot /\ slots'[i].state = "Connecting"
      <3>1. slots'[i] = [state |-> "Connecting", attempt |-> 0]
        BY <1>4 DEF Register
      <3>2. slots'[i] \in Slot
        BY <3>1 DEF Slot, SessionState
      <3>3. slots'[i].state = "Connecting"
        BY <3>1
      <3>4. slots'[i] # NoSlot
        BY <3>2, ManagerAssumption
      <3>5. QED  BY <3>3, <3>4
    <2>3. \A j \in Sessions : j # i => slots'[j] = slots[j]
      BY <1>4 DEF Register
    <2>4. Active' = Active \cup {i}
      BY <2>2, <2>3 DEF Terminal
    <2>5. Registered' = Registered \cup {i}
      BY <1>4 DEF Register
    <2>6. QED  BY <2>1, <2>4, <2>5 DEF Admission
  <1>5. ASSUME NEW i \in Sessions, RegisterRefused(i) PROVE NoChange
    BY <1>5 DEF RegisterRefused, NoChange
  <1>6. ASSUME NEW i \in Sessions, NEW s \in SessionState, Report(i, s) PROVE NoChange
    <2>1. s # "Idle" /\ s # "Refused"
      BY <1>6, ManagerAssumption DEF Report, SessionState
    <2>2. QED  BY <1>6, <2>1 DEF Report, NoChange
  <1>7. ASSUME NEW i \in Sessions, Stop(i) PROVE NoChange
    <2>1. i \in Registered
      BY <1>7 DEF Stop, Control, Unregistered
    <2>2. QED  BY <1>7, <2>1 DEF Stop, NoChange
  <1>8. ASSUME NEW t \in Controllers, NEW i \in Sessions, Cancel(t, i) \/ CancelNext(t, i)
        PROVE  Departure \/ NoChange
    BY <1>8, TakeFreesOnePlace DEF Cancel, CancelNext
  <1>9. ASSUME NEW t \in Controllers, Fire(t) \/ CancelAll(t) PROVE NoChange
    BY <1>9 DEF Fire, CancelAll, NoChange
  <1>10. ASSUME NEW t \in Controllers, Prune(t) PROVE NoChange
    BY <1>10 DEF Prune, Prunes, Finished, NoChange
  <1>11. CASE UNCHANGED vars
    BY <1>11 DEF vars, NoChange
  <1>12. QED
    BY <1>1, <1>2, <1>3, <1>4, <1>5, <1>6, <1>7, <1>8, <1>9, <1>10, <1>11
       DEF Next, TransitionStep, TaskStep, ControllerStep

------------------------------------------------------------------------------
(* Admission: the sets of the implementation are the sets of the pool. *)
LEMMA ActiveIsFinite == IsFiniteSet(Active) /\ Cardinality(Active) \in Nat
  BY SessionSetsAreFinite DEF Active, Listed

LEMMA LimitStep ==
    ASSUME LimitRespected, Admission \/ Departure \/ NoChange
    PROVE  LimitRespected'
  <1> USE ActiveIsFinite, ManagerAssumption DEF LimitRespected
  <1>1. CASE Admission
    <2>1. PICK i \in Sessions \ Registered :
              Cardinality(Active) < MaxConcurrent /\ Active' = Active \cup {i}
      BY <1>1 DEF Admission
    <2>2. Cardinality(Active \cup {i}) = IF i \in Active THEN Cardinality(Active)
                                        ELSE Cardinality(Active) + 1
      BY FS_AddElement
    <2>3. QED  BY <2>1, <2>2
  <1>2. CASE Departure
    <2>1. PICK i \in Active : Active' = Active \ {i}
      BY <1>2 DEF Departure
    <2>2. Cardinality(Active \ {i}) = Cardinality(Active) - 1
      BY FS_RemoveElement
    <2>3. QED  BY <2>1, <2>2
  <1>3. CASE NoChange
    BY <1>3 DEF NoChange
  <1>4. QED  BY <1>1, <1>2, <1>3

(* register and transition, rdt-session/src/lib.rs:193-234: the number of
   unfinished sessions in the table never exceeds the configured limit,
   however registrations, transitions, cancellations and prunes interleave,
   provided the session tasks leave no terminal state. *)
THEOREM LimitTheorem == ASSUME TerminalIsFinal PROVE Spec => []LimitRespected
  <1>1. Init => LimitRespected
    <2>1. Init => Active = {}
      BY DEF Init, Active, Listed
    <2>2. QED  BY <2>1, FS_EmptySet, ManagerAssumption DEF LimitRespected
  <1>2. IInv /\ LimitRespected /\ [Next]_vars => LimitRespected'
    BY PlacesStep, LimitStep DEF IInv
  <1>3. QED  BY <1>1, <1>2, InvariantHolds, PTL DEF Spec

(* transition and cancel, rdt-session/src/lib.rs:227-286: a session the table
   shows finished keeps its end for as long as it is listed. *)
THEOREM FinishedTheorem == ASSUME TerminalIsFinal PROVE Spec => FinishedStays
  <1> DEFINE Stays == \A i \in Sessions :
                 Finished(i) /\ slots'[i] # NoSlot => slots'[i].state = slots[i].state
  <1>1. IInv /\ [Next]_vars => Stays
    <2> SUFFICES ASSUME TypeOK, Control, [Next]_vars PROVE Stays
      BY DEF IInv
    <2> USE DEF TypeOK, Threads, news, Finished
    <2>1. ASSUME NEW t \in Threads, Update(t) PROVE Stays
      BY <2>1, UpdateKeepsFinished
    <2>2. ASSUME NEW t \in Threads, Send(t) \/ Log(t) \/ Release(t) PROVE Stays
      BY <2>2 DEF Send, Log, Release
    <2>3. ASSUME NEW i \in Sessions, Register(i) PROVE Stays
      BY <2>3 DEF Register, Control, Unregistered, Registered
    <2>4. ASSUME NEW i \in Sessions, RegisterRefused(i) \/ Stop(i) PROVE Stays
      BY <2>4 DEF RegisterRefused, Stop
    <2>5. ASSUME NEW i \in Sessions, NEW s \in SessionState, Report(i, s) PROVE Stays
      BY <2>5 DEF Report
    <2>6. ASSUME NEW t \in Controllers, NEW i \in Sessions, Cancel(t, i) \/ CancelNext(t, i)
          PROVE  Stays
      <3>1. slots' = [slots EXCEPT ![i] = NoSlot]
        BY <2>6 DEF Cancel, CancelNext, Take
      <3>2. QED  BY <3>1
    <2>7. ASSUME NEW t \in Controllers, Fire(t) \/ CancelAll(t) \/ Prune(t) PROVE Stays
      BY <2>7 DEF Fire, CancelAll, Prune
    <2>8. CASE UNCHANGED vars
      BY <2>8 DEF vars
    <2>9. QED
      BY <2>1, <2>2, <2>3, <2>4, <2>5, <2>6, <2>7, <2>8
         DEF Next, TransitionStep, TaskStep, ControllerStep
  <1>2. IInv /\ [Next]_vars => [Stays]_slots
    BY <1>1
  <1>3. QED  BY <1>2, InvariantHolds, PTL DEF Spec, FinishedStays

(* The manager implements the pool of MaxConcurrent places: it admits only
   into a free place and a session gives its place back once, for good. *)
THEOREM PoolTheorem == ASSUME TerminalIsFinal PROVE Spec => PoolSpec
  <1>1. Init => Pool!Init
    BY DEF Init, Pool!Init, Active, Listed, Registered
  <1>2. IInv /\ [Next]_vars => [Pool!Next]_(Pool!vars)
    <2> SUFFICES ASSUME IInv, Admission \/ Departure \/ NoChange
                 PROVE  [Pool!Next]_(Pool!vars)
      BY PlacesStep DEF IInv
    <2>1. Active \subseteq Registered /\ Active \subseteq Sessions
      BY DEF IInv, Control, Unregistered, Active, Listed
    <2>2. ASSUME Admission PROVE Pool!Next
      <3>1. PICK i \in Sessions \ Registered :
                /\ Cardinality(Active) < MaxConcurrent
                /\ Active' = Active \cup {i}
                /\ Registered' = Registered \cup {i}
        BY <2>2 DEF Admission
      <3>2. Pool!Start(i)
        <4>1. i \notin Active \cup (Registered \ Active)
          BY <2>1
        <4>2. (Registered \ Active)' = Registered \ Active
          BY <3>1, <2>1
        <4>3. Pool!Cardinality(Active) = Cardinality(Active)
          BY DEF Pool!Cardinality, Cardinality
        <4>4. QED  BY <3>1, <4>1, <4>2, <4>3 DEF Pool!Start
      <3>3. i \in Sessions
        OBVIOUS
      <3>4. QED  BY <3>2, <3>3 DEF Pool!Next
    <2>3. ASSUME Departure PROVE Pool!Next
      <3>1. PICK i \in Active : Active' = Active \ {i}
        BY <2>3 DEF Departure
      <3>2. Pool!End(i)
        BY <2>1, <2>3, <3>1 DEF Pool!End, Departure
      <3>3. QED  BY <2>1, <3>2 DEF Pool!Next
    <2>4. ASSUME NoChange PROVE UNCHANGED Pool!vars
      BY <2>4 DEF NoChange, Pool!vars
    <2>5. QED  BY <2>2, <2>3, <2>4
  <1>3. QED  BY <1>1, <1>2, InvariantHolds, PTL DEF Spec, PoolSpec, Pool!Spec

------------------------------------------------------------------------------
(* Nobody else is firing the token of a session that is listed. *)
LEMMA NobodyFiresListed ==
    ASSUME Control, NEW i \in Listed
    PROVE  InCallOn(i, "fire") = {}
  BY DEF Control, ControllerCalls, TaskCalls, InTransition, InCallOn, Listed, Threads

(* The critical section of cancel hands the token of a listed session to
   exactly one thread. *)
LEMMA TakeHandsOver ==
    ASSUME TypeOK, Control, NoOrphanTask,
           NEW t \in Controllers, NEW i \in Sessions,
           pc[t] \in {"idle", "next"}, Take(t, i), at' = at
    PROVE  NoOrphanTask'
  <1> USE DEF TypeOK, Threads, Registered
  <1>1. SUFFICES ASSUME NEW j \in Registered', at'[j] \notin Terminal \cup {"Stopped"}
                 PROVE  \/ slots'[j] # NoSlot /\ token'[j] = "armed"
                        \/ slots'[j] = NoSlot /\ token'[j] = "fired"
                        \/ /\ slots'[j] = NoSlot /\ token'[j] = "taken"
                           /\ Cardinality(InCallOn(j, "fire")') = 1
    BY DEF NoOrphanTask
  <1>2. j \in Registered /\ at[j] \notin Terminal \cup {"Stopped"}
    BY <1>1
  <1>3. \A u \in Threads : u # t => pc'[u] = pc[u] /\ call'[u] = call[u]
    BY DEF Take
  <1>4. call'[t].id = i /\ pc'[t] = (IF slots[i] = NoSlot THEN "update" ELSE "fire")
    BY DEF Take
  <1>5. CASE j # i \/ slots[i] = NoSlot
    <2>1. InCallOn(j, "fire")' = InCallOn(j, "fire")
      BY <1>3, <1>4, <1>5 DEF InCallOn
    <2>2. slots'[j] = slots[j] /\ token'[j] = token[j]
      BY <1>2, <1>5 DEF Take
    <2>3. QED  BY <1>2, <2>1, <2>2 DEF NoOrphanTask
  <1>6. CASE j = i /\ slots[i] # NoSlot
    <2>1. InCallOn(i, "fire") = {}
      BY <1>6, NobodyFiresListed DEF Listed
    <2>2. InCallOn(i, "fire")' = {t}
      BY <1>3, <1>4, <1>6, <2>1 DEF InCallOn
    <2>3. Cardinality(InCallOn(i, "fire")') = 1
      BY <2>2, FS_Singleton
    <2>4. slots'[i] = NoSlot /\ token'[i] = "taken"
      BY <1>6 DEF Take
    <2>5. QED  BY <1>6, <2>3, <2>4
  <1>7. QED  BY <1>5, <1>6

(* A step that leaves the tokens, the listed sessions and the firing threads
   as they are, and revives no task, orphans nobody. *)
LEMMA NobodyOrphaned ==
    ASSUME NoOrphanTask, token' = token,
           \A i \in Sessions : slots'[i] = NoSlot <=> slots[i] = NoSlot,
           \A i \in Sessions : InCallOn(i, "fire")' = InCallOn(i, "fire"),
           \A i \in Registered' : /\ i \in Registered
                                  /\ \/ at'[i] \in Terminal \cup {"Stopped"}
                                     \/ at[i] \notin Terminal \cup {"Stopped"}
    PROVE  NoOrphanTask'
  <1>1. SUFFICES ASSUME NEW i \in Registered', at'[i] \notin Terminal \cup {"Stopped"}
                 PROVE  \/ slots'[i] # NoSlot /\ token'[i] = "armed"
                        \/ slots'[i] = NoSlot /\ token'[i] = "fired"
                        \/ /\ slots'[i] = NoSlot /\ token'[i] = "taken"
                           /\ Cardinality(InCallOn(i, "fire")') = 1
    BY DEF NoOrphanTask
  <1>2. i \in Registered /\ i \in Sessions /\ at[i] \notin Terminal \cup {"Stopped"}
    BY <1>1 DEF Registered
  <1>3. InCallOn(i, "fire")' = InCallOn(i, "fire")
    BY <1>2
  <1>4. QED  BY <1>2, <1>3 DEF NoOrphanTask

(* cancel, cancel_all and prune, rdt-session/src/lib.rs:280-312: no sequence
   of calls leaves a task that still runs without a way to stop it: it is
   listed with its token armed, or the token has been fired, or exactly one
   thread is about to fire it, provided tasks leave no terminal state. *)
THEOREM OrphanTheorem == ASSUME TerminalIsFinal PROVE Spec => []NoOrphanTask
  <1>1. Init => NoOrphanTask
    BY DEF Init, NoOrphanTask, Registered
  <1>2. IInv /\ NoOrphanTask /\ [Next]_vars => NoOrphanTask'
    <2> SUFFICES ASSUME TypeOK, Control, NoOrphanTask, [Next]_vars PROVE NoOrphanTask'
      BY DEF IInv
    <2> USE DEF TypeOK, Threads, news
    <2>1. ASSUME NEW t \in Threads, Update(t) PROVE NoOrphanTask'
      <3>1. \A i \in Sessions : InCallOn(i, "fire")' = InCallOn(i, "fire")
        BY <2>1 DEF Update, InCallOn
      <3>2. \A i \in Sessions : slots'[i] = NoSlot <=> slots[i] = NoSlot
        BY <2>1, UpdateKeepsFinished
      <3>3. token' = token /\ at' = at
        BY <2>1 DEF Update
      <3>4. QED  BY <3>1, <3>2, <3>3, NobodyOrphaned DEF Registered
    <2>2. ASSUME NEW t \in Threads, Send(t) \/ Log(t) \/ Release(t) PROVE NoOrphanTask'
      <3>1. \A i \in Sessions : InCallOn(i, "fire")' = InCallOn(i, "fire")
        BY <2>2 DEF Send, Log, Release, InCallOn, AfterSend, AfterAudit, Caller
      <3>2. token' = token /\ at' = at /\ slots' = slots
        BY <2>2 DEF Send, Log, Release
      <3>3. QED  BY <3>1, <3>2, NobodyOrphaned DEF Registered
    <2>3. ASSUME NEW i \in Sessions, Register(i) PROVE NoOrphanTask'
      <3>1. \A j \in Sessions : InCallOn(j, "fire")' = InCallOn(j, "fire")
        BY <2>3 DEF Register, Begin, InCallOn, Control, Unregistered, Registered
      <3>2. slots'[i] # NoSlot /\ token'[i] = "armed"
        <4>1. [state |-> "Connecting", attempt |-> 0] \in Slot
          BY DEF Slot, SessionState
        <4>2. QED  BY <2>3, <4>1, ManagerAssumption DEF Register
      <3>3. \A j \in Sessions \ {i} :
               slots'[j] = slots[j] /\ token'[j] = token[j] /\ at'[j] = at[j]
        BY <2>3 DEF Register
      <3>4. QED  BY <3>1, <3>2, <3>3 DEF NoOrphanTask, Registered
    <2>4. ASSUME NEW i \in Sessions, RegisterRefused(i) PROVE NoOrphanTask'
      <3>1. UNCHANGED <<slots, token, pc, call>>
        BY <2>4 DEF RegisterRefused
      <3>2. at'[i] = "Refused" /\ \A j \in Sessions \ {i} : at'[j] = at[j]
        BY <2>4 DEF RegisterRefused
      <3>3. \A j \in Sessions : InCallOn(j, "fire")' = InCallOn(j, "fire")
        BY <3>1 DEF InCallOn
      <3>4. QED  BY <3>1, <3>2, <3>3 DEF NoOrphanTask, Registered
    <2>5. ASSUME NEW i \in Sessions, NEW s \in SessionState, Report(i, s) PROVE NoOrphanTask'
      <3>1. \A j \in Sessions : InCallOn(j, "fire")' = InCallOn(j, "fire")
        BY <2>5 DEF Report, Begin, InCallOn
      <3>2. token' = token /\ slots' = slots
        BY <2>5 DEF Report
      <3>3. at[i] \notin Terminal \cup {"Idle", "Refused", "Stopped"}
        BY <2>5 DEF Report, TerminalIsFinal
      <3>4. \A j \in Sessions \ {i} : at'[j] = at[j]
        BY <2>5 DEF Report
      <3>5. QED  BY <3>1, <3>2, <3>3, <3>4, NobodyOrphaned DEF Registered
    <2>6. ASSUME NEW i \in Sessions, Stop(i) PROVE NoOrphanTask'
      <3>1. UNCHANGED <<slots, token, pc, call>>
        BY <2>6 DEF Stop
      <3>2. at'[i] = "Stopped" /\ \A j \in Sessions \ {i} : at'[j] = at[j]
        BY <2>6 DEF Stop
      <3>3. \A j \in Sessions : InCallOn(j, "fire")' = InCallOn(j, "fire")
        BY <3>1 DEF InCallOn
      <3>4. QED  BY <3>1, <3>2, <3>3 DEF NoOrphanTask, Registered
    <2>7. ASSUME NEW t \in Controllers, NEW i \in Sessions, Cancel(t, i) \/ CancelNext(t, i)
          PROVE  NoOrphanTask'
      <3>1. pc[t] \in {"idle", "next"} /\ Take(t, i) /\ at' = at
        BY <2>7 DEF Cancel, CallBegins, CancelNext
      <3>2. QED  BY <3>1, TakeHandsOver
    <2>8. ASSUME NEW t \in Controllers, Fire(t) PROVE NoOrphanTask'
      <3> DEFINE i == call[t].id
      <3>1. i \in Sessions /\ slots[i] = NoSlot
        BY <2>8 DEF Fire, Control, ControllerCalls, InTransition
      <3>2. /\ token'[i] = "fired" /\ slots' = slots /\ at' = at
            /\ \A j \in Sessions \ {i} : token'[j] = token[j]
        BY <2>8 DEF Fire
      <3>3. \A j \in Sessions \ {i} : InCallOn(j, "fire")' = InCallOn(j, "fire")
        BY <2>8 DEF Fire, InCallOn
      <3> HIDE DEF i
      <3>4. QED  BY <3>1, <3>2, <3>3 DEF NoOrphanTask, Registered
    <2>9. ASSUME NEW t \in Controllers, CancelAll(t) PROVE NoOrphanTask'
      <3>1. \A i \in Sessions : InCallOn(i, "fire")' = InCallOn(i, "fire")
        BY <2>9 DEF CancelAll, CallBegins, InCallOn
      <3>2. token' = token /\ at' = at /\ slots' = slots
        BY <2>9 DEF CancelAll
      <3>3. QED  BY <3>1, <3>2, NobodyOrphaned DEF Registered
    <2>10. ASSUME NEW t \in Controllers, Prune(t) PROVE NoOrphanTask'
      <3>1. UNCHANGED <<at, pc, call>>
        BY <2>10 DEF Prune
      <3>2. \A i \in Sessions : InCallOn(i, "fire")' = InCallOn(i, "fire")
        BY <3>1 DEF InCallOn
      <3>3. \A i \in Sessions : Finished(i) => at[i] \in Terminal
        BY DEF Finished, Control, SlotFollowsTask, Listed, TerminalIsFinal
      <3>4. \A i \in Sessions : ~Finished(i) => slots'[i] = slots[i] /\ token'[i] = token[i]
        BY <2>10 DEF Prune, Prunes
      <3>5. QED  BY <3>1, <3>2, <3>3, <3>4 DEF NoOrphanTask, Registered
    <2>11. CASE UNCHANGED vars
      BY <2>11 DEF vars, NoOrphanTask, Registered, InCallOn
    <2>12. QED
      BY <2>1, <2>2, <2>3, <2>4, <2>5, <2>6, <2>7, <2>8, <2>9, <2>10, <2>11
         DEF Next, TransitionStep, TaskStep, ControllerStep
  <1>3. QED  BY <1>1, <1>2, InvariantHolds, PTL DEF Spec
------------------------------------------------------------------------------
(* The audit trail. *)

(* The threads that have broadcast state s of session i and not audited it. *)
Auditing(i, s) == {t \in InCallOn(i, "audit") : call[t].state = s}

Reported == SessionState \ {"Idle"}

(* No transition is ever to the state a session starts from. *)
CallsAreReports == \A t \in Threads : pc[t] \notin {"idle", "next"} => call[t].state # "Idle"

(* The trail lags the broadcasts by finitely many threads: there may be any
   number of them. *)
TrailLags ==
    /\ CallsAreReports
    /\ \A i \in Sessions, s \in Reported :
          /\ IsFiniteSet(Auditing(i, s))
          /\ told[i][s] = audited[i][Record(s)] + Cardinality(Auditing(i, s))

(* Two states that are reported have different audit records. *)
LEMMA RecordIsInjective ==
    ASSUME NEW s \in Reported, NEW u \in Reported, Record(s) = Record(u)
    PROVE  s = u
  <1>1. Kind(s) = Kind(u) /\ Outcome(s) = Outcome(u)
    BY DEF Record
  <1>2. QED  BY <1>1 DEF Kind, Outcome, Reported, SessionState, Terminal

(* A step that neither broadcasts nor audits, and that no auditing thread
   takes, leaves the trail where it was. *)
LEMMA TrailUntouched ==
    ASSUME TrailLags, told' = told, audited' = audited, CallsAreReports',
           \A t \in Threads : /\ pc'[t] = "audit" <=> pc[t] = "audit"
                              /\ pc[t] = "audit" => call'[t] = call[t]
    PROVE  TrailLags'
  <1>1. \A i \in Sessions, s \in Reported : Auditing(i, s)' = Auditing(i, s)
    BY DEF Auditing, InCallOn
  <1>2. QED  BY <1>1 DEF TrailLags
LEMMA SendExtendsLag ==
    ASSUME Audit, TypeOK, TrailLags, NEW t \in Threads, Send(t)
    PROVE  TrailLags'
  <1> USE DEF TypeOK
  <1> DEFINE i == call[t].id
             s == call[t].state
  <1>1. i \in Sessions /\ s \in Reported
    BY DEF TrailLags, CallsAreReports, Send, Reported
  <1>2. /\ told' = [told EXCEPT ![i][s] = @ + 1]
        /\ audited' = audited /\ call' = call
        /\ pc' = [pc EXCEPT ![t] = "audit"] /\ pc[t] = "send"
    BY DEF Send, AfterSend
  <1>3. CallsAreReports'
    BY <1>2 DEF TrailLags, CallsAreReports
  <1> HIDE DEF i, s
  <1>4. SUFFICES ASSUME NEW j \in Sessions, NEW u \in Reported
                 PROVE  /\ IsFiniteSet(Auditing(j, u)')
                        /\ told'[j][u] = audited'[j][Record(u)] + Cardinality(Auditing(j, u)')
    BY <1>3 DEF TrailLags
  <1>5. /\ IsFiniteSet(Auditing(j, u))
        /\ told[j][u] = audited[j][Record(u)] + Cardinality(Auditing(j, u))
        /\ Cardinality(Auditing(j, u)) \in Nat
    BY FS_CardinalityType DEF TrailLags
  <1>6. audited[j][Record(u)] \in Nat /\ told[j] \in [SessionState -> Nat]
    BY RecordsAreAuditRecords DEF Reported
  <1>7. CASE j = i /\ u = s
    <2>1. Auditing(j, u)' = Auditing(j, u) \cup {t} /\ t \notin Auditing(j, u)
      BY <1>2, <1>7 DEF Auditing, InCallOn, i, s
    <2>2. /\ IsFiniteSet(Auditing(j, u)')
          /\ Cardinality(Auditing(j, u)') = Cardinality(Auditing(j, u)) + 1
      BY <1>5, <2>1, FS_AddElement
    <2>3. told'[j][u] = told[j][u] + 1
      BY <1>1, <1>2, <1>6, <1>7 DEF Reported
    <2>4. audited'[j][Record(u)] = audited[j][Record(u)]
      BY <1>2
    <2> HIDE DEF TypeOK
    <2>5. QED  BY <1>5, <1>6, <2>2, <2>3, <2>4
  <1>8. CASE ~(j = i /\ u = s)
    <2>1. Auditing(j, u)' = Auditing(j, u)
      BY <1>2, <1>8 DEF Auditing, InCallOn, i, s
    <2>2. told'[j][u] = told[j][u]
      BY <1>1, <1>2, <1>6, <1>8 DEF Reported
    <2>3. QED  BY <1>2, <1>5, <2>1, <2>2
  <1>9. QED  BY <1>7, <1>8

LEMMA LogShortensLag ==
    ASSUME TypeOK, TrailLags, NEW t \in Threads, Log(t)
    PROVE  TrailLags'
  <1> USE DEF TypeOK
  <1> DEFINE i == call[t].id
             s == call[t].state
  <1>1. i \in Sessions /\ s \in Reported
    BY DEF TrailLags, CallsAreReports, Log, Reported
  <1>2. /\ audited' = [audited EXCEPT ![i][Record(s)] = @ + 1]
        /\ told' = told /\ call' = call
        /\ pc' = [pc EXCEPT ![t] = AfterAudit(t)] /\ pc[t] = "audit"
    BY DEF Log
  <1>3. AfterAudit(t) \in {"idle", "next", "release"}
    BY DEF AfterAudit, Caller
  <1>4. CallsAreReports'
    BY <1>2, <1>3 DEF TrailLags, CallsAreReports
  <1> HIDE DEF i, s
  <1>5. SUFFICES ASSUME NEW j \in Sessions, NEW u \in Reported
                 PROVE  /\ IsFiniteSet(Auditing(j, u)')
                        /\ told'[j][u] = audited'[j][Record(u)] + Cardinality(Auditing(j, u)')
    BY <1>4 DEF TrailLags
  <1>6. /\ IsFiniteSet(Auditing(j, u))
        /\ told[j][u] = audited[j][Record(u)] + Cardinality(Auditing(j, u))
        /\ Cardinality(Auditing(j, u)) \in Nat
    BY FS_CardinalityType DEF TrailLags
  <1>7. Record(u) \in AuditRecord /\ Record(s) \in AuditRecord
    BY <1>1, RecordsAreAuditRecords DEF Reported
  <1>8. audited[j] \in [AuditRecord -> Nat] /\ audited[j][Record(u)] \in Nat
    BY <1>7
  <1>9. CASE j = i /\ u = s
    <2>1. Auditing(j, u)' = Auditing(j, u) \ {t} /\ t \in Auditing(j, u)
      BY <1>2, <1>3, <1>9 DEF Auditing, InCallOn, i, s
    <2>2. /\ IsFiniteSet(Auditing(j, u)')
          /\ Cardinality(Auditing(j, u)') = Cardinality(Auditing(j, u)) - 1
      BY <1>6, <2>1, FS_RemoveElement
    <2>3. audited'[j][Record(u)] = audited[j][Record(u)] + 1
      BY <1>1, <1>2, <1>7, <1>8, <1>9
    <2>4. QED  BY <1>2, <1>6, <1>8, <2>2, <2>3
  <1>10. CASE ~(j = i /\ u = s)
    <2>1. Auditing(j, u)' = Auditing(j, u)
      BY <1>2, <1>3, <1>10 DEF Auditing, InCallOn, i, s
    <2>2. ~(j = i /\ Record(u) = Record(s))
      BY <1>1, <1>10, RecordIsInjective
    <2>3. audited'[j][Record(u)] = audited[j][Record(u)]
      BY <1>1, <1>2, <1>7, <1>8, <2>2
    <2>4. QED  BY <1>2, <1>6, <2>1, <2>3
  <1>11. QED  BY <1>9, <1>10

LEMMA TrailInductive == Audit /\ IInv /\ TrailLags /\ [Next]_vars => TrailLags'
  <1> SUFFICES ASSUME Audit, TypeOK, Control, TrailLags, [Next]_vars PROVE TrailLags'
    BY DEF IInv
  <1> USE DEF TypeOK, Threads, news
  <1>1. ASSUME NEW t \in Threads, Update(t) \/ Release(t) PROVE TrailLags'
    <2>1. told' = told /\ audited' = audited
      BY <1>1 DEF Update, Release
    <2>2. CallsAreReports'
      BY <1>1 DEF TrailLags, CallsAreReports, Update, Release, Caller
    <2>3. \A u \in Threads : /\ pc'[u] = "audit" <=> pc[u] = "audit"
                             /\ pc[u] = "audit" => call'[u] = call[u]
      BY <1>1 DEF Update, Release, Caller
    <2>4. QED  BY <2>1, <2>2, <2>3, TrailUntouched
  <1>2. ASSUME NEW t \in Threads, Send(t) PROVE TrailLags'
    BY <1>2, SendExtendsLag
  <1>3. ASSUME NEW t \in Threads, Log(t) PROVE TrailLags'
    BY <1>3, LogShortensLag
  <1>4. ASSUME NEW i \in Sessions, Register(i) PROVE TrailLags'
    <2>1. told' = told /\ audited' = audited
      BY <1>4 DEF Register
    <2>2. CallsAreReports'
      BY <1>4 DEF TrailLags, CallsAreReports, Register, Begin, Control, Unregistered, Registered
    <2>3. \A u \in Threads : /\ pc'[u] = "audit" <=> pc[u] = "audit"
                             /\ pc[u] = "audit" => call'[u] = call[u]
      BY <1>4 DEF Register, Begin, Control, Unregistered, Registered
    <2>4. QED  BY <2>1, <2>2, <2>3, TrailUntouched
  <1>5. ASSUME NEW i \in Sessions, RegisterRefused(i) \/ Stop(i) PROVE TrailLags'
    <2>1. told' = told /\ audited' = audited
      BY <1>5 DEF RegisterRefused, Stop
    <2>2. CallsAreReports'
      BY <1>5 DEF TrailLags, CallsAreReports, RegisterRefused, Stop
    <2>3. \A u \in Threads : /\ pc'[u] = "audit" <=> pc[u] = "audit"
                             /\ pc[u] = "audit" => call'[u] = call[u]
      BY <1>5 DEF RegisterRefused, Stop
    <2>4. QED  BY <2>1, <2>2, <2>3, TrailUntouched
  <1>6. ASSUME NEW i \in Sessions, NEW s \in SessionState, Report(i, s) PROVE TrailLags'
    <2>1. told' = told /\ audited' = audited
      BY <1>6 DEF Report
    <2>2. CallsAreReports'
      BY <1>6, ManagerAssumption DEF TrailLags, CallsAreReports, Report, Begin
    <2>3. \A u \in Threads : /\ pc'[u] = "audit" <=> pc[u] = "audit"
                             /\ pc[u] = "audit" => call'[u] = call[u]
      BY <1>6 DEF Report, Begin
    <2>4. QED  BY <2>1, <2>2, <2>3, TrailUntouched
  <1>7. ASSUME NEW t \in Controllers, NEW i \in Sessions, Cancel(t, i) \/ CancelNext(t, i) PROVE TrailLags'
    <2>1. told' = told /\ audited' = audited
      BY <1>7 DEF Cancel, CancelNext
    <2>2. CallsAreReports'
      <3>1. /\ pc' = [pc EXCEPT ![t] = IF slots[i] = NoSlot THEN "update" ELSE "fire"]
            /\ call' = [call EXCEPT ![t] = [id |-> i, state |-> "Cancelled"]]
        BY <1>7 DEF Cancel, CancelNext, Take
      <3>2. call'[t].state = "Cancelled"
        BY <3>1
      <3>3. \A u \in Threads \ {t} : pc'[u] = pc[u] /\ call'[u] = call[u]
        BY <3>1
      <3>4. QED  BY <3>2, <3>3 DEF TrailLags, CallsAreReports
    <2>3. \A u \in Threads : /\ pc'[u] = "audit" <=> pc[u] = "audit"
                             /\ pc[u] = "audit" => call'[u] = call[u]
      BY <1>7 DEF Cancel, CancelNext, CallBegins, Take
    <2>4. QED  BY <2>1, <2>2, <2>3, TrailUntouched
  <1>8. ASSUME NEW t \in Controllers, Fire(t) \/ CancelAll(t) \/ Prune(t) PROVE TrailLags'
    <2>1. told' = told /\ audited' = audited
      BY <1>8 DEF Fire, CancelAll, Prune
    <2>2. CallsAreReports'
      BY <1>8 DEF TrailLags, CallsAreReports, Fire, CancelAll, Prune, CallBegins
    <2>3. \A u \in Threads : /\ pc'[u] = "audit" <=> pc[u] = "audit"
                             /\ pc[u] = "audit" => call'[u] = call[u]
      BY <1>8 DEF Fire, CancelAll, Prune, CallBegins
    <2>4. QED  BY <2>1, <2>2, <2>3, TrailUntouched
  <1>9. CASE UNCHANGED vars
    BY <1>9, TrailUntouched DEF vars, TrailLags, CallsAreReports
  <1>10. QED
    BY <1>1, <1>2, <1>3, <1>4, <1>5, <1>6, <1>7, <1>8, <1>9
       DEF Next, TransitionStep, TaskStep, ControllerStep

(* transition, rdt-session/src/lib.rs:227-257: whatever threads are inside
   the manager, and however many, every broadcast of a session's state is
   audited exactly once, by the thread that made it, before that thread does
   anything else. *)
THEOREM AuditTheorem == Spec => []AuditFollowsBroadcast
  <1>1. Init => TrailLags
    <2> SUFFICES ASSUME Init PROVE TrailLags
      OBVIOUS
    <2>1. CallsAreReports
      BY DEF Init, CallsAreReports
    <2>2. ASSUME NEW i \in Sessions, NEW s \in Reported
          PROVE  /\ IsFiniteSet(Auditing(i, s))
                 /\ told[i][s] = audited[i][Record(s)] + Cardinality(Auditing(i, s))
      <3>1. Auditing(i, s) = {}
        BY DEF Init, Auditing, InCallOn
      <3>2. told[i][s] = 0
        BY DEF Init, Reported
      <3>3. audited[i][Record(s)] = 0
        BY RecordsAreAuditRecords DEF Init, Reported
      <3>4. QED  BY <3>1, <3>2, <3>3, FS_EmptySet
    <2>3. QED  BY <2>1, <2>2 DEF TrailLags
  <1>2. TrailLags => AuditFollowsBroadcast
    BY DEF TrailLags, AuditFollowsBroadcast, Auditing, Reported
  <1>3. CASE Audit
    <2>1. IInv /\ TrailLags /\ [Next]_vars => TrailLags'
      BY <1>3, TrailInductive
    <2>2. QED  BY <1>1, <1>2, <2>1, InvariantHolds, PTL DEF Spec
  <1>4. CASE ~Audit
    <2>1. AuditFollowsBroadcast
      BY <1>4 DEF AuditFollowsBroadcast
    <2>2. QED  BY <2>1, PTL
  <1>5. QED  BY <1>3, <1>4

------------------------------------------------------------------------------
Answer == Nat \X UNION {Outcomes[r] : r \in Requested}

SocketTypes ==
    /\ serving \in [Servers -> {"down", "remove", "bind", "restrict", "accept"}]
    /\ private \in BOOLEAN
    /\ bound \in Servers \cup {Nobody}
    /\ link \in [Clients -> Servers \cup {Nobody}]
    /\ state \in [Clients -> {"none", "queued", "open", "closed"}]
    /\ sent \in [Clients -> Seq(Requested)]
    /\ handled \in [Clients -> Seq(Answer)]
    /\ replies \in [Clients -> Seq(Answer)]

(* Only the agents' user has a connection that is read. *)
OnlyOwned == \A c \in Clients : state[c] = "open" => c \in Owned

(* An agent that has bound its socket keeps it until another removes it. *)
Reachable ==
    \A a \in Servers :
        /\ serving[a] = "restrict" => a \in displaced \/ bound = a
        /\ serving[a] = "accept" => a \in displaced \/ (bound = a /\ a \in guarded)

(* The directory is private before anything is bound in it. *)
PrivateFirst ==
    /\ \A a \in Servers : serving[a] # "down" => private
    /\ bound # Nobody => private

(* What a client's task handled and what it answered, entry by entry. *)
InStep(c) ==
    /\ \A n \in 1..Len(handled[c]) : handled[c][n][1] = n
    /\ Len(replies[c]) <= Len(handled[c])
    /\ \A n \in 1..Len(replies[c]) : replies[c][n] = handled[c][n]
    /\ Len(handled[c]) <= Len(replies[c]) + 1
    /\ handled[c] # <<>> => c \in Owned

SocketInv ==
    /\ SocketTypes /\ OnlyOwned /\ Reachable /\ PrivateFirst
    /\ \A c \in Clients : InStep(c)

-------------------------------------------------------------------------------
LEMMA SocketInitial == SocketInit => SocketInv
  <1> SUFFICES ASSUME SocketInit PROVE SocketInv
    OBVIOUS
  <1>1. SocketTypes
    BY DEF SocketInit, SocketTypes
  <1>2. OnlyOwned /\ Reachable /\ PrivateFirst
    BY DEF SocketInit, OnlyOwned, Reachable, PrivateFirst
  <1>3. ASSUME NEW c \in Clients PROVE InStep(c)
    BY DEF SocketInit, InStep
  <1>4. QED  BY <1>1, <1>2, <1>3 DEF SocketInv

(* Every variable keeps its type. *)
LEMMA SocketTypesInductive == SocketTypes /\ [SocketNext]_socketVars => SocketTypes'
  <1> SUFFICES ASSUME SocketTypes, [SocketNext]_socketVars PROVE SocketTypes'
    OBVIOUS
  <1> USE DEF SocketTypes, ends
  <1>1. ASSUME NEW a \in Servers, MakeDirectory(a) PROVE SocketTypes'
    BY <1>1 DEF MakeDirectory, At
  <1>2. ASSUME NEW a \in Servers, RemoveOld(a) PROVE SocketTypes'
    BY <1>2 DEF RemoveOld, At
  <1>3. ASSUME NEW a \in Servers, Bind(a) PROVE SocketTypes'
    BY <1>3 DEF Bind, At
  <1>4. ASSUME NEW a \in Servers, RestrictSocket(a) PROVE SocketTypes'
    BY <1>4 DEF RestrictSocket, At
  <1>5. ASSUME NEW a \in Servers, PathLost(a) \/ Stops(a) PROVE SocketTypes'
    BY <1>5 DEF PathLost, Stops, ProcessEnds
  <1>6. ASSUME NEW c \in Clients, Reach(c) PROVE SocketTypes'
    BY <1>6 DEF Reach
  <1>7. ASSUME NEW c \in Clients, Accept(c) PROVE SocketTypes'
    BY <1>7 DEF Accept
  <1>8. ASSUME NEW c \in Clients, NEW line \in Requested, SendLine(c, line) PROVE SocketTypes'
    BY <1>8 DEF SendLine
  <1>9. ASSUME NEW c \in Clients, HandleLine(c) PROVE SocketTypes'
    <2> DEFINE n == Len(handled[c]) + 1
    <2>1. n \in Nat /\ n \in DOMAIN sent[c]
      BY <1>9 DEF HandleLine, HandleWith
    <2>2. sent[c][n] \in Requested
      BY <2>1
    <2>3. PICK outcome \in Outcomes[sent[c][n]] :
             handled' = [handled EXCEPT ![c] = Append(@, <<n, outcome>>)]
      BY <1>9 DEF HandleLine, HandleWith
    <2>4. <<n, outcome>> \in Answer
      BY <2>1, <2>2 DEF Answer
    <2> HIDE DEF n
    <2>5. handled' \in [Clients -> Seq(Answer)]
      BY <2>3, <2>4
    <2>6. QED  BY <1>9, <2>5 DEF HandleLine, HandleWith
  <1>10. ASSUME NEW c \in Clients, WriteReply(c) PROVE SocketTypes'
    <2> DEFINE r == handled[c][Len(replies[c]) + 1]
    <2>1. r \in Answer
      BY <1>10 DEF WriteReply
    <2>2. replies' = [replies EXCEPT ![c] = Append(@, r)]
      BY <1>10 DEF WriteReply
    <2> HIDE DEF r
    <2>3. replies' \in [Clients -> Seq(Answer)]
      BY <2>1, <2>2
    <2>4. QED  BY <1>10, <2>3 DEF WriteReply
  <1>11. ASSUME NEW c \in Clients, HangUp(c) PROVE SocketTypes'
    BY <1>11 DEF HangUp
  <1>12. CASE UNCHANGED socketVars
    BY <1>12 DEF socketVars
  <1>13. QED
    BY <1>1, <1>2, <1>3, <1>4, <1>5, <1>6, <1>7, <1>8, <1>9, <1>10, <1>11, <1>12 DEF SocketNext

-------------------------------------------------------------------------------
(* A step that leaves a client's lines alone leaves it in step. *)
LEMMA InStepKept ==
    ASSUME NEW c \in Clients, InStep(c), UNCHANGED <<handled, replies>>
    PROVE  InStep(c)'
  BY DEF InStep

(* handle, lib.rs:214-236: only when the last reply is written, the next. *)
LEMMA HandledInStep ==
    ASSUME SocketTypes, OnlyOwned, NEW c \in Clients, InStep(c), HandleLine(c)
    PROVE  InStep(c)'
  <1> DEFINE h == handled[c]
             n == Len(h) + 1
  <1>1. h \in Seq(Answer) /\ Len(h) \in Nat
    BY DEF SocketTypes
  <1>2. PICK outcome : handled' = [handled EXCEPT ![c] = Append(@, <<n, outcome>>)]
    BY DEF HandleLine, HandleWith
  <1>3. handled'[c] = Append(h, <<n, outcome>>)
    BY <1>2 DEF SocketTypes
  <1>4. replies' = replies /\ replies[c] = h /\ c \in Owned
    BY DEF HandleLine, HandleWith, OnlyOwned, SocketTypes
  <1>5. \A m \in 1..Len(h) : h[m][1] = m
    BY DEF InStep
  <1> HIDE DEF h
  <1>6. /\ Len(handled'[c]) = n
        /\ \A m \in 1..Len(h) : handled'[c][m] = h[m]
        /\ handled'[c][n] = <<n, outcome>>
    BY <1>1, <1>3
  <1>7. \A m \in 1..n : handled'[c][m][1] = m
    BY <1>1, <1>5, <1>6
  <1>8. QED  BY <1>1, <1>4, <1>6, <1>7 DEF InStep

LEMMA RepliedInStep ==
    ASSUME SocketTypes, NEW c \in Clients, InStep(c), WriteReply(c)
    PROVE  InStep(c)'
  <1> DEFINE r == replies[c]
             n == Len(r) + 1
  <1>1. r \in Seq(Answer) /\ Len(r) \in Nat /\ Len(handled[c]) \in Nat
    BY DEF SocketTypes
  <1>2. /\ handled' = handled /\ Len(r) < Len(handled[c])
        /\ replies'[c] = Append(r, handled[c][n])
    BY DEF WriteReply, SocketTypes
  <1>3. \A m \in 1..Len(r) : r[m] = handled[c][m]
    BY DEF InStep
  <1>4. handled[c][n] \in Answer
    BY <1>1, <1>2 DEF SocketTypes
  <1> HIDE DEF r
  <1>5. /\ Len(replies'[c]) = n
        /\ \A m \in 1..Len(r) : replies'[c][m] = r[m]
        /\ replies'[c][n] = handled[c][n]
    BY <1>1, <1>2, <1>4
  <1>6. \A m \in 1..n : replies'[c][m] = handled[c][m]
    BY <1>1, <1>3, <1>5
  <1>7. Len(handled[c]) <= Len(r) + 1
    BY DEF InStep, r
  <1>8. QED  BY <1>1, <1>2, <1>5, <1>6, <1>7 DEF InStep

(* What the property says of a client. *)
LEMMA InStepAnswers ==
    ASSUME SocketTypes, NEW c \in Clients, InStep(c)
    PROVE  Answered(c)
  <1> DEFINE h == handled[c]
             r == replies[c]
  <1>1. h \in Seq(Answer) /\ r \in Seq(Answer) /\ Len(h) \in Nat /\ Len(r) \in Nat
    BY DEF SocketTypes
  <1>2. Len(r) <= Len(h) /\ \A n \in 1..Len(r) : r[n] = h[n]
    BY DEF InStep
  <1> HIDE DEF h, r
  <1>3. r = SubSeq(h, 1, Len(r))
    BY <1>1, <1>2
  <1>4. DOMAIN h = 1..Len(h)
    BY <1>1
  <1>5. QED  BY <1>3, <1>4 DEF InStep, Answered, h, r

-------------------------------------------------------------------------------
(* serve: agents displace each other and stop, at any moment. *)
LEMMA ServersOrderly ==
    SocketTypes /\ Reachable /\ PrivateFirst /\ [SocketNext]_socketVars
        => Reachable' /\ PrivateFirst'
  <1> SUFFICES ASSUME SocketTypes, Reachable, PrivateFirst, [SocketNext]_socketVars
               PROVE  Reachable' /\ PrivateFirst'
    OBVIOUS
  <1> USE SocketAssumption DEF SocketTypes, Reachable, PrivateFirst, ends
  <1>1. ASSUME NEW a \in Servers, MakeDirectory(a) PROVE Reachable' /\ PrivateFirst'
    BY <1>1 DEF MakeDirectory, At
  <1>2. ASSUME NEW a \in Servers, RemoveOld(a) PROVE Reachable' /\ PrivateFirst'
    BY <1>2 DEF RemoveOld, At
  <1>3. ASSUME NEW a \in Servers, Bind(a) PROVE Reachable' /\ PrivateFirst'
    BY <1>3 DEF Bind, At
  <1>4. ASSUME NEW a \in Servers, RestrictSocket(a) PROVE Reachable' /\ PrivateFirst'
    BY <1>4 DEF RestrictSocket, At
  <1>5. ASSUME NEW a \in Servers, PathLost(a) \/ Stops(a) PROVE Reachable' /\ PrivateFirst'
    BY <1>5 DEF PathLost, Stops, ProcessEnds
  <1>6. ASSUME UNCHANGED <<serving, private, bound, guarded, displaced>>
        PROVE  Reachable' /\ PrivateFirst'
    BY <1>6
  <1>7. ASSUME NEW c \in Clients,
               Reach(c) \/ Accept(c) \/ HandleLine(c) \/ WriteReply(c) \/ HangUp(c)
        PROVE  Reachable' /\ PrivateFirst'
    BY <1>6, <1>7 DEF Reach, Accept, HandleLine, HandleWith, WriteReply, HangUp
  <1>8. ASSUME NEW c \in Clients, NEW line \in Requested, SendLine(c, line)
        PROVE  Reachable' /\ PrivateFirst'
    BY <1>6, <1>8 DEF SendLine
  <1>9. CASE UNCHANGED socketVars
    BY <1>6, <1>9 DEF socketVars
  <1>10. QED
    BY <1>1, <1>2, <1>3, <1>4, <1>5, <1>7, <1>8, <1>9 DEF SocketNext

(* The connections, whatever the agents do meanwhile. *)
LEMMA ClientsOrderly ==
    ASSUME SocketTypes, OnlyOwned, \A c \in Clients : InStep(c), [SocketNext]_socketVars
    PROVE  OnlyOwned' /\ \A c \in Clients : InStep(c)'
  <1> DEFINE Goal == OnlyOwned' /\ \A c \in Clients : InStep(c)'
  <1> USE DEF ends
  <1>1. ASSUME UNCHANGED <<handled, replies>>,
               \A c \in Clients : state'[c] = "open" => state[c] = "open" \/ c \in Owned
        PROVE  Goal
    BY <1>1, InStepKept DEF OnlyOwned
  <1>2. ASSUME NEW a \in Servers,
               MakeDirectory(a) \/ RemoveOld(a) \/ Bind(a) \/ RestrictSocket(a)
        PROVE  Goal
    BY <1>1, <1>2 DEF MakeDirectory, RemoveOld, Bind, RestrictSocket
  <1>3. ASSUME NEW a \in Servers, PathLost(a) \/ Stops(a) PROVE Goal
    BY <1>1, <1>3 DEF PathLost, Stops, ProcessEnds
  <1>4. ASSUME NEW c \in Clients, Reach(c) \/ Accept(c) \/ HangUp(c) PROVE Goal
    BY <1>1, <1>4 DEF Reach, Accept, HangUp, SocketTypes
  <1>5. ASSUME NEW c \in Clients, NEW line \in Requested, SendLine(c, line) PROVE Goal
    BY <1>1, <1>5 DEF SendLine
  <1>6. ASSUME NEW c \in Clients, HandleLine(c) PROVE Goal
    <2>1. OnlyOwned'
      BY <1>6 DEF HandleLine, HandleWith, OnlyOwned
    <2>2. \A k \in Clients \ {c} : handled'[k] = handled[k] /\ replies'[k] = replies[k]
      BY <1>6 DEF HandleLine, HandleWith, SocketTypes
    <2>3. \A k \in Clients \ {c} : InStep(k)'
      BY <2>2 DEF InStep
    <2>4. QED  BY <1>6, <2>1, <2>3, HandledInStep
  <1>7. ASSUME NEW c \in Clients, WriteReply(c) PROVE Goal
    <2>1. OnlyOwned'
      BY <1>7 DEF WriteReply, OnlyOwned
    <2>2. \A k \in Clients \ {c} : handled'[k] = handled[k] /\ replies'[k] = replies[k]
      BY <1>7 DEF WriteReply, SocketTypes
    <2>3. \A k \in Clients \ {c} : InStep(k)'
      BY <2>2 DEF InStep
    <2>4. QED  BY <1>7, <2>1, <2>3, RepliedInStep
  <1>8. CASE UNCHANGED socketVars
    BY <1>1, <1>8 DEF socketVars
  <1>9. QED
    BY <1>2, <1>3, <1>4, <1>5, <1>6, <1>7, <1>8 DEF SocketNext

(* serve, rdt-agent/src/lib.rs:185-238: for any number of agents, clients,
   lines and stops, replies are in the order of their lines and only for the
   agents' user, and an agent that accepts is reached through a restricted
   socket in a private directory unless another agent removed it. *)
THEOREM OrderTheorem == SocketSpec => []ControlIsOrderly
  <1>1. SocketInv /\ [SocketNext]_socketVars => SocketInv'
    BY SocketTypesInductive, ServersOrderly, ClientsOrderly DEF SocketInv
  <1>2. SocketInv => ControlIsOrderly
    BY InStepAnswers DEF SocketInv, ControlIsOrderly, Reachable, PrivateFirst
  <1>3. QED  BY <1>1, <1>2, SocketInitial, PTL DEF SocketSpec

-------------------------------------------------------------------------------
(* The service.  Where a call is says what it has done so far; a unit whose
   disabling did not fail neither runs nor is enabled or starting when systemd
   does not know it, and is not enabled when it has no file; an entry that is
   not there is neither marked nor running. *)

Steps == {"account", "write", "reload", "enable", "restart", "started", "disable", "remove",
          "forget", "delete entry", "create entry"} \cup Ended

Units == Texts \cup {Absent, Torn} \cup {Rendered(r) : r \in Requests}

ServiceTypes ==
    /\ request \in Requests /\ step \in Steps
    /\ searched \subseteq Scopes
    /\ unit \in [Scopes -> Units]
    /\ known \in [Scopes -> Units]
    /\ runs \in [Scopes -> Units]

Installing ==
    /\ step \in {"account", "write", "reload", "enable", "restart", "started"} =>
          request.op = "install" /\ request.scope # "scm"
    /\ step \in {"reload", "enable", "restart", "started"} =>
          unit[request.scope] = Rendered(request)
    /\ step \in {"enable", "restart", "started"} /\ request.scope \in searched =>
          known[request.scope] = Rendered(request)
    /\ step \in {"restart", "started"} =>
          request.scope \in enabled /\ request.scope \in searched

Uninstalling ==
    /\ step \in {"disable", "remove", "forget"} =>
          request.op = "uninstall" /\ request.scope # "scm"
    /\ step = "forget" => unit[request.scope] = Absent
    /\ step \in {"remove", "forget"} /\ request.scope \notin unheeded => Dormant(request.scope)

Entries ==
    /\ step \in {"delete entry", "create entry"} => request.scope = "scm"
    /\ step = "create entry" => request.op = "install"
    /\ "scm" \notin starting
    /\ unit["scm"] = Absent => Dormant("scm")
    /\ marked => runs["scm"] # Absent /\ unit["scm"] # Absent

UnknownIsQuiet ==
    \A s \in Scopes \ {"scm"} :
        /\ s \notin searched => known[s] = Absent
        /\ s \notin unheeded /\ known[s] = Absent => Dormant(s)
        /\ s \notin unheeded /\ unit[s] = Absent => s \notin enabled

ServiceInv == ServiceTypes /\ Installing /\ Uninstalling /\ Entries /\ UnknownIsQuiet

-------------------------------------------------------------------------------
(* What the requests and their definitions are. *)
LEMMA RequestFields ==
    ASSUME NEW r \in Requests
    PROVE  /\ r.op \in {"install", "uninstall"} /\ r.scope \in Scopes /\ r.text \in Texts
           /\ Rendered(r) \in Units /\ Rendered(r) # Absent
  <1>1. r \in Request
    BY ServiceAssumption
  <1>2. Rendered(r) # Absent
    BY ServiceAssumption
  <1> QED
    BY <1>1, <1>2 DEF Request, Units

LEMMA ServiceInitial == ServiceInit => ServiceInv
  <1> SUFFICES ASSUME ServiceInit PROVE ServiceInv
    OBVIOUS
  <1>1. request \in Requests
    BY ServiceAssumption DEF ServiceInit
  <1>2. step = "ok" /\ searched \subseteq Scopes /\ ~marked
    BY DEF ServiceInit, Scopes
  <1>3. \A s \in Scopes : unit[s] = Absent /\ known[s] = Absent /\ runs[s] = Absent
    BY DEF ServiceInit
  <1>4. ServiceTypes
    BY <1>1, <1>2 DEF ServiceInit, ServiceTypes, Units, Steps, Ended
  <1>5. UnknownIsQuiet /\ \A s \in Scopes : Dormant(s)
    BY <1>2, <1>3 DEF ServiceInit, UnknownIsQuiet, Dormant
  <1>6. Entries
    BY <1>2, <1>5 DEF ServiceInit, Entries, Scopes
  <1> QED
    BY <1>2, <1>4, <1>5, <1>6 DEF ServiceInv, Installing, Uninstalling

LEMMA ServiceTypesInductive == ServiceTypes /\ [ServiceNext]_serviceVars => ServiceTypes'
  <1> SUFFICES ASSUME ServiceTypes, [ServiceNext]_serviceVars PROVE ServiceTypes'
    OBVIOUS
  <1> USE DEF ServiceTypes
  <1>1. request.scope \in Scopes /\ Rendered(request) \in Units /\ request.text \in Units
    BY RequestFields DEF Units
  <1>2. {Absent, Torn} \subseteq Units
    BY DEF Units
  <1>3. request' \in Requests /\ step' \in Steps /\ searched' = searched
    <2>1. {"write", "reload", "enable", "restart", "started", "remove", "forget", "account",
           "disable", "delete entry", "create entry", "ok", "failed"} \subseteq Steps
      BY DEF Steps, Ended
    <2>2. ASSUME NEW from, NEW to \in Steps, Goes(from, to)
          PROVE  request' \in Requests /\ step' \in Steps /\ searched' = searched
      BY <2>2 DEF Goes, machine
    <2>3. ASSUME NEW r \in Requests, BeginService(r)
          PROVE  request' \in Requests /\ step' \in Steps /\ searched' = searched
      BY <2>1, <2>3 DEF BeginService, FirstStep, machine
    <2>4. CASE UNCHANGED <<request, step, machine>>
      BY <2>4 DEF machine
    <2>5. CASE Boot
      BY <2>1, <2>5 DEF Boot, machine
    <2>6. CASE EnsureUser \/ WriteUnit \/ Reload \/ Enable \/ EnableUnknown
      BY <2>1, <2>2, <2>6 DEF EnsureUser, WriteUnit, Reload, Enable, EnableUnknown
    <2>7. CASE Restart \/ Started \/ NeverReady \/ Disable \/ DisableFails \/ RemoveUnit
      BY <2>1, <2>2, <2>7 DEF Restart, Started, NeverReady, Disable, DisableFails, RemoveUnit
    <2>8. CASE Forget \/ ForgetFails \/ CreateEntry \/ EntryExists \/ StepFails
      BY <2>1, <2>2, <2>8 DEF Forget, ForgetFails, CreateEntry, EntryExists, StepFails
    <2>9. CASE DeleteEntry \/ DeleteEntryFails
      BY <2>1, <2>2, <2>9 DEF DeleteEntry, DeleteEntryFails
    <2> QED
      BY <2>3, <2>4, <2>5, <2>6, <2>7, <2>8, <2>9
      DEF ServiceNext, serviceVars, ServiceEnds, ScmStart
  <1>4. unit' \in [Scopes -> Units]
    <2>1. CASE unit' = unit
      BY <2>1
    <2>2. ASSUME NEW s \in Scopes, NEW u \in Units, unit' = [unit EXCEPT ![s] = u]
          PROVE  unit' \in [Scopes -> Units]
      BY <2>2
    <2>3. CASE \E s \in Scopes : ServiceEnds(s)
      BY <1>2, <2>3 DEF ServiceEnds
    <2>4. CASE Boot
      BY <1>2, <2>4 DEF Boot, Stored
    <2>5. CASE StepFails
      BY <1>1, <1>2, <2>5 DEF StepFails
    <2>6. CASE WriteUnit \/ RemoveUnit \/ DeleteEntry \/ CreateEntry
      <3>1. "scm" \in Scopes
        BY DEF Scopes
      <3> QED
        BY <1>1, <1>2, <2>2, <2>6, <3>1 DEF WriteUnit, RemoveUnit, DeleteEntry, CreateEntry
    <2> QED
      BY <2>1, <2>3, <2>4, <2>5, <2>6
      DEF ServiceNext, serviceVars, service, BeginService, EnsureUser, Reload, Enable,
          EnableUnknown, Restart, Started, NeverReady, Disable, DisableFails, Forget,
          ForgetFails, DeleteEntryFails, EntryExists, ScmStart
  <1>5. known' \in [Scopes -> Units]
    <2>1. CASE known' = known
      BY <2>1
    <2>2. CASE Reload \/ Forget
      BY <2>2 DEF Reload, Forget, LoadUnits
    <2>3. CASE Boot
      BY <1>2, <2>3 DEF Boot, Stored
    <2> QED
      BY <2>1, <2>2, <2>3
      DEF ServiceNext, serviceVars, service, BeginService, EnsureUser, WriteUnit, Enable,
          EnableUnknown, Restart, Started, NeverReady, Disable, DisableFails, RemoveUnit,
          ForgetFails, DeleteEntry, DeleteEntryFails, CreateEntry, EntryExists, StepFails,
          ServiceEnds, ScmStart
  <1>6. runs' \in [Scopes -> Units]
    <2>1. CASE runs' = runs
      BY <2>1
    <2>2. CASE Restart \/ Started \/ Disable
      BY <1>1, <1>2, <2>2 DEF Restart, Started, Disable
    <2>3. CASE ScmStart
      <3>1. "scm" \in Scopes
        BY DEF Scopes
      <3> QED
        BY <2>3, <3>1 DEF ScmStart
    <2>4. CASE \E s \in Scopes : ServiceEnds(s)
      BY <1>2, <2>4 DEF ServiceEnds
    <2>5. CASE Boot
      BY <1>2, <2>5 DEF Boot, Stored
    <2> QED
      BY <2>1, <2>2, <2>3, <2>4, <2>5
      DEF ServiceNext, serviceVars, service, BeginService, EnsureUser, WriteUnit, Reload, Enable,
          EnableUnknown, NeverReady, DisableFails, RemoveUnit, Forget,
          ForgetFails, DeleteEntry, DeleteEntryFails, CreateEntry, EntryExists, StepFails
  <1> QED
    BY <1>3, <1>4, <1>5, <1>6

(* A call begins with nothing done. *)
LEMMA BeginOrderly ==
    ASSUME ServiceInv, ServiceTypes', NEW r \in Requests, BeginService(r)
    PROVE  ServiceInv'
  <1>1. UNCHANGED <<searched, unit, marked, known, runs, enabled, starting, unheeded>>
    BY DEF BeginService, machine, service
  <1>2. UnknownIsQuiet'
    BY <1>1 DEF ServiceInv, UnknownIsQuiet, Dormant
  <1>3. CASE step' = "failed"
    BY <1>1, <1>2, <1>3 DEF ServiceInv, Installing, Uninstalling, Entries, Dormant
  <1>4. CASE step' # "failed"
    <2>1. request' = r /\ step' = FirstStep(r) /\ r.op \in {"install", "uninstall"}
      BY <1>4, RequestFields DEF BeginService
    <2>2. /\ step' \in {"account", "write"} => r.op = "install" /\ r.scope # "scm"
          /\ step' = "disable" => r.op = "uninstall" /\ r.scope # "scm"
          /\ step' = "delete entry" => r.scope = "scm"
          /\ step' \in {"account", "write", "disable", "delete entry"}
      BY <2>1 DEF FirstStep
    <2> QED
      BY <1>1, <1>2, <2>1, <2>2 DEF ServiceInv, Installing, Uninstalling, Entries, Dormant
  <1> QED
    BY <1>3, <1>4

(* A step of a call under systemd leaves the entry of Windows alone. *)
LEMMA EntriesKept ==
    ASSUME ServiceInv, request.scope \in Scopes \ {"scm"}, "scm" \in Scopes,
           step' \notin {"delete entry", "create entry"},
           UNCHANGED marked, unit'["scm"] = unit["scm"], runs'["scm"] = runs["scm"],
           "scm" \in enabled' <=> "scm" \in enabled, "scm" \in starting' => "scm" \in starting
    PROVE  Entries'
  BY DEF ServiceInv, Entries, Dormant

LEMMA InstallOrderly ==
    ASSUME ServiceInv, ServiceTypes',
           EnsureUser \/ WriteUnit \/ Reload \/ Enable \/ EnableUnknown \/ Restart \/ Started
           \/ NeverReady
    PROVE  ServiceInv'
  <1> USE DEF ServiceInv
  <1>1. /\ request.scope \in Scopes /\ Rendered(request) # Absent
        /\ unit \in [Scopes -> Units] /\ known \in [Scopes -> Units]
        /\ runs \in [Scopes -> Units]
    BY RequestFields DEF ServiceTypes
  <1>2. /\ request' = request /\ searched' = searched
        /\ step' \notin {"delete entry", "create entry"}
    BY DEF EnsureUser, WriteUnit, Reload, Enable, EnableUnknown, Restart, Started, NeverReady, Goes,
           machine
  <1>3. marked' = marked /\ unheeded' = unheeded
    BY DEF EnsureUser, WriteUnit, Reload, Enable, EnableUnknown, Restart, Started, NeverReady, service
  <1>4. request.scope # "scm" /\ "scm" \in Scopes
    BY DEF EnsureUser, WriteUnit, Reload, Enable, EnableUnknown, Restart, Started, NeverReady, Goes,
           Installing, Scopes
  <1>5. CASE EnsureUser
    <2>1. step = "account" /\ step' = "write"
      BY <1>5 DEF EnsureUser, Goes
    <2>2. UNCHANGED <<unit, known, runs, enabled, starting>>
      BY <1>5 DEF EnsureUser
    <2>3. UnknownIsQuiet' /\ Entries'
      BY <1>1, <1>2, <1>3, <1>4, <2>2, EntriesKept DEF UnknownIsQuiet, Dormant
    <2> QED
      BY <1>2, <2>1, <2>2, <2>3 DEF Installing, Uninstalling
  <1>6. CASE WriteUnit
    <2>1. step = "write" /\ step' = "reload"
      BY <1>6 DEF WriteUnit, Goes
    <2>2. /\ UNCHANGED <<known, runs, enabled, starting>> /\ unit'[request.scope] = Rendered(request)
          /\ \A s \in Scopes : s # request.scope => unit'[s] = unit[s]
      BY <1>1, <1>6 DEF WriteUnit
    <2>3. Entries'
      BY <1>1, <1>2, <1>3, <1>4, <2>2, EntriesKept
    <2>4. UnknownIsQuiet'
      BY <1>1, <1>2, <1>3, <2>2 DEF UnknownIsQuiet, Dormant
    <2> QED
      BY <1>2, <2>1, <2>2, <2>3, <2>4 DEF Installing, Uninstalling
  <1>7. CASE Reload
    <2>1. step = "reload" /\ step' = "enable"
      BY <1>7 DEF Reload, Goes
    <2>2. UNCHANGED <<unit, runs, enabled, starting>>
      BY <1>7 DEF Reload
    <2>3. \A s \in Scopes :
             known'[s] = IF s = request.scope /\ s \in searched THEN unit[s] ELSE known[s]
      BY <1>7 DEF Reload, LoadUnits
    <2>4. unit[request.scope] = Rendered(request)
      BY <2>1 DEF Installing
    <2>5. request.scope \in searched => known'[request.scope] = Rendered(request)
      BY <1>1, <2>3, <2>4
    <2>6. \A s \in Scopes : /\ known'[s] = Absent => known[s] = Absent
                            /\ s \notin searched => known'[s] = known[s]
      BY <1>1, <2>3, <2>4
    <2>7. UnknownIsQuiet'
      BY <1>2, <1>3, <2>2, <2>6 DEF UnknownIsQuiet, Dormant
    <2>8. Entries'
      BY <1>1, <1>2, <1>3, <1>4, <2>2, EntriesKept
    <2> QED
      BY <1>2, <2>1, <2>2, <2>5, <2>7, <2>8 DEF Installing, Uninstalling
  <1>8. CASE Enable
    <2>1. step = "enable" /\ step' \in {"restart", "ok"} /\ request.scope \in searched
      BY <1>8 DEF Enable, Goes
    <2>2. UNCHANGED <<unit, known, runs, starting>> /\ enabled' = enabled \cup {request.scope}
      BY <1>8 DEF Enable
    <2>3. known[request.scope] # Absent /\ unit[request.scope] # Absent
      BY <1>1, <2>1 DEF Installing
    <2>4. UnknownIsQuiet'
      BY <1>2, <1>3, <2>2, <2>3 DEF UnknownIsQuiet, Dormant
    <2>5. Entries'
      BY <1>1, <1>2, <1>3, <1>4, <2>2, EntriesKept
    <2> QED
      BY <1>2, <2>1, <2>2, <2>4, <2>5 DEF Installing, Uninstalling
  <1>9. CASE EnableUnknown \/ NeverReady
    <2>1. step' = "failed" /\ UNCHANGED <<unit, known, runs, enabled, starting>>
      BY <1>9 DEF EnableUnknown, NeverReady, Goes, service
    <2>2. UnknownIsQuiet' /\ Entries'
      BY <1>1, <1>2, <1>3, <1>4, <2>1, EntriesKept DEF UnknownIsQuiet, Dormant
    <2> QED
      BY <1>2, <2>1, <2>2 DEF Installing, Uninstalling
  <1>10. CASE Restart \/ Started
    <2>1. step \in {"restart", "started"} /\ step' \in {"started", "ok"}
      BY <1>10 DEF Restart, Started, Goes
    <2>2. /\ UNCHANGED <<unit, known, enabled>>
          /\ \A s \in Scopes : s # request.scope => /\ runs'[s] = runs[s]
                                                    /\ s \in starting' => s \in starting
      BY <1>1, <1>10 DEF Restart, Started
    <2>3. known[request.scope] # Absent
      BY <1>1, <2>1 DEF Installing
    <2>4. UnknownIsQuiet'
      BY <1>2, <1>3, <2>2, <2>3 DEF UnknownIsQuiet, Dormant
    <2>5. Entries'
      BY <1>1, <1>2, <1>3, <1>4, <2>2, EntriesKept
    <2> QED
      BY <1>2, <2>1, <2>2, <2>4, <2>5 DEF Installing, Uninstalling
  <1> QED
    BY <1>5, <1>6, <1>7, <1>8, <1>9, <1>10

LEMMA UninstallOrderly ==
    ASSUME ServiceInv, ServiceTypes',
           Disable \/ DisableFails \/ RemoveUnit \/ Forget \/ ForgetFails
    PROVE  ServiceInv'
  <1> USE DEF ServiceInv
  <1>1. /\ request.scope \in Scopes /\ unit \in [Scopes -> Units] /\ known \in [Scopes -> Units]
        /\ runs \in [Scopes -> Units]
    BY RequestFields DEF ServiceTypes
  <1>2. /\ request' = request /\ searched' = searched
        /\ step' \notin {"delete entry", "create entry"}
    BY DEF Disable, DisableFails, RemoveUnit, Forget, ForgetFails, Goes, machine
  <1>3. request.scope # "scm" /\ request.op = "uninstall" /\ "scm" \in Scopes
    BY DEF Disable, DisableFails, RemoveUnit, Forget, ForgetFails, Goes, Uninstalling, Scopes
  <1>4. marked' = marked
    BY DEF Disable, DisableFails, RemoveUnit, Forget, ForgetFails, service
  <1>5. CASE Disable
    <2> DEFINE found == IF known[request.scope] = Absent THEN {} ELSE {request.scope}
    <2>1. step = "disable" /\ step' = "remove"
      BY <1>5 DEF Disable, Goes
    <2>2. /\ UNCHANGED <<unit, known>> /\ enabled' = enabled \ found /\ starting' = starting \ found
          /\ \A s \in Scopes : runs'[s] = IF s \in found THEN Absent ELSE runs[s]
          /\ unheeded' = unheeded \ found
      BY <1>5 DEF Disable
    <2>3. /\ found \subseteq {request.scope}
          /\ known[request.scope] = Absent \/ request.scope \in found
          /\ request.scope \in found => known[request.scope] # Absent
      OBVIOUS
    <2> HIDE DEF found
    <2>4. ASSUME NEW s \in Scopes, s # "scm", s \notin unheeded', known[s] = Absent \/ s \in found
          PROVE  Dormant(s)'
      <3>1. CASE s \in found
        BY <2>2, <3>1 DEF Dormant
      <3>2. CASE s \notin found
        BY <2>2, <2>4, <3>2 DEF Dormant, UnknownIsQuiet
      <3> QED
        BY <3>1, <3>2
    <2>5. UnknownIsQuiet'
      <3>1. ASSUME NEW s \in Scopes \ {"scm"}, s \notin unheeded', unit[s] = Absent
            PROVE  s \notin enabled'
        BY <2>2, <3>1 DEF UnknownIsQuiet
      <3> QED
        BY <1>2, <2>2, <2>4, <3>1 DEF UnknownIsQuiet
    <2>6. Uninstalling'
      BY <1>1, <1>2, <1>3, <2>1, <2>3, <2>4 DEF Uninstalling
    <2>7. Entries'
      BY <1>1, <1>2, <1>3, <1>4, <2>2, <2>3, EntriesKept
    <2> QED
      BY <1>2, <2>1, <2>5, <2>6, <2>7 DEF Installing
  <1>6. CASE DisableFails
    <2>1. step' = "remove"
      BY <1>6 DEF DisableFails, Goes
    <2>2. /\ UNCHANGED <<unit, known, enabled, runs, starting>>
          /\ unheeded' = unheeded \cup {request.scope}
      BY <1>6 DEF DisableFails
    <2>3. UnknownIsQuiet'
      BY <1>2, <2>2 DEF UnknownIsQuiet, Dormant
    <2>4. Entries'
      BY <1>1, <1>2, <1>3, <1>4, <2>2, EntriesKept
    <2> QED
      BY <1>2, <1>3, <2>1, <2>2, <2>3, <2>4 DEF Installing, Uninstalling
  <1>7. CASE RemoveUnit
    <2>1. step = "remove" /\ step' = "forget"
      BY <1>7 DEF RemoveUnit, Goes
    <2>2. /\ UNCHANGED <<known, runs, enabled, starting, unheeded>> /\ unit'[request.scope] = Absent
          /\ \A s \in Scopes : s # request.scope => unit'[s] = unit[s]
      BY <1>1, <1>7 DEF RemoveUnit
    <2>3. request.scope \notin unheeded => Dormant(request.scope) /\ Dormant(request.scope)'
      BY <1>2, <2>1, <2>2 DEF Uninstalling, Dormant
    <2>4. UnknownIsQuiet'
      BY <1>1, <1>2, <2>2, <2>3 DEF UnknownIsQuiet, Dormant
    <2>5. Entries'
      BY <1>1, <1>2, <1>3, <1>4, <2>2, EntriesKept
    <2> QED
      BY <1>2, <1>3, <2>1, <2>2, <2>3, <2>4, <2>5 DEF Installing, Uninstalling
  <1>8. CASE Forget \/ ForgetFails
    <2>1. step = "forget" /\ step' = "ok"
      BY <1>8 DEF Forget, ForgetFails, Goes
    <2>2. UNCHANGED <<unit, runs, enabled, starting, unheeded>>
      BY <1>8 DEF Forget, ForgetFails, service
    <2>3. \A s \in Scopes : /\ s # request.scope => known'[s] = known[s]
                            /\ s \notin searched => known'[s] = known[s]
      BY <1>8 DEF Forget, ForgetFails, LoadUnits, service
    <2>4. request.scope \notin unheeded => Dormant(request.scope)
      BY <2>1 DEF Uninstalling
    <2>5. UnknownIsQuiet'
      BY <1>2, <2>2, <2>3, <2>4 DEF UnknownIsQuiet, Dormant
    <2>6. Entries'
      BY <1>1, <1>2, <1>3, <1>4, <2>2, EntriesKept
    <2> QED
      BY <1>2, <2>1, <2>5, <2>6 DEF Installing, Uninstalling
  <1> QED
    BY <1>5, <1>6, <1>7, <1>8

LEMMA EntryOrderly ==
    ASSUME ServiceInv, ServiceTypes',
           DeleteEntry \/ DeleteEntryFails \/ CreateEntry \/ EntryExists
    PROVE  ServiceInv'
  <1> USE DEF ServiceInv
  <1>1. /\ request' = request /\ searched' = searched /\ request.scope = "scm"
        /\ request.text \in Texts /\ Absent \notin Texts /\ "scm" \in Scopes
        /\ unit \in [Scopes -> Units]
    BY RequestFields, ServiceAssumption
    DEF DeleteEntry, DeleteEntryFails, CreateEntry, EntryExists, Goes, machine, Entries, Scopes,
        ServiceTypes
  <1>2. /\ step' \in {"create entry", "ok", "failed"}
        /\ step' = "create entry" => request.op = "install"
    BY DEF DeleteEntry, DeleteEntryFails, CreateEntry, EntryExists, Goes
  <1>3. /\ UNCHANGED <<known, runs, starting, unheeded>>
        /\ \A s \in Scopes \ {"scm"} : unit'[s] = unit[s] /\ (s \in enabled' <=> s \in enabled)
    BY <1>1 DEF DeleteEntry, DeleteEntryFails, CreateEntry, EntryExists, service
  <1>4. UnknownIsQuiet'
    BY <1>1, <1>3 DEF UnknownIsQuiet, Dormant
  <1>5. Entries'
    <2>1. CASE DeleteEntry
      <3>1. /\ runs' = runs /\ "scm" \notin starting'
            /\ step' = "create entry" => request'.op = "install"
            /\ step' \in {"delete entry", "create entry"} => request'.scope = "scm"
        BY <1>1, <1>2, <1>3 DEF Entries
      <3>2. CASE runs["scm"] = Absent
        <4>1. unit'["scm"] = Absent /\ "scm" \notin enabled' /\ marked' = marked
          BY <1>1, <2>1, <3>2 DEF DeleteEntry
        <4>2. ~marked
          BY <3>2 DEF Entries
        <4> QED
          BY <3>1, <3>2, <4>1, <4>2 DEF Entries, Dormant
      <3>3. CASE runs["scm"] # Absent
        <4>1. UNCHANGED <<unit, enabled>>
          BY <2>1, <3>3 DEF DeleteEntry
        <4> QED
          BY <3>1, <3>3, <4>1 DEF Entries, Dormant
      <3> QED
        BY <3>2, <3>3
    <2>2. CASE DeleteEntryFails \/ EntryExists
      <3>1. UNCHANGED <<unit, marked, enabled, runs, starting>>
        BY <2>2 DEF DeleteEntryFails, EntryExists, service
      <3>2. /\ step' \in {"delete entry", "create entry"} => request'.scope = "scm"
            /\ step' = "create entry" => request'.op = "install"
        BY <1>1, <1>2
      <3> QED
        BY <3>1, <3>2 DEF Entries, Dormant
    <2>3. CASE CreateEntry
      BY <1>1, <1>2, <1>3, <2>3 DEF CreateEntry, Entries, Dormant
    <2> QED
      BY <2>1, <2>2, <2>3
  <1> QED
    BY <1>1, <1>2, <1>4, <1>5 DEF Installing, Uninstalling

(* A call that has failed has promised nothing; a reboot starts what is enabled. *)
LEMMA FailureOrderly ==
    ASSUME ServiceInv, ServiceTypes', StepFails \/ Boot
    PROVE  ServiceInv'
  <1> USE DEF ServiceInv
  <1>1. step' = "failed" /\ searched' = searched /\ unheeded' = unheeded /\ "scm" \in Scopes
    BY DEF StepFails, Boot, Goes, machine, Scopes
  <1>2. CASE StepFails
    <2>1. /\ UNCHANGED <<marked, known, enabled, runs>>
          /\ starting' = starting \ {request.scope}
      BY <1>2 DEF StepFails
    <2>2. \A s \in Scopes : unit'[s] = unit[s] \/ (unit'[s] = Torn /\ s # "scm")
      <3>1. step = "write" => request.scope # "scm"
        BY DEF Installing
      <3> QED
        BY <1>2, <3>1 DEF StepFails, ServiceTypes
    <2>3. Torn # Absent
      BY ServiceAssumption
    <2>4. UnknownIsQuiet'
      BY <1>1, <2>1, <2>2, <2>3 DEF UnknownIsQuiet, Dormant
    <2>5. Entries'
      BY <1>1, <2>1, <2>2 DEF Entries, Dormant
    <2> QED
      BY <1>1, <2>4, <2>5 DEF Installing, Uninstalling
  <1>3. CASE Boot
    <2>1. /\ ~marked' /\ starting' = {}
          /\ \A s \in Scopes :
                /\ unit'[s] = Stored(s)
                /\ known'[s] = IF s \in searched \ {"scm"} THEN Stored(s) ELSE Absent
                /\ runs'[s] = IF ComesUp(s) THEN Stored(s) ELSE Absent
          /\ enabled' = IF marked THEN enabled \ {"scm"} ELSE enabled
      BY <1>3 DEF Boot
    <2>2. \A s \in Scopes : /\ s \notin enabled' => Dormant(s)'
                            /\ s # "scm" => Stored(s) = unit[s]
      BY <2>1 DEF Dormant, ComesUp, Stored
    <2>3. UnknownIsQuiet'
      <3>1. ASSUME NEW s \in Scopes \ {"scm"}, s \notin unheeded,
                   unit[s] = Absent \/ s \notin searched
            PROVE  s \notin enabled /\ s \notin enabled'
        BY <2>1, <3>1 DEF UnknownIsQuiet, Dormant
      <3> QED
        BY <1>1, <2>1, <2>2, <3>1 DEF UnknownIsQuiet
    <2>4. unit'["scm"] = Absent => Dormant("scm")'
      BY <1>1, <2>1, <2>2 DEF Entries, Dormant, Stored
    <2>5. Entries'
      BY <1>1, <2>1, <2>4 DEF Entries
    <2> QED
      BY <1>1, <2>3, <2>5 DEF Installing, Uninstalling
  <1> QED
    BY <1>2, <1>3

(* What the machine does by itself starts only what it knows, and an entry that
   was marked goes with its process. *)
LEMMA MachineOrderly ==
    ASSUME ServiceInv, ServiceTypes', NEW s \in Scopes, ServiceEnds(s) \/ (ScmStart /\ s = "scm")
    PROVE  ServiceInv'
  <1> USE DEF ServiceInv
  <1>1. UNCHANGED <<request, step, searched, known, starting, unheeded>>
    BY DEF ServiceEnds, ScmStart, machine
  <1>2. \A t \in Scopes \ {"scm"} : unit'[t] = unit[t] /\ (t \in enabled' <=> t \in enabled)
    BY DEF ServiceEnds, ScmStart
  <1>3. \A t \in Scopes : t # s => runs'[t] = runs[t]
    BY DEF ServiceEnds, ScmStart, ServiceTypes
  <1>4. s # "scm" => runs[s] # Absent /\ runs'[s] \in {Absent, known[s]}
    BY DEF ServiceEnds, ServiceTypes
  <1>5. ASSUME NEW t \in Scopes \ {"scm"}, Dormant(t) PROVE Dormant(t)'
    BY <1>1, <1>2, <1>3, <1>4, <1>5 DEF Dormant
  <1>6. request.scope \in Scopes /\ "scm" \in Scopes
    BY RequestFields DEF ServiceTypes, Scopes
  <1>7. Installing'
    BY <1>1, <1>2, <1>6 DEF Installing
  <1>8. Uninstalling'
    BY <1>1, <1>2, <1>5, <1>6 DEF Uninstalling
  <1>9. UnknownIsQuiet'
    BY <1>1, <1>2, <1>5 DEF UnknownIsQuiet
  <1>10. Entries'
    <2>1. CASE ServiceEnds(s) /\ s # "scm"
      <3>1. /\ unit'["scm"] = unit["scm"] /\ enabled' = enabled /\ (marked' => marked)
            /\ runs'["scm"] = runs["scm"]
        BY <1>3, <1>6, <2>1 DEF ServiceEnds
      <3> QED
        BY <1>1, <3>1 DEF Entries, Dormant
    <2>2. CASE ServiceEnds(s) /\ s = "scm"
      <3>1. ~marked' /\ runs["scm"] # Absent /\ runs'["scm"] = Absent
        BY <1>6, <2>2 DEF ServiceEnds, ServiceTypes
      <3>2. /\ unit'["scm"] = Absent => unit["scm"] = Absent \/ "scm" \notin enabled'
            /\ unit["scm"] # Absent
        BY <1>6, <2>2, <3>1 DEF ServiceEnds, Entries, Dormant
      <3> QED
        BY <1>1, <3>1, <3>2 DEF Entries, Dormant
    <2>3. CASE ScmStart
      <3>1. unit["scm"] # Absent /\ unit' = unit /\ ~marked /\ marked' = marked
        BY <2>3 DEF ScmStart
      <3> QED
        BY <1>1, <3>1 DEF Entries
    <2> QED
      BY <2>1, <2>2, <2>3
  <1> QED
    BY <1>7, <1>8, <1>9, <1>10

LEMMA ServiceInductive == ServiceInv /\ [ServiceNext]_serviceVars => ServiceInv'
  <1> SUFFICES ASSUME ServiceInv, [ServiceNext]_serviceVars PROVE ServiceInv'
    OBVIOUS
  <1>1. ServiceTypes'
    BY ServiceTypesInductive DEF ServiceInv
  <1>2. CASE UNCHANGED serviceVars
    BY <1>1, <1>2
    DEF serviceVars, machine, service, ServiceInv, Installing, Uninstalling, Entries,
        UnknownIsQuiet, Dormant
  <1>3. "scm" \in Scopes
    BY DEF Scopes
  <1> QED
    BY <1>1, <1>2, <1>3, BeginOrderly, InstallOrderly, UninstallOrderly, EntryOrderly,
       FailureOrderly, MachineOrderly
    DEF ServiceNext

LEMMA ServiceAlways == ServiceSpec => []ServiceInv
  BY ServiceInitial, ServiceInductive, PTL DEF ServiceSpec

(* service.rs, install_service and uninstall_service, for every sequence of
   calls, failures of their steps and reboots: an installation that reports
   success has put its definition in place of what was there, runs it if that
   was asked for, and has enabled it: the entry of Windows and the unit of the
   machine come up at the next boot.  A removal that reports success leaves no
   definition but an entry marked for the end of its process, and nothing that
   runs, starts or is enabled but where a disable --now failed unheeded. *)
THEOREM CallsTheorem == ServiceSpec => CallsTakeEffect
  <1> DEFINE Returns == step \notin Ended /\ step' = "ok"
             Promised == IF request.op = "install" THEN Installed(request)'
                                                   ELSE Uninstalled(request)'
  <1>1. ASSUME ServiceInv, ServiceNext, Returns PROVE Promised
    <2> USE <1>1 DEF ServiceInv
    <2>1. /\ request.scope \in Scopes /\ request.op \in {"install", "uninstall"}
          /\ unit \in [Scopes -> Units] /\ runs \in [Scopes -> Units] /\ "scm" \in Scopes
          /\ request.text \notin {Absent, Torn} /\ Rendered(request) \notin {Absent, Torn}
      BY RequestFields, ServiceAssumption DEF ServiceTypes, Scopes
    <2>2. ASSUME request' = request, notifies' = notifies, request.scope \notin {"scm"},
                 unit'[request.scope] = Rendered(request), request.scope \in enabled',
                 request.now => runs'[request.scope] = Rendered(request)
          PROVE  Installed(request)'
      <3>1. ASSUME request.scope = "system", notifies PROVE ComesUp("system")'
        BY <2>1, <2>2, <3>1 DEF ComesUp, Stored, Ready, Rendered, Targets
      <3> QED
        BY <2>2, <3>1 DEF Installed
    <2>3. CASE Enable
      <3>1. /\ request' = request /\ unit' = unit /\ enabled' = enabled \cup {request.scope}
            /\ step = "enable" /\ ~request.now /\ notifies' = notifies
        BY <2>3 DEF Enable, Goes, Ended, machine
      <3> QED
        BY <2>1, <2>2, <3>1 DEF Installing
    <2>4. CASE Started
      <3>1. /\ request' = request /\ unit' = unit /\ enabled' = enabled /\ step = "started"
            /\ runs'[request.scope] = known[request.scope] /\ notifies' = notifies
        BY <2>1, <2>4 DEF Started, Goes, machine
      <3> QED
        BY <2>1, <2>2, <3>1 DEF Installing
    <2>5. CASE CreateEntry
      <3>1. /\ request' = request /\ step = "create entry" /\ unit'["scm"] = request.text
            /\ unit["scm"] = Absent /\ marked' = marked
            /\ enabled' = IF request.now THEN enabled \cup {"scm"} ELSE enabled
        BY <2>1, <2>5 DEF CreateEntry, Goes
      <3>2. "scm" \notin enabled /\ ~marked
        BY <3>1 DEF Entries, Dormant
      <3>3. request.now <=> ComesUp("scm")'
        BY <2>1, <3>1, <3>2 DEF ComesUp, Stored
      <3> QED
        BY <2>1, <3>1, <3>3 DEF Installed, Entries
    <2>6. CASE Forget \/ ForgetFails
      <3>1. /\ UNCHANGED <<request, unit, runs, enabled, starting, unheeded>> /\ step = "forget"
        BY <2>6 DEF Forget, ForgetFails, Goes, service
      <3>2. /\ unit'[request.scope] = Absent
            /\ request.scope \in unheeded' \/ Dormant(request.scope)'
        BY <3>1 DEF Uninstalling, Dormant
      <3> QED
        BY <3>1, <3>2 DEF Uninstalling, Uninstalled, Status
    <2>7. CASE DeleteEntry
      <3>1. /\ request' = request /\ step = "delete entry" /\ request.op = "uninstall"
            /\ UNCHANGED <<runs, starting>>
        BY <2>1, <2>7 DEF DeleteEntry, Goes
      <3>2. CASE runs["scm"] = Absent
        BY <2>1, <2>7, <3>1, <3>2 DEF DeleteEntry, Entries, Uninstalled, ScmStatus, Dormant
      <3>3. CASE runs["scm"] # Absent
        BY <2>7, <3>1, <3>3 DEF DeleteEntry, Entries, Uninstalled
      <3> QED
        BY <3>2, <3>3
    <2>8. CASE DeleteEntryFails \/ EntryExists \/ StepFails
      BY <2>8 DEF DeleteEntryFails, EntryExists, StepFails, Goes
    <2>9. CASE EnsureUser \/ WriteUnit \/ Reload \/ EnableUnknown \/ Restart \/ NeverReady
               \/ Disable \/ DisableFails \/ RemoveUnit \/ Boot
      BY <2>9
      DEF EnsureUser, WriteUnit, Reload, EnableUnknown, Restart, NeverReady, Disable, DisableFails,
          RemoveUnit, Boot, Goes
    <2>10. ~(\E r \in Requests : BeginService(r)) /\ ~(\E s \in Scopes : ServiceEnds(s)) /\ ~ScmStart
      BY DEF BeginService, ServiceEnds, ScmStart, Ended
    <2> QED
      BY <2>3, <2>4, <2>5, <2>6, <2>7, <2>8, <2>9, <2>10 DEF ServiceNext
  <1> HIDE DEF Returns, Promised
  <1>2. ServiceInv /\ [ServiceNext]_serviceVars => [Returns => Promised]_serviceVars
    BY <1>1
  <1> QED
    BY <1>2, ServiceAlways, PTL DEF ServiceSpec, CallsTakeEffect, Returns, Promised


------------------------------------------------------------------------------
(* Where a result comes from: the parts of a line that its symbols stand for,
   a part being its first and last position and the symbol.  A symbol other
   than the marker stands for itself. *)
Part3 == Nat \X Nat \X Symbols
PartsOf(line) ==
    {t \in Part3 : /\ 1 <= t[1] /\ t[1] <= t[2] /\ t[2] <= Len(line)
                   /\ t[3] = "#" \/ (t[1] = t[2] /\ t[3] = line[t[2]])}
Origins(out, upto, parts) ==
    {cut \in [0..Len(out) -> Nat] :
        /\ cut[0] = 0 /\ cut[Len(out)] = upto
        /\ \A j \in 1..Len(out) : <<cut[j - 1] + 1, cut[j], out[j]>> \in parts}

LEMMA OriginsStart ==
    ASSUME NEW out, Len(out) = 0, NEW parts
    PROVE  Origins(out, 0, parts) # {}
  <1>1. [j \in 0..0 |-> 0] \in Origins(out, 0, parts)
    BY DEF Origins
  <1> QED BY <1>1

(* What Append leaves and what it adds. *)
LEMMA AppendedElements ==
    ASSUME NEW S, NEW seq \in Seq(S), NEW e \in S
    PROVE  /\ Append(seq, e) \in Seq(S) /\ Len(Append(seq, e)) = Len(seq) + 1
           /\ Append(seq, e)[Len(seq) + 1] = e
           /\ \A j \in 1..Len(seq) : Append(seq, e)[j] = seq[j]
  OBVIOUS

LEMMA OriginsStep ==
    ASSUME NEW out \in Seq(Symbols), NEW upto \in Nat, NEW parts,
           Origins(out, upto, parts) # {},
           NEW k \in Nat, NEW x \in Symbols, <<upto + 1, k, x>> \in parts
    PROVE  Append(out, x) \in Seq(Symbols) /\ Origins(Append(out, x), k, parts) # {}
  <1> DEFINE n == Len(out)
             more == Append(out, x)
  <1>1. PICK cut \in [0..n -> Nat] :
            /\ cut[0] = 0 /\ cut[n] = upto
            /\ \A j \in 1..n : <<cut[j - 1] + 1, cut[j], out[j]>> \in parts
    BY DEF Origins
  <1>2. /\ n \in Nat /\ more \in Seq(Symbols) /\ Len(more) = n + 1 /\ more[n + 1] = x
        /\ \A j \in 1..n : more[j] = out[j]
    BY AppendedElements
  <1> DEFINE c == [j \in 0..(n + 1) |-> IF j = n + 1 THEN k ELSE cut[j]]
  <1>3. /\ c \in [0..(n + 1) -> Nat] /\ c[n + 1] = k /\ \A j \in 0..n : c[j] = cut[j]
    <2>1. \A j \in 0..(n + 1) : j # n + 1 => j \in 0..n
      BY <1>2
    <2>2. \A j \in 0..n : j \in 0..(n + 1) /\ j # n + 1
      BY <1>2
    <2> QED BY <1>1, <1>2, <2>1, <2>2
  <1> HIDE DEF c, more, n
  <1>4. ASSUME NEW j \in 1..(n + 1) PROVE <<c[j - 1] + 1, c[j], more[j]>> \in parts
    <2>1. CASE j = n + 1
      <3>1. j - 1 = n /\ n \in 0..n
        BY <1>2, <2>1
      <3>2. c[j - 1] = upto /\ c[j] = k /\ more[j] = x
        BY <1>1, <1>2, <1>3, <2>1, <3>1
      <3> QED BY <3>2
    <2>2. CASE j # n + 1
      <3>1. j \in 1..n /\ j \in 0..n /\ j - 1 \in 0..n
        BY <1>2, <2>2
      <3> QED BY <1>1, <1>2, <1>3, <3>1
    <2> QED BY <2>1, <2>2
  <1>5. c[0] = 0
    BY <1>1, <1>2, <1>3
  <1>6. c \in Origins(more, k, parts)
    BY <1>2, <1>3, <1>4, <1>5 DEF Origins
  <1> QED BY <1>2, <1>6 DEF more

(* Symbols of the line copied one after the other. *)
LEMMA OriginsCopies ==
    ASSUME NEW line \in Seq(Symbols), NEW out \in Seq(Symbols), NEW parts,
           NEW upto \in 0..Len(line), NEW k \in upto..Len(line),
           \A i \in (upto + 1)..k : <<i, i, line[i]>> \in parts,
           Origins(out, upto, parts) # {}
    PROVE  /\ out \o SubSeq(line, upto + 1, k) \in Seq(Symbols)
           /\ Origins(out \o SubSeq(line, upto + 1, k), k, parts) # {}
  <1> DEFINE copied(i) == out \o SubSeq(line, upto + 1, upto + i)
             H == {i \in Nat : upto + i <= k =>
                      copied(i) \in Seq(Symbols) /\ Origins(copied(i), upto + i, parts) # {}}
  <1>1. Len(line) \in Nat /\ upto \in Nat /\ k \in Nat /\ k <= Len(line)
    OBVIOUS
  <1>2. 0 \in H
    <2>1. SubSeq(line, upto + 1, upto + 0) = <<>>
      BY <1>1, SubSeqEmpty
    <2>2. copied(0) = out
      BY <2>1, ConcatEmptySeq
    <2> HIDE DEF copied
    <2> QED BY <1>1, <2>2
  <1>3. ASSUME NEW i \in Nat, i \in H PROVE i + 1 \in H
    <2> SUFFICES ASSUME upto + (i + 1) <= k
                 PROVE  copied(i + 1) \in Seq(Symbols) /\ Origins(copied(i + 1), upto + (i + 1), parts) # {}
      OBVIOUS
    <2> DEFINE s == SubSeq(line, upto + 1, upto + i)
               s2 == SubSeq(line, upto + 1, upto + (i + 1))
               m == upto + i
               x == line[m + 1]
    <2>1. /\ upto + 1 \in 1..Len(line) + 1 /\ m \in ((upto + 1) - 1)..Len(line)
          /\ m + 1 \in ((upto + 1) - 1)..Len(line) /\ m + 1 = upto + (i + 1) /\ m + 1 \in 1..Len(line)
          /\ m + 1 \in (upto + 1)..k /\ m \in Nat /\ m - (upto + 1) + 1 = i
          /\ (m + 1) - (upto + 1) + 1 = i + 1 /\ (upto + 1) + (i + 1) - 1 = m + 1
      BY <1>1
    <2>2. x \in Symbols /\ <<m + 1, m + 1, x>> \in parts
      BY <2>1
    <2>3. copied(i) \in Seq(Symbols) /\ Origins(copied(i), m, parts) # {}
      BY <1>1, <1>3
    <2>4. s2 = Append(s, x)
      <3> HIDE DEF m, x
      <3>1. /\ s \in Seq(Symbols) /\ Len(s) = i
            /\ \A j \in 1..i : s[j] = line[(upto + 1) + j - 1]
        BY <2>1, PartOfSeq DEF m
      <3>2. /\ s2 \in Seq(Symbols) /\ Len(s2) = i + 1
            /\ \A j \in 1..(i + 1) : s2[j] = line[(upto + 1) + j - 1]
        <4> DEFINE l == upto + (i + 1)
        <4>1. upto + 1 \in 1..Len(line) + 1 /\ l \in ((upto + 1) - 1)..Len(line) /\ l - (upto + 1) + 1 = i + 1
          BY <1>1
        <4> HIDE DEF l
        <4>2. /\ SubSeq(line, upto + 1, l) \in Seq(Symbols) /\ Len(SubSeq(line, upto + 1, l)) = l - (upto + 1) + 1
              /\ \A j \in 1..(l - (upto + 1) + 1) : SubSeq(line, upto + 1, l)[j] = line[(upto + 1) + j - 1]
          BY <4>1, PartOfSeq
        <4> QED BY <4>1, <4>2 DEF l
      <3> DEFINE a == Append(s, x)
      <3> HIDE DEF s, s2
      <3>3. /\ a \in Seq(Symbols) /\ Len(a) = i + 1 /\ a[i + 1] = x
            /\ \A j \in 1..i : a[j] = s[j]
        <4>1. x \in Symbols /\ s \in Seq(Symbols)
          BY <2>2, <3>1
        <4>2. /\ Append(s, x) \in Seq(Symbols) /\ Len(Append(s, x)) = Len(s) + 1
              /\ Append(s, x)[Len(s) + 1] = x
              /\ \A j \in 1..Len(s) : Append(s, x)[j] = s[j]
          BY ONLY <4>1, AppendedElements
        <4>3. Len(s) = i
          BY <3>1
        <4> QED BY <4>2, <4>3
      <3> HIDE DEF a
      <3>4. ASSUME NEW j \in 1..Len(s2) PROVE s2[j] = a[j]
        <4>1. j \in 1..(i + 1)
          BY <3>2
        <4>2. CASE j = i + 1
          <5>1. s2[i + 1] = line[(upto + 1) + (i + 1) - 1] /\ i + 1 \in 1..(i + 1)
            <6>1. i + 1 \in 1..(i + 1)
              OBVIOUS
            <6> QED BY ONLY <3>2, <6>1
          <5> QED BY <2>1, <3>3, <4>2, <5>1 DEF x
        <4>3. CASE j # i + 1
          <5>1. j \in 1..i
            BY <4>1, <4>3
          <5> QED BY <3>1, <3>2, <3>3, <4>1, <5>1
        <4> QED BY <4>2, <4>3
      <3>5. s2 = a
        BY <3>2, <3>3, <3>4, SeqEqual
      <3> QED BY <3>5 DEF a
    <2>5. copied(i + 1) = Append(copied(i), x)
      <3>1. s \in Seq(Symbols)
        BY <2>1, PartOfSeq
      <3> HIDE DEF s, s2, x
      <3>2. ASSUME NEW a \in Seq(Symbols), NEW b \in Seq(Symbols), NEW y \in Symbols
            PROVE  a \o Append(b, y) = Append(a \o b, y)
        <4>1. a \o b \in Seq(Symbols) /\ <<y>> \in Seq(Symbols)
          BY ConcatProperties
        <4>2. Append(b, y) = b \o <<y>> /\ Append(a \o b, y) = (a \o b) \o <<y>>
          BY <4>1, AppendIsConcat
        <4> QED BY <4>1, <4>2, ConcatAssociative
      <3>3. copied(i) = out \o s /\ copied(i + 1) = out \o s2
        BY DEF s, s2
      <3>4. s2 = Append(s, x) /\ x \in Symbols
        BY <2>2, <2>4 DEF s, s2, x
      <3>5. out \o Append(s, x) = Append(out \o s, x)
        BY ONLY out \in Seq(Symbols), <3>1, <3>2, <3>4
      <3>6. out \o s2 = Append(out \o s, x)
        BY ONLY <3>4, <3>5
      <3> HIDE DEF copied, m
      <3> QED BY ONLY <3>3, <3>6
    <2> HIDE DEF x, s, s2, copied, H
    <2> HIDE DEF m
    <2>6. Append(copied(i), x) \in Seq(Symbols) /\ Origins(Append(copied(i), x), m + 1, parts) # {}
      BY <2>1, <2>2, <2>3, OriginsStep
    <2> QED BY <2>1, <2>5, <2>6
  <1> HIDE DEF H
  <1>4. k - upto \in Nat
    BY <1>1
  <1>5. k - upto \in H
    BY <1>2, <1>3, <1>4, Induction
  <1>6. upto + (k - upto) = k
    BY <1>1
  <1> QED BY <1>1, <1>5, <1>6 DEF H

(* A later symbol stands for a later part. *)
LEMMA OriginsGrow ==
    ASSUME NEW line \in Seq(Symbols), NEW out \in Seq(Symbols), NEW upto \in Nat,
           NEW parts \in SUBSET PartsOf(line), NEW cut \in Origins(out, upto, parts)
    PROVE  /\ cut \in [0..Len(out) -> Nat] /\ cut[0] = 0 /\ cut[Len(out)] = upto
           /\ \A j \in 1..Len(out) : /\ <<cut[j - 1] + 1, cut[j], out[j]>> \in parts
                                     /\ j \in 0..Len(out) /\ j - 1 \in 0..Len(out)
                                     /\ cut[j - 1] < cut[j] /\ cut[j] <= Len(line)
                                     /\ (out[j] = "#" \/ (cut[j] = cut[j - 1] + 1 /\ out[j] = line[cut[j]]))
           /\ \A i, j \in 0..Len(out) : i <= j => cut[i] <= cut[j]
  <1>1. /\ cut \in [0..Len(out) -> Nat] /\ cut[0] = 0 /\ cut[Len(out)] = upto
        /\ \A j \in 1..Len(out) : <<cut[j - 1] + 1, cut[j], out[j]>> \in parts
    BY DEF Origins
  <1>2. Len(out) \in Nat /\ Len(line) \in Nat
    OBVIOUS
  <1>3. ASSUME NEW j \in 1..Len(out)
        PROVE  /\ j \in 0..Len(out) /\ j - 1 \in 0..Len(out)
               /\ cut[j - 1] < cut[j] /\ cut[j] <= Len(line)
               /\ (out[j] = "#" \/ (cut[j] = cut[j - 1] + 1 /\ out[j] = line[cut[j]]))
    <2>1. j \in 0..Len(out) /\ j - 1 \in 0..Len(out)
      BY <1>2
    <2>2. cut[j - 1] \in Nat /\ cut[j] \in Nat
      BY <1>1, <2>1
    <2>3. <<cut[j - 1] + 1, cut[j], out[j]>> \in PartsOf(line)
      BY <1>1
    <2>4. /\ cut[j - 1] + 1 <= cut[j] /\ cut[j] <= Len(line)
          /\ out[j] = "#" \/ (cut[j - 1] + 1 = cut[j] /\ out[j] = line[cut[j]])
      BY <2>3 DEF PartsOf
    <2> QED BY <1>2, <2>1, <2>2, <2>4
  <1>4. ASSUME NEW i \in 0..Len(out), NEW j \in 0..Len(out), i <= j PROVE cut[i] <= cut[j]
    <2> DEFINE H == {m \in Nat : i + m <= j => cut[i] <= cut[i + m]}
    <2>1. i \in Nat /\ j \in Nat /\ cut[i] \in Nat
      BY <1>1, <1>2
    <2>2. 0 \in H
      BY <2>1
    <2>3. ASSUME NEW m \in Nat, m \in H PROVE m + 1 \in H
      <3> SUFFICES ASSUME i + (m + 1) <= j PROVE cut[i] <= cut[i + (m + 1)]
        OBVIOUS
      <3>1. i + (m + 1) \in 1..Len(out) /\ (i + (m + 1)) - 1 = i + m /\ i + m <= j
        BY <1>2, <2>1
      <3>2. cut[i + m] < cut[i + (m + 1)] /\ i + m \in 0..Len(out) /\ i + (m + 1) \in 0..Len(out)
        BY <1>3, <3>1
      <3>3. cut[i + m] \in Nat /\ cut[i + (m + 1)] \in Nat
        BY <1>1, <3>2
      <3>4. cut[i] <= cut[i + m]
        BY <2>3, <3>1
      <3> QED BY <2>1, <3>2, <3>3, <3>4
    <2> HIDE DEF H
    <2>4. j - i \in Nat /\ i + (j - i) = j
      BY <1>2, <2>1, <1>4
    <2>5. j - i \in H
      BY <2>2, <2>3, <2>4, Induction
    <2> QED BY <2>1, <2>4, <2>5 DEF H
  <1> QED BY <1>1, <1>3, <1>4

(* Every position belongs to a part. *)
LEMMA OriginsCover ==
    ASSUME NEW line \in Seq(Symbols), NEW out \in Seq(Symbols), NEW upto \in Nat,
           NEW parts \in SUBSET PartsOf(line), NEW cut \in Origins(out, upto, parts),
           NEW lo \in 0..Len(out), NEW hi \in 0..Len(out), NEW m \in Nat, cut[lo] < m, m <= cut[hi]
    PROVE  \E j \in 1..Len(out) : lo < j /\ j <= hi /\ cut[j - 1] < m /\ m <= cut[j]
  <1> DEFINE T == {j \in 0..Len(out) : m <= cut[j]}
  <1>1. /\ cut \in [0..Len(out) -> Nat] /\ \A i, j \in 0..Len(out) : i <= j => cut[i] <= cut[j]
    BY OriginsGrow
  <1>2. Len(out) \in Nat
    OBVIOUS
  <1>3. T \in SUBSET Nat /\ hi \in T
    BY <1>2
  <1>4. PICK j \in T : \A i \in T : j <= i
    <2> HIDE DEF T
    <2>1. T # {}
      BY <1>3
    <2> QED BY <1>3, <2>1, LeastNumber
  <1>5. j <= hi /\ j \in 0..Len(out) /\ m <= cut[j] /\ cut[j] \in Nat /\ cut[lo] \in Nat
    BY <1>1, <1>3, <1>4
  <1>6. ~(j <= lo)
    <2>1. j <= lo => cut[j] <= cut[lo]
      BY <1>1, <1>5
    <2> QED BY <1>5, <2>1
  <1>7. j \in 1..Len(out) /\ lo < j /\ j - 1 \in 0..Len(out) /\ ~(j <= j - 1)
    BY <1>2, <1>5, <1>6
  <1>8. ~(m <= cut[j - 1]) /\ cut[j - 1] \in Nat
    <2>1. j - 1 \notin T
      <3> HIDE DEF T
      <3> QED BY <1>4, <1>7
    <2> QED BY <1>1, <1>7, <2>1
  <1> QED BY <1>5, <1>7, <1>8

(* Symbols other than the marker, one after the other, stand for such symbols
   of the line. *)
Unmarked(out, p, n) == p + n - 1 <= Len(out) /\ \A i \in 0..(n - 1) : out[p + i] # "#"
Copied(line, out, cut, p, n) ==
    /\ p + n - 1 \in 0..Len(out) /\ cut[p + n - 1] = cut[p - 1] + n
    /\ \A i \in 0..(n - 1) : cut[p + i] = cut[p - 1] + 1 + i /\ line[cut[p - 1] + 1 + i] = out[p + i]
LEMMA OriginsCopied ==
    ASSUME NEW line \in Seq(Symbols), NEW out \in Seq(Symbols), NEW upto \in Nat,
           NEW parts \in SUBSET PartsOf(line), NEW cut \in Origins(out, upto, parts),
           NEW p \in 1..Len(out), NEW n \in Nat, Unmarked(out, p, n)
    PROVE  Copied(line, out, cut, p, n)
  <1>0. p + n - 1 <= Len(out) /\ \A i \in 0..(n - 1) : out[p + i] # "#"
    BY DEF Unmarked
  <1> DEFINE H == {m \in Nat : m <= n => cut[p + m - 1] = cut[p - 1] + m}
  <1>1. /\ cut \in [0..Len(out) -> Nat]
        /\ \A j \in 1..Len(out) : (out[j] = "#" \/ (cut[j] = cut[j - 1] + 1 /\ out[j] = line[cut[j]]))
    <2>1. /\ cut \in [0..Len(out) -> Nat]
          /\ \A j \in 1..Len(out) : /\ <<cut[j - 1] + 1, cut[j], out[j]>> \in parts
                                    /\ j \in 0..Len(out) /\ j - 1 \in 0..Len(out)
                                    /\ cut[j - 1] < cut[j] /\ cut[j] <= Len(line)
                                    /\ (out[j] = "#" \/ (cut[j] = cut[j - 1] + 1 /\ out[j] = line[cut[j]]))
      BY OriginsGrow
    <2> QED BY <2>1
  <1>2. Len(out) \in Nat /\ p \in Nat /\ p - 1 \in 0..Len(out)
    OBVIOUS
  <1>3. cut[p - 1] \in Nat
    BY <1>1, <1>2
  <1>4. 0 \in H
    <2>1. p + 0 - 1 = p - 1
      BY <1>2
    <2> QED BY <1>3, <2>1
  <1>5. ASSUME NEW i \in 0..(n - 1)
        PROVE  cut[p + i] = cut[p + i - 1] + 1 /\ out[p + i] = line[cut[p + i]] /\ p + i \in 1..Len(out)
    <2>0. p + i \in 1..Len(out) /\ (p + i) - 1 = p + i - 1
      BY <1>0, <1>2
    <2>1. p + i \in 1..Len(out) /\ (p + i) - 1 = p + i - 1 /\ out[p + i] # "#"
      BY <1>0, <2>0
    <2> DEFINE j == p + i
    <2>2. j \in 1..Len(out) /\ out[j] # "#"
      BY <2>1
    <2> HIDE DEF j
    <2>3. cut[j] = cut[j - 1] + 1 /\ out[j] = line[cut[j]]
      BY <1>1, <2>2
    <2> QED BY <2>1, <2>3 DEF j
  <1>6. ASSUME NEW m \in Nat, m \in H PROVE m + 1 \in H
    <2> SUFFICES ASSUME m + 1 <= n PROVE cut[p + (m + 1) - 1] = cut[p - 1] + (m + 1)
      OBVIOUS
    <2>1. m \in 0..(n - 1) /\ p + (m + 1) - 1 = p + m /\ m <= n
      BY <1>2
    <2>2. cut[p + m] = cut[p + m - 1] + 1 /\ cut[p + m - 1] = cut[p - 1] + m
      BY <1>5, <1>6, <2>1
    <2>3. (cut[p - 1] + m) + 1 = cut[p - 1] + (m + 1)
      <3>1. \A x \in Nat : (x + m) + 1 = x + (m + 1)
        OBVIOUS
      <3> QED BY <1>3, <3>1
    <2> QED BY <2>1, <2>2, <2>3
  <1> HIDE DEF H
  <1>7. \A m \in Nat : m \in H
    BY <1>4, <1>6, Induction
  <1>8. ASSUME NEW i \in 0..(n - 1)
        PROVE  cut[p + i] = cut[p - 1] + 1 + i /\ line[cut[p - 1] + 1 + i] = out[p + i]
    <2>1. i + 1 \in Nat /\ i + 1 <= n /\ p + (i + 1) - 1 = p + i
      BY <1>2
    <2>2. cut[p + i] = cut[p - 1] + (i + 1)
      BY <1>7, <2>1 DEF H
    <2>3. cut[p - 1] + (i + 1) = cut[p - 1] + 1 + i
      BY <1>3
    <2> QED BY <1>5, <2>2, <2>3
  <1>9. p + n - 1 \in 0..Len(out)
    BY <1>0, <1>2
  <1>10. cut[p + n - 1] = cut[p - 1] + n
    BY <1>7 DEF H
  <1> QED BY <1>8, <1>9, <1>10 DEF Copied

(* A scan of the result of a scan: the parts of the second become parts of
   the first line. *)
Carries(mid, out, cut, parts, goal) ==
    \A j \in 1..Len(out), p \in 1..Len(mid), q \in 1..Len(mid) :
        p <= q /\ <<p, q, out[j]>> \in parts => <<cut[p - 1] + 1, cut[q], out[j]>> \in goal
LEMMA OriginsCompose ==
    ASSUME NEW line \in Seq(Symbols), NEW mid \in Seq(Symbols), NEW out \in Seq(Symbols),
           NEW upto \in Nat, NEW parts \in SUBSET PartsOf(line), NEW cut \in Origins(mid, upto, parts),
           NEW parts2 \in SUBSET PartsOf(mid), NEW cut2 \in Origins(out, Len(mid), parts2), NEW goal,
           Carries(mid, out, cut, parts2, goal)
    PROVE  Origins(out, upto, goal) # {}
  <1>1. /\ cut \in [0..Len(mid) -> Nat] /\ cut[0] = 0 /\ cut[Len(mid)] = upto
    BY OriginsGrow
  <1>2. /\ cut2 \in [0..Len(out) -> Nat] /\ cut2[0] = 0 /\ cut2[Len(out)] = Len(mid)
        /\ \A j \in 1..Len(out) : /\ <<cut2[j - 1] + 1, cut2[j], out[j]>> \in parts2
                                  /\ j \in 0..Len(out) /\ j - 1 \in 0..Len(out)
                                  /\ cut2[j - 1] < cut2[j] /\ cut2[j] <= Len(mid)
        /\ \A i, j \in 0..Len(out) : i <= j => cut2[i] <= cut2[j]
    <2>1. Len(mid) \in Nat
      OBVIOUS
    <2> QED BY ONLY mid \in Seq(Symbols), out \in Seq(Symbols), parts2 \in SUBSET PartsOf(mid),
                    cut2 \in Origins(out, Len(mid), parts2), <2>1, OriginsGrow
  <1>3. Len(out) \in Nat /\ Len(mid) \in Nat
    OBVIOUS
  <1>4. \A j \in 0..Len(out) : cut2[j] \in 0..Len(mid)
    <2> SUFFICES ASSUME NEW j \in 0..Len(out) PROVE cut2[j] \in 0..Len(mid)
      OBVIOUS
    <2>0. Len(out) \in 0..Len(out) /\ j <= Len(out)
      BY <1>3
    <2>1. cut2[j] <= cut2[Len(out)] /\ cut2[j] \in Nat
      BY <1>2, <2>0
    <2> QED BY <1>2, <1>3, <2>1
  <1> DEFINE c == [j \in 0..Len(out) |-> cut[cut2[j]]]
  <1>5. c \in [0..Len(out) -> Nat] /\ c[0] = 0 /\ c[Len(out)] = upto
    BY <1>1, <1>2, <1>3, <1>4
  <1>6. ASSUME NEW j \in 1..Len(out) PROVE <<c[j - 1] + 1, c[j], out[j]>> \in goal
    <2>1. j \in 0..Len(out) /\ j - 1 \in 0..Len(out)
      BY <1>2
    <2>2. c[j - 1] = cut[cut2[j - 1]] /\ c[j] = cut[cut2[j]]
      BY <2>1
    <2>3. cut2[j - 1] + 1 \in 1..Len(mid) /\ cut2[j] \in (cut2[j - 1] + 1)..Len(mid)
      <3>1. cut2[j - 1] \in Nat /\ cut2[j] \in Nat /\ cut2[j - 1] < cut2[j] /\ cut2[j] <= Len(mid)
        BY <1>2, <2>1
      <3> QED BY <1>3, <3>1
    <2>4. <<cut2[j - 1] + 1, cut2[j], out[j]>> \in parts2
      BY <1>2
    <2>5. cut2[j - 1] + 1 <= cut2[j] /\ cut2[j] \in 1..Len(mid) /\ (cut2[j - 1] + 1) - 1 = cut2[j - 1]
      <3>1. cut2[j - 1] \in Nat /\ cut2[j] \in Nat
        BY <1>2, <2>1
      <3>2. \A x, y \in Nat : x + 1 \in 1..Len(mid) /\ y \in (x + 1)..Len(mid) =>
                x + 1 <= y /\ y \in 1..Len(mid) /\ (x + 1) - 1 = x
        BY <1>3
      <3> QED BY <2>3, <3>1, <3>2
    <2>6. <<cut[(cut2[j - 1] + 1) - 1] + 1, cut[cut2[j]], out[j]>> \in goal
      BY <2>3, <2>4, <2>5 DEF Carries
    <2> QED BY <2>2, <2>5, <2>6
  <1> HIDE DEF c
  <1> QED BY <1>5, <1>6 DEF Origins

Word == Seq(Symbols \ {"n", "#"}) \ {<<>>}

LEMMA WordFacts ==
    ASSUME NEW w \in Word
    PROVE  /\ w \in Seq(Symbols) /\ Len(w) \in Nat /\ Len(w) >= 1
           /\ \A i \in 1..Len(w) : w[i] \in Symbols /\ w[i] # "#" /\ w[i] # "n"
  <1> DEFINE T == Symbols \ {"n", "#"}
  <1>1. w \in Seq(T) /\ w # <<>>
    BY DEF Word
  <1>2. \A x \in T : x \in Symbols /\ x # "#" /\ x # "n"
    OBVIOUS
  <1> HIDE DEF T
  <1>3. Len(w) \in Nat /\ (Len(w) = 0 => w = <<>>) /\ \A i \in 1..Len(w) : w[i] \in T
    BY <1>1, EmptySeq
  <1>4. w \in [1..Len(w) -> Symbols]
    <2>1. w = [i \in 1..Len(w) |-> w[i]]
      BY <1>1
    <2> QED BY <1>2, <1>3, <2>1
  <1> QED BY <1>1, <1>2, <1>3, <1>4, SequenceOf

LEMMA StandsAt ==
    ASSUME NEW line \in Seq(Symbols), NEW w \in Word, NEW i \in Nat, i >= 1
    PROVE  Stands(line, w, i) <=>
              i + Len(w) - 1 <= Len(line) /\ \A j \in 0..(Len(w) - 1) : line[i + j] = w[j + 1]
  <1>1. w \in Seq(Symbols) /\ Len(w) \in Nat /\ Len(w) >= 1
    BY WordFacts
  <1>2. Len(line) \in Nat
    OBVIOUS
  <1> SUFFICES ASSUME i + Len(w) - 1 <= Len(line)
               PROVE  SubSeq(line, i, i + Len(w) - 1) = w <=>
                         \A j \in 0..(Len(w) - 1) : line[i + j] = w[j + 1]
    BY DEF Stands
  <1> DEFINE m == i + Len(w) - 1
             part == SubSeq(line, i, m)
  <1>3. i \in 1..Len(line) + 1 /\ m \in (i - 1)..Len(line) /\ m - i + 1 = Len(w)
    BY <1>1, <1>2
  <1>4. /\ part \in Seq(Symbols) /\ Len(part) = Len(w)
        /\ \A j \in 1..Len(w) : part[j] = line[i + j - 1]
    <2> HIDE DEF m
    <2> QED BY <1>3, PartOfSeq
  <1> HIDE DEF part
  <1>5. ASSUME part = w, NEW j \in 0..(Len(w) - 1) PROVE line[i + j] = w[j + 1]
    <2>1. j + 1 \in 1..Len(w) /\ i + (j + 1) - 1 = i + j
      BY <1>1
    <2> QED BY <1>4, <1>5, <2>1
  <1>6. ASSUME \A j \in 0..(Len(w) - 1) : line[i + j] = w[j + 1] PROVE part = w
    <2>1. ASSUME NEW j \in 1..Len(part) PROVE part[j] = w[j]
      <3>1. j \in 1..Len(w) /\ j - 1 \in 0..(Len(w) - 1) /\ (j - 1) + 1 = j /\ i + (j - 1) = i + j - 1
        BY <1>1, <1>4
      <3>2. line[i + (j - 1)] = w[(j - 1) + 1]
        BY <1>6, <3>1
      <3> QED BY <1>4, <3>1, <3>2
    <2> QED BY <1>1, <1>4, <2>1, SeqEqual
  <1> QED BY <1>5, <1>6 DEF part

LEMMA OccursStands ==
    ASSUME NEW line \in Seq(Symbols), NEW w \in Word
    PROVE  Occurs(w, line) <=> \E i \in 1..Len(line) : Stands(line, w, i)
  <1>1. w \in Seq(Symbols) /\ Len(w) \in Nat /\ Len(w) >= 1 /\ Len(line) \in Nat
    BY WordFacts
  <1>2. ASSUME NEW i \in 1..Len(line), Stands(line, w, i) PROVE Occurs(w, line)
    <2>1. i + Len(w) - 1 <= Len(line) /\ SubSeq(line, i, i + Len(w) - 1) = w
      BY <1>2 DEF Stands
    <2>2. i - 1 \in 0..Len(line) /\ i + Len(w) - 1 \in 0..Len(line) /\ (i - 1) + 1 = i
      BY <1>1, <2>1
    <2>3. w = SubSeq(line, (i - 1) + 1, i + Len(w) - 1)
      BY <2>1, <2>2
    <2>4. \E a, b \in 0..Len(line) : w = SubSeq(line, a + 1, b)
      BY <2>2, <2>3
    <2> QED BY <2>4 DEF Occurs, SubSeqs
  <1>3. ASSUME Occurs(w, line) PROVE \E i \in 1..Len(line) : Stands(line, w, i)
    <2>1. PICK i \in 0..Len(line), j \in 0..Len(line) : w = SubSeq(line, i + 1, j)
      BY <1>3 DEF Occurs, SubSeqs
    <2>2. ASSUME ~(i < j) PROVE FALSE
      <3>1. i + 1 \in Int /\ j \in Int /\ i + 1 > j
        BY <1>1, <2>2
      <3>2. SubSeq(line, i + 1, j) = <<>>
        BY <3>1, SubSeqEmpty
      <3>3. Len(<<>>) = 0
        OBVIOUS
      <3> QED BY <1>1, <2>1, <3>2, <3>3
    <2>3. i + 1 \in 1..Len(line) + 1 /\ j \in ((i + 1) - 1)..Len(line) /\ i + 1 \in 1..Len(line)
      BY <1>1, <2>2
    <2>4. Len(w) = j - (i + 1) + 1
      BY <2>1, <2>3, PartOfSeq
    <2>5. (i + 1) + Len(w) - 1 = j /\ j <= Len(line)
      BY <1>1, <2>3, <2>4
    <2>6. Stands(line, w, i + 1)
      BY <2>1, <2>5 DEF Stands
    <2> QED BY <2>3, <2>6
  <1> QED BY <1>2, <1>3

(* A secret in the result is one in the line. *)
LEMMA StandsBack ==
    ASSUME NEW line \in Seq(Symbols), NEW out \in Seq(Symbols), NEW upto \in Nat,
           NEW parts \in SUBSET PartsOf(line), NEW cut \in Origins(out, upto, parts),
           NEW w \in Word, NEW p \in 1..Len(out), Stands(out, w, p)
    PROVE  /\ cut[p - 1] \in Nat /\ cut[p - 1] + 1 \in 1..Len(line) /\ Stands(line, w, cut[p - 1] + 1)
           /\ p + Len(w) - 1 \in 0..Len(out) /\ cut[p + Len(w) - 1] = cut[p - 1] + Len(w)
           /\ cut[p] = cut[p - 1] + 1
  <1> DEFINE n == Len(w)
             a == cut[p - 1] + 1
  <1>1. n \in Nat /\ n >= 1 /\ Len(out) \in Nat /\ Len(line) \in Nat /\ p \in Nat /\ p >= 1
        /\ \A i \in 1..n : w[i] # "#"
    BY WordFacts
  <1>2. p + n - 1 <= Len(out) /\ \A j \in 0..(n - 1) : out[p + j] = w[j + 1]
    BY <1>1, StandsAt
  <1>3. \A j \in 0..(n - 1) : out[p + j] # "#"
    <2>1. \A j \in 0..(n - 1) : j + 1 \in 1..n
      BY <1>1
    <2> QED BY <1>1, <1>2, <2>1
  <1> HIDE DEF n
  <1>4. /\ p + n - 1 \in 0..Len(out) /\ cut[p + n - 1] = cut[p - 1] + n
        /\ \A i \in 0..(n - 1) : cut[p + i] = a + i /\ line[a + i] = out[p + i]
    <2>1. Unmarked(out, p, n)
      BY <1>2, <1>3 DEF Unmarked
    <2>2. Copied(line, out, cut, p, n)
      BY <1>1, <2>1, OriginsCopied
    <2> QED BY <2>2 DEF Copied
  <1>5. /\ cut \in [0..Len(out) -> Nat]
        /\ \A j \in 1..Len(out) : cut[j] <= Len(line)
    <2>1. /\ cut \in [0..Len(out) -> Nat]
          /\ \A j \in 1..Len(out) : /\ <<cut[j - 1] + 1, cut[j], out[j]>> \in parts
                                    /\ j \in 0..Len(out) /\ j - 1 \in 0..Len(out)
                                    /\ cut[j - 1] < cut[j] /\ cut[j] <= Len(line)
      BY OriginsGrow
    <2> QED BY <2>1
  <1>6. cut[p - 1] \in Nat /\ p - 1 \in 0..Len(out) /\ p + n - 1 \in 1..Len(out)
    <2>1. p - 1 \in 0..Len(out) /\ p + n - 1 \in 1..Len(out)
      BY <1>1, <1>2
    <2> QED BY <1>5, <2>1
  <1>7. cut[p - 1] + n <= Len(line)
    BY <1>4, <1>5, <1>6
  <1>8. a \in Nat /\ a >= 1 /\ a + n - 1 <= Len(line) /\ a \in 1..Len(line)
    BY <1>1, <1>6, <1>7
  <1>9. Stands(line, w, a)
    <2>1. \A j \in 0..(n - 1) : line[a + j] = w[j + 1]
      BY <1>2, <1>4
    <2> HIDE DEF a
    <2> QED BY <1>8, <2>1, StandsAt DEF n
  <1>10. cut[p] = cut[p - 1] + 1
    <2>1. 0 \in 0..(n - 1) /\ p + 0 = p /\ a + 0 = a
      BY <1>1, <1>8
    <2> QED BY <1>4, <2>1
  <1> QED BY <1>4, <1>6, <1>8, <1>9, <1>10 DEF n

LEMMA OccursBack ==
    ASSUME NEW line \in Seq(Symbols), NEW out \in Seq(Symbols), NEW upto \in Nat,
           NEW parts \in SUBSET PartsOf(line), Origins(out, upto, parts) # {},
           NEW w \in Word, Occurs(w, out)
    PROVE  Occurs(w, line)
  <1>1. PICK cut \in Origins(out, upto, parts) : TRUE
    OBVIOUS
  <1>2. PICK p \in 1..Len(out) : Stands(out, w, p)
    BY OccursStands
  <1>3. cut[p - 1] + 1 \in 1..Len(line) /\ Stands(line, w, cut[p - 1] + 1)
    BY <1>1, <1>2, StandsBack
  <1> QED BY <1>3, OccursStands

(* str::replace. *)
ScanState == [at : Nat \ {0}, out : Seq(Symbols)]
ReplaceRun(line, word) ==
    CHOOSE scan : scan = [k \in 0..Len(line) |->
        IF k = 0 THEN ScanStart
        ELSE LET before == scan[k - 1] IN ReplaceStep(line, word, before)]

LEMMA ReplaceStepType ==
    ASSUME NEW line \in Seq(Symbols), NEW w \in Word, NEW s \in ScanState
    PROVE  ReplaceStep(line, w, s) \in ScanState
  <1>1. Len(w) \in Nat /\ Len(line) \in Nat /\ s.at \in Nat /\ s.at # 0 /\ s.out \in Seq(Symbols)
        /\ s.at + 1 \in Nat \ {0} /\ s.at + Len(w) \in Nat \ {0}
    BY WordFacts DEF ScanState
  <1>2. ASSUME ~(s.at > Len(line)) PROVE line[s.at] \in Symbols
    BY <1>1, <1>2
  <1>3. "#" \in Symbols
    BY DEF Symbols
  <1>4. \A x \in Symbols : Append(s.out, x) \in Seq(Symbols)
    BY <1>1
  <1>5. \A a \in Nat \ {0}, o \in Seq(Symbols) : [at |-> a, out |-> o] \in ScanState
    BY DEF ScanState
  <1>6. CASE s.at > Len(line)
    BY <1>6 DEF ReplaceStep
  <1>7. CASE ~(s.at > Len(line)) /\ Stands(line, w, s.at)
    BY <1>1, <1>3, <1>4, <1>5, <1>7 DEF ReplaceStep
  <1>8. CASE ~(s.at > Len(line)) /\ ~Stands(line, w, s.at)
    BY <1>1, <1>2, <1>4, <1>5, <1>8 DEF ReplaceStep
  <1> QED BY <1>6, <1>7, <1>8

LEMMA ReplaceSteps ==
    ASSUME NEW line \in Seq(Symbols), NEW w \in Word
    PROVE  /\ ReplaceRun(line, w)[0] = ScanStart
           /\ Replace(line, w) = ReplaceRun(line, w)[Len(line)].out
           /\ \A k \in 1..Len(line) :
                 ReplaceRun(line, w)[k] = ReplaceStep(line, w, ReplaceRun(line, w)[k - 1])
  <1> DEFINE n == Len(line)
             A == ScanState
             start == ScanStart
             next(s) == ReplaceStep(line, w, s)
             pass == [x \in (1..n) \X A |-> next(x[2])]
  <1>1. n \in Nat /\ start \in A /\ \A s \in A : next(s) \in A
    <2>1. start \in A
      BY DEF ScanStart, ScanState
    <2> QED BY <2>1, ReplaceStepType
  <1> HIDE DEF next, A, start
  <1>2. \A i \in 1..n, s \in A : pass[<<i, s>>] = next(s)
    <2>1. \A i \in 1..n, s \in A : <<i, s>> \in (1..n) \X A
      OBVIOUS
    <2> QED BY <2>1
  <1>3. pass \in StepsOf(n, A)
    <2>1. \A x \in (1..n) \X A : x[2] \in A
      OBVIOUS
    <2> QED BY <1>1, <2>1 DEF StepsOf
  <1> HIDE DEF pass, n
  <1>4. SolutionsOf(n, A, start, pass) # {}
    BY <1>1, <1>3, Solvable
  <1>5. PICK f \in SolutionsOf(n, A, start, pass) : TRUE
    BY <1>4
  <1>6. f \in [0..n -> A] /\ f[0] = start /\ \A i \in 1..n : f[i] = pass[<<i, f[i - 1]>>]
    BY <1>5 DEF SolutionsOf
  <1>7. \A i \in 1..n : i - 1 \in 0..n
    BY <1>1
  <1>8. \A i \in 1..n : f[i] = next(f[i - 1])
    BY <1>2, <1>6, <1>7
  <1>9. f = [k \in 0..n |-> IF k = 0 THEN start ELSE next(f[k - 1])]
    <2>1. \A i \in 0..n : i # 0 => i \in 1..n
      BY <1>1
    <2> QED BY <1>6, <1>8, <2>1
  <1> DEFINE g == ReplaceRun(line, w)
  <1>10. g = [k \in 0..n |-> IF k = 0 THEN start ELSE next(g[k - 1])]
    BY <1>9 DEF ReplaceRun, n, start, next
  <1>11. Replace(line, w) = g[n].out
    BY DEF Replace, ReplaceRun, n
  <1> HIDE DEF g
  <1>12. g[0] = start
    BY <1>1, <1>10
  <1>13. ASSUME NEW k \in 1..n PROVE g[k] = next(g[k - 1])
    <2>1. k \in 0..n /\ k # 0
      BY <1>1
    <2> QED BY <1>10, <2>1
  <1> QED BY <1>11, <1>12, <1>13 DEF n, g, start, next

ReplaceParts(line, w) ==
    {t \in PartsOf(line) : IF Stands(line, w, t[1]) THEN t[3] = "#" /\ t[2] = t[1] + Len(w) - 1
                           ELSE t[1] = t[2] /\ t[3] = line[t[2]]}

(* How far a scan has come after some steps. *)
Advanced(line, s, k, parts) ==
    /\ s \in ScanState /\ s.at \in 1..Len(line) + 1 /\ (s.at > k \/ s.at = Len(line) + 1)
    /\ Origins(s.out, s.at - 1, parts) # {}

LEMMA AdvancedStart ==
    ASSUME NEW line \in Seq(Symbols), NEW parts
    PROVE  Advanced(line, ScanStart, 0, parts)
  <1>1. Len(line) \in Nat
    OBVIOUS
  <1>2. ScanStart.at = 1 /\ ScanStart.out = <<>> /\ ScanStart \in ScanState
    BY DEF ScanStart, ScanState
  <1>3. Origins(ScanStart.out, 0, parts) # {}
    <2>1. Len(ScanStart.out) = 0
      BY <1>2
    <2> QED BY <2>1, OriginsStart
  <1> QED BY <1>1, <1>2, <1>3 DEF Advanced

LEMMA ReplaceAdvances ==
    ASSUME NEW line \in Seq(Symbols), NEW w \in Word, NEW s, NEW k \in Nat,
           Advanced(line, s, k, ReplaceParts(line, w))
    PROVE  Advanced(line, ReplaceStep(line, w, s), k + 1, ReplaceParts(line, w))
  <1> DEFINE T == ReplaceParts(line, w)
             i == s.at
             r == ReplaceStep(line, w, s)
  <1> SUFFICES Advanced(line, r, k + 1, T)
    OBVIOUS
  <1>1. /\ s \in ScanState /\ i \in 1..Len(line) + 1 /\ (i > k \/ i = Len(line) + 1)
        /\ Origins(s.out, i - 1, T) # {}
    BY DEF Advanced
  <1>2. /\ Len(line) \in Nat /\ Len(w) \in Nat /\ Len(w) >= 1 /\ i \in Nat /\ i >= 1 /\ i - 1 \in Nat
        /\ s.out \in Seq(Symbols) /\ (i - 1) + 1 = i
    BY <1>1, WordFacts DEF ScanState
  <1>3. r \in ScanState
    BY <1>1, ReplaceStepType
  <1>4. CASE i > Len(line)
    <2>1. r = s
      BY <1>4 DEF ReplaceStep
    <2> HIDE DEF r, T
    <2> QED BY <1>1, <1>2, <1>4, <2>1 DEF Advanced
  <1>5. CASE ~(i > Len(line)) /\ Stands(line, w, i)
    <2> DEFINE e == i + Len(w) - 1
    <2>1. e <= Len(line) /\ e \in Nat /\ e >= i /\ "#" \in Symbols
      <3>1. i + Len(w) - 1 <= Len(line)
        BY <1>5 DEF Stands
      <3>2. "#" \in Symbols
        BY DEF Symbols
      <3> QED BY ONLY <1>2, <3>1, <3>2
    <2>2. <<i, e, "#">> \in T
      BY <1>2, <1>5, <2>1 DEF ReplaceParts, PartsOf, Part3
    <2>3. r.at = e + 1 /\ r.out = Append(s.out, "#")
      BY <1>2, <1>5 DEF ReplaceStep
    <2> HIDE DEF e, r, T
    <2>4. Origins(Append(s.out, "#"), e, T) # {}
      BY <1>1, <1>2, <2>1, <2>2, OriginsStep
    <2>5. r.at - 1 = e /\ r.at \in 1..Len(line) + 1 /\ (r.at > k + 1 \/ r.at = Len(line) + 1)
      BY <1>1, <1>2, <1>5, <2>1, <2>3
    <2>6. Origins(r.out, r.at - 1, T) # {}
      BY ONLY <2>3, <2>4, <2>5
    <2> QED BY ONLY <1>3, <2>5, <2>6 DEF Advanced
  <1>6. CASE ~(i > Len(line)) /\ ~Stands(line, w, i)
    <2>1. i \in 1..Len(line) /\ line[i] \in Symbols
      BY <1>2, <1>6
    <2>2. <<i, i, line[i]>> \in T
      BY <1>2, <1>6, <2>1 DEF ReplaceParts, PartsOf, Part3
    <2>3. r.at = i + 1 /\ r.out = Append(s.out, line[i])
      BY <1>2, <1>6 DEF ReplaceStep
    <2> DEFINE x == line[i]
    <2> HIDE DEF x, r, T
    <2>4. Origins(Append(s.out, x), i, T) # {}
      <3>1. s.out \in Seq(Symbols) /\ i - 1 \in Nat /\ i \in Nat /\ Origins(s.out, i - 1, T) # {}
        BY <1>1, <1>2
      <3>2. x \in Symbols /\ <<(i - 1) + 1, i, x>> \in T
        BY <1>2, <2>1, <2>2 DEF x
      <3> QED BY ONLY <3>1, <3>2, OriginsStep
    <2>5. r.at - 1 = i /\ r.at \in 1..Len(line) + 1 /\ (r.at > k + 1 \/ r.at = Len(line) + 1)
      <3>1. k \in Nat /\ i \in Nat /\ Len(line) \in Nat /\ i <= Len(line) /\ i >= 1
        BY <1>2, <2>1
      <3>2. i > k
        BY <1>1, <3>1
      <3> QED BY ONLY <2>3, <3>1, <3>2
    <2>6. Origins(r.out, r.at - 1, T) # {}
      BY ONLY <2>3, <2>4, <2>5 DEF x
    <2> QED BY ONLY <1>3, <2>5, <2>6 DEF Advanced
  <1> QED BY <1>4, <1>5, <1>6

LEMMA Replaced ==
    ASSUME NEW line \in Seq(Symbols), NEW w \in Word
    PROVE  /\ Replace(line, w) \in Seq(Symbols)
           /\ Origins(Replace(line, w), Len(line), ReplaceParts(line, w)) # {}
  <1> DEFINE g == ReplaceRun(line, w)
             T == ReplaceParts(line, w)
             n == Len(line)
             H == {k \in Nat : k <= n => Advanced(line, g[k], k, T)}
  <1>1. /\ g[0] = ScanStart /\ Replace(line, w) = g[n].out
        /\ \A k \in 1..n : g[k] = ReplaceStep(line, w, g[k - 1])
    BY ReplaceSteps
  <1>2. n \in Nat
    OBVIOUS
  <1>3. ASSUME NEW s, NEW k \in Nat, Advanced(line, s, k, T)
        PROVE  Advanced(line, ReplaceStep(line, w, s), k + 1, T)
    BY <1>3, ReplaceAdvances
  <1>4. Advanced(line, ScanStart, 0, T)
    BY AdvancedStart
  <1> HIDE DEF g, T, n
  <1>5. 0 \in H
    BY <1>1, <1>4
  <1>6. ASSUME NEW k \in Nat, k \in H PROVE k + 1 \in H
    <2> SUFFICES ASSUME k + 1 <= n PROVE Advanced(line, g[k + 1], k + 1, T)
      OBVIOUS
    <2>1. k + 1 \in 1..n /\ (k + 1) - 1 = k /\ k <= n
      BY <1>2
    <2> QED BY <1>1, <1>3, <1>6, <2>1
  <1> HIDE DEF H
  <1>7. n \in H
    BY <1>2, <1>5, <1>6, Induction
  <1>8. Advanced(line, g[n], n, T)
    BY <1>2, <1>7 DEF H
  <1>9. /\ g[n] \in ScanState /\ g[n].at \in 1..n + 1 /\ (g[n].at > n \/ g[n].at = n + 1)
        /\ Origins(g[n].out, g[n].at - 1, T) # {}
    BY <1>8 DEF Advanced, n
  <1>10. g[n].at - 1 = n /\ g[n].out \in Seq(Symbols)
    BY <1>2, <1>9 DEF ScanState
  <1> QED BY <1>1, <1>9, <1>10 DEF T, n

(* ... leaves none of the word. *)
LEMMA ReplacedAll ==
    ASSUME NEW line \in Seq(Symbols), NEW w \in Word
    PROVE  ~Occurs(w, Replace(line, w))
  <1> DEFINE out == Replace(line, w)
             T == ReplaceParts(line, w)
  <1> SUFFICES ASSUME Occurs(w, out) PROVE FALSE
    OBVIOUS
  <1>1. out \in Seq(Symbols) /\ Origins(out, Len(line), T) # {} /\ Len(line) \in Nat
    BY Replaced
  <1>2. T \in SUBSET PartsOf(line)
    BY DEF ReplaceParts
  <1>3. \A t \in T : Stands(line, w, t[1]) => t[3] = "#"
    BY DEF ReplaceParts
  <1> HIDE DEF out, T
  <1>4. PICK cut \in Origins(out, Len(line), T) : TRUE
    BY <1>1
  <1>5. PICK p \in 1..Len(out) : Stands(out, w, p)
    BY <1>1, OccursStands
  <1>6. Stands(line, w, cut[p - 1] + 1)
    BY <1>1, <1>2, <1>4, <1>5, StandsBack
  <1>7. <<cut[p - 1] + 1, cut[p], out[p]>> \in T
    BY <1>4 DEF Origins
  <1>8. out[p] = "#"
    BY <1>3, <1>6, <1>7
  <1>9. out[p] # "#"
    <2>1. Len(w) \in Nat /\ Len(w) >= 1 /\ \A i \in 1..Len(w) : w[i] # "#"
      BY WordFacts
    <2>2. \A j \in 0..(Len(w) - 1) : out[p + j] = w[j + 1]
      BY <1>1, <1>5, StandsAt
    <2>3. 0 \in 0..(Len(w) - 1) /\ p + 0 = p /\ 0 + 1 \in 1..Len(w)
      BY <1>1, <2>1
    <2> QED BY <2>1, <2>2, <2>3
  <1> QED BY <1>8, <1>9

(* All secrets, one after the other. *)
SecretParts(line) ==
    {t \in PartsOf(line) : \/ t[1] = t[2] /\ t[3] = line[t[2]]
                           \/ t[3] = "#" /\ Contains(Secrets, SubSeq(line, t[1], t[2]))}

(* Every symbol is replaced or stands for itself. *)
LEMMA PartialReplaced ==
    ASSUME NEW line \in Seq(Symbols), NEW mid \in Seq(Symbols),
           Origins(mid, Len(line), SecretParts(line)) # {},
           NEW w \in Word, Contains(Secrets, w)
    PROVE  Origins(Replace(mid, w), Len(line), SecretParts(line)) # {}
  <1> DEFINE T == SecretParts(line)
             U == ReplaceParts(mid, w)
             out == Replace(mid, w)
  <1>1. PICK cut \in Origins(mid, Len(line), T) : TRUE
    OBVIOUS
  <1>2. out \in Seq(Symbols) /\ Origins(out, Len(mid), U) # {} /\ Len(line) \in Nat /\ Len(mid) \in Nat
    BY Replaced
  <1>3. T \in SUBSET PartsOf(line) /\ U \in SUBSET PartsOf(mid)
    BY DEF SecretParts, ReplaceParts
  <1> HIDE DEF T, U, out
  <1>4. PICK cut2 \in Origins(out, Len(mid), U) : TRUE
    BY <1>2
  <1>5. /\ cut \in [0..Len(mid) -> Nat]
        /\ \A j \in 1..Len(mid) : <<cut[j - 1] + 1, cut[j], mid[j]>> \in T /\ cut[j] <= Len(line)
    <2>1. /\ cut \in [0..Len(mid) -> Nat]
          /\ \A j \in 1..Len(mid) : /\ <<cut[j - 1] + 1, cut[j], mid[j]>> \in T
                                    /\ j \in 0..Len(mid) /\ j - 1 \in 0..Len(mid)
                                    /\ cut[j - 1] < cut[j] /\ cut[j] <= Len(line)
      BY <1>1, <1>2, <1>3, OriginsGrow
    <2> QED BY <2>1
  <1>6. ASSUME NEW j \in 1..Len(out), NEW p \in 1..Len(mid), NEW q \in p..Len(mid), <<p, q, out[j]>> \in U
        PROVE  <<cut[p - 1] + 1, cut[q], out[j]>> \in T
    <2>1. IF Stands(mid, w, p) THEN out[j] = "#" /\ q = p + Len(w) - 1 ELSE p = q /\ out[j] = mid[q]
      BY <1>6 DEF U, ReplaceParts
    <2>2. CASE ~Stands(mid, w, p)
      BY <1>5, <2>1, <2>2
    <2>3. CASE Stands(mid, w, p)
      <3> DEFINE a == cut[p - 1]
      <3>0. /\ a \in Nat /\ a + 1 \in 1..Len(line) /\ Stands(line, w, a + 1)
            /\ cut[p + Len(w) - 1] = a + Len(w)
        BY <1>1, <1>2, <1>3, <2>3, StandsBack
      <3>1. /\ a \in Nat /\ a + 1 \in 1..Len(line) /\ Stands(line, w, a + 1)
            /\ cut[q] = a + Len(w)
        BY <2>1, <2>3, <3>0
      <3>2. Len(w) \in Nat /\ Len(w) >= 1 /\ "#" \in Symbols
        BY WordFacts DEF Symbols
      <3> HIDE DEF a
      <3>3. a + Len(w) = (a + 1) + Len(w) - 1
        BY <3>1, <3>2
      <3>4. (a + 1) + Len(w) - 1 <= Len(line) /\ SubSeq(line, a + 1, a + Len(w)) = w
        BY <3>1, <3>3 DEF Stands
      <3>5. <<a + 1, a + Len(w), "#">> \in PartsOf(line)
        BY <1>2, <3>1, <3>2, <3>3, <3>4 DEF PartsOf, Part3
      <3>6. <<a + 1, a + Len(w), "#">> \in T
        BY <3>4, <3>5 DEF T, SecretParts
      <3> QED BY <2>1, <2>3, <3>1, <3>6 DEF a
    <2> QED BY <2>2, <2>3
  <1>7. Carries(mid, out, cut, U, T)
    <2>1. \A p, q \in 1..Len(mid) : p <= q => q \in p..Len(mid)
      BY <1>2
    <2> QED BY <1>6, <2>1 DEF Carries
  <1>8. Origins(out, Len(line), T) # {}
    BY <1>1, <1>2, <1>3, <1>4, <1>7, OriginsCompose
  <1> QED BY <1>8 DEF T, out

LEMMA SecretWords ==
    /\ Len(Secrets) \in Nat
    /\ \A k \in 1..Len(Secrets) : Secrets[k] \in Word /\ Contains(Secrets, Secrets[k])
    /\ \A w : Contains(Secrets, w) => w \in Word
    /\ \A w : w \in ToSet(Secrets) <=> Contains(Secrets, w)
  <1>1. Secrets \in Seq(Word)
    BY SecretsAssumption DEF Word
  <1>2. /\ Len(Secrets) \in Nat /\ DOMAIN Secrets = 1..Len(Secrets)
        /\ \A k \in 1..Len(Secrets) : Secrets[k] \in Word
    BY <1>1
  <1> QED BY <1>2 DEF Contains, ToSet

RedactRun(line) ==
    CHOOSE replaced : replaced = [k \in 0..Len(Secrets) |->
        IF k = 0 THEN line
        ELSE LET before == replaced[k - 1] IN Replace(before, Secrets[k])]

LEMMA RedactSteps ==
    ASSUME NEW line \in Seq(Symbols)
    PROVE  /\ RedactRun(line)[0] = line
           /\ Redact(line) = Scrub(RedactRun(line)[Len(Secrets)])
           /\ \A k \in 1..Len(Secrets) :
                 RedactRun(line)[k] = Replace(RedactRun(line)[k - 1], Secrets[k])
  <1> DEFINE n == Len(Secrets)
             A == Seq(Symbols)
             next(k, s) == Replace(s, Secrets[k])
             pass == [x \in (1..n) \X A |-> next(x[1], x[2])]
  <1>1. n \in Nat /\ line \in A /\ \A k \in 1..n, s \in A : next(k, s) \in A
    BY SecretWords, Replaced
  <1> HIDE DEF next, A
  <1>2. \A i \in 1..n, s \in A : pass[<<i, s>>] = next(i, s)
    <2>1. \A i \in 1..n, s \in A : <<i, s>> \in (1..n) \X A
      OBVIOUS
    <2> QED BY <2>1
  <1>3. pass \in StepsOf(n, A)
    <2>1. \A x \in (1..n) \X A : x[1] \in 1..n /\ x[2] \in A
      OBVIOUS
    <2> QED BY <1>1, <2>1 DEF StepsOf
  <1> HIDE DEF pass, n
  <1>4. SolutionsOf(n, A, line, pass) # {}
    BY <1>1, <1>3, Solvable
  <1>5. PICK f \in SolutionsOf(n, A, line, pass) : TRUE
    BY <1>4
  <1>6. f \in [0..n -> A] /\ f[0] = line /\ \A i \in 1..n : f[i] = pass[<<i, f[i - 1]>>]
    BY <1>5 DEF SolutionsOf
  <1>7. \A i \in 1..n : i - 1 \in 0..n
    BY <1>1
  <1>8. \A i \in 1..n : f[i] = next(i, f[i - 1])
    BY <1>2, <1>6, <1>7
  <1>9. f = [k \in 0..n |-> IF k = 0 THEN line ELSE next(k, f[k - 1])]
    <2>1. \A i \in 0..n : i # 0 => i \in 1..n
      BY <1>1
    <2> QED BY <1>6, <1>8, <2>1
  <1> DEFINE g == RedactRun(line)
  <1>10. g = [k \in 0..n |-> IF k = 0 THEN line ELSE next(k, g[k - 1])]
    BY <1>9 DEF RedactRun, n, next
  <1>11. Redact(line) = Scrub(g[n])
    BY DEF Redact, RedactRun, n
  <1> HIDE DEF g
  <1>12. g[0] = line
    BY <1>1, <1>10
  <1>13. ASSUME NEW k \in 1..n PROVE g[k] = next(k, g[k - 1])
    <2>1. k \in 0..n /\ k # 0
      BY <1>1
    <2> QED BY <1>10, <2>1
  <1> QED BY <1>11, <1>12, <1>13 DEF n, g, next

(* A line stands for itself. *)
LEMMA SecretPartsCopy ==
    ASSUME NEW line \in Seq(Symbols)
    PROVE  Origins(line, Len(line), SecretParts(line)) # {}
  <1> DEFINE T == SecretParts(line)
             c == [j \in 0..Len(line) |-> j]
  <1>1. Len(line) \in Nat
    OBVIOUS
  <1>2. c \in [0..Len(line) -> Nat] /\ c[0] = 0 /\ c[Len(line)] = Len(line)
    BY <1>1
  <1>3. ASSUME NEW j \in 1..Len(line) PROVE <<c[j - 1] + 1, c[j], line[j]>> \in T
    <2>1. j - 1 \in 0..Len(line) /\ j \in 0..Len(line) /\ (j - 1) + 1 = j /\ line[j] \in Symbols
      BY <1>1
    <2>2. <<j, j, line[j]>> \in T
      BY <1>1, <2>1 DEF SecretParts, PartsOf, Part3
    <2> QED BY <2>1, <2>2
  <1> HIDE DEF c, T
  <1>4. c \in Origins(line, Len(line), T)
    BY <1>2, <1>3 DEF Origins
  <1> QED BY <1>4 DEF T

LEMMA SecretsReplaced ==
    ASSUME NEW line \in Seq(Symbols)
    PROVE  \E mid \in Seq(Symbols) :
              /\ Redact(line) = Scrub(mid)
              /\ Origins(mid, Len(line), SecretParts(line)) # {}
              /\ \A w \in ToSet(Secrets) : ~Occurs(w, mid)
  <1> DEFINE g == RedactRun(line)
             n == Len(Secrets)
             Good(k) == /\ g[k] \in Seq(Symbols)
                        /\ Origins(g[k], Len(line), SecretParts(line)) # {}
                        /\ \A m \in 1..k : ~Occurs(Secrets[m], g[k])
             H == {k \in Nat : k <= n => Good(k)}
  <1>1. /\ g[0] = line /\ Redact(line) = Scrub(g[n])
        /\ \A k \in 1..n : g[k] = Replace(g[k - 1], Secrets[k])
    BY RedactSteps
  <1>2. n \in Nat /\ \A k \in 1..n : Secrets[k] \in Word /\ Contains(Secrets, Secrets[k])
    BY SecretWords
  <1>3. 0 \in H
    <2>1. Origins(line, Len(line), SecretParts(line)) # {}
      BY SecretPartsCopy
    <2> HIDE DEF g
    <2> QED BY <1>1, <2>1
  <1> HIDE DEF g, n
  <1>4. ASSUME NEW k \in Nat, k \in H PROVE k + 1 \in H
    <2> SUFFICES ASSUME k + 1 <= n PROVE Good(k + 1)
      OBVIOUS
    <2> DEFINE w == Secrets[k + 1]
               mid == g[k]
    <2>1. k + 1 \in 1..n /\ (k + 1) - 1 = k /\ k <= n
      BY <1>2
    <2>2. w \in Word /\ Contains(Secrets, w) /\ g[k + 1] = Replace(mid, w)
      BY <1>1, <1>2, <2>1
    <2>3. Good(k)
      BY <1>4, <2>1
    <2> DEFINE out == g[k + 1]
    <2> HIDE DEF w, mid, out
    <2>4. mid \in Seq(Symbols) /\ Origins(mid, Len(line), SecretParts(line)) # {}
      BY <2>3 DEF mid
    <2>5. /\ out \in Seq(Symbols) /\ Origins(out, Len(mid), ReplaceParts(mid, w)) # {}
          /\ ~Occurs(w, out) /\ Origins(out, Len(line), SecretParts(line)) # {}
      BY <2>2, <2>4, Replaced, ReplacedAll, PartialReplaced DEF out
    <2>6. ReplaceParts(mid, w) \in SUBSET PartsOf(mid)
      BY DEF ReplaceParts
    <2>7. ASSUME NEW m \in 1..(k + 1) PROVE ~Occurs(Secrets[m], out)
      <3>1. CASE m = k + 1
        BY <2>5, <3>1 DEF w
      <3>2. CASE m # k + 1
        <4>1. m \in 1..k /\ m \in 1..n
          <5>1. \A x \in 1..(k + 1) : x # k + 1 => x \in 1..k
            OBVIOUS
          <5>2. \A x \in 1..k : x \in 1..n
            BY <1>2, <2>1
          <5> QED BY <3>2, <5>1, <5>2
        <4>2. ~Occurs(Secrets[m], mid) /\ Secrets[m] \in Word
          BY <1>2, <2>3, <4>1 DEF mid
        <4>3. Len(mid) \in Nat
          BY <2>4
        <4>4. Occurs(Secrets[m], out) => Occurs(Secrets[m], mid)
          BY <2>4, <2>5, <2>6, <4>2, <4>3, OccursBack
        <4> QED BY <4>2, <4>4
      <3> QED BY <3>1, <3>2
    <2> QED BY <2>5, <2>7 DEF out
  <1> HIDE DEF H, Good
  <1>5. n \in H
    BY <1>2, <1>3, <1>4, Induction
  <1>6. Good(n)
    BY <1>2, <1>5 DEF H
  <1>7. \A w \in ToSet(Secrets) : ~Occurs(w, g[n])
    <2>1. \A w \in ToSet(Secrets) : \E m \in 1..n : w = Secrets[m]
      BY SecretWords DEF Contains, n
    <2> QED BY <1>6, <2>1 DEF Good
  <1> QED BY <1>1, <1>6, <1>7 DEF Good

------------------------------------------------------------------------------
(* scrub_sensitive_pairs. *)
ValueStops(sep) == IF sep = 2 THEN {"n"} ELSE Delimiter

LEMMA SeparatorFacts ==
    ASSUME NEW line \in Seq(Symbols), NEW i \in 1..Len(line)
    PROVE  /\ Separator(line, i) \in {0, 1, 2} /\ i + Separator(line, i) \in i..Len(line) + 1
           /\ (Separator(line, i) = 1 <=> line[i] = "=")
           /\ (Separator(line, i) = 2 <=> i < Len(line) /\ line[i] = ":" /\ line[i + 1] = " ")
           /\ Separator(line, i) # 0 => line[i] \notin Delimiter
  <1>1. Len(line) \in Nat /\ i \in Nat
    OBVIOUS
  <1>2. /\ Separator(line, i) \in {0, 1, 2}
        /\ (Separator(line, i) = 1 <=> line[i] = "=")
        /\ (Separator(line, i) = 2 <=> i < Len(line) /\ line[i] = ":" /\ line[i + 1] = " ")
    <2> DEFINE equals == line[i] = "="
               header == i < Len(line) /\ line[i] = ":" /\ line[i + 1] = " "
               sep == Separator(line, i)
    <2>1. equals => ~header
      OBVIOUS
    <2>2. sep = IF equals THEN 1 ELSE IF header THEN 2 ELSE 0
      BY DEF Separator
    <2> HIDE DEF equals, header, sep
    <2>3. sep \in {0, 1, 2} /\ (sep = 1 <=> equals) /\ (sep = 2 <=> header)
      BY <2>1, <2>2
    <2> QED BY <2>3 DEF equals, header, sep
  <1>3. i + Separator(line, i) \in i..Len(line) + 1
    <2> DEFINE sep == Separator(line, i)
    <2>1. sep \in {0, 1, 2} /\ (sep = 2 => i < Len(line))
      BY <1>2
    <2> HIDE DEF sep
    <2>2. i + sep \in i..Len(line) + 1
      BY <1>1, <2>1
    <2> QED BY <2>2 DEF sep
  <1>4. Separator(line, i) # 0 => line[i] \notin Delimiter
    BY <1>2 DEF Delimiter
  <1> QED BY <1>2, <1>3, <1>4

LEMMA KeyStartFacts ==
    ASSUME NEW line \in Seq(Symbols), NEW i \in 1..Len(line)
    PROVE  /\ KeyStart(line, i) \in 1..i
           /\ \A j \in KeyStart(line, i)..(i - 1) : line[j] \in Identifier
           /\ i > 1 /\ line[i - 1] = "P" => KeyStart(line, i) < i
  <1> DEFINE T == {b \in 1..i : \A j \in b..(i - 1) : line[j] \in Identifier}
             start(b) == /\ \A j \in b..(i - 1) : line[j] \in Identifier
                         /\ b = 1 \/ line[b - 1] \notin Identifier
  <1>1. Len(line) \in Nat /\ i \in Nat /\ i >= 1
    OBVIOUS
  <1>2. T \in SUBSET Nat /\ i \in T
    BY <1>1
  <1>3. PICK b \in T : \A m \in T : b <= m
    <2> HIDE DEF T
    <2>1. T # {}
      BY <1>2
    <2> QED BY <1>2, <2>1, LeastNumber
  <1>4. b \in 1..i /\ \A j \in b..(i - 1) : line[j] \in Identifier
    BY <1>3
  <1>5. b = 1 \/ line[b - 1] \notin Identifier
    <2> SUFFICES ASSUME b # 1, line[b - 1] \in Identifier PROVE FALSE
      OBVIOUS
    <2>1. b - 1 \in 1..i /\ ~(b <= b - 1)
      BY <1>1, <1>4
    <2>2. \A j \in (b - 1)..(i - 1) : j = b - 1 \/ j \in b..(i - 1)
      BY <1>1, <1>4
    <2>3. b - 1 \in T
      BY <1>4, <2>1, <2>2
    <2> HIDE DEF T
    <2> QED BY <1>3, <2>1, <2>3
  <1>6. \E x \in 1..i : start(x)
    BY <1>4, <1>5
  <1>7. KeyStart(line, i) = CHOOSE x \in 1..i : start(x)
    BY DEF KeyStart
  <1>8. KeyStart(line, i) \in 1..i /\ start(KeyStart(line, i))
    <2> HIDE DEF start
    <2> QED BY <1>6, <1>7
  <1>9. ASSUME i > 1, line[i - 1] = "P" PROVE KeyStart(line, i) < i
    <2> SUFFICES ASSUME KeyStart(line, i) = i PROVE FALSE
      BY <1>1, <1>8
    <2>1. "P" \in Identifier
      BY DEF Identifier
    <2> QED BY <1>1, <1>8, <1>9, <2>1
  <1> QED BY <1>8, <1>9

LEMMA ValueEndFacts ==
    ASSUME NEW line \in Seq(Symbols), NEW i \in 1..Len(line) + 1, NEW sep
    PROVE  /\ ValueEnd(line, i, sep = 2) \in i..Len(line) + 1
           /\ \A j \in i..(ValueEnd(line, i, sep = 2) - 1) : line[j] \notin ValueStops(sep)
           /\ ValueEnd(line, i, sep = 2) > Len(line) \/ line[ValueEnd(line, i, sep = 2)] \in ValueStops(sep)
  <1> DEFINE S == ValueStops(sep)
             T == {e \in i..(Len(line) + 1) : e > Len(line) \/ line[e] \in S}
             endsAt(e) == /\ \A j \in i..(e - 1) : line[j] \notin S
                          /\ e > Len(line) \/ line[e] \in S
  <1>1. Len(line) \in Nat /\ i \in Nat
    OBVIOUS
  <1>2. ValueEnd(line, i, sep = 2) = CHOOSE e \in i..(Len(line) + 1) : endsAt(e)
    BY DEF ValueEnd, ValueStops
  <1> HIDE DEF S
  <1>3. T \in SUBSET Nat /\ Len(line) + 1 \in T
    BY <1>1
  <1>4. PICK e \in T : \A m \in T : e <= m
    <2> HIDE DEF T
    <2>1. T # {}
      BY <1>3
    <2> QED BY <1>3, <2>1, LeastNumber
  <1>5. e \in i..(Len(line) + 1) /\ (e > Len(line) \/ line[e] \in S)
    BY <1>4
  <1>6. ASSUME NEW j \in i..(e - 1), line[j] \in S PROVE FALSE
    <2>1. j \in i..(Len(line) + 1) /\ ~(e <= j)
      BY <1>1, <1>5
    <2>2. j \in T
      BY <1>6, <2>1
    <2> HIDE DEF T
    <2> QED BY <1>4, <2>1, <2>2
  <1>7. \E x \in i..(Len(line) + 1) : endsAt(x)
    BY <1>5, <1>6
  <1>8. ValueEnd(line, i, sep = 2) \in i..(Len(line) + 1) /\ endsAt(ValueEnd(line, i, sep = 2))
    <2> HIDE DEF endsAt
    <2> QED BY <1>2, <1>7
  <1> QED BY <1>8 DEF S

(* The key that the scan has copied is taken back and copied again. *)
KeyCopied(line, out, b, i) ==
    i - b <= Len(out) /\ \A j \in b..(i - 1) : out[Len(out) + j - i + 1] = line[j]
LEMMA KeyCopiedAgain ==
    ASSUME NEW line \in Seq(Symbols), NEW out \in Seq(Symbols), NEW i \in 1..Len(line),
           NEW b \in 1..i, NEW after \in i..Len(line), KeyCopied(line, out, b, i)
    PROVE  ScrubKey(line, out, b, i, after) = out \o SubSeq(line, i, after)
  <1> DEFINE n == Len(out)
             d == i - b
             s == SubSeq(out, 1, n - d)
             t == SubSeq(line, b, after)
             u == SubSeq(line, i, after)
             x == s \o t
             y == out \o u
  <1>1. /\ n \in Nat /\ Len(line) \in Nat /\ i \in Nat /\ b \in Nat /\ after \in Nat /\ d \in Nat /\ d <= n
        /\ \A j \in b..(i - 1) : out[n + j - i + 1] = line[j]
        /\ b <= i /\ i <= after
    BY DEF KeyCopied
  <1>2. /\ s \in Seq(Symbols) /\ Len(s) = n - d /\ \A j \in 1..(n - d) : s[j] = out[j]
    <2> DEFINE m == n - d
    <2>1. 1 \in 1..n + 1 /\ m \in (1 - 1)..n /\ m - 1 + 1 = m /\ \A j \in 1..m : 1 + j - 1 = j
      BY <1>1
    <2> HIDE DEF m
    <2>2. /\ SubSeq(out, 1, m) \in Seq(Symbols) /\ Len(SubSeq(out, 1, m)) = m - 1 + 1
          /\ \A j \in 1..(m - 1 + 1) : SubSeq(out, 1, m)[j] = out[1 + j - 1]
      BY <2>1, PartOfSeq
    <2> QED BY <2>1, <2>2 DEF m
  <1>3. /\ t \in Seq(Symbols) /\ Len(t) = after - b + 1
        /\ \A j \in 1..(after - b + 1) : t[j] = line[b + j - 1]
    <2>1. b \in 1..Len(line) + 1 /\ after \in (b - 1)..Len(line)
      BY <1>1
    <2> QED BY <2>1, PartOfSeq
  <1>4. /\ u \in Seq(Symbols) /\ Len(u) = after - i + 1
        /\ \A j \in 1..(after - i + 1) : u[j] = line[i + j - 1]
    <2>1. i \in 1..Len(line) + 1 /\ after \in (i - 1)..Len(line)
      BY <1>1
    <2> QED BY <2>1, PartOfSeq
  <1> HIDE DEF s, t, u
  <1>5. /\ x \in Seq(Symbols) /\ Len(x) = Len(s) + Len(t)
        /\ \A j \in 1..Len(s) + Len(t) : x[j] = IF j <= Len(s) THEN s[j] ELSE t[j - Len(s)]
    BY <1>2, <1>3, ConcatProperties
  <1>6. /\ y \in Seq(Symbols) /\ Len(y) = n + Len(u)
        /\ \A j \in 1..n + Len(u) : y[j] = IF j <= n THEN out[j] ELSE u[j - n]
    BY <1>4, ConcatProperties
  <1> HIDE DEF x, y
  <1>7. Len(x) = Len(y) /\ Len(x) = n + after - i + 1
    BY <1>1, <1>2, <1>3, <1>4, <1>5, <1>6
  <1> HIDE DEF n
  <1>8. ASSUME NEW j \in 1..Len(x) PROVE x[j] = y[j]
    <2>1. j \in Nat /\ j >= 1 /\ j <= n + after - i + 1 /\ j \in 1..Len(s) + Len(t) /\ j \in 1..n + Len(u)
      BY <1>1, <1>5, <1>6, <1>7
    <2>2. CASE j <= n - d
      <3>1. j \in 1..(n - d) /\ j <= n
        BY <1>1, <2>1, <2>2
      <3> QED BY <1>2, <1>5, <1>6, <2>1, <2>2, <3>1
    <2>3. CASE ~(j <= n - d) /\ j <= n
      <3> DEFINE m == j - n + i - 1
      <3>1. /\ m \in b..(i - 1) /\ n + m - i + 1 = j
            /\ j - (n - d) \in 1..(after - b + 1) /\ b + (j - (n - d)) - 1 = m
        <4>1. ASSUME NEW l \in Nat, b <= i, i <= after, i - b <= l, ~(j <= l - (i - b)), j <= l
              PROVE  /\ j - l + i - 1 \in b..(i - 1) /\ l + (j - l + i - 1) - i + 1 = j
                     /\ j - (l - (i - b)) \in 1..(after - b + 1)
                     /\ b + (j - (l - (i - b))) - 1 = j - l + i - 1
          <5>1. i \in Nat /\ b \in Nat /\ after \in Nat /\ j \in Nat /\ j >= 1
            BY <1>1, <2>1
          <5> QED BY <4>1, <5>1
        <4> QED BY <1>1, <2>3, <4>1
      <3> HIDE DEF m
      <3>2. x[j] = t[j - (n - d)] /\ y[j] = out[j]
        BY <1>2, <1>5, <1>6, <2>1, <2>3
      <3>3. t[j - (n - d)] = line[m] /\ out[j] = line[m]
        <4>1. t[j - (n - d)] = line[b + (j - (n - d)) - 1]
          BY <1>3, <3>1
        <4>2. out[n + m - i + 1] = line[m]
          BY <1>1, <3>1
        <4> QED BY <3>1, <4>1, <4>2
      <3> QED BY <3>2, <3>3
    <2>4. CASE ~(j <= n)
      <3>1. /\ ~(j <= n - d) /\ j - (n - d) \in 1..(after - b + 1) /\ j - n \in 1..(after - i + 1)
            /\ b + (j - (n - d)) - 1 = i + (j - n) - 1
        BY <1>1, <2>1, <2>4
      <3>2. x[j] = t[j - (n - d)] /\ y[j] = u[j - n]
        BY <1>2, <1>5, <1>6, <2>1, <2>4, <3>1
      <3>3. t[j - (n - d)] = line[b + (j - (n - d)) - 1] /\ u[j - n] = line[i + (j - n) - 1]
        BY <1>3, <1>4, <3>1
      <3> QED BY <3>1, <3>2, <3>3
    <2> QED BY <2>2, <2>3, <2>4
  <1>9. x = y
    BY <1>5, <1>6, <1>7, <1>8, SeqEqual
  <1> QED BY <1>9 DEF ScrubKey, x, y, s, t, u, n

(* The separator at c comes before a value of a sensitive key from v on, up to
   p at least; the scan does not pass it within the value of an earlier pair. *)
Passed(line, c) ==
    \A j \in 1..(c - 1) : /\ Separator(line, j) # 2
                          /\ (Separator(line, j) = 1 => \E m \in j..(c - 1) : line[m] \in Delimiter)
ValueOf(line, c, v, p) ==
    /\ c \in 2..Len(line) /\ v \in 1..p /\ p \in 1..Len(line)
    /\ Separator(line, c) # 0 /\ v = c + Separator(line, c) /\ line[c - 1] = "P"
    /\ \A j \in v..p : line[j] \notin ValueStops(Separator(line, c))
HiddenBy(line, c, v, p) == ValueOf(line, c, v, p) /\ Passed(line, c)
Hidden(line, p) == \E c, v \in Nat : HiddenBy(line, c, v, p)
ScrubParts(line) ==
    {t \in PartsOf(line) : \/ t[1] = t[2] /\ t[3] = line[t[2]] /\ ~Hidden(line, t[1])
                           \/ t[3] = "#" /\ \E c \in Nat : ValueOf(line, c, t[1], t[2])}

(* Between two rounds: the copied symbols are no such values, the key before
   the next symbol has been copied, and no separator that counts was missed. *)
KeyIsCopied(line, s) ==
    s.at <= Len(line) /\ line[s.at] \notin Delimiter =>
        \A b \in 1..s.at : (\A j \in b..(s.at - 1) : line[j] \in Identifier) =>
            KeyCopied(line, s.out, b, s.at)
NoneMissed(line, from) ==
    \A c, v \in Nat, p \in 1..Len(line) : HiddenBy(line, c, v, p) => from <= c \/ from > p
Scrubbed(line, s, k) ==
    Advanced(line, s, k, ScrubParts(line)) /\ KeyIsCopied(line, s) /\ NoneMissed(line, s.at)

LEMMA ScrubbedStart ==
    ASSUME NEW line \in Seq(Symbols)
    PROVE  Scrubbed(line, ScanStart, 0)
  <1>1. ScanStart.at = 1 /\ ScanStart.out = <<>> /\ Len(<<>>) = 0 /\ Len(line) \in Nat
    BY DEF ScanStart
  <1>2. Advanced(line, ScanStart, 0, ScrubParts(line))
    BY AdvancedStart
  <1>3. KeyIsCopied(line, ScanStart)
    BY <1>1 DEF KeyIsCopied, KeyCopied
  <1>4. NoneMissed(line, 1)
    <2>1. \A c \in 2..Len(line) : 1 <= c
      BY <1>1
    <2> QED BY <2>1 DEF NoneMissed, HiddenBy, ValueOf
  <1> QED BY <1>1, <1>2, <1>3, <1>4 DEF Scrubbed

(* A round that copies one symbol. *)
LEMMA ScrubCopies ==
    ASSUME NEW line \in Seq(Symbols), NEW s, NEW k \in Nat, Scrubbed(line, s, k),
           s.at <= Len(line), Separator(line, s.at) = 0
    PROVE  Scrubbed(line, [at |-> s.at + 1, out |-> Append(s.out, line[s.at])], k + 1)
  <1> DEFINE i == s.at
             x == line[i]
             T == ScrubParts(line)
             more == Append(s.out, x)
             r == [at |-> i + 1, out |-> more]
  <1>1. /\ s \in ScanState /\ i \in 1..Len(line) + 1 /\ (i > k \/ i = Len(line) + 1)
        /\ Origins(s.out, i - 1, T) # {}
    BY DEF Scrubbed, Advanced
  <1>2. /\ Len(line) \in Nat /\ i \in Nat /\ i >= 1 /\ i - 1 \in Nat /\ (i - 1) + 1 = i
        /\ s.out \in Seq(Symbols) /\ i \in 1..Len(line) /\ x \in Symbols
    BY <1>1 DEF ScanState
  <1>3. ~Hidden(line, i)
    <2> SUFFICES ASSUME NEW c \in Nat, NEW v \in Nat, HiddenBy(line, c, v, i) PROVE FALSE
      BY DEF Hidden
    <2>1. i <= c \/ i > i
      BY <1>2 DEF Scrubbed, NoneMissed
    <2>2. v \in 1..i /\ v = c + Separator(line, c) /\ Separator(line, c) # 0 /\ c \in 1..Len(line)
      BY <1>2 DEF HiddenBy, ValueOf
    <2>3. Separator(line, c) \in {0, 1, 2}
      BY <2>2, SeparatorFacts
    <2> QED BY <1>2, <2>1, <2>2, <2>3
  <1>4. <<i, i, x>> \in T
    BY <1>2, <1>3 DEF ScrubParts, PartsOf, Part3
  <1>5. more \in Seq(Symbols) /\ Origins(more, i, T) # {}
    <2> HIDE DEF x, T, i
    <2> QED BY <1>1, <1>2, <1>4, OriginsStep
  <1>6. r.at = i + 1 /\ r.out = more /\ r \in ScanState
    <2> HIDE DEF more, i
    <2> QED BY <1>2, <1>5 DEF ScanState
  <1>7. Advanced(line, r, k + 1, T)
    <2>1. r.at - 1 = i /\ r.at \in 1..Len(line) + 1 /\ (r.at > k + 1 \/ r.at = Len(line) + 1)
      <3>1. r.at = i + 1
        BY <1>6
      <3> HIDE DEF r, more
      <3> QED BY <1>1, <1>2, <3>1
    <2> HIDE DEF r, T, more, i
    <2> QED BY <1>5, <1>6, <2>1 DEF Advanced
  <1>8. KeyIsCopied(line, r)
    <2> HIDE DEF r, x, i
    <2> SUFFICES ASSUME i + 1 <= Len(line), NEW b \in 1..(i + 1), \A j \in b..((i + 1) - 1) : line[j] \in Identifier
                 PROVE  KeyCopied(line, more, b, i + 1)
      BY <1>6 DEF KeyIsCopied
    <2>1. /\ Len(s.out) \in Nat /\ Len(more) = Len(s.out) + 1 /\ more[Len(s.out) + 1] = x
          /\ \A j \in 1..Len(s.out) : more[j] = s.out[j]
      BY <1>2
    <2> HIDE DEF more
    <2>2. CASE b = i + 1
      BY <1>2, <2>1, <2>2 DEF KeyCopied
    <2>3. CASE b # i + 1
      <3>1. b \in 1..i /\ i \in b..((i + 1) - 1) /\ \A j \in b..(i - 1) : j \in b..((i + 1) - 1)
        BY <1>2, <2>3
      <3>2. \A y \in Identifier : y \notin Delimiter
        BY DEF Identifier, Delimiter
      <3>3. line[i] \notin Delimiter
        BY <3>1, <3>2
      <3>4. KeyCopied(line, s.out, b, i)
        BY <1>2, <3>1, <3>3 DEF Scrubbed, KeyIsCopied, i
      <3>5. i - b <= Len(s.out) /\ \A j \in b..(i - 1) : s.out[Len(s.out) + j - i + 1] = line[j]
        BY <3>4 DEF KeyCopied
      <3>6. (i + 1) - b <= Len(more)
        BY <1>2, <2>1, <3>1, <3>5
      <3>7. ASSUME NEW j \in b..((i + 1) - 1) PROVE more[Len(more) + j - (i + 1) + 1] = line[j]
        <4>1. CASE j = i
          <5>1. Len(more) + j - (i + 1) + 1 = Len(s.out) + 1
            BY <1>2, <2>1, <4>1
          <5> QED BY <2>1, <4>1, <5>1 DEF x
        <4>2. CASE j # i
          <5>1. /\ j \in b..(i - 1) /\ Len(more) + j - (i + 1) + 1 = Len(s.out) + j - i + 1
                /\ Len(s.out) + j - i + 1 \in 1..Len(s.out)
            BY <1>2, <2>1, <3>1, <3>5, <4>2
          <5> QED BY <2>1, <3>5, <5>1
        <4> QED BY <4>1, <4>2
      <3> QED BY <3>6, <3>7 DEF KeyCopied
    <2> QED BY <2>2, <2>3
  <1>9. NoneMissed(line, i + 1)
    <2> SUFFICES ASSUME NEW c \in Nat, NEW v \in Nat, NEW p \in 1..Len(line), HiddenBy(line, c, v, p)
                 PROVE  i + 1 <= c \/ i + 1 > p
      BY DEF NoneMissed
    <2>1. i <= c \/ i > p
      BY DEF Scrubbed, NoneMissed
    <2>2. i # c
      BY DEF HiddenBy, ValueOf
    <2> QED BY <1>2, <2>1, <2>2
  <1> QED BY <1>6, <1>7, <1>8, <1>9 DEF Scrubbed

(* A separator that was not passed over: what comes before the end of its value
   is not in the value of a later pair, and not missed. *)
LEMMA PairHides ==
    ASSUME NEW line \in Seq(Symbols), NEW i \in 1..Len(line), Separator(line, i) # 0,
           NEW e \in (i + Separator(line, i))..(Len(line) + 1),
           \A j \in (i + Separator(line, i))..(e - 1) : line[j] \notin ValueStops(Separator(line, i)),
           e > Len(line) \/ line[e] \in ValueStops(Separator(line, i)),
           NEW c \in Nat, NEW v \in Nat, NEW p \in 1..Len(line), HiddenBy(line, c, v, p), i <= c
    PROVE  \/ c = i /\ v = i + Separator(line, i) /\ e > p /\ i > 1 /\ line[i - 1] = "P"
           \/ e <= c
  <1> DEFINE sep == Separator(line, i)
             value == i + sep
  <1>1. /\ Len(line) \in Nat /\ sep \in {0, 1, 2} /\ i \in Nat /\ value \in Nat /\ e \in Nat /\ e >= value
        /\ value > i
    <2>1. sep \in {0, 1, 2}
      BY SeparatorFacts
    <2>2. sep # 0 /\ e \in value..(Len(line) + 1)
      OBVIOUS
    <2>3. Len(line) \in Nat /\ i \in Nat
      OBVIOUS
    <2> HIDE DEF sep
    <2> QED BY <2>1, <2>2, <2>3
  <1>2. /\ c \in 2..Len(line) /\ v \in 1..p /\ v = c + Separator(line, c) /\ line[c - 1] = "P"
        /\ \A j \in v..p : line[j] \notin ValueStops(Separator(line, c))
    BY DEF HiddenBy, ValueOf
  <1>3. CASE c = i
    <2>1. v = value /\ \A j \in value..p : line[j] \notin ValueStops(sep)
      BY <1>2, <1>3
    <2>2. e > p
      <3> SUFFICES ASSUME ~(e > p) PROVE FALSE
        OBVIOUS
      <3> HIDE DEF sep, value
      <3>1. e \in value..p /\ ~(e > Len(line))
        BY <1>1
      <3> QED BY <2>1, <3>1 DEF sep
    <2> QED BY <1>1, <1>2, <1>3, <2>1, <2>2
  <1>4. CASE c # i
    <2>1. i \in 1..(c - 1)
      BY <1>1, <1>2, <1>4
    <2>2. sep # 2 /\ (sep = 1 => \E m \in i..(c - 1) : line[m] \in Delimiter)
      BY <2>1 DEF HiddenBy, Passed
    <2>3. sep = 1
      BY <1>1, <2>2
    <2>4. PICK m \in i..(c - 1) : line[m] \in Delimiter
      BY <2>2, <2>3
    <2>5. m # i
      BY <2>4, SeparatorFacts
    <2>6. ValueStops(sep) = Delimiter
      BY <2>3 DEF ValueStops
    <2> HIDE DEF sep
    <2>7. ~(m \in value..(e - 1))
      BY <2>4, <2>6 DEF sep
    <2> HIDE DEF value
    <2>8. value = i + 1
      BY <2>3 DEF value
    <2> QED BY <1>1, <1>2, <2>4, <2>5, <2>7, <2>8
  <1> QED BY <1>3, <1>4

(* A round that copies a key, its separator and its value, or the marker. *)
LEMMA ScrubPairs ==
    ASSUME NEW line \in Seq(Symbols), NEW s, NEW k \in Nat, Scrubbed(line, s, k),
           s.at <= Len(line), Separator(line, s.at) # 0
    PROVE  Scrubbed(line, ScrubStep(line, s), k + 1)
  <1> DEFINE i == s.at
             sep == Separator(line, i)
             b == KeyStart(line, i)
             value == i + sep
             e == ValueEnd(line, value, sep = 2)
             key == ScrubKey(line, s.out, b, i, value - 1)
             gone == Sensitive(line, b, i) /\ e > value
             T == ScrubParts(line)
             r == ScrubStep(line, s)
  <1>1. /\ s \in ScanState /\ i \in 1..Len(line) + 1 /\ (i > k \/ i = Len(line) + 1)
        /\ Origins(s.out, i - 1, T) # {}
    BY DEF Scrubbed, Advanced
  <1>2. /\ Len(line) \in Nat /\ i \in Nat /\ i >= 1 /\ i - 1 \in 0..Len(line) /\ (i - 1) + 1 = i
        /\ s.out \in Seq(Symbols) /\ i \in 1..Len(line)
    BY <1>1 DEF ScanState
  <1>3. /\ sep \in {1, 2} /\ value \in i..Len(line) + 1 /\ line[i] \notin Delimiter
        /\ (sep = 1 <=> line[i] = "=")
        /\ (sep = 2 <=> i < Len(line) /\ line[i] = ":" /\ line[i + 1] = " ")
    <2>1. /\ sep \in {0, 1, 2} /\ value \in i..Len(line) + 1
          /\ (sep = 1 <=> line[i] = "=")
          /\ (sep = 2 <=> i < Len(line) /\ line[i] = ":" /\ line[i + 1] = " ")
          /\ (sep # 0 => line[i] \notin Delimiter)
      <3> HIDE DEF i
      <3> QED BY <1>2, SeparatorFacts
    <2>2. sep # 0
      OBVIOUS
    <2> HIDE DEF sep, value
    <2>3. sep \in {1, 2}
      BY <2>1, <2>2
    <2> QED BY <2>1, <2>2, <2>3
  <1>4. b \in 1..i /\ (\A j \in b..(i - 1) : line[j] \in Identifier)
        /\ (i > 1 /\ line[i - 1] = "P" => b < i)
    BY <1>2, KeyStartFacts
  <1>5. value \in 1..Len(line) + 1 /\ value - 1 \in i..Len(line) /\ value - 1 \in Nat /\ value > i
        /\ (value - 1) + 1 = value /\ value \in Nat
    <2>1. sep \in {1, 2} /\ value \in i..Len(line) + 1 /\ value = i + sep
      BY <1>3
    <2> HIDE DEF sep, value, i
    <2> QED BY <1>2, <2>1
  <1>6. /\ e \in value..(Len(line) + 1)
        /\ \A j \in value..(e - 1) : line[j] \notin ValueStops(sep)
        /\ e > Len(line) \/ line[e] \in ValueStops(sep)
    <2> HIDE DEF value, sep
    <2> QED BY <1>5, ValueEndFacts
  <1>7. r = [at |-> e, out |-> IF gone THEN Append(key, "#") ELSE key \o SubSeq(line, value, e - 1)]
    BY <1>2 DEF ScrubStep
  <1>8. key = s.out \o SubSeq(line, i, value - 1)
    <2>1. KeyCopied(line, s.out, b, i)
      BY <1>2, <1>3, <1>4 DEF Scrubbed, KeyIsCopied
    <2> HIDE DEF b, value, i
    <2> QED BY <1>2, <1>4, <1>5, <2>1, KeyCopiedAgain
  <1>9. ASSUME NEW c \in Nat, NEW v \in Nat, NEW p \in 1..Len(line), HiddenBy(line, c, v, p)
        PROVE  \/ i > p
               \/ c = i /\ v = value /\ e > p /\ i > 1 /\ line[i - 1] = "P"
               \/ e <= c
    <2>1. i <= c \/ i > p
      BY <1>9 DEF Scrubbed, NoneMissed
    <2>2. CASE i <= c
      <3>1. Separator(line, i) # 0
        OBVIOUS
      <3> HIDE DEF i, e
      <3> QED BY <1>2, <1>6, <1>9, <2>2, <3>1, PairHides
    <2> QED BY <2>1, <2>2
  <1>10. ASSUME NEW p \in i..(e - 1), p < value \/ ~gone PROVE <<p, p, line[p]>> \in T
    <2>1. p \in 1..Len(line) /\ line[p] \in Symbols /\ p \in Nat
      <3> HIDE DEF e, i, value
      <3> QED BY <1>2, <1>5, <1>6
    <2>2. ~Hidden(line, p)
      <3> SUFFICES ASSUME NEW c \in Nat, NEW v \in Nat, HiddenBy(line, c, v, p) PROVE FALSE
        BY DEF Hidden
      <3>1. \/ c = i /\ v = value /\ e > p /\ i > 1 /\ line[i - 1] = "P"
            \/ e <= c
        BY <1>9, <1>2, <2>1
      <3>2. v \in 1..p /\ c \in 1..Len(line) /\ v = c + Separator(line, c)
        BY DEF HiddenBy, ValueOf
      <3>3. Separator(line, c) \in {0, 1, 2}
        BY <3>2, SeparatorFacts
      <3>4. ~(e <= c)
        <4> HIDE DEF e, i, value
        <4> QED BY <1>2, <1>5, <1>6, <3>2, <3>3
      <3>5. v = value /\ i > 1 /\ line[i - 1] = "P"
        BY <3>1, <3>4
      <3>6. b < i
        BY <1>4, <3>5
      <3>7. e > value /\ ~(p < value)
        <4> HIDE DEF e, i, value
        <4> QED BY <1>2, <1>5, <1>6, <3>2, <3>5
      <3>8. gone
        BY <3>5, <3>6, <3>7 DEF Sensitive
      <3> QED BY <1>10, <3>7, <3>8
    <2> QED BY <2>1, <2>2 DEF ScrubParts, PartsOf, Part3
  <1>11. key \in Seq(Symbols) /\ Origins(key, value - 1, T) # {}
    <2>1. \A p \in ((i - 1) + 1)..(value - 1) : <<p, p, line[p]>> \in T
      <3> SUFFICES ASSUME NEW p \in ((i - 1) + 1)..(value - 1) PROVE <<p, p, line[p]>> \in T
        OBVIOUS
      <3>1. p \in i..(e - 1) /\ p < value
        <4> HIDE DEF e, i, value
        <4> QED BY <1>2, <1>5, <1>6
      <3> QED BY <1>10, <3>1
    <2> HIDE DEF key, e, i, value, T
    <2>2. value - 1 \in (i - 1)..Len(line)
      BY <1>2, <1>5
    <2>3. /\ s.out \o SubSeq(line, (i - 1) + 1, value - 1) \in Seq(Symbols)
          /\ Origins(s.out \o SubSeq(line, (i - 1) + 1, value - 1), value - 1, T) # {}
      BY <1>1, <1>2, <2>1, <2>2, OriginsCopies
    <2> QED BY <1>2, <1>8, <2>3
  <1>12. /\ r.out \in Seq(Symbols) /\ Origins(r.out, e - 1, T) # {}
    <2>1. CASE gone
      <3>1. ValueOf(line, i, value, e - 1)
        <4>1. b < i /\ line[i - 1] = "P" /\ e > value
          BY <2>1 DEF Sensitive
        <4>2. i \in 2..Len(line) /\ value \in 1..(e - 1) /\ e - 1 \in 1..Len(line)
          <5> HIDE DEF e, i, value, b
          <5> QED BY <1>2, <1>4, <1>5, <1>6, <4>1
        <4>3. sep # 0 /\ value = i + sep
          BY <1>3
        <4> HIDE DEF e
        <4> QED BY <1>6, <4>1, <4>2, <4>3 DEF ValueOf
      <3>2. "#" \in Symbols /\ i \in Nat
        BY <1>2 DEF Symbols
      <3>3. <<value, e - 1, "#">> \in T
        <4>1. value \in Nat /\ e - 1 \in Nat /\ 1 <= value /\ value <= e - 1 /\ e - 1 <= Len(line)
          <5>1. e > value
            BY <2>1
          <5> HIDE DEF e, i, value, b
          <5> QED BY <1>2, <1>5, <1>6, <5>1
        <4> HIDE DEF e, value, i
        <4> QED BY <3>1, <3>2, <4>1 DEF ScrubParts, PartsOf, Part3
      <3>4. r.out = Append(key, "#")
        BY <1>7, <2>1
      <3>5. e - 1 \in Nat
        <4> HIDE DEF e, value
        <4> QED BY <1>5, <1>6
      <3> HIDE DEF r, key, e, i, value, T
      <3>6. Append(key, "#") \in Seq(Symbols) /\ Origins(Append(key, "#"), e - 1, T) # {}
        BY <1>5, <1>11, <3>2, <3>3, <3>5, OriginsStep
      <3> QED BY <3>4, <3>6
    <2>2. CASE ~gone
      <3>1. \A p \in ((value - 1) + 1)..(e - 1) : <<p, p, line[p]>> \in T
        <4> SUFFICES ASSUME NEW p \in ((value - 1) + 1)..(e - 1) PROVE <<p, p, line[p]>> \in T
          OBVIOUS
        <4>1. p \in i..(e - 1)
          <5> HIDE DEF e, i, value
          <5> QED BY <1>2, <1>5, <1>6
        <4> QED BY <1>10, <2>2, <4>1
      <3>2. r.out = key \o SubSeq(line, value, e - 1)
        <4> HIDE DEF r, gone, key, e, value
        <4> QED BY <1>7, <2>2
      <3> HIDE DEF r, key, e, i, value, T
      <3>3. e - 1 \in (value - 1)..Len(line) /\ value - 1 \in 0..Len(line)
        BY <1>2, <1>5, <1>6
      <3>4. /\ key \o SubSeq(line, (value - 1) + 1, e - 1) \in Seq(Symbols)
            /\ Origins(key \o SubSeq(line, (value - 1) + 1, e - 1), e - 1, T) # {}
        BY <1>11, <3>1, <3>3, OriginsCopies
      <3> QED BY <1>5, <3>2, <3>4
    <2> QED BY <2>1, <2>2
  <1>13. r.at = e
    BY <1>7
  <1>14. r \in ScanState
    <2>1. \E o : r = [at |-> e, out |-> o]
      BY <1>7
    <2> HIDE DEF r, e, value
    <2>2. e \in Nat \ {0}
      BY <1>5, <1>6
    <2>3. PICK o : r = [at |-> e, out |-> o]
      BY <2>1
    <2>4. o \in Seq(Symbols)
      BY <1>12, <2>3
    <2> QED BY <2>2, <2>3, <2>4 DEF ScanState
  <1>15. Advanced(line, r, k + 1, T)
    <2>1. e - 1 \in Nat /\ e \in 1..Len(line) + 1 /\ (e > k + 1 \/ e = Len(line) + 1)
      <3> HIDE DEF r, e, i, value, T
      <3> QED BY <1>1, <1>2, <1>5, <1>6
    <2> HIDE DEF r, e, i, value, T
    <2> QED BY <1>12, <1>13, <1>14, <2>1 DEF Advanced
  <1>16. KeyIsCopied(line, r)
    <2>1. ValueStops(sep) \subseteq Delimiter
      BY DEF ValueStops, Delimiter
    <2> HIDE DEF r, e
    <2>2. e <= Len(line) => ~(e > Len(line))
      <3> HIDE DEF i, value
      <3> QED BY <1>2, <1>5, <1>6
    <2> QED BY <1>6, <1>13, <2>1, <2>2 DEF KeyIsCopied
  <1>17. NoneMissed(line, r.at)
    <2> SUFFICES ASSUME NEW c \in Nat, NEW v \in Nat, NEW p \in 1..Len(line), HiddenBy(line, c, v, p)
                 PROVE  e <= c \/ e > p
      BY <1>13 DEF NoneMissed
    <2>1. i > p \/ e > p \/ e <= c
      BY <1>9
    <2> HIDE DEF r, e, i, value
    <2> QED BY <1>2, <1>5, <1>6, <2>1
  <1> HIDE DEF r, T
  <1> QED BY <1>15, <1>16, <1>17 DEF Scrubbed, r, T

ScrubRun(line) ==
    CHOOSE scan : scan = [k \in 0..Len(line) |->
        IF k = 0 THEN ScanStart
        ELSE LET before == scan[k - 1] IN ScrubStep(line, before)]

LEMMA ScrubStepType ==
    ASSUME NEW line \in Seq(Symbols), NEW s \in ScanState
    PROVE  ScrubStep(line, s) \in ScanState
  <1> DEFINE i == s.at
             sep == Separator(line, i)
             b == KeyStart(line, i)
             value == i + sep
             e == ValueEnd(line, value, sep = 2)
             key == ScrubKey(line, s.out, b, i, value - 1)
             gone == Sensitive(line, b, i) /\ e > value
             r == ScrubStep(line, s)
  <1>1. Len(line) \in Nat /\ i \in Nat \ {0} /\ s.out \in Seq(Symbols) /\ i + 1 \in Nat \ {0}
        /\ "#" \in Symbols
    BY DEF ScanState, Symbols
  <1>2. \A x \in Nat \ {0}, o \in Seq(Symbols) : [at |-> x, out |-> o] \in ScanState
    BY DEF ScanState
  <1>3. \A o \in Seq(Symbols), x \in Symbols : Append(o, x) \in Seq(Symbols)
    OBVIOUS
  <1>4. CASE i > Len(line)
    BY <1>4 DEF ScrubStep
  <1>5. CASE ~(i > Len(line)) /\ sep = 0
    <2>1. line[i] \in Symbols
      BY <1>1, <1>5
    <2>2. r = [at |-> i + 1, out |-> Append(s.out, line[i])]
      BY <1>5 DEF ScrubStep
    <2> DEFINE x == line[i]
    <2> HIDE DEF r, i, x
    <2>3. Append(s.out, x) \in Seq(Symbols)
      BY <1>1, <1>3, <2>1 DEF x
    <2>4. [at |-> i + 1, out |-> Append(s.out, x)] \in ScanState
      BY <1>1, <1>2, <2>3
    <2> QED BY <2>2, <2>4 DEF r, x
  <1>6. CASE ~(i > Len(line)) /\ sep # 0
    <2>1. i \in 1..Len(line)
      BY <1>1, <1>6
    <2>2. value \in i..Len(line) + 1 /\ sep \in {0, 1, 2}
      <3> HIDE DEF i
      <3> QED BY <2>1, SeparatorFacts
    <2>3. b \in 1..i
      <3> HIDE DEF i
      <3> QED BY <2>1, KeyStartFacts
    <2>4. value \in 1..Len(line) + 1
      <3> HIDE DEF value, i
      <3> QED BY <2>1, <2>2
    <2>5. e \in value..(Len(line) + 1)
      <3> HIDE DEF value, sep
      <3> QED BY <2>4, ValueEndFacts
    <2>6. value > i
      <3>1. sep \in {0, 1, 2} /\ sep # 0
        BY <1>6, <2>2
      <3> HIDE DEF sep, i
      <3> QED BY <1>1, <3>1
    <2>7. r = [at |-> e, out |-> IF gone THEN Append(key, "#") ELSE key \o SubSeq(line, value, e - 1)]
      BY <1>6 DEF ScrubStep
    <2> HIDE DEF r, e, value, i, gone
    <2>8. key \in Seq(Symbols)
      <3> DEFINE d == Len(s.out) - (i - b)
                 old == SubSeq(s.out, 1, d)
                 new == SubSeq(line, b, value - 1)
      <3>0. Len(s.out) \in Nat
        BY <1>1
      <3> HIDE DEF b
      <3>1. new \in Seq(Symbols)
        <4>1. b \in 1..Len(line) + 1 /\ value - 1 \in (b - 1)..Len(line)
          BY <1>1, <2>1, <2>2, <2>3, <2>4, <2>6
        <4> QED BY <4>1, PartOfSeq
      <3>2. d \in Int /\ d <= Len(s.out)
        BY <1>1, <2>3, <3>0
      <3> HIDE DEF d, new
      <3>3. old \in Seq(Symbols)
        <4>1. CASE d >= 0
          <5>1. 1 \in 1..Len(s.out) + 1 /\ d \in (1 - 1)..Len(s.out)
            BY <3>0, <3>2, <4>1
          <5> QED BY <1>1, <5>1, PartOfSeq
        <4>2. CASE d < 0
          <5>1. 1 \in Int /\ 1 > d
            BY <3>2, <4>2
          <5>2. old = <<>>
            BY <3>2, <5>1, SubSeqEmpty
          <5>3. <<>> \in Seq(Symbols)
            OBVIOUS
          <5> HIDE DEF old
          <5> QED BY <5>2, <5>3
        <4> QED BY <3>2, <4>1, <4>2
      <3> HIDE DEF old
      <3>4. key = old \o new
        BY DEF ScrubKey, old, new, d
      <3> QED BY <3>1, <3>3, <3>4, ConcatProperties
    <2> HIDE DEF key
    <2>9. SubSeq(line, value, e - 1) \in Seq(Symbols)
      <3>1. e - 1 \in (value - 1)..Len(line)
        BY <1>1, <2>4, <2>5
      <3> QED BY <2>4, <3>1, PartOfSeq
    <2>10. key \o SubSeq(line, value, e - 1) \in Seq(Symbols)
      BY <2>8, <2>9, ConcatProperties
    <2>11. e \in Nat \ {0}
      BY <1>1, <2>4, <2>5
    <2> QED BY <1>1, <1>2, <1>3, <2>7, <2>8, <2>10, <2>11 DEF r
  <1> QED BY <1>4, <1>5, <1>6

LEMMA ScrubSteps ==
    ASSUME NEW line \in Seq(Symbols)
    PROVE  /\ ScrubRun(line)[0] = ScanStart
           /\ Scrub(line) = ScrubRun(line)[Len(line)].out
           /\ \A k \in 1..Len(line) : ScrubRun(line)[k] = ScrubStep(line, ScrubRun(line)[k - 1])
  <1> DEFINE n == Len(line)
             A == ScanState
             start == ScanStart
             next(s) == ScrubStep(line, s)
             pass == [x \in (1..n) \X A |-> next(x[2])]
  <1>1. n \in Nat /\ start \in A /\ \A s \in A : next(s) \in A
    <2>1. start \in A
      BY DEF ScanStart, ScanState
    <2> QED BY <2>1, ScrubStepType
  <1> HIDE DEF next, A, start
  <1>2. \A i \in 1..n, s \in A : pass[<<i, s>>] = next(s)
    <2>1. \A i \in 1..n, s \in A : <<i, s>> \in (1..n) \X A
      OBVIOUS
    <2> QED BY <2>1
  <1>3. pass \in StepsOf(n, A)
    <2>1. \A x \in (1..n) \X A : x[2] \in A
      OBVIOUS
    <2> QED BY <1>1, <2>1 DEF StepsOf
  <1> HIDE DEF pass, n
  <1>4. SolutionsOf(n, A, start, pass) # {}
    BY <1>1, <1>3, Solvable
  <1>5. PICK f \in SolutionsOf(n, A, start, pass) : TRUE
    BY <1>4
  <1>6. f \in [0..n -> A] /\ f[0] = start /\ \A i \in 1..n : f[i] = pass[<<i, f[i - 1]>>]
    BY <1>5 DEF SolutionsOf
  <1>7. \A i \in 1..n : i - 1 \in 0..n
    BY <1>1
  <1>8. \A i \in 1..n : f[i] = next(f[i - 1])
    BY <1>2, <1>6, <1>7
  <1>9. f = [k \in 0..n |-> IF k = 0 THEN start ELSE next(f[k - 1])]
    <2>1. \A i \in 0..n : i # 0 => i \in 1..n
      BY <1>1
    <2> QED BY <1>6, <1>8, <2>1
  <1> DEFINE g == ScrubRun(line)
  <1>10. g = [k \in 0..n |-> IF k = 0 THEN start ELSE next(g[k - 1])]
    BY <1>9 DEF ScrubRun, n, start, next
  <1>11. Scrub(line) = g[n].out
    BY DEF Scrub, ScrubRun, n
  <1> HIDE DEF g
  <1>12. g[0] = start
    BY <1>1, <1>10
  <1>13. ASSUME NEW k \in 1..n PROVE g[k] = next(g[k - 1])
    <2>1. k \in 0..n /\ k # 0
      BY <1>1
    <2> QED BY <1>10, <2>1
  <1> QED BY <1>11, <1>12, <1>13 DEF n, g, start, next

LEMMA ScrubAdvances ==
    ASSUME NEW line \in Seq(Symbols), NEW s, NEW k \in Nat, Scrubbed(line, s, k)
    PROVE  Scrubbed(line, ScrubStep(line, s), k + 1)
  <1>1. CASE s.at > Len(line)
    <2>1. ScrubStep(line, s) = s
      BY <1>1 DEF ScrubStep
    <2>2. /\ s \in ScanState /\ s.at \in 1..Len(line) + 1
          /\ Origins(s.out, s.at - 1, ScrubParts(line)) # {}
      BY DEF Scrubbed, Advanced
    <2>3. s.at = Len(line) + 1
      <3>1. Len(line) \in Nat
        OBVIOUS
      <3> QED BY <1>1, <2>2, <3>1
    <2>4. Advanced(line, s, k + 1, ScrubParts(line))
      BY <2>2, <2>3 DEF Advanced
    <2> QED BY <2>1, <2>4 DEF Scrubbed
  <1>2. CASE ~(s.at > Len(line)) /\ Separator(line, s.at) = 0
    <2>1. s.at <= Len(line)
      <3>1. s.at \in 1..Len(line) + 1 /\ Len(line) \in Nat
        BY DEF Scrubbed, Advanced
      <3> QED BY <1>2, <3>1
    <2>2. ScrubStep(line, s) = [at |-> s.at + 1, out |-> Append(s.out, line[s.at])]
      BY <1>2 DEF ScrubStep
    <2> QED BY <1>2, <2>1, <2>2, ScrubCopies
  <1>3. CASE ~(s.at > Len(line)) /\ Separator(line, s.at) # 0
    <2>1. s.at <= Len(line)
      <3>1. s.at \in 1..Len(line) + 1 /\ Len(line) \in Nat
        BY DEF Scrubbed, Advanced
      <3> QED BY <1>3, <3>1
    <2> QED BY <1>3, <2>1, ScrubPairs
  <1> QED BY <1>1, <1>2, <1>3

LEMMA ScrubbedAll ==
    ASSUME NEW line \in Seq(Symbols)
    PROVE  /\ Scrub(line) \in Seq(Symbols)
           /\ Origins(Scrub(line), Len(line), ScrubParts(line)) # {}
  <1> DEFINE g == ScrubRun(line)
             T == ScrubParts(line)
             n == Len(line)
             H == {k \in Nat : k <= n => Scrubbed(line, g[k], k)}
  <1>1. /\ g[0] = ScanStart /\ Scrub(line) = g[n].out
        /\ \A k \in 1..n : g[k] = ScrubStep(line, g[k - 1])
    BY ScrubSteps
  <1>2. n \in Nat
    OBVIOUS
  <1>3. ASSUME NEW s, NEW k \in Nat, Scrubbed(line, s, k)
        PROVE  Scrubbed(line, ScrubStep(line, s), k + 1)
    BY <1>3, ScrubAdvances
  <1>4. Scrubbed(line, ScanStart, 0)
    BY ScrubbedStart
  <1> HIDE DEF g, T, n
  <1>5. 0 \in H
    BY <1>1, <1>4
  <1>6. ASSUME NEW k \in Nat, k \in H PROVE k + 1 \in H
    <2> SUFFICES ASSUME k + 1 <= n PROVE Scrubbed(line, g[k + 1], k + 1)
      OBVIOUS
    <2>1. k + 1 \in 1..n /\ (k + 1) - 1 = k /\ k <= n
      BY <1>2
    <2> QED BY <1>1, <1>3, <1>6, <2>1
  <1> HIDE DEF H
  <1>7. n \in H
    BY <1>2, <1>5, <1>6, Induction
  <1>8. Scrubbed(line, g[n], n)
    BY <1>2, <1>7 DEF H
  <1>9. /\ g[n] \in ScanState /\ g[n].at \in 1..n + 1 /\ (g[n].at > n \/ g[n].at = n + 1)
        /\ Origins(g[n].out, g[n].at - 1, T) # {}
    BY <1>8 DEF Scrubbed, Advanced, n, T
  <1>10. g[n].at - 1 = n /\ g[n].out \in Seq(Symbols)
    BY <1>2, <1>9 DEF ScanState
  <1> QED BY <1>1, <1>9, <1>10 DEF T, n

------------------------------------------------------------------------------
(* Both scans.  A symbol after the first stands for itself or, a marker, for a
   secret. *)
SecretAt(line, a, e) == /\ a \in 1..e /\ e \in 1..Len(line) /\ Contains(Secrets, SubSeq(line, a, e))
CutAt(line, mid, cut, q) ==
    /\ cut[q - 1] \in Nat /\ cut[q] \in 1..Len(line) /\ cut[q - 1] < cut[q]
    /\ \/ cut[q] = cut[q - 1] + 1 /\ mid[q] = line[cut[q]]
       \/ mid[q] = "#" /\ SecretAt(line, cut[q - 1] + 1, cut[q])

LEMMA SecretAtFacts ==
    ASSUME NEW line \in Seq(Symbols), NEW a, NEW e, SecretAt(line, a, e), NEW j \in a..e
    PROVE  /\ line[j] # "n"
           /\ \A i, k \in Nat : i <= a /\ e <= k => InSecret(line, j, i, k)
  <1> DEFINE w == SubSeq(line, a, e)
  <1>1. a \in 1..e /\ e \in 1..Len(line) /\ Contains(Secrets, w) /\ Len(line) \in Nat
    BY DEF SecretAt
  <1>2. w \in Word /\ w \in ToSet(Secrets)
    <2> HIDE DEF w
    <2> QED BY <1>1, SecretWords
  <1>3. Len(w) = e - a + 1 /\ \A i \in 1..(e - a + 1) : w[i] = line[a + i - 1]
    <2>1. a \in 1..Len(line) + 1 /\ e \in (a - 1)..Len(line)
      BY <1>1
    <2> QED BY <2>1, PartOfSeq
  <1>4. Stands(line, w, a)
    <2>1. a + Len(w) - 1 = e /\ e <= Len(line)
      <3> HIDE DEF w
      <3> QED BY <1>1, <1>3
    <2>2. SubSeq(line, a, a + Len(w) - 1) = w
      BY <2>1
    <2> HIDE DEF w
    <2> QED BY <2>1, <2>2 DEF Stands
  <1> HIDE DEF w
  <1>5. line[j] # "n"
    <2>1. j - a + 1 \in 1..(e - a + 1) /\ a + (j - a + 1) - 1 = j
      BY <1>1
    <2>2. w[j - a + 1] = line[j] /\ j - a + 1 \in 1..Len(w)
      BY <1>3, <2>1
    <2> QED BY <1>2, <2>2, WordFacts
  <1>6. ASSUME NEW i \in Nat, NEW k \in Nat, i <= a, e <= k PROVE InSecret(line, j, i, k)
    <2>1. a \in i..j /\ j < a + Len(w) /\ a + Len(w) - 1 <= k
      BY <1>1, <1>3, <1>6
    <2> QED BY <1>2, <1>4, <2>1 DEF InSecret
  <1> QED BY <1>5, <1>6

LEMMA CutFacts ==
    ASSUME NEW line \in Seq(Symbols), NEW mid \in Seq(Symbols),
           NEW cut \in Origins(mid, Len(line), SecretParts(line))
    PROVE  /\ cut \in [0..Len(mid) -> Nat] /\ cut[0] = 0 /\ cut[Len(mid)] = Len(line)
           /\ \A q \in 1..Len(mid) : CutAt(line, mid, cut, q)
           /\ \A i, j \in 0..Len(mid) : i <= j => cut[i] <= cut[j]
           /\ \A i, j \in 0..Len(mid) : cut[i] <= cut[j] => i <= j
  <1> DEFINE T == SecretParts(line)
  <1>1. T \in SUBSET PartsOf(line)
    BY DEF SecretParts
  <1>2. Len(line) \in Nat /\ Len(mid) \in Nat
    OBVIOUS
  <1>3. \A t \in T : \/ t[1] = t[2] /\ t[3] = line[t[2]]
                     \/ t[3] = "#" /\ Contains(Secrets, SubSeq(line, t[1], t[2]))
    BY DEF SecretParts
  <1> HIDE DEF T
  <1>4. /\ cut \in [0..Len(mid) -> Nat] /\ cut[0] = 0 /\ cut[Len(mid)] = Len(line)
        /\ \A i, j \in 0..Len(mid) : i <= j => cut[i] <= cut[j]
    BY <1>1, <1>2, OriginsGrow DEF T
  <1>5. \A j \in 1..Len(mid) : /\ <<cut[j - 1] + 1, cut[j], mid[j]>> \in T
                               /\ j \in 0..Len(mid) /\ j - 1 \in 0..Len(mid)
                               /\ cut[j - 1] < cut[j] /\ cut[j] <= Len(line)
    <2>1. \A j \in 1..Len(mid) : /\ <<cut[j - 1] + 1, cut[j], mid[j]>> \in T
                               /\ j \in 0..Len(mid) /\ j - 1 \in 0..Len(mid)
                               /\ cut[j - 1] < cut[j] /\ cut[j] <= Len(line)
                               /\ (mid[j] = "#" \/ (cut[j] = cut[j - 1] + 1 /\ mid[j] = line[cut[j]]))
      BY <1>1, <1>2, OriginsGrow DEF T
    <2> QED BY <2>1
  <1>6. ASSUME NEW q \in 1..Len(mid) PROVE CutAt(line, mid, cut, q)
    <2>1. q \in 0..Len(mid) /\ q - 1 \in 0..Len(mid)
      BY <1>5
    <2>2. cut[q - 1] \in Nat /\ cut[q] \in Nat
      BY <1>4, <2>1
    <2>3. cut[q - 1] < cut[q] /\ cut[q] <= Len(line)
      BY <1>5
    <2> DEFINE a == cut[q - 1] + 1
               e == cut[q]
    <2>4. <<a, e, mid[q]>> \in T
      BY <1>5
    <2>5. a \in 1..e /\ e \in 1..Len(line)
      BY <1>2, <2>2, <2>3
    <2>6. \/ a = e /\ mid[q] = line[e]
          \/ mid[q] = "#" /\ Contains(Secrets, SubSeq(line, a, e))
      <3> HIDE DEF a, e
      <3> QED BY <1>3, <2>4
    <2> QED BY <2>2, <2>3, <2>5, <2>6 DEF CutAt, SecretAt
  <1>7. ASSUME NEW i \in 0..Len(mid), NEW j \in 0..Len(mid), cut[i] <= cut[j] PROVE i <= j
    <2> SUFFICES ASSUME ~(i <= j) PROVE FALSE
      OBVIOUS
    <2>1. i \in 1..Len(mid) /\ i - 1 \in 0..Len(mid) /\ j <= i - 1
      BY <1>2
    <2>2. cut[j] <= cut[i - 1] /\ cut[i - 1] < cut[i]
      BY <1>4, <1>5, <2>1
    <2>3. cut[j] \in Nat /\ cut[i - 1] \in Nat /\ cut[i] \in Nat
      BY <1>4, <2>1
    <2> QED BY <1>7, <2>2, <2>3
  <1> QED BY <1>4, <1>6, <1>7

LEMMA CutCovers ==
    ASSUME NEW line \in Seq(Symbols), NEW mid \in Seq(Symbols),
           NEW cut \in Origins(mid, Len(line), SecretParts(line)),
           NEW lo \in 0..Len(mid), NEW hi \in 0..Len(mid), NEW m \in Nat, cut[lo] < m, m <= cut[hi]
    PROVE  \E j \in 1..Len(mid) : lo < j /\ j <= hi /\ cut[j - 1] < m /\ m <= cut[j]
  <1>1. SecretParts(line) \in SUBSET PartsOf(line) /\ Len(line) \in Nat
    BY DEF SecretParts
  <1> QED BY <1>1, OriginsCover

(* What is in no secret is still there. *)
LEMMA StaysPlain ==
    ASSUME NEW line \in Seq(Symbols), NEW mid \in Seq(Symbols),
           NEW cut \in Origins(mid, Len(line), SecretParts(line)),
           NEW i \in 1..Len(line), ~InSecret(line, i, 1, Len(line))
    PROVE  \E q \in 1..Len(mid) : cut[q] = i /\ cut[q - 1] = i - 1 /\ mid[q] = line[i]
  <1>1. Len(line) \in Nat /\ Len(mid) \in Nat /\ i \in Nat
    OBVIOUS
  <1>2. cut[0] = 0 /\ cut[Len(mid)] = Len(line) /\ 0 \in 0..Len(mid) /\ Len(mid) \in 0..Len(mid)
    BY <1>1, CutFacts
  <1>3. cut[0] < i /\ i <= cut[Len(mid)]
    BY <1>1, <1>2
  <1>4. PICK q \in 1..Len(mid) : cut[q - 1] < i /\ i <= cut[q]
    BY <1>1, <1>2, <1>3, CutCovers
  <1>5. CutAt(line, mid, cut, q)
    BY CutFacts
  <1> DEFINE a == cut[q - 1]
             e == cut[q]
  <1>6. a \in Nat /\ e \in 1..Len(line) /\ a < i /\ i <= e
    BY <1>4, <1>5 DEF CutAt
  <1>7. ~SecretAt(line, a + 1, e)
    <2> SUFFICES ASSUME SecretAt(line, a + 1, e) PROVE FALSE
      OBVIOUS
    <2> HIDE DEF a, e
    <2>1. i \in (a + 1)..e /\ 1 <= a + 1 /\ e <= Len(line) /\ 1 \in Nat
      BY <1>1, <1>6
    <2> QED BY <1>1, <2>1, SecretAtFacts
  <1>8. e = a + 1 /\ mid[q] = line[e]
    BY <1>5, <1>7 DEF CutAt
  <1>9. e = i /\ a = i - 1
    <2> HIDE DEF a, e
    <2> QED BY <1>1, <1>6, <1>8
  <1> QED BY <1>8, <1>9

(* A symbol that is no marker stands for itself, and so do two in a row. *)
LEMMA CutSame ==
    ASSUME NEW line \in Seq(Symbols), NEW mid \in Seq(Symbols),
           NEW cut \in Origins(mid, Len(line), SecretParts(line)),
           NEW q \in 1..Len(mid), mid[q] # "#"
    PROVE  cut[q] = cut[q - 1] + 1 /\ mid[q] = line[cut[q]] /\ cut[q] \in 1..Len(line)
  <1>1. CutAt(line, mid, cut, q)
    BY CutFacts
  <1> QED BY <1>1 DEF CutAt

(* What is looked at in the line is reached by the second scan. *)
LEMMA PassedBack ==
    ASSUME NEW line \in Seq(Symbols), NEW mid \in Seq(Symbols),
           NEW cut \in Origins(mid, Len(line), SecretParts(line)),
           NEW c \in 2..Len(mid), NEW x \in 2..Len(line), cut[c] = x, cut[c - 1] = x - 1,
           NEW v \in Nat, Looked(line, x, v)
    PROVE  Passed(mid, c)
  <1>1. Len(line) \in Nat /\ Len(mid) \in Nat /\ c \in Nat /\ x \in Nat /\ c - 1 \in 0..Len(mid)
    OBVIOUS
  <1>2. /\ cut \in [0..Len(mid) -> Nat]
        /\ \A i, j \in 0..Len(mid) : i <= j => cut[i] <= cut[j]
        /\ \A i, j \in 0..Len(mid) : cut[i] <= cut[j] => i <= j
    BY CutFacts
  <1>3. /\ \A j \in 1..(x - 1) : line[j] = "=" =>
              \E m \in j..(x - 1) : line[m] \in Delimiter /\ ~InSecret(line, m, 1, Len(line))
        /\ \A j \in 1..(x - 1) : ~(line[j] = ":" /\ line[j + 1] = " ")
    BY DEF Looked
  <1> SUFFICES ASSUME NEW j \in 1..(c - 1)
               PROVE  /\ Separator(mid, j) # 2
                      /\ (Separator(mid, j) = 1 => \E m \in j..(c - 1) : mid[m] \in Delimiter)
    BY DEF Passed
  <1>4. j \in 1..Len(mid) /\ j \in 0..Len(mid) /\ j <= c - 1 /\ j \in Nat
    BY <1>1
  <1>5. cut[j] <= x - 1
    <2>1. cut[j] <= cut[c - 1]
      BY <1>1, <1>2, <1>4
    <2> QED BY <2>1
  <1>6. mid[j] # "#" => cut[j] \in 1..(x - 1) /\ mid[j] = line[cut[j]]
    <2> SUFFICES ASSUME mid[j] # "#" PROVE cut[j] \in 1..(x - 1) /\ mid[j] = line[cut[j]]
      OBVIOUS
    <2>1. mid[j] = line[cut[j]] /\ cut[j] \in 1..Len(line)
      BY <1>4, CutSame
    <2> QED BY <1>1, <1>5, <2>1
  <1>7. ASSUME Separator(mid, j) = 2 PROVE FALSE
    <2>1. j < Len(mid) /\ mid[j] = ":" /\ mid[j + 1] = " "
      BY <1>4, <1>7, SeparatorFacts
    <2>2. j + 1 \in 1..Len(mid) /\ (j + 1) - 1 = j
      <3>1. j < Len(mid) /\ Len(mid) \in Nat /\ j \in Nat
        BY <1>1, <1>4, <2>1
      <3> QED BY <3>1
    <2>3. cut[j + 1] = cut[(j + 1) - 1] + 1 /\ mid[j + 1] = line[cut[j + 1]]
      <3>1. mid[j + 1] # "#"
        BY <2>1
      <3> QED BY <2>2, <3>1, CutSame
    <2>4. line[cut[j] + 1] = " "
      BY <2>1, <2>2, <2>3
    <2>5. cut[j] \in 1..(x - 1) /\ line[cut[j]] = ":"
      BY <1>6, <2>1
    <2> QED BY <1>3, <2>4, <2>5
  <1>8. ASSUME Separator(mid, j) = 1 PROVE \E m \in j..(c - 1) : mid[m] \in Delimiter
    <2>1. mid[j] = "="
      BY <1>4, <1>8, SeparatorFacts
    <2>2. cut[j] \in 1..(x - 1) /\ line[cut[j]] = "="
      BY <1>6, <2>1
    <2>3. PICK m \in cut[j]..(x - 1) : line[m] \in Delimiter /\ ~InSecret(line, m, 1, Len(line))
      BY <1>3, <2>2
    <2>4. m \in 1..Len(line) /\ m \in Nat /\ m <= x - 1 /\ cut[j] <= m
      BY <1>1, <2>2, <2>3
    <2>5. PICK q \in 1..Len(mid) : cut[q] = m /\ mid[q] = line[m]
      BY <2>3, <2>4, StaysPlain
    <2>6. q \in 0..Len(mid)
      BY <1>1
    <2>7. j <= q /\ q <= c - 1
      BY <1>1, <1>2, <1>4, <2>4, <2>5, <2>6
    <2>8. q \in j..(c - 1)
      BY <1>1, <1>4, <2>7
    <2> QED BY <2>3, <2>5, <2>8
  <1> QED BY <1>7, <1>8

(* Two positions next to each other, in no secret, are so still. *)
LEMMA StayTogether ==
    ASSUME NEW line \in Seq(Symbols), NEW mid \in Seq(Symbols),
           NEW cut \in Origins(mid, Len(line), SecretParts(line)),
           NEW q \in 1..Len(mid), cut[q] + 1 <= Len(line), ~InSecret(line, cut[q] + 1, 1, Len(line))
    PROVE  /\ q + 1 \in 1..Len(mid) /\ cut[q + 1] = cut[q] + 1 /\ mid[q + 1] = line[cut[q] + 1]
  <1>1. Len(line) \in Nat /\ Len(mid) \in Nat /\ q \in 0..Len(mid) /\ q \in Nat
    OBVIOUS
  <1>2. /\ cut \in [0..Len(mid) -> Nat]
        /\ \A i, j \in 0..Len(mid) : cut[i] <= cut[j] => i <= j
    BY CutFacts
  <1>3. cut[q] \in Nat
    BY <1>1, <1>2
  <1> DEFINE i == cut[q] + 1
  <1>4. i \in 1..Len(line) /\ i - 1 = cut[q]
    BY <1>1, <1>3
  <1>5. PICK r \in 1..Len(mid) : cut[r] = i /\ cut[r - 1] = i - 1 /\ mid[r] = line[i]
    <2> HIDE DEF i
    <2>1. ~InSecret(line, i, 1, Len(line))
      BY DEF i
    <2> QED BY <1>4, <2>1, StaysPlain
  <1>6. r - 1 \in 0..Len(mid) /\ r \in Nat
    BY <1>1
  <1>7. cut[r - 1] <= cut[q] /\ cut[q] <= cut[r - 1]
    <2> HIDE DEF i
    <2> QED BY <1>3, <1>4, <1>5
  <1>8. r - 1 <= q /\ q <= r - 1
    BY <1>1, <1>2, <1>6, <1>7
  <1>9. r = q + 1
    BY <1>1, <1>6, <1>8
  <1> QED BY <1>5, <1>9

LEMMA MustGoHidden ==
    ASSUME NEW line \in Seq(Symbols), NEW mid \in Seq(Symbols),
           NEW cut \in Origins(mid, Len(line), SecretParts(line)),
           NEW q \in 1..Len(mid), cut[q] = cut[q - 1] + 1, mid[q] = line[cut[q]],
           MustGo(line, cut[q])
    PROVE  Hidden(mid, q)
  <1> DEFINE i == cut[q]
             plain(j) == ~InSecret(line, j, 1, Len(line))
  <1>1. Len(line) \in Nat /\ Len(mid) \in Nat /\ q \in Nat /\ q \in 0..Len(mid)
    OBVIOUS
  <1>2. /\ cut \in [0..Len(mid) -> Nat]
        /\ \A k, j \in 0..Len(mid) : k <= j => cut[k] <= cut[j]
        /\ \A k, j \in 0..Len(mid) : cut[k] <= cut[j] => k <= j
        /\ CutAt(line, mid, cut, q)
    BY CutFacts
  <1>3. i \in 1..Len(line) /\ i \in Nat
    BY <1>2 DEF CutAt
  <1>4. PICK v \in 1..i :
            \/ EqualsKey(line, v) /\ Looked(line, v - 1, v) /\ \A j \in v..i : line[j] \notin Delimiter
            \/ HeaderKey(line, v) /\ Looked(line, v - 2, v) /\ \A j \in v..i : line[j] # "n"
    BY DEF MustGo
  (* The end of the key, at x - 1, and the separator at x, of n symbols. *)
  <1>5. ASSUME NEW n \in {1, 2}, NEW x \in Nat, x > 1, v = x + n, line[x - 1] = "P", Looked(line, x, v),
               n = 1 => line[x] = "=", n = 2 => line[x] = ":" /\ line[x + 1] = " ",
               \A j \in v..i : line[j] \notin ValueStops(n)
        PROVE  Hidden(mid, q)
    <2>0. n \in Nat /\ v \in Nat /\ v <= i /\ n >= 1 /\ x <= i
      <3>1. v \in 1..i /\ n \in {1, 2} /\ v = x + n /\ x \in Nat
        BY <1>5
      <3>2. \A y \in Nat : \A m, z : z \in 1..y /\ m \in {1, 2} /\ z = x + m =>
                m \in Nat /\ z \in Nat /\ z <= y /\ m >= 1 /\ x <= y
        BY <3>1
      <3> HIDE DEF i
      <3> QED BY <1>3, <3>1, <3>2
    <2>1. x - 1 \in 1..Len(line) /\ x \in 2..Len(line) /\ x - 1 \in (x - 1)..(v - 1) /\ x \in (x - 1)..(v - 1)
          /\ (x - 1) + 1 = x
      <3>1. x \in Nat /\ x > 1 /\ v = x + n
        BY <1>5
      <3> HIDE DEF i
      <3> QED BY <1>1, <1>3, <2>0, <3>1
    <2>2. \A j \in (x - 1)..(v - 1) : plain(j)
      BY <1>5 DEF Looked
    <2>3. PICK p \in 1..Len(mid) : cut[p] = x - 1 /\ mid[p] = "P"
      <3> DEFINE y == x - 1
      <3>1. ~InSecret(line, y, 1, Len(line)) /\ y \in 1..Len(line)
        BY <2>1, <2>2
      <3>2. line[y] = "P"
        BY <1>5
      <3> HIDE DEF y
      <3>3. PICK r \in 1..Len(mid) : cut[r] = y /\ cut[r - 1] = y - 1 /\ mid[r] = line[y]
        BY <3>1, StaysPlain
      <3> QED BY <3>2, <3>3 DEF y
    <2> DEFINE c == p + 1
    <2>4. c \in 2..Len(mid) /\ cut[c] = x /\ cut[c - 1] = x - 1 /\ mid[c] = line[x] /\ c - 1 = p
      <3>1. cut[p] + 1 = x /\ x <= Len(line) /\ plain(x)
        BY <1>1, <2>1, <2>2, <2>3
      <3>2. p + 1 \in 1..Len(mid) /\ cut[p + 1] = cut[p] + 1 /\ mid[p + 1] = line[cut[p] + 1]
        BY <2>3, <3>1, StayTogether
      <3>3. p + 1 \in 2..Len(mid) /\ (p + 1) - 1 = p
        BY <1>1, <3>2
      <3> QED BY <2>3, <3>1, <3>2, <3>3
    <2> HIDE DEF c
    <2>5. Passed(mid, c)
      BY <1>5, <2>0, <2>1, <2>4, PassedBack
    <2>6. /\ Separator(mid, c) = n /\ c + n - 1 \in 0..Len(mid) /\ cut[c + n - 1] = v - 1
      <3>1. CASE n = 1
        <4>1. mid[c] = "=" /\ c \in 1..Len(mid)
          BY <1>5, <2>4, <3>1
        <4>2. Separator(mid, c) = 1
          BY <4>1, SeparatorFacts
        <4>3. c + 1 - 1 = c /\ c \in 0..Len(mid) /\ (x + 1) - 1 = x /\ v = x + 1
          BY <1>1, <1>5, <2>4, <3>1
        <4> QED BY <2>4, <3>1, <4>2, <4>3
      <3>2. CASE n = 2
        <4>0. line[x] = ":" /\ line[x + 1] = " " /\ v = x + 2
          BY <1>5, <3>2
        <4>1. mid[c] = ":" /\ c \in 1..Len(mid) /\ line[x + 1] = " "
          <5>1. c \in 1..Len(mid)
            BY <1>1, <2>4
          <5> QED BY <2>4, <4>0, <5>1
        <4>2. x + 1 <= Len(line) /\ plain(x + 1) /\ cut[c] + 1 = x + 1
          <5>1. v = x + 2
            BY <4>0
          <5>2. x + 1 <= Len(line) /\ x + 1 \in (x - 1)..(v - 1)
            <6>1. v \in Nat /\ v <= i /\ i \in Nat /\ i <= Len(line) /\ Len(line) \in Nat /\ x \in Nat
              BY <1>1, <1>3, <2>0, <2>1
            <6> HIDE DEF i
            <6> QED BY ONLY <5>1, <6>1
          <5> QED BY <2>2, <2>4, <5>2
        <4>3. c + 1 \in 1..Len(mid) /\ cut[c + 1] = x + 1 /\ mid[c + 1] = " "
          <5>1. cut[c] + 1 <= Len(line) /\ ~InSecret(line, cut[c] + 1, 1, Len(line)) /\ c \in 1..Len(mid)
            BY <4>1, <4>2
          <5>2. c + 1 \in 1..Len(mid) /\ cut[c + 1] = cut[c] + 1 /\ mid[c + 1] = line[cut[c] + 1]
            BY <5>1, StayTogether
          <5> QED BY <4>1, <4>2, <5>2
        <4>4. c < Len(mid) /\ c + 2 - 1 = c + 1 /\ c + 1 \in 0..Len(mid) /\ v - 1 = x + 1
          <5>1. v = x + 2 /\ x \in Nat
            BY <1>5, <4>0
          <5>2. c + 1 \in 1..Len(mid) /\ c \in 2..Len(mid)
            BY <2>4, <4>3
          <5> QED BY <1>1, <5>1, <5>2
        <4>5. Separator(mid, c) = 2
          BY <4>1, <4>3, <4>4, SeparatorFacts
        <4> QED BY <3>2, <4>3, <4>4, <4>5
      <3> QED BY <3>1, <3>2
    <2> DEFINE u == c + n
    <2>7. u \in 1..q /\ u - 1 \in 0..Len(mid) /\ cut[u - 1] = v - 1
      <3>1. c + n - 1 \in 0..Len(mid) /\ cut[c + n - 1] = v - 1 /\ c \in Nat
        BY <2>4, <2>6
      <3>2. ~(cut[q] <= cut[c + n - 1])
        <4> HIDE DEF c
        <4> QED BY <1>3, <2>0, <3>1
      <3>3. ~(q <= c + n - 1)
        <4>1. q \in 0..Len(mid)
          BY <1>1
        <4> QED BY ONLY <1>2, <3>1, <3>2, <4>1
      <3>4. /\ c + n \in Nat /\ (c + n) - 1 = c + n - 1 /\ c + n >= 1 /\ q \in Nat
            /\ ~(q <= c + n - 1) => c + n <= q
        <4> HIDE DEF c
        <4> QED BY ONLY <1>1, <2>0, <3>1
      <3> HIDE DEF c
      <3> QED BY ONLY <3>1, <3>3, <3>4
    <2>8. ASSUME NEW j \in u..q PROVE mid[j] \notin ValueStops(n)
      <3> SUFFICES ASSUME mid[j] \in ValueStops(n) PROVE FALSE
        OBVIOUS
      <3>1. mid[j] # "#"
        BY DEF ValueStops, Delimiter
      <3> HIDE DEF u
      <3>2. j \in 1..Len(mid) /\ j \in 0..Len(mid) /\ u - 1 <= j /\ j <= q /\ ~(j <= u - 1)
        BY <1>1, <2>7
      <3>3. mid[j] = line[cut[j]] /\ cut[j] \in 1..Len(line)
        BY <3>1, <3>2, CutSame
      <3>4. cut[j] <= i /\ ~(cut[j] <= cut[u - 1])
        BY <1>1, <1>2, <2>7, <3>2
      <3>5. cut[j] \in v..i
        <4> HIDE DEF i
        <4> QED BY <1>3, <2>0, <2>7, <3>3, <3>4
      <3> QED BY <1>5, <3>3, <3>5
    <2>9. HiddenBy(mid, c, u, q)
      <3>1. mid[c - 1] = "P" /\ Separator(mid, c) # 0 /\ u = c + Separator(mid, c)
            /\ ValueStops(Separator(mid, c)) = ValueStops(n)
        BY <2>0, <2>3, <2>4, <2>6
      <3> HIDE DEF u
      <3> QED BY <2>4, <2>5, <2>7, <2>8, <3>1 DEF HiddenBy, ValueOf
    <2>10. c \in Nat /\ u \in Nat
      BY <2>4, <2>7
    <2> HIDE DEF u
    <2> QED BY <2>9, <2>10 DEF Hidden
  <1>6. CASE EqualsKey(line, v) /\ Looked(line, v - 1, v) /\ \A j \in v..i : line[j] \notin Delimiter
    <2>1. v > 2 /\ line[v - 2] = "P" /\ line[v - 1] = "="
      BY <1>6 DEF EqualsKey
    <2> DEFINE x == v - 1
    <2>2. x \in Nat /\ x > 1 /\ v = x + 1 /\ x - 1 = v - 2
      <3>1. v > 2 /\ v \in Nat
        BY <2>1
      <3> QED BY <3>1
    <2>3. ValueStops(1) = Delimiter
      BY DEF ValueStops
    <2>4. 1 \in {1, 2} /\ 1 # 2
      OBVIOUS
    <2>5. line[x - 1] = "P" /\ line[x] = "=" /\ Looked(line, x, v)
      BY <1>6, <2>1, <2>2
    <2> HIDE DEF x, i
    <2> QED BY <1>5, <1>6, <2>2, <2>3, <2>4, <2>5
  <1>7. CASE HeaderKey(line, v) /\ Looked(line, v - 2, v) /\ \A j \in v..i : line[j] # "n"
    <2>1. v > 3 /\ line[v - 3] = "P" /\ line[v - 2] = ":" /\ line[v - 1] = " "
      BY <1>7 DEF HeaderKey
    <2> DEFINE x == v - 2
    <2>2. x \in Nat /\ x > 1 /\ v = x + 2 /\ x - 1 = v - 3 /\ x + 1 = v - 1
      <3>1. v > 3
        BY <2>1
      <3>2. v \in Nat
        BY <1>3
      <3> QED BY <3>1, <3>2
    <2>3. \A y : y # "n" => y \notin ValueStops(2)
      BY DEF ValueStops
    <2>4. 2 \in {1, 2} /\ 2 # 1
      OBVIOUS
    <2>5. line[x - 1] = "P" /\ line[x] = ":" /\ line[x + 1] = " " /\ Looked(line, x, v)
      BY <1>7, <2>1, <2>2
    <2>6. \A j \in v..i : line[j] \notin ValueStops(2)
      BY <1>7, <2>3
    <2> HIDE DEF x, i
    <2> QED BY <1>5, <2>2, <2>4, <2>5, <2>6
  <1> QED BY <1>4, <1>6, <1>7

(* What the second scan takes out may go. *)
LEMMA ValueMayGo ==
    ASSUME NEW line \in Seq(Symbols), NEW mid \in Seq(Symbols),
           NEW cut \in Origins(mid, Len(line), SecretParts(line)),
           NEW c \in Nat, NEW p \in 1..Len(mid), NEW q \in p..Len(mid), ValueOf(mid, c, p, q)
    PROVE  MayGo(line, cut[p - 1] + 1, cut[q])
  <1> DEFINE sep == Separator(mid, c)
             i == cut[p - 1] + 1
             k == cut[q]
             a == cut[c - 2]
  <1>1. Len(line) \in Nat /\ Len(mid) \in Nat /\ p \in Nat /\ q \in Nat /\ p - 1 \in 0..Len(mid)
        /\ q \in 0..Len(mid) /\ q \in 1..Len(mid) /\ p - 1 <= q
    OBVIOUS
  <1>2. /\ cut \in [0..Len(mid) -> Nat]
        /\ \A x, y \in 0..Len(mid) : x <= y => cut[x] <= cut[y]
    BY CutFacts
  <1>3. /\ c \in 2..Len(mid) /\ sep # 0 /\ p = c + sep /\ mid[c - 1] = "P"
        /\ \A j \in p..q : mid[j] \notin ValueStops(sep)
    BY DEF ValueOf
  <1>4. c \in 1..Len(mid) /\ c - 1 \in 1..Len(mid) /\ c - 2 \in 0..Len(mid) /\ (c - 1) - 1 = c - 2 /\ c - 2 \in Nat
        /\ sep \in {0, 1, 2}
    <2>1. c \in 2..Len(mid)
      BY <1>3
    <2>2. c \in 1..Len(mid) /\ c - 1 \in 1..Len(mid) /\ c - 2 \in 0..Len(mid) /\ (c - 1) - 1 = c - 2 /\ c - 2 \in Nat
      BY <1>1, <2>1
    <2> QED BY <2>2, SeparatorFacts
  <1>5. a \in Nat /\ i \in Nat /\ k \in Nat
    <2>1. cut[c - 2] \in Nat /\ cut[p - 1] \in Nat /\ cut[q] \in Nat
      BY <1>1, <1>2, <1>4
    <2> QED BY <2>1
  <1>6. cut[c - 1] = a + 1 /\ line[a + 1] = "P"
    <2> DEFINE d == c - 1
    <2>1. d \in 1..Len(mid) /\ mid[d] # "#" /\ mid[d] = "P"
      BY <1>3, <1>4
    <2> HIDE DEF d
    <2>2. cut[d] = cut[d - 1] + 1 /\ mid[d] = line[cut[d]]
      BY <2>1, CutSame
    <2>3. cut[d - 1] = a
      BY <1>4 DEF d
    <2> HIDE DEF a
    <2>4. cut[d] = a + 1 /\ line[a + 1] = "P"
      BY <2>1, <2>2, <2>3
    <2> QED BY <2>4 DEF d
  (* A symbol of the stretch is in a secret or copied. *)
  <1>7. ASSUME NEW j \in i..k
        PROVE  \/ line[j] \notin ValueStops(sep)
               \/ InSecret(line, j, i, k) /\ line[j] # "n"
    <2>1. j \in Nat /\ cut[p - 1] < j /\ j <= cut[q]
      <3>1. cut[p - 1] \in Nat /\ cut[q] \in Nat
        BY <1>1, <1>2
      <3> QED BY <3>1
    <2>2. PICK r \in 1..Len(mid) : p - 1 < r /\ r <= q /\ cut[r - 1] < j /\ j <= cut[r]
      BY <1>1, <2>1, CutCovers
    <2>3. CutAt(line, mid, cut, r)
      BY CutFacts
    <2>4. r \in p..q /\ r - 1 \in 0..Len(mid) /\ p - 1 <= r - 1 /\ r \in 0..Len(mid)
      BY <1>1, <2>2
    <2>5. cut[p - 1] <= cut[r - 1] /\ cut[r] <= cut[q]
      BY <1>1, <1>2, <2>2, <2>4
    <2> DEFINE b == cut[r - 1]
               e == cut[r]
    <2>6. /\ b \in Nat /\ e \in 1..Len(line) /\ b < j /\ j <= e /\ e <= k /\ i <= b + 1
      <3>1. b \in Nat /\ e \in 1..Len(line)
        BY <2>3 DEF CutAt
      <3>2. cut[p - 1] \in Nat /\ cut[p - 1] <= b
        BY <1>1, <1>2, <2>5
      <3>3. b < j /\ j <= e /\ e <= k
        BY <2>2, <2>5
      <3>4. i <= b + 1
        <4> DEFINE x == cut[p - 1]
        <4> HIDE DEF b, x
        <4>1. x \in Nat /\ b \in Nat /\ x <= b
          BY <3>1, <3>2 DEF x
        <4> QED BY <4>1 DEF x
      <3> QED BY <3>1, <3>3, <3>4
    <2>7. CASE e = b + 1 /\ mid[r] = line[e]
      <3>1. j = e
        <4>1. b \in Nat /\ e \in Nat /\ b < j /\ j <= e /\ e = b + 1
          BY <2>6, <2>7
        <4> HIDE DEF b, e
        <4> QED BY <2>1, <4>1
      <3>2. mid[r] \notin ValueStops(sep)
        BY <1>3, <2>4
      <3> QED BY <2>7, <3>1, <3>2
    <2>8. CASE SecretAt(line, b + 1, e)
      <3> HIDE DEF b, e, i, k
      <3>1. j \in (b + 1)..e
        BY <1>1, <2>1, <2>6
      <3>2. line[j] # "n" /\ \A x, y \in Nat : x <= b + 1 /\ e <= y => InSecret(line, j, x, y)
        BY <2>8, <3>1, SecretAtFacts
      <3> QED BY <1>5, <2>6, <3>2
    <2> QED BY <2>3, <2>7, <2>8 DEF CutAt
  <1>8. CASE sep = 1
    <2>1. mid[c] = "=" /\ mid[c] # "#"
      BY <1>4, <1>8, SeparatorFacts
    <2>2. cut[c] = cut[c - 1] + 1 /\ mid[c] = line[cut[c]]
      BY <1>4, <2>1, CutSame
    <2>3. p - 1 = c
      <3>1. p = c + 1 /\ c \in Nat
        BY <1>3, <1>8
      <3> QED BY <3>1
    <2>4. i = a + 3 /\ cut[c] = a + 2
      <3> DEFINE y == cut[c]
      <3>1. y = (a + 1) + 1 /\ i = y + 1
        BY <1>6, <2>2, <2>3
      <3> HIDE DEF a, i, y
      <3> QED BY <1>5, <3>1 DEF y
    <2>5. line[a + 1] = "P" /\ line[a + 2] = "="
      BY <1>6, <2>1, <2>2, <2>4
    <2>6. i > 2 /\ i - 2 = a + 1 /\ i - 1 = a + 2
      <3> HIDE DEF a, i
      <3> QED BY <1>5, <2>4
    <2> HIDE DEF a, i, k, sep
    <2>7. EqualsKey(line, i)
      BY <2>5, <2>6 DEF EqualsKey
    <2>8. \A j \in i..k : line[j] \in Delimiter => InSecret(line, j, i, k)
      BY <1>7, <1>8 DEF ValueStops
    <2>9. MayGo(line, i, k)
      BY <2>7, <2>8 DEF MayGo
    <2> QED BY <2>9 DEF i, k
  <1>9. CASE sep = 2
    <2>1. mid[c] = ":" /\ mid[c] # "#" /\ mid[c + 1] = " " /\ mid[c + 1] # "#"
      BY <1>4, <1>9, SeparatorFacts
    <2>2. cut[c] = cut[c - 1] + 1 /\ mid[c] = line[cut[c]]
      BY <1>4, <2>1, CutSame
    <2>3. p - 1 = c + 1 /\ c + 1 \in 1..Len(mid) /\ (c + 1) - 1 = c
      <3>1. p = c + 2 /\ c \in Nat
        BY <1>3, <1>9
      <3> QED BY <1>1, <3>1
    <2>4. cut[c + 1] = cut[(c + 1) - 1] + 1 /\ mid[c + 1] = line[cut[c + 1]]
      <3> DEFINE d == c + 1
      <3>1. d \in 1..Len(mid) /\ mid[d] # "#"
        BY <2>1, <2>3
      <3> HIDE DEF d
      <3>2. cut[d] = cut[d - 1] + 1 /\ mid[d] = line[cut[d]]
        BY <3>1, CutSame
      <3> QED BY <3>2 DEF d
    <2>5. i = a + 4 /\ cut[c] = a + 2 /\ cut[c + 1] = a + 3
      <3> DEFINE y == cut[c]
                 z == cut[c + 1]
      <3>1. y = (a + 1) + 1 /\ z = y + 1 /\ i = z + 1
        BY <1>6, <2>2, <2>3, <2>4
      <3> HIDE DEF a, i, y, z
      <3> QED BY <1>5, <3>1 DEF y, z
    <2>6. line[a + 1] = "P" /\ line[a + 2] = ":" /\ line[a + 3] = " "
      BY <1>6, <2>1, <2>2, <2>4, <2>5
    <2>7. i > 3 /\ i - 3 = a + 1 /\ i - 2 = a + 2 /\ i - 1 = a + 3
      <3> HIDE DEF a, i
      <3> QED BY <1>5, <2>5
    <2> HIDE DEF a, i, k, sep
    <2>8. HeaderKey(line, i)
      BY <2>6, <2>7 DEF HeaderKey
    <2>9. \A j \in i..k : line[j] # "n"
      BY <1>7, <1>9 DEF ValueStops
    <2>10. MayGo(line, i, k)
      BY <2>8, <2>9 DEF MayGo
    <2> QED BY <2>10 DEF i, k
  <1> QED BY <1>3, <1>4, <1>8, <1>9

(* What redaction may leave and may take. *)
RedactParts(line) ==
    {t \in PartsOf(line) : \/ t[1] = t[2] /\ t[3] = line[t[2]] /\ ~MustGo(line, t[2])
                           \/ t[3] = "#" /\ MayGo(line, t[1], t[2])}

LEMMA ScrubCarries ==
    ASSUME NEW line \in Seq(Symbols), NEW mid \in Seq(Symbols), NEW out \in Seq(Symbols),
           NEW cut \in Origins(mid, Len(line), SecretParts(line))
    PROVE  Carries(mid, out, cut, ScrubParts(mid), RedactParts(line))
  <1> DEFINE T == ScrubParts(mid)
             G == RedactParts(line)
  <1>1. Len(line) \in Nat /\ Len(mid) \in Nat /\ "#" \in Symbols
    BY DEF Symbols
  <1>2. /\ cut \in [0..Len(mid) -> Nat]
        /\ \A i, j \in 0..Len(mid) : i <= j => cut[i] <= cut[j]
        /\ \A q \in 1..Len(mid) : CutAt(line, mid, cut, q)
    BY CutFacts
  <1> SUFFICES ASSUME NEW j \in 1..Len(out), NEW p \in 1..Len(mid), NEW q \in 1..Len(mid),
                      p <= q, <<p, q, out[j]>> \in T
               PROVE  <<cut[p - 1] + 1, cut[q], out[j]>> \in G
    BY DEF Carries
  <1> DEFINE a == cut[p - 1] + 1
             e == cut[q]
             x == out[j]
  <1>3. \/ p = q /\ x = mid[q] /\ ~Hidden(mid, p)
        \/ x = "#" /\ \E c \in Nat : ValueOf(mid, c, p, q)
    BY DEF ScrubParts
  <1>4. a \in Nat /\ e \in Nat /\ 1 <= a /\ a <= e /\ e <= Len(line)
    <2>1. p - 1 \in 0..Len(mid) /\ p \in 0..Len(mid) /\ q \in 0..Len(mid)
      BY <1>1
    <2>2. cut[p - 1] \in Nat /\ cut[p] \in Nat /\ cut[q] \in Nat /\ cut[p] <= cut[q]
      BY <1>2, <2>1
    <2>3. cut[p - 1] < cut[p] /\ cut[q] <= Len(line)
      <3>1. cut[p - 1] < cut[p] /\ cut[q] \in 1..Len(line)
        BY <1>2 DEF CutAt
      <3> QED BY <1>1, <3>1
    <2>4. \A u, v, l \in Nat : u < v /\ v <= l => u + 1 \in Nat /\ 1 <= u + 1 /\ u + 1 <= l
      OBVIOUS
    <2> QED BY <2>2, <2>3, <2>4
  <1>5. \A y \in Symbols : y = "#" /\ MayGo(line, a, e) => <<a, e, y>> \in G
    <2> HIDE DEF a, e
    <2> QED BY <1>4 DEF RedactParts, PartsOf, Part3
  <1>6. \A y \in Symbols : a = e /\ y = line[e] /\ ~MustGo(line, e) => <<a, e, y>> \in G
    <2> HIDE DEF a, e
    <2> QED BY <1>4 DEF RedactParts, PartsOf, Part3
  <1>7. x \in Symbols
    OBVIOUS
  <1>8. CASE p = q /\ x = mid[q] /\ ~Hidden(mid, p)
    <2>1. CutAt(line, mid, cut, q)
      BY <1>2
    <2>2. CASE cut[q] = cut[q - 1] + 1 /\ mid[q] = line[cut[q]]
      <3>1. ~MustGo(line, e)
        BY <1>8, <2>2, MustGoHidden
      <3>2. a = e /\ x = line[e]
        BY <1>8, <2>2
      <3> HIDE DEF a, e, x, G
      <3> QED BY <1>6, <1>7, <3>1, <3>2 DEF a, e, x
    <2>3. CASE mid[q] = "#" /\ SecretAt(line, cut[q - 1] + 1, cut[q])
      <3>1. MayGo(line, a, e)
        BY <1>8, <2>3 DEF SecretAt, MayGo
      <3>2. x = "#"
        BY <1>8, <2>3
      <3> HIDE DEF a, e, x, G
      <3> QED BY <1>5, <1>7, <3>1, <3>2 DEF a, e, x
    <2> QED BY <2>1, <2>2, <2>3 DEF CutAt
  <1>9. CASE x = "#" /\ \E c \in Nat : ValueOf(mid, c, p, q)
    <2>1. PICK c \in Nat : ValueOf(mid, c, p, q)
      BY <1>9
    <2>2. q \in p..Len(mid)
      BY <1>1
    <2>3. MayGo(line, a, e)
      BY <2>1, <2>2, ValueMayGo
    <2> HIDE DEF a, e, x, G
    <2> QED BY <1>5, <1>7, <1>9, <2>3 DEF a, e, x
  <1> QED BY <1>3, <1>8, <1>9

LEMMA Redacted ==
    ASSUME NEW line \in Seq(Symbols)
    PROVE  /\ Redact(line) \in Seq(Symbols)
           /\ Origins(Redact(line), Len(line), RedactParts(line)) # {}
           /\ \A w \in ToSet(Secrets) : ~Occurs(w, Redact(line))
  <1>1. PICK mid \in Seq(Symbols) :
              /\ Redact(line) = Scrub(mid)
              /\ Origins(mid, Len(line), SecretParts(line)) # {}
              /\ \A w \in ToSet(Secrets) : ~Occurs(w, mid)
    BY SecretsReplaced
  <1> DEFINE out == Redact(line)
  <1>2. out \in Seq(Symbols) /\ Origins(out, Len(mid), ScrubParts(mid)) # {}
    BY <1>1, ScrubbedAll
  <1> HIDE DEF out
  <1>3. /\ SecretParts(line) \in SUBSET PartsOf(line) /\ ScrubParts(mid) \in SUBSET PartsOf(mid)
        /\ Len(line) \in Nat /\ Len(mid) \in Nat
    BY DEF SecretParts, ScrubParts
  <1>4. PICK cut \in Origins(mid, Len(line), SecretParts(line)) : TRUE
    BY <1>1
  <1>5. PICK cut2 \in Origins(out, Len(mid), ScrubParts(mid)) : TRUE
    BY <1>2
  <1>6. Carries(mid, out, cut, ScrubParts(mid), RedactParts(line))
    BY <1>2, <1>4, ScrubCarries
  <1>7. Origins(out, Len(line), RedactParts(line)) # {}
    BY <1>2, <1>3, <1>4, <1>5, <1>6, OriginsCompose
  <1>8. \A w \in ToSet(Secrets) : ~Occurs(w, out)
    <2> SUFFICES ASSUME NEW w \in ToSet(Secrets) PROVE ~Occurs(w, out)
      OBVIOUS
    <2>1. w \in Word /\ ~Occurs(w, mid)
      BY <1>1, SecretWords
    <2> QED BY <1>2, <1>3, <2>1, OccursBack
  <1> QED BY <1>2, <1>7, <1>8 DEF out

(* ... which is what the definition says. *)
ReachRun(line, result) ==
    CHOOSE reach : reach = [j \in 0..Len(result) |->
        IF j = 0 THEN {0}
        ELSE LET before == reach[j - 1]
             IN {k \in 1..Len(line) : \E i \in before :
                    \/ k = i + 1 /\ line[k] = result[j] /\ ~MustGo(line, k)
                    \/ result[j] = "#" /\ i < k /\ MayGo(line, i + 1, k)}]
Reached(line, result, j, before) ==
    {k \in 1..Len(line) : \E i \in before :
        \/ k = i + 1 /\ line[k] = result[j] /\ ~MustGo(line, k)
        \/ result[j] = "#" /\ i < k /\ MayGo(line, i + 1, k)}

LEMMA ReachSteps ==
    ASSUME NEW line \in Seq(Symbols), NEW result \in Seq(Symbols)
    PROVE  /\ ReachRun(line, result)[0] = {0}
           /\ (Explains(line, result) <=> Len(line) \in ReachRun(line, result)[Len(result)])
           /\ \A j \in 1..Len(result) :
                 ReachRun(line, result)[j] = Reached(line, result, j, ReachRun(line, result)[j - 1])
  <1> DEFINE n == Len(result)
             A == SUBSET Nat
             start == {0}
             next(j, s) == Reached(line, result, j, s)
             pass == [x \in (1..n) \X A |-> next(x[1], x[2])]
  <1>1. n \in Nat /\ start \in A /\ \A j \in 1..n, s \in A : next(j, s) \in A
    <2>1. n \in Nat /\ start \in A /\ Len(line) \in Nat
      OBVIOUS
    <2>2. \A j, s : next(j, s) \in SUBSET (1..Len(line))
      BY DEF Reached
    <2>3. 1..Len(line) \subseteq Nat
      OBVIOUS
    <2> HIDE DEF next
    <2> QED BY <2>1, <2>2, <2>3
  <1> HIDE DEF next, A, start
  <1>2. \A i \in 1..n, s \in A : pass[<<i, s>>] = next(i, s)
    <2>1. \A i \in 1..n, s \in A : <<i, s>> \in (1..n) \X A
      OBVIOUS
    <2> QED BY <2>1
  <1>3. pass \in StepsOf(n, A)
    <2>1. \A x \in (1..n) \X A : x[1] \in 1..n /\ x[2] \in A
      OBVIOUS
    <2> QED BY <1>1, <2>1 DEF StepsOf
  <1> HIDE DEF pass, n
  <1>4. SolutionsOf(n, A, start, pass) # {}
    BY <1>1, <1>3, Solvable
  <1>5. PICK f \in SolutionsOf(n, A, start, pass) : TRUE
    BY <1>4
  <1>6. f \in [0..n -> A] /\ f[0] = start /\ \A i \in 1..n : f[i] = pass[<<i, f[i - 1]>>]
    BY <1>5 DEF SolutionsOf
  <1>7. \A i \in 1..n : i - 1 \in 0..n
    BY <1>1
  <1>8. \A i \in 1..n : f[i] = next(i, f[i - 1])
    BY <1>2, <1>6, <1>7
  <1>9. f = [k \in 0..n |-> IF k = 0 THEN start ELSE next(k, f[k - 1])]
    <2>1. \A i \in 0..n : i # 0 => i \in 1..n
      BY <1>1
    <2> QED BY <1>6, <1>8, <2>1
  <1> DEFINE g == ReachRun(line, result)
  <1>10. g = [k \in 0..n |-> IF k = 0 THEN start ELSE next(k, g[k - 1])]
    BY <1>9 DEF ReachRun, n, start, next, Reached
  <1>11. Explains(line, result) <=> Len(line) \in g[n]
    BY DEF Explains, ReachRun, n
  <1> HIDE DEF g
  <1>12. g[0] = start
    BY <1>1, <1>10
  <1>13. ASSUME NEW k \in 1..n PROVE g[k] = next(k, g[k - 1])
    <2>1. k \in 0..n /\ k # 0
      BY <1>1
    <2> QED BY <1>10, <2>1
  <1> QED BY <1>11, <1>12, <1>13 DEF n, g, start, next

LEMMA Explained ==
    ASSUME NEW line \in Seq(Symbols), NEW result \in Seq(Symbols),
           NEW cut \in Origins(result, Len(line), RedactParts(line))
    PROVE  Explains(line, result)
  <1> DEFINE g == ReachRun(line, result)
             n == Len(result)
             T == RedactParts(line)
             H == {j \in Nat : j <= n => cut[j] \in g[j]}
  <1>1. n \in Nat /\ Len(line) \in Nat
    OBVIOUS
  <1>2. /\ g[0] = {0} /\ (Explains(line, result) <=> Len(line) \in g[n])
        /\ \A j \in 1..n : g[j] = Reached(line, result, j, g[j - 1])
    BY ReachSteps
  <1>3. T \in SUBSET PartsOf(line)
    BY DEF RedactParts
  <1>4. /\ cut \in [0..n -> Nat] /\ cut[0] = 0 /\ cut[n] = Len(line)
        /\ \A j \in 1..n : /\ <<cut[j - 1] + 1, cut[j], result[j]>> \in T
                           /\ cut[j - 1] < cut[j] /\ cut[j] <= Len(line)
                           /\ j \in 0..n /\ j - 1 \in 0..n
    <2> HIDE DEF T
    <2>1. cut \in Origins(result, Len(line), T)
      BY DEF T
    <2>2. /\ cut \in [0..n -> Nat] /\ cut[0] = 0 /\ cut[n] = Len(line)
        /\ \A j \in 1..n : /\ <<cut[j - 1] + 1, cut[j], result[j]>> \in T
                           /\ j \in 0..n /\ j - 1 \in 0..n
                           /\ cut[j - 1] < cut[j] /\ cut[j] <= Len(line)
      BY <1>1, <1>3, <2>1, OriginsGrow
    <2> QED BY <2>2
  <1>5. ASSUME NEW j \in 1..n, cut[j - 1] \in g[j - 1] PROVE cut[j] \in g[j]
    <2> DEFINE b == cut[j - 1]
               e == cut[j]
    <2>1. b \in Nat /\ e \in Nat /\ b < e /\ e <= Len(line)
      BY <1>4
    <2>2. <<b + 1, e, result[j]>> \in T
      BY <1>4
    <2> HIDE DEF b, e
    <2>3. \/ b + 1 = e /\ result[j] = line[e] /\ ~MustGo(line, e)
          \/ result[j] = "#" /\ MayGo(line, b + 1, e)
      BY <2>2 DEF RedactParts
    <2>4. e \in 1..Len(line)
      BY <1>1, <2>1
    <2>5. b \in g[j - 1]
      BY <1>5 DEF b
    <2>6. e \in Reached(line, result, j, g[j - 1])
      <3> HIDE DEF g
      <3> QED BY <2>1, <2>3, <2>4, <2>5 DEF Reached
    <2> HIDE DEF g
    <2> QED BY <1>2, <2>6 DEF e
  <1> HIDE DEF g, T, n
  <1>6. 0 \in H
    BY <1>2, <1>4
  <1>7. ASSUME NEW j \in Nat, j \in H PROVE j + 1 \in H
    <2> SUFFICES ASSUME j + 1 <= n PROVE cut[j + 1] \in g[j + 1]
      OBVIOUS
    <2>1. j + 1 \in 1..n /\ (j + 1) - 1 = j /\ j <= n
      BY <1>1
    <2>2. cut[j] \in g[j]
      BY <1>7, <2>1
    <2> QED BY <1>5, <2>1, <2>2
  <1> HIDE DEF H
  <1>8. n \in H
    BY <1>1, <1>6, <1>7, Induction
  <1> QED BY <1>1, <1>2, <1>4, <1>8 DEF H

LEMMA RedactExact ==
    ASSUME NEW line \in Seq(Symbols)
    PROVE  Redact(line) \in Seq(Symbols) /\ ExactlyRedacted(line, Redact(line))
  <1> DEFINE out == Redact(line)
  <1>1. /\ out \in Seq(Symbols) /\ Origins(out, Len(line), RedactParts(line)) # {}
        /\ \A w \in ToSet(Secrets) : ~Occurs(w, out)
    BY Redacted
  <1> HIDE DEF out
  <1>2. PICK cut \in Origins(out, Len(line), RedactParts(line)) : TRUE
    BY <1>1
  <1>3. Explains(line, out)
    BY <1>1, <1>2, Explained
  <1> QED BY <1>1, <1>3 DEF ExactlyRedacted, out

------------------------------------------------------------------------------
(* Only what the set says of the elements matters. *)
LEMMA KeptSame ==
    ASSUME NEW S, NEW s \in Seq(S), NEW G, NEW G2,
           \A i \in 1..Len(s) : s[i] \in G <=> s[i] \in G2
    PROVE  Kept(s, G) = Kept(s, G2)
  <1> DEFINE f == KeptRun(s, G)
  <1>1. /\ f \in [0..Len(s) -> Seq(S)] /\ f[0] = <<>> /\ f[Len(s)] = Kept(s, G)
        /\ \A i \in 1..Len(s) :
              f[i] = IF s[i] \in G THEN Append(f[i - 1], s[i]) ELSE f[i - 1]
    BY KeptSteps
  <1> HIDE DEF f
  <1> DEFINE g == KeptRun(s, G2)
  <1>2. /\ g \in [0..Len(s) -> Seq(S)] /\ g[0] = <<>> /\ g[Len(s)] = Kept(s, G2)
        /\ \A i \in 1..Len(s) :
              g[i] = IF s[i] \in G2 THEN Append(g[i - 1], s[i]) ELSE g[i - 1]
    BY KeptSteps
  <1> HIDE DEF g
  <1> DEFINE H == {k \in Nat : k \in 0..Len(s) => g[k] = f[k]}
  <1>3. 0 \in H
    BY <1>1, <1>2
  <1>4. ASSUME NEW k \in Nat, k \in H PROVE k + 1 \in H
    <2> SUFFICES ASSUME k + 1 \in 0..Len(s) PROVE g[k + 1] = f[k + 1]
      OBVIOUS
    <2>1. k \in 0..Len(s) /\ k + 1 \in 1..Len(s) /\ (k + 1) - 1 = k
      OBVIOUS
    <2>2. s[k + 1] \in G <=> s[k + 1] \in G2
      BY <2>1
    <2>3. /\ f[k + 1] = IF s[k + 1] \in G THEN Append(f[k], s[k + 1]) ELSE f[k]
          /\ g[k + 1] = IF s[k + 1] \in G2 THEN Append(g[k], s[k + 1]) ELSE g[k]
      BY <1>1, <1>2, <2>1
    <2> QED BY <1>4, <2>1, <2>2, <2>3
  <1> HIDE DEF H
  <1>5. Len(s) \in Nat /\ Len(s) \in 0..Len(s)
    OBVIOUS
  <1>6. Len(s) \in H
    BY <1>3, <1>4, <1>5, Induction
  <1> QED BY <1>1, <1>2, <1>5, <1>6 DEF H

LEMMA KeptConcat ==
    ASSUME NEW S, NEW s \in Seq(S), NEW t \in Seq(S), NEW G
    PROVE  Kept(s \o t, G) = Kept(s, G) \o Kept(t, G)
  <1> DEFINE H == {k \in Nat : k \in 0..Len(t) =>
                      Kept(s \o SubSeq(t, 1, k), G) = Kept(s, G) \o Kept(SubSeq(t, 1, k), G)}
  <1>0. \A b \in Seq(S) : b \o <<>> = b
    OBVIOUS
  <1>1. 0 \in H
    <2>1. SubSeq(t, 1, 0) = <<>> /\ s \o <<>> = s
      OBVIOUS
    <2>2. Kept(<<>>, G) = <<>> /\ Kept(s, G) \in Seq(S)
      BY KeptEmpty, KeptType
    <2> QED BY <1>0, <2>1, <2>2
  <1>2. ASSUME NEW k \in Nat, k \in H PROVE k + 1 \in H
    <2> SUFFICES ASSUME k + 1 \in 0..Len(t)
                 PROVE  Kept(s \o SubSeq(t, 1, k + 1), G) = Kept(s, G) \o Kept(SubSeq(t, 1, k + 1), G)
      OBVIOUS
    <2> DEFINE front == SubSeq(t, 1, k)
               e == t[k + 1]
    <2>1. k \in 0..Len(t) /\ k + 1 \in 1..Len(t) /\ e \in S /\ front \in Seq(S)
      OBVIOUS
    <2>2. SubSeq(t, 1, k + 1) = Append(front, e)
      OBVIOUS
    <2> HIDE DEF e
    <2>3. Kept(s \o front, G) = Kept(s, G) \o Kept(front, G)
      BY <1>2, <2>1
    <2> HIDE DEF front
    <2>4. s \o Append(front, e) = Append(s \o front, e) /\ s \o front \in Seq(S)
      BY <2>1
    <2>5. Kept(Append(s \o front, e), G) =
             IF e \in G THEN Append(Kept(s \o front, G), e) ELSE Kept(s \o front, G)
      BY <2>1, <2>4, KeptAppend
    <2>6. Kept(Append(front, e), G) = IF e \in G THEN Append(Kept(front, G), e) ELSE Kept(front, G)
      BY <2>1, KeptAppend
    <2>7. Kept(s, G) \in Seq(S) /\ Kept(front, G) \in Seq(S)
      BY <2>1, KeptType
    <2>8. \A b, c \in Seq(S) : Append(b \o c, e) = b \o Append(c, e)
      <3>1. \A b \in Seq(S) : Append(b, e) = b \o <<e>>
        BY <2>1
      <3>2. <<e>> \in Seq(S)
        BY <2>1
      <3>3. \A b, c, d \in Seq(S) : (b \o c) \o d = b \o (c \o d)
        OBVIOUS
      <3>4. \A b, c \in Seq(S) : b \o c \in Seq(S)
        OBVIOUS
      <3> SUFFICES ASSUME NEW b \in Seq(S), NEW c \in Seq(S) PROVE Append(b \o c, e) = b \o Append(c, e)
        OBVIOUS
      <3>5. Append(b \o c, e) = (b \o c) \o <<e>>
        BY <3>1, <3>4
      <3>6. (b \o c) \o <<e>> = b \o (c \o <<e>>)
        BY ONLY b \in Seq(S), c \in Seq(S), <3>2, <3>3
      <3>7. Append(c, e) = c \o <<e>>
        BY <3>1
      <3> QED BY <3>5, <3>6, <3>7
    <2>9. Append(Kept(s, G) \o Kept(front, G), e) = Kept(s, G) \o Append(Kept(front, G), e)
      BY <2>7, <2>8
    <2> QED BY <2>2, <2>3, <2>4, <2>5, <2>6, <2>9
  <1> HIDE DEF H
  <1>3. Len(t) \in H
    <2>1. Len(t) \in Nat
      OBVIOUS
    <2> QED BY <1>1, <1>2, <2>1, Induction
  <1>4. SubSeq(t, 1, Len(t)) = t /\ Len(t) \in Nat /\ Len(t) \in 0..Len(t)
    OBVIOUS
  <1> QED BY <1>3, <1>4 DEF H

(* What is kept is what is there and among those to keep. *)
LEMMA KeptMembers ==
    ASSUME NEW S, NEW s \in Seq(S), NEW G
    PROVE  ToSet(Kept(s, G)) = ToSet(s) \cap G
  <1> DEFINE H == {k \in Nat : k \in 0..Len(s) =>
                      ToSet(Kept(SubSeq(s, 1, k), G)) = ToSet(SubSeq(s, 1, k)) \cap G}
  <1>0. ASSUME NEW b \in Seq(S), NEW e \in S PROVE ToSet(Append(b, e)) = ToSet(b) \cup {e}
    <2>1. \A i \in DOMAIN Append(b, e) : Append(b, e)[i] = IF i = Len(b) + 1 THEN e ELSE b[i]
      OBVIOUS
    <2>2. DOMAIN b = 1..Len(b) /\ DOMAIN Append(b, e) = 1..Len(b) + 1
      OBVIOUS
    <2>3. Len(b) \in Nat
      OBVIOUS
    <2>4. \A i \in 1..Len(b) : i \in 1..Len(b) + 1 /\ i # Len(b) + 1
      BY <2>3
    <2>5. Len(b) + 1 \in 1..Len(b) + 1 /\ \A i \in 1..Len(b) + 1 : i # Len(b) + 1 => i \in 1..Len(b)
      BY <2>3
    <2> HIDE DEF H
    <2>6. ToSet(b) = {b[i] : i \in 1..Len(b)}
      BY <2>2 DEF ToSet
    <2>7. ToSet(Append(b, e)) = {Append(b, e)[i] : i \in 1..Len(b) + 1}
      BY <2>2 DEF ToSet
    <2>8. ASSUME NEW x \in ToSet(Append(b, e)) PROVE x \in ToSet(b) \cup {e}
      BY <2>1, <2>2, <2>5, <2>6, <2>7, <2>8
    <2>9. ASSUME NEW x \in ToSet(b) \cup {e} PROVE x \in ToSet(Append(b, e))
      BY <2>1, <2>2, <2>4, <2>5, <2>6, <2>7, <2>9
    <2> QED BY <2>8, <2>9
  <1>1. 0 \in H
    <2>1. SubSeq(s, 1, 0) = <<>> /\ DOMAIN <<>> = {}
      OBVIOUS
    <2>2. Kept(<<>>, G) = <<>> /\ ToSet(<<>>) = {}
      BY <2>1, KeptEmpty DEF ToSet
    <2> QED BY <2>1, <2>2
  <1>2. ASSUME NEW k \in Nat, k \in H PROVE k + 1 \in H
    <2> SUFFICES ASSUME k + 1 \in 0..Len(s)
                 PROVE  ToSet(Kept(SubSeq(s, 1, k + 1), G)) = ToSet(SubSeq(s, 1, k + 1)) \cap G
      OBVIOUS
    <2> DEFINE front == SubSeq(s, 1, k)
               e == s[k + 1]
    <2>1. k \in 0..Len(s) /\ k + 1 \in 1..Len(s) /\ e \in S /\ front \in Seq(S)
      OBVIOUS
    <2>2. SubSeq(s, 1, k + 1) = Append(front, e)
      OBVIOUS
    <2> HIDE DEF e
    <2>3. ToSet(Kept(front, G)) = ToSet(front) \cap G
      BY <1>2, <2>1
    <2> HIDE DEF front
    <2>4. Kept(Append(front, e), G) = IF e \in G THEN Append(Kept(front, G), e) ELSE Kept(front, G)
      BY <2>1, KeptAppend
    <2>5. Kept(front, G) \in Seq(S)
      BY <2>1, KeptType
    <2>6. ToSet(Append(front, e)) = ToSet(front) \cup {e}
      BY <1>0, <2>1
    <2>7. ToSet(Append(Kept(front, G), e)) = ToSet(Kept(front, G)) \cup {e}
      BY <1>0, <2>1, <2>5
    <2> QED BY <2>2, <2>3, <2>4, <2>6, <2>7
  <1> HIDE DEF H
  <1>3. Len(s) \in H
    <2>1. Len(s) \in Nat
      OBVIOUS
    <2> QED BY <1>1, <1>2, <2>1, Induction
  <1>4. SubSeq(s, 1, Len(s)) = s /\ Len(s) \in Nat /\ Len(s) \in 0..Len(s)
    OBVIOUS
  <1> QED BY <1>3, <1>4 DEF H

(* Positions that are kept stay in their order. *)
LEMMA KeptPositions ==
    ASSUME NEW n \in Nat, NEW G \in SUBSET (1..n), NEW p, p = Kept([i \in 1..n |-> i], G)
    PROVE  /\ p \in Seq(1..n) /\ ToSet(p) = G
           /\ \A i, j \in 1..Len(p) : i < j => p[i] < p[j]
  <1> DEFINE all(m) == [i \in 1..m |-> i]
             Ordered(q) == \A i, j \in 1..Len(q) : i < j => q[i] < q[j]
             H == {m \in Nat : Ordered(Kept(all(m), G))}
  <1>0. \A m \in Nat : all(m) \in Seq(1..m) /\ Len(all(m)) = m /\ ToSet(all(m)) = 1..m
    BY DEF ToSet
  <1>1. 0 \in H
    <2>1. all(0) = <<>> /\ 1..Len(<<>>) = {}
      OBVIOUS
    <2>2. Kept(all(0), G) = <<>>
      BY <2>1, KeptEmpty
    <2> HIDE DEF all
    <2> QED BY <2>1, <2>2
  <1>2. ASSUME NEW m \in Nat, m \in H PROVE m + 1 \in H
    <2>1. all(m + 1) = Append(all(m), m + 1)
      OBVIOUS
    <2> DEFINE M == Nat
    <2>2. all(m) \in Seq(M) /\ m + 1 \in M
      OBVIOUS
    <2> DEFINE q == Kept(all(m), G)
    <2> HIDE DEF all, M
    <2>3. Kept(Append(all(m), m + 1), G) = IF m + 1 \in G THEN Append(q, m + 1) ELSE q
      <3>1. ASSUME NEW a \in Seq(M), NEW e \in M
            PROVE  Kept(Append(a, e), G) = IF e \in G THEN Append(Kept(a, G), e) ELSE Kept(a, G)
        BY KeptAppend
      <3> QED BY <2>2, <3>1
    <2>4. q \in Seq(M)
      BY <2>2, KeptType
    <2>5. ToSet(q) \subseteq 1..m
      <3>1. ToSet(q) = ToSet(all(m)) \cap G
        BY <2>2, KeptMembers
      <3>2. ToSet(all(m)) = 1..m
        BY <1>0
      <3> QED BY <3>1, <3>2
    <2>6. Ordered(q)
      BY <1>2
    <2> HIDE DEF q
    <2>7. \A i \in 1..Len(q) : q[i] \in 1..m
      BY <2>4, <2>5 DEF ToSet
    <2>8. Ordered(Append(q, m + 1))
      <3>1. Len(Append(q, m + 1)) = Len(q) + 1
            /\ \A i \in 1..Len(q) + 1 : Append(q, m + 1)[i] = IF i = Len(q) + 1 THEN m + 1 ELSE q[i]
        BY <2>4
      <3>2. ASSUME NEW i \in 1..Len(q) + 1, NEW j \in 1..Len(q) + 1, i < j
            PROVE  Append(q, m + 1)[i] < Append(q, m + 1)[j]
        <4>1. i \in 1..Len(q) /\ Append(q, m + 1)[i] = q[i] /\ q[i] \in 1..m
          BY <2>4, <2>7, <3>1, <3>2
        <4>2. CASE j = Len(q) + 1
          BY <3>1, <4>1, <4>2
        <4>3. CASE j # Len(q) + 1
          <5>1. j \in 1..Len(q) /\ Append(q, m + 1)[j] = q[j]
            BY <2>4, <3>1, <4>3
          <5> QED BY <2>6, <3>2, <4>1, <5>1
        <4> QED BY <4>2, <4>3
      <3> QED BY <3>1, <3>2
    <2>9. Ordered(Kept(all(m + 1), G))
      BY <2>1, <2>3, <2>6, <2>8
    <2> QED BY <2>9
  <1>3. n \in H
    <2> HIDE DEF H
    <2> QED BY <1>1, <1>2, Induction
  <1>4. p = Kept(all(n), G) /\ Ordered(p)
    BY <1>3
  <1> HIDE DEF all
  <1>5. all(n) \in Seq(1..n) /\ ToSet(all(n)) = 1..n
    BY <1>0
  <1>6. p \in Seq(1..n)
    BY <1>4, <1>5, KeptType
  <1>7. ToSet(p) = ToSet(all(n)) \cap G
    BY <1>4, <1>5, KeptMembers
  <1> QED BY <1>4, <1>5, <1>6, <1>7

(* Where the lines of a text end: in order, and wherever there is a line
   break. *)
LEMMA EndsOfLines ==
    ASSUME NEW S, NEW text \in Seq(S)
    PROVE  /\ Ends(text) \in Seq(1..Len(text))
           /\ ToSet(Ends(text)) = {i \in 1..Len(text) : text[i] = "n"}
           /\ \A i, j \in 1..Len(Ends(text)) : i < j => Ends(text)[i] < Ends(text)[j]
  <1> DEFINE n == Len(text)
             G == {i \in 1..n : text[i] = "n"}
  <1>1. DOMAIN text = 1..n /\ n \in Nat /\ G \in SUBSET (1..n)
    OBVIOUS
  <1>2. Ends(text) = Kept([i \in 1..n |-> i], G)
    BY <1>1 DEF Ends
  <1> HIDE DEF n, G
  <1>3. ASSUME NEW m \in Nat, NEW P \in SUBSET (1..m), NEW p, p = Kept([i \in 1..m |-> i], P)
        PROVE  /\ p \in Seq(1..m) /\ ToSet(p) = P
               /\ \A i, j \in 1..Len(p) : i < j => p[i] < p[j]
    BY <1>3, KeptPositions
  <1>4. /\ Ends(text) \in Seq(1..n) /\ ToSet(Ends(text)) = G
        /\ \A i, j \in 1..Len(Ends(text)) : i < j => Ends(text)[i] < Ends(text)[j]
    BY <1>1, <1>2, <1>3
  <1> QED BY <1>4 DEF n, G

LEMMA LineBreaks ==
    ASSUME NEW S, NEW text \in Seq(S), NEW i \in 0..Len(Ends(text))
    PROVE  /\ LineBreak(text, i) \in 0..Len(text)
           /\ i > 0 => LineBreak(text, i - 1) < LineBreak(text, i)
  <1>1. Ends(text) \in Seq(1..Len(text)) /\ Len(Ends(text)) \in Nat /\ Len(text) \in Nat
    BY EndsOfLines
  <1>2. \A j \in 1..Len(Ends(text)) : Ends(text)[j] \in 1..Len(text)
    BY <1>1
  <1>3. i > 0 => i \in 1..Len(Ends(text)) /\ (i - 1 = 0 \/ i - 1 \in 1..Len(Ends(text)))
    BY <1>1
  <1>4. LineBreak(text, i) \in 0..Len(text)
    BY <1>1, <1>2, <1>3 DEF LineBreak
  <1>5. ASSUME i > 0 PROVE LineBreak(text, i - 1) < LineBreak(text, i)
    <2>1. CASE i - 1 = 0
      BY <1>2, <1>3, <1>5, <2>1 DEF LineBreak
    <2>2. CASE i - 1 # 0
      <3>1. i - 1 \in 1..Len(Ends(text)) /\ i \in 1..Len(Ends(text)) /\ i - 1 < i
        BY <1>1, <1>3, <1>5, <2>2
      <3>2. \A j, k \in 1..Len(Ends(text)) : j < k => Ends(text)[j] < Ends(text)[k]
        BY EndsOfLines
      <3>3. Ends(text)[i - 1] < Ends(text)[i]
        BY <3>1, <3>2
      <3> QED BY <1>5, <2>2, <3>3 DEF LineBreak
    <2> QED BY <2>1, <2>2
  <1> QED BY <1>4, <1>5

(* The lines of a text, one after the other, are the text up to the end of the
   last of them. *)
LEMMA LinesAreText ==
    ASSUME NEW S, NEW text \in Seq(S), NEW n \in 0..Len(Ends(text))
    PROVE  /\ Lines(text, n) \in Seq([text : Seq(S), flushed : BOOLEAN])
           /\ TextOf(Lines(text, n)) = SubSeq(text, 1, LineBreak(text, n))
  <1> DEFINE upTo(k) == [i \in 1..k |-> Line(text, i)]
             H == {k \in Nat : k \in 0..Len(Ends(text)) =>
                      FlattenSeq(upTo(k)) = SubSeq(text, 1, LineBreak(text, k))}
  <1>1. Len(Ends(text)) \in Nat /\ Len(text) \in Nat
    BY EndsOfLines
  <1>2. ASSUME NEW i \in 1..Len(Ends(text)) PROVE Line(text, i) \in Seq(S)
    <2>1. i \in 0..Len(Ends(text)) /\ i - 1 \in 0..Len(Ends(text))
      BY <1>1
    <2>2. LineBreak(text, i - 1) \in 0..Len(text) /\ LineBreak(text, i) \in 0..Len(text)
      BY <2>1, LineBreaks
    <2>3. \A b, e \in 0..Len(text) : SubSeq(text, b + 1, e) \in Seq(S)
      OBVIOUS
    <2> QED BY <2>2, <2>3 DEF Line
  <1>3. ASSUME NEW k \in 0..Len(Ends(text)) PROVE upTo(k) \in Seq(Seq(S))
    <2>1. \A i \in 1..k : i \in 1..Len(Ends(text))
      BY <1>1
    <2>2. \A i \in 1..k : Line(text, i) \in Seq(S)
      BY <1>2, <2>1
    <2> QED BY <1>1, <2>2
  <1>4. 0 \in H
    <2>1. upTo(0) = <<>> /\ LineBreak(text, 0) = 0 /\ SubSeq(text, 1, 0) = <<>> /\ Len(<<>>) = 0
      BY DEF LineBreak
    <2>2. FlattenSeq(<<>>) = <<>>
      BY <2>1 DEF FlattenSeq
    <2> QED BY <2>1, <2>2
  <1>5. ASSUME NEW k \in Nat, k \in H PROVE k + 1 \in H
    <2> SUFFICES ASSUME k + 1 \in 0..Len(Ends(text))
                 PROVE  FlattenSeq(upTo(k + 1)) = SubSeq(text, 1, LineBreak(text, k + 1))
      OBVIOUS
    <2>1. k \in 0..Len(Ends(text)) /\ k + 1 \in 1..Len(Ends(text)) /\ (k + 1) - 1 = k /\ k + 1 > 0
      BY <1>1
    <2>2. Line(text, k + 1) \in Seq(S) /\ upTo(k) \in Seq(Seq(S))
      BY <1>2, <1>3, <2>1
    <2>3. upTo(k + 1) = Append(upTo(k), Line(text, k + 1))
      OBVIOUS
    <2>4. FlattenSeq(upTo(k)) = SubSeq(text, 1, LineBreak(text, k))
      BY <1>5, <2>1
    <2> HIDE DEF upTo
    <2>5. FlattenSeq(upTo(k + 1)) = FlattenSeq(upTo(k)) \o Line(text, k + 1)
      BY <2>2, <2>3, FlattenAppend
    <2>6. /\ LineBreak(text, k) \in 0..Len(text) /\ LineBreak(text, k + 1) \in 0..Len(text)
          /\ LineBreak(text, k) < LineBreak(text, k + 1)
      BY <2>1, LineBreaks
    <2>7. \A b, e \in 0..Len(text) : b < e =>
             SubSeq(text, 1, b) \o SubSeq(text, b + 1, e) = SubSeq(text, 1, e)
      OBVIOUS
    <2>8. Line(text, k + 1) = SubSeq(text, LineBreak(text, k) + 1, LineBreak(text, k + 1))
      BY <2>1 DEF Line
    <2>9. SubSeq(text, 1, LineBreak(text, k)) \o Line(text, k + 1) = SubSeq(text, 1, LineBreak(text, k + 1))
      BY <2>6, <2>7, <2>8
    <2> QED BY <2>4, <2>5, <2>9
  <1>6. n \in H
    <2> HIDE DEF H
    <2>1. n \in Nat
      BY <1>1
    <2> QED BY <1>4, <1>5, <2>1, Induction
  <1>7. Lines(text, n) \in Seq([text : Seq(S), flushed : BOOLEAN])
    <2>1. \A i \in 1..n : i \in 1..Len(Ends(text))
      BY <1>1
    <2>2. \A i \in 1..n : Piece(Line(text, i), FALSE) \in [text : Seq(S), flushed : BOOLEAN]
      BY <1>2, <2>1 DEF Piece
    <2>3. n \in Nat
      BY <1>1
    <2> DEFINE P == [text : Seq(S), flushed : BOOLEAN]
               f == [i \in 1..n |-> Piece(Line(text, i), FALSE)]
    <2>4. f \in [1..n -> P]
      BY <2>2
    <2> HIDE DEF P, f
    <2>5. f \in Seq(P)
      BY <2>3, <2>4, SequenceOf
    <2> QED BY <2>5 DEF Lines, P, f
  <1>8. TextOf(Lines(text, n)) = FlattenSeq(upTo(n))
    <2>1. DOMAIN Lines(text, n) = 1..n /\ \A i \in 1..n : Lines(text, n)[i].text = Line(text, i)
      BY DEF Lines, Piece
    <2>2. [i \in DOMAIN Lines(text, n) |-> Lines(text, n)[i].text] = upTo(n)
      BY <2>1
    <2> QED BY <2>2 DEF TextOf
  <1> QED BY <1>6, <1>7, <1>8

(* The texts of pieces and of entries. *)
TextsIn(s) == [i \in DOMAIN s |-> s[i].text]

LEMMA TextsInSeq ==
    ASSUME NEW P, NEW s \in Seq(P)
    PROVE  /\ TextsIn(s) \in Seq({x.text : x \in P}) /\ Len(TextsIn(s)) = Len(s)
           /\ \A i \in 1..Len(s) : TextsIn(s)[i] = s[i].text
  <1> DEFINE T == {x.text : x \in P}
  <1>1. DOMAIN s = 1..Len(s) /\ Len(s) \in Nat /\ \A i \in 1..Len(s) : s[i] \in P
    OBVIOUS
  <1>2. TextsIn(s) \in [1..Len(s) -> T]
    BY <1>1 DEF TextsIn
  <1>3. \A i \in 1..Len(s) : TextsIn(s)[i] = s[i].text
    BY <1>1 DEF TextsIn
  <1> HIDE DEF T
  <1>4. TextsIn(s) \in Seq(T) /\ Len(TextsIn(s)) = Len(s)
    BY <1>1, <1>2, SequenceOf
  <1> QED BY <1>3, <1>4 DEF T

LEMMA TextsInConcat ==
    ASSUME NEW P, NEW p \in Seq(P), NEW q \in Seq(P)
    PROVE  TextsIn(p \o q) = TextsIn(p) \o TextsIn(q)
  <1> DEFINE T == {x.text : x \in P}
             r == p \o q
  <1>1. Len(p) \in Nat /\ Len(q) \in Nat
    OBVIOUS
  <1>2. /\ r \in Seq(P) /\ Len(r) = Len(p) + Len(q)
        /\ \A i \in 1..Len(p) + Len(q) : r[i] = IF i <= Len(p) THEN p[i] ELSE q[i - Len(p)]
    BY ConcatProperties
  <1> HIDE DEF r
  <1>3. /\ TextsIn(r) \in Seq(T) /\ TextsIn(p) \in Seq(T) /\ TextsIn(q) \in Seq(T)
        /\ Len(TextsIn(r)) = Len(r) /\ Len(TextsIn(p)) = Len(p) /\ Len(TextsIn(q)) = Len(q)
        /\ \A i \in 1..Len(r) : TextsIn(r)[i] = r[i].text
        /\ \A i \in 1..Len(p) : TextsIn(p)[i] = p[i].text
        /\ \A i \in 1..Len(q) : TextsIn(q)[i] = q[i].text
    BY <1>2, TextsInSeq
  <1> HIDE DEF T
  <1>4. ASSUME NEW i \in 1..Len(TextsIn(p)) PROVE TextsIn(r)[i] = TextsIn(p)[i]
    <2>1. i \in 1..Len(p) /\ i \in 1..Len(p) + Len(q) /\ i <= Len(p)
      BY <1>1, <1>3
    <2> QED BY <1>2, <1>3, <2>1
  <1>5. ASSUME NEW i \in 1..Len(TextsIn(q)) PROVE TextsIn(r)[Len(TextsIn(p)) + i] = TextsIn(q)[i]
    <2>1. /\ i \in 1..Len(q) /\ Len(p) + i \in 1..Len(p) + Len(q)
          /\ ~(Len(p) + i <= Len(p)) /\ (Len(p) + i) - Len(p) = i
      BY <1>1, <1>3
    <2> QED BY <1>2, <1>3, <2>1
  <1>6. ASSUME NEW u \in Seq(T), NEW v \in Seq(T), NEW w \in Seq(T), Len(w) = Len(u) + Len(v),
               \A i \in 1..Len(u) : w[i] = u[i], \A i \in 1..Len(v) : w[Len(u) + i] = v[i]
        PROVE  w = u \o v
    BY <1>6, ConcatPointwise
  <1>7. Len(TextsIn(r)) = Len(TextsIn(p)) + Len(TextsIn(q))
    BY <1>2, <1>3
  <1> QED BY <1>3, <1>4, <1>5, <1>6, <1>7 DEF r

LEMMA TextOfConcat ==
    ASSUME NEW S, NEW p \in Seq([text : Seq(S), flushed : BOOLEAN]),
           NEW q \in Seq([text : Seq(S), flushed : BOOLEAN])
    PROVE  TextOf(p) \in Seq(S) /\ TextOf(p \o q) = TextOf(p) \o TextOf(q)
  <1> DEFINE P == [text : Seq(S), flushed : BOOLEAN]
             T == Seq(S)
  <1>1. {x.text : x \in P} = T
    <2>1. \A t \in T : [text |-> t, flushed |-> TRUE] \in P /\ [text |-> t, flushed |-> TRUE].text = t
      OBVIOUS
    <2> QED BY <2>1
  <1>2. p \in Seq(P) /\ q \in Seq(P)
    OBVIOUS
  <1> HIDE DEF P
  <1>3. /\ TextsIn(p) \in Seq({x.text : x \in P}) /\ TextsIn(q) \in Seq({x.text : x \in P})
        /\ TextsIn(p \o q) = TextsIn(p) \o TextsIn(q)
    BY <1>2, TextsInSeq, TextsInConcat
  <1>4. TextsIn(p) \in Seq(Seq(S)) /\ TextsIn(q) \in Seq(Seq(S))
    BY <1>1, <1>3
  <1>5. TextOf(p) = FlattenSeq(TextsIn(p)) /\ TextOf(q) = FlattenSeq(TextsIn(q))
        /\ TextOf(p \o q) = FlattenSeq(TextsIn(p \o q))
    BY DEF TextOf, TextsIn
  <1>6. FlattenSeq(TextsIn(p)) \in Seq(S)
    BY <1>4, FlattenType
  <1>7. FlattenSeq(TextsIn(p) \o TextsIn(q)) = FlattenSeq(TextsIn(p)) \o FlattenSeq(TextsIn(q))
    BY <1>4, FlattenConcat
  <1> QED BY <1>3, <1>5, <1>6, <1>7

(* ... and those of the latest entries. *)
LEMMA TextsOfLatest ==
    ASSUME NEW P, NEW s \in Seq(P), NEW c \in Nat
    PROVE  Latest(c, s) \in Seq(P) /\ TextsIn(Latest(c, s)) = Latest(c, TextsIn(s))
  <1> DEFINE T == {x.text : x \in P}
             from == IF Len(s) > c THEN Len(s) - c + 1 ELSE 1
             l == SubSeq(s, from, Len(s))
             k == SubSeq(TextsIn(s), from, Len(s))
             size == Len(s) - from + 1
  <1>1. Len(s) \in Nat /\ from \in 1..Len(s) + 1 /\ Len(s) \in (from - 1)..Len(s)
    OBVIOUS
  <1>2. /\ TextsIn(s) \in Seq(T) /\ Len(TextsIn(s)) = Len(s)
        /\ \A i \in 1..Len(s) : TextsIn(s)[i] = s[i].text
    BY TextsInSeq
  <1>3. Latest(c, s) = l /\ Latest(c, TextsIn(s)) = k
    BY <1>2 DEF Latest
  <1> HIDE DEF from, T
  <1>4. /\ l \in Seq(P) /\ Len(l) = size
        /\ \A i \in 1..size : l[i] = s[from + i - 1] /\ from + i - 1 \in from..Len(s)
    BY <1>1, PartOfSeq
  <1>5. /\ k \in Seq(T) /\ Len(k) = size
        /\ \A i \in 1..size : k[i] = TextsIn(s)[from + i - 1]
    BY <1>1, <1>2, PartOfSeq
  <1> HIDE DEF l, k
  <1>6. /\ TextsIn(l) \in Seq(T) /\ Len(TextsIn(l)) = size
        /\ \A i \in 1..size : TextsIn(l)[i] = l[i].text
    BY <1>4, TextsInSeq DEF T
  <1>7. ASSUME NEW i \in 1..size PROVE TextsIn(l)[i] = k[i]
    <2>1. from + i - 1 \in from..Len(s)
      BY <1>4
    <2>2. from + i - 1 \in 1..Len(s)
      BY <1>1, <2>1
    <2> QED BY <1>2, <1>4, <1>5, <1>6, <2>2
  <1> HIDE DEF size
  <1>8. TextsIn(l) = k
    BY <1>5, <1>6, <1>7, SeqEqual
  <1> QED BY <1>3, <1>4, <1>8

(* The buffer keeps the latest of what it had and what is new, which are the
   latest of all. *)
LEMMA LatestOfLatest ==
    ASSUME NEW S, NEW a \in Seq(S), NEW b \in Seq(S), NEW c \in Nat
    PROVE  /\ Latest(c, a) \in Seq(S)
           /\ Latest(c, Latest(c, a) \o b) = Latest(c, a \o b)
  <1> DEFINE from(n) == IF n > c THEN n - c + 1 ELSE 1
             l == Latest(c, a)
             d == from(Len(a)) - 1
             x == l \o b
             y == a \o b
  <1>1. /\ Len(a) \in Nat /\ Len(b) \in Nat /\ d \in Nat
        /\ from(Len(a)) \in 1..Len(a) + 1 /\ Len(a) \in (from(Len(a)) - 1)..Len(a)
    OBVIOUS
  <1>2. /\ l \in Seq(S) /\ Len(l) = Len(a) - d
        /\ \A i \in 1..Len(l) : l[i] = a[i + d]
    <2> DEFINE m == from(Len(a))
    <2>1. l = SubSeq(a, m, Len(a))
      BY DEF Latest
    <2>2. m \in 1..Len(a) + 1 /\ Len(a) \in (m - 1)..Len(a) /\ m - 1 = d
      BY <1>1
    <2> HIDE DEF m, l, d
    <2>3. /\ l \in Seq(S) /\ Len(l) = Len(a) - m + 1
          /\ \A i \in 1..(Len(a) - m + 1) : l[i] = a[m + i - 1]
      BY <2>1, <2>2, PartOfSeq
    <2>4. Len(l) = Len(a) - d /\ \A i \in 1..Len(l) : m + i - 1 = i + d
      BY <1>1, <2>2, <2>3
    <2> QED BY <2>3, <2>4
  <1> HIDE DEF l
  <1>3. /\ x \in Seq(S) /\ Len(x) = Len(l) + Len(b)
        /\ \A i \in 1..Len(l) + Len(b) : x[i] = IF i <= Len(l) THEN l[i] ELSE b[i - Len(l)]
    BY <1>2, ConcatProperties
  <1>4. /\ y \in Seq(S) /\ Len(y) = Len(a) + Len(b)
        /\ \A i \in 1..Len(a) + Len(b) : y[i] = IF i <= Len(a) THEN a[i] ELSE b[i - Len(a)]
    BY ConcatProperties
  <1>5. Len(l) \in Nat /\ Len(x) + d = Len(y)
    BY <1>1, <1>2, <1>3, <1>4
  <1>6. from(Len(x)) + d = from(Len(y)) /\ from(Len(x)) \in 1..Len(x) + 1
    <2>1. CASE Len(a) > c
      <3>1. d = Len(a) - c /\ Len(l) = c /\ Len(x) = c + Len(b) /\ Len(y) = Len(a) + Len(b)
        BY <1>1, <1>2, <1>3, <1>4, <2>1
      <3> HIDE DEF d, x, y, l
      <3> QED BY <1>1, <2>1, <3>1
    <2>2. CASE ~(Len(a) > c)
      <3>1. d = 0 /\ Len(x) = Len(y) /\ Len(x) \in Nat
        BY <1>1, <1>2, <1>3, <1>4, <2>2
      <3> HIDE DEF d, x, y, l
      <3> QED BY <3>1
    <2> QED BY <2>1, <2>2
  <1> HIDE DEF x, y
  <1>7. ASSUME NEW i \in 1..Len(x) PROVE i + d \in 1..Len(y) /\ x[i] = y[i + d]
    <2> HIDE DEF d
    <2>1. i + d \in 1..Len(a) + Len(b) /\ i \in 1..Len(l) + Len(b) /\ i + d \in 1..Len(y)
      <3>1. /\ Len(a) \in Nat /\ Len(b) \in Nat /\ d \in Nat /\ Len(l) \in Nat
            /\ Len(l) = Len(a) - d /\ Len(x) = Len(l) + Len(b) /\ Len(y) = Len(a) + Len(b)
        BY <1>1, <1>2, <1>3, <1>4, <1>5
      <3> QED BY ONLY i \in 1..Len(x), <3>1
    <2>2. CASE i <= Len(l)
      <3>1. i \in 1..Len(l) /\ i + d <= Len(a)
        BY <1>1, <1>2, <1>5, <2>2
      <3> QED BY <1>2, <1>3, <1>4, <2>1, <2>2, <3>1
    <2>3. CASE ~(i <= Len(l))
      <3>1. ~(i + d <= Len(a)) /\ (i + d) - Len(a) = i - Len(l)
        BY <1>1, <1>2, <1>5, <2>3
      <3> QED BY <1>3, <1>4, <2>1, <2>3, <3>1
    <2> QED BY <2>2, <2>3
  <1>8. SubSeq(x, from(Len(x)), Len(x)) = SubSeq(y, from(Len(y)), Len(y))
    <2> DEFINE u == from(Len(x))
               v == from(Len(y))
               sx == SubSeq(x, u, Len(x))
               sy == SubSeq(y, v, Len(y))
    <2>0. Len(x) \in Nat /\ Len(y) \in Nat
      BY <1>1, <1>3, <1>4, <1>5
    <2>1. u \in 1..Len(x) + 1 /\ v = u + d
      BY <1>6
    <2> HIDE DEF u, v, d
    <2>2. v \in 1..Len(y) + 1 /\ Len(x) \in (u - 1)..Len(x) /\ Len(y) \in (v - 1)..Len(y)
          /\ Len(y) - v + 1 = Len(x) - u + 1 /\ u \in Nat
      BY <1>1, <1>5, <2>0, <2>1
    <2>3. /\ sx \in Seq(S) /\ Len(sx) = Len(x) - u + 1
          /\ \A i \in 1..(Len(x) - u + 1) : sx[i] = x[u + i - 1] /\ u + i - 1 \in u..Len(x)
      BY <1>3, <2>1, <2>2, PartOfSeq
    <2>4. /\ sy \in Seq(S) /\ Len(sy) = Len(y) - v + 1
          /\ \A i \in 1..(Len(y) - v + 1) : sy[i] = y[v + i - 1]
      BY <1>4, <2>2, PartOfSeq
    <2>5. ASSUME NEW i \in 1..Len(sx) PROVE sx[i] = sy[i]
      <3>1. sx[i] = x[u + i - 1] /\ sy[i] = y[v + i - 1] /\ u + i - 1 \in u..Len(x)
        BY <2>2, <2>3, <2>4
      <3>2. u + i - 1 \in 1..Len(x) /\ (u + i - 1) + d = v + i - 1
        BY <1>1, <2>0, <2>1, <2>2, <3>1
      <3> QED BY <1>7, <3>1, <3>2
    <2> HIDE DEF sx, sy
    <2>6. Len(sx) = Len(sy)
      BY <2>2, <2>3, <2>4
    <2>7. sx = sy
      BY <2>3, <2>4, <2>5, <2>6, SeqEqual
    <2> QED BY <2>7 DEF sx, sy, u, v
  <1>9. Latest(c, x) = SubSeq(x, from(Len(x)), Len(x)) /\ Latest(c, y) = SubSeq(y, from(Len(y)), Len(y))
    BY DEF Latest
  <1> QED BY <1>2, <1>8, <1>9 DEF x, y, l

PieceType == [text : Seq(Symbols), flushed : BOOLEAN]
LogTexts == {Message(p) : p \in PieceType}

(* What is mirrored of a piece depends on that piece. *)
LEMMA MirroredConcat ==
    ASSUME NEW p \in Seq(PieceType), NEW q \in Seq(PieceType)
    PROVE  /\ Mirrored(p) \in Seq(PieceType)
           /\ Mirrored(p \o q) = Mirrored(p) \o Mirrored(q)
  <1> DEFINE Shows == {x \in PieceType : x.flushed \/ Trim(x.text) # <<>>}
  <1>1. ASSUME NEW s \in Seq(PieceType) PROVE Mirrored(s) = Kept(s, Shows)
    <2> DEFINE G == {x \in ToSet(s) : x.flushed \/ Trim(x.text) # <<>>}
    <2>1. ASSUME NEW i \in 1..Len(s) PROVE s[i] \in G <=> s[i] \in Shows
      <3>1. s[i] \in PieceType /\ s[i] \in ToSet(s)
        <4>1. DOMAIN s = 1..Len(s)
          OBVIOUS
        <4> QED BY <4>1 DEF ToSet
      <3> HIDE DEF PieceType
      <3> QED BY <3>1
    <2>2. Mirrored(s) = Kept(s, G)
      BY DEF Mirrored
    <2> HIDE DEF G, Shows
    <2>3. Kept(s, G) = Kept(s, Shows)
      BY <2>1, KeptSame
    <2> QED BY <2>2, <2>3
  <1>2. p \o q \in Seq(PieceType)
    BY ConcatProperties
  <1> HIDE DEF Shows
  <1>3. Kept(p, Shows) \in Seq(PieceType)
    BY KeptType
  <1>4. Kept(p \o q, Shows) = Kept(p, Shows) \o Kept(q, Shows)
    BY KeptConcat
  <1> QED BY <1>1, <1>2, <1>3, <1>4

(* The entries of the pieces a thread brings. *)
EntriesOf(t, pieces) ==
    [i \in DOMAIN Mirrored(pieces) |-> [by |-> t, text |-> Message(Mirrored(pieces)[i])]]
EntryType == [by : Loggers, text : LogTexts]

LEMMA EntriesFacts ==
    ASSUME NEW t \in Loggers, NEW pieces \in Seq(PieceType)
    PROVE  /\ EntriesOf(t, pieces) \in Seq(EntryType)
           /\ TextsIn(EntriesOf(t, pieces)) = Messages(pieces)
           /\ Messages(pieces) \in Seq(LogTexts)
  <1> DEFINE m == Mirrored(pieces)
  <1>1. m \in Seq(PieceType)
    BY MirroredConcat
  <1>2. DOMAIN m = 1..Len(m) /\ Len(m) \in Nat /\ \A i \in 1..Len(m) : m[i] \in PieceType
    BY <1>1
  <1>3. \A i \in 1..Len(m) : Message(m[i]) \in LogTexts
    BY <1>2 DEF LogTexts
  <1> HIDE DEF m
  <1> DEFINE e == [i \in DOMAIN m |-> [by |-> t, text |-> Message(m[i])]]
             k == [i \in DOMAIN m |-> Message(m[i])]
  <1>4. e \in [1..Len(m) -> EntryType] /\ k \in [1..Len(m) -> LogTexts]
    BY <1>2, <1>3 DEF EntryType
  <1>5. e \in Seq(EntryType) /\ k \in Seq(LogTexts)
    <2> HIDE DEF e, k
    <2> QED BY <1>2, <1>4, SequenceOf
  <1>6. TextsIn(e) = k
    BY DEF TextsIn
  <1> QED BY <1>5, <1>6 DEF EntriesOf, Messages, m

LEMMA MessagesConcat ==
    ASSUME NEW p \in Seq(PieceType), NEW q \in Seq(PieceType)
    PROVE  Messages(p \o q) = Messages(p) \o Messages(q)
  <1> DEFINE m == Mirrored(p)
             n == Mirrored(q)
             msgs(x) == [i \in DOMAIN x |-> Message(x[i])]
  <1>1. m \in Seq(PieceType) /\ n \in Seq(PieceType) /\ Mirrored(p \o q) = m \o n
    BY MirroredConcat
  <1>2. Messages(p) = msgs(m) /\ Messages(q) = msgs(n) /\ Messages(p \o q) = msgs(m \o n)
    BY <1>1 DEF Messages
  <1> DEFINE r == m \o n
  <1> HIDE DEF m, n
  <1>3. /\ r \in Seq(PieceType) /\ Len(r) = Len(m) + Len(n)
        /\ \A i \in 1..Len(m) + Len(n) : r[i] = IF i <= Len(m) THEN m[i] ELSE n[i - Len(m)]
    BY <1>1, ConcatProperties
  <1> HIDE DEF r
  <1>4. ASSUME NEW x \in Seq(PieceType)
        PROVE  /\ msgs(x) \in Seq(LogTexts) /\ Len(msgs(x)) = Len(x)
               /\ \A i \in 1..Len(x) : msgs(x)[i] = Message(x[i])
    <2>1. DOMAIN x = 1..Len(x) /\ Len(x) \in Nat /\ \A i \in 1..Len(x) : x[i] \in PieceType
      OBVIOUS
    <2>2. \A i \in 1..Len(x) : Message(x[i]) \in LogTexts
      BY <2>1 DEF LogTexts
    <2>3. msgs(x) \in [1..Len(x) -> LogTexts] /\ \A i \in 1..Len(x) : msgs(x)[i] = Message(x[i])
      BY <2>1, <2>2
    <2> HIDE DEF msgs
    <2> QED BY <2>1, <2>3, SequenceOf
  <1> HIDE DEF msgs
  <1>5. Len(m) \in Nat /\ Len(n) \in Nat
    BY <1>1
  <1>6. /\ msgs(r) \in Seq(LogTexts) /\ msgs(m) \in Seq(LogTexts) /\ msgs(n) \in Seq(LogTexts)
        /\ Len(msgs(r)) = Len(msgs(m)) + Len(msgs(n)) /\ Len(msgs(m)) = Len(m) /\ Len(msgs(n)) = Len(n)
    BY <1>1, <1>3, <1>4
  <1>7. ASSUME NEW i \in 1..Len(msgs(m)) PROVE msgs(r)[i] = msgs(m)[i]
    <2>1. i \in 1..Len(m) /\ i \in 1..Len(m) + Len(n) /\ i <= Len(m) /\ i \in 1..Len(r)
      BY <1>3, <1>5, <1>6
    <2>2. msgs(r)[i] = Message(r[i]) /\ msgs(m)[i] = Message(m[i]) /\ r[i] = m[i]
      BY <1>1, <1>3, <1>4, <2>1
    <2> QED BY <2>2
  <1>8. ASSUME NEW i \in 1..Len(msgs(n)) PROVE msgs(r)[Len(msgs(m)) + i] = msgs(n)[i]
    <2>1. /\ i \in 1..Len(n) /\ Len(m) + i \in 1..Len(m) + Len(n) /\ Len(m) + i \in 1..Len(r)
          /\ ~(Len(m) + i <= Len(m)) /\ (Len(m) + i) - Len(m) = i
      BY <1>3, <1>5, <1>6
    <2>2. msgs(r)[Len(m) + i] = Message(r[Len(m) + i]) /\ msgs(n)[i] = Message(n[i]) /\ r[Len(m) + i] = n[i]
      BY <1>1, <1>3, <1>4, <2>1
    <2> QED BY <1>6, <2>2
  <1>9. ASSUME NEW u \in Seq(LogTexts), NEW v \in Seq(LogTexts), NEW w \in Seq(LogTexts),
               Len(w) = Len(u) + Len(v),
               \A i \in 1..Len(u) : w[i] = u[i], \A i \in 1..Len(v) : w[Len(u) + i] = v[i]
        PROVE  w = u \o v
    BY <1>9, ConcatPointwise
  <1>10. msgs(r) = msgs(m) \o msgs(n)
    BY <1>6, <1>7, <1>8, <1>9
  <1> QED BY <1>2, <1>10 DEF r

(* What a push does to the texts of the buffer. *)
LEMMA MirrorShows ==
    ASSUME NEW t \in Loggers, NEW pieces \in Seq(PieceType), capacity \in Nat,
           entries \in Seq(EntryType), capacity = 0 => entries = <<>>, Mirror(t, pieces)
    PROVE  /\ entries' \in Seq(EntryType) /\ (capacity = 0 => entries' = <<>>)
           /\ TextsIn(entries') = Latest(capacity, TextsIn(entries) \o Messages(pieces))
  <1> DEFINE new == EntriesOf(t, pieces)
  <1>1. new \in Seq(EntryType) /\ TextsIn(new) = Messages(pieces) /\ Messages(pieces) \in Seq(LogTexts)
    BY EntriesFacts
  <1>2. Push(new)
    BY DEF Mirror, EntriesOf
  <1> HIDE DEF new
  <1>3. /\ entries \o new \in Seq(EntryType)
        /\ TextsIn(entries \o new) = TextsIn(entries) \o Messages(pieces)
    <2> HIDE DEF EntryType
    <2>1. entries \o new \in Seq(EntryType)
      BY ONLY <1>1, entries \in Seq(EntryType), ConcatProperties
    <2>2. TextsIn(entries \o new) = TextsIn(entries) \o TextsIn(new)
      BY <1>1, TextsInConcat
    <2> QED BY <1>1, <2>1, <2>2
  <1>4. CASE capacity = 0
    <2>1. entries' = <<>>
      BY <1>2, <1>4 DEF Push
    <2>2. TextsIn(entries \o new) \in Seq({x.text : x \in EntryType})
      BY <1>3, TextsInSeq
    <2> DEFINE all == TextsIn(entries \o new)
    <2>3. Latest(0, all) = <<>>
      <3>1. Len(all) \in Nat
        BY <2>2
      <3> HIDE DEF all
      <3>2. \A n \in Nat : (IF n > 0 THEN n - 0 + 1 ELSE 1) = n + 1
        OBVIOUS
      <3>3. SubSeq(all, Len(all) + 1, Len(all)) = <<>>
        BY <3>1, SubSeqEmpty
      <3> QED BY <3>1, <3>2, <3>3 DEF Latest
    <2>4. <<>> \in Seq(EntryType) /\ TextsIn(<<>>) = <<>>
      <3>1. DOMAIN <<>> = {} /\ <<>> \in Seq(EntryType)
        OBVIOUS
      <3>2. TextsIn(<<>>) = [i \in {} |-> <<>>[i].text]
        BY <3>1 DEF TextsIn
      <3>3. [i \in {} |-> <<>>[i].text] = <<>>
        OBVIOUS
      <3> QED BY <3>1, <3>2, <3>3
    <2> QED BY <1>3, <1>4, <2>1, <2>3, <2>4
  <1>5. CASE capacity # 0
    <2>1. entries' = Latest(capacity, entries \o new)
      BY <1>2, <1>5 DEF Push
    <2>2. Latest(capacity, entries \o new) \in Seq(EntryType)
          /\ TextsIn(Latest(capacity, entries \o new)) = Latest(capacity, TextsIn(entries \o new))
      BY <1>3, TextsOfLatest
    <2> QED BY <1>3, <1>5, <2>1, <2>2
  <1> QED BY <1>4, <1>5

LEMMA SinceConcat ==
    ASSUME NEW S, NEW a \in Seq(S), NEW b \in Seq(S), NEW c \in 0..Len(a)
    PROVE  /\ SubSeq(a, c + 1, Len(a)) \in Seq(S)
           /\ SubSeq(a \o b, c + 1, Len(a \o b)) = SubSeq(a, c + 1, Len(a)) \o b
  <1> DEFINE r == a \o b
             old == SubSeq(a, c + 1, Len(a))
             all == SubSeq(r, c + 1, Len(r))
  <1>1. Len(a) \in Nat /\ Len(b) \in Nat /\ c \in Nat /\ c <= Len(a)
    OBVIOUS
  <1>2. /\ r \in Seq(S) /\ Len(r) = Len(a) + Len(b)
        /\ \A i \in 1..Len(a) + Len(b) : r[i] = IF i <= Len(a) THEN a[i] ELSE b[i - Len(a)]
    BY ConcatProperties
  <1> HIDE DEF r
  <1>3. ASSUME NEW s \in Seq(S), NEW m \in 1..Len(s) + 1, NEW n \in (m - 1)..Len(s)
        PROVE  /\ SubSeq(s, m, n) \in Seq(S) /\ Len(SubSeq(s, m, n)) = n - m + 1
               /\ \A i \in 1..(n - m + 1) : SubSeq(s, m, n)[i] = s[m + i - 1]
    BY PartOfSeq
  <1>4. /\ old \in Seq(S) /\ Len(old) = Len(a) - c
        /\ \A i \in 1..Len(a) - c : old[i] = a[c + i]
    <2>1. /\ c + 1 \in 1..Len(a) + 1 /\ Len(a) \in ((c + 1) - 1)..Len(a)
          /\ Len(a) - (c + 1) + 1 = Len(a) - c /\ \A i \in 1..Len(a) - c : (c + 1) + i - 1 = c + i
      BY <1>1
    <2>2. /\ old \in Seq(S) /\ Len(old) = Len(a) - (c + 1) + 1
          /\ \A i \in 1..(Len(a) - (c + 1) + 1) : old[i] = a[(c + 1) + i - 1]
      BY <1>3, <2>1
    <2> HIDE DEF old
    <2> QED BY <2>1, <2>2
  <1>5. /\ all \in Seq(S) /\ Len(all) = Len(r) - c
        /\ \A i \in 1..Len(r) - c : all[i] = r[c + i]
    <2>0. Len(r) \in Nat /\ c <= Len(r)
      BY <1>1, <1>2
    <2>1. /\ c + 1 \in 1..Len(r) + 1 /\ Len(r) \in ((c + 1) - 1)..Len(r)
          /\ Len(r) - (c + 1) + 1 = Len(r) - c /\ \A i \in 1..Len(r) - c : (c + 1) + i - 1 = c + i
      BY <1>1, <2>0
    <2>2. /\ all \in Seq(S) /\ Len(all) = Len(r) - (c + 1) + 1
          /\ \A i \in 1..(Len(r) - (c + 1) + 1) : all[i] = r[(c + 1) + i - 1]
      BY <1>2, <1>3, <2>1
    <2> HIDE DEF all
    <2> QED BY <2>1, <2>2
  <1> HIDE DEF old, all
  <1>6. Len(all) = Len(old) + Len(b)
    BY <1>1, <1>2, <1>4, <1>5
  <1>7. ASSUME NEW i \in 1..Len(old) PROVE all[i] = old[i]
    <2>1. /\ i \in 1..Len(a) - c /\ i \in 1..Len(r) - c
          /\ c + i \in 1..Len(a) + Len(b) /\ c + i <= Len(a)
      BY <1>1, <1>2, <1>4
    <2> QED BY <1>2, <1>4, <1>5, <2>1
  <1>8. ASSUME NEW i \in 1..Len(b) PROVE all[Len(old) + i] = b[i]
    <2>1. /\ Len(old) + i \in 1..Len(r) - c /\ c + (Len(old) + i) = Len(a) + i
          /\ Len(a) + i \in 1..Len(a) + Len(b) /\ ~(Len(a) + i <= Len(a)) /\ (Len(a) + i) - Len(a) = i
      BY <1>1, <1>2, <1>4
    <2> QED BY <1>2, <1>5, <2>1
  <1>9. all = old \o b
    BY <1>4, <1>5, <1>6, <1>7, <1>8, ConcatPointwise
  <1> QED BY <1>4, <1>9 DEF all, old, r

(* The log writer's state: what was written and taken, the buffer as long as
   it may be, and that nothing is lost. *)
WriterTypes ==
    /\ capacity \in Nat /\ writes \in Nat
    /\ pending \in Seq(Symbols) /\ handed \in Seq(Seq(Bytes))
    /\ taken \in Seq(PieceType) /\ cleared \in 0..Len(taken)
    /\ entries \in Seq(EntryType) /\ (capacity = 0 => entries = <<>>)
WriterInv == WriterTypes /\ TextIsAccounted

(* The pieces that were taken since the buffer was cleared. *)
Since == SubSeq(taken, cleared + 1, Len(taken))

LEMMA SymbolsAssociate == \A x, y, z \in Seq(Symbols) : (x \o y) \o z = x \o (y \o z)
  <1>1. ASSUME NEW S PROVE \A x, y, z \in Seq(S) : (x \o y) \o z = x \o (y \o z)
    BY ConcatAssociative
  <1> QED BY <1>1

(* The bytes of a write decode to text, and those of a further write to more. *)
LEMMA LossyIsText == ASSUME NEW c \in Seq(Bytes) PROVE Lossy(c) \in Seq(Symbols)
  <1> DEFINE f == [i \in DOMAIN c |-> Decoded(c, i)]
  <1>1. DOMAIN c = 1..Len(c) /\ Len(c) \in Nat /\ \A i \in 1..Len(c) : c[i] \in Bytes
    OBVIOUS
  <1>2. "m" \in Symbols /\ "?" \in Symbols /\ \A x \in Bytes : x \in Halves \/ x \in Symbols
    BY DEF Symbols, Bytes
  <1>3. \A x \in Symbols : <<x>> \in Seq(Symbols)
    OBVIOUS
  <1>4. ASSUME NEW i \in 1..Len(c) PROVE Decoded(c, i) \in Seq(Symbols)
    <2>1. <<>> \in Seq(Symbols)
      OBVIOUS
    <2>2. c[i] \in Halves \/ c[i] \in Symbols
      BY <1>1, <1>2
    <2> QED BY <1>2, <1>3, <2>1, <2>2, Zenon DEF Decoded
  <1>5. f \in [1..Len(c) -> Seq(Symbols)]
    BY <1>1, <1>4
  <1>6. f \in Seq(Seq(Symbols))
    <2> HIDE DEF f
    <2> QED BY <1>1, <1>5, SequenceOf
  <1>7. Lossy(c) = FlattenSeq(f)
    BY DEF Lossy
  <1> HIDE DEF f
  <1> QED BY <1>6, <1>7, FlattenType

LEMMA LossiesAreTexts ==
    ASSUME NEW w \in Seq(Seq(Bytes))
    PROVE  /\ [i \in DOMAIN w |-> Lossy(w[i])] \in Seq(Seq(Symbols))
           /\ Len([i \in DOMAIN w |-> Lossy(w[i])]) = Len(w)
  <1> DEFINE f == [i \in DOMAIN w |-> Lossy(w[i])]
             T == Seq(Symbols)
             B == Seq(Bytes)
  <1>1. w \in Seq(B) /\ \A c \in B : Lossy(c) \in T
    BY LossyIsText
  <1> HIDE DEF T, B
  <1>2. f \in [1..Len(w) -> T] /\ Len(w) \in Nat
    BY <1>1
  <1> HIDE DEF f
  <1>3. f \in Seq(T) /\ Len(f) = Len(w)
    BY <1>2, SequenceOf
  <1> QED BY <1>3 DEF f, T

LEMMA BroughtMore ==
    ASSUME NEW w \in Seq(Seq(Bytes)), NEW c \in Seq(Bytes)
    PROVE  /\ Brought(w) \in Seq(Symbols)
           /\ Brought(Append(w, c)) = Brought(w) \o Lossy(c)
  <1> DEFINE f == [i \in DOMAIN w |-> Lossy(w[i])]
             more == Append(w, c)
             g == [i \in DOMAIN more |-> Lossy(more[i])]
             T == Seq(Symbols)
             B == Seq(Bytes)
  <1>1. f \in Seq(T) /\ Len(f) = Len(w) /\ Lossy(c) \in T /\ Len(w) \in Nat
    BY LossiesAreTexts, LossyIsText
  <1>2. /\ more \in Seq(B) /\ Len(more) = Len(w) + 1 /\ more[Len(w) + 1] = c
        /\ \A i \in 1..Len(w) : more[i] = w[i]
    <2>1. w \in Seq(B) /\ c \in B
      OBVIOUS
    <2> HIDE DEF B
    <2> QED BY <2>1
  <1>3. \A i \in 1..Len(w) : f[i] = Lossy(w[i])
    OBVIOUS
  <1> HIDE DEF more
  <1>4. g \in Seq(T) /\ Len(g) = Len(more)
    BY <1>2, LossiesAreTexts
  <1>5. \A i \in 1..Len(more) : g[i] = Lossy(more[i])
    BY <1>2
  <1>6. Brought(w) = FlattenSeq(f) /\ Brought(more) = FlattenSeq(g)
    BY DEF Brought
  <1> HIDE DEF f, g, T
  <1> DEFINE l == Lossy(c)
             h == Append(f, l)
  <1>7. /\ h \in Seq(T) /\ Len(h) = Len(w) + 1 /\ h[Len(w) + 1] = l
        /\ \A i \in 1..Len(w) : h[i] = f[i]
    <2> HIDE DEF l
    <2> QED BY <1>1 DEF l
  <1> HIDE DEF h, l
  <1>8. \A i \in 1..(Len(w) + 1) : i \in 1..Len(w) \/ i = Len(w) + 1
    BY <1>1
  <1>9. \A i \in 1..(Len(w) + 1) : g[i] = h[i]
    BY <1>2, <1>3, <1>5, <1>7, <1>8 DEF l
  <1>10. g = h
    BY <1>1, <1>2, <1>4, <1>7, <1>9, SeqEqual
  <1>11. FlattenSeq(h) = FlattenSeq(f) \o l
    BY <1>1, FlattenAppend DEF h, l, T
  <1>12. FlattenSeq(f) \in Seq(Symbols)
    BY <1>1, FlattenType DEF T
  <1> QED BY <1>6, <1>10, <1>11, <1>12 DEF more, l

(* However pieces are taken out of the text, they are accounted for. *)
LEMMA TakingIsAccounted ==
    ASSUME WriterInv, NEW t \in Loggers, NEW chunk \in Seq(Symbols), NEW pieces \in Seq(PieceType),
           NEW rest \in Seq(Symbols),
           TextOf(pieces) \o rest = pending \o chunk,
           handed' \in Seq(Seq(Bytes)), Brought(handed') = Brought(handed) \o chunk,
           taken' = taken \o pieces, pending' = rest,
           Mirror(t, pieces), UNCHANGED <<capacity, cleared>>, writes' \in Nat
    PROVE  WriterInv'
  <1> USE DEF WriterInv, WriterTypes
  <1>1. /\ entries' \in Seq(EntryType) /\ (capacity = 0 => entries' = <<>>)
        /\ TextsIn(entries') = Latest(capacity, TextsIn(entries) \o Messages(pieces))
    BY MirrorShows
  <1>2. /\ taken' \in Seq(PieceType) /\ pending' \in Seq(Symbols)
        /\ Len(taken') = Len(taken) + Len(pieces)
    <2> HIDE DEF PieceType
    <2> QED BY ConcatProperties
  <1>3. cleared' \in 0..Len(taken')
    <2>1. Len(taken) \in Nat /\ Len(pieces) \in Nat
      <3> HIDE DEF PieceType
      <3> QED OBVIOUS
    <2> QED BY <1>2, <2>1
  <1>4. Brought(handed') = TextOf(taken') \o pending'
    <2>1. TextOf(taken) \in Seq(Symbols) /\ TextOf(pieces) \in Seq(Symbols)
          /\ TextOf(taken \o pieces) = TextOf(taken) \o TextOf(pieces)
      BY TextOfConcat DEF PieceType
    <2>2. Brought(handed) = TextOf(taken) \o pending
      BY DEF TextIsAccounted
    <2>3. \A x, y, z \in Seq(Symbols) : (x \o y) \o z = x \o (y \o z)
      BY SymbolsAssociate
    <2>4. pending \in Seq(Symbols)
      OBVIOUS
    <2>5. (TextOf(taken) \o pending) \o chunk = TextOf(taken) \o (pending \o chunk)
      BY ONLY <2>1, <2>3, <2>4, chunk \in Seq(Symbols)
    <2>6. (TextOf(taken) \o TextOf(pieces)) \o rest = TextOf(taken) \o (TextOf(pieces) \o rest)
      BY ONLY <2>1, <2>3, rest \in Seq(Symbols)
    <2> QED BY <2>1, <2>2, <2>5, <2>6
  <1>5. TextsIn(entries') = Latest(capacity, Messages(SubSeq(taken', cleared + 1, Len(taken'))))
    <2>1. Since \in Seq(PieceType) /\ SubSeq(taken', cleared + 1, Len(taken')) = Since \o pieces
      BY SinceConcat DEF Since
    <2>2. Messages(Since \o pieces) = Messages(Since) \o Messages(pieces)
      BY <2>1, MessagesConcat
    <2>3. TextsIn(entries) = Latest(capacity, Messages(Since))
      BY DEF TextIsAccounted, TextsIn, Since
    <2>4. Messages(Since) \in Seq(LogTexts) /\ Messages(pieces) \in Seq(LogTexts)
      BY <2>1, EntriesFacts
    <2>5. Latest(capacity, Latest(capacity, Messages(Since)) \o Messages(pieces)) =
             Latest(capacity, Messages(Since) \o Messages(pieces))
      BY <2>4, LatestOfLatest
    <2> QED BY <1>1, <2>1, <2>2, <2>3, <2>5
  <1>6. TextIsAccounted'
    BY <1>4, <1>5 DEF TextIsAccounted, TextsIn
  <1> QED BY <1>1, <1>2, <1>3, <1>6

LEMMA LinesAreAccounted ==
    ASSUME WriterInv, NEW t \in Loggers, NEW chunk \in Seq(Bytes),
           NEW n \in 0..Len(Ends(pending \o Lossy(chunk))), NEW whole, TakeLines(t, chunk, n, whole)
    PROVE  WriterInv'
  <1> DEFINE text == pending \o Lossy(chunk)
             rest == SubSeq(text, LineBreak(text, n) + 1, Len(text))
             lines == Lines(text, n)
  <1>1. Lossy(chunk) \in Seq(Symbols) /\ text \in Seq(Symbols)
    BY LossyIsText, ConcatProperties DEF WriterInv, WriterTypes
  <1>2. /\ handed' = Append(handed, chunk) /\ taken' = taken \o lines /\ pending' = rest
        /\ Mirror(t, lines) /\ UNCHANGED <<capacity, cleared>> /\ writes' = writes + 1
    BY DEF TakeLines
  <1> HIDE DEF text
  <1>3. n \in 0..Len(Ends(text))
    BY DEF text
  <1>4. lines \in Seq(PieceType) /\ TextOf(lines) = SubSeq(text, 1, LineBreak(text, n))
    BY <1>1, <1>3, LinesAreText DEF PieceType
  <1>5. LineBreak(text, n) \in 0..Len(text)
    BY <1>1, <1>3, LineBreaks
  <1>6. rest \in Seq(Symbols) /\ SubSeq(text, 1, LineBreak(text, n)) \o rest = text
    <2> DEFINE b == LineBreak(text, n)
    <2>1. Len(text) \in Nat /\ b \in 0..Len(text)
      BY <1>1, <1>5
    <2> HIDE DEF b
    <2>2. SubSeq(text, b + 1, Len(text)) \in Seq(Symbols)
      <3>1. b + 1 \in 1..Len(text) + 1 /\ Len(text) \in ((b + 1) - 1)..Len(text)
        BY <2>1
      <3>2. ASSUME NEW s \in Seq(Symbols), NEW m \in 1..Len(s) + 1, NEW k \in (m - 1)..Len(s)
            PROVE  SubSeq(s, m, k) \in Seq(Symbols)
        BY PartOfSeq
      <3> QED BY <1>1, <3>1, <3>2
    <2>3. SubSeq(text, 1, b) \o SubSeq(text, b + 1, Len(text)) = SubSeq(text, 1, Len(text))
      <3>1. 1 \in 1..Len(text) + 1 /\ b \in (1 - 1)..Len(text) /\ Len(text) \in b..Len(text)
        BY <2>1
      <3> QED BY <1>1, <3>1, ConcatAdjacentSubSeq
    <2>4. SubSeq(text, 1, Len(text)) = text
      BY <1>1, SubSeqFull
    <2> QED BY <2>2, <2>3, <2>4 DEF b
  <1> HIDE DEF rest, lines
  <1>7. TextOf(lines) \o rest = pending \o Lossy(chunk)
    BY <1>4, <1>6 DEF text
  <1>8. writes' \in Nat
    BY <1>2 DEF WriterInv, WriterTypes
  <1>9. handed' \in Seq(Seq(Bytes)) /\ Brought(handed') = Brought(handed) \o Lossy(chunk)
    <2> DEFINE B == Seq(Bytes)
    <2>1. handed \in Seq(B) /\ chunk \in B
      BY DEF WriterInv, WriterTypes
    <2>2. Append(handed, chunk) \in Seq(B)
      <3> HIDE DEF B
      <3> QED BY <2>1
    <2> QED BY <1>2, <2>1, <2>2, BroughtMore
  <1> HIDE DEF text
  <1>10. ASSUME NEW c \in Seq(Symbols), c = Lossy(chunk) PROVE WriterInv'
    BY <1>2, <1>4, <1>6, <1>7, <1>8, <1>9, <1>10, TakingIsAccounted
  <1> QED BY <1>1, <1>10

LEMMA FlushIsAccounted ==
    ASSUME WriterInv, NEW t \in Loggers, Flush(t)
    PROVE  WriterInv'
  <1> DEFINE p == Piece(pending, TRUE)
             pieces == <<p>>
             none == <<>>
  <1>1. /\ pending' = none /\ taken' = Append(taken, p) /\ Mirror(t, pieces)
        /\ UNCHANGED <<capacity, handed, cleared, writes>>
    BY DEF Flush
  <1>2. /\ pending \in Seq(Symbols) /\ taken \in Seq(PieceType) /\ handed \in Seq(Seq(Bytes))
        /\ writes \in Nat /\ Brought(handed) \in Seq(Symbols)
    <2>1. WriterTypes /\ \E c : c \in Seq(Bytes)
      <3>1. <<>> \in Seq(Bytes)
        OBVIOUS
      <3> QED BY <3>1 DEF WriterInv
    <2> QED BY <2>1, BroughtMore DEF WriterTypes
  <1>3. p \in PieceType
    BY <1>2 DEF Piece, PieceType
  <1>4. pieces \in Seq(PieceType) /\ taken' = taken \o pieces
    <2> HIDE DEF p
    <2>1. pieces \in Seq(PieceType)
      BY <1>3
    <2> QED BY <1>1, <1>2, <1>3, <2>1, AppendIsConcat
  <1>5. TextOf(pieces) = pending
    <2>1. \A x : [i \in DOMAIN <<x>> |-> <<x>>[i].text] = <<x.text>>
      OBVIOUS
    <2>2. [i \in DOMAIN pieces |-> pieces[i].text] = <<pending>>
      BY <2>1 DEF Piece
    <2>3. FlattenSeq(<<pending>>) = pending
      <3> DEFINE one == <<pending>>
      <3>1. one \in Seq(Seq(Symbols)) /\ Append(none, pending) = one /\ none \in Seq(Seq(Symbols)) /\ Len(none) = 0
        BY <1>2
      <3>2. FlattenSeq(none) = none
        BY <3>1 DEF FlattenSeq
      <3>3. FlattenSeq(Append(none, pending)) = FlattenSeq(none) \o pending
        <4> HIDE DEF none, one
        <4>1. ASSUME NEW s \in Seq(Seq(Symbols)), NEW e \in Seq(Symbols)
              PROVE  FlattenSeq(Append(s, e)) = FlattenSeq(s) \o e
          BY FlattenAppend
        <4> QED BY <1>2, <3>1, <4>1
      <3>4. none \o pending = pending
        BY <1>2, ConcatEmptySeq
      <3> QED BY <3>1, <3>2, <3>3, <3>4
    <2> QED BY <2>2, <2>3 DEF TextOf
  <1> HIDE DEF pieces
  <1>6. none \in Seq(Symbols) /\ Brought(handed) \o none = Brought(handed) /\ pending \o none = pending
    BY <1>2, ConcatEmptySeq
  <1> HIDE DEF none
  <1>7. ASSUME NEW chunk \in Seq(Symbols), NEW rest \in Seq(Symbols),
               TextOf(pieces) \o rest = pending \o chunk, pending' = rest,
               handed' \in Seq(Seq(Bytes)), Brought(handed') = Brought(handed) \o chunk
        PROVE  WriterInv'
    BY <1>1, <1>2, <1>4, <1>7, TakingIsAccounted
  <1>8. handed' \in Seq(Seq(Bytes)) /\ Brought(handed') = Brought(handed) \o none
    BY <1>1, <1>2, <1>6
  <1> QED BY <1>1, <1>2, <1>5, <1>6, <1>7, <1>8

LEMMA ClearIsAccounted ==
    ASSUME WriterInv, Clear
    PROVE  WriterInv'
  <1>1. /\ entries' = <<>> /\ cleared' = Len(taken)
        /\ UNCHANGED <<pending, capacity, handed, taken, writes>>
    BY DEF Clear
  <1>2. Len(taken) \in Nat
    BY DEF WriterInv, WriterTypes
  <1>3. WriterTypes'
    BY <1>1, <1>2 DEF WriterInv, WriterTypes
  <1>4. Messages(SubSeq(taken, Len(taken) + 1, Len(taken))) = <<>>
    <2>1. SubSeq(taken, Len(taken) + 1, Len(taken)) = <<>>
      BY <1>2, SubSeqEmpty
    <2>2. ToSet(<<>>) = {} /\ Mirrored(<<>>) = <<>>
      BY KeptEmpty DEF ToSet, Mirrored
    <2>3. Messages(<<>>) = <<>>
      BY <2>2 DEF Messages
    <2> QED BY <2>1, <2>3
  <1>5. Latest(capacity, <<>>) = <<>>
    <2>1. Len(<<>>) = 0 /\ ~(0 > capacity)
      BY DEF WriterInv, WriterTypes
    <2>2. SubSeq(<<>>, 1, 0) = <<>>
      BY SubSeqEmpty
    <2> QED BY <2>1, <2>2 DEF Latest
  <1>6. TextIsAccounted'
    <2>1. Brought(handed') = TextOf(taken') \o pending'
      BY <1>1 DEF WriterInv, TextIsAccounted
    <2>2. [i \in DOMAIN entries' |-> entries'[i].text] = <<>>
      BY <1>1
    <2> QED BY <1>1, <1>4, <1>5, <2>1, <2>2 DEF TextIsAccounted
  <1> QED BY <1>3, <1>6 DEF WriterInv

LEMMA WriterStep == WriterInv /\ [WriterNext \/ AuditNext]_logVars => WriterInv'
  <1> SUFFICES ASSUME WriterInv, [WriterNext \/ AuditNext]_logVars PROVE WriterInv'
    OBVIOUS
  <1>1. ASSUME UNCHANGED writerVars PROVE WriterInv'
    BY <1>1 DEF WriterInv, WriterTypes, TextIsAccounted, writerVars
  <1>2. ASSUME NEW t \in Loggers, writes < Len(Chunks), NEW chunk \in Chunks[writes + 1],
               Write(t, chunk) \/ WriteFails(t, chunk)
        PROVE  WriterInv'
    <2>1. chunk \in Seq(Bytes)
      <3> DEFINE T == SUBSET Seq(Bytes)
      <3>1. Chunks \in Seq(T) /\ writes \in Nat
        BY LogsAssumption DEF WriterInv, WriterTypes
      <3>2. writes + 1 \in 1..Len(Chunks)
        BY <1>2, <3>1
      <3>3. Chunks[writes + 1] \in T
        <4> HIDE DEF T
        <4> QED BY <3>1, <3>2
      <3> QED BY <3>3
    <2>2. pending \o Lossy(chunk) \in Seq(Symbols)
      BY <2>1, LossyIsText, ConcatProperties DEF WriterInv, WriterTypes
    <2>3. Len(Ends(pending \o Lossy(chunk))) \in Nat
      BY <2>2, EndsOfLines
    <2>4. \A n \in 1..Len(Ends(pending \o Lossy(chunk))) : n \in 0..Len(Ends(pending \o Lossy(chunk)))
      BY <2>3
    <2>5. Len(Ends(pending \o Lossy(chunk))) \in 0..Len(Ends(pending \o Lossy(chunk)))
      BY <2>3
    <2>6. PICK n \in 0..Len(Ends(pending \o Lossy(chunk))) :
             \E whole \in BOOLEAN : TakeLines(t, chunk, n, whole)
      BY <1>2, <2>4, <2>5 DEF Write, WriteFails
    <2> QED BY <2>1, <2>6, LinesAreAccounted
  <1>3. ASSUME NEW t \in Loggers, Flush(t) PROVE WriterInv'
    BY <1>3, FlushIsAccounted
  <1>4. CASE Clear
    BY <1>4, ClearIsAccounted
  <1>5. CASE AuditNext
    BY <1>1, <1>5 DEF AuditNext, AppendRecord, AppendRest, AppendFails, AppendPart
  <1>6. CASE UNCHANGED logVars
    BY <1>1, <1>6 DEF logVars
  <1> QED BY <1>2, <1>3, <1>4, <1>5, <1>6 DEF WriterNext

LEMMA WriterStarts == LogInit => WriterInv
  <1> SUFFICES ASSUME LogInit PROVE WriterInv
    OBVIOUS
  <1>1. /\ pending = <<>> /\ handed = <<>> /\ taken = <<>> /\ entries = <<>> /\ cleared = 0
        /\ writes = 0 /\ capacity \in Nat
    BY LogsAssumption DEF LogInit
  <1>2. \A S : <<>> \in Seq(S) /\ Len(<<>>) = 0
    OBVIOUS
  <1>3. WriterTypes
    BY <1>1, <1>2 DEF WriterTypes
  <1>4. Brought(<<>>) = TextOf(<<>>) \o <<>>
    <2>1. \A f : [i \in DOMAIN <<>> |-> f[i].text] = <<>>
      OBVIOUS
    <2>2. FlattenSeq(<<>>) = <<>>
      BY <1>2 DEF FlattenSeq
    <2>3. <<>> \o <<>> = <<>>
      BY <1>2, ConcatEmptySeq
    <2>4. [i \in DOMAIN <<>> |-> <<>>[i].text] = <<>>
      BY <2>1
    <2>5. [i \in DOMAIN <<>> |-> Lossy(<<>>[i])] = <<>>
      OBVIOUS
    <2> QED BY <2>2, <2>3, <2>4, <2>5 DEF TextOf, Brought
  <1>5. [i \in DOMAIN <<>> |-> <<>>[i].text] = <<>>
    OBVIOUS
  <1>6. Messages(SubSeq(<<>>, 0 + 1, Len(<<>>))) = <<>>
    <2>1. SubSeq(<<>>, 1, 0) = <<>> /\ 0 + 1 = 1 /\ Len(<<>>) = 0
      BY <1>2, SubSeqEmpty
    <2>2. Mirrored(<<>>) = <<>>
      BY KeptEmpty DEF Mirrored
    <2>3. Messages(<<>>) = <<>>
      BY <2>2 DEF Messages
    <2> QED BY <2>1, <2>3
  <1>7. Latest(capacity, <<>>) = <<>>
    <2>1. Len(<<>>) = 0 /\ ~(0 > capacity)
      BY <1>1
    <2>2. SubSeq(<<>>, 1, 0) = <<>>
      BY SubSeqEmpty
    <2> QED BY <2>1, <2>2 DEF Latest
  <1> QED BY <1>1, <1>3, <1>4, <1>5, <1>6, <1>7 DEF WriterInv, TextIsAccounted

(* write and flush, redact_writer.rs:76-102, push, buffer.rs:41-50: for every
   sequence of writes by any threads, every failing write, and every capacity
   of the buffer, what the writes decode to is neither lost nor taken twice (a
   character that two writes share decodes to two U+FFFD), and the buffer holds
   the latest lines. *)
THEOREM TextTheorem == LogSpec => []TextIsAccounted
  <1>1. LogInit => WriterInv
    BY WriterStarts
  <1>2. WriterInv /\ [LogNext]_logVars => WriterInv'
    BY WriterStep DEF LogNext
  <1>3. WriterInv => TextIsAccounted
    BY DEF WriterInv
  <1> QED BY <1>1, <1>2, <1>3, PTL DEF LogSpec

(* What the inner writer may be given: text without a secret. *)
Clean == {x \in Seq(Symbols) : \A w \in ToSet(Secrets) : ~Occurs(w, x)}

LEMMA TrimmedIsText == ASSUME NEW s \in Seq(Symbols) PROVE Trim(s) \in Seq(Symbols)
  <1> DEFINE S == {0} \cup {i \in DOMAIN s : s[i] # "n"}
             n == Len(s)
             T == {m \in Nat : \A i \in S : i <= m}
  <1>1. n \in Nat /\ DOMAIN s = 1..n
    OBVIOUS
  <1>2. S \subseteq 0..n /\ 0 \in S
    BY <1>1
  <1> HIDE DEF S, n
  <1>3. n \in T
    BY <1>1, <1>2
  <1>4. PICK m \in T : \A k \in T : m <= k
    <2>1. T \in SUBSET Nat /\ T # {}
      BY <1>3
    <2> HIDE DEF T
    <2> QED BY <2>1, LeastNumber
  <1>5. m \in S
    <2> SUFFICES ASSUME m \notin S PROVE FALSE
      OBVIOUS
    <2>1. m \in Nat /\ m # 0 /\ \A i \in S : i <= m
      BY <1>2, <1>4
    <2>2. m - 1 \in Nat /\ ~(m <= m - 1)
      BY <2>1
    <2>3. \A i \in S : i \in Nat /\ i <= m /\ i # m
      BY <1>1, <1>2, <2>1
    <2>4. m - 1 \in T
      BY <2>1, <2>2, <2>3
    <2> HIDE DEF T
    <2> QED BY <1>4, <2>2, <2>4
  <1>6. \A i \in S : m >= i
    <2>1. \A i \in S : i \in Nat /\ i <= m
      BY <1>1, <1>2, <1>4
    <2>2. m \in Nat
      BY <1>4
    <2> HIDE DEF T
    <2> QED BY <2>1, <2>2
  <1>7. Max(S) \in S
    BY <1>5, <1>6 DEF Max
  <1> DEFINE e == Max(S)
  <1>8. 1 \in 1..Len(s) + 1 /\ e \in (1 - 1)..Len(s)
    <2>1. e \in 0..n
      BY <1>2, <1>7
    <2> HIDE DEF e
    <2> QED BY <1>1, <2>1 DEF n
  <1>9. Trim(s) = SubSeq(s, 1, e)
    BY DEF Trim, S
  <1> HIDE DEF e
  <1> QED BY <1>8, <1>9, PartOfSeq

LEMMA MessageIsClean ==
    ASSUME NEW p \in PieceType
    PROVE  /\ ExactlyRedacted(Trim(p.text), Message(p))
           /\ Message(p) \in Clean /\ Append(Message(p), "n") \in Clean
  <1> DEFINE line == Trim(p.text)
             m == Message(p)
             ended == Append(m, "n")
  <1>1. line \in Seq(Symbols)
    <2>1. p.text \in Seq(Symbols)
      BY DEF PieceType
    <2> QED BY <2>1, TrimmedIsText
  <1>2. m = Redact(line)
    BY DEF Message
  <1> HIDE DEF line, m
  <1>3. m \in Seq(Symbols) /\ ExactlyRedacted(line, m)
    BY <1>1, <1>2, RedactExact
  <1>4. m \in Clean
    BY <1>3 DEF Clean, ExactlyRedacted
  <1>5. /\ ended \in Seq(Symbols) /\ Len(ended) = Len(m) + 1 /\ ended[Len(m) + 1] = "n"
        /\ Len(m) \in Nat /\ \A i \in 1..Len(m) : ended[i] = m[i]
    <2>1. "n" \in Symbols
      BY DEF Symbols, Delimiter
    <2> QED BY <1>3, <2>1
  <1> HIDE DEF ended
  <1>6. ASSUME NEW w \in ToSet(Secrets), Occurs(w, ended) PROVE FALSE
    <2>1. w \in Word /\ ~Occurs(w, m)
      BY <1>3, SecretWords DEF ExactlyRedacted
    <2>2. PICK i \in 1..Len(ended) : Stands(ended, w, i)
      BY <1>5, <1>6, <2>1, OccursStands
    <2>3. Len(w) \in Nat /\ Len(w) >= 1 /\ \A j \in 1..Len(w) : w[j] # "n"
      BY <2>1, WordFacts
    <2>4. i \in Nat /\ i >= 1
      BY <1>5
    <2>5. i + Len(w) - 1 <= Len(ended) /\ \A j \in 0..(Len(w) - 1) : ended[i + j] = w[j + 1]
      BY <1>5, <2>1, <2>2, <2>4, StandsAt
    <2>6. CASE i + Len(w) - 1 <= Len(m)
      <3>1. i \in 1..Len(m)
        BY <1>5, <2>3, <2>4, <2>6
      <3>2. \A j \in 0..(Len(w) - 1) : i + j \in 1..Len(m)
        BY <1>5, <2>3, <2>4, <2>6
      <3>3. \A j \in 0..(Len(w) - 1) : m[i + j] = w[j + 1]
        BY <1>5, <2>5, <3>2
      <3>4. Stands(m, w, i)
        BY <1>3, <2>1, <2>4, <2>6, <3>3, StandsAt
      <3> QED BY <1>3, <2>1, <3>1, <3>4, OccursStands
    <2>7. CASE ~(i + Len(w) - 1 <= Len(m))
      <3> DEFINE j == Len(w) - 1
                 k == Len(w)
      <3>1. /\ j \in 0..(Len(w) - 1) /\ j + 1 = k /\ k \in 1..Len(w) /\ i + j = Len(m) + 1
        <4>1. \A x, y \in Nat : x >= 1 /\ i + x - 1 <= y + 1 /\ ~(i + x - 1 <= y) =>
                 x - 1 \in 0..(x - 1) /\ (x - 1) + 1 = x /\ x \in 1..x /\ i + (x - 1) = y + 1
          BY <2>4
        <4>2. i + Len(w) - 1 <= Len(m) + 1
          BY <1>5, <2>5
        <4> QED BY <1>5, <2>3, <2>7, <4>1, <4>2
      <3> HIDE DEF j, k
      <3>2. ended[i + j] = w[k] /\ w[k] # "n"
        BY <2>3, <2>5, <3>1
      <3> QED BY <1>5, <3>1, <3>2
    <2> QED BY <2>6, <2>7
  <1>7. ended \in Clean
    BY <1>5, <1>6 DEF Clean
  <1> QED BY <1>3, <1>4, <1>7 DEF line, m, ended

(* What a step hands to the inner writer are such messages. *)
LEMMA SinkStaysClean ==
    ASSUME WriterInv, sink \in Seq(Clean), [WriterNext \/ AuditNext]_logVars
    PROVE  sink' \in Seq(Clean)
  <1> DEFINE C == Clean
             P == PieceType
  <1>1. ASSUME NEW t \in Loggers, writes < Len(Chunks), NEW chunk \in Chunks[writes + 1],
               Write(t, chunk) \/ WriteFails(t, chunk)
        PROVE  sink' \in Seq(C)
    <2> DEFINE text == pending \o Lossy(chunk)
    <2>1. chunk \in Seq(Bytes)
      <3> DEFINE T == SUBSET Seq(Bytes)
      <3>1. Chunks \in Seq(T) /\ writes \in Nat
        BY LogsAssumption DEF WriterInv, WriterTypes
      <3>2. writes + 1 \in 1..Len(Chunks)
        BY <1>1, <3>1
      <3>3. Chunks[writes + 1] \in T
        <4> HIDE DEF T
        <4> QED BY <3>1, <3>2
      <3> QED BY <3>3
    <2>2. text \in Seq(Symbols)
      BY <2>1, LossyIsText, ConcatProperties DEF WriterInv, WriterTypes
    <2>3. Len(Ends(text)) \in Nat
      BY <2>2, EndsOfLines
    <2>4. \A n \in 1..Len(Ends(text)) : n \in 0..Len(Ends(text))
      BY <2>3
    <2>5. Len(Ends(text)) \in 0..Len(Ends(text))
      BY <2>3
    <2>6. PICK n \in 0..Len(Ends(text)) : \E whole \in BOOLEAN : TakeLines(t, chunk, n, whole)
      BY <1>1, <2>4, <2>5 DEF Write, WriteFails
    <2>7. PICK whole \in BOOLEAN : TakeLines(t, chunk, n, whole)
      BY <2>6
    <2> DEFINE lines == Lines(text, n)
               k == IF whole THEN n ELSE n - 1
               more == [i \in 1..k |-> Append(Message(lines[i]), "n")]
    <2>8. sink' = sink \o more
      BY <2>7 DEF TakeLines
    <2>9. lines \in Seq(P) /\ Len(lines) = n
      <3>1. lines \in Seq(P)
        BY <2>2, LinesAreText DEF PieceType
      <3>2. n \in Nat /\ Len(lines) = n
        BY <2>3 DEF Lines
      <3> QED BY <3>1, <3>2
    <2>10. k \in 0..n \/ k = -1
      BY <2>3
    <2> HIDE DEF text, P, C, lines, k
    <2>11. \A i \in 1..k : Append(Message(lines[i]), "n") \in C
      <3>1. \A i \in 1..k : i \in 1..Len(lines)
        BY <2>3, <2>9, <2>10
      <3>2. \A i \in 1..k : lines[i] \in P
        BY <2>9, <3>1
      <3> QED BY <3>2, MessageIsClean DEF C, P
    <2>12. more \in Seq(C)
      <3>1. CASE k \in 0..n
        <4>1. k \in Nat
          BY <2>3, <3>1
        <4> QED BY <2>11, <4>1
      <3>2. CASE k = -1
        <4>1. 1..k = 1..0
          BY <3>2
        <4>2. more \in [1..0 -> C]
          BY <4>1
        <4>3. ASSUME NEW f \in [1..0 -> C] PROVE f \in Seq(C)
          OBVIOUS
        <4> HIDE DEF more
        <4> QED BY <4>2, <4>3
      <3> QED BY <2>10, <3>1, <3>2
    <2> HIDE DEF more
    <2>13. sink \in Seq(C)
      BY DEF C
    <2> QED BY <2>8, <2>12, <2>13, ConcatProperties
  <1>2. ASSUME NEW t \in Loggers, Flush(t) PROVE sink' \in Seq(C)
    <2> DEFINE p == Piece(pending, TRUE)
    <2>1. p \in P
      BY DEF WriterInv, WriterTypes, Piece, PieceType
    <2>2. sink' = Append(sink, Message(p)) \/ sink' = sink
      BY <1>2 DEF Flush
    <2>3. Message(p) \in C
      BY <2>1, MessageIsClean
    <2> HIDE DEF C, p, P
    <2>4. sink \in Seq(C)
      BY DEF C
    <2> QED BY <2>2, <2>3, <2>4
  <1>3. ASSUME UNCHANGED sink PROVE sink' \in Seq(C)
    BY <1>3
  <1> QED BY <1>1, <1>2, <1>3 DEF WriterNext, Clear, AuditNext, AppendRecord, AppendRest, AppendFails,
         AppendPart, writerVars, logVars

(* redact and scrub_sensitive_pairs, redact.rs:70-160, behind write and flush,
   redact_writer.rs:76-102: for all secrets that have no line break and cannot
   overlap the marker, and every sequence of writes by any threads, no line
   that reaches the inner writer or the buffer has a registered secret in it,
   and nothing but secrets and values of sensitive keys is replaced.  The line
   is what the writes decode to, so that a secret with a character that two
   writes share is none.  The value of a sensitive key is not left if it is in
   no earlier pair's value; one that is, as in "error: password=x", is left. *)
THEOREM RedactionTheorem == LogSpec => []RedactedExactly
  <1>1. LogInit => WriterInv /\ sink \in Seq(Clean)
    BY WriterStarts DEF LogInit
  <1>2. WriterInv /\ sink \in Seq(Clean) /\ [LogNext]_logVars => (WriterInv /\ sink \in Seq(Clean))'
    BY WriterStep, SinkStaysClean DEF LogNext
  <1>3. WriterInv /\ sink \in Seq(Clean) => RedactedExactly
    <2> SUFFICES ASSUME WriterInv, sink \in Seq(Clean) PROVE RedactedExactly
      OBVIOUS
    <2>1. taken \in Seq(PieceType) /\ entries \in Seq(EntryType)
      BY DEF WriterInv, WriterTypes
    <2>2. ASSUME NEW i \in DOMAIN taken PROVE ExactlyRedacted(Trim(taken[i].text), Message(taken[i]))
      <3>1. taken[i] \in PieceType
        BY <2>1
      <3> QED BY <3>1, MessageIsClean
    <2>3. ASSUME NEW i \in DOMAIN sink, NEW w \in ToSet(Secrets) PROVE ~Occurs(w, sink[i])
      <3>1. sink[i] \in Clean
        OBVIOUS
      <3> QED BY <3>1 DEF Clean
    <2>4. ASSUME NEW i \in DOMAIN entries, NEW w \in ToSet(Secrets) PROVE ~Occurs(w, entries[i].text)
      <3>1. entries[i] \in EntryType
        BY <2>1
      <3>2. PICK p \in PieceType : entries[i].text = Message(p)
        BY <3>1 DEF EntryType, LogTexts
      <3>3. Message(p) \in Clean
        BY MessageIsClean
      <3> QED BY <3>2, <3>3 DEF Clean
    <2> QED BY <2>2, <2>3, <2>4 DEF RedactedExactly
  <1> QED BY <1>1, <1>2, <1>3, PTL DEF LogSpec

------------------------------------------------------------------------------
(* The audit trail. *)

PartNames == {"all", "head", "tail", "cut", "rest", "break"}
PartType == Nat \X PartNames

(* Where an append stopped short: a record begins there and no line break
   follows its last character. *)
CutShort(i) ==
    \/ file[i][2] \in {"head", "cut"}
    \/ file[i][2] = "all" /\ ~(i < Len(file) /\ file[i + 1] = Break)
TornAt == {i \in 1..Len(file) : CutShort(i)}
Begins(f, i, r) == i \in 1..Len(f) /\ f[i][1] = r /\ f[i][2] \in {"all", "head", "cut"}

TrailTypes ==
    /\ records \in Nat /\ shorts \in Nat
    /\ file \in Seq(PartType) /\ reported \in SUBSET (1..records)
    /\ appending \in [Auditors -> {NoRecord} \cup ((1..records) \X {"rest", "tail", "none"})]
TrailParts ==
    \A i \in 1..Len(file) :
        /\ file[i][2] = "break" => file[i] = Break
        /\ file[i][2] \in {"tail", "rest"} => i < Len(file) /\ file[i + 1] = Break
TrailBegins ==
    /\ \A r \in reported : \E i \in 1..Len(file) : Begins(file, i, r)
    /\ \A a \in Auditors : appending[a] # NoRecord => \E i \in 1..Len(file) : Begins(file, i, appending[a][1])
TrailInv == TrailTypes /\ TrailParts /\ TrailBegins /\ Cardinality(TornAt) <= shorts

LEMMA ImageSize ==
    ASSUME NEW S, IsFiniteSet(S), NEW f, f = [x \in S |-> f[x]]
    PROVE  /\ IsFiniteSet({f[x] : x \in S}) /\ Cardinality({f[x] : x \in S}) <= Cardinality(S)
  <1> DEFINE T == {f[x] : x \in S}
  <1>1. f \in [S -> T]
    OBVIOUS
  <1>2. \A y \in T : \E x \in S : f[x] = y
    OBVIOUS
  <1> HIDE DEF T
  <1>3. f \in Surjection(S, T)
    BY <1>1, <1>2 DEF Surjection
  <1>4. IsFiniteSet(T) /\ Cardinality(T) <= Cardinality(S)
    BY <1>3, FS_Surjection
  <1> QED BY <1>4 DEF T

(* The line breaks of the trail: in order, and all of them. *)
LEMMA BreaksOfTrail ==
    ASSUME file \in Seq(PartType)
    PROVE  /\ Breaks \in Seq(1..Len(file))
           /\ ToSet(Breaks) = {i \in 1..Len(file) : file[i] = Break}
           /\ \A i, j \in 1..Len(Breaks) : i < j => Breaks[i] < Breaks[j]
  <1> DEFINE n == Len(file)
             G == {i \in 1..n : file[i] = Break}
  <1>1. DOMAIN file = 1..n /\ n \in Nat /\ G \in SUBSET (1..n)
    <2> HIDE DEF PartType
    <2> QED OBVIOUS
  <1>2. Breaks = Kept([i \in 1..n |-> i], G)
    BY <1>1 DEF Breaks
  <1> HIDE DEF n, G
  <1>3. ASSUME NEW m \in Nat, NEW P \in SUBSET (1..m), NEW p, p = Kept([i \in 1..m |-> i], P)
        PROVE  /\ p \in Seq(1..m) /\ ToSet(p) = P
               /\ \A i, j \in 1..Len(p) : i < j => p[i] < p[j]
    BY <1>3, KeptPositions
  <1>4. /\ Breaks \in Seq(1..n) /\ ToSet(Breaks) = G
        /\ \A i, j \in 1..Len(Breaks) : i < j => Breaks[i] < Breaks[j]
    BY <1>1, <1>2, <1>3
  <1> QED BY <1>4 DEF n, G

(* A record between two line breaks is a line of the trail. *)
LEMMA WholeIsLine ==
    ASSUME file \in Seq(PartType), NEW i \in 1..Len(file), i < Len(file),
           file[i] # Break, file[i + 1] = Break, i = 1 \/ file[i - 1] = Break
    PROVE  \E k \in 1..Len(Breaks) : AuditLine(k) = <<file[i]>>
  <1>1. /\ Breaks \in Seq(1..Len(file)) /\ ToSet(Breaks) = {j \in 1..Len(file) : file[j] = Break}
        /\ \A j, k \in 1..Len(Breaks) : j < k => Breaks[j] < Breaks[k]
    BY BreaksOfTrail
  <1>2. /\ Len(file) \in Nat /\ Len(Breaks) \in Nat /\ DOMAIN Breaks = 1..Len(Breaks)
        /\ \A k \in 1..Len(Breaks) : Breaks[k] \in 1..Len(file)
    <2>1. Len(file) \in Nat
      <3> HIDE DEF PartType
      <3> QED OBVIOUS
    <2> DEFINE D == 1..Len(file)
    <2>2. Breaks \in Seq(D)
      BY <1>1
    <2> HIDE DEF D
    <2>3. Len(Breaks) \in Nat /\ DOMAIN Breaks = 1..Len(Breaks) /\ \A k \in 1..Len(Breaks) : Breaks[k] \in D
      BY <2>2
    <2> QED BY <2>1, <2>3 DEF D
  <1>3. \A k \in 1..Len(Breaks) : file[Breaks[k]] = Break
    BY <1>1, <1>2 DEF ToSet
  <1>4. \A j \in 1..Len(file) : file[j] = Break => \E k \in 1..Len(Breaks) : Breaks[k] = j
    BY <1>1, <1>2 DEF ToSet
  <1>5. PICK k \in 1..Len(Breaks) : Breaks[k] = i + 1
    <2>1. i + 1 \in 1..Len(file)
      BY <1>2
    <2> QED BY <1>4, <2>1
  <1> DEFINE before == IF k = 1 THEN 0 ELSE Breaks[k - 1]
  <1>6. before = i - 1
    <2>1. CASE i = 1
      <3>1. ASSUME k # 1 PROVE FALSE
        <4>1. k - 1 \in 1..Len(Breaks) /\ k - 1 < k
          BY <1>2, <3>1
        <4>2. Breaks[k - 1] < Breaks[k] /\ Breaks[k - 1] \in 1..Len(file) /\ file[Breaks[k - 1]] = Break
          BY <1>1, <1>2, <1>3, <4>1
        <4>3. Breaks[k - 1] = i
          BY <1>5, <2>1, <4>2
        <4> QED BY <4>2, <4>3
      <3> QED BY <2>1, <3>1
    <2>2. CASE i # 1
      <3>1. i - 1 \in 1..Len(file) /\ file[i - 1] = Break
        BY <1>2, <2>2
      <3>2. PICK q \in 1..Len(Breaks) : Breaks[q] = i - 1
        BY <1>4, <3>1
      <3>3. q < k
        <4>1. ~(q = k) /\ ~(k < q)
          BY <1>1, <1>5, <3>2
        <4> QED BY <1>2, <4>1
      <3>4. k # 1 /\ k - 1 \in 1..Len(Breaks) /\ k - 1 < k /\ (q = k - 1 \/ q < k - 1)
        BY <1>2, <3>3
      <3>5. Breaks[k - 1] < Breaks[k] /\ Breaks[k - 1] \in 1..Len(file) /\ file[Breaks[k - 1]] = Break
        BY <1>1, <1>2, <1>3, <3>4
      <3>6. i - 1 <= Breaks[k - 1]
        <4>1. CASE q = k - 1
          BY <1>2, <3>2, <4>1
        <4>2. CASE q < k - 1
          <5>1. Breaks[q] < Breaks[k - 1]
            BY <1>1, <3>4, <4>2
          <5> QED BY <1>2, <3>2, <3>5, <5>1
        <4> QED BY <3>4, <4>1, <4>2
      <3>7. Breaks[k - 1] # i
        BY <3>5
      <3>8. Breaks[k - 1] = i - 1
        <4>1. \A b, l \in Nat : l - 1 <= b /\ b < l => b = l - 1
          OBVIOUS
        <4>2. Breaks[k - 1] \in Nat /\ i \in Nat /\ Breaks[k - 1] < i
          BY <1>2, <1>5, <3>5, <3>7
        <4> QED BY ONLY <3>6, <4>1, <4>2
      <3> QED BY <3>4, <3>8
    <2> QED BY <2>1, <2>2
  <1>7. AuditLine(k) = SubSeq(file, i, i)
    <2>1. (i - 1) + 1 = i /\ ~(k > Len(Breaks)) /\ Breaks[k] - 1 = i
      BY <1>2, <1>5
    <2> QED BY <1>6, <2>1 DEF AuditLine
  <1>8. SubSeq(file, i, i) = <<file[i]>>
    <2> DEFINE l == SubSeq(file, i, i)
    <2>1. i \in 1..Len(file) + 1 /\ i \in (i - 1)..Len(file) /\ i - i + 1 = 1 /\ i + 1 - 1 = i
      BY <1>2
    <2>2. l \in Seq(PartType) /\ Len(l) = i - i + 1 /\ \A j \in 1..(i - i + 1) : l[j] = file[i + j - 1]
      BY <2>1, PartOfSeq
    <2> HIDE DEF l, PartType
    <2>3. Len(l) = 1 /\ l[1] = file[i]
      <3>1. Len(l) = 1 /\ 1 \in 1..(i - i + 1)
        BY <2>1, <2>2
      <3>2. l[1] = file[i + 1 - 1]
        BY <2>2, <3>1
      <3> QED BY <2>1, <3>1, <3>2
    <2>4. \A x \in Seq(PartType) : Len(x) = 1 => x = <<x[1]>>
      OBVIOUS
    <2>5. l = <<l[1]>>
      BY <2>2, <2>3, <2>4
    <2> QED BY <2>3, <2>5 DEF l
  <1> QED BY <1>7, <1>8

(* ... and is read back. *)
LEMMA WholeIsRead ==
    ASSUME file \in Seq(PartType), NEW i \in 1..Len(file), i < Len(file),
           file[i][2] = "all", file[i + 1] = Break, i = 1 \/ file[i - 1] = Break
    PROVE  file[i][1] \in ToSet(Records)
  <1>0. file[i] # Break
    BY DEF Break
  <1>1. PICK k \in 1..Len(Breaks) : AuditLine(k) = <<file[i]>>
    BY <1>0, WholeIsLine
  <1> DEFINE m == Len(Breaks) + IF LastBreak < Len(file) THEN 1 ELSE 0
             L == {AuditLine(j) : j \in 1..m}
             G == {l \in ToSet(AuditLines) : IsRecord(l)}
             good == Kept(AuditLines, G)
  <1>2. m \in Nat /\ 1..Len(Breaks) \subseteq 1..m
    <2> DEFINE D == 1..Len(file)
    <2>1. Breaks \in Seq(D)
      BY BreaksOfTrail
    <2> HIDE DEF D
    <2>2. Len(Breaks) \in Nat
      BY <2>1
    <2> QED BY <2>2
  <1>3. AuditLines \in Seq(L) /\ AuditLine(k) \in ToSet(AuditLines)
    <2>1. AuditLines = [j \in 1..m |-> AuditLine(j)]
      BY DEF AuditLines
    <2>2. AuditLines \in [1..m -> L] /\ DOMAIN AuditLines = 1..m
      BY <2>1
    <2>3. k \in 1..m /\ AuditLines[k] = AuditLine(k)
      BY <1>2, <2>1
    <2> HIDE DEF m, L
    <2>4. AuditLines \in Seq(L)
      BY <1>2, <2>2, SequenceOf
    <2> QED BY <2>2, <2>3, <2>4 DEF ToSet
  <1>4. IsRecord(AuditLine(k))
    <2>1. Len(<<file[i]>>) = 1 /\ <<file[i]>>[1] = file[i]
      OBVIOUS
    <2> QED BY <1>1, <2>1 DEF IsRecord
  <1>5. AuditLine(k) \in ToSet(good)
    <2>1. AuditLine(k) \in G
      BY <1>3, <1>4
    <2> HIDE DEF G, L
    <2>2. ToSet(Kept(AuditLines, G)) = ToSet(AuditLines) \cap G
      BY <1>3, KeptMembers
    <2> QED BY <1>3, <2>1, <2>2
  <1>6. Records = [j \in DOMAIN good |-> good[j][1][1]]
    BY DEF Records
  <1> HIDE DEF good
  <1>7. PICK j \in DOMAIN good : good[j] = AuditLine(k)
    BY <1>5 DEF ToSet
  <1>8. Records[j] = file[i][1] /\ j \in DOMAIN Records
    <2>1. Records[j] = good[j][1][1] /\ j \in DOMAIN Records
      BY <1>6, <1>7
    <2>2. \A x : <<x>>[1][1] = x[1]
      OBVIOUS
    <2> QED BY <1>1, <1>7, <2>1, <2>2
  <1> QED BY <1>8 DEF ToSet

(* A record that was reported and is not read back was cut short itself, or
   follows one that was: the torn places account for what is lost. *)
LEMMA TornAccountForLost ==
    ASSUME TrailInv
    PROVE  Cardinality(reported \ ToSet(Records)) <= 2 * shorts
  <1> DEFINE lost == reported \ ToSet(Records)
             f == [i \in TornAt |-> file[i][1]]
             g == [i \in TornAt |-> file[i + 1][1]]
             A == {f[i] : i \in TornAt}
             B == {g[i] : i \in TornAt}
  <1>1. file \in Seq(PartType) /\ Len(file) \in Nat /\ shorts \in Nat
    <2>1. file \in Seq(PartType) /\ shorts \in Nat
      BY DEF TrailInv, TrailTypes
    <2> HIDE DEF PartType
    <2> QED BY <2>1
  <1>2. IsFiniteSet(TornAt)
    <2>1. IsFiniteSet(1..Len(file))
      BY <1>1, FS_Interval
    <2> QED BY <2>1, FS_Subset DEF TornAt
  <1>3. ASSUME NEW r \in lost PROVE r \in A \cup B
    <2>1. PICK i \in 1..Len(file) : Begins(file, i, r)
      BY DEF TrailInv, TrailBegins
    <2>2. CASE i \in TornAt
      <3>1. f[i] = r
        BY <2>1, <2>2 DEF Begins
      <3> HIDE DEF f
      <3> QED BY <2>2, <3>1
    <2>3. CASE i \notin TornAt
      <3>1. file[i][2] = "all" /\ i < Len(file) /\ file[i + 1] = Break /\ file[i][1] = r
        BY <2>1, <2>3 DEF TornAt, CutShort, Begins
      <3>2. i # 1 /\ file[i - 1] # Break
        BY <1>1, <3>1, WholeIsRead
      <3> DEFINE p == i - 1
      <3>3. p \in 1..Len(file) /\ p + 1 = i /\ file[p + 1] = file[i]
        BY <1>1, <3>2
      <3>4. file[p] \in PartType
        <4> HIDE DEF PartType, p
        <4> QED BY <1>1, <3>3
      <3>5. file[p][2] \in PartNames
        BY <3>4 DEF PartType
      <3>6. file[i] # Break
        BY <3>1 DEF Break
      <3>7. file[p][2] # "break" /\ file[p][2] \notin {"tail", "rest"}
        BY <3>2, <3>3, <3>6 DEF TrailInv, TrailParts
      <3>8. CutShort(p)
        BY <3>3, <3>5, <3>6, <3>7 DEF CutShort, PartNames
      <3>9. p \in TornAt
        BY <3>3, <3>8 DEF TornAt
      <3>10. g[p] = r
        BY <3>1, <3>3, <3>9
      <3> HIDE DEF g, p
      <3> QED BY <3>9, <3>10
    <2> QED BY <2>2, <2>3
  <1>4. /\ IsFiniteSet(A) /\ Cardinality(A) <= Cardinality(TornAt)
        /\ IsFiniteSet(B) /\ Cardinality(B) <= Cardinality(TornAt)
    <2>1. f = [x \in TornAt |-> f[x]] /\ g = [x \in TornAt |-> g[x]]
      OBVIOUS
    <2> HIDE DEF f, g
    <2> QED BY <1>2, <2>1, ImageSize
  <1> HIDE DEF lost, A, B
  <1>5. Cardinality(A) \in Nat /\ Cardinality(B) \in Nat /\ Cardinality(A \cap B) \in Nat
    <2>1. IsFiniteSet(A \cap B)
      BY <1>4, FS_Subset
    <2> QED BY <1>4, <2>1, FS_CardinalityType
  <1>6. IsFiniteSet(A \cup B) /\ Cardinality(A \cup B) <= Cardinality(A) + Cardinality(B)
    <2>1. IsFiniteSet(A \cup B) /\ Cardinality(A \cup B) = Cardinality(A) + Cardinality(B) - Cardinality(A \cap B)
      BY <1>4, FS_Union
    <2> QED BY <1>5, <2>1
  <1>7. Cardinality(lost) <= Cardinality(A \cup B) /\ IsFiniteSet(lost)
    <2>1. lost \in SUBSET (A \cup B)
      BY <1>3
    <2> QED BY <1>6, <2>1, FS_Subset
  <1>8. Cardinality(TornAt) <= shorts /\ Cardinality(TornAt) \in Nat
        /\ Cardinality(lost) \in Nat /\ Cardinality(A \cup B) \in Nat
    BY <1>2, <1>6, <1>7, FS_CardinalityType DEF TrailInv
  <1>9. Cardinality(lost) <= 2 * shorts
    BY <1>1, <1>4, <1>5, <1>6, <1>7, <1>8
  <1> QED BY <1>9 DEF lost

(* What is appended to the file leaves what there is as it was; only an append
   that was cut short makes a new torn place. *)
LEMMA FileGrows ==
    ASSUME TrailInv, NEW new \in Seq(PartType), file' = file \o new
    PROVE  /\ file' \in Seq(PartType) /\ Len(file') = Len(file) + Len(new)
           /\ Len(file) \in Nat /\ Len(new) \in Nat
           /\ \A i \in 1..Len(file) : i \in 1..Len(file') /\ file'[i] = file[i]
           /\ \A i \in 1..Len(new) : Len(file) + i \in 1..Len(file') /\ file'[Len(file) + i] = new[i]
           /\ \A i \in 1..Len(file') : i \in 1..Len(file) \/ i - Len(file) \in 1..Len(new)
           /\ \A i \in 1..Len(file) : i \in TornAt' => i \in TornAt
           /\ \A r : \A i \in 1..Len(file) : Begins(file, i, r) => Begins(file', i, r)
  <1>1. file \in Seq(PartType)
    BY DEF TrailInv, TrailTypes
  <1>2. /\ file' \in Seq(PartType) /\ Len(file') = Len(file) + Len(new)
        /\ \A i \in 1..Len(file) + Len(new) : file'[i] = IF i <= Len(file) THEN file[i] ELSE new[i - Len(file)]
    BY <1>1, ConcatProperties
  <1>3. Len(file) \in Nat /\ Len(new) \in Nat
    <2> HIDE DEF PartType
    <2> QED BY <1>1
  <1>4. \A i \in 1..Len(file) : i \in 1..Len(file') /\ file'[i] = file[i]
    BY <1>2, <1>3
  <1>5. ASSUME NEW i \in 1..Len(new) PROVE Len(file) + i \in 1..Len(file') /\ file'[Len(file) + i] = new[i]
    <2>1. Len(file) + i \in 1..Len(file) + Len(new) /\ ~(Len(file) + i <= Len(file)) /\ (Len(file) + i) - Len(file) = i
      BY <1>3
    <2> QED BY <1>2, <2>1
  <1>6. \A i \in 1..Len(file') : i \in 1..Len(file) \/ i - Len(file) \in 1..Len(new)
    BY <1>2, <1>3
  <1>7. ASSUME NEW i \in 1..Len(file), i \in TornAt' PROVE i \in TornAt
    <2>1. file'[i] = file[i] /\ (i < Len(file) => i < Len(file') /\ file'[i + 1] = file[i + 1])
      BY <1>2, <1>3, <1>4
    <2> QED BY <1>7, <2>1 DEF TornAt, CutShort
  <1>8. \A r : \A i \in 1..Len(file) : Begins(file, i, r) => Begins(file', i, r)
    BY <1>4 DEF Begins
  <1> QED BY <1>2, <1>3, <1>4, <1>5, <1>6, <1>7, <1>8

LEMMA TornFinite ==
    ASSUME TrailInv
    PROVE  IsFiniteSet(TornAt) /\ Cardinality(TornAt) \in Nat
  <1>1. Len(file) \in Nat
    <2>1. file \in Seq(PartType)
      BY DEF TrailInv, TrailTypes
    <2> HIDE DEF PartType
    <2> QED BY <2>1
  <1>2. IsFiniteSet(1..Len(file))
    BY <1>1, FS_Interval
  <1>3. IsFiniteSet(TornAt)
    BY <1>2, FS_Subset DEF TornAt
  <1> QED BY <1>3, FS_CardinalityType

LEMMA RecordedWhole ==
    ASSUME TrailInv, NEW a \in Auditors, AppendRecord(a)
    PROVE  TrailInv'
  <1> DEFINE r == records + 1
             new == IF a \in attached THEN <<Part(r, "all"), Break>> ELSE <<>>
  <1>1. /\ records' = r /\ UNCHANGED <<attached, appending, shorts>>
        /\ file' = IF a \in attached THEN file \o new ELSE file
        /\ reported' = IF a \in attached THEN reported \cup {r} ELSE reported
    BY DEF AppendRecord
  <1>2. TrailTypes /\ TrailParts /\ TrailBegins
    BY DEF TrailInv
  <1>3. records \in Nat /\ r \in 1..r /\ 1..records \subseteq 1..r
    BY <1>2 DEF TrailTypes
  <1>4. appending' \in [Auditors -> {NoRecord} \cup ((1..records') \X {"rest", "tail", "none"})]
    <2> DEFINE F(n) == {NoRecord} \cup ((1..n) \X {"rest", "tail", "none"})
    <2>1. F(records) \subseteq F(r)
      BY <1>3
    <2>2. appending \in [Auditors -> F(records)]
      BY <1>2 DEF TrailTypes
    <2> HIDE DEF F
    <2>3. appending \in [Auditors -> F(r)]
      BY <2>1, <2>2
    <2> QED BY <1>1, <2>3 DEF F
  <1>5. CASE a \notin attached
    <2>1. file' = file /\ reported' = reported
      BY <1>1, <1>5
    <2>2. TrailTypes'
      BY <1>1, <1>2, <1>3, <1>4, <2>1 DEF TrailTypes
    <2>3. TrailParts' /\ TrailBegins' /\ TornAt' = TornAt /\ shorts' = shorts
      BY <1>1, <1>2, <2>1 DEF TrailParts, TrailBegins, TornAt, CutShort, Begins
    <2> QED BY <2>2, <2>3 DEF TrailInv
  <1>6. CASE a \in attached
    <2>1. new = <<Part(r, "all"), Break>> /\ file' = file \o new /\ reported' = reported \cup {r}
      BY <1>1, <1>6
    <2>2. Part(r, "all") \in PartType /\ Break \in PartType
      BY <1>3 DEF Part, Break, PartType, PartNames
    <2>3. new \in Seq(PartType) /\ Len(new) = 2 /\ new[1] = Part(r, "all") /\ new[2] = Break
      <3> DEFINE x == Part(r, "all")
                 y == Break
      <3>1. x \in PartType /\ y \in PartType
        BY <2>2
      <3>2. new = <<x, y>>
        BY <2>1
      <3> HIDE DEF x, y, PartType, new
      <3>3. new \in Seq(PartType) /\ Len(new) = 2 /\ new[1] = x /\ new[2] = y
        BY <3>1, <3>2
      <3> QED BY <3>3 DEF x, y
    <2> HIDE DEF new
    <2>4. /\ file' \in Seq(PartType) /\ Len(file') = Len(file) + 2 /\ Len(file) \in Nat
          /\ \A i \in 1..Len(file) : i \in 1..Len(file') /\ file'[i] = file[i]
          /\ \A i \in 1..2 : Len(file) + i \in 1..Len(file') /\ file'[Len(file) + i] = new[i]
          /\ \A i \in 1..Len(file') : i \in 1..Len(file) \/ i - Len(file) \in 1..2
          /\ \A i \in 1..Len(file) : i \in TornAt' => i \in TornAt
          /\ \A q : \A i \in 1..Len(file) : Begins(file, i, q) => Begins(file', i, q)
      BY <2>1, <2>3, FileGrows
    <2> DEFINE n == Len(file)
    <2>5. /\ file'[n + 1] = Part(r, "all") /\ file'[n + 2] = Break
          /\ n + 1 \in 1..Len(file') /\ n + 2 \in 1..Len(file') /\ n + 1 < Len(file') /\ (n + 1) + 1 = n + 2
          /\ \A i \in 1..Len(file') : i \in 1..n \/ i = n + 1 \/ i = n + 2
      BY <2>3, <2>4
    <2>6. TrailTypes'
      BY <1>1, <1>2, <1>3, <1>4, <2>1, <2>4 DEF TrailTypes
    <2>7. TrailParts'
      <3> SUFFICES ASSUME NEW i \in 1..Len(file')
                   PROVE  /\ file'[i][2] = "break" => file'[i] = Break
                          /\ file'[i][2] \in {"tail", "rest"} => i < Len(file') /\ file'[i + 1] = Break
        BY DEF TrailParts, Break
      <3>1. CASE i \in 1..n
        <4>1. /\ file[i][2] = "break" => file[i] = Break
              /\ file[i][2] \in {"tail", "rest"} => i < n /\ file[i + 1] = Break
          BY <1>2, <3>1 DEF TrailParts
        <4>2. i < n => i + 1 \in 1..n /\ i < Len(file')
          BY <2>4, <3>1
        <4> QED BY <2>4, <3>1, <4>1, <4>2
      <3>2. CASE i = n + 1
        BY <2>5, <3>2 DEF Part
      <3>3. CASE i = n + 2
        BY <2>5, <3>3 DEF Break
      <3> QED BY <2>5, <3>1, <3>2, <3>3
    <2>8. TrailBegins'
      <3>1. Begins(file', n + 1, r)
        BY <2>5 DEF Begins, Part
      <3>2. ASSUME NEW q \in reported' PROVE \E i \in 1..Len(file') : Begins(file', i, q)
        <4>1. CASE q = r
          BY <2>5, <3>1, <4>1
        <4>2. CASE q \in reported
          <5>1. PICK i \in 1..Len(file) : Begins(file, i, q)
            BY <1>2, <4>2 DEF TrailBegins
          <5> QED BY <2>4, <5>1
        <4> QED BY <2>1, <4>1, <4>2
      <3>3. \A b \in Auditors : appending'[b] # NoRecord => \E i \in 1..Len(file') : Begins(file', i, appending'[b][1])
        BY <1>1, <1>2, <2>4 DEF TrailBegins
      <3> QED BY <3>2, <3>3 DEF TrailBegins
    <2>9. TornAt' \subseteq TornAt
      <3> SUFFICES ASSUME NEW i \in TornAt' PROVE i \in TornAt
        OBVIOUS
      <3>1. i \in 1..Len(file')
        BY DEF TornAt
      <3>2. i # n + 1
        <4>1. ASSUME i = n + 1 PROVE FALSE
          BY <2>5, <4>1 DEF TornAt, CutShort, Part
        <4> QED BY <4>1
      <3>3. i # n + 2
        <4>1. ASSUME i = n + 2 PROVE FALSE
          BY <2>5, <4>1 DEF TornAt, CutShort, Break
        <4> QED BY <4>1
      <3> QED BY <2>4, <2>5, <3>1, <3>2, <3>3
    <2>10. Cardinality(TornAt') <= shorts'
      <3>1. IsFiniteSet(TornAt) /\ Cardinality(TornAt) \in Nat /\ Cardinality(TornAt) <= shorts /\ shorts \in Nat
        BY <1>2, TornFinite DEF TrailInv, TrailTypes
      <3>2. IsFiniteSet(TornAt') /\ Cardinality(TornAt') <= Cardinality(TornAt)
        BY <2>9, <3>1, FS_Subset
      <3>3. Cardinality(TornAt') \in Nat
        BY <3>2, FS_CardinalityType
      <3> QED BY <1>1, <3>1, <3>2, <3>3
    <2> QED BY <2>6, <2>7, <2>8, <2>10 DEF TrailInv
  <1> QED BY <1>5, <1>6

LEMMA PartsGrow ==
    ASSUME TrailInv, NEW new \in Seq(PartType), file' = file \o new,
           \A i \in 1..Len(new) :
              /\ new[i][2] = "break" => new[i] = Break
              /\ new[i][2] \in {"tail", "rest"} => i < Len(new) /\ new[i + 1] = Break
    PROVE  /\ TrailParts'
           /\ \A i \in TornAt' : \/ i \in TornAt
                                 \/ /\ i - Len(file) \in 1..Len(new)
                                    /\ new[i - Len(file)][2] \in {"head", "cut", "all"}
  <1> DEFINE n == Len(file)
  <1>1. /\ file' \in Seq(PartType) /\ Len(file') = n + Len(new)
        /\ n \in Nat /\ Len(new) \in Nat
        /\ \A i \in 1..n : i \in 1..Len(file') /\ file'[i] = file[i]
        /\ \A i \in 1..Len(new) : n + i \in 1..Len(file') /\ file'[n + i] = new[i]
        /\ \A i \in 1..Len(file') : i \in 1..n \/ i - n \in 1..Len(new)
        /\ \A i \in 1..n : i \in TornAt' => i \in TornAt
    BY FileGrows
  <1>2. ASSUME NEW i \in 1..Len(file'), i - n \in 1..Len(new)
        PROVE  file'[i] = new[i - n] /\ (i - n < Len(new) => i < Len(file') /\ file'[i + 1] = new[(i - n) + 1])
    <2>1. n + (i - n) = i /\ (i - n < Len(new) => (i - n) + 1 \in 1..Len(new) /\ n + ((i - n) + 1) = i + 1)
      BY <1>1, <1>2
    <2>2. file'[i] = new[i - n]
      BY <1>1, <1>2, <2>1
    <2>3. ASSUME i - n < Len(new) PROVE i < Len(file') /\ file'[i + 1] = new[(i - n) + 1]
      <3>1. n + ((i - n) + 1) \in 1..Len(file') /\ file'[n + ((i - n) + 1)] = new[(i - n) + 1]
        BY <1>1, <2>1, <2>3
      <3>2. i + 1 \in 1..Len(file') /\ file'[i + 1] = new[(i - n) + 1]
        BY <2>1, <2>3, <3>1
      <3> QED BY <1>1, <3>2
    <2> QED BY <2>2, <2>3
  <1>3. TrailParts'
    <2> SUFFICES ASSUME NEW i \in 1..Len(file')
                 PROVE  /\ file'[i][2] = "break" => file'[i] = Break
                        /\ file'[i][2] \in {"tail", "rest"} => i < Len(file') /\ file'[i + 1] = Break
      BY DEF TrailParts, Break
    <2>1. CASE i \in 1..n
      <3>1. /\ file[i][2] = "break" => file[i] = Break
            /\ file[i][2] \in {"tail", "rest"} => i < n /\ file[i + 1] = Break
        BY <2>1 DEF TrailInv, TrailParts
      <3>2. i < n => i + 1 \in 1..n /\ i < Len(file')
        BY <1>1, <2>1
      <3> QED BY <1>1, <2>1, <3>1, <3>2
    <2>2. CASE i - n \in 1..Len(new)
      <3>1. file'[i] = new[i - n] /\ (i - n < Len(new) => i < Len(file') /\ file'[i + 1] = new[(i - n) + 1])
        BY <1>2, <2>2
      <3> DEFINE j == i - n
      <3>2. /\ new[j][2] = "break" => new[j] = Break
            /\ new[j][2] \in {"tail", "rest"} => j < Len(new) /\ new[j + 1] = Break
        BY <2>2
      <3> QED BY <3>1, <3>2
    <2> QED BY <1>1, <2>1, <2>2
  <1>4. ASSUME NEW i \in TornAt', i \notin TornAt
        PROVE  i - n \in 1..Len(new) /\ new[i - n][2] \in {"head", "cut", "all"}
    <2>1. i \in 1..Len(file') /\ file'[i][2] \in {"head", "cut", "all"}
      BY DEF TornAt, CutShort
    <2>2. i - n \in 1..Len(new)
      BY <1>1, <1>4, <2>1
    <2> QED BY <1>2, <2>1, <2>2
  <1> QED BY <1>3, <1>4

(* What an unfinished append still has to write. *)
LEMMA PartLeft ==
    ASSUME TrailTypes, NEW a \in Auditors, appending[a] # NoRecord
    PROVE  /\ appending[a] \in (1..records) \X {"rest", "tail", "none"}
           /\ appending[a][1] \in 1..records /\ appending[a][2] \in {"rest", "tail", "none"}
           /\ appending[a] \in PartType \/ appending[a][2] = "none"
  <1> DEFINE p == appending[a]
             P == (1..records) \X {"rest", "tail", "none"}
  <1>1. p \in {NoRecord} \cup P
    BY DEF TrailTypes
  <1>2. p \in P
    BY <1>1
  <1>3. p[1] \in 1..records /\ p[2] \in {"rest", "tail", "none"} /\ p = <<p[1], p[2]>>
    BY <1>2
  <1>4. records \in Nat
    BY DEF TrailTypes
  <1>5. p[1] \in Nat
    BY <1>3, <1>4
  <1>6. CASE p[2] = "none"
    BY <1>2, <1>3, <1>6
  <1>7. CASE p[2] # "none"
    <2>1. p[2] \in PartNames
      BY <1>3, <1>7 DEF PartNames
    <2>2. <<p[1], p[2]>> \in PartType
      BY <1>5, <2>1 DEF PartType
    <2> QED BY <1>2, <1>3, <2>2
  <1> QED BY <1>6, <1>7

(* An append that is over leaves nothing to write. *)
LEMMA NothingLeft ==
    ASSUME TrailTypes, NEW a \in Auditors, appending' = [appending EXCEPT ![a] = NoRecord]
    PROVE  /\ appending' \in [Auditors -> {NoRecord} \cup ((1..records) \X {"rest", "tail", "none"})]
           /\ \A b \in Auditors : appending'[b] # NoRecord => appending[b] # NoRecord /\ appending'[b] = appending[b]
  <1> DEFINE F == {NoRecord} \cup ((1..records) \X {"rest", "tail", "none"})
  <1>1. appending \in [Auditors -> F] /\ NoRecord \in F
    BY DEF TrailTypes
  <1> HIDE DEF F
  <1>2. appending' \in [Auditors -> F] /\ \A b \in Auditors : appending'[b] = IF b = a THEN NoRecord ELSE appending[b]
    BY <1>1
  <1>3. \A b \in Auditors : appending'[b] # NoRecord => appending[b] # NoRecord /\ appending'[b] = appending[b]
    BY <1>2
  <1> QED BY <1>2, <1>3 DEF F

LEMMA FinishedWhole ==
    ASSUME TrailInv, NEW a \in Auditors, AppendRest(a)
    PROVE  TrailInv'
  <1> DEFINE p == appending[a]
             new == IF p[2] = "none" THEN <<Break>> ELSE <<p, Break>>
  <1>1. /\ p # NoRecord /\ file' = file \o new
        /\ appending' = [appending EXCEPT ![a] = NoRecord]
        /\ reported' = reported \cup {p[1]} /\ records' = records /\ shorts' = shorts
    BY DEF AppendRest
  <1>2. TrailTypes /\ TrailParts /\ TrailBegins
    BY DEF TrailInv
  <1>3. p[1] \in 1..records /\ p[2] \in {"rest", "tail", "none"} /\ (p \in PartType \/ p[2] = "none")
    BY <1>1, <1>2, PartLeft
  <1>4. Break \in PartType /\ Break[2] = "break"
    BY DEF Break, PartType, PartNames
  <1>5. /\ new \in Seq(PartType)
        /\ \A i \in 1..Len(new) :
              /\ new[i][2] = "break" => new[i] = Break
              /\ new[i][2] \in {"tail", "rest"} => i < Len(new) /\ new[i + 1] = Break
              /\ new[i][2] \notin {"head", "cut", "all"}
    <2> DEFINE y == Break
    <2> HIDE DEF y, p, PartType
    <2>1. y \in PartType /\ y[2] = "break"
      BY <1>4 DEF y
    <2>2. CASE p[2] = "none"
      <3>1. new = <<y>>
        BY <2>2 DEF y
      <3>2. <<y>> \in Seq(PartType) /\ Len(<<y>>) = 1 /\ <<y>>[1] = y
        BY <2>1
      <3> HIDE DEF new
      <3>3. \A i \in 1..Len(new) : new[i] = y
        BY <3>1, <3>2
      <3> QED BY <2>1, <3>1, <3>2, <3>3 DEF y
    <2>3. CASE p[2] # "none"
      <3>1. new = <<p, y>> /\ p \in PartType /\ p[2] \in {"rest", "tail"}
        BY <1>3, <2>3 DEF y
      <3>2. <<p, y>> \in Seq(PartType) /\ Len(<<p, y>>) = 2 /\ <<p, y>>[1] = p /\ <<p, y>>[2] = y
        BY <2>1, <3>1
      <3> HIDE DEF new
      <3>3. \A i \in 1..Len(new) : (i = 1 /\ new[i] = p /\ i < Len(new) /\ new[i + 1] = y) \/ new[i] = y
        BY <3>1, <3>2
      <3> QED BY <2>1, <3>1, <3>2, <3>3 DEF y
    <2> QED BY <2>2, <2>3
  <1> HIDE DEF new
  <1>6. /\ file' \in Seq(PartType)
        /\ \A i \in 1..Len(file) : i \in 1..Len(file')
        /\ \A q : \A i \in 1..Len(file) : Begins(file, i, q) => Begins(file', i, q)
    BY <1>1, <1>5, FileGrows
  <1>7. TrailParts' /\ TornAt' \subseteq TornAt
    <2>1. /\ TrailParts'
          /\ \A i \in TornAt' : \/ i \in TornAt
                                \/ /\ i - Len(file) \in 1..Len(new)
                                   /\ new[i - Len(file)][2] \in {"head", "cut", "all"}
      BY <1>1, <1>5, PartsGrow
    <2> QED BY <1>5, <2>1
  <1>8. /\ appending' \in [Auditors -> {NoRecord} \cup ((1..records) \X {"rest", "tail", "none"})]
        /\ \A b \in Auditors : appending'[b] # NoRecord => appending[b] # NoRecord /\ appending'[b] = appending[b]
    BY <1>1, <1>2, NothingLeft
  <1>9. TrailTypes'
    BY <1>1, <1>2, <1>3, <1>6, <1>8 DEF TrailTypes
  <1>10. ASSUME NEW b \in Auditors, appending[b] # NoRecord
         PROVE  \E i \in 1..Len(file') : Begins(file', i, appending[b][1])
    <2>1. PICK i \in 1..Len(file) : Begins(file, i, appending[b][1])
      BY <1>2, <1>10 DEF TrailBegins
    <2> QED BY <1>6, <2>1
  <1>11. TrailBegins'
    <2>1. ASSUME NEW q \in reported' PROVE \E i \in 1..Len(file') : Begins(file', i, q)
      <3>1. CASE q = p[1]
        BY <1>1, <1>10, <3>1
      <3>2. CASE q \in reported
        <4>1. PICK i \in 1..Len(file) : Begins(file, i, q)
          BY <1>2, <3>2 DEF TrailBegins
        <4> QED BY <1>6, <4>1
      <3> QED BY <1>1, <3>1, <3>2
    <2>2. \A b \in Auditors : appending'[b] # NoRecord => \E i \in 1..Len(file') : Begins(file', i, appending'[b][1])
      BY <1>8, <1>10
    <2> QED BY <2>1, <2>2 DEF TrailBegins
  <1>12. Cardinality(TornAt') <= shorts'
    <2>1. IsFiniteSet(TornAt) /\ Cardinality(TornAt) \in Nat /\ Cardinality(TornAt) <= shorts /\ shorts \in Nat
      BY <1>2, TornFinite DEF TrailInv, TrailTypes
    <2>2. IsFiniteSet(TornAt') /\ Cardinality(TornAt') <= Cardinality(TornAt)
      BY <1>7, <2>1, FS_Subset
    <2>3. Cardinality(TornAt') \in Nat
      BY <2>2, FS_CardinalityType
    <2> QED BY <1>1, <2>1, <2>2, <2>3
  <1> QED BY <1>7, <1>9, <1>11, <1>12 DEF TrailInv

LEMMA FailedWhole ==
    ASSUME TrailInv, NEW a \in Auditors, AppendFails(a)
    PROVE  TrailInv'
  <1>1. /\ appending' = [appending EXCEPT ![a] = NoRecord] /\ file' = file
        /\ reported' = reported /\ records' = records /\ shorts' = shorts
    BY DEF AppendFails
  <1>2. TrailTypes /\ TrailParts /\ TrailBegins /\ Cardinality(TornAt) <= shorts
    BY DEF TrailInv
  <1>3. /\ appending' \in [Auditors -> {NoRecord} \cup ((1..records) \X {"rest", "tail", "none"})]
        /\ \A b \in Auditors : appending'[b] # NoRecord => appending[b] # NoRecord /\ appending'[b] = appending[b]
    BY <1>1, <1>2, NothingLeft
  <1>4. TrailTypes'
    BY <1>1, <1>2, <1>3 DEF TrailTypes
  <1>5. TrailParts' /\ TornAt' = TornAt
    BY <1>1, <1>2 DEF TrailParts, TornAt, CutShort
  <1>6. TrailBegins'
    BY <1>1, <1>2, <1>3 DEF TrailBegins
  <1> QED BY <1>1, <1>2, <1>4, <1>5, <1>6 DEF TrailInv

------------------------------------------------------------------------------
LEMMA CutNames ==
    \A cut \in DOMAIN Cuts :
       /\ Cuts[cut][1] \in {"head", "cut", "all"}
       /\ Cuts[cut][2] \in {"rest", "tail", "none"}
  <1>1. DOMAIN Cuts = {"between", "inside", "atEnd"}
    BY DEF Cuts
  <1>2. /\ Cuts["between"] = <<"head", "tail">> /\ Cuts["inside"] = <<"cut", "rest">>
        /\ Cuts["atEnd"] = <<"all", "none">>
    BY DEF Cuts
  <1> QED BY <1>1, <1>2

LEMMA BegunWhole ==
    ASSUME TrailInv, NEW a \in Auditors, NEW cut \in DOMAIN Cuts, AppendPart(a, cut)
    PROVE  TrailInv'
  <1> DEFINE r == records + 1
             x == Part(r, Cuts[cut][1])
             y == Part(r, Cuts[cut][2])
             new == <<x>>
  <1>1. /\ records' = r /\ shorts' = shorts + 1
        /\ file' = Append(file, x)
        /\ appending' = [appending EXCEPT ![a] = y]
        /\ reported' = reported
    BY DEF AppendPart
  <1>2. TrailTypes /\ TrailParts /\ TrailBegins
    BY DEF TrailInv
  <1>3. records \in Nat /\ r \in Nat /\ r \in 1..r /\ 1..records \subseteq 1..r /\ shorts \in Nat
    BY <1>2 DEF TrailTypes
  <1>4. Cuts[cut][1] \in {"head", "cut", "all"} /\ Cuts[cut][2] \in {"rest", "tail", "none"}
    BY CutNames
  <1>5. x \in PartType /\ x[1] = r /\ x[2] \in {"head", "cut", "all"} /\ y[1] = r
    <2>1. x = <<r, Cuts[cut][1]>> /\ Cuts[cut][1] \in PartNames /\ y = <<r, Cuts[cut][2]>>
      BY <1>4 DEF Part, PartNames
    <2> QED BY <1>3, <1>4, <2>1 DEF PartType
  <1>6. y \in (1..r) \X {"rest", "tail", "none"}
    <2>1. y = <<r, Cuts[cut][2]>>
      BY DEF Part
    <2> QED BY <1>3, <1>4, <2>1
  <1>7. appending' \in [Auditors -> {NoRecord} \cup ((1..r) \X {"rest", "tail", "none"})]
    <2> DEFINE F(n) == {NoRecord} \cup ((1..n) \X {"rest", "tail", "none"})
    <2>1. F(records) \subseteq F(r) /\ y \in F(r)
      BY <1>3, <1>6
    <2>2. appending \in [Auditors -> F(records)]
      BY <1>2 DEF TrailTypes
    <2> HIDE DEF F, y
    <2>3. appending' \in [Auditors -> F(r)]
      BY <1>1, <2>1, <2>2
    <2> QED BY <2>3 DEF F
  <1>8. \A b \in Auditors : appending'[b] = IF b = a THEN y ELSE appending[b]
    BY <1>1, <1>2 DEF TrailTypes
  <1> HIDE DEF x, y
  <1>9. file \in Seq(PartType) /\ new \in Seq(PartType) /\ Len(new) = 1 /\ new[1] = x /\ file' = file \o new
    <2>1. file \in Seq(PartType)
      BY <1>2 DEF TrailTypes
    <2> HIDE DEF PartType
    <2>2. new \in Seq(PartType) /\ Len(new) = 1 /\ new[1] = x
      BY <1>5
    <2>3. Append(file, x) = file \o <<x>>
      BY <1>5, <2>1
    <2> QED BY <1>1, <2>1, <2>2, <2>3
  <1> HIDE DEF new
  <1>10. \A i \in 1..Len(new) : i = 1 /\ new[i] = x
    BY <1>9
  <1> DEFINE n == Len(file)
  <1>11. /\ file' \in Seq(PartType) /\ n \in Nat /\ Len(file') = n + Len(new)
         /\ \A i \in 1..n : i \in 1..Len(file')
         /\ \A i \in 1..Len(new) : n + i \in 1..Len(file') /\ file'[n + i] = new[i]
         /\ \A q : \A i \in 1..n : Begins(file, i, q) => Begins(file', i, q)
    BY <1>9, FileGrows
  <1>12. /\ TrailParts'
         /\ \A i \in TornAt' : i \in TornAt \/ i - n \in 1..Len(new)
    <2>1. \A i \in 1..Len(new) :
              /\ new[i][2] = "break" => new[i] = Break
              /\ new[i][2] \in {"tail", "rest"} => i < Len(new) /\ new[i + 1] = Break
      BY <1>5, <1>10
    <2> QED BY <1>9, <2>1, PartsGrow
  <1>13. TrailTypes'
    <2>1. reported \in SUBSET (1..records)
      BY <1>2 DEF TrailTypes
    <2> QED BY <1>1, <1>3, <1>7, <1>11, <2>1 DEF TrailTypes
  <1>14. TrailBegins'
    <2>1. n + 1 \in 1..Len(file') /\ Begins(file', n + 1, r)
      <3>1. 1 \in 1..Len(new)
        BY <1>9
      <3>2. n + 1 \in 1..Len(file') /\ file'[n + 1] = x
        BY <1>9, <1>11, <3>1
      <3> QED BY <1>5, <3>2 DEF Begins
    <2>2. ASSUME NEW q, \E i \in 1..n : Begins(file, i, q)
          PROVE  \E i \in 1..Len(file') : Begins(file', i, q)
      <3>1. PICK i \in 1..n : Begins(file, i, q)
        BY <2>2
      <3> QED BY <1>11, <3>1
    <2>3. \A q \in reported' : \E i \in 1..Len(file') : Begins(file', i, q)
      BY <1>1, <1>2, <2>2 DEF TrailBegins
    <2>4. ASSUME NEW b \in Auditors, appending'[b] # NoRecord
          PROVE  \E i \in 1..Len(file') : Begins(file', i, appending'[b][1])
      <3>1. CASE b = a
        BY <1>5, <1>8, <2>1, <3>1
      <3>2. CASE b # a
        <4>1. appending'[b] = appending[b]
          BY <1>8, <3>2
        <4> QED BY <1>2, <2>2, <2>4, <4>1 DEF TrailBegins
      <3> QED BY <3>1, <3>2
    <2> QED BY <2>3, <2>4 DEF TrailBegins
  <1>15. Cardinality(TornAt') <= shorts'
    <2>1. IsFiniteSet(TornAt) /\ Cardinality(TornAt) \in Nat /\ Cardinality(TornAt) <= shorts
      BY TornFinite DEF TrailInv
    <2>2. TornAt' \subseteq TornAt \cup {n + 1}
      <3> SUFFICES ASSUME NEW i \in TornAt' PROVE i \in TornAt \cup {n + 1}
        OBVIOUS
      <3>1. i \in 1..Len(file')
        BY DEF TornAt
      <3>2. i - n \in 1..Len(new) => i = n + 1
        BY <1>9, <1>11, <3>1
      <3> QED BY <1>12, <3>2
    <2>3. IsFiniteSet(TornAt \cup {n + 1}) /\ Cardinality(TornAt \cup {n + 1}) <= Cardinality(TornAt) + 1
      <3> DEFINE e == n + 1
      <3> HIDE DEF e
      <3>1. /\ IsFiniteSet(TornAt \cup {e})
            /\ Cardinality(TornAt \cup {e}) = IF e \in TornAt THEN Cardinality(TornAt) ELSE Cardinality(TornAt) + 1
        BY <2>1, FS_AddElement
      <3>2. Cardinality(TornAt \cup {e}) <= Cardinality(TornAt) + 1
        BY <2>1, <3>1
      <3> QED BY <3>1, <3>2 DEF e
    <2>4. IsFiniteSet(TornAt') /\ Cardinality(TornAt') <= Cardinality(TornAt \cup {n + 1})
      BY <2>2, <2>3, FS_Subset
    <2>5. Cardinality(TornAt') \in Nat /\ Cardinality(TornAt \cup {n + 1}) \in Nat
      BY <2>3, <2>4, FS_CardinalityType
    <2> QED BY <1>1, <1>3, <2>1, <2>3, <2>4, <2>5
  <1> QED BY <1>12, <1>13, <1>14, <1>15 DEF TrailInv

LEMMA TrailStart ==
    ASSUME LogInit
    PROVE  TrailInv
  <1>1. /\ file = <<>> /\ appending = [a \in Auditors |-> NoRecord]
        /\ reported = {} /\ records = 0 /\ shorts = 0
    BY DEF LogInit
  <1>2. Len(<<>>) = 0 /\ \A S : <<>> \in Seq(S)
    OBVIOUS
  <1>3. Len(file) = 0 /\ 1..Len(file) = {}
    BY <1>1, <1>2
  <1>4. TrailTypes
    BY <1>1, <1>2 DEF TrailTypes
  <1>5. TrailParts /\ TrailBegins
    BY <1>1, <1>3 DEF TrailParts, TrailBegins
  <1>6. TornAt = {} /\ Cardinality({}) = 0
    BY <1>3, FS_EmptySet DEF TornAt
  <1> QED BY <1>1, <1>4, <1>5, <1>6 DEF TrailInv

LEMMA TrailStep ==
    ASSUME TrailInv, [LogNext]_logVars
    PROVE  TrailInv'
  <1>1. ASSUME UNCHANGED auditVars PROVE TrailInv'
    <2>1. /\ file' = file /\ appending' = appending /\ reported' = reported
          /\ records' = records /\ shorts' = shorts
      BY <1>1 DEF auditVars
    <2>2. TrailTypes' /\ TrailParts' /\ TrailBegins' /\ TornAt' = TornAt
      BY <2>1 DEF TrailInv, TrailTypes, TrailParts, TrailBegins, TornAt, CutShort
    <2> QED BY <2>1, <2>2 DEF TrailInv
  <1>2. ASSUME WriterNext PROVE UNCHANGED auditVars
    BY <1>2 DEF WriterNext, Write, WriteFails, TakeLines, Flush, Clear
  <1>3. ASSUME NEW a \in Auditors, AppendRecord(a) PROVE TrailInv'
    BY <1>3, RecordedWhole
  <1>4. ASSUME NEW a \in Auditors, AppendRest(a) PROVE TrailInv'
    BY <1>4, FinishedWhole
  <1>5. ASSUME NEW a \in Auditors, AppendFails(a) PROVE TrailInv'
    BY <1>5, FailedWhole
  <1>6. ASSUME NEW a \in Auditors, NEW cut \in DOMAIN Cuts, AppendPart(a, cut) PROVE TrailInv'
    BY <1>6, BegunWhole
  <1>7. ASSUME AuditNext PROVE TrailInv'
    BY <1>3, <1>4, <1>5, <1>6, <1>7 DEF AuditNext
  <1>8. ASSUME UNCHANGED logVars PROVE UNCHANGED auditVars
    BY <1>8 DEF logVars
  <1> QED BY <1>1, <1>2, <1>7, <1>8 DEF LogNext

(* The bound on the records an audit file loses to appends that were cut short
   holds for any number of processes, records and short writes, and even when a
   character was cut: IsText is only needed for the file to be read at all. *)
THEOREM TrailTheorem == LogSpec => []AuditSurvivesShortWrites
  <1>1. LogInit => TrailInv
    BY TrailStart
  <1>2. TrailInv /\ [LogNext]_logVars => TrailInv'
    BY TrailStep
  <1>3. TrailInv => AuditSurvivesShortWrites
    BY TornAccountForLost DEF AuditSurvivesShortWrites
  <1> QED BY <1>1, <1>2, <1>3, PTL DEF LogSpec
==============================================================================
