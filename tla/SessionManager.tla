--------------------------- MODULE SessionManager ----------------------------
(***************************************************************************)
(* rdt-session/src/lib.rs: the table of live sessions, shared by the tasks *)
(* that run the sessions and by the threads that cancel and prune them.    *)
(*                                                                         *)
(* The table is behind one mutex, but no operation holds it from beginning *)
(* to end: `register` releases it before it announces the session,         *)
(* `transition` updates the slot, broadcasts and audits in three separate  *)
(* steps, and `cancel` removes the slot before it fires the cancellation   *)
(* token.  Each critical section, send and audit append is one action;     *)
(* `pc` says where in its call every thread is.                            *)
(*                                                                         *)
(* A session is driven by one task (its thread is the session itself); the *)
(* repository has no such task yet, so the states it may report are the    *)
(* parameter Moves.  Identifiers come from SessionId::new() and are fresh. *)
(***************************************************************************)
EXTENDS Naturals, FiniteSets

CONSTANTS
    Sessions,        \* session identifiers, and the tasks that drive them
    Controllers,     \* the threads that cancel: UI, command worker, agent
    MaxConcurrent,   \* ManagerPolicy::max_concurrent
    Audit,           \* ManagerPolicy::audit
    Moves,           \* <<from, to>>: the states a task reports one after another
    MaxAttempts,     \* bound: reconnections one task goes through
    MaxCalls,        \* bound: calls one controller makes
    NoSlot           \* "the table has no entry for this session"

SessionState == {"Idle", "Connecting", "Authenticating", "Connected",
                 "Reconnecting", "Disconnected", "Failed", "Cancelled"}

Terminal == {"Disconnected", "Failed", "Cancelled"}

(* What the table keeps of a session: the part of SessionInfo that changes.
   Profile, protocol, address, detail and age never decide anything. *)
Slot == [state : SessionState, attempt : Nat]

ASSUME ManagerAssumption ==
    /\ IsFiniteSet(Sessions)
    /\ Sessions \cap Controllers = {}
    /\ MaxConcurrent \in Nat \ {0}
    /\ Audit \in BOOLEAN
    /\ Moves \subseteq SessionState \X (SessionState \ {"Idle"})
    /\ MaxAttempts \in Nat
    /\ MaxCalls \in Nat
    /\ NoSlot \notin Slot

Threads == Sessions \cup Controllers

VARIABLES
    slots,    \* the table: a slot per session, or NoSlot
    token,    \* where the cancellation token of each session is
    at,       \* the state each task believes it is in
    last,     \* the latest state broadcast about each session
    told,     \* how often each state of each session was broadcast
    audited,  \* how often each audit record of each session was written
    pc,       \* where each thread is in its call
    call,     \* the transition each thread is carrying out
    todo,     \* what a cancel_all has still to cancel
    calls     \* calls each controller has made

news == <<last, told, audited>>
vars == <<slots, token, at, news, pc, call, todo, calls>>

TokenPlace == {"none", "armed", "taken", "fired", "dropped"}
TaskState == SessionState \cup {"Refused", "Stopped"}
Step == {"idle", "next", "fire", "update", "send", "audit", "release"}

(* The audit record of a transition. *)
Kind(s) ==
    CASE s \in {"Connecting", "Idle"} -> "SessionConnect"
      [] s = "Authenticating"         -> "AuthAttempt"
      [] s = "Connected"              -> "SessionEstablished"
      [] s = "Reconnecting"           -> "SessionReconnect"
      [] s \in Terminal               -> "SessionClosed"

Outcome(s) ==
    CASE s = "Failed"    -> "Failure"
      [] s = "Cancelled" -> "Denied"
      [] s = "Connected" -> "Success"
      [] OTHER           -> "Info"

Record(s) == [kind |-> Kind(s), outcome |-> Outcome(s)]
AuditRecord == {Record(s) : s \in SessionState}

TypeOK ==
    /\ slots \in [Sessions -> Slot \cup {NoSlot}]
    /\ token \in [Sessions -> TokenPlace]
    /\ at \in [Sessions -> TaskState]
    /\ last \in [Sessions -> SessionState \cup {"none"}]
    /\ told \in [Sessions -> [SessionState -> Nat]]
    /\ audited \in [Sessions -> [AuditRecord -> Nat]]
    /\ pc \in [Threads -> Step]
    /\ call \in [Threads -> [id : Sessions, state : SessionState]]
    /\ todo \in [Threads -> SUBSET Sessions]
    /\ calls \in [Controllers -> Nat]

------------------------------------------------------------------------------
(* The table, as the operations see it. *)

Listed == {i \in Sessions : slots[i] # NoSlot}
Finished(i) == slots[i] # NoSlot /\ slots[i].state \in Terminal
Active == {i \in Listed : slots[i].state \notin Terminal}
Registered == {i \in Sessions : at[i] \notin {"Idle", "Refused"}}

AdmitsOneMore == Cardinality(Active) <= MaxConcurrent
Admits == Cardinality(Active) < MaxConcurrent

Init ==
    /\ slots = [i \in Sessions |-> NoSlot]
    /\ token = [i \in Sessions |-> "none"]
    /\ at = [i \in Sessions |-> "Idle"]
    /\ last = [i \in Sessions |-> "none"]
    /\ told = [i \in Sessions |-> [s \in SessionState |-> 0]]
    /\ audited = [i \in Sessions |-> [r \in AuditRecord |-> 0]]
    /\ pc = [t \in Threads |-> "idle"]
    /\ call \in {[t \in Threads |-> [id |-> i, state |-> "Idle"]] : i \in Sessions}
    /\ todo = [t \in Threads |-> {}]
    /\ calls = [t \in Controllers |-> 0]

------------------------------------------------------------------------------
(* transition(id, state, detail), called by a task, by register and by
   cancel.  It never looks at the state the slot is in. *)

Begin(t, i, s) ==
    /\ pc' = [pc EXCEPT ![t] = "update"]
    /\ call' = [call EXCEPT ![t] = [id |-> i, state |-> s]]

(* Where a transition returns to: the caller is cancel_all while it has
   sessions left to cancel. *)
CallerStopsEarly(t) == "idle"
Caller(t) == IF todo[t] = {} THEN "idle" ELSE "next"

AfterAudit(t) == IF call[t].state \in Terminal THEN "release" ELSE Caller(t)
AfterSendUnlessTerminal(t) ==
    IF Audit /\ call[t].state \notin Terminal THEN "audit" ELSE AfterAudit(t)
AfterSend(t) == IF Audit THEN "audit" ELSE AfterAudit(t)

WithState(slot, s) ==
    [slot EXCEPT !.state = s,
                 !.attempt = IF s = "Reconnecting" THEN @ + 1 ELSE @]

Update(t) ==
    LET i == call[t].id
        s == call[t].state
    IN  /\ pc[t] = "update"
        /\ slots' = [slots EXCEPT ![i] = IF @ = NoSlot THEN NoSlot ELSE WithState(@, s)]
        /\ pc' = [pc EXCEPT ![t] = "send"]
        /\ UNCHANGED <<token, at, news, call, todo, calls>>

Send(t) ==
    LET i == call[t].id
        s == call[t].state
    IN  /\ pc[t] = "send"
        /\ last' = [last EXCEPT ![i] = s]
        /\ told' = [told EXCEPT ![i][s] = @ + 1]
        /\ pc' = [pc EXCEPT ![t] = AfterSend(t)]
        /\ UNCHANGED <<slots, token, at, audited, call, todo, calls>>

Log(t) ==
    LET i == call[t].id
    IN  /\ pc[t] = "audit"
        /\ audited' = [audited EXCEPT ![i][Record(call[t].state)] = @ + 1]
        /\ pc' = [pc EXCEPT ![t] = AfterAudit(t)]
        /\ UNCHANGED <<slots, token, at, last, told, call, todo, calls>>

(* `release` takes the lock and drops a clone of the command sender it made
   on the spot: it changes nothing. *)
Release(t) ==
    /\ pc[t] = "release"
    /\ pc' = [pc EXCEPT ![t] = Caller(t)]
    /\ UNCHANGED <<slots, token, at, news, call, todo, calls>>

------------------------------------------------------------------------------
(* A session task. *)

(* register: the limit check and the insertion are one critical section. *)
Register(i) ==
    /\ at[i] = "Idle"
    /\ Admits
    /\ slots' = [slots EXCEPT ![i] = [state |-> "Connecting", attempt |-> 0]]
    /\ token' = [token EXCEPT ![i] = "armed"]
    /\ at' = [at EXCEPT ![i] = "Connecting"]
    /\ Begin(i, i, "Connecting")
    /\ UNCHANGED <<news, todo, calls>>

RegisterRefused(i) ==
    /\ at[i] = "Idle"
    /\ ~Admits
    /\ at' = [at EXCEPT ![i] = "Refused"]
    /\ UNCHANGED <<slots, token, news, pc, call, todo, calls>>

(* The task reports its next state.  Its cancellation token may have been
   fired meanwhile without the task having looked at it yet. *)
Report(i, s) ==
    /\ pc[i] = "idle"
    /\ <<at[i], s>> \in Moves
    /\ at[i] \notin {"Idle", "Refused", "Stopped"}
    /\ s = "Reconnecting" => told[i]["Reconnecting"] < MaxAttempts
    /\ at' = [at EXCEPT ![i] = s]
    /\ Begin(i, i, s)
    /\ UNCHANGED <<slots, token, news, todo, calls>>

Stop(i) ==
    /\ pc[i] = "idle"
    /\ token[i] = "fired"
    /\ at[i] # "Stopped"
    /\ at' = [at EXCEPT ![i] = "Stopped"]
    /\ UNCHANGED <<slots, token, news, pc, call, todo, calls>>

------------------------------------------------------------------------------
(* A controller: the session page, the command worker, the agent. *)

CallBegins(t) ==
    /\ pc[t] = "idle"
    /\ calls[t] < MaxCalls
    /\ calls' = [calls EXCEPT ![t] = @ + 1]

(* The critical section of cancel: the slot leaves the table, and only the
   thread that removed it holds the token. *)
TakeByLookup(t, i) ==
    /\ token' = [token EXCEPT ![i] = IF slots[i] = NoSlot THEN @ ELSE "taken"]
    /\ pc' = [pc EXCEPT ![t] = IF slots[i] = NoSlot THEN "update" ELSE "fire"]
    /\ call' = [call EXCEPT ![t] = [id |-> i, state |-> "Cancelled"]]
    /\ UNCHANGED slots
Take(t, i) ==
    /\ slots' = [slots EXCEPT ![i] = NoSlot]
    /\ token' = [token EXCEPT ![i] = IF slots[i] = NoSlot THEN @ ELSE "taken"]
    /\ pc' = [pc EXCEPT ![t] = IF slots[i] = NoSlot THEN "update" ELSE "fire"]
    /\ call' = [call EXCEPT ![t] = [id |-> i, state |-> "Cancelled"]]

(* Any session there ever was: the identifier comes from an older list. *)
Cancel(t, i) ==
    /\ CallBegins(t)
    /\ i \in Registered
    /\ Take(t, i)
    /\ UNCHANGED <<at, news, todo>>

Fire(t) ==
    /\ pc[t] = "fire"
    /\ token' = [token EXCEPT ![call[t].id] = "fired"]
    /\ pc' = [pc EXCEPT ![t] = "update"]
    /\ UNCHANGED <<slots, at, news, call, todo, calls>>

(* cancel_all: the keys at one moment, then a cancel of each. *)
CancelAll(t) ==
    /\ CallBegins(t)
    /\ todo' = [todo EXCEPT ![t] = Listed]
    /\ pc' = [pc EXCEPT ![t] = IF Listed = {} THEN "idle" ELSE "next"]
    /\ UNCHANGED <<slots, token, at, news, call>>

CancelNext(t, i) ==
    /\ pc[t] = "next"
    /\ i \in todo[t]
    /\ todo' = [todo EXCEPT ![t] = @ \ {i}]
    /\ Take(t, i)
    /\ UNCHANGED <<at, news, calls>>

PrunesUnconnected(i) == slots[i] # NoSlot /\ slots[i].state # "Connected"
Prunes(i) == Finished(i)

Prune(t) ==
    /\ CallBegins(t)
    /\ slots' = [i \in Sessions |-> IF Prunes(i) THEN NoSlot ELSE slots[i]]
    /\ token' = [i \in Sessions |-> IF Prunes(i) THEN "dropped" ELSE token[i]]
    /\ UNCHANGED <<at, news, pc, call, todo>>

------------------------------------------------------------------------------

TransitionStep(t) == Update(t) \/ Send(t) \/ Log(t) \/ Release(t)

TaskStep(i) ==
    \/ Register(i)
    \/ RegisterRefused(i)
    \/ \E s \in SessionState : Report(i, s)
    \/ Stop(i)

ControllerStep(t) ==
    \/ \E i \in Sessions : Cancel(t, i) \/ CancelNext(t, i)
    \/ Fire(t)
    \/ CancelAll(t)
    \/ Prune(t)

Next ==
    \/ \E t \in Threads : TransitionStep(t)
    \/ \E i \in Sessions : TaskStep(i)
    \/ \E t \in Controllers : ControllerStep(t)

Spec == Init /\ [][Next]_vars

(* A thread inside a call of the manager keeps running: nothing it does there
   waits for anything but the table's mutex.  No fairness makes a controller
   call, or a task report. *)
Continue(t) ==
    \/ TransitionStep(t)
    \/ t \in Controllers /\ (Fire(t) \/ \E i \in Sessions : CancelNext(t, i))

Fairness == \A t \in Threads : WF_vars(Continue(t))

------------------------------------------------------------------------------
(* Properties. *)

Quiet(i) == \A t \in Threads : pc[t] \in {"idle", "next"} \/ call[t].id # i
InCallOn(i, step) == {t \in Threads : pc[t] = step /\ call[t].id = i}

(* A task leaves no terminal state.  The repository's tasks are still to be
   written; the properties that need this say so. *)
TerminalIsFinal == \A m \in Moves : m[1] \notin Terminal

(* register, lib.rs:193-204: count and insertion are one critical section,
   and no sequence of transitions of any session brings the number of
   unfinished sessions in the table above the limit. *)
LimitRespected == Cardinality(Active) <= MaxConcurrent

(* transition, lib.rs:227-235: the slot and the broadcast are two steps of
   one caller, so while a listed session's task is outside the manager, a
   subscriber has last heard exactly the state the table shows, whatever the
   cancelling threads do. *)
TableMatchesBroadcast ==
    \A i \in Listed : pc[i] = "idle" => last[i] = slots[i].state

(* cancel and prune, lib.rs:280-312: a task that has not finished is either
   still in the table, where it can be cancelled, or its token has been
   fired, or exactly one thread is about to fire it. *)
NoOrphanTask ==
    \A i \in Registered :
        \/ at[i] \in Terminal \cup {"Stopped"}
        \/ slots[i] # NoSlot /\ token[i] = "armed"
        \/ slots[i] = NoSlot /\ token[i] = "fired"
        \/ slots[i] = NoSlot /\ token[i] = "taken" /\ Cardinality(InCallOn(i, "fire")) = 1

(* transition, lib.rs:236-257: with auditing on, the trail of a session lags
   its broadcasts by the threads that are between the two, and by nothing
   else: terminal states and sessions no longer listed are audited too. *)
AuditFollowsBroadcast ==
    Audit => \A i \in Sessions, s \in SessionState \ {"Idle"} :
        told[i][s] = audited[i][Record(s)]
            + Cardinality({t \in InCallOn(i, "audit") : call[t].state = s})

(* transition and cancel, lib.rs:227-286: once the table shows a session
   finished, it shows the same end until the session leaves the table, even
   when the user cancels it after it failed. *)
FinishedStays ==
    [][\A i \in Sessions :
          Finished(i) /\ slots'[i] # NoSlot => slots'[i].state = slots[i].state]_slots

(* The admission promise, with the table's unfinished sessions as the places. *)
Pool == INSTANCE SessionPool WITH live <- Active, ended <- Registered \ Active
PoolSpec == Pool!Spec

(* cancel_all, lib.rs:289-294: every session it found leaves the table and
   loses its token, and the call comes to an end. *)
CancelAllSweeps ==
    \A t \in Controllers, i \in Sessions :
        pc[t] = "next" /\ i \in todo[t]
            ~> slots[i] = NoSlot /\ token[i] \in {"fired", "dropped"} /\ todo[t] = {}

------------------------------------------------------------------------------
(* A statement of the repository that its code does not keep. *)

(* lib.rs:409, assert_eq!(manager.get(id).expect("info").state,
   SessionState::Cancelled): a cancelled session stays listed, as Cancelled,
   until it is pruned. *)
CancelledStaysListed ==
    \A i \in Sessions : token[i] = "fired" /\ Quiet(i) => Finished(i)
==============================================================================
