---------------------------- MODULE PlatformService ----------------------------
(***************************************************************************)
(* rdt-platform/src/service.rs: installing, removing and querying the      *)
(* service that runs the agent, under systemd (for the machine or for one  *)
(* user) and under the Windows service control manager ("scm").            *)
(*                                                                         *)
(* A call is a sequence of steps that change the machine, any of which can *)
(* fail; meanwhile the service itself stops or is restarted, and the       *)
(* machine may reboot.  What systemctl and the SCM do is what the code     *)
(* expects of them.                                                        *)
(***************************************************************************)
EXTENDS Naturals

CONSTANTS
    Texts,           \* definitions of the service: its program and arguments
    Absent,          \* no definition; nothing running
    Torn,            \* what a failed write leaves in a unit file
    Requests,        \* calls that are made
    MaxServiceCalls, \* bound: calls
    MaxServiceFaults \* bound: failures of a step, and reboots

Scopes == {"user", "system", "scm"}

(* What render_systemd_unit makes of a specification that matters here: what is
   run, how systemd knows that it is ready and what pulls it in.  Whether it is
   brought back after it ended is left open in ServiceEnds; the rest confines
   the process. *)
Rendered(r) == [program |-> r.text, type |-> "notify", wantedBy |-> "multi-user.target"]

(* What the service manager of a machine and that of a user start by. *)
Targets == [system |-> {"multi-user.target", "default.target"}, user |-> {"default.target"}]

(* ServiceSpec, and whether the caller is elevated.  sound: the name and the
   path pass validate() and the executable exists; account: run_as_user is
   given.  The other fields only change the text of the unit. *)
Request ==
    [op : {"install", "uninstall"}, scope : Scopes, text : Texts, sound : BOOLEAN,
     now : BOOLEAN, account : BOOLEAN, elevated : BOOLEAN]

ASSUME ServiceAssumption ==
    /\ Requests \subseteq Request /\ Requests # {}
    /\ {Absent, Torn} \cap Texts = {} /\ Absent # Torn
    /\ \A r \in Requests : Rendered(r) \notin {Absent, Torn}
    /\ MaxServiceCalls \in Nat /\ MaxServiceFaults \in Nat

VARIABLES
    systemd,   \* /run/systemd/system exists
    searched,  \* the scopes whose unit_path the service manager reads
    notifies,  \* the program tells systemd that it is ready (Type=notify)
    account,   \* the user "rdt" exists
    unit,      \* the definition on disk, or in the SCM's database
    marked,    \* the SCM's entry is to go as soon as its service stops
    known,     \* the definition systemd has loaded
    enabled,   \* scopes whose service is enabled, or an automatic start
    runs,      \* the definition of the process that runs
    starting,  \* scopes whose start job has not ended
    unheeded,  \* history: scopes whose disable --now failed, and none succeeded since
    request,   \* the request being executed, or the last one
    step,      \* where it is, or how it ended
    serviceCalls, serviceFaults

machine == <<systemd, searched, notifies>>
service == <<account, unit, marked, known, enabled, runs, starting, unheeded>>
serviceVars == <<machine, service, request, step, serviceCalls, serviceFaults>>

ServiceInit ==
    /\ systemd \in BOOLEAN
    /\ searched \in {{"system", "scm"}, Scopes}
    /\ notifies \in BOOLEAN
    /\ account = FALSE
    /\ unit = [s \in Scopes |-> Absent]
    /\ marked = FALSE
    /\ known = unit
    /\ enabled = {}
    /\ runs = unit
    /\ starting = {} /\ unheeded = {}
    /\ request = CHOOSE r \in Requests : TRUE
    /\ step = "ok"
    /\ serviceCalls = 0
    /\ serviceFaults = 0

------------------------------------------------------------------------------
(* Calls.  Each step goes on to another, or ends the call: "ok", "failed". *)

Ended == {"ok", "failed"}

Goes(from, to) ==
    /\ step = from
    /\ step' = to
    /\ UNCHANGED <<machine, request, serviceCalls>>

Sound == UNCHANGED serviceFaults
Fault == serviceFaults < MaxServiceFaults /\ serviceFaults' = serviceFaults + 1

(* The checks before anything is changed.  CREATE_SERVICE and deleting an
   entry take an elevated caller. *)
Refused(r) ==
    \/ r.op = "install" /\ (~r.sound \/ (r.scope # "scm" /\ ~systemd))
    \/ r.scope # "user" /\ ~r.elevated

FirstStep(r) ==
    IF r.scope = "scm" THEN "delete entry"
    ELSE IF r.op = "uninstall" THEN "disable"
    ELSE IF r.scope = "system" /\ ~r.account THEN "account"
    ELSE "write"

BeginService(r) ==
    /\ step \in Ended /\ serviceCalls < MaxServiceCalls
    /\ serviceCalls' = serviceCalls + 1
    /\ IF Refused(r) THEN step' = "failed" /\ UNCHANGED request
                     ELSE step' = FirstStep(r) /\ request' = r
    /\ UNCHANGED <<machine, service, serviceFaults>>

(* ensure_service_user: useradd, unless /etc/passwd has the name. *)
EnsureUser ==
    /\ Goes("account", "write") /\ Sound
    /\ account' = TRUE
    /\ UNCHANGED <<unit, marked, known, enabled, runs, starting, unheeded>>

WriteUnit ==
    /\ Goes("write", "reload") /\ Sound
    /\ unit' = [unit EXCEPT ![request.scope] = Rendered(request)]
    /\ UNCHANGED <<account, marked, known, enabled, runs, starting, unheeded>>

(* systemctl daemon-reload *)
LoadUnits == known' = [s \in Scopes |-> IF s = request.scope /\ s \in searched THEN unit[s] ELSE known[s]]

ReloadNothing == Goes("reload", "enable") /\ Sound /\ UNCHANGED service
Reload ==
    /\ Goes("reload", "enable") /\ Sound
    /\ LoadUnits
    /\ UNCHANGED <<account, unit, marked, enabled, runs, starting, unheeded>>

(* systemctl enable fails for a unit file in a directory that is not searched. *)
Enable ==
    /\ request.scope \in searched
    /\ Goes("enable", IF request.now THEN "restart" ELSE "ok") /\ Sound
    /\ enabled' = enabled \cup {request.scope}
    /\ UNCHANGED <<account, unit, marked, known, runs, starting, unheeded>>
EnableUnknown ==
    /\ request.scope \notin searched
    /\ Goes("enable", "failed") /\ Sound
    /\ UNCHANGED service

(* What is defined can start; a process of type notify is ready when it says
   so. *)
Ready(u) == u \notin {Absent, Torn} /\ (u.type = "notify" => notifies)

(* systemctl restart stops what runs, starts what is loaded and waits until
   the new process says that it is ready, or the time for that is over. *)
Restart ==
    /\ Goes("restart", "started") /\ Sound
    /\ runs' = [runs EXCEPT ![request.scope] = Absent]
    /\ starting' = starting \cup {request.scope}
    /\ UNCHANGED <<account, unit, marked, known, enabled, unheeded>>
Started ==
    /\ Goes("started", "ok") /\ Sound
    /\ Ready(known[request.scope])
    /\ runs' = [runs EXCEPT ![request.scope] = known[request.scope]]
    /\ starting' = starting \ {request.scope}
    /\ UNCHANGED <<account, unit, marked, known, enabled, unheeded>>
NeverReady ==
    /\ Goes("started", "failed") /\ Sound
    /\ ~Ready(known[request.scope])
    /\ UNCHANGED service

(* uninstall_service ignores the outcomes of disable --now and of the
   second daemon-reload. *)
Disable ==
    /\ Goes("disable", "remove") /\ Sound
    /\ LET found == IF known[request.scope] = Absent THEN {} ELSE {request.scope}
       IN /\ enabled' = enabled \ found
          /\ runs' = [s \in Scopes |-> IF s \in found THEN Absent ELSE runs[s]]
          /\ starting' = starting \ found
          /\ unheeded' = unheeded \ found
    /\ UNCHANGED <<account, unit, marked, known>>
DisableFails ==
    /\ Goes("disable", "remove") /\ Fault
    /\ unheeded' = unheeded \cup {request.scope}
    /\ UNCHANGED <<account, unit, marked, known, enabled, runs, starting>>
RemoveUnit ==
    /\ Goes("remove", "forget") /\ Sound
    /\ unit' = [unit EXCEPT ![request.scope] = Absent]
    /\ UNCHANGED <<account, marked, known, enabled, runs, starting, unheeded>>
Forget ==
    /\ Goes("forget", "ok") /\ Sound
    /\ LoadUnits
    /\ UNCHANGED <<account, unit, marked, enabled, runs, starting, unheeded>>
ForgetFails == Goes("forget", "ok") /\ Fault /\ UNCHANGED service

(* The SCM.  The entry of a service that runs is only marked.  install goes
   on whatever becomes of the old entry, and does not start the new one. *)
DeleteEntry ==
    /\ Goes("delete entry", IF request.op = "install" THEN "create entry"
                            ELSE IF unit["scm"] = Absent THEN "failed" ELSE "ok") /\ Sound
    /\ IF runs["scm"] = Absent
       THEN /\ unit' = [unit EXCEPT !["scm"] = Absent]
            /\ enabled' = enabled \ {"scm"} /\ UNCHANGED marked
       ELSE marked' = TRUE /\ UNCHANGED <<unit, enabled>>
    /\ UNCHANGED <<account, known, runs, starting, unheeded>>
DeleteEntryFails ==
    /\ Goes("delete entry", IF request.op = "install" THEN "create entry" ELSE "failed") /\ Fault
    /\ UNCHANGED service
CreateEntry ==
    /\ unit["scm"] = Absent
    /\ Goes("create entry", "ok") /\ Sound
    /\ unit' = [unit EXCEPT !["scm"] = request.text]
    /\ enabled' = IF request.now THEN enabled \cup {"scm"} ELSE enabled
    /\ UNCHANGED <<account, marked, known, runs, starting, unheeded>>
EntryExists ==
    /\ unit["scm"] # Absent
    /\ Goes("create entry", "failed") /\ Sound
    /\ UNCHANGED service

(* A step fails and the call returns its error.  A failed write may leave
   the beginning of the unit. *)
StepFails ==
    /\ \E at \in {"account", "write", "reload", "enable", "restart", "started", "remove",
                  "create entry"} : Goes(at, "failed")
    /\ Fault
    /\ unit' \in {unit} \cup (IF step = "write" THEN {[unit EXCEPT ![request.scope] = Torn]} ELSE {})
    /\ starting' = starting \ {request.scope}
    /\ UNCHANGED <<account, marked, known, enabled, runs, unheeded>>

(* service_status: the unit's file, then systemctl is-active; or the SCM. *)
Status(s) ==
    IF unit[s] = Absent THEN "not-installed"
    ELSE IF runs[s] # Absent THEN "running"
    ELSE IF s \in starting THEN "transitioning"
    ELSE "stopped"
ScmStatus ==
    IF unit["scm"] = Absent THEN "not-installed"
    ELSE IF runs["scm"] # Absent THEN "running" ELSE "stopped"

------------------------------------------------------------------------------
(* The machine. *)

(* The process ends.  systemd may bring it back, by what it has loaded; an
   entry that was marked goes. *)
ServiceEnds(s) ==
    /\ runs[s] # Absent
    /\ \E next \in {Absent} \cup (IF s = "scm" THEN {} ELSE {known[s]}) :
          runs' = [runs EXCEPT ![s] = next]
    /\ LET gone == IF s = "scm" /\ marked THEN {"scm"} ELSE {}
       IN /\ unit' = [t \in Scopes |-> IF t \in gone THEN Absent ELSE unit[t]]
          /\ enabled' = enabled \ gone
          /\ marked' = (marked /\ gone = {})
    /\ UNCHANGED <<machine, account, known, starting, unheeded, request, step, serviceCalls, serviceFaults>>

(* Somebody starts the Windows service. *)
ScmStart ==
    /\ unit["scm"] # Absent /\ ~marked /\ runs["scm"] = Absent
    /\ runs' = [runs EXCEPT !["scm"] = unit["scm"]]
    /\ UNCHANGED <<machine, account, unit, marked, known, enabled, starting, unheeded, request,
                   step, serviceCalls, serviceFaults>>

(* A reboot also ends a call.  An enabled unit comes up if the manager has the
   target that wants it. *)
Stored(s) == IF s = "scm" /\ marked THEN Absent ELSE unit[s]
ComesUp(s) ==
    /\ s \in enabled /\ Stored(s) \notin {Absent, Torn}
    /\ s # "scm" => Ready(Stored(s)) /\ Stored(s).wantedBy \in Targets[s]

Boot ==
    /\ Fault
    /\ step' = "failed"
    /\ unit' = [s \in Scopes |-> Stored(s)]
    /\ marked' = FALSE
    /\ known' = [s \in Scopes |-> IF s \in searched \ {"scm"} THEN Stored(s) ELSE Absent]
    /\ runs' = [s \in Scopes |-> IF ComesUp(s) THEN Stored(s) ELSE Absent]
    /\ enabled' = IF marked THEN enabled \ {"scm"} ELSE enabled
    /\ starting' = {}
    /\ UNCHANGED <<machine, account, unheeded, request, serviceCalls>>

ServiceNext ==
    \/ \E r \in Requests : BeginService(r)
    \/ EnsureUser \/ WriteUnit \/ Reload \/ Enable \/ EnableUnknown
    \/ Restart \/ Started \/ NeverReady
    \/ Disable \/ DisableFails \/ RemoveUnit \/ Forget \/ ForgetFails
    \/ DeleteEntry \/ DeleteEntryFails \/ CreateEntry \/ EntryExists \/ StepFails
    \/ \E s \in Scopes : ServiceEnds(s)
    \/ ScmStart \/ Boot

ServiceSpec == ServiceInit /\ [][ServiceNext]_serviceVars

------------------------------------------------------------------------------
(* Properties. *)

(* install_systemd, service.rs:222-264, and windows::install: an installation
   that reports success has put its own definition in place of whatever was
   there.  Under systemd, whatever ran, was loaded or enabled before, the
   process it was to start runs by that definition; it is enabled, and for the
   whole machine that means that it comes up at the next boot, if the program
   says that it is ready.  (The agent never does: its start is reported as a
   failure.  A user's unit is wanted by a target that the manager of the user
   does not have, and does not come up.)  An entry of Windows starts with the
   machine if start_now is given; nothing starts it now. *)
Installed(r) ==
    IF r.scope = "scm"
    THEN unit["scm"] = r.text /\ (r.now <=> ComesUp("scm"))
    ELSE /\ unit[r.scope] = Rendered(r) /\ r.scope \in enabled
         /\ r.now => runs[r.scope] = Rendered(r)
         /\ r.scope = "system" /\ notifies => ComesUp("system")

(* uninstall_service, service.rs:327-350, and windows::uninstall: a removal
   that reports success leaves no definition behind, nothing that runs, starts
   or is enabled; but an entry of Windows whose service runs goes only when it
   ends, and under systemd what a disable --now left running or enabled when it
   failed, in this call or in one before, stays: that outcome is ignored, and
   a later call finds no unit to disable. *)
Dormant(s) == runs[s] = Absent /\ s \notin enabled /\ s \notin starting
Uninstalled(r) ==
    IF r.scope = "scm"
    THEN marked \/ (ScmStatus = "not-installed" /\ Dormant("scm"))
    ELSE Status(r.scope) = "not-installed" /\ (r.scope \in unheeded \/ Dormant(r.scope))

(* Both, at the step in which a call returns. *)
CallsTakeEffect ==
    [][step \notin Ended /\ step' = "ok" =>
         IF request.op = "install" THEN Installed(request)' ELSE Uninstalled(request)']_serviceVars
===============================================================================
