------------------------------- MODULE SshSession -------------------------------
(***************************************************************************)
(* One SSH session (rdt-ssh, session.rs): connect, which authenticates and *)
(* opens a shell, then the calls of the owner, the pump task that applies  *)
(* the queued commands to the channel, the disconnect and the drop.        *)
(*                                                                         *)
(* The host key step of the dial is the subject of HostKeys; here it is    *)
(* part of "dialling", and the timeout covers no other step.  The server,  *)
(* the network and russh are external: they answer, fail or fall silent,   *)
(* a silent connection is ended by the inactivity limit, the server opens  *)
(* channels for users it let in only, and a connection nobody holds a      *)
(* handle of is closed.                                                    *)
(*                                                                         *)
(* The owner issues at most MaxCommands commands.                          *)
(***************************************************************************)
EXTENDS Integers, Sequences

CONSTANTS Methods,       \* the ways to log in that are tried
          MaxCommands, NoError

ASSUME SshAssumption == MaxCommands \in Nat /\ NoError \notin {"data", "resize", "eof"}

VARIABLES
    step,      \* of connect
    method,    \* the configured authentication
    valid,     \* host and user name are not empty
    granted,   \* the server let the user in
    error,     \* the code connect returned
    owner,     \* who holds the SshSession: the caller, its disconnect, nobody
    queue,     \* commands between the calls and the pump
    pump,      \* the pump task
    channel,   \* open, or closed by disconnect or the server
    socket,    \* the connection; down when closed from here
    issued,    \* history: commands whose call returned Ok
    remote,    \* what the server received
    room       \* the server's window for the channel has room for data

connectVars == <<step, method, valid, granted, error>>
liveVars == <<owner, queue, pump, channel, socket, issued, remote, room>>
sshVars == <<connectVars, liveVars>>

ConnectSteps == {"checking", "dialling", "credentials", "login", "opening", "pty", "environment", "shell",
          "live", "failed"}

\* AuthMethod with the source of its secret.
AllMethods == {"none", "password_prompt", "password_stored", "key_plain", "key_stored", "agent",
               "keyboard"}
Password == {"password_prompt", "password_stored"}
Key == {"key_plain", "key_stored"}

\* classify: russh's error to the code reported.
RusshErrors == {"Disconnect", "Timeout", "Inconsistent", "KexInit", "Negotiation",
                "TooManyAuthAttempts", "IO", "SocketDisconnect", "KeyDecryption", "Other"}
Classify(e) ==
    IF e \in {"Disconnect", "IO", "SocketDisconnect"} THEN "Network"
    ELSE IF e = "Timeout" THEN "Timeout"
    ELSE IF e = "TooManyAuthAttempts" THEN "Authentication"
    ELSE IF e = "KeyDecryption" THEN "Crypto"
    ELSE "Protocol"
ErrorCodes == {"InvalidInput", "Io", "Timeout", "Network", "Protocol", "Authentication", "Keystore",
          "Vault", "Crypto"}

SshInit ==
    /\ step = "checking" /\ method \in Methods /\ valid \in BOOLEAN
    /\ granted = FALSE /\ error = NoError
    /\ owner = "caller" /\ queue = <<>> /\ pump = "none" /\ channel = "none" /\ socket = "none"
    /\ issued = <<>> /\ remote = <<>> /\ room = TRUE

-------------------------------------------------------------------------------
(* connect: one step per await.                                             *)

StepTo(s) == step' = s /\ UNCHANGED <<error, pump, channel>>

\* The handle is dropped with the error, and the connection with it.
Fail(code) ==
    /\ step' = "failed" /\ error' = code
    /\ socket' = (IF socket = "up" THEN "down" ELSE socket) /\ UNCHANGED <<pump, channel>>
FailAsRussh == \E e \in RusshErrors : Fail(Classify(e))

\* What an await of connect leaves alone.
Connecting == UNCHANGED <<method, valid, owner, queue, issued, remote, room>>
Stays == UNCHANGED granted

\* Empty names are refused, then the known hosts are loaded.
Check ==
    /\ step = "checking"
    /\ \/ ~valid /\ Fail("InvalidInput")
       \/ valid /\ Fail("Io")
       \/ valid /\ StepTo("dialling") /\ UNCHANGED socket
    /\ Connecting /\ Stays

Dial ==
    /\ step = "dialling"
    /\ \/ Fail("Timeout")                 \* the timeout of connect
       \/ FailAsRussh
       \/ StepTo("credentials") /\ socket' = "up"
    /\ Connecting /\ Stays

\* resolve_secret and load_private_key.  A missing passphrase is an empty one,
\* a prompted one is none at all, and agent authentication has no agent here.
Resolve ==
    /\ step = "credentials"
    /\ \/ method \in {"password_prompt", "agent"} /\ Fail("Authentication")
       \/ method = "password_stored" /\ \E c \in {"Keystore", "Vault"} : Fail(c)
       \/ method = "key_stored" /\ \E c \in {"Io", "Keystore", "Vault", "Crypto"} : Fail(c)
       \/ method = "key_plain" /\ \E c \in {"Io", "Crypto"} : Fail(c)
       \/ method \notin {"password_prompt", "agent"} /\ StepTo("login") /\ UNCHANGED socket
    /\ Connecting /\ Stays

\* The server's answer to a password or key is looked at; the answer to `none`
\* and the challenge of keyboard-interactive are not.
Login ==
    /\ step = "login"
    /\ \/ FailAsRussh /\ Stays
       \/ /\ granted' = TRUE /\ StepTo("opening") /\ UNCHANGED socket
          /\ method # "keyboard"
       \/ /\ method \in Password \cup Key
          /\ Fail("Authentication") /\ Stays
       \/ /\ method \notin Password \cup Key
          /\ StepTo("opening") /\ UNCHANGED socket /\ Stays
    /\ Connecting

\* The server refuses to open a channel before it let the user in.
Open ==
    /\ step = "opening"
    /\ FailAsRussh \/ (granted /\ StepTo("pty") /\ UNCHANGED socket)
    /\ Connecting /\ Stays

RequestPty ==
    /\ step = "pty"
    /\ FailAsRussh \/ (StepTo("environment") /\ UNCHANGED socket)
    /\ Connecting /\ Stays

\* set_env for each variable; their failures are ignored.
SetEnvironment ==
    /\ step = "environment"
    /\ StepTo("shell") /\ UNCHANGED socket
    /\ Connecting /\ Stays

\* request_shell or exec; then the pump is spawned and the session returned.
Start ==
    /\ step = "shell"
    /\ \/ FailAsRussh
       \/ /\ step' = "live" /\ pump' = "running" /\ channel' = "open"
          /\ UNCHANGED <<error, socket>>
    /\ Connecting /\ Stays

Connect == \/ Check \/ Dial \/ Resolve \/ Login \/ Open \/ RequestPty \/ SetEnvironment \/ Start

-------------------------------------------------------------------------------
(* The live session.                                                        *)

Live == step = "live" /\ UNCHANGED connectVars

\* send, resize and send_eof put a command into the unbounded queue; they fail
\* once the pump has dropped its end.
Issue(kind) ==
    /\ Live /\ owner = "caller" /\ Len(issued) < MaxCommands
    /\ IF pump = "running"
       THEN LET c == <<kind, Len(issued) + 1>>
            IN queue' = Append(queue, c) /\ issued' = Append(issued, c)
       ELSE UNCHANGED <<queue, issued>>
    /\ UNCHANGED <<owner, pump, channel, socket, remote, room>>

\* Data waits until the window has room, and nothing limits that wait.  The
\* end of the channel or of the connection may end it or not: that is russh's
\* affair.
Blocked == pump = "running" /\ queue # <<>> /\ Head(queue)[1] = "data" /\ ~room

\* The command takes effect, which may use up the window, or the channel is gone
\* and the pump ends; what is still queued is dropped with the receiver.  A
\* command for a channel that was closed here may also vanish without an error.
Deliver(c) ==
    \/ /\ channel = "open" /\ socket = "up" /\ ~Blocked
       /\ remote' = Append(remote, c) /\ queue' = Tail(queue) /\ UNCHANGED pump
       /\ room' \in (IF c[1] = "data" THEN BOOLEAN ELSE {room})
    \/ /\ channel = "closed" /\ socket = "up"
       /\ queue' = Tail(queue) /\ UNCHANGED <<remote, pump, room>>
    \/ /\ channel = "closed" \/ socket # "up"
       /\ pump' = "ended" /\ queue' = <<>> /\ UNCHANGED <<remote, room>>

\* A mutant: what was typed together is sent together, newest first.
PumpNewest ==
    /\ Live /\ pump = "running" /\ queue # <<>>
    /\ channel = "open" /\ socket = "up"
    /\ remote' = Append(remote, queue[Len(queue)]) /\ queue' = SubSeq(queue, 1, Len(queue) - 1)
    /\ UNCHANGED <<owner, pump, channel, socket, issued, room>>

Pump ==
    /\ Live /\ pump = "running" /\ queue # <<>>
    /\ Deliver(Head(queue))
    /\ UNCHANGED <<owner, channel, socket, issued>>

\* The program on the server reads, and the window has room again.
PeerReads ==
    /\ Live /\ socket = "up" /\ ~room /\ room' = TRUE
    /\ UNCHANGED <<owner, queue, pump, channel, socket, issued, remote>>

\* A mutant: the pump keeps a sender of its own queue, and waits for ever.
PumpNeverEnds == FALSE /\ UNCHANGED sshVars

\* A mutant: the pump stops when the session is dropped, whatever is queued.
PumpQuits ==
    /\ Live /\ pump = "running" /\ owner = "nobody"
    /\ pump' = "ended" /\ queue' = <<>>
    /\ UNCHANGED <<owner, channel, socket, issued, remote, room>>

\* recv gives None: every sender is gone and the queue is empty.
PumpEnds ==
    /\ Live /\ pump = "running" /\ queue = <<>> /\ owner = "nobody"
    /\ pump' = "ended"
    /\ UNCHANGED <<owner, queue, channel, socket, issued, remote, room>>

\* disconnect(self): the channel is closed at once, whatever is queued.
CloseChannel ==
    /\ Live /\ owner = "caller"
    /\ owner' = "disconnecting"
    /\ channel' = (IF channel = "open" THEN "closed" ELSE channel)
    /\ UNCHANGED <<queue, pump, socket, issued, remote, room>>

\* Then the connection; the session is dropped whether or not that worked.
Disconnect ==
    /\ Live /\ owner = "disconnecting"
    /\ owner' = "nobody"
    /\ socket' \in {socket} \cup (IF socket = "up" THEN {"down"} ELSE {})
    /\ UNCHANGED <<queue, pump, channel, issued, remote, room>>

\* The session is dropped without a disconnect; `_guard` (session.rs:179) does
\* nothing then.
Drop ==
    /\ Live /\ owner = "caller"
    /\ owner' = "nobody"
    /\ UNCHANGED <<queue, pump, channel, socket, issued, remote, room>>

\* russh ends a connection when the last handle of it is gone.
LastHandleGone ==
    /\ Live /\ owner = "nobody" /\ pump = "ended" /\ socket = "up"
    /\ socket' = "down"
    /\ UNCHANGED <<owner, queue, pump, channel, issued, remote, room>>

\* The remote shell exits, or the connection is lost.
RemoteEnds ==
    /\ Live /\ socket = "up"
    /\ \/ channel = "open" /\ channel' = "closed" /\ UNCHANGED socket
       \/ socket' = "lost" /\ UNCHANGED channel
    /\ UNCHANGED <<owner, queue, pump, issued, remote, room>>

SshNext ==
    \/ Connect
    \/ \E kind \in {"data", "resize", "eof"} : Issue(kind)
    \/ Pump \/ PeerReads \/ PumpEnds \/ CloseChannel \/ Disconnect \/ Drop \/ LastHandleGone
    \/ RemoteEnds

\* tokio runs the pump, unless it waits for the window, and the calls that were
\* begun; every request of connect is answered, or the inactivity limit
\* (session.rs:227) ends it.  Nothing makes a program read.
SshFairness ==
    /\ WF_sshVars(Connect) /\ WF_sshVars(~Blocked /\ Pump) /\ WF_sshVars(PumpEnds)
    /\ WF_sshVars(Disconnect) /\ WF_sshVars(LastHandleGone)
SshSpec == SshInit /\ [][SshNext]_sshVars /\ SshFairness

-------------------------------------------------------------------------------
(* Properties. *)

Commands == {"data", "resize", "eof"} \X Nat
SshTypeOK ==
    /\ step \in ConnectSteps /\ method \in Methods /\ valid \in BOOLEAN
    /\ granted \in BOOLEAN /\ error \in ErrorCodes \cup {NoError}
    /\ owner \in {"caller", "disconnecting", "nobody"} /\ pump \in {"none", "running", "ended"}
    /\ channel \in {"none", "open", "closed"} /\ socket \in {"none", "up", "down", "lost"}
    /\ room \in BOOLEAN
    /\ queue \in Seq(Commands) /\ issued \in Seq(Commands) /\ remote \in Seq(Commands)

\* Commands reach the server in the order of the calls and each at most once;
\* while the channel and the connection are open, none that was issued is
\* missing (the queue and the single pump task).
InputInOrder ==
    /\ remote = SubSeq(issued, 1, Len(remote))
    /\ channel = "open" /\ socket = "up" /\ pump = "running" => issued = remote \o queue

\* The peer reads: the pump does not wait for the window for ever.
PeerKeepsReading == []<>~Blocked

\* A session that was disconnected or forgotten does not keep its connection,
\* provided the program on the server reads what was typed: the pump ends, and
\* with it the last handle.
ForgottenSessionCloses == PeerKeepsReading => (owner = "nobody" ~> socket # "up")

\* Input that was issued is delivered unless the channel was closed or the
\* connection lost, also when the session is dropped right after the call,
\* provided the program on the server reads.
AcceptedArrives ==
    PeerKeepsReading =>
        \A n \in 1..MaxCommands :
            Len(issued) >= n ~> (Len(remote) >= n \/ channel = "closed" \/ socket = "lost")

==============================================================================
