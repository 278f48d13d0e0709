------------------------------ MODULE HostKeys -------------------------------
(***************************************************************************)
(* rdt-ssh: known_hosts.rs, the host key half of handler.rs, and the part  *)
(* of SshSession::connect around them.                                     *)
(*                                                                         *)
(* Every connection loads the known_hosts file into a database of its own, *)
(* compares the server's key with it, may ask the user, and may write its  *)
(* whole database back.  Connections share nothing but the file, which is  *)
(* written in place: truncated, then written.                              *)
(*                                                                         *)
(* Patterns, wildcards, negations and hashes are one thing here: the set   *)
(* of hosts a line applies to.  A key that was cut short still parses when *)
(* the cut falls between two groups of its base64 text; such a key, and a  *)
(* mixture of two, is Broken: a key no server presents.                    *)
(***************************************************************************)
EXTENDS Naturals, Sequences, FiniteSets

CONSTANTS
    Connections,   \* attempts to connect
    Hosts,         \* host and port
    Reach,         \* Reach[h]: what a line saved for h applies to
    Keys,          \* public keys
    KeyType,       \* KeyType[k]: the algorithm of key k
    Broken,        \* what a key cut short reads as
    InitialFiles,  \* what known_hosts may be when the program first starts
    Answerable,    \* somebody can answer a prompt while `connect` runs
    MaxFaults      \* bound: I/O failures and crashes

Types == {KeyType[k] : k \in Keys}
Line == [marker : {"none", "ca", "revoked"}, hosts : SUBSET Hosts, type : Types,
         key : Keys \cup {Broken}]

(* A missing file is not the same as an empty one. *)
File == [exists : BOOLEAN, lines : Seq(Line)]

Policies == {"Strict", "AcceptNew"}
Decisions == {"AcceptOnce", "AcceptAndSave", "Reject"}

(* A line saved for port 22 names no port, and applies to every port of its
   host; one saved for another port applies to that port. *)
ASSUME HostKeysAssumption ==
    /\ Reach \in [Hosts -> SUBSET Hosts] /\ \A h \in Hosts : h \in Reach[h]
    /\ Broken \notin Keys
    /\ InitialFiles \subseteq File
    /\ \A f \in InitialFiles : ~f.exists => f.lines = <<>>
    /\ Answerable \in BOOLEAN
    /\ MaxFaults \in Nat

VARIABLES
    file,      \* known_hosts
    target,    \* the host each connection is for
    policy,    \* its HostKeyPolicy
    db,        \* its KnownHosts: the lines
    attached,  \* whether that database has a path to be saved to
    pc,        \* where the attempt is
    key,       \* the key its server presented
    accepted,  \* accepted_fingerprint: the key it goes on with, if any
    decision,  \* what the user answered, if asked and answering in time
    first,     \* the file as it was when the program first started
    overlapped,   \* history: a save began while another one was writing
    faults

profile == <<target, policy, first>>
vars == <<file, profile, db, attached, pc, key, accepted, decision, overlapped, faults>>

Ended == {"connected", "refused", "timedout", "dead"}
Steps == {"idle", "dialling", "asked", "open", "write", "restrict"} \cup Ended

TypeOK ==
    /\ file \in File /\ first \in InitialFiles
    /\ target \in [Connections -> Hosts]
    /\ policy \in [Connections -> Policies]
    /\ db \in [Connections -> Seq(Line)]
    /\ attached \in [Connections -> BOOLEAN]
    /\ pc \in [Connections -> Steps]
    /\ key \in [Connections -> Keys]
    /\ accepted \in [Connections -> SUBSET Keys]
    /\ decision \in [Connections -> Decisions \cup {"none"}]
    /\ overlapped \in BOOLEAN /\ faults \in 0..MaxFaults

Init ==
    /\ first \in InitialFiles
    /\ file = first
    /\ target \in [Connections -> Hosts]
    /\ policy \in [Connections -> Policies]
    /\ db = [c \in Connections |-> <<>>]
    /\ attached = [c \in Connections |-> FALSE]
    /\ pc = [c \in Connections |-> "idle"]
    /\ key \in [Connections -> Keys]
    /\ accepted = [c \in Connections |-> {}]
    /\ decision = [c \in Connections |-> "none"]
    /\ overlapped = FALSE /\ faults = 0

------------------------------------------------------------------------------
(* check(host, port, key_type, key): the lines are tried in order; the first
   that applies and holds this very key decides, unless it is a CA line.
   Failing that, a line that applies, is not revoked and holds another key of
   the same type means the key changed. *)

Applying(lines, h) == {i \in DOMAIN lines : h \in lines[i].hosts}

Deciding(lines, h, k) ==
    {i \in Applying(lines, h) : lines[i].key = k /\ lines[i].marker # "ca"}

Conflicting(lines, h, k) ==
    {i \in Applying(lines, h) :
        /\ lines[i].key # k /\ lines[i].marker # "revoked"
        /\ lines[i].type = KeyType[k]}

Least(S) == CHOOSE i \in S : \A j \in S : i <= j

Status(lines, h, k) ==
    IF Deciding(lines, h, k) = {}
    THEN IF Conflicting(lines, h, k) = {} THEN "Unknown" ELSE "Changed"
    ELSE IF lines[Least(Deciding(lines, h, k))].marker = "revoked" THEN "Revoked"
    ELSE "Trusted"

Fatal == {"Changed", "Revoked"}

(* accept(host, port, key_type, key): plain lines for this host and algorithm
   go, the new one is added at the end. *)
Recorded(h, k) == [marker |-> "none", hosts |-> Reach[h], type |-> KeyType[k], key |-> k]

Replaced(lines, h, k) ==
    {i \in Applying(lines, h) : lines[i].marker = "none" /\ lines[i].type = KeyType[k]}

Kept(lines, h, k) ==
    LET stays(line) == ~(line.marker = "none" /\ line.type = KeyType[k] /\ h \in line.hosts)
    IN  SelectSeq(lines, stays)

AcceptForAnyType(lines, h, k) ==
    LET stays(line) == ~(line.marker = "none" /\ h \in line.hosts)
    IN  Append(SelectSeq(lines, stays), Recorded(h, k))
Accept(lines, h, k) ==
    Append(IF Replaced(lines, h, k) = {} THEN lines ELSE Kept(lines, h, k), Recorded(h, k))

------------------------------------------------------------------------------

Goto(c, step) == pc' = [pc EXCEPT ![c] = step]

(* connect: KnownHosts::load, then the dial.  A missing file gives a database
   without a path. *)
Load(c) ==
    /\ pc[c] = "idle"
    /\ db' = [db EXCEPT ![c] = file.lines]
    /\ attached' = [attached EXCEPT ![c] = file.exists]
    /\ Goto(c, "dialling")
    /\ UNCHANGED <<file, profile, key, accepted, decision, overlapped, faults>>

(* check_server_key up to its await.  Nobody else has this database, so its
   two looks at it are one. *)
CheckServerKeyAskingAboutChanges(c) ==
    LET status == Status(db[c], target[c], key[c])
    IN  /\ pc[c] = "dialling"
        /\ IF status = "Trusted"
           THEN /\ accepted' = [accepted EXCEPT ![c] = {key[c]}]
                /\ Goto(c, "connected")
           ELSE /\ Goto(c, IF policy[c] # "Strict" THEN "asked" ELSE "refused")
                /\ UNCHANGED accepted
        /\ UNCHANGED <<file, profile, db, attached, key, decision, overlapped, faults>>
CheckServerKey(c) ==
    LET status == Status(db[c], target[c], key[c])
        ask == status \notin Fatal /\ policy[c] # "Strict"
    IN  /\ pc[c] = "dialling"
        /\ IF status = "Trusted"
           THEN /\ accepted' = [accepted EXCEPT ![c] = {key[c]}]
                /\ Goto(c, "connected")
           ELSE /\ Goto(c, IF ask THEN "asked" ELSE "refused")
                /\ UNCHANGED accepted
        /\ UNCHANGED <<file, profile, db, attached, key, decision, overlapped, faults>>

(* The user answers.  The prompt travels on the event receiver that `connect`
   keeps to itself until it returns: there Answerable is FALSE. *)
AnswerAlwaysSaves(c, d) ==
    /\ pc[c] = "asked"
    /\ decision' = [decision EXCEPT ![c] = d]
    /\ db' = [db EXCEPT ![c] =
                IF d # "Reject" THEN Accept(@, target[c], key[c]) ELSE @]
    /\ Goto(c, IF d = "Reject" THEN "refused" ELSE "open")
    /\ UNCHANGED <<file, profile, attached, key, accepted, overlapped, faults>>
Answer(c, d) ==
    /\ Answerable
    /\ pc[c] = "asked"
    /\ decision' = [decision EXCEPT ![c] = d]
    /\ accepted' = [accepted EXCEPT ![c] = IF d = "AcceptOnce" THEN {key[c]} ELSE {}]
    /\ db' = [db EXCEPT ![c] =
                IF d = "AcceptAndSave" THEN Accept(@, target[c], key[c]) ELSE @]
    /\ Goto(c, CASE d = "AcceptOnce"    -> "connected"
                 [] d = "AcceptAndSave" -> "open"
                 [] d = "Reject"        -> "refused")
    /\ UNCHANGED <<file, profile, attached, key, overlapped, faults>>

(* The attempt as a whole is under a timeout, which can only strike where
   `connect` waits: the save below does not. *)
TimeoutWhileDialling(c) ==
    /\ pc[c] = "dialling"
    /\ Goto(c, "timedout")
    /\ UNCHANGED <<file, profile, db, attached, key, accepted, decision, overlapped, faults>>
Timeout(c) ==
    /\ pc[c] \in {"dialling", "asked"}
    /\ Goto(c, "timedout")
    /\ UNCHANGED <<file, profile, db, attached, key, accepted, decision, overlapped, faults>>

------------------------------------------------------------------------------
(* remember_host_key: save(), whose failure is only logged. *)

Go(c) ==
    /\ accepted' = [accepted EXCEPT ![c] = {key[c]}]
    /\ Goto(c, "connected")
    /\ UNCHANGED <<profile, db, attached, key, decision>>

SaveWithoutPath(c) ==
    /\ pc[c] = "open" /\ ~attached[c]
    /\ Go(c)
    /\ UNCHANGED <<file, overlapped, faults>>

(* std::fs::write truncates the file, or creates one. *)
Truncate(c) ==
    /\ pc[c] = "open" /\ attached[c]
    /\ file' = [exists |-> TRUE, lines |-> <<>>]
    /\ Goto(c, "write")
    /\ overlapped' = (overlapped \/ \E d \in Connections \ {c} : pc[d] = "write")
    /\ UNCHANGED <<profile, db, attached, key, accepted, decision, faults>>

(* The writer begins at the start of the file.  What another one wrote beyond
   the end of this text stays there, and may begin inside a line: without its
   marker or the first of its hosts, or too short to be a line. *)
Ends(line) == {line} \cup [marker : {"none"}, hosts : SUBSET Hosts, type : {line.type},
                           key : {line.key, Broken}]
Rests(old) ==
    {SubSeq(old, i, Len(old)) : i \in 1..Len(old) + 1}
    \cup UNION {{<<end>> \o SubSeq(old, i + 1, Len(old)) : end \in Ends(old[i])} :
                   i \in DOMAIN old}

Write(c) ==
    /\ pc[c] = "write"
    /\ \E rest \in Rests(file.lines) : file' = [file EXCEPT !.lines = db[c] \o rest]
    /\ Goto(c, "restrict")
    /\ UNCHANGED <<profile, db, attached, key, accepted, decision, overlapped, faults>>

(* Permissions are left out. *)
RestrictToOwner(c) ==
    /\ pc[c] = "restrict"
    /\ Go(c)
    /\ UNCHANGED <<file, overlapped, faults>>

(* Part of the text is written.  A line cut in its comment is whole, one cut in
   its key may still parse; what follows it is the end of an old line. *)
Cuts(line) == {line, [line EXCEPT !.key = Broken]}
Mixtures(head, end) ==
    [marker : {"none", head.marker, end.marker}, hosts : SUBSET Hosts,
     type : {head.type, end.type}, key : {head.key, end.key, Broken}]
Joints(head, old) ==
    {<<cut>> : cut \in Cuts(head)}
    \cup UNION {{<<mixed>> \o SubSeq(old, i + 1, Len(old)) : mixed \in Mixtures(head, old[i])} :
                   i \in DOMAIN old}

Partly(c) ==
    \E n \in 0..Len(db[c]) :
        LET whole == SubSeq(db[c], 1, n)
            ends == Rests(file.lines)
                    \cup (IF n < Len(db[c]) THEN Joints(db[c][n + 1], file.lines) ELSE {})
        IN  \E end \in ends : file' = [file EXCEPT !.lines = whole \o end]

SaveFails(c) ==
    /\ faults < MaxFaults
    /\ faults' = faults + 1
    /\ \/ pc[c] \in {"open", "restrict"} /\ attached[c] /\ UNCHANGED file
       \/ pc[c] = "write" /\ Partly(c)
    /\ Go(c) /\ UNCHANGED overlapped

(* The process dies, with every connection it has; a write may be cut short. *)
Crash ==
    /\ faults < MaxFaults
    /\ faults' = faults + 1
    /\ \/ UNCHANGED file
       \/ \E c \in Connections : pc[c] = "write" /\ Partly(c)
    /\ pc' = [c \in Connections |-> IF pc[c] = "idle" THEN "idle" ELSE "dead"]
    /\ accepted' = [c \in Connections |-> {}]
    /\ UNCHANGED <<profile, db, attached, key, decision, overlapped>>

------------------------------------------------------------------------------

Proceed(c) ==
    \/ CheckServerKey(c)
    \/ SaveWithoutPath(c)
    \/ Truncate(c)
    \/ Write(c)
    \/ RestrictToOwner(c)

Next ==
    \/ \E c \in Connections : Load(c) \/ Proceed(c) \/ Timeout(c) \/ SaveFails(c)
    \/ \E c \in Connections, d \in Decisions : Answer(c, d)
    \/ Crash

Spec == Init /\ [][Next]_vars

(* A task that can run does, and the timer of an attempt goes off; nobody has
   to answer, and nothing has to fail. *)
Fairness == \A c \in Connections : WF_vars(Proceed(c)) /\ WF_vars(Timeout(c))

------------------------------------------------------------------------------
(* Properties. *)

(* check_server_key, handler.rs:181-235: a connection goes on with the key its
   server presented only if the database it loaded trusts that key, or if it
   neither trusts, contradicts nor revokes it, the policy lets the user decide
   and the user said yes. *)
ConnectedWasVerified ==
    \A c \in Connections : accepted[c] # {} =>
        /\ accepted[c] = {key[c]}
        /\ \/ Status(db[c], target[c], key[c]) = "Trusted"
           \/ /\ Status(db[c], target[c], key[c]) = "Unknown"
              /\ policy[c] = "AcceptNew" /\ decision[c] = "AcceptOnce"
        /\ decision[c] # "none" => policy[c] = "AcceptNew"

(* accept and save, known_hosts.rs:428-490: whatever connections load from and
   write over one file, and wherever a write is cut short, no line of it has a
   key other than those it had to begin with and those the user accepted, but
   for keys that were cut; and as long as no save begins while another one is
   writing, a line also has the marker, the algorithm and the hosts it had, or
   those of the connection the key was accepted for. *)
Genuine ==
    {first.lines[i] : i \in DOMAIN first.lines}
    \cup {Recorded(target[c], key[c]) : c \in {d \in Connections : decision[d] = "AcceptAndSave"}}
LinesAreGenuine ==
    \A i \in DOMAIN file.lines :
        /\ file.lines[i].key \in {Broken} \cup {line.key : line \in Genuine}
        /\ ~overlapped => \E line \in Genuine : file.lines[i] \in Cuts(line)

(* accept, known_hosts.rs:434-438, as check_server_key calls it: the lines it
   would replace are those that made the key "changed", and then nobody is
   asked; so accepting a key takes no line away, of this host or of another
   that shares the line. *)
AcceptOnlyAdds ==
    [][\A c \in Connections : pc[c] = "asked" =>
          SubSeq(db'[c], 1, Len(db[c])) = db[c]]_vars

(* connect, session.rs:233-244: an attempt ends, though nobody answers. *)
EveryAttemptEnds == \A c \in Connections : pc[c] # "idle" ~> pc[c] \in Ended

------------------------------------------------------------------------------
(* Statements of the repository that its code does not keep. *)

(* docs/SECURITY.md:23, "`@revoked` lines are honoured": nobody connects to a
   host with a key that a line of its database revokes for that host. *)
RevokedLinesAreHonoured ==
    \A c \in Connections : pc[c] = "connected" =>
        \A i \in Applying(db[c], target[c]) :
            db[c][i].marker = "revoked" => db[c][i].key # key[c]

(* rdt-types/src/proto.rs:174, "Unknown keys are recorded automatically":
   under AcceptNew nobody is asked. *)
AcceptNewNeverAsks ==
    \A c \in Connections : policy[c] = "AcceptNew" => pc[c] # "asked"
==============================================================================
